# Verification of the individuality pallets

This directory models the individuality runtime (FRAME pallets that run a
"people" parachain and the parachains that rely on it) in TLA+, checks the models
with TLC on small instances, and proves theorems about them with TLAPS.  The Rust
code under `src/` is the reference; `PROJECT.json` maps every definition to the
lines it models.

## 1. The system

The people chain recognises persons, keeps their keys in *rings* (sets of
member keys with one cryptographic root each) and lets them prove anonymously
that they belong to a ring.  Other parachains hold copies of the ring roots so
that the same proofs work there.  On top of it there are ways to become a
person (proof of ink, video games, vouching), juries that judge evidence, and
things persons are entitled to (names, NFT credits, coins, airdrops, gas).

| Component | State | Operations | Talks to |
|---|---|---|---|
| `members` | collections, onboarding queue pages, ring keys, ring status, roots and old roots, pending suspensions, deletion queue | create and delete collections, add and suspend members, onboard, build rings, merge rings and pages, clean up (authorized calls by the offchain worker) | `OnRingRootChange` hook to the notifier; `chunks-manager` for the crypto parameters; every pallet that owns a collection |
| `members-notifier` | subscribers, whitelist, paged buffer of changes, sealed batch, pending initialisations, replay times | subscribe, unsubscribe, request replay, seal, send, initialise, abandon | reads roots from `members`; XCM over HRMP to `members-subscriber` |
| `members-subscriber` | per collection and ring a window of root revisions, missing and deleted rings, subscription status, stale generations to purge | initialise, update, terminate, request replay, detect missing rings, purge | XCM to the notifier; verifies proofs for local pallets |
| `chunks-manager` | chunk pages of the crypto parameters per ring exponent | add chunks, read ranges | `members` |
| `alias-accounts` | account and alias maps, times of links and of reported staleness | link, re-prove, unlink, report, sweep | windows of roots in `members-subscriber` |
| `people-multi`, `people-lite`, `dummy-dim` | persons and their keys, reserved ids, links of aliases and accounts, allowances and paid registrations | reserve, recognise, suspend, migrate keys in sessions, link, clean up; attest, register | own collections of `members` |
| `honour` | points, votes, tally | bestow, redirect, vote | ring proofs |
| `proof-of-ink` | candidates, people, referral tickets, designs, invitations, reimbursements | apply, refer, commit, submit evidence, be judged, register, leave | asks `mob-rule` through `StatementOracle`; recognises persons |
| `mob-rule` | cases, votes, points, payout schedules and rounds | open, vote, ripen, close, clean, claim, pay | calls back the pallet that opened the case |
| `nft-credits`, `nft-claims` | awards, trees and their indexes, trees to deliver, replay times; trees received, open claims, deletions to report | award, build, deliver, replay, expire; receive, claim through a contract, expire, report | XCM both ways between the people chain and Asset Hub |
| `coinage` | coins with age and value, recyclers with queues, rings and archives, locks of failed calls, free and paid unload tokens, deposits of loads | transfer, split, load, onboard, unload, archive, recover, clean up, charge, settle | append-only collections of `members`, asset pallets |
| `pgas`, `origin-restriction` | claims of a day; usage allowances | claim, clean; charge, refund | fees of transactions |
| `game`, `score` | phases, groups, reports, attendance; points | play, report, conclude | recognise persons, ask `nft-credits` for awards |
| `airdrop`, `people-airdrops`, `scarcity`, `resources`, `dotns-gateway` | events and entries; supply; names and allowances | register, claim, clean up, expire | assets, other chains |
| `relay-randomness`, `network-suffix`, `support`, `precompiles`, runtimes | stored randomness; helper traits; contract interfaces; configuration | - | - |

### What is hard here

* Work is split over many small *authorized* transactions that offchain workers
  of all collators submit: any order, any repetition, any delay, each checked
  again against the state when it is dispatched.
* Ring roots, and trees of credits, cross chains through XCM, which may fail to be
  sent, arrive later than newer knowledge, or be lost to a chain that is not
  subscribed any more.
* Positions, pages and counters are stored redundantly (an entry of `Members`
  names a page and a position, the page holds the key), and several calls change
  one side in one block and the other side in a later one.
* Transactions are checked, charged and dispatched in three steps.  A call that
  fails has been paid for, and what its extension took is settled afterwards.
* A callback may fail or call back: a contract that is given a credit may claim
  again, a verdict may be refused by the pallet that asked for it.
* Buffers, windows, queues and scans are bounded; what happens at the bound is
  part of the behaviour.
* Timeouts (stuck batches, replay cooldowns, retention of old roots, grace periods,
  voting periods) race with late success.

`PROJECT.json` lists the hazards at their lines, each with the properties that
would catch it.

### What makes each component correct

| Component | Correct means |
|---|---|
| `members` | keys are where their entries say; a root covers exactly the keys it should; every ring with uncovered keys gets built; a proof is accepted until its retention ends; a deletion ends and leaves nothing |
| `members-notifier` | no change of a root is lost silently; a batch ends and is counted exactly; the page buffer survives wrap-around |
| `members-subscriber` | no gap is overlooked; a purge never touches live roots; windows hold a revision once |
| both together | when nothing is under way both chains hold the same roots; the subscriber never goes back to an older root |
| `people-*`, `alias-accounts` | one key per person; alias and account maps stay inverse; a link is swept no earlier than its grace period allows, and in the end |
| `mob-rule`, `proof-of-ink` | a verdict is that of the votes; a case is answered once; what is promised is held; a person is proven only by accepted evidence |
| `nft-credits`, `nft-claims` | a credit is minted at most once although it crosses chains, and is never lost while it can be claimed |
| `coinage` | coins and keys are backed by what was paid in; a key is paid out once for each ring it was in, whatever fails; deposits are returned as they were taken |
| tokens, `honour`, `pgas`, `origin-restriction`, `people-lite` | an allowance is used at most as often as it was given |
| `game`, `score`, `scarcity`, `airdrop` | phases never go back; points are earned once; supply is conserved |

## 2. Modules

A component's constants, variables and types are in the `...State` module where
several modules share them; `MC...` modules put small instances together for TLC,
and `...Proofs` modules hold theorems.

| Module | Models | Kind |
|---|---|---|
| `NotifierState`, `MembersNotifier` | `pallets/members-notifier`, with the root provider of `members` as environment | component |
| `SubscriberState`, `MembersSubscriber` | `pallets/members-subscriber` | component |
| `RingRootSync` | both pallets on their chains and the HRMP channels between them | composition of the two by `INSTANCE` |
| `MemberRingsState`, `MemberRings` | `pallets/members`, one collection | component |
| `SparseRings` | `MemberRings` from rings that were filled and have lost most keys | another initial state |
| `AliasAccounts` | `pallets/alias-accounts`, with the windows of its roots | component |
| `PeopleMulti`, `DummyDim` | `pallets/people-multi`, and `pallets/dummy-dim` on top of it | component, composition |
| `PeopleLite` | `pallets/people-lite` | component |
| `NftCredits`, `NftClaims` | the two pallets | components |
| `NftDelivery` | both chains and the channels between them | composition |
| `CreditLedger` | what the two promise: a credit is earned, and minted at most once | abstract specification |
| `MobRule`, `ProofOfInk` | the two pallets | components |
| `StatementOracle` | what one promises the other: a statement is answered once, and the answer reaches who asked or is refused | abstract specification |
| `Coinage`, `CoinagePot`, `CoinageTokens` | `pallets/coinage`: coins and recyclers; the pot of deposits; unload tokens | component in three parts |
| `Honour`, `OriginRestriction`, `Pgas`, `ChunksManager` | the pallets of these names | components |
| `MembersNotifierProofs`, `MembersSubscriberProofs`, `RingRootSyncProofs`, `MemberRingsProofs`, `AliasAccountsProofs`, `CoinageProofs`, `MobRuleProofs`, `NftProofs` | - | theorems |

Conventions.  A variable has the name of the storage item it models, an action
the name of the call or function.  A call that returns an error is rolled back
by FRAME, changes nothing, and is no step.  A call for an authorized transaction
has the guard of its `authorize_*`/`ensure_can_*` function and of the body, since
both run against the same state.  Values cryptography determines (ring roots) are
reduced to what they commit to.  Definitions marked *Mutant* are plausible bugs
used to check that the properties can fail; no action uses them.

### Ring roots: MembersNotifier, MembersSubscriber, RingRootSync

*Notifier.*  State: the subscribers with their collections, the paged buffer of changes
(`PageState`, `PendingUpdates`, `PageUpdatesCount`), the sealed batch
(`SealedBatchIndices`, `CurrentBatch`, `SubscribersWithCurrentBatch`), the
initialisations under way (`PendingInit`, `InitState`) and the replay times.  The
roots themselves (`Root`, `CurrentRingIndex`, `DeletedCollections`) stand for
`members`.  `behind` and `missed` are history: what a subscriber has not been
sent since it changed, and what was in a batch it was skipped in or that was
abandoned.  The room in a channel is chosen anew for each send, so that a send
may send all, some or no chunks.  Roots are visited in an order the storage
hashes determine (`StorageOrder`).

*Subscriber.*  State: `RingRoots` under a generation number, the state the gap scan uses per
collection, the subscription and its sequence numbers.  The notifier is the
environment and may send anything: any content, any sequence, any order.
`given_up` is history: rings the scan passed that the code stopped asking for.

*Both.*  In `RingRootSync` instances of both components share the clock.  A step of a component
that sends appends to a channel; a channel keeps order and loses nothing, which HRMP
guarantees, but a message may fail to be sent and its call may be refused on
arrival.  `epoch` and `store_epoch` are history and tell which subscription a
store began with.  The composition assumes that every change of a root calls the
hook; section 6 says where `members` does not.

### Rings: MemberRings

Every storage item of `members` is keyed by the collection first and no call
touches two, so one collection is modelled.  A root is the sequence of keys that
were pushed into it.  `StatusKeys` and `QueueKeys` say which entries of
`RingKeysStatus` and `OnboardingQueue` exist, because the deletion waits for
entries, the empty ones too.  `announced` is history: what the hook last said of a
ring.  What the callers of the pallet do is assumed as they do it: members are
removed from flexible collections only (`people-multi`), rings from append-only
ones only (`coinage`), and nobody removes members of a collection that is being
deleted.  A batch of keys is a run of calls with one key each.  Two branches are
left out because a property shows that they are never taken: the second attempt
of `available_ring` when the current ring is full (`CountsExact`) and
`mark_ring_stale_authorized` (`NoRingLost`, proved).

### Links: AliasAccounts, PeopleMulti, DummyDim, PeopleLite

`AliasAccounts` keeps times as ages, which stop at `MappingRetention`, after which no
comparison tells them apart; the windows of roots arrive with any delay up to `MaxDelay`,
age, and may be lost.  `refused` and `revived` are history: for how long a link has been
refused, and whether it was accepted again while a report stood.  In `PeopleMulti` a proof is
accepted or refused by the revision of its ring, and an extension that wrote before its
call failed keeps what it wrote.  `PeopleLite` adds allowances, the cap and the throttle.

### Judgement: MobRule, ProofOfInk

`MobRule` keeps a tally per case as the code does (a vote that changes is discounted, then
counted) and decides by turnout, certainty or a required approval that falls with time.
`callbacks` is history: the verdicts a case's callback was dispatched with.  A callback that
fails is seen in `ProofOfInk`, which meets the oracle only through `StatementOracle`; the
abstract oracle gives out tickets and answers each at most once.

### Credits: NftCredits, NftClaims, NftDelivery

A hash is its preimage: a root is the sequence of its leaves, a leaf the credit.
`calls` is the stack of claims whose minter contract is running: the contract may claim
again, and its failure restores all that was there when its claim began.  `NftDelivery` joins
the chains by two channels that keep order and lose messages, with clocks that differ.
A batch is the set of its trees, as their order makes no difference to the receiver; the awards
of one report are made in order.  `dated`, `accepted`, `missing` are history.

### Coins: Coinage, CoinagePot, CoinageTokens

One instance of the pallet.  A value is an exponent; a recycler is a value and a ring index.
An unload that fails leaves its alias locked for a retry, which is how the extension and the
call of one transaction can disagree.  `CoinagePot` says what the loads and unloads of
`Coinage` do to deposits of two price tiers; `CoinageTokens` has the free and the paid tokens.

## 3. Runs

Every bound is a `CONSTANT` whose name starts with `Max` or a set in the `.cfg`;
limits of the pallets are 1 to 3 so that every buffer, page, window and queue is
full, wraps around and refuses within a few steps.  A run puts several small
instances side by side: a behaviour chooses one in its initial state (`instance`,
`part`, `pallet`, `alone`) and stays with it.

| Run | Instances | Checks |
|---|---|---|
| `notifier` | *batches*: 2 parachains, one collection that stays, timeouts of 1; *pages*: 2 rings, pages of one update, 3 page indices | `BatchAccounting`: the counter of a batch is the number of subscribers still to be served, whoever comes and goes.  `PagesConsistent` across wrap-around.  `ReplayTimesOwned`.  `NoSilentLoss`.  `BatchEnds`, liveness |
| `ring_removal` | of the subscriber *purge* (2 collections where 1 fits, 4 generations), *windows* (3 revisions, windows of 2), *scan* (3 rings, 1 missing and 2 deleted remembered); of `members` *deletion* | `StoreClean` (a purge leaves live roots alone, only initialised collections hold roots), `WindowsDistinct`, `ScanExact` (what the scan infers coverage from is exact, what it lists as missing are gaps), `GapsTracked` (below the cursor nothing is overlooked), `RemovalEnds`: purges and deletions finish, liveness |
| `sync` | *ring*: 1 ring, 2 revisions, 2 subscriptions, 2 messages per channel; *gaps*: 2 rings, scans and replays | `RootsAgree` once all is quiet; `NeverBack` |
| `rings` | *append*: 3 keys, rings of 2 keys on 2 pages, 3 queue pages, self-inclusion, removal, deletion; *flexible*: 2 queue pages that wrap, a session, suspensions; *merge*: 2 keys in sparse rings of 4 | `MembersExact`, `CountsMatch`, `RootExact`: positions, counts and roots are those of the stored keys.  `NoRingLost`, `NoResidue`, `AnnouncedExact`.  `ProofsKept`: retention, order of archived roots, immutable rings |
| `people` | *alias-accounts*: 2 accounts, 2 rings; *people-multi* with `dummy-dim`: 2 keys, 3 ids, one session | `LinksExact`, `AccountsExact`, `PeopleExact` (ids, history and `dummy-dim` agree), `GraceKept`, `StaleLinksGo`, liveness |
| `nft` | 3 credits of 2 claimants and 2 games; both chains with trees of 2 credits, or `nft-credits` alone with trees of 1 | `CreditsKept` (awarded credits are committed, indexed, and their proofs served), `ClaimsKept` (an open claim is never lost), `GapsReported`, `LedgerKept`: the chains together implement `CreditLedger` |
| `judgement` | *cases*: 3 voters; *payouts*: 2 voters, 2 cases; of `proof-of-ink` *one*, *late*, *two* candidates | `VerdictsKept` (tallies, verdicts, each vote accounted for, early verdicts firm), `PayoutsExact` (points and holds), `OracleKept`: `mob-rule` implements `StatementOracle`, `CandidatesExact`, `JudgedByEvidence`, `DecisionsStand` (a timed-out case closes, liveness; a ban stays) |
| `economy` | *coins*, *rings*, *again* (keys loaded again after cleaning), *deposits*, *prices*, *free* and *paid* tokens, *people-lite*, *honour*, *origin-restriction*, *pgas*, *chunks-manager* | `Backed` (coins, keys, pot and deposits), `PaidOutOnce`, `RecyclersExact`, `UsedOnce` (tokens, allowances, votes, gas), `LiteAccountsExact`, `ChunksExact` |
| `sync_ends`, `members_hook`, `judgement_shares`, `judgement_resubmit` | one of the above each | violations, see section 6 |

Why the bounds are enough.  The effects at issue need two actors (two
subscribers, or a key that leaves and one that stays), a limit that is reached
and one step more, and one repetition (a second batch, a second subscription, a
second build).  Each instance has those, and each property has a mutant, a
plausible bug in the definition `PROJECT.json` names, that TLC finds within the
same instance.  The keys of `rings` are symmetric (no action tells them apart and no
liveness is checked there).  *merge* starts from two rings that were filled and lost all keys
but one, which takes more steps than TLC can enumerate; `SparseRings` says how the program
gets there.

Deadlock is checked in `notifier` and `sync`.  In the other runs the system may rightly
stop: a deleted collection, a case or a recycler at the end of its life, or the bound of a clock.

### Fairness

Only weak fairness of single calls that offchain workers submit whenever they are due, and of
time; no property depends on anything users do.

* `BatchEnds`: time passes, and `abandon_stuck_batch` is submitted (`members-notifier`
  `lib.rs:912`, in every block).  Sends may never succeed.
* `RemovalEnds`: `submit_ring_purge_if_due`, and the five calls the offchain worker of `members`
  submits for a collection being deleted (`lib.rs:471`).
* `StaleLinksGo`: time and the sweep of `alias-accounts`, per account since every sweep reads
  every mapping; the offchain worker of `people-multi` and its clean-up calls.
* `DecisionsStand`: `close_case` and `force_ripen_case` of `mob-rule`.

## 4. Proofs

The theorems hold for every value of the constants that satisfies the assumptions the
component's module names (finite sets, positive sizes, what `integrity_test` and the
configurations guarantee).  Each proof has an inductive invariant, a lemma per
action, and lemmas for what actions share.

| Module | Theorems (property of a run) |
|---|---|
| `MembersNotifierProofs` | `TypeCorrect`, `CollectionsCorrect`, `PagesCorrect` (`PagesConsistent`), `BatchCorrect` (`BatchAccounting`), `LossCorrect` (`NoSilentLoss`), `ReplayCorrect` (`ReplayTimesOwned`) |
| `MembersSubscriberProofs` | `TypeCorrect`, `StoreCorrect` (`StoreClean`), `WindowsCorrect` (`WindowsDistinct`), `ScanCorrect` (`ScanExact`), `GapsCorrect` (`GapsTracked`) |
| `RingRootSyncProofs` | `ChannelOrdered`, `NeverBackCorrect` (`NeverBack`) |
| `MemberRingsProofs` | rings: `Invariant`, `LostCorrect` (`NoRingLost`), `AnnouncedCorrect` (`AnnouncedExact`), `ProofsCorrect` (`ProofsKept`); keys: `KeysInvariant`, `MembersCorrect` (`MembersExact`), `RootsCorrect` (`RootExact`), `NoResidueCorrect` (`NoResidue`), `CountsCorrect` (`CountsExact`, which the run checks as `CountsMatch`) |
| `AliasAccountsProofs` | `TypeCorrect`, `LinksCorrect` (`LinksExact`), `GraceCorrect` (`GraceKept`) |
| `CoinageProofs` | `PaidOutCorrect` (`PaidOutOnce`), `RecyclersCorrect` (`RecyclersExact`) |
| `MobRuleProofs` | `Invariant`, `OracleCorrect` (`OracleKept`, a refinement), `VerdictsCorrect` (`VerdictsKept`) |
| `NftProofs` | `Invariant`, `LedgerCorrect` (`LedgerKept`, a refinement), `ClaimsCorrect` (`ClaimsKept`), `GapsCorrect` (`GapsReported`) |

* **Notifier.**  `PagesConsistent` is inductive with the types; its clause on
  pages out of use is what makes it so: the write page moves to a
  page that is empty because it is out of use.  `BatchAccounting` needs `InitBounded` (a
  subscription starts at a sequence already given out): without it a subscriber could start
  later and not count for the next batch when that is sealed, while the
  number to be served is taken from all.  `NoSilentLoss` follows from the three; the
  cases that matter are the last subscriber of a batch, the page of an
  initialisation (a ring leaves the scheduled ones exactly when it is sent), and sealing.
* **Subscriber.**  The invariant joins `StoreClean` and, per collection, `Covered` (the counters
  are those of the stored rings), `Gaps` (missing rings are gaps, within the limits of
  the list) and `Tracked` (below the cursor a ring is stored, deleted, missing or given up).  The
  scan moves its cursor only past rings it has classified, so each is needed for the others:
  the shortcut the scan takes for a collection without gaps is right because of `Covered`.
* **Both chains.**  The sequence number does not protect the subscriber: two messages with the same
  number may carry different roots, a replay repeats the last number, and `store_ring_roots`
  appends any revision that its window does not hold.  That `NeverBack` holds nevertheless is due to
  the channel and to roots being resolved when a message is sent.  The invariant of
  `ChannelOrdered` says it for every ring: what the subscriber has last, the messages on
  their way, in order, and the root of the notifier form a sequence that never decreases
  (`StoreBehind`, `ChannelInOrder`, `ChannelIssued`); and where the notifier has no root, a ring that
  was ever sent is retired, so that no count starts again at 0 (`Issued`).  Generations to
  come are empty (`FutureEmpty`), which is why a purge of older ones and the start of a new
  one keep it.  It is proved for any number of collections, rings, revisions, generations
  and messages on their way, from channels that keep their order and from an index that is
  not used again after its ring is removed: a ring that lost its root gets no key again
  (`Invariant` of `MemberRingsProofs`), and the identifier of a deleted collection is retired.
* **Member rings.**  Per ring: `StatusOK` (no more keys included than there are; uncovered keys
  make a ring stale; an immutable ring is full and append-only; suspensions wait only in
  flexible collections), `PlaceOK` (pages hold as many keys as the status says; rings ahead of
  the current one are empty and have no root; a *dead* ring, whose root was archived without a
  successor, lies behind the current one and has no keys; pages queued for deletion belong
  to rings without status) and `HookOK`.  Beside them: the ring being filled has room, and archived
  roots precede the current one and are ordered.  Dead rings are the point of it: building one
  again would start at revision 0, below archived revisions, and `ProofsKept` would fail.  That
  positions are renumbered without loss when suspended keys are removed rests on a lemma
  that the rank of the kept positions is a bijection.
* **Member keys.**  Beside the invariant of the rings, `KeysInv` ties entries and storage to each
  other from both ends: `Held` and `Known` (a key is at the position of its entry; a key of a
  ring has that entry, unless its position is to be removed), `Queued` and `QueuePageOK` (the same
  for the queue, each key once), `GoneOK` (of a ring without a status only pages that wait to be
  deleted are left), `RootedOK` and `Counted`.  Neither direction of a pair is inductive without
  the other: that a key pushed to a ring is nowhere else follows from its entry.  A merge
  of rings or of queue pages, an onboarding that takes keys from two pages of a queue that wraps,
  and the renumbering after suspensions each move many entries at once; `PushKeys`,
  `KeysLeaveQueue`, `CountMove` and `Numbering` say what such a move keeps.  `NoResidue`
  follows because a ring can lose its status only when its pages are queued for deletion, and
  finalizing waits for that queue.  `MembersExact`, `RootExact` and `NoResidue` mention no size, so
  that one definition is checked on all instances and proved.
* **Alias accounts.**  `GraceKept` needs an invariant on time: windows are ordered by age, a
  link that is refused has waited since the newest root of its ring, and a report that
  stands belongs to a refused link and is dated no earlier than that.
* **Coinage.**  Every ring is live or cleaned, the rings of a value are cleaned in the order of
  their index, a key is in one place (a queue, or one ring not cleaned), and only coins are
  locked.  `PaidOutOnce` follows across failed calls and archives.
* **Mob rule.**  A case is open, ripe or done in this order; its callback was not dispatched
  before it is done; a case to come has no votes.  With that, the tally of an open case is the
  count of the stored votes (`CountedIs`: changing a vote moves one vote, by cardinality),
  so the verdict a case ripens with is that of the votes, and closing and intervening are each
  one step of the oracle.  An early verdict is firm because the required approval never falls
  below half (`PassingIsMajority`).
* **Credits.**  The two chains keep copies of trees and forget them at different times, so that
  no variable holds what they have in common.  The invariant says that there is a `W`, the
  tree of every block for all time (a buffer is the tree that will be built over it), with
  which buffers, roots, batches on their way, stored trees, spent leaves and deletions agree;
  a step of the game's chain may make `W` grow at the blocks not yet ended.  A leaf minted stays
  spent until its tree has expired and can not be stored again, which is why an entry may leave
  `TreeExpiries` only then.  A tree is `Closed`, and its root may go, when it has expired or each
  of its leaves is minted for good.  For claims within claims the same is said of the state that
  each claim under way returns to when it fails (`Before`), with the leaves of the claims
  around it spent but not minted: a claim that fails restores one of these states, and one that
  succeeds mints a leaf that nothing else can mint.  The refinement maps the mints to those of the
  outermost claim's `before`.  It assumes of the configuration that a root's grace covers
  the skew of the clocks (`RuntimesAgree`), which `ClaimsCorrect` needs.

Only model-checked, and why:

* liveness (`BatchEnds`, `RemovalEnds`, `StaleLinksGo`, `TimedOutCloses`): the prover does not
  handle fairness;
* what sums or folds over data (`PayoutsExact`, `Backed`, `CreditsKept`, `UsedOnce`): it takes
  induction over sets or sequences for operators the provers cannot instantiate;
* `RootsAgree` of `RingRootSync` and the properties of people, candidates and the small
  pallets: not yet proved.

## 5. Not modelled

The encoding, weights and fees of transactions and XCM programs; the cryptography
of rings and proofs; deposits unless a property is about them; genesis beyond an empty store;
storage migrations; benchmarks and test helpers.  The pallets `game`, `score`, `airdrop`,
`people-airdrops`, `scarcity`, `resources` and `dotns-gateway` have no module yet;
`relay-randomness`, `network-suffix`, `support`, the precompiles and the runtimes keep no state
of their own that a property would be about, and appear as constants or inputs.  Of `coinage` the
calls that create an instance are left out.  `PROJECT.json` has the reason for each.

## 6. Disagreements found

* `EndsOnBothSides` (`sync_ends`).  The documentation of the subscriber says that
  `terminate_subscription` "also ends the subscription on the notifier side".  A page of
  the initialisation that is in flight when the subscriber terminates makes it
  active again, since `initialize_ring_roots` does not look at `Terminated`; the
  notifier then drops the subscription, and the subscriber keeps roots that
  nobody updates.
* `HookHeard` (`members_hook`).  The hook is "called after a ring root is inserted,
  updated, or deleted", but `remove_suspended_keys` replaces a root without calling
  it.  Until the ring is built again subscribers accept the root that covers the
  suspended members, and for a ring that the suspensions empty no build follows.
  `AnnouncedExact` states what does hold.
* `SharesPaid` (`judgement_shares`).  "Funds to be paid out are held during the scheduled
  payout rounds", and `claim_credit` asserts that what it releases is the share.  A schedule with
  a count of zero is accepted, holds nothing, and is paid out as one round.
* `Resubmits` (`judgement_resubmit`).  "Allow a new submission": when the allocation cannot be
  refreshed the whole callback is undone while the case is closed, and the candidate waits for a
  verdict that came.

## 7. Observations without a run

* Source times.  A subscriber takes the source time of a root's successor for "the
  moment it stopped being the latest on the source chain" (`members-subscriber`
  `lib.rs:1327`).  The notifier stamps initialisation pages with the time of the
  subscription and batches with the time of sealing (`lib.rs:1497`, `1546`, `1399`),
  but reads roots when it sends, so a predecessor can expire early.
* The documentation of `initialize_ring_roots` (`members-subscriber` `lib.rs:473`) says
  that it "rejects calls with a different sequence while subscription is `Active`"; the
  code (`lib.rs:494`, `502`) rejects lower sequences and re-initialises for higher ones,
  as its own comment says.
* The replay cooldown of a subscriber is global (`lib.rs:757`): a collection with many gaps delays
  the others.
* `merge_rings` archives the target's root "so revision-based proof verification can
  keep accepting in-flight transactions", but `get_root_at_revision` refuses every
  revision of a ring that has no root.
* `onboard_members` asserts (defensively) that the second queue page is not empty;
  suspensions during a session can empty it before pages are merged.
* `remove_suspended_keys` says that the next build needs at least `OnboardingSize`
  members; `build_ring` has no such condition.
* A queue could wait for ever if a ring has room for more keys than two queue pages
  hold and the onboarding size is above one; the shipped configurations exclude it.
* `merge_rings` and `remove_ring` do not look at removals under way in ways that
  only a caller the repository does not have could reach.
* `proof-of-ink` `lib.rs:1631-1666`: the indices drawn from an entropy may coincide.
* `mob-rule` `lib.rs:1514-1551`: the offchain worker cleans votes of done cases, so the votes of a
  case that is reaped first stay until somebody else cleans them.  The comment of
  `collapsed` speaks of more votes of contempt than against; the code takes as many.
* `coinage`: the documentation of `pay_for_recycler_unload_fee_token_with_coin` and that of
  `validate_recycler_revision` (a ring that "is destroyed" is archived) are behind the code, and
  keys still queued when a paid-token collection is deleted stay in `PaidUnloadTokenMembers`.

## 8. Plan

To prove next: `RootsAgree`; `PeopleExact` and `AccountsExact`; the award side of
`CreditsKept`.  To model next: `game` with `score`; `airdrop` with `people-airdrops`; `scarcity`; `resources`.

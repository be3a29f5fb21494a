---------------------------- MODULE AliasAccounts ----------------------------
(***************************************************************************)
(* pallets/alias-accounts: accounts linked to ring aliases on a subscriber *)
(* chain, with the ring and the revision each link was proved against.  A  *)
(* link whose revision is no longer accepted is reported by the offchain   *)
(* worker's sweep and removed when the report is MappingRetention old.     *)
(*                                                                         *)
(* An alias stands for its collection and its context, and the rings are   *)
(* those of the collection.  Proofs are sound; a call with a proof that is *)
(* out of its time window, or that cannot pay the fee, changes nothing.    *)
(* Times are kept as ages: what happened at time t has age now - t, up to  *)
(* MappingRetention, after which no comparison tells ages apart.  The      *)
(* windows of ring roots are those of members-subscriber.                  *)
(***************************************************************************)
EXTENDS Integers, FiniteSets, Sequences

CONSTANTS
    Account,
    Alias,
    RingIndex,
    NoAlias, NoAccount,
    MappingRetention,
    OldRootRetentionDuration,
    MaxRecentRootsPerRing,
    MaxStaleAliasBatch,
    MaxDelay,                   \* a root arrives at most this long after its source time
    MaxSkew,                    \* the source chain's clock is at most this far ahead
    MaxRevision                 \* bound on the rebuilds of a ring

ASSUME AliasAssumption == NoAccount \notin Account /\ NoAlias \notin Alias

ASSUME RetentionAssumption ==   \* integrity_test
    /\ OldRootRetentionDuration \in Nat
    /\ MappingRetention \in Nat /\ MappingRetention > OldRootRetentionDuration
    /\ MaxRecentRootsPerRing \in Nat \ {0}
    /\ MaxStaleAliasBatch \in Nat \ {0}
    /\ MaxDelay \in Nat /\ MaxSkew \in Nat /\ MaxRevision \in Nat

VARIABLES
    AliasToAccount,
    AccountToAlias,             \* account -> [alias, ring, revision], Unlinked if none
    StaleSince,                 \* account -> age of the report, NoStamp if none
    sufficients,                \* references the pallet holds on each account
    Window,                     \* members-subscriber: ring -> recent roots, newest last
    Revision,                   \* the source chain: revision of each ring
    refused,                    \* history: how long the revision of the link was refused
    revived                     \* history: accepted again with the report still there

links == <<AliasToAccount, AccountToAlias, StaleSince, sufficients>>
rings == <<Window, Revision>>
history == <<refused, revived>>
vars == <<links, rings, history>>

NoStamp == - MaxSkew - 1        \* younger than any root
Unlinked == [alias |-> NoAlias]
Link == [alias : Alias, ring : RingIndex, revision : 0 .. MaxRevision]
RootRecord == [revision : 0 .. MaxRevision, age : Int]
Linked(a) == AccountToAlias[a] # Unlinked

-----------------------------------------------------------------------------
(* members-subscriber *)

\* A superseded root is accepted for a time that counts from its successor's.
Accepts(window, revision) ==
    \E i \in 1 .. Len(window) :
        /\ window[i].revision = revision
        /\ i < Len(window) => window[i + 1].age < OldRootRetentionDuration

is_revision_valid(info) == Accepts(Window[info.ring], info.revision)

\* The cap is for a source clock that is ahead.
stale_since(ring) ==
    LET window == Window[ring]
    IN  IF window # <<>> /\ window[Len(window)].age > 0 THEN window[Len(window)].age ELSE 0

Older(age) == IF age < MappingRetention THEN age + 1 ELSE age

\* What the links are held to once the windows are new and time has passed.
Judge(newer, time) ==
    LET link(a) == AccountToAlias[a]
        valid(a) == Linked(a) /\ Accepts(newer[link(a).ring], link(a).revision)
        was_valid(a) == Linked(a) /\ is_revision_valid(link(a))
    IN  /\ refused' = [a \in Account |-> IF ~ Linked(a) \/ valid(a) \/ was_valid(a) THEN 0
                                         ELSE IF time THEN Older(refused[a]) ELSE refused[a]]
        /\ revived' = [a \in Account |->
              revived[a] \/ (valid(a) /\ ~ was_valid(a) /\ StaleSince[a] # NoStamp)]

SetWindows(newer, time) ==
    Window' = newer /\ Judge(newer, time)

Recent(window) ==
    IF Len(window) > MaxRecentRootsPerRing THEN Tail(window) ELSE window

\* The newest root of a ring arrives, with the source time of its message.
RootArrives(r, age) ==
    LET window == Window[r]
    IN  /\ \/ Revision[r] < MaxRevision /\ Revision' = [Revision EXCEPT ![r] = @ + 1]  \* bound
           \/ window = <<>> /\ UNCHANGED Revision
        /\ age \in - MaxSkew .. MaxDelay
        /\ window # <<>> => age <= window[Len(window)].age
        /\ SetWindows([Window EXCEPT ![r] =
                          Recent(Append(@, [revision |-> Revision'[r], age |-> age]))], FALSE)
        /\ UNCHANGED links

\* The subscription ends, or the ring is deleted.
RootsLost(r) ==
    /\ Window[r] # <<>>
    /\ SetWindows([Window EXCEPT ![r] = <<>>], FALSE)
    /\ UNCHANGED <<links, Revision>>

Tick ==
    /\ SetWindows([r \in RingIndex |-> [i \in 1 .. Len(Window[r]) |->
                      [Window[r][i] EXCEPT !.age = Older(@)]]], TRUE)
    /\ StaleSince' = [a \in Account |-> IF StaleSince[a] = NoStamp THEN NoStamp
                                        ELSE Older(StaleSince[a])]
    /\ UNCHANGED <<AliasToAccount, AccountToAlias, sufficients, Revision>>

-----------------------------------------------------------------------------
(* Calls *)

\* The history of a link begins again when the account's link is written or removed.
Forget(accounts) ==
    /\ refused' = [a \in Account |-> IF a \in accounts THEN 0 ELSE refused[a]]
    /\ revived' = [a \in Account |-> a \notin accounts /\ revived[a]]

\* Mutant: the link is removed in one direction.
Unlink_one_way(accounts) ==
    /\ AccountToAlias' = [a \in Account |-> IF a \in accounts THEN Unlinked ELSE AccountToAlias[a]]
    /\ UNCHANGED AliasToAccount
    /\ StaleSince' = [a \in Account |-> IF a \in accounts THEN NoStamp ELSE StaleSince[a]]
    /\ sufficients' = [a \in Account |-> sufficients[a] - IF a \in accounts THEN 1 ELSE 0]
    /\ Forget(accounts)

Unlink(accounts) ==
    /\ AccountToAlias' = [a \in Account |-> IF a \in accounts THEN Unlinked ELSE AccountToAlias[a]]
    /\ AliasToAccount' = [x \in Alias |-> IF \E a \in accounts : AccountToAlias[a].alias = x
                                          THEN NoAccount ELSE AliasToAccount[x]]
    /\ StaleSince' = [a \in Account |-> IF a \in accounts THEN NoStamp ELSE StaleSince[a]]
    /\ sufficients' = [a \in Account |-> sufficients[a] - IF a \in accounts THEN 1 ELSE 0]
    /\ Forget(accounts)

unset_alias_account(who) ==
    Linked(who) /\ Unlink({who}) /\ UNCHANGED rings

\* The signer proves the alias on a revision that is accepted, and pays.  Any such
\* revision will do, one older than that of the link too.
set_alias_account(who, info) ==
    LET old == {a \in Account : a = AliasToAccount[info.alias]}
        is_new_account == old # {who}
    IN  /\ is_revision_valid(info)
        /\ is_new_account \/ AccountToAlias[who] # info
        /\ is_new_account => ~ Linked(who)
        /\ sufficients' = [a \in Account |->
                              sufficients[a] + (IF a = who /\ is_new_account THEN 1 ELSE 0)
                                             - (IF a \in old /\ is_new_account THEN 1 ELSE 0)]
        /\ AccountToAlias' = [a \in Account |-> IF a = who THEN info
                                                ELSE IF a \in old THEN Unlinked
                                                ELSE AccountToAlias[a]]
        /\ AliasToAccount' = [AliasToAccount EXCEPT ![info.alias] = who]
        /\ StaleSince' = [a \in Account |-> IF a \in {who} \union old THEN NoStamp
                                            ELSE StaleSince[a]]
        /\ Forget({who} \union old)
        /\ UNCHANGED rings

\* Mutant: the report outlives the new proof.
reprove_alias_account_keeps_stamp(who, ring, revision) ==
    LET old_info == AccountToAlias[who]
        new_info == [alias |-> old_info.alias, ring |-> ring, revision |-> revision]
    IN  /\ Linked(who)
        /\ is_revision_valid(new_info)
        /\ ring # old_info.ring \/ revision > old_info.revision
        /\ AccountToAlias' = [AccountToAlias EXCEPT ![who] = new_info]
        /\ Forget({who})
        /\ UNCHANGED <<AliasToAccount, StaleSince, sufficients, rings>>

\* Free: forward on the same ring, or to another ring.
reprove_alias_account(who, ring, revision) ==
    LET old_info == AccountToAlias[who]
        new_info == [alias |-> old_info.alias, ring |-> ring, revision |-> revision]
    IN  /\ Linked(who)
        /\ is_revision_valid(new_info)
        /\ ring # old_info.ring \/ revision > old_info.revision
        /\ AccountToAlias' = [AccountToAlias EXCEPT ![who] = new_info]
        /\ StaleSince' = [StaleSince EXCEPT ![who] = NoStamp]
        /\ Forget({who})
        /\ UNCHANGED <<AliasToAccount, sufficients, rings>>

-----------------------------------------------------------------------------
(* The sweep *)

\* Mutant: a report that is being waited out is made again.
stale_alias_action_restamps(a) ==
    IF ~ Linked(a) THEN "None"
    ELSE IF is_revision_valid(AccountToAlias[a])
         THEN IF StaleSince[a] # NoStamp THEN "ClearReport" ELSE "None"
    ELSE IF StaleSince[a] < MappingRetention THEN "Report" ELSE "Retire"

stale_alias_action(a) ==
    IF ~ Linked(a) THEN "None"
    ELSE IF is_revision_valid(AccountToAlias[a])
         THEN IF StaleSince[a] # NoStamp THEN "ClearReport" ELSE "None"
    ELSE IF StaleSince[a] = NoStamp THEN "Report"
    ELSE IF StaleSince[a] >= MappingRetention THEN "Retire" ELSE "None"

authorize_sweep(accounts, action) ==
    /\ accounts # {} /\ Cardinality(accounts) <= MaxStaleAliasBatch
    /\ \A a \in accounts : stale_alias_action(a) = action

report_stale_aliases(accounts) ==
    /\ authorize_sweep(accounts, "Report")
    /\ StaleSince' = [a \in Account |-> IF a \in accounts THEN stale_since(AccountToAlias[a].ring)
                                        ELSE StaleSince[a]]
    /\ UNCHANGED <<AliasToAccount, AccountToAlias, sufficients, rings, history>>

retire_stale_aliases(accounts) ==
    authorize_sweep(accounts, "Retire") /\ Unlink(accounts) /\ UNCHANGED rings

clear_stale_alias_reports(accounts) ==
    /\ authorize_sweep(accounts, "ClearReport")
    /\ StaleSince' = [a \in Account |-> IF a \in accounts THEN NoStamp ELSE StaleSince[a]]
    /\ revived' = [a \in Account |-> a \notin accounts /\ revived[a]]
    /\ UNCHANGED <<AliasToAccount, AccountToAlias, sufficients, rings, refused>>

sweep_stale_aliases(a) ==
    \E accounts \in SUBSET Account :
        /\ a \in accounts
        /\ \/ report_stale_aliases(accounts)
           \/ retire_stale_aliases(accounts)
           \/ clear_stale_alias_reports(accounts)

-----------------------------------------------------------------------------
Init ==
    /\ AliasToAccount = [x \in Alias |-> NoAccount]
    /\ AccountToAlias = [a \in Account |-> Unlinked]
    /\ StaleSince = [a \in Account |-> NoStamp]
    /\ sufficients = [a \in Account |-> 0]
    /\ Window = [r \in RingIndex |-> <<>>]
    /\ Revision = [r \in RingIndex |-> 0]
    /\ refused = [a \in Account |-> 0]
    /\ revived = [a \in Account |-> FALSE]

Rings == \E r \in RingIndex : RootsLost(r) \/ \E age \in - MaxSkew .. MaxDelay : RootArrives(r, age)

Users ==
    \E who \in Account :
        \/ unset_alias_account(who)
        \/ \E info \in Link : set_alias_account(who, info)
        \/ \E ring \in RingIndex, revision \in 0 .. MaxRevision :
               reprove_alias_account(who, ring, revision)

Sweep == \E a \in Account : sweep_stale_aliases(a)

Next == Rings \/ Users \/ Sweep \/ Tick

Spec == Init /\ [][Next]_vars

\* Every sweep reads every mapping, and what one leaves out the next ones carry.
Fairness == WF_vars(Tick) /\ \A a \in Account : WF_vars(sweep_stale_aliases(a))

FairSpec == Spec /\ Fairness

-----------------------------------------------------------------------------
(* Properties *)

TypeOK ==
    /\ AliasToAccount \in [Alias -> Account \union {NoAccount}]
    /\ AccountToAlias \in [Account -> Link \union {Unlinked}]
    /\ StaleSince \in [Account -> Nat \union {NoStamp}]
    /\ sufficients \in [Account -> Int]
    /\ Window \in [RingIndex -> Seq(RootRecord)]
    /\ Revision \in [RingIndex -> 0 .. MaxRevision]
    /\ refused \in [Account -> Nat]
    /\ revived \in [Account -> BOOLEAN]

\* AliasToAccount and AccountToAlias are inverse, whatever accounts are swapped, removed
\* and retired, and an account is kept alive by the pallet exactly while it is linked.
MapsInverse ==
    /\ \A a \in Account : Linked(a) => AliasToAccount[AccountToAlias[a].alias] = a
    /\ \A x \in Alias : AliasToAccount[x] # NoAccount => AccountToAlias[AliasToAccount[x]].alias = x
    /\ \A a \in Account : sufficients[a] = IF Linked(a) THEN 1 ELSE 0

\* A report never outlives its link: the next link of the account would be removed early.
StampsOwned == \A a \in Account : StaleSince[a] # NoStamp => Linked(a)

\* The links, the references and the reports of the pallet agree after every call.
LinksExact == MapsInverse /\ StampsOwned

Longest == IF OldRootRetentionDuration > MaxDelay THEN OldRootRetentionDuration ELSE MaxDelay

\* The sweep removes a link only after its revision was refused for MappingRetention,
\* less the time it was accepted, or on its way, after the source time the report is
\* dated to.  The exception is a link accepted again and not yet cleared of its report.
GraceKept ==
    [][\A a \in Account :
        Sweep /\ Linked(a) /\ ~ Linked(a)' =>
            revived[a] \/ refused[a] >= MappingRetention - Longest]_vars

\* No link stays that is refused for good, and none keeps a report while it is accepted:
\* sweeps by the offchain worker and the passing of time are enough.
SweepEnds ==
    \A a \in Account :
        /\ []<>(Linked(a) => is_revision_valid(AccountToAlias[a]))
        /\ []<>(StaleSince[a] # NoStamp => ~ is_revision_valid(AccountToAlias[a]))
=============================================================================

----------------------------- MODULE ProofOfInk -----------------------------
(* pallets/proof-of-ink: a candidate applies (with a deposit, a referral or an invitation), *)
(* commits to a design under a reserved personal id, submits evidence to the oracle, and is   *)
(* rejected, asked again or proven by the verdict, which arrives as a callback.  The oracle    *)
(* is what MobRule implements (StatementOracle); the ids are those people-multi reserves.       *)
(* Entropy, storage quotas, procedural designs' seeds and counters that are only written       *)
(* (bad_referrals, derivatives, ...) are left out.                                              *)
EXTENDS Integers, Sequences, FiniteSets

CONSTANTS
    None,                   \* no value
    Account, Ticket,
    Founder,                \* the person recognised before the first step: the referrer
    Design,                 \* the designs of the designed families
    Families,               \* bound: the sets of designs the families come to offer
    Configs,                \* the values of `Configuration`
    MaxActiveReferrals, MaxRetryAttempts,
    FounderAllowed,         \* `allowed_referral_tickets` of the founder
    MaxTickets,             \* bound: the statements submitted
    MaxId,                  \* bound: the ids reserved
    MaxInvites,             \* bound: the invites granted
    MaxRewards,             \* bound: the rewards configured
    MaxNow                  \* bound: the block number

Judgement == {"True", "False", "Contempt"}
PersonalId == 0 .. MaxId

VARIABLES
    Candidates, People, ReferralTickets, CommittedDesigns, DesignFamilies, AllocationCount,
    Configuration, AvailableInvites, PendingInvites,
    ReferrerReimbursementValues, ReferredReimbursementValues,
    NextPersonalId, ReservedPersonalId,     \* people-multi
    sufficients, held,                      \* the account references and deposits of the pallet
    tickets, answers,                       \* the oracle
    statements,                             \* ticket -> what was submitted
    unsent,                                 \* tickets whose verdict was lost with a message
    now

idVars == <<NextPersonalId, ReservedPersonalId>>
inviteVars == <<AvailableInvites, PendingInvites>>
rewardVars == <<ReferrerReimbursementValues, ReferredReimbursementValues>>
oracleVars == <<tickets, answers, statements, unsent>>
adminVars == <<DesignFamilies, Configuration>>
vars == <<Candidates, People, ReferralTickets, CommittedDesigns, AllocationCount, sufficients,
          held, idVars, inviteVars, rewardVars, oracleVars, adminVars, now>>

Oracle == INSTANCE StatementOracle

NewPerson(design, allowed) ==
    [design |-> design, active_referrals |-> {}, allowed_referral_tickets |-> allowed,
     banned |-> FALSE, pending_referral_rewards |-> 0]

Init ==
    /\ Candidates = [a \in Account |-> None]
    /\ People = [i \in PersonalId |-> IF i = Founder THEN NewPerson(None, FounderAllowed) ELSE None]
    /\ ReferralTickets = [i \in PersonalId |-> None]
    /\ CommittedDesigns = [d \in Design |-> None]
    /\ DesignFamilies = Design
    /\ AllocationCount = 0
    /\ Configuration \in Configs
    /\ AvailableInvites = [a \in Account |-> 0]
    /\ PendingInvites = [a \in Account |-> {}]
    /\ ReferrerReimbursementValues = 0 /\ ReferredReimbursementValues = 0
    /\ NextPersonalId = Founder + 1 /\ ReservedPersonalId = {}
    /\ sufficients = [a \in Account |-> 0]
    /\ held = [a \in Account |-> FALSE]
    /\ Oracle!Init
    /\ statements = <<>>
    /\ unsent = {}
    /\ now = 0

In(a, status) == Candidates[a] # None /\ Candidates[a].status = status

-----------------------------------------------------------------------------
(* Applying *)

Applied(a, kind, by) ==
    Candidates' = [Candidates EXCEPT
        ![a] = [status |-> "Applied", kind |-> kind, by |-> by, since |-> now]]

apply(a) ==
    /\ Candidates[a] = None
    /\ held' = [held EXCEPT ![a] = TRUE]
    /\ Applied(a, "Deposit", None)
    /\ UNCHANGED <<People, ReferralTickets, CommittedDesigns, AllocationCount, sufficients,
                   idVars, inviteVars, rewardVars, oracleVars, adminVars, now>>

\* With the checks of the `AsApplyWithSig` extension.
apply_with_signature(a, referrer, ticket) ==
    /\ Candidates[a] = None
    /\ People[referrer] # None
    /\ ~People[referrer].banned
    /\ ReferralTickets[referrer] # None
    /\ ticket \in ReferralTickets[referrer]
    /\ Cardinality(People[referrer].active_referrals) < MaxActiveReferrals
    /\ ReferralTickets' = [ReferralTickets EXCEPT
            ![referrer] = IF @ = {ticket} THEN None ELSE @ \ {ticket}]
    /\ People' = [People EXCEPT ![referrer].active_referrals = @ \cup {a}]
    /\ Applied(a, "Referred", referrer)
    /\ sufficients' = [sufficients EXCEPT ![a] = @ + 1]
    /\ UNCHANGED <<CommittedDesigns, AllocationCount, held, idVars, inviteVars, rewardVars,
                   oracleVars, adminVars, now>>

\* With the checks of the `AsInvited` extension.
apply_with_invitation(a, inviter, ticket) ==
    /\ Candidates[a] = None
    /\ ticket \in PendingInvites[inviter]
    /\ PendingInvites' = [PendingInvites EXCEPT ![inviter] = @ \ {ticket}]
    /\ Applied(a, "Invited", None)
    /\ sufficients' = [sufficients EXCEPT ![a] = @ + 1]
    /\ UNCHANGED <<People, ReferralTickets, CommittedDesigns, AllocationCount, held, idVars,
                   AvailableInvites, rewardVars, oracleVars, adminVars, now>>

reroll(a) ==
    /\ In(a, "Applied")
    /\ Candidates[a].since + Configuration.reroll_timeout <= now
    /\ Candidates' = [Candidates EXCEPT ![a].since = @ + Configuration.reroll_timeout]
    /\ UNCHANGED <<People, ReferralTickets, CommittedDesigns, AllocationCount, sufficients,
                   held, idVars, inviteVars, rewardVars, oracleVars, adminVars, now>>

\* What a candidate that ends loses, or gets back: the references its credibility holds.
\* `drop` returns a deposit and `burn` destroys it: either way it is held no longer.
Retire(a, people) ==
    LET c == Candidates[a] IN
    /\ Candidates' = [Candidates EXCEPT ![a] = None]
    /\ People' = people
    /\ sufficients' = [sufficients EXCEPT
            ![a] = IF c.kind \in {"Referred", "Invited"} THEN @ - 1 ELSE @]
    /\ held' = [held EXCEPT ![a] = IF c.kind = "Deposit" THEN FALSE ELSE @]

\* referral_flaked, referral_bad (whose counter is left out) and referral_contemptuous
Referral(a, contempt) ==
    LET c == Candidates[a] IN
    IF c.kind = "Referred" /\ People[c.by] # None
    THEN [People EXCEPT ![c.by].active_referrals = @ \ {a}, ![c.by].banned = @ \/ contempt]
    ELSE People

flakeout(a) ==
    /\ In(a, "Applied")
    /\ Retire(a, Referral(a, FALSE))
    /\ UNCHANGED <<ReferralTickets, CommittedDesigns, AllocationCount, idVars, inviteVars,
                   rewardVars, oracleVars, adminVars, now>>

-----------------------------------------------------------------------------
(* Committing to a design *)

\* `require_id`: a new id, or one that was reserved before and given up.
commit(a, design, require_id) ==
    /\ In(a, "Applied")
    /\ AllocationCount < Configuration.maximum
    /\ IF require_id = None
       THEN /\ NextPersonalId <= MaxId
            /\ NextPersonalId' = NextPersonalId + 1
       ELSE /\ require_id < NextPersonalId
            /\ People[require_id] = None /\ require_id \notin ReservedPersonalId
            /\ UNCHANGED NextPersonalId
    /\ design # None => design \in DesignFamilies /\ CommittedDesigns[design] = None
    /\ LET id == IF require_id = None THEN NextPersonalId ELSE require_id IN
       /\ ReservedPersonalId' = ReservedPersonalId \cup {id}
       /\ Candidates' = [Candidates EXCEPT ![a] =
                [status |-> "Selected", kind |-> @.kind, by |-> @.by, since |-> now,
                 reserved |-> id, design |-> design, judging |-> None, failed |-> 0,
                 allocation |-> IF AllocationCount < Configuration.fasttrack_count
                                THEN "Full" ELSE "Initial"]]
    /\ CommittedDesigns' = IF design = None THEN CommittedDesigns
                           ELSE [CommittedDesigns EXCEPT ![design] = "Reserved"]
    /\ AllocationCount' = AllocationCount + 1
    /\ UNCHANGED <<People, ReferralTickets, sufficients, held, inviteVars, rewardVars,
                   oracleVars, adminVars, now>>

allocate_full(a) ==
    /\ In(a, "Selected")
    /\ Candidates[a].allocation = "InitDone"
    /\ Candidates' = [Candidates EXCEPT ![a].allocation = "Full"]
    /\ UNCHANGED <<People, ReferralTickets, CommittedDesigns, AllocationCount, sufficients,
                   held, idVars, inviteVars, rewardVars, oracleVars, adminVars, now>>

\* The end of a selected candidate that was not proven: everything it had taken is free again.
Reject(a, contempt) ==
    LET c == Candidates[a] IN
    /\ c.reserved \in ReservedPersonalId
    /\ ReservedPersonalId' = ReservedPersonalId \ {c.reserved}
    /\ AllocationCount' = AllocationCount - 1
    /\ CommittedDesigns' = IF c.design = None THEN CommittedDesigns
                           ELSE [CommittedDesigns EXCEPT ![c.design] = None]
    /\ Retire(a, Referral(a, contempt))
    /\ UNCHANGED NextPersonalId

timeout(a) ==
    /\ In(a, "Selected")
    /\ now > Candidates[a].since + Configuration.timeout
    /\ Reject(a, FALSE)
    /\ UNCHANGED <<ReferralTickets, inviteVars, rewardVars, oracleVars, adminVars, now>>

-----------------------------------------------------------------------------
(* The judgement *)

submit_evidence(a) ==
    /\ In(a, "Selected")
    /\ Candidates[a].judging = None
    /\ tickets < MaxTickets
    /\ Oracle!judge_statement
    /\ Candidates' = [Candidates EXCEPT ![a].judging = tickets]
    /\ statements' = Append(statements,
            [context |-> a, id |-> Candidates[a].reserved,
             probable_acceptable |-> Candidates[a].allocation = "Initial"])
    /\ UNCHANGED <<unsent, People, ReferralTickets, CommittedDesigns, AllocationCount,
                   sufficients, held, idVars, inviteVars, rewardVars, adminVars, now>>

\* The evidence is right, and it was the whole of it.
Prove(a) ==
    LET c == Candidates[a] IN
    /\ Candidates' = [Candidates EXCEPT ![a] =
            [status |-> "Proven", kind |-> c.kind, design |-> c.design, reserved |-> c.reserved]]
    /\ AllocationCount' = AllocationCount - 1
    /\ held' = [held EXCEPT ![a] = IF c.kind = "Deposit" THEN FALSE ELSE @]
    /\ CommittedDesigns' = IF c.design = None THEN CommittedDesigns
                           ELSE [CommittedDesigns EXCEPT ![c.design] = "Committed"]
    /\ People' = IF c.kind = "Referred" /\ People[c.by] # None
                 THEN [People EXCEPT
                        ![c.by].active_referrals = @ \ {a},
                        ![c.by].pending_referral_rewards = @ + 1,
                        ![c.by].allowed_referral_tickets =
                            IF @ < MaxActiveReferrals THEN @ + 1 ELSE @]
                 ELSE People
    /\ UNCHANGED <<idVars, sufficients>>

\* The initial evidence was right: the full amount of storage may be allocated now.
InitialAccepted(a) == [Candidates EXCEPT ![a].allocation = "InitDone", ![a].judging = None]

\* Mutant: a verdict is applied to whatever evidence the candidate waits for.
Expected_any(a, t) == In(a, "Selected") /\ Candidates[a].judging # None

\* The candidate is still there and waits for this verdict.
Expected(a, t) == In(a, "Selected") /\ Candidates[a].judging = t

\* `judged`, with the candidate the ticket was given for.  `refreshed`: the message that renews
\* the storage of a candidate asked again was sent; when it was not, the call fails and with it
\* all of its effects.
judged(a, t, judgement, refreshed) ==
    LET c == Candidates[a]
        rejected == judgement = "Contempt"
                    \/ /\ judgement = "False" \/ c.allocation = "InitDone"
                       /\ c.failed + 1 > MaxRetryAttempts
        failure  == judgement = "False" \/ c.allocation = "InitDone"
    IN
    \/ /\ rejected
       /\ Reject(a, judgement = "Contempt")
       /\ UNCHANGED unsent
    \/ /\ ~rejected /\ failure
       /\ Candidates' = IF refreshed
                        THEN [Candidates EXCEPT ![a].failed = @ + 1, ![a].judging = None]
                        ELSE Candidates
       /\ unsent' = IF refreshed THEN unsent ELSE unsent \cup {t}
       /\ UNCHANGED <<idVars, AllocationCount, CommittedDesigns, People, sufficients, held>>
    \/ /\ ~rejected /\ ~failure /\ c.allocation = "Initial"
       /\ Candidates' = InitialAccepted(a)
       /\ UNCHANGED <<unsent, idVars, AllocationCount, CommittedDesigns, People, sufficients, held>>
    \/ /\ ~rejected /\ ~failure /\ c.allocation = "Full"
       /\ Prove(a)
       /\ UNCHANGED unsent

\* The oracle closes the case `t`; a callback that is not expected any more fails alone.
callback(t, judgement, refreshed) ==
    /\ Oracle!callback(t, judgement)
    /\ LET a == statements[t + 1].context IN
       IF Expected(a, t)
       THEN judged(a, t, judgement, refreshed)
       ELSE UNCHANGED <<Candidates, People, CommittedDesigns, AllocationCount, sufficients,
                        held, idVars, unsent>>
    /\ UNCHANGED <<statements, ReferralTickets, inviteVars, rewardVars, adminVars, now>>

-----------------------------------------------------------------------------
(* Registering the key, and the rewards *)

\* A reward is paid while values are configured for it.
Paid(values) == IF values = 0 THEN 0 ELSE values - 1

\* register_referred and register_non_referred, with a key nobody uses: an invited or referred
\* account loses its reference, one that was not referred is paid the referrer's reward too.
register(a) ==
    LET c == Candidates[a] IN
    /\ In(a, "Proven")
    /\ c.reserved \in ReservedPersonalId
    /\ Candidates' = [Candidates EXCEPT ![a] = None]
    /\ People' = [People EXCEPT ![c.reserved] = NewPerson(c.design, 1)]
    /\ ReservedPersonalId' = ReservedPersonalId \ {c.reserved}
    /\ sufficients' = [sufficients EXCEPT
            ![a] = IF c.kind \in {"Referred", "Invited"} THEN @ - 1 ELSE @]
    /\ ReferredReimbursementValues' = Paid(ReferredReimbursementValues)
    /\ ReferrerReimbursementValues' = IF c.kind = "Referred" THEN ReferrerReimbursementValues
                                      ELSE Paid(ReferrerReimbursementValues)
    /\ UNCHANGED <<ReferralTickets, CommittedDesigns, AllocationCount, held, NextPersonalId,
                   inviteVars, oracleVars, adminVars, now>>

register_successful_referral_reward(i) ==
    /\ People[i] # None
    /\ ~People[i].banned
    /\ People[i].pending_referral_rewards > 0
    /\ People' = [People EXCEPT ![i].pending_referral_rewards = @ - 1]
    /\ ReferrerReimbursementValues' = Paid(ReferrerReimbursementValues)
    /\ UNCHANGED <<Candidates, ReferralTickets, CommittedDesigns, AllocationCount, sufficients,
                   held, idVars, inviteVars, ReferredReimbursementValues, oracleVars,
                   adminVars, now>>

set_reimbursement_values(referrer, referred) ==
    /\ ReferrerReimbursementValues' = referrer /\ ReferredReimbursementValues' = referred
    /\ UNCHANGED <<Candidates, People, ReferralTickets, CommittedDesigns, AllocationCount,
                   sufficients, held, idVars, inviteVars, oracleVars, adminVars, now>>

-----------------------------------------------------------------------------
(* Referral tickets and invitations *)

\* Mutant: the tickets given out are not counted with the referrals that are active.
set_referral_ticket_uncounted(i, ticket) ==
    /\ People[i] # None
    /\ ~People[i].banned
    /\ People[i].pending_referral_rewards = 0
    /\ Cardinality(People[i].active_referrals) < MaxActiveReferrals
    /\ LET issued == IF ReferralTickets[i] = None THEN {} ELSE ReferralTickets[i] IN
       /\ ReferralTickets[i] # None =>
            People[i].allowed_referral_tickets > Cardinality(issued)
       /\ ReferralTickets' = [ReferralTickets EXCEPT ![i] = issued \cup {ticket}]
    /\ UNCHANGED <<Candidates, People, CommittedDesigns, AllocationCount, sufficients, held,
                   idVars, inviteVars, rewardVars, oracleVars, adminVars, now>>

set_referral_ticket(i, ticket) ==
    /\ People[i] # None
    /\ ~People[i].banned
    /\ People[i].pending_referral_rewards = 0
    /\ Cardinality(People[i].active_referrals) < MaxActiveReferrals
    /\ LET issued == IF ReferralTickets[i] = None THEN {} ELSE ReferralTickets[i] IN
       /\ ReferralTickets[i] # None =>
            /\ People[i].allowed_referral_tickets > Cardinality(issued)
            /\ Cardinality(issued) + Cardinality(People[i].active_referrals) < MaxActiveReferrals
       /\ ReferralTickets' = [ReferralTickets EXCEPT ![i] = issued \cup {ticket}]
    /\ UNCHANGED <<Candidates, People, CommittedDesigns, AllocationCount, sufficients, held,
                   idVars, inviteVars, rewardVars, oracleVars, adminVars, now>>

cancel_referral_ticket(i, ticket) ==
    /\ People[i] # None
    /\ ~People[i].banned
    /\ ReferralTickets[i] # None
    /\ ticket \in ReferralTickets[i]
    /\ ReferralTickets' = [ReferralTickets EXCEPT ![i] = @ \ {ticket}]
    /\ UNCHANGED <<Candidates, People, CommittedDesigns, AllocationCount, sufficients, held,
                   idVars, inviteVars, rewardVars, oracleVars, adminVars, now>>

OnlyInvites ==
    UNCHANGED <<Candidates, People, ReferralTickets, CommittedDesigns, AllocationCount,
                sufficients, held, idVars, rewardVars, oracleVars, adminVars, now>>

grant_invites(a) ==
    /\ AvailableInvites[a] < MaxInvites
    /\ AvailableInvites' = [AvailableInvites EXCEPT ![a] = @ + 1]
    /\ UNCHANGED PendingInvites /\ OnlyInvites

\* `clear_prefix` removes up to `limit` pending invites; what is left is for another call.
remove_available_and_pending_invites(a, cleared) ==
    /\ cleared \subseteq PendingInvites[a]
    /\ AvailableInvites' = [AvailableInvites EXCEPT ![a] = 0]
    /\ PendingInvites' = [PendingInvites EXCEPT ![a] = @ \ cleared]
    /\ OnlyInvites

set_invite_ticket(a, ticket) ==
    /\ AvailableInvites[a] > 0
    /\ ticket \notin PendingInvites[a]
    /\ AvailableInvites' = [AvailableInvites EXCEPT ![a] = @ - 1]
    /\ PendingInvites' = [PendingInvites EXCEPT ![a] = @ \cup {ticket}]
    /\ OnlyInvites

cancel_invite_ticket(a, ticket) ==
    /\ ticket \in PendingInvites[a]
    /\ PendingInvites' = [PendingInvites EXCEPT ![a] = @ \ {ticket}]
    /\ AvailableInvites' = [AvailableInvites EXCEPT ![a] = @ + 1]
    /\ OnlyInvites

add_design_family(designs) ==
    /\ DesignFamilies' = designs
    /\ UNCHANGED <<Candidates, People, ReferralTickets, CommittedDesigns, AllocationCount,
                   sufficients, held, idVars, inviteVars, rewardVars, oracleVars,
                   Configuration, now>>

set_configuration(config) ==
    /\ Configuration' = config
    /\ UNCHANGED <<Candidates, People, ReferralTickets, CommittedDesigns, AllocationCount,
                   sufficients, held, idVars, inviteVars, rewardVars, oracleVars,
                   DesignFamilies, now>>

Tick ==
    /\ now < MaxNow
    /\ now' = now + 1
    /\ UNCHANGED <<Candidates, People, ReferralTickets, CommittedDesigns, AllocationCount,
                   sufficients, held, idVars, inviteVars, rewardVars, oracleVars, adminVars>>

Next ==
    \/ \E a \in Account :
        \/ apply(a) \/ reroll(a) \/ flakeout(a) \/ allocate_full(a) \/ timeout(a)
        \/ submit_evidence(a) \/ register(a) \/ grant_invites(a)
        \/ \E design \in Design \cup {None}, id \in PersonalId \cup {None} : commit(a, design, id)
        \/ \E cleared \in SUBSET Ticket : remove_available_and_pending_invites(a, cleared)
        \/ \E ticket \in Ticket :
            \/ set_invite_ticket(a, ticket) \/ cancel_invite_ticket(a, ticket)
            \/ \E i \in PersonalId : apply_with_signature(a, i, ticket)
            \/ \E inviter \in Account : apply_with_invitation(a, inviter, ticket)
    \/ \E i \in PersonalId :
        \/ register_successful_referral_reward(i)
        \/ \E ticket \in Ticket : set_referral_ticket(i, ticket) \/ cancel_referral_ticket(i, ticket)
    \/ \E t \in 0 .. MaxTickets - 1, judgement \in Judgement, refreshed \in BOOLEAN :
        callback(t, judgement, refreshed)
    \/ \E referrer, referred \in 1 .. MaxRewards : set_reimbursement_values(referrer, referred)
    \/ \E designs \in Families : add_design_family(designs)
    \/ \E config \in Configs : set_configuration(config)
    \/ Tick

Spec == Init /\ [][Next]_vars

-----------------------------------------------------------------------------
(* Properties *)

Selected == {a \in Account : In(a, "Selected")}
Holding == {a \in Account : In(a, "Selected") \/ In(a, "Proven")}

\* Whatever way a candidate ends (proven, rejected by a late verdict, timed out, flaked out), what
\* its credibility took is given back exactly once: an account has the reference that keeps
\* it alive while it is a referred or invited candidate, and its deposit is held until the
\* evidence is accepted or the candidate is gone.
CredibilityExact ==
    \A a \in Account :
        /\ sufficients[a] = IF Candidates[a] # None /\ Candidates[a].kind # "Deposit"
                            THEN 1 ELSE 0
        /\ held[a] = /\ Candidates[a] # None
                     /\ Candidates[a].kind = "Deposit"
                     /\ Candidates[a].status # "Proven"

\* The ids candidates hold are reserved for them alone, so that giving one up or registering
\* with it never fails, every selected candidate is counted in `AllocationCount`, and a design
\* is reserved by one selected candidate or committed by one proven candidate or person.
CommitmentsExact ==
    /\ AllocationCount = Cardinality(Selected)
    /\ ReservedPersonalId = {Candidates[a].reserved : a \in Holding}
    /\ \A a, b \in Holding : Candidates[a].reserved = Candidates[b].reserved => a = b
    /\ \A d \in Design :
        LET proven  == {a \in Account : In(a, "Proven") /\ Candidates[a].design = d}
            persons == {i \in PersonalId : People[i] # None /\ People[i].design = d}
            trying  == {a \in Selected : Candidates[a].design = d}
        IN  /\ Cardinality(trying) = IF CommittedDesigns[d] = "Reserved" THEN 1 ELSE 0
            /\ Cardinality(proven) + Cardinality(persons) =
                    IF CommittedDesigns[d] = "Committed" THEN 1 ELSE 0

\* The active referrals of a person are the candidates it referred that are not decided, and with
\* the tickets it has out they never exceed the limit: a ticket always fits when it is used
\* ("This should not happen because the limit of unique tickets ...", apply_with_signature).
ReferralsExact ==
    \A i \in PersonalId :
        People[i] # None =>
            /\ People[i].active_referrals =
                {a \in Account : /\ Candidates[a] # None
                                 /\ Candidates[a].status # "Proven"
                                 /\ Candidates[a].kind = "Referred"
                                 /\ Candidates[a].by = i}
            /\ Cardinality(People[i].active_referrals)
                + (IF ReferralTickets[i] = None THEN 0 ELSE Cardinality(ReferralTickets[i]))
                    <= MaxActiveReferrals

\* A candidate is proven only by a verdict on the evidence of its own commitment, and on the whole
\* evidence, never on the initial one, however late the verdict of an earlier commitment of
\* the same account arrives.
ProvenByEvidence ==
    \A a \in Account :
        In(a, "Proven") =>
            \E t \in 1 .. Len(statements) :
                /\ statements[t].context = a
                /\ statements[t].id = Candidates[a].reserved
                /\ ~statements[t].probable_acceptable
                /\ answers[t - 1] = <<"True">>

\* A candidate that waits for a verdict waits for one that is still to come, for evidence of its
\* own, unless the message that renews its storage was not sent.
VerdictComing ==
    \A a \in Selected :
        LET t == Candidates[a].judging IN
        t # None => /\ statements[t + 1].context = a
                    /\ statements[t + 1].id = Candidates[a].reserved
                    /\ answers[t] = <<>> \/ t \in unsent

\* A candidate whose evidence was judged and not accepted may submit again: "Allow a new
\* submission." (judged).
Resubmits == \A a \in Selected : Candidates[a].judging # None => answers[Candidates[a].judging] = <<>>

\* A person of whose referrals one was held in contempt refers nobody any more.
BannedStay ==
    [][\A i \in DOMAIN People : (People[i] # None /\ People[i].banned) =>
        /\ People'[i].banned
        /\ People'[i].active_referrals \subseteq People[i].active_referrals]_vars

\* The records about a candidate agree: its deposit or reference, the design it committed to
\* and the referral it applied with (apply_with_deposit, commit, judged, set_referral_ticket).
CandidatesExact == CredibilityExact /\ CommitmentsExact /\ ReferralsExact

\* A judgement is of the evidence it was asked for, and it comes (submit_evidence, judged).
JudgedByEvidence == ProvenByEvidence /\ VerdictComing

=============================================================================

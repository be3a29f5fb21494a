----------------------------- MODULE PeopleLite -----------------------------
(***************************************************************************)
(* pallets/people-lite: people recognised by a verifier's attestation or   *)
(* by paying a fee, and the accounts of their aliases.  Verifiers spend an *)
(* allowance; paid registrations are throttled once there are many lite    *)
(* people.                                                                 *)
(*                                                                         *)
(* Signatures and proofs are sound.  A registration that fails, also where *)
(* the consumer registration that goes with it fails or the fee cannot be  *)
(* paid, is undone as a whole and is no step.  The collection is           *)
(* append-only: its keys stay members.                                     *)
(***************************************************************************)
EXTENDS Integers, FiniteSets

CONSTANTS
    Key, Account, Verifier,
    Context, Alias, ContextOf,
    Nobody,
    MaxLitePeople,
    PaidRegistrationThreshold,
    PaidRegistrationPeriod,
    PaidRegistrationsPerPeriod,
    MaxAllowance,               \* bound on the attestations granted to a verifier
    MaxRevision,                \* bound on the rebuilds of the ring
    MaxNow                      \* bound on the clock

VARIABLES
    LitePeople,                 \* account -> key, Nobody if not registered
    AttestationAllowance,       \* verifier -> attestations left
    PaidRegistrations,          \* [period, registrations]
    LitePeopleCollectionCreated,
    AliasToAccount,
    AccountToAlias,             \* account -> [alias, revision], Unlinked if none
    sufficients,                \* references the pallet holds on each account
    AccountContexts,            \* contexts in which aliases may have accounts
    members,                    \* members: keys of the collection
    ring_revision,              \* members: revision of the ring, NoRing if it has no root
    now,
    granted, attested,          \* history: verifier -> attestations granted, and made
    paid                        \* history: paid registrations since the period began, above
                                \* the threshold

people == <<LitePeople, AttestationAllowance, PaidRegistrations, LitePeopleCollectionCreated,
            members, granted, attested, paid>>
links == <<AliasToAccount, AccountToAlias>>
environment == <<AccountContexts, ring_revision, now>>
vars == <<people, links, sufficients, environment>>

NoRing == -1
Unlinked == [alias |-> Nobody]
Revision == 0 .. MaxRevision
Linked(a) == AccountToAlias[a] # Unlinked
Registered == {a \in Account : LitePeople[a] # Nobody}
Period == now \div PaidRegistrationPeriod

Reference(gone, come) ==
    sufficients' = [a \in Account |-> sufficients[a] + (IF a \in come THEN 1 ELSE 0)
                                                     - (IF a \in gone THEN 1 ELSE 0)]

-----------------------------------------------------------------------------
(* Registration *)

increase_attestation_allowance(v) ==
    /\ granted[v] < MaxAllowance                    \* bound
    /\ AttestationAllowance' = [AttestationAllowance EXCEPT ![v] = @ + 1]
    /\ granted' = [granted EXCEPT ![v] = @ + 1]
    /\ UNCHANGED <<LitePeople, PaidRegistrations, LitePeopleCollectionCreated, members, attested,
                   paid, links, sufficients, environment>>

clear_attestation_allowance(v) ==
    /\ AttestationAllowance' = [AttestationAllowance EXCEPT ![v] = 0]
    /\ UNCHANGED <<LitePeople, PaidRegistrations, LitePeopleCollectionCreated, members, granted,
                   attested, paid, links, sufficients, environment>>

\* Mutant: the account of an alias can be registered.
CanRegister_linked(candidate, key) ==
    /\ LitePeople[candidate] = Nobody
    /\ key \notin members
    /\ LitePeopleCollectionCreated
    /\ Cardinality(Registered) < MaxLitePeople

CanRegister(candidate, key) ==
    /\ LitePeople[candidate] = Nobody
    /\ ~ Linked(candidate)
    /\ key \notin members
    /\ LitePeopleCollectionCreated
    /\ Cardinality(Registered) < MaxLitePeople      \* ensure_below_lite_people_cap

insert_lite_person(candidate, key) ==
    /\ LitePeople' = [LitePeople EXCEPT ![candidate] = key]
    /\ members' = members \union {key}
    /\ Reference({}, {candidate})

\* The entry is removed when nothing is left.
spend_allowance(v) ==
    AttestationAllowance' = [AttestationAllowance EXCEPT ![v] = @ - 1]

attest(v, candidate, key) ==
    /\ CanRegister(candidate, key)
    /\ AttestationAllowance[v] > 0
    /\ spend_allowance(v)
    /\ insert_lite_person(candidate, key)
    /\ attested' = [attested EXCEPT ![v] = @ + 1]
    /\ UNCHANGED <<PaidRegistrations, LitePeopleCollectionCreated, granted, paid, links, environment>>

throttle_paid_registration(count) ==
    IF PaidRegistrationPeriod = 0 \/ count < PaidRegistrationThreshold
    THEN UNCHANGED <<PaidRegistrations, paid>>
    ELSE LET registrations == IF PaidRegistrations.period = Period
                              THEN PaidRegistrations.registrations ELSE 0
         IN  /\ registrations < PaidRegistrationsPerPeriod
             /\ PaidRegistrations' = [period |-> Period, registrations |-> registrations + 1]
             /\ paid' = paid + 1

register_with_fee(candidate, key) ==
    /\ CanRegister(candidate, key)
    /\ throttle_paid_registration(Cardinality(Registered))
    /\ insert_lite_person(candidate, key)
    /\ UNCHANGED <<AttestationAllowance, LitePeopleCollectionCreated, granted, attested, links,
                   environment>>

create_lite_people_collection ==
    /\ ~ LitePeopleCollectionCreated
    /\ LitePeopleCollectionCreated' = TRUE
    /\ UNCHANGED <<LitePeople, AttestationAllowance, PaidRegistrations, members, granted, attested,
                   paid, links, sufficients, environment>>

-----------------------------------------------------------------------------
(* Alias accounts, with the origins PeopleLiteAuth makes *)

Proves(info) == info.revision <= ring_revision

\* The call finds the links as the transaction extension leaves them.
set_alias_account(linked, info, account) ==
    LET old_account == AliasToAccount[info.alias]
        needs_revision == old_account # Nobody /\ linked[old_account].revision < info.revision
    IN  /\ ContextOf[info.alias] \in AccountContexts
        /\ LitePeople[account] = Nobody
        /\ old_account # account \/ needs_revision
        /\ old_account # account => linked[account] = Unlinked
        /\ AccountToAlias' = [a \in Account |-> IF a = account THEN info
                                                ELSE IF a = old_account THEN Unlinked ELSE linked[a]]
        /\ AliasToAccount' = [AliasToAccount EXCEPT ![info.alias] = account]
        /\ IF old_account # account THEN Reference({old_account}, {account})
           ELSE UNCHANGED sufficients
        /\ UNCHANGED <<people, environment>>

unset_alias_account(linked, info) ==
    LET account == AliasToAccount[info.alias]
    IN  /\ account # Nobody
        /\ AliasToAccount' = [AliasToAccount EXCEPT ![info.alias] = Nobody]
        /\ AccountToAlias' = [linked EXCEPT ![account] = Unlinked]
        /\ Reference({account}, {})
        /\ UNCHANGED <<people, environment>>

as_lite_alias_with_proof(info, account) ==
    /\ Proves(info)
    /\ ~ (AccountToAlias[account].alias = info.alias
              /\ AccountToAlias[account].revision >= info.revision)         \* supersedes
    /\ set_alias_account(AccountToAlias, info, account)

\* Unlike in people-multi the context is not looked at before the call.
as_lite_alias_with_account(who) ==
    LET info == AccountToAlias[who]
    IN  /\ Linked(who)
        /\ ring_revision = info.revision
        /\ \/ \E account \in Account : set_alias_account(AccountToAlias, info, account)
           \/ unset_alias_account(AccountToAlias, info)

\* The link is revised before the call, and stays so when the call fails or is another one.
as_lite_alias_with_account_revised(who, revision) ==
    LET info == [AccountToAlias[who] EXCEPT !.revision = revision]
        linked == [AccountToAlias EXCEPT ![who] = info]
    IN  /\ Linked(who)
        /\ Proves(info)
        /\ ContextOf[info.alias] \in AccountContexts
        /\ \/ AccountToAlias' = linked /\ UNCHANGED <<people, AliasToAccount, sufficients, environment>>
           \/ \E account \in Account : set_alias_account(linked, info, account)
           \/ unset_alias_account(linked, info)

-----------------------------------------------------------------------------
(* Environment *)

Environment ==
    \/ /\ \E c \in AccountContexts : AccountContexts' = AccountContexts \ {c}
       /\ UNCHANGED <<people, links, sufficients, ring_revision, now>>
    \/ /\ members # {} /\ ring_revision < MaxRevision           \* bound
       /\ ring_revision' = ring_revision + 1
       /\ UNCHANGED <<people, links, sufficients, AccountContexts, now>>
    \/ /\ now < MaxNow                                          \* bound
       /\ now' = now + 1
       /\ paid' = IF PaidRegistrationPeriod # 0 /\ (now + 1) % PaidRegistrationPeriod = 0
                  THEN 0 ELSE paid
       /\ UNCHANGED <<LitePeople, AttestationAllowance, PaidRegistrations,
                      LitePeopleCollectionCreated, members, granted, attested, links, sufficients,
                      AccountContexts, ring_revision>>

-----------------------------------------------------------------------------
Init ==
    /\ LitePeople = [a \in Account |-> Nobody]
    /\ AttestationAllowance = [v \in Verifier |-> 0]
    /\ PaidRegistrations = [period |-> 0, registrations |-> 0]
    /\ LitePeopleCollectionCreated \in BOOLEAN      \* GenesisConfig
    /\ AliasToAccount = [x \in Alias |-> Nobody]
    /\ AccountToAlias = [a \in Account |-> Unlinked]
    /\ sufficients = [a \in Account |-> 0]
    /\ AccountContexts = Context
    /\ members = {}
    /\ ring_revision = NoRing
    /\ now = 0
    /\ granted = [v \in Verifier |-> 0] /\ attested = [v \in Verifier |-> 0] /\ paid = 0

Next ==
    \/ \E v \in Verifier :
           \/ increase_attestation_allowance(v)
           \/ clear_attestation_allowance(v)
           \/ \E candidate \in Account, key \in Key : attest(v, candidate, key)
    \/ \E candidate \in Account, key \in Key : register_with_fee(candidate, key)
    \/ create_lite_people_collection
    \/ \E account \in Account, x \in Alias, revision \in Revision :
           as_lite_alias_with_proof([alias |-> x, revision |-> revision], account)
    \/ \E who \in Account :
           \/ as_lite_alias_with_account(who)
           \/ \E revision \in Revision : as_lite_alias_with_account_revised(who, revision)
    \/ Environment

Spec == Init /\ [][Next]_vars

-----------------------------------------------------------------------------
(* Properties *)

\* An account is a lite person's or an alias's, never both, in whatever order it is
\* registered, linked and swapped, and the pallet holds one reference on it exactly as
\* long; no two lite people share a key, and each key is a member.
LiteAccountsExact ==
    /\ \A a \in Account : Linked(a) => AliasToAccount[AccountToAlias[a].alias] = a
    /\ \A x \in Alias : AliasToAccount[x] # Nobody => AccountToAlias[AliasToAccount[x]].alias = x
    /\ \A a \in Account : ~ (Linked(a) /\ a \in Registered)
    /\ \A a \in Account : sufficients[a] = IF Linked(a) \/ a \in Registered THEN 1 ELSE 0
    /\ members = {LitePeople[a] : a \in Registered}
    /\ \A a, b \in Registered : LitePeople[a] = LitePeople[b] => a = b

\* A verifier attests no more people than it was granted attestations for.
AllowanceKept ==
    \A v \in Verifier : attested[v] + AttestationAllowance[v] <= granted[v]

\* Above the threshold no more paid registrations than allowed are accepted in one period,
\* also when the entry that is stored is of an earlier period.
ThrottleKept == PaidRegistrationPeriod # 0 => paid <= PaidRegistrationsPerPeriod
=============================================================================

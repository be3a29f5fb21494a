----------------------------- MODULE PeopleMulti -----------------------------
(***************************************************************************)
(* pallets/people-multi: the people that are recognised, their keys in the *)
(* people collection of pallets/members, and the accounts that act for a   *)
(* person or for one of its aliases.  AsPerson, the transaction extension, *)
(* turns a proof or a linked account into the origin of a call.            *)
(*                                                                         *)
(* Proofs and signatures are sound, and a call out of its validity period  *)
(* changes nothing.  A call that returns an error is no step, except for   *)
(* what its transaction extension wrote before it.                         *)
(***************************************************************************)
EXTENDS Integers, FiniteSets

CONSTANTS
    Key,                        \* ring VRF keys
    Account,
    Context,                    \* contexts of aliases
    Alias,                      \* contextual aliases
    ContextOf,                  \* alias -> context
    RingIndex,
    Nobody,                     \* no key, no account, no alias
    MaxBulkCleanup,
    MaxId,                      \* bound on the personal ids
    MaxRevision,                \* bound on the rebuilds of a ring
    MaxSessions                 \* bound on the mutation sessions

VARIABLES
    Keys,                       \* key -> personal id, NoId if unused
    People,                     \* personal id -> [key, account, open], NoPerson if none
    NextPersonalId, ReservedPersonalId, PeopleCollectionCreated,
    AliasToAccount,             \* alias -> account
    AccountToAlias,             \* account -> [alias, ring, revision], Unlinked if none
    AccountToPersonalId,        \* account -> personal id, NoId if none
    sufficients,                \* references the pallet holds on each account
    AccountContexts,            \* contexts in which aliases may have accounts
    cleanup,                    \* aliases of the clean-up transaction in the pool
    active,                     \* members: keys that are members and not suspended
    sessions,                   \* members: mutation sessions
    ring_revision               \* members: revision of each ring, NoRing if it has no root

persons == <<Keys, People, NextPersonalId, ReservedPersonalId, PeopleCollectionCreated>>
links == <<AliasToAccount, AccountToAlias>>
collection == <<active, sessions, ring_revision>>
peopleVars == <<persons, links, AccountToPersonalId, sufficients, AccountContexts, cleanup,
                collection>>

PersonalId == 0 .. MaxId - 1
NoId == -1
NoRing == -1
NoPerson == [key |-> Nobody, account |-> Nobody, open |-> FALSE]
Unlinked == [alias |-> Nobody]
Revision == 0 .. MaxRevision
RevisedAlias == [alias : Alias, ring : RingIndex, revision : Revision]

Person(id) == People[id] # NoPerson
Linked(a) == AccountToAlias[a] # Unlinked

\* One reference less for the accounts that go, one more for the account that comes.
Reference(gone, come) ==
    sufficients' = [a \in Account |-> sufficients[a] + (IF a \in come THEN 1 ELSE 0)
                                                     - (IF a \in gone THEN 1 ELSE 0)]

-----------------------------------------------------------------------------
(* The interface for the pallets that recognise people: AddOnlyPeopleTrait, *)
(* PeopleTrait                                                             *)

reserve_new_id(count) ==
    /\ NextPersonalId + count <= MaxId              \* bound
    /\ NextPersonalId' = NextPersonalId + count
    /\ ReservedPersonalId' =
           ReservedPersonalId \union (NextPersonalId .. NextPersonalId + count - 1)
    /\ UNCHANGED <<Keys, People, PeopleCollectionCreated, links, AccountToPersonalId, sufficients,
                   AccountContexts, cleanup, collection>>

cancel_id_reservation(id) ==
    /\ id \in ReservedPersonalId
    /\ ReservedPersonalId' = ReservedPersonalId \ {id}
    /\ UNCHANGED <<Keys, People, NextPersonalId, PeopleCollectionCreated, links,
                   AccountToPersonalId, sufficients, AccountContexts, cleanup, collection>>

renew_id_reservation(id) ==
    /\ id < NextPersonalId /\ ~ Person(id) /\ id \notin ReservedPersonalId
    /\ ReservedPersonalId' = ReservedPersonalId \union {id}
    /\ UNCHANGED <<Keys, People, NextPersonalId, PeopleCollectionCreated, links,
                   AccountToPersonalId, sufficients, AccountContexts, cleanup, collection>>

\* Members are added when they are new to the collection or suspended.
add_members(keys) ==
    /\ PeopleCollectionCreated
    /\ keys \intersect active = {}
    /\ active' = active \union keys
    /\ UNCHANGED <<sessions, ring_revision>>

\* recognize_personhood with a key, for each of the people in turn: the ids were
\* reserved, or are new ones after next.
Recognized(people, reserved) ==
    /\ \A key \in {people[id] : id \in DOMAIN people} : Keys[key] = NoId
    /\ \A i, j \in DOMAIN people : people[i] = people[j] => i = j
    /\ DOMAIN people \subseteq reserved
    /\ add_members({people[id] : id \in DOMAIN people})
    /\ ReservedPersonalId' = reserved \ DOMAIN people
    /\ Keys' = [key \in Key |-> IF \E id \in DOMAIN people : people[id] = key
                                THEN CHOOSE id \in DOMAIN people : people[id] = key
                                ELSE Keys[key]]
    /\ People' = [id \in PersonalId |-> IF id \in DOMAIN people
                                        THEN [key |-> people[id], account |-> Nobody, open |-> TRUE]
                                        ELSE People[id]]
    /\ UNCHANGED <<PeopleCollectionCreated, links, AccountToPersonalId, sufficients,
                   AccountContexts, cleanup>>

recognize_personhood(people) ==
    Recognized(people, ReservedPersonalId) /\ UNCHANGED NextPersonalId

\* recognize_personhood without a key: a suspended person comes back.
recognize_personhood_again(id) ==
    /\ Person(id) /\ Keys[People[id].key] = id
    /\ ~ People[id].open
    /\ add_members({People[id].key})
    /\ People' = [People EXCEPT ![id].open = TRUE]
    /\ UNCHANGED <<Keys, NextPersonalId, ReservedPersonalId, PeopleCollectionCreated, links,
                   AccountToPersonalId, sufficients, AccountContexts, cleanup>>

\* All records are checked before a member is removed, and all members are removed before
\* a record is written.
suspend_personhood(ids) ==
    LET accounts == {People[id].account : id \in ids} \ {Nobody}
    IN  /\ \A id \in ids : Person(id) /\ People[id].open
        /\ {People[id].key : id \in ids} \subseteq active /\ sessions > 0   \* remove_members
        /\ active' = active \ {People[id].key : id \in ids}
        /\ People' = [id \in PersonalId |->
                         IF id \in ids THEN [People[id] EXCEPT !.account = Nobody, !.open = FALSE]
                         ELSE People[id]]
        /\ AccountToPersonalId' = [a \in Account |-> IF a \in accounts THEN NoId
                                                     ELSE AccountToPersonalId[a]]
        /\ Reference(accounts, {})
        /\ UNCHANGED <<Keys, NextPersonalId, ReservedPersonalId, PeopleCollectionCreated, links,
                       AccountContexts, cleanup, sessions, ring_revision>>

start_people_set_mutation_session ==
    /\ PeopleCollectionCreated /\ sessions < MaxSessions
    /\ sessions' = sessions + 1
    /\ UNCHANGED <<persons, links, AccountToPersonalId, sufficients, AccountContexts, cleanup,
                   active, ring_revision>>

end_people_set_mutation_session ==
    /\ sessions > 0
    /\ sessions' = sessions - 1
    /\ UNCHANGED <<persons, links, AccountToPersonalId, sufficients, AccountContexts, cleanup,
                   active, ring_revision>>

-----------------------------------------------------------------------------
(* Calls about people *)

create_people_collection ==
    /\ ~ PeopleCollectionCreated
    /\ PeopleCollectionCreated' = TRUE
    /\ UNCHANGED <<Keys, People, NextPersonalId, ReservedPersonalId, links, AccountToPersonalId,
                   sufficients, AccountContexts, cleanup, collection>>

\* One key; a list of keys has the effect of a call for each, or none.
force_recognize_personhood(key) ==
    LET id == NextPersonalId
    IN  /\ NextPersonalId < MaxId                   \* bound
        /\ NextPersonalId' = NextPersonalId + 1
        /\ Recognized([i \in {id} |-> key], ReservedPersonalId \union {id})

\* AsPersonalIdentityWithProof or AsPersonalIdentityWithAccount: the person signs with its
\* key, or with its account.  Suspended people may link an account, too.
set_personal_id_account(id, account) ==
    LET old_account == People[id].account
    IN  /\ Person(id)
        /\ AccountToPersonalId[account] = NoId /\ ~ Linked(account)
        /\ People' = [People EXCEPT ![id].account = account]
        /\ AccountToPersonalId' = [a \in Account |-> IF a = account THEN id
                                                     ELSE IF a = old_account THEN NoId
                                                     ELSE AccountToPersonalId[a]]
        /\ Reference({old_account}, {account})
        /\ UNCHANGED <<Keys, NextPersonalId, ReservedPersonalId, PeopleCollectionCreated, links,
                       AccountContexts, cleanup, collection>>

unset_personal_id_account(id) ==
    LET account == People[id].account
    IN  /\ Person(id) /\ account # Nobody
        /\ AccountToPersonalId[account] # NoId
        /\ People' = [People EXCEPT ![id].account = Nobody]
        /\ AccountToPersonalId' = [AccountToPersonalId EXCEPT ![account] = NoId]
        /\ Reference({account}, {})
        /\ UNCHANGED <<Keys, NextPersonalId, ReservedPersonalId, PeopleCollectionCreated, links,
                       AccountContexts, cleanup, collection>>

-----------------------------------------------------------------------------
(* Calls about aliases, with the origins AsPerson makes *)

supersedes(stored, info) ==
    stored # Unlinked /\ stored.alias = info.alias /\ stored.ring = info.ring
        /\ stored.revision >= info.revision

\* A proof on the current root, or on an old one that is still accepted.
Proves(info) == ring_revision[info.ring] # NoRing /\ info.revision <= ring_revision[info.ring]

\* Mutant: an account of a person can be linked to an alias.
set_alias_account_shared(linked, info, account) ==
    LET old_account == AliasToAccount[info.alias]
        needs_revision == /\ old_account # Nobody
                          /\ \/ linked[old_account].ring # info.ring
                             \/ linked[old_account].revision < info.revision
    IN  /\ ContextOf[info.alias] \in AccountContexts
        /\ old_account # account \/ needs_revision
        /\ old_account # account => linked[account] = Unlinked
        /\ AccountToAlias' = [a \in Account |-> IF a = account THEN info
                                                ELSE IF a = old_account THEN Unlinked ELSE linked[a]]
        /\ AliasToAccount' = [AliasToAccount EXCEPT ![info.alias] = account]
        /\ IF old_account # account THEN Reference({old_account}, {account})
           ELSE UNCHANGED sufficients
        /\ UNCHANGED <<persons, AccountToPersonalId, AccountContexts, cleanup, collection>>

\* The call finds the links as the transaction extension leaves them.
set_alias_account(linked, info, account) ==
    LET old_account == AliasToAccount[info.alias]
        needs_revision == /\ old_account # Nobody
                          /\ \/ linked[old_account].ring # info.ring
                             \/ linked[old_account].revision < info.revision
    IN  /\ ContextOf[info.alias] \in AccountContexts
        /\ AccountToPersonalId[account] = NoId
        /\ old_account # account \/ needs_revision
        /\ old_account # account => linked[account] = Unlinked
        /\ AccountToAlias' = [a \in Account |-> IF a = account THEN info
                                                ELSE IF a = old_account THEN Unlinked ELSE linked[a]]
        /\ AliasToAccount' = [AliasToAccount EXCEPT ![info.alias] = account]
        /\ IF old_account # account THEN Reference({old_account}, {account})
           ELSE UNCHANGED sufficients
        /\ UNCHANGED <<persons, AccountToPersonalId, AccountContexts, cleanup, collection>>

RemoveAliases(linked, aliases) ==
    LET accounts == {AliasToAccount[x] : x \in aliases}
    IN  /\ AliasToAccount' = [x \in Alias |-> IF x \in aliases THEN Nobody ELSE AliasToAccount[x]]
        /\ AccountToAlias' = [a \in Account |-> IF a \in accounts THEN Unlinked ELSE linked[a]]
        /\ Reference(accounts, {})
        /\ UNCHANGED <<persons, AccountToPersonalId, AccountContexts, collection>>

unset_alias_account(linked, info) ==
    /\ AliasToAccount[info.alias] # Nobody
    /\ RemoveAliases(linked, {info.alias})
    /\ UNCHANGED cleanup

as_personal_alias_with_proof(info, account) ==
    /\ Proves(info) /\ ~ supersedes(AccountToAlias[account], info)
    /\ set_alias_account(AccountToAlias, info, account)

as_personal_alias_with_account(who) ==
    LET info == AccountToAlias[who]
    IN  /\ Linked(who)
        /\ ContextOf[info.alias] \in AccountContexts
        /\ ring_revision[info.ring] = info.revision
        /\ \/ \E account \in Account : set_alias_account(AccountToAlias, info, account)
           \/ unset_alias_account(AccountToAlias, info)

\* The link is revised before the call, and stays so when the call fails or is another one.
as_personal_alias_with_account_revised(who, ring, revision) ==
    LET info == [AccountToAlias[who] EXCEPT !.ring = ring, !.revision = revision]
        linked == [AccountToAlias EXCEPT ![who] = info]
    IN  /\ Linked(who)
        /\ Proves(info)
        /\ ContextOf[info.alias] \in AccountContexts
        /\ \/ /\ AccountToAlias' = linked
              /\ UNCHANGED <<persons, AliasToAccount, AccountToPersonalId, sufficients,
                             AccountContexts, cleanup, collection>>
           \/ \E account \in Account : set_alias_account(linked, info, account)
           \/ unset_alias_account(linked, info)

\* CleanUpAlias, for other pallets; unconditional.
clean_up_alias(x) ==
    /\ AliasToAccount[x] # Nobody
    /\ RemoveAliases(AccountToAlias, {x})
    /\ UNCHANGED cleanup

ensure_alias_is_stale(info) ==
    \/ ContextOf[info.alias] \notin AccountContexts
    \/ ring_revision[info.ring] = NoRing

\* The offchain worker looks for links in removed contexts.  A new transaction takes the
\* place of the one in the pool.
offchain_worker ==
    LET stale == {x \in Alias : ContextOf[x] \notin AccountContexts /\ AliasToAccount[x] # Nobody}
    IN  /\ \E aliases \in SUBSET stale :
               /\ aliases # {} /\ aliases # cleanup
               /\ Cardinality(aliases) =
                      IF Cardinality(stale) < MaxBulkCleanup THEN Cardinality(stale)
                      ELSE MaxBulkCleanup
               /\ cleanup' = aliases
        /\ UNCHANGED <<persons, links, AccountToPersonalId, sufficients, AccountContexts, collection>>

authorize_clean_up_stale_aliases(aliases) ==
    \A x \in aliases : /\ AliasToAccount[x] # Nobody
                       /\ AccountToAlias[AliasToAccount[x]].alias = x
                       /\ ensure_alias_is_stale(AccountToAlias[AliasToAccount[x]])

\* The transaction of the pool, or any other a block author makes.
clean_up_stale_aliases(aliases) ==
    /\ aliases # {} /\ Cardinality(aliases) <= MaxBulkCleanup
    /\ authorize_clean_up_stale_aliases(aliases)
    /\ RemoveAliases(AccountToAlias, aliases)
    /\ cleanup' = IF aliases = cleanup THEN {} ELSE cleanup

\* Not valid any more: one link of the batch is gone.
cleanup_dropped ==
    /\ cleanup # {} /\ ~ authorize_clean_up_stale_aliases(cleanup)
    /\ cleanup' = {}
    /\ UNCHANGED <<persons, links, AccountToPersonalId, sufficients, AccountContexts, collection>>

-----------------------------------------------------------------------------
(* Environment *)

\* Contexts are removed for good.
ContextRemoved(c) ==
    /\ c \in AccountContexts
    /\ AccountContexts' = AccountContexts \ {c}
    /\ UNCHANGED <<persons, links, AccountToPersonalId, sufficients, cleanup, collection>>

\* Rings are built anew when their members change, and removed when they are merged.
RingChange(r) ==
    /\ PeopleCollectionCreated
    /\ \/ ring_revision[r] < MaxRevision /\ ring_revision' = [ring_revision EXCEPT ![r] = @ + 1]
       \/ ring_revision[r] # NoRing /\ ring_revision' = [ring_revision EXCEPT ![r] = NoRing]
    /\ UNCHANGED <<persons, links, AccountToPersonalId, sufficients, AccountContexts, cleanup,
                   active, sessions>>

-----------------------------------------------------------------------------
PeopleInit ==
    /\ Keys = [key \in Key |-> NoId]
    /\ People = [id \in PersonalId |-> NoPerson]
    /\ NextPersonalId = 0
    /\ ReservedPersonalId = {}
    /\ PeopleCollectionCreated \in BOOLEAN          \* GenesisConfig
    /\ AliasToAccount = [x \in Alias |-> Nobody]
    /\ AccountToAlias = [a \in Account |-> Unlinked]
    /\ AccountToPersonalId = [a \in Account |-> NoId]
    /\ sufficients = [a \in Account |-> 0]
    /\ AccountContexts = Context
    /\ cleanup = {}
    /\ active = {}
    /\ sessions = 0
    /\ ring_revision = [r \in RingIndex |-> NoRing]

PersonCalls ==
    \/ create_people_collection
    \/ \E key \in Key : force_recognize_personhood(key)
    \/ \E id \in PersonalId : \/ unset_personal_id_account(id)
                              \/ \E account \in Account : set_personal_id_account(id, account)

AliasCalls ==
    \/ \E account \in Account, info \in RevisedAlias : as_personal_alias_with_proof(info, account)
    \/ \E who \in Account :
           \/ as_personal_alias_with_account(who)
           \/ \E ring \in RingIndex, revision \in Revision :
                  as_personal_alias_with_account_revised(who, ring, revision)
    \/ \E x \in Alias : clean_up_alias(x)
    \/ offchain_worker
    \/ \E aliases \in SUBSET Alias : clean_up_stale_aliases(aliases)
    \/ cleanup_dropped

PeopleEnvironment ==
    \/ \E c \in Context : ContextRemoved(c)
    \/ \E r \in RingIndex : RingChange(r)

PeopleNext == PersonCalls \/ AliasCalls \/ PeopleEnvironment

\* Every interval a worker submits, and transactions of the pool are included or dropped.
PeopleFairness ==
    /\ WF_peopleVars(offchain_worker)
    /\ WF_peopleVars(clean_up_stale_aliases(cleanup) \/ cleanup_dropped)

-----------------------------------------------------------------------------
(* Properties *)

\* Ids below NextPersonalId are reserved, in use or given up, never two of these, and no
\* other id is known; every person has a key and every used key one person.
IdsExact ==
    /\ \A id \in ReservedPersonalId : id < NextPersonalId /\ ~ Person(id)
    /\ \A id \in PersonalId : Person(id) => id < NextPersonalId /\ Keys[People[id].key] = id
    /\ \A key \in Key : Keys[key] # NoId => People[Keys[key]].key = key

\* The invariant PersonRecord states: a period of recognition is open exactly while the
\* person's key is an active member of the people collection.
HistoryExact ==
    \A key \in Key : key \in active <=> Keys[key] # NoId /\ People[Keys[key]].open

\* An account acts for at most one alias or one person, both sides know of it, and the
\* pallet holds one reference on it exactly as long.
AccountsExact ==
    /\ \A a \in Account : Linked(a) => AliasToAccount[AccountToAlias[a].alias] = a
    /\ \A x \in Alias : AliasToAccount[x] # Nobody => AccountToAlias[AliasToAccount[x]].alias = x
    /\ \A a \in Account :
           AccountToPersonalId[a] # NoId => People[AccountToPersonalId[a]].account = a
    /\ \A id \in PersonalId :
           People[id].account # Nobody => AccountToPersonalId[People[id].account] = id
    /\ \A a \in Account :
           sufficients[a] = Cardinality({k \in {"alias", "person"} :
               \/ k = "alias" /\ Linked(a)
               \/ k = "person" /\ AccountToPersonalId[a] # NoId})
    /\ \A a \in Account : sufficients[a] <= 1

\* Links in a removed context are all removed in the end, although a batch that holds one
\* link too many is dropped as a whole.
ContextsCleared ==
    \A x \in Alias : ContextOf[x] \notin AccountContexts ~> AliasToAccount[x] = Nobody
=============================================================================

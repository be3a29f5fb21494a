------------------------------ MODULE MCPeople ------------------------------
(* Small instances of the two pallets that link accounts to aliases and sweep the links *)
(* that went stale: alias-accounts (on the subscriber chains) and people-multi, with     *)
(* dummy-dim recognising people.  They do not call each other: a behaviour is one of one  *)
(* of them, and the other stays as it began.                                              *)
EXTENDS AliasAccounts

CONSTANTS
    Key, Context, Nobody, PeopleAlias,
    MaxBulkCleanup, MaxId, MaxSessions, MaxPersonBatchSize

VARIABLES
    pallet,
    Keys, People, NextPersonalId, ReservedPersonalId, PeopleCollectionCreated,
    PeopleAliasToAccount, PeopleAccountToAlias, AccountToPersonalId, people_sufficients,
    AccountContexts, cleanup, active, sessions, ring_revision, ReservedIds, DimPeople

ContextOf == [x \in PeopleAlias |-> CHOOSE c \in Context : TRUE]

D == INSTANCE DummyDim WITH
        Alias <- PeopleAlias, RingIndex <- {0},
        AliasToAccount <- PeopleAliasToAccount, AccountToAlias <- PeopleAccountToAlias,
        sufficients <- people_sufficients

dimVars == <<Keys, People, NextPersonalId, ReservedPersonalId, PeopleCollectionCreated,
             PeopleAliasToAccount, PeopleAccountToAlias, AccountToPersonalId,
             people_sufficients, AccountContexts, cleanup, active, sessions, ring_revision,
             ReservedIds, DimPeople>>

MCInit ==
    /\ pallet \in {"alias-accounts", "people-multi"}
    /\ Init /\ D!Init
    /\ pallet # "people-multi" => PeopleCollectionCreated

OnlyAlias == pallet = "alias-accounts" /\ UNCHANGED <<pallet, dimVars>>
OnlyDim == pallet = "people-multi" /\ UNCHANGED <<pallet, vars>>

MCNext ==
    \/ OnlyAlias /\ Next
    \/ OnlyDim /\ D!Next

MCFairness ==
    /\ WF_vars(OnlyAlias /\ Tick)
    /\ \A a \in Account : WF_vars(OnlyAlias /\ sweep_stale_aliases(a))
    /\ WF_dimVars(OnlyDim /\ D!offchain_worker /\ UNCHANGED <<ReservedIds, DimPeople>>)
    /\ WF_dimVars(/\ OnlyDim
                  /\ D!clean_up_stale_aliases(cleanup) \/ D!cleanup_dropped
                  /\ UNCHANGED <<ReservedIds, DimPeople>>)

MCSpec == MCInit /\ [][MCNext]_<<pallet, vars, dimVars>> /\ MCFairness

\* An account holds as many references of people-multi as it has links.
AccountsExact == D!AccountsExact

\* The people, their keys and the reserved ids of people-multi and of dummy-dim, which
\* recognises the people, agree.
PeopleExact == D!IdsExact /\ D!HistoryExact /\ D!DimAgrees

\* Links that went stale are removed in the end: those of alias-accounts whose revision is
\* refused for good, and those of people-multi in contexts that are gone.
StaleLinksGo == SweepEnds /\ D!ContextsCleared
=============================================================================

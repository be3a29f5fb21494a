------------------------ MODULE AliasAccountsProofs ------------------------
(* What holds of the links of pallets/alias-accounts for every set of       *)
(* accounts, aliases and rings and for all periods and limits.              *)
EXTENDS AliasAccounts, SequenceTheorems, TLAPS

-----------------------------------------------------------------------------
(* Operators *)

\* No link looks like the entry of an account without one.
LEMMA LinkFields ==
    /\ Unlinked \notin Link
    /\ \A l \in Link : l.alias \in Alias /\ l.ring \in RingIndex /\ l.revision \in 0 .. MaxRevision
    /\ Unlinked.alias \notin Alias
  BY AliasAssumption DEF Link, Unlinked

\* An entry that is not empty is a link.
LEMMA LinkedIsLink ==
    ASSUME TypeOK, NEW a \in Account, Linked(a)
    PROVE  AccountToAlias[a] \in Link
  BY DEF TypeOK, Linked

\* Ages stay integers, and grow by at most one.
LEMMA OlderGrows ==
    \A age \in Int : /\ Older(age) \in Int
                     /\ age <= Older(age) /\ Older(age) <= age + 1
                     /\ age < MappingRetention => Older(age) = age + 1
                     /\ age >= MappingRetention => Older(age) = age
  BY RetentionAssumption DEF Older

\* A report is dated into the past, or to the present.
LEMMA StaleSinceType ==
    ASSUME TypeOK, NEW r \in RingIndex
    PROVE  stale_since(r) \in Nat
  <1> DEFINE w == Window[r]
  <1>1. w \in Seq(RootRecord)
    BY DEF TypeOK
  <1>2. w # <<>> => w[Len(w)] \in RootRecord
    BY <1>1
  <1>3. w # <<>> => w[Len(w)].age \in Int
    BY <1>2 DEF RootRecord
  <1> QED
    BY <1>3 DEF stale_since

LEMMA RecordAge == \A rec \in RootRecord : rec.age \in Int
  BY DEF RootRecord

\* The newest root stays in a window that makes room for it.
LEMMA RecentAppend ==
    ASSUME NEW w \in Seq(RootRecord), NEW rec \in RootRecord
    PROVE  LET n == Recent(Append(w, rec))
           IN  /\ n \in Seq(RootRecord) /\ n # <<>> /\ n[Len(n)] = rec
               /\ \/ n = Append(w, rec)
                  \/ /\ Len(w) > 0 /\ Len(n) = Len(w)
                     /\ \A i \in 1 .. Len(n) : n[i] = Append(w, rec)[i + 1]
  <1> DEFINE s == Append(w, rec)
  <1>1. s \in Seq(RootRecord) /\ Len(s) = Len(w) + 1 /\ s[Len(s)] = rec /\ s # <<>>
    OBVIOUS
  <1>2. CASE Len(s) > MaxRecentRootsPerRing
    <2>1. Len(w) > 0
      BY <1>1, <1>2, RetentionAssumption
    <2>2. /\ Tail(s) \in Seq(RootRecord) /\ Len(Tail(s)) = Len(s) - 1
          /\ \A i \in 1 .. Len(Tail(s)) : Tail(s)[i] = s[i + 1]
      BY <1>1
    <2>3. Tail(s) # <<>> /\ Tail(s)[Len(Tail(s))] = rec
      BY <1>1, <2>1, <2>2
    <2> QED
      BY <1>1, <1>2, <2>1, <2>2, <2>3 DEF Recent
  <1>3. CASE ~ (Len(s) > MaxRecentRootsPerRing)
    BY <1>1, <1>3 DEF Recent
  <1> QED
    BY <1>2, <1>3

\* Only accounts with a link are swept.
LEMMA SweptAreLinked ==
    ASSUME NEW accounts \in SUBSET Account, NEW action, action # "None",
           authorize_sweep(accounts, action)
    PROVE  \A a \in accounts : Linked(a)
  BY DEF authorize_sweep, stale_alias_action

-----------------------------------------------------------------------------
(* Types *)

LEMMA TypeInit == Init => TypeOK
  <1> SUFFICES ASSUME Init PROVE TypeOK
    OBVIOUS
  <1>1. Window \in [RingIndex -> Seq(RootRecord)]
    BY DEF Init
  <1>2. Revision \in [RingIndex -> 0 .. MaxRevision]
    BY RetentionAssumption DEF Init
  <1> QED
    BY <1>1, <1>2 DEF Init, TypeOK

LEMMA JudgeType ==
    ASSUME TypeOK, NEW newer, NEW time \in BOOLEAN, Judge(newer, time)
    PROVE  refused' \in [Account -> Nat] /\ revived' \in [Account -> BOOLEAN]
  <1>1. \A a \in Account : Older(refused[a]) \in Nat
    BY RetentionAssumption DEF TypeOK, Older
  <1>2. refused' \in [Account -> Nat]
    BY <1>1, Zenon DEF TypeOK, Judge
  <1>3. revived' \in [Account -> BOOLEAN]
    BY Zenon DEF TypeOK, Judge
  <1> QED
    BY <1>2, <1>3

LEMMA ForgetType ==
    ASSUME TypeOK, NEW accounts, Forget(accounts)
    PROVE  refused' \in [Account -> Nat] /\ revived' \in [Account -> BOOLEAN]
  <1>1. refused' \in [Account -> Nat]
    BY DEF TypeOK, Forget
  <1>2. revived' \in [Account -> BOOLEAN]
    BY Zenon DEF TypeOK, Forget
  <1> QED
    BY <1>1, <1>2

LEMMA UnlinkType ==
    ASSUME TypeOK, NEW accounts \in SUBSET Account, Unlink(accounts), UNCHANGED rings
    PROVE  TypeOK'
  <1>1. refused' \in [Account -> Nat] /\ revived' \in [Account -> BOOLEAN]
    BY ForgetType DEF Unlink
  <1>2. AccountToAlias' \in [Account -> Link \union {Unlinked}]
    BY DEF Unlink, TypeOK
  <1>3. AliasToAccount' \in [Alias -> Account \union {NoAccount}]
    BY DEF Unlink, TypeOK
  <1>4. StaleSince' \in [Account -> Nat \union {NoStamp}] /\ sufficients' \in [Account -> Int]
    BY DEF Unlink, TypeOK
  <1> QED
    BY <1>1, <1>2, <1>3, <1>4 DEF TypeOK, rings

LEMMA TypeStep == TypeOK /\ [Next]_vars => TypeOK'
  <1> SUFFICES ASSUME TypeOK, [Next]_vars PROVE TypeOK'
    OBVIOUS
  <1>1. ASSUME NEW r \in RingIndex, RootsLost(r) PROVE TypeOK'
    <2>1. Window' \in [RingIndex -> Seq(RootRecord)]
      BY <1>1 DEF RootsLost, SetWindows, TypeOK
    <2>2. refused' \in [Account -> Nat] /\ revived' \in [Account -> BOOLEAN]
      BY <1>1, JudgeType DEF RootsLost, SetWindows
    <2> QED
      BY <1>1, <2>1, <2>2 DEF RootsLost, links, TypeOK
  <1>2. ASSUME NEW r \in RingIndex, NEW age \in - MaxSkew .. MaxDelay, RootArrives(r, age)
        PROVE  TypeOK'
    <2> DEFINE rec == [revision |-> Revision'[r], age |-> age]
    <2>1. Revision' \in [RingIndex -> 0 .. MaxRevision]
      <3>1. \/ Revision[r] < MaxRevision /\ Revision' = [Revision EXCEPT ![r] = Revision[r] + 1]
            \/ Revision' = Revision
        BY <1>2 DEF RootArrives
      <3>2. Revision \in [RingIndex -> 0 .. MaxRevision]
        BY DEF TypeOK
      <3> QED
        BY <3>1, <3>2, RetentionAssumption
    <2>2. rec \in RootRecord
      BY <2>1, RetentionAssumption DEF RootRecord
    <2>3. Recent(Append(Window[r], rec)) \in Seq(RootRecord)
      BY <2>2, RecentAppend DEF TypeOK
    <2>4. Window' \in [RingIndex -> Seq(RootRecord)]
      <3>1. Window' = [Window EXCEPT ![r] = Recent(Append(Window[r], rec))]
        BY <1>2 DEF RootArrives, SetWindows
      <3> QED
        BY <2>3, <3>1 DEF TypeOK
    <2>5. refused' \in [Account -> Nat] /\ revived' \in [Account -> BOOLEAN]
      BY <1>2, JudgeType DEF RootArrives, SetWindows
    <2> QED
      BY <1>2, <2>1, <2>4, <2>5 DEF RootArrives, links, TypeOK
  <1>3. ASSUME NEW who \in Account, unset_alias_account(who) PROVE TypeOK'
    BY <1>3, UnlinkType DEF unset_alias_account
  <1>4. ASSUME NEW who \in Account, NEW info \in Link, set_alias_account(who, info) PROVE TypeOK'
    <2>1. refused' \in [Account -> Nat] /\ revived' \in [Account -> BOOLEAN]
      BY <1>4, ForgetType DEF set_alias_account
    <2>2. AliasToAccount' \in [Alias -> Account \union {NoAccount}]
      BY <1>4, LinkFields DEF set_alias_account, TypeOK
    <2>3. AccountToAlias' \in [Account -> Link \union {Unlinked}]
      BY <1>4 DEF set_alias_account, TypeOK
    <2>4. StaleSince' \in [Account -> Nat \union {NoStamp}] /\ sufficients' \in [Account -> Int]
      BY <1>4 DEF set_alias_account, TypeOK
    <2> QED
      BY <1>4, <2>1, <2>2, <2>3, <2>4 DEF set_alias_account, rings, TypeOK
  <1>5. ASSUME NEW who \in Account, NEW ring \in RingIndex, NEW revision \in 0 .. MaxRevision,
               reprove_alias_account(who, ring, revision)
        PROVE  TypeOK'
    <2>1. refused' \in [Account -> Nat] /\ revived' \in [Account -> BOOLEAN]
      BY <1>5, ForgetType DEF reprove_alias_account
    <2>2. [alias |-> AccountToAlias[who].alias, ring |-> ring, revision |-> revision] \in Link
      BY <1>5, LinkedIsLink, LinkFields DEF reprove_alias_account, Link
    <2> QED
      BY <1>5, <2>1, <2>2 DEF reprove_alias_account, rings, TypeOK
  <1>6. ASSUME NEW accounts \in SUBSET Account, report_stale_aliases(accounts) PROVE TypeOK'
    <2>1. \A a \in accounts : Linked(a)
      BY <1>6, SweptAreLinked DEF report_stale_aliases
    <2>2. \A a \in accounts : stale_since(AccountToAlias[a].ring) \in Nat
      BY <2>1, LinkedIsLink, LinkFields, StaleSinceType
    <2> QED
      BY <1>6, <2>2 DEF report_stale_aliases, rings, history, TypeOK
  <1>7. ASSUME NEW accounts \in SUBSET Account, retire_stale_aliases(accounts) PROVE TypeOK'
    BY <1>7, UnlinkType DEF retire_stale_aliases
  <1>8. ASSUME NEW accounts \in SUBSET Account, clear_stale_alias_reports(accounts) PROVE TypeOK'
    <2>1. revived' \in [Account -> BOOLEAN]
      BY <1>8, Zenon DEF clear_stale_alias_reports, TypeOK
    <2> QED
      BY <1>8, <2>1 DEF clear_stale_alias_reports, rings, TypeOK
  <1>9. CASE Tick
    <2>1. \A r \in RingIndex : \A i \in 1 .. Len(Window[r]) :
              [Window[r][i] EXCEPT !.age = Older(Window[r][i].age)] \in RootRecord
      <3>1. \A rec \in RootRecord : [rec EXCEPT !.age = Older(rec.age)] \in RootRecord
        BY OlderGrows DEF RootRecord
      <3>2. \A r \in RingIndex : \A i \in 1 .. Len(Window[r]) : Window[r][i] \in RootRecord
        BY DEF TypeOK
      <3> QED
        BY <3>1, <3>2
    <2>2. \A r \in RingIndex : Len(Window[r]) \in Nat
      BY DEF TypeOK
    <2>3. \A r \in RingIndex : [i \in 1 .. Len(Window[r]) |->
                                   [Window[r][i] EXCEPT !.age = Older(Window[r][i].age)]] \in Seq(RootRecord)
      BY <2>1, <2>2
    <2>4. Window' \in [RingIndex -> Seq(RootRecord)]
      BY <1>9, <2>3 DEF Tick, SetWindows
    <2>5. refused' \in [Account -> Nat] /\ revived' \in [Account -> BOOLEAN]
      BY <1>9, JudgeType DEF Tick, SetWindows
    <2>6. StaleSince' \in [Account -> Nat \union {NoStamp}]
      BY <1>9, RetentionAssumption DEF Tick, TypeOK, Older
    <2> QED
      BY <1>9, <2>4, <2>5, <2>6 DEF Tick, TypeOK
  <1>10. CASE UNCHANGED vars
    BY <1>10 DEF vars, links, rings, history, TypeOK
  <1> QED
    BY <1>1, <1>2, <1>3, <1>4, <1>5, <1>6, <1>7, <1>8, <1>9, <1>10
    DEF Next, Rings, Users, Sweep, sweep_stale_aliases

\* Every entry of the pallet keeps its type, and the windows and revisions it reads keep
\* theirs, for all ages a root may arrive with (all calls, and the clock).
THEOREM TypeCorrect == Spec => []TypeOK
  BY TypeInit, TypeStep, PTL DEF Spec

-----------------------------------------------------------------------------
(* Links *)

\* Removing links keeps the two maps inverse.
LEMMA UnlinkExact ==
    ASSUME TypeOK, LinksExact, NEW accounts \in SUBSET Account, Unlink(accounts),
           \A a \in accounts : Linked(a)
    PROVE  LinksExact'
  <1>1. /\ \A a \in Account : a \in accounts => AccountToAlias'[a] = Unlinked
        /\ \A a \in Account : a \notin accounts => AccountToAlias'[a] = AccountToAlias[a]
    BY DEF Unlink, TypeOK
  <1>2. \A x \in Alias : AliasToAccount'[x] =
            IF \E a \in accounts : AccountToAlias[a].alias = x THEN NoAccount
            ELSE AliasToAccount[x]
    BY DEF Unlink
  <1>3. \A a \in Account : Linked(a) => AccountToAlias[a].alias \in Alias
    BY LinkedIsLink, LinkFields
  <1>4. \A a \in Account : Linked(a)' <=> Linked(a) /\ a \notin accounts
    BY <1>1 DEF Linked
  <1>5. \A a \in Account : Linked(a)' => AliasToAccount'[AccountToAlias'[a].alias] = a
    <2> SUFFICES ASSUME NEW a \in Account, Linked(a)'
                 PROVE  AliasToAccount'[AccountToAlias'[a].alias] = a
      OBVIOUS
    <2>1. Linked(a) /\ a \notin accounts /\ AccountToAlias'[a] = AccountToAlias[a]
      BY <1>1, <1>4
    <2>2. AliasToAccount[AccountToAlias[a].alias] = a /\ AccountToAlias[a].alias \in Alias
      BY <1>3, <2>1 DEF LinksExact, MapsInverse
    <2>3. \A b \in accounts : AccountToAlias[b].alias # AccountToAlias[a].alias
      BY <2>1, <2>2 DEF LinksExact, MapsInverse
    <2> QED
      BY <1>2, <2>1, <2>2, <2>3
  <1>6. \A x \in Alias : AliasToAccount'[x] # NoAccount
            => AccountToAlias'[AliasToAccount'[x]].alias = x
    <2> SUFFICES ASSUME NEW x \in Alias, AliasToAccount'[x] # NoAccount
                 PROVE  AccountToAlias'[AliasToAccount'[x]].alias = x
      OBVIOUS
    <2>1. AliasToAccount'[x] = AliasToAccount[x] /\ ~ \E a \in accounts : AccountToAlias[a].alias = x
      BY <1>2
    <2>2. AliasToAccount[x] \in Account /\ AccountToAlias[AliasToAccount[x]].alias = x
      BY <2>1 DEF LinksExact, MapsInverse, TypeOK
    <2>3. AliasToAccount[x] \notin accounts
      BY <2>1, <2>2
    <2> QED
      BY <1>1, <2>1, <2>2, <2>3
  <1>7. \A a \in Account : sufficients'[a] = IF Linked(a)' THEN 1 ELSE 0
    <2>1. \A a \in Account : sufficients[a] = IF Linked(a) THEN 1 ELSE 0
      BY DEF LinksExact, MapsInverse
    <2>2. \A a \in Account : sufficients'[a] = sufficients[a] - (IF a \in accounts THEN 1 ELSE 0)
      BY DEF Unlink
    <2> QED
      BY <1>4, <2>1, <2>2
  <1>8. \A a \in Account : StaleSince'[a] # NoStamp => Linked(a)'
    BY <1>4 DEF Unlink, LinksExact, StampsOwned
  <1> QED
    BY <1>5, <1>6, <1>7, <1>8 DEF LinksExact, MapsInverse, StampsOwned

\* Steps that leave the links alone, and report only accounts that have one.
LEMMA SameLinksExact ==
    ASSUME LinksExact, UNCHANGED <<AliasToAccount, AccountToAlias, sufficients>>,
           \A a \in Account : StaleSince'[a] # NoStamp => Linked(a)
    PROVE  LinksExact'
  BY DEF LinksExact, MapsInverse, StampsOwned, Linked

LEMMA LinksInit == Init => LinksExact
  BY DEF Init, LinksExact, MapsInverse, StampsOwned, Linked

LEMMA LinksStep == TypeOK /\ LinksExact /\ [Next]_vars => LinksExact'
  <1> SUFFICES ASSUME TypeOK, LinksExact, [Next]_vars PROVE LinksExact'
    OBVIOUS
  <1> USE DEF StampsOwned
  <1>1. ASSUME UNCHANGED links PROVE LinksExact'
    BY <1>1, SameLinksExact DEF links, LinksExact
  <1>2. ASSUME NEW r \in RingIndex, RootsLost(r) PROVE LinksExact'
    BY <1>1, <1>2 DEF RootsLost
  <1>3. ASSUME NEW r \in RingIndex, NEW age, RootArrives(r, age) PROVE LinksExact'
    BY <1>1, <1>3 DEF RootArrives
  <1>4. ASSUME NEW who \in Account, unset_alias_account(who) PROVE LinksExact'
    BY <1>4, UnlinkExact DEF unset_alias_account
  <1>5. ASSUME NEW who \in Account, NEW info \in Link, set_alias_account(who, info)
        PROVE  LinksExact'
    <2> DEFINE old == {a \in Account : a = AliasToAccount[info.alias]}
               is_new_account == old # {who}
               x0 == info.alias
    <2>1. x0 \in Alias /\ info # Unlinked
      BY LinkFields
    <2>2. /\ AliasToAccount' = [AliasToAccount EXCEPT ![x0] = who]
          /\ \A a \in Account : AccountToAlias'[a] =
                 IF a = who THEN info ELSE IF a \in old THEN Unlinked ELSE AccountToAlias[a]
          /\ is_new_account => ~ Linked(who)
          /\ \A a \in Account : StaleSince'[a] # NoStamp =>
                 a \notin {who} \union old /\ StaleSince[a] # NoStamp
      BY <1>5 DEF set_alias_account
    <2>3. \A a \in Account : Linked(a)' <=> a = who \/ (a \notin old /\ Linked(a))
      BY <2>1, <2>2 DEF Linked
    <2>4. \A a \in Account : Linked(a) /\ AccountToAlias[a].alias = x0 => a \in old
      BY DEF LinksExact, MapsInverse
    <2>5. \A a \in old : Linked(a) /\ AccountToAlias[a].alias = x0
      BY <2>1, AliasAssumption, LinkFields DEF LinksExact, MapsInverse, Linked
    <2>6. \A a \in Account : Linked(a)' => AliasToAccount'[AccountToAlias'[a].alias] = a
      <3> SUFFICES ASSUME NEW a \in Account, Linked(a)'
                   PROVE  AliasToAccount'[AccountToAlias'[a].alias] = a
        OBVIOUS
      <3>1. CASE a = who
        BY <2>1, <2>2, <3>1 DEF TypeOK
      <3>2. CASE a # who
        <4>1. Linked(a) /\ a \notin old /\ AccountToAlias'[a] = AccountToAlias[a]
          BY <2>2, <2>3, <3>2
        <4>2. AccountToAlias[a].alias # x0 /\ AccountToAlias[a].alias \in Alias
          BY <2>4, <4>1, LinkedIsLink, LinkFields
        <4>3. AliasToAccount[AccountToAlias[a].alias] = a
          BY <4>1 DEF LinksExact, MapsInverse
        <4> QED
          BY <2>2, <4>1, <4>2, <4>3 DEF TypeOK
      <3> QED
        BY <3>1, <3>2
    <2>7. \A x \in Alias : AliasToAccount'[x] # NoAccount
              => AccountToAlias'[AliasToAccount'[x]].alias = x
      <3> SUFFICES ASSUME NEW x \in Alias, AliasToAccount'[x] # NoAccount
                   PROVE  AccountToAlias'[AliasToAccount'[x]].alias = x
        OBVIOUS
      <3>1. CASE x = x0
        BY <2>2, <3>1 DEF TypeOK
      <3>2. CASE x # x0
        <4>1. AliasToAccount'[x] = AliasToAccount[x]
          BY <2>2, <3>2 DEF TypeOK
        <4>2. /\ AliasToAccount[x] \in Account /\ AccountToAlias[AliasToAccount[x]].alias = x
              /\ Linked(AliasToAccount[x])
          BY <4>1, LinkFields DEF LinksExact, MapsInverse, TypeOK, Linked
        <4>3. AliasToAccount[x] \notin old
          BY <2>5, <3>2, <4>2
        <4>4. AliasToAccount[x] # who
          BY <2>2, <4>2, <4>3
        <4> QED
          BY <2>2, <4>1, <4>2, <4>3, <4>4
      <3> QED
        BY <3>1, <3>2
    <2>8. \A a \in Account : sufficients'[a] = IF Linked(a)' THEN 1 ELSE 0
      <3>1. \A a \in Account : sufficients[a] = IF Linked(a) THEN 1 ELSE 0
        BY DEF LinksExact, MapsInverse
      <3>2. \A a \in Account : sufficients'[a] = sufficients[a]
                + (IF a = who /\ is_new_account THEN 1 ELSE 0)
                - (IF a \in old /\ is_new_account THEN 1 ELSE 0)
        BY <1>5 DEF set_alias_account
      <3>3. is_new_account => who \notin old
        BY <2>2, <2>5
      <3> QED
        BY <2>2, <2>3, <2>5, <3>1, <3>2, <3>3
    <2>9. \A a \in Account : StaleSince'[a] # NoStamp => Linked(a)'
      BY <2>2, <2>3 DEF LinksExact
    <2> QED
      BY <2>6, <2>7, <2>8, <2>9 DEF LinksExact, MapsInverse
  <1>6. ASSUME NEW who \in Account, NEW ring \in RingIndex, NEW revision \in 0 .. MaxRevision,
               reprove_alias_account(who, ring, revision)
        PROVE  LinksExact'
    <2> DEFINE new_info == [alias |-> AccountToAlias[who].alias, ring |-> ring,
                            revision |-> revision]
    <2>1. /\ Linked(who) /\ AccountToAlias' = [AccountToAlias EXCEPT ![who] = new_info]
          /\ StaleSince' = [StaleSince EXCEPT ![who] = NoStamp]
          /\ UNCHANGED <<AliasToAccount, sufficients>>
      BY <1>6 DEF reprove_alias_account
    <2>2. new_info \in Link
      BY <2>1, LinkedIsLink, LinkFields DEF Link
    <2>3. /\ \A a \in Account : AccountToAlias'[a].alias = AccountToAlias[a].alias
          /\ \A a \in Account : Linked(a)' <=> Linked(a)
      BY <2>1, <2>2, LinkFields DEF TypeOK, Linked
    <2>4. \A a \in Account : StaleSince'[a] # NoStamp => StaleSince[a] # NoStamp
      BY <2>1 DEF TypeOK
    <2>5. \A a \in Account : Linked(a)' => AliasToAccount'[AccountToAlias'[a].alias] = a
      BY <2>1, <2>3 DEF LinksExact, MapsInverse
    <2>6. \A x \in Alias : AliasToAccount'[x] # NoAccount
              => AccountToAlias'[AliasToAccount'[x]].alias = x
      BY <2>1, <2>3 DEF LinksExact, MapsInverse, TypeOK
    <2> QED
      BY <2>1, <2>3, <2>4, <2>5, <2>6 DEF LinksExact, MapsInverse
  <1>7. ASSUME NEW accounts \in SUBSET Account, report_stale_aliases(accounts) PROVE LinksExact'
    <2>1. \A a \in accounts : Linked(a)
      BY <1>7, SweptAreLinked DEF report_stale_aliases
    <2> QED
      BY <1>7, <2>1, SameLinksExact DEF report_stale_aliases, LinksExact
  <1>8. ASSUME NEW accounts \in SUBSET Account, retire_stale_aliases(accounts) PROVE LinksExact'
    <2>1. \A a \in accounts : Linked(a)
      BY <1>8, SweptAreLinked DEF retire_stale_aliases
    <2> QED
      BY <1>8, <2>1, UnlinkExact DEF retire_stale_aliases
  <1>9. ASSUME NEW accounts \in SUBSET Account, clear_stale_alias_reports(accounts)
        PROVE  LinksExact'
    BY <1>9, SameLinksExact DEF clear_stale_alias_reports, LinksExact
  <1>10. CASE Tick
    BY <1>10, SameLinksExact DEF Tick, LinksExact
  <1>11. CASE UNCHANGED vars
    BY <1>1, <1>11 DEF vars
  <1> QED
    BY <1>2, <1>3, <1>4, <1>5, <1>6, <1>7, <1>8, <1>9, <1>10, <1>11
    DEF Next, Rings, Users, Sweep, sweep_stale_aliases

\* The two maps stay inverse, one reference is held on each linked account and none on any
\* other, and a report always belongs to the link it was made for, whatever accounts are
\* linked, replaced, proved again, unset and retired.
THEOREM LinksCorrect == Spec => []LinksExact
  <1>1. TypeOK /\ LinksExact /\ [Next]_vars => TypeOK' /\ LinksExact'
    BY TypeStep, LinksStep
  <1> QED
    BY <1>1, TypeInit, LinksInit, PTL DEF Spec

-----------------------------------------------------------------------------
(* The grace period *)

\* In a window a later root is no older than an earlier one.
Ordered(window) ==
    \A i, j \in 1 .. Len(window) : i <= j => window[j].age <= window[i].age

\* A link has been refused for `time', all but the Longest a root may be accepted or on its
\* way; past the retention period the difference no longer matters.
Waited(time, a) == time <= refused[a] + Longest \/ refused[a] >= MappingRetention - Longest

\* What the sweep counts on: a refused link has been so since about the time of the newest
\* root, and a report that stands is of a refused link and dated no earlier than that.
GraceInv ==
    /\ \A r \in RingIndex : Ordered(Window[r])
    /\ \A a \in Account : Linked(a) =>
        /\ ~ is_revision_valid(AccountToAlias[a]) => Waited(stale_since(AccountToAlias[a].ring), a)
        /\ StaleSince[a] # NoStamp /\ ~ revived[a] =>
              ~ is_revision_valid(AccountToAlias[a]) /\ Waited(StaleSince[a], a)

LEMMA LongestBounds ==
    Longest \in Nat /\ OldRootRetentionDuration <= Longest /\ MaxDelay <= Longest
  BY RetentionAssumption DEF Longest

\* The age a report would be dated to, of a window.
Newest(window) ==
    IF window # <<>> /\ window[Len(window)].age > 0 THEN window[Len(window)].age ELSE 0

LEMMA StaleSinceNewest == \A r : stale_since(r) = Newest(Window[r])
  BY DEF stale_since, Newest

\* What Judge asks of new windows: they are in order, a link that they begin to refuse is
\* refused at most Longest after the newest root, and one they go on refusing has no newer
\* date than before, but for the time that passed.
Judged(newer, time) ==
    /\ \A r \in RingIndex : Ordered(newer[r])
    /\ \A r \in RingIndex : Newest(newer[r]) \in Nat
    /\ \A r \in RingIndex, revision \in 0 .. MaxRevision :
        /\ Accepts(Window[r], revision) /\ ~ Accepts(newer[r], revision) =>
              Newest(newer[r]) <= Longest
        /\ ~ Accepts(newer[r], revision) =>
              \/ Newest(newer[r]) <= Longest
              \/ Newest(newer[r]) <= Newest(Window[r])
              \/ time /\ Newest(newer[r]) = Older(Newest(Window[r]))

\* Time and roots keep the invariant.
LEMMA JudgeGrace ==
    ASSUME TypeOK, GraceInv, NEW newer, NEW time \in BOOLEAN, SetWindows(newer, time),
           Judged(newer, time), UNCHANGED AccountToAlias,
           \A a \in Account : StaleSince'[a] =
               IF time /\ StaleSince[a] # NoStamp THEN Older(StaleSince[a]) ELSE StaleSince[a]
    PROVE  GraceInv'
  <1>1. Window' = newer /\ Judge(newer, time)
    BY DEF SetWindows
  <1>2. \A r \in RingIndex : Ordered(Window'[r])
    BY <1>1 DEF Judged
  <1> SUFFICES ASSUME NEW a \in Account, Linked(a)'
               PROVE  /\ ~ is_revision_valid(AccountToAlias[a])'
                          => Waited(stale_since(AccountToAlias[a].ring), a)'
                      /\ StaleSince'[a] # NoStamp /\ ~ revived'[a] =>
                          ~ is_revision_valid(AccountToAlias[a])' /\ Waited(StaleSince[a], a)'
    BY <1>2 DEF GraceInv
  <1> DEFINE r0 == AccountToAlias[a].ring
             rev == AccountToAlias[a].revision
             was == Accepts(Window[r0], rev)
             is == Accepts(newer[r0], rev)
  <1> HIDE DEF r0, rev, was, is
  <1>3. Linked(a) /\ r0 \in RingIndex /\ rev \in 0 .. MaxRevision
    BY LinkedIsLink, LinkFields DEF Linked, r0, rev
  <1>4. /\ (is_revision_valid(AccountToAlias[a]) <=> was)
        /\ (is_revision_valid(AccountToAlias[a])' <=> is)
        /\ stale_since(r0) = Newest(Window[r0])
        /\ stale_since(r0)' = Newest(newer[r0])
    BY <1>1 DEF is_revision_valid, is, was, r0, rev, stale_since, Newest
  <1>5. /\ refused'[a] = IF is \/ was THEN 0 ELSE IF time THEN Older(refused[a]) ELSE refused[a]
        /\ revived'[a] <=> revived[a] \/ (is /\ ~ was /\ StaleSince[a] # NoStamp)
    BY <1>1, <1>3 DEF Judge, is, was, r0, rev, is_revision_valid
  <1>6. /\ refused[a] \in Nat /\ refused'[a] \in Nat
        /\ StaleSince[a] # NoStamp => StaleSince[a] \in Nat
        /\ Newest(Window[r0]) \in Nat /\ Newest(newer[r0]) \in Nat
    <2>1. refused'[a] \in Nat
      BY <1>1, JudgeType
    <2>2. Newest(Window[r0]) \in Nat
      BY <1>3, <1>4, StaleSinceType
    <2> QED
      BY <1>3, <2>1, <2>2 DEF TypeOK, Judged
  <1>7. /\ ~ was => Waited(Newest(Window[r0]), a)
        /\ StaleSince[a] # NoStamp /\ ~ revived[a] => ~ was /\ Waited(StaleSince[a], a)
    BY <1>3, <1>4 DEF GraceInv, r0
  <1>8. ~ is => Waited(stale_since(AccountToAlias[a].ring), a)'
    <2> SUFFICES ASSUME ~ is
                 PROVE  \/ Newest(newer[r0]) <= refused'[a] + Longest
                        \/ refused'[a] >= MappingRetention - Longest
      BY <1>4 DEF Waited, Longest, r0
    <2>1. CASE was
      BY <1>3, <1>5, <1>6, <2>1, LongestBounds DEF Judged, was, is
    <2>2. CASE ~ was
      <3>1. \/ Newest(newer[r0]) <= Longest
            \/ Newest(newer[r0]) <= Newest(Window[r0])
            \/ time /\ Newest(newer[r0]) = Older(Newest(Window[r0]))
        BY <1>3 DEF Judged, is
      <3>2. \/ Newest(Window[r0]) <= refused[a] + Longest
            \/ refused[a] >= MappingRetention - Longest
        BY <1>7, <2>2 DEF Waited
      <3>3. /\ refused'[a] >= refused[a]
            /\ time /\ refused[a] < MappingRetention => refused'[a] = refused[a] + 1
        BY <1>5, <1>6, <2>2, OlderGrows
      <3>4. time => Older(Newest(Window[r0])) <= Newest(Window[r0]) + 1
        BY <1>6, OlderGrows
      <3> QED
        BY <1>6, <3>1, <3>2, <3>3, <3>4, LongestBounds, RetentionAssumption
    <2> QED
      BY <2>1, <2>2
  <1>9. ASSUME StaleSince'[a] # NoStamp, ~ revived'[a] PROVE ~ is /\ Waited(StaleSince[a], a)'
    <2>1. StaleSince[a] # NoStamp /\ ~ revived[a]
      BY <1>5, <1>9
    <2>2. ~ was /\ Waited(StaleSince[a], a) /\ ~ is
      BY <1>5, <1>7, <1>9, <2>1
    <2>3. \/ StaleSince[a] <= refused[a] + Longest
          \/ refused[a] >= MappingRetention - Longest
      BY <2>2 DEF Waited
    <2>4. StaleSince'[a] = IF time THEN Older(StaleSince[a]) ELSE StaleSince[a]
      BY <2>1
    <2>5. refused'[a] = IF time THEN Older(refused[a]) ELSE refused[a]
      BY <1>5, <2>2
    <2>6. \/ StaleSince'[a] <= refused'[a] + Longest
          \/ refused'[a] >= MappingRetention - Longest
      BY <1>6, <2>1, <2>3, <2>4, <2>5, OlderGrows, LongestBounds, RetentionAssumption
    <2> QED
      BY <2>2, <2>6 DEF Waited, Longest
  <1> QED
    BY <1>4, <1>8, <1>9

\* Steps of the sweep and of users leave windows alone, and a link that is written, or
\* removed, starts without a report.
LEMMA LinkGrace ==
    ASSUME TypeOK, GraceInv, NEW accounts \in SUBSET Account, Forget(accounts), UNCHANGED rings,
           \A a \in Account \ accounts : UNCHANGED <<AccountToAlias[a], StaleSince[a]>>,
           \A a \in accounts : StaleSince'[a] = NoStamp,
           \A a \in accounts : Linked(a)' => is_revision_valid(AccountToAlias[a])'
    PROVE  GraceInv'
  <1>1. \A r : stale_since(r)' = stale_since(r)
    BY DEF stale_since, rings
  <1>2. \A info : is_revision_valid(info)' <=> is_revision_valid(info)
    BY DEF is_revision_valid, rings
  <1> SUFFICES ASSUME NEW a \in Account, Linked(a)'
               PROVE  /\ ~ is_revision_valid(AccountToAlias[a])'
                          => Waited(stale_since(AccountToAlias[a].ring), a)'
                      /\ StaleSince'[a] # NoStamp /\ ~ revived'[a] =>
                          ~ is_revision_valid(AccountToAlias[a])' /\ Waited(StaleSince[a], a)'
    BY DEF GraceInv, rings
  <1>3. CASE a \in accounts
    BY <1>3
  <1>4. CASE a \notin accounts
    <2>1. /\ AccountToAlias'[a] = AccountToAlias[a] /\ StaleSince'[a] = StaleSince[a]
          /\ refused'[a] = refused[a] /\ (revived'[a] <=> revived[a])
      BY <1>4 DEF Forget
    <2>2. Linked(a)
      BY <2>1 DEF Linked
    <2>3. is_revision_valid(AccountToAlias[a])' <=> is_revision_valid(AccountToAlias[a])
      BY <2>1 DEF is_revision_valid, rings
    <2>4. stale_since(AccountToAlias[a].ring)' = stale_since(AccountToAlias[a].ring)
      BY <2>1 DEF stale_since, rings
    <2> QED
      BY <2>1, <2>2, <2>3, <2>4 DEF GraceInv, Waited, Longest
  <1> QED
    BY <1>3, <1>4

LEMMA LostJudged ==
    ASSUME TypeOK, GraceInv, NEW r \in RingIndex
    PROVE  Judged([Window EXCEPT ![r] = <<>>], FALSE)
  <1> DEFINE newer == [Window EXCEPT ![r] = <<>>]
  <1>1. \A q \in RingIndex : newer[q] = <<>> \/ newer[q] = Window[q]
    BY DEF TypeOK
  <1>2. Ordered(<<>>) /\ Newest(<<>>) = 0
    BY DEF Ordered, Newest
  <1>3. \A q \in RingIndex : Ordered(Window[q]) /\ Newest(Window[q]) \in Nat
    BY StaleSinceType, StaleSinceNewest DEF GraceInv
  <1>4. \A q \in RingIndex : /\ Ordered(newer[q]) /\ Newest(newer[q]) \in Nat
                             /\ newer[q] = Window[q] \/ Newest(newer[q]) <= Longest
    BY <1>1, <1>2, <1>3, LongestBounds
  <1>5. \A q \in RingIndex, revision \in 0 .. MaxRevision :
            newer[q] = Window[q] => /\ (Accepts(newer[q], revision) <=> Accepts(Window[q], revision))
                                    /\ Newest(newer[q]) <= Newest(Window[q])
    BY <1>3
  <1> HIDE DEF newer
  <1>6. Judged(newer, FALSE)
    BY <1>4, <1>5 DEF Judged
  <1> QED
    BY <1>6 DEF newer

LEMMA ArrivedJudged ==
    ASSUME TypeOK, GraceInv, NEW r \in RingIndex, NEW rec \in RootRecord, rec.age <= MaxDelay,
           Window[r] # <<>> => rec.age <= Window[r][Len(Window[r])].age
    PROVE  Judged([Window EXCEPT ![r] = Recent(Append(Window[r], rec))], FALSE)
  <1> DEFINE w == Window[r]
             s == Append(w, rec)
             n == Recent(s)
             newer == [Window EXCEPT ![r] = n]
  <1>1. w \in Seq(RootRecord) /\ Ordered(w)
    BY DEF TypeOK, GraceInv
  <1>2. /\ n \in Seq(RootRecord) /\ n # <<>> /\ n[Len(n)] = rec
        /\ \/ n = s
           \/ /\ Len(w) > 0 /\ Len(n) = Len(w)
              /\ \A i \in 1 .. Len(n) : n[i] = s[i + 1]
    BY <1>1, RecentAppend
  <1>3. Ordered(s)
    <2>1. /\ Len(s) = Len(w) + 1 /\ s[Len(s)] = rec /\ Len(w) \in Nat
          /\ \A i \in 1 .. Len(w) : s[i] = w[i] /\ w[i].age \in Int
      BY <1>1, RecordAge
    <2>2. rec.age \in Int
      BY RecordAge
    <2>3. \A i \in 1 .. Len(w) : rec.age <= w[i].age
      <3>1. \A i \in 1 .. Len(w) : w[Len(w)].age <= w[i].age /\ w # <<>>
        BY <1>1, <2>1 DEF Ordered
      <3> QED
        BY <2>1, <2>2, <3>1
    <2> QED
      BY <1>1, <2>1, <2>2, <2>3 DEF Ordered
  <1>4. Ordered(n)
    <2>1. CASE n = s
      BY <1>3, <2>1
    <2>2. CASE Len(w) > 0 /\ Len(n) = Len(w) /\ \A i \in 1 .. Len(n) : n[i] = s[i + 1]
      <3>1. Len(s) = Len(n) + 1 /\ Len(n) \in Nat
        BY <1>1, <2>2
      <3> HIDE DEF n, s, w
      <3> QED
        BY <1>3, <2>2, <3>1 DEF Ordered
    <2> QED
      BY <1>2, <2>1, <2>2
  <1>5. Newest(n) \in Nat /\ Newest(n) <= Longest
    BY <1>2, LongestBounds, RetentionAssumption DEF Newest, RootRecord
  <1> HIDE DEF n
  <1>6. \A q \in RingIndex : newer[q] = IF q = r THEN n ELSE Window[q]
    BY DEF TypeOK
  <1>7. \A q \in RingIndex : Ordered(Window[q]) /\ Newest(Window[q]) \in Nat
    BY StaleSinceType, StaleSinceNewest DEF GraceInv
  <1>8. \A q \in RingIndex : /\ Ordered(newer[q]) /\ Newest(newer[q]) \in Nat
                             /\ newer[q] = Window[q] \/ Newest(newer[q]) <= Longest
    BY <1>4, <1>5, <1>6, <1>7
  <1> HIDE DEF newer
  <1>9. Judged(newer, FALSE)
    BY <1>7, <1>8 DEF Judged
  <1> QED
    BY <1>9 DEF newer, n

\* Time passes: the newest root ages with all others, and a superseded root is refused as
\* soon as its successor reaches the retention of old roots.
LEMMA TickJudged ==
    ASSUME TypeOK, GraceInv
    PROVE  Judged([r \in RingIndex |-> [i \in 1 .. Len(Window[r]) |->
                      [Window[r][i] EXCEPT !.age = Older(Window[r][i].age)]]], TRUE)
  <1> DEFINE Aged(w) == [i \in 1 .. Len(w) |-> [w[i] EXCEPT !.age = Older(w[i].age)]]
             newer == [r \in RingIndex |-> Aged(Window[r])]
  <1>1. ASSUME NEW r \in RingIndex, NEW revision \in 0 .. MaxRevision
        PROVE  /\ Ordered(Aged(Window[r])) /\ Newest(Aged(Window[r])) \in Nat
               /\ Accepts(Window[r], revision) /\ ~ Accepts(Aged(Window[r]), revision) =>
                     Newest(Aged(Window[r])) <= Longest
               /\ \/ Newest(Aged(Window[r])) <= Newest(Window[r])
                  \/ Newest(Aged(Window[r])) = Older(Newest(Window[r]))
    <2> DEFINE w == Window[r]
               n == Aged(w)
    <2>1. /\ w \in Seq(RootRecord) /\ Ordered(w) /\ Len(w) \in Nat
          /\ \A i \in 1 .. Len(w) : w[i].age \in Int
      BY RecordAge DEF TypeOK, GraceInv
    <2>2. /\ \A i \in 1 .. Len(w) : n[i].age = Older(w[i].age) /\ n[i].revision = w[i].revision
          /\ n \in Seq(RootRecord) /\ Len(n) = Len(w)
      <3>1. \A x \in RootRecord : /\ [x EXCEPT !.age = Older(x.age)] \in RootRecord
                                  /\ [x EXCEPT !.age = Older(x.age)].age = Older(x.age)
                                  /\ [x EXCEPT !.age = Older(x.age)].revision = x.revision
        BY OlderGrows DEF RootRecord
      <3>2. \A i \in 1 .. Len(w) : w[i] \in RootRecord
        BY <2>1
      <3> QED
        BY <2>1, <3>1, <3>2
    <2> HIDE DEF n, w
    <2>3. \A x, y \in Int : x <= y => Older(x) <= Older(y)
      BY RetentionAssumption DEF Older
    <2>4. Ordered(n)
      BY <2>1, <2>2, <2>3 DEF Ordered
    <2>5. /\ (n # <<>> <=> w # <<>>)
          /\ n # <<>> => Len(n) \in 1 .. Len(w) /\ n[Len(n)].age = Older(w[Len(w)].age)
      BY <2>1, <2>2
    <2>6. w = <<>> => n = <<>> /\ Newest(n) = 0 /\ Newest(w) = 0
      BY <2>5 DEF Newest
    <2> DEFINE last == w[Len(w)].age
    <2>7. ASSUME w # <<>>
          PROVE  /\ last \in Int /\ Older(last) \in Int
                 /\ Newest(n) = IF Older(last) > 0 THEN Older(last) ELSE 0
                 /\ Newest(w) = IF last > 0 THEN last ELSE 0
      <3>1. Len(w) \in 1 .. Len(w) /\ last \in Int
        BY <2>1, <2>7
      <3>2. n # <<>> /\ n[Len(n)].age = Older(last)
        BY <2>5, <2>7
      <3> QED
        BY <2>7, <3>1, <3>2, OlderGrows DEF Newest
    <2> HIDE DEF last
    <2>8. Newest(n) \in Nat
      BY <2>6, <2>7
    <2>9. Newest(n) <= Newest(w) \/ Newest(n) = Older(Newest(w))
      <3>1. CASE w = <<>>
        BY <2>6, <3>1
      <3>2. CASE w # <<>>
        <4>1. Older(last) = last + 1 \/ (last >= MappingRetention /\ Older(last) = last)
          BY <2>7, <3>2, OlderGrows, RetentionAssumption
        <4>2. Older(0) = 1
          BY OlderGrows, RetentionAssumption
        <4> QED
          BY <2>7, <3>2, <4>1, <4>2, RetentionAssumption
      <3> QED
        BY <3>1, <3>2
    <2>10. ASSUME Accepts(w, revision), ~ Accepts(n, revision) PROVE Newest(n) <= Longest
      <3>1. PICK i \in 1 .. Len(w) : /\ w[i].revision = revision
                                     /\ i < Len(w) => w[i + 1].age < OldRootRetentionDuration
        BY <2>10 DEF Accepts
      <3>2. i < Len(w)
        BY <2>1, <2>2, <2>10, <3>1 DEF Accepts
      <3>3. w # <<>> /\ last <= w[i + 1].age /\ w[i + 1].age \in Int
        BY <2>1, <3>2 DEF Ordered, last
      <3>4. last \in Int /\ last + 1 <= OldRootRetentionDuration
        BY <2>7, <3>1, <3>2, <3>3, RetentionAssumption
      <3>5. Older(last) <= OldRootRetentionDuration
        BY <3>4, OlderGrows, RetentionAssumption
      <3> QED
        BY <2>7, <3>3, <3>5, LongestBounds, RetentionAssumption
    <2> QED
      BY <2>4, <2>8, <2>9, <2>10 DEF n, w
  <1>2. \A r \in RingIndex : newer[r] = Aged(Window[r])
    OBVIOUS
  <1>3. 0 \in 0 .. MaxRevision
    BY RetentionAssumption
  <1> HIDE DEF newer, Aged
  <1>4. Judged(newer, TRUE)
    BY <1>1, <1>2, <1>3 DEF Judged
  <1> QED
    BY <1>4 DEF newer, Aged

LEMMA GraceInit == Init => GraceInv
  BY DEF Init, GraceInv, Ordered, Linked

LEMMA GraceStep == TypeOK /\ GraceInv /\ [Next]_vars => GraceInv'
  <1> SUFFICES ASSUME TypeOK, GraceInv, [Next]_vars PROVE GraceInv'
    OBVIOUS
  <1>1. ASSUME NEW r \in RingIndex, RootsLost(r) PROVE GraceInv'
    BY <1>1, LostJudged, JudgeGrace DEF RootsLost, links
  <1>2. ASSUME NEW r \in RingIndex, NEW age \in - MaxSkew .. MaxDelay, RootArrives(r, age)
        PROVE  GraceInv'
    <2> DEFINE rec == [revision |-> Revision'[r], age |-> age]
               newer == [Window EXCEPT ![r] = Recent(Append(Window[r], rec))]
    <2>1. TypeOK'
      BY <1>2, TypeStep DEF Next, Rings
    <2>2. rec \in RootRecord /\ rec.age <= MaxDelay
      BY <2>1, RetentionAssumption DEF RootRecord, TypeOK
    <2>3. /\ Window[r] # <<>> => rec.age <= Window[r][Len(Window[r])].age
          /\ SetWindows(newer, FALSE) /\ UNCHANGED links
      BY <1>2 DEF RootArrives
    <2>4. Judged(newer, FALSE)
      BY <2>2, <2>3, ArrivedJudged
    <2> HIDE DEF newer
    <2> QED
      BY <2>3, <2>4, JudgeGrace DEF links
  <1>3. ASSUME NEW who \in Account, unset_alias_account(who) PROVE GraceInv'
    <2>1. Unlink({who}) /\ UNCHANGED rings
      BY <1>3 DEF unset_alias_account
    <2> QED
      BY <2>1, LinkGrace DEF Unlink, Linked
  <1>4. ASSUME NEW who \in Account, NEW info \in Link, set_alias_account(who, info)
        PROVE  GraceInv'
    <2> DEFINE old == {a \in Account : a = AliasToAccount[info.alias]}
    <2>1. /\ Forget({who} \union old) /\ UNCHANGED rings /\ is_revision_valid(info)
          /\ \A a \in Account : AccountToAlias'[a] =
                 IF a = who THEN info ELSE IF a \in old THEN Unlinked ELSE AccountToAlias[a]
          /\ \A a \in Account : StaleSince'[a] =
                 IF a \in {who} \union old THEN NoStamp ELSE StaleSince[a]
      BY <1>4 DEF set_alias_account
    <2>2. is_revision_valid(info)'
      BY <2>1 DEF is_revision_valid, rings
    <2>3. \A a \in {who} \union old : Linked(a)' => AccountToAlias'[a] = info
      BY <2>1 DEF Linked
    <2>4. \A a \in {who} \union old : Linked(a)' => is_revision_valid(AccountToAlias[a])'
      BY <2>2, <2>3 DEF is_revision_valid
    <2> QED
      BY <2>1, <2>4, LinkGrace
  <1>5. ASSUME NEW who \in Account, NEW ring \in RingIndex, NEW revision \in 0 .. MaxRevision,
               reprove_alias_account(who, ring, revision)
        PROVE  GraceInv'
    <2> DEFINE new_info == [alias |-> AccountToAlias[who].alias, ring |-> ring,
                            revision |-> revision]
    <2>1. /\ is_revision_valid(new_info) /\ Forget({who}) /\ UNCHANGED rings
          /\ AccountToAlias' = [AccountToAlias EXCEPT ![who] = new_info]
          /\ StaleSince' = [StaleSince EXCEPT ![who] = NoStamp]
      BY <1>5 DEF reprove_alias_account
    <2>2. AccountToAlias'[who] = new_info /\ StaleSince'[who] = NoStamp
      BY <2>1 DEF TypeOK
    <2>3. is_revision_valid(AccountToAlias[who])'
      BY <2>1, <2>2 DEF is_revision_valid, rings
    <2> QED
      BY <2>1, <2>2, <2>3, LinkGrace DEF TypeOK
  <1>6. ASSUME NEW accounts \in SUBSET Account, report_stale_aliases(accounts) PROVE GraceInv'
    <2>1. /\ AccountToAlias' = AccountToAlias /\ Window' = Window
          /\ refused' = refused /\ revived' = revived
          /\ \A a \in Account : StaleSince'[a] =
                 IF a \in accounts THEN stale_since(AccountToAlias[a].ring) ELSE StaleSince[a]
          /\ \A a \in accounts : stale_alias_action(a) = "Report"
      BY <1>6 DEF report_stale_aliases, rings, history, authorize_sweep
    <2>2. \A a \in accounts : ~ is_revision_valid(AccountToAlias[a])
      BY <2>1 DEF stale_alias_action
    <2>3. \A info : is_revision_valid(info)' <=> is_revision_valid(info)
      BY <2>1 DEF is_revision_valid
    <2>4. \A a \in Account : Linked(a)' <=> Linked(a)
      BY <2>1 DEF Linked
    <2>5. \A r : stale_since(r)' = stale_since(r)
      BY <2>1 DEF stale_since
    <2> SUFFICES ASSUME NEW a \in Account, Linked(a)
                 PROVE  /\ ~ is_revision_valid(AccountToAlias[a])'
                            => Waited(stale_since(AccountToAlias[a].ring), a)'
                        /\ StaleSince'[a] # NoStamp /\ ~ revived'[a] =>
                            ~ is_revision_valid(AccountToAlias[a])' /\ Waited(StaleSince[a], a)'
      BY <2>1, <2>4 DEF GraceInv
    <2>6. /\ (is_revision_valid(AccountToAlias[a])' <=> is_revision_valid(AccountToAlias[a]))
          /\ stale_since(AccountToAlias[a].ring)' = stale_since(AccountToAlias[a].ring)
      BY <2>1 DEF is_revision_valid, stale_since
    <2> QED
      BY <2>1, <2>2, <2>6 DEF GraceInv, Waited, Longest
  <1>7. ASSUME NEW accounts \in SUBSET Account, retire_stale_aliases(accounts) PROVE GraceInv'
    <2>1. Unlink(accounts) /\ UNCHANGED rings
      BY <1>7 DEF retire_stale_aliases
    <2> QED
      BY <2>1, LinkGrace DEF Unlink, Linked
  <1>8. ASSUME NEW accounts \in SUBSET Account, clear_stale_alias_reports(accounts)
        PROVE  GraceInv'
    <2>1. /\ AccountToAlias' = AccountToAlias /\ Window' = Window /\ refused' = refused
          /\ \A a \in Account : StaleSince'[a] = IF a \in accounts THEN NoStamp ELSE StaleSince[a]
          /\ \A a \in Account : revived'[a] <=> a \notin accounts /\ revived[a]
      BY <1>8 DEF clear_stale_alias_reports, rings
    <2> SUFFICES ASSUME NEW a \in Account, Linked(a)
                 PROVE  /\ ~ is_revision_valid(AccountToAlias[a])'
                            => Waited(stale_since(AccountToAlias[a].ring), a)'
                        /\ StaleSince'[a] # NoStamp /\ ~ revived'[a] =>
                            ~ is_revision_valid(AccountToAlias[a])' /\ Waited(StaleSince[a], a)'
      BY <2>1 DEF GraceInv, Linked
    <2>2. /\ (is_revision_valid(AccountToAlias[a])' <=> is_revision_valid(AccountToAlias[a]))
          /\ stale_since(AccountToAlias[a].ring)' = stale_since(AccountToAlias[a].ring)
      BY <2>1 DEF is_revision_valid, stale_since
    <2> QED
      BY <2>1, <2>2 DEF GraceInv, Waited, Longest
  <1>9. CASE Tick
    <2> DEFINE newer == [r \in RingIndex |-> [i \in 1 .. Len(Window[r]) |->
                            [Window[r][i] EXCEPT !.age = Older(Window[r][i].age)]]]
    <2>1. SetWindows(newer, TRUE) /\ UNCHANGED AccountToAlias
      BY <1>9 DEF Tick
    <2>2. \A a \in Account : StaleSince'[a] =
              IF TRUE /\ StaleSince[a] # NoStamp THEN Older(StaleSince[a]) ELSE StaleSince[a]
      BY <1>9 DEF Tick
    <2>3. Judged(newer, TRUE)
      BY TickJudged
    <2> HIDE DEF newer
    <2> QED
      BY <2>1, <2>2, <2>3, JudgeGrace
  <1>10. CASE UNCHANGED vars
    BY <1>10
    DEF vars, links, rings, history, GraceInv, Waited, Longest, Linked, is_revision_valid,
        stale_since
  <1> QED
    BY <1>1, <1>2, <1>3, <1>4, <1>5, <1>6, <1>7, <1>8, <1>9, <1>10
    DEF Next, Rings, Users, Sweep, sweep_stale_aliases

\* A link is retired only by a report that has come of age.
LEMMA RetiredWaited ==
    ASSUME TypeOK, GraceInv, Sweep, NEW a \in Account, Linked(a), ~ Linked(a)'
    PROVE  revived[a] \/ refused[a] >= MappingRetention - Longest
  <1>1. PICK accounts \in SUBSET Account : \/ report_stale_aliases(accounts)
                                           \/ retire_stale_aliases(accounts)
                                           \/ clear_stale_alias_reports(accounts)
    BY DEF Sweep, sweep_stale_aliases
  <1>2. retire_stale_aliases(accounts) /\ a \in accounts
    BY <1>1 DEF report_stale_aliases, retire_stale_aliases, clear_stale_alias_reports, Unlink, Linked
  <1>3. stale_alias_action(a) = "Retire"
    BY <1>2 DEF retire_stale_aliases, authorize_sweep
  <1>4. StaleSince[a] # NoStamp /\ StaleSince[a] >= MappingRetention
    BY <1>3 DEF stale_alias_action
  <1>5. ~ revived[a] => Waited(StaleSince[a], a)
    BY <1>4 DEF GraceInv
  <1>6. refused[a] \in Nat /\ StaleSince[a] \in Nat
    BY <1>4 DEF TypeOK
  <1> QED
    BY <1>4, <1>5, <1>6, LongestBounds, RetentionAssumption DEF Waited

\* However roots arrive late or ahead of time, are superseded, lost and sent again, the sweep
\* removes no link before its revision was refused for MappingRetention, less the time a
\* root is on its way or still accepted, unless the link was accepted in between.
THEOREM GraceCorrect == Spec => GraceKept
  <1>1. TypeOK /\ GraceInv /\ [Next]_vars => TypeOK' /\ GraceInv'
    BY TypeStep, GraceStep
  <1>2. TypeOK /\ GraceInv /\ [Next]_vars =>
            [\A a \in Account : Sweep /\ Linked(a) /\ ~ Linked(a)' =>
                revived[a] \/ refused[a] >= MappingRetention - Longest]_vars
    BY RetiredWaited
  <1> QED
    BY <1>1, <1>2, TypeInit, GraceInit, PTL DEF Spec, GraceKept
=============================================================================

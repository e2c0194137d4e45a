----------------------- MODULE AccountTransitionsProofs -----------------------
(***************************************************************************)
(* Proofs about AccountTransitions, for any number of accounts and         *)
(* transitions: the row shapes (TypeOK), one change in flight, the         *)
(* configuration pair, the active account's snapshot, and what the         *)
(* credential cleanups may erase.                                          *)
(***************************************************************************)
EXTENDS AccountTransitions, FiniteSetTheorems, TLAPS

-----------------------------------------------------------------------------
(* The inductive invariant, row by row.                                      *)

InFlight(t) == Open(t) \/ transition[t].state = "recovery_required"

\* A credential is named by the transition that brought it in, so one in use
\* is never that of an identifier still to come.
Known(c) == c \in Transitions => Stored(c)

\* Transition v committed a version of account a, or exactly the snapshot s.
VersionOf(v, a) == Stored(v) /\ transition[v].account = a /\ accountVersion[v] # NoSnapshot
CommittedAs(u, a, s) ==
    /\ u \in Transitions
    /\ transition[u].state = "finalized" /\ transition[u].account = a
    /\ accountVersion[u] = s /\ s.generation >= 1

\* An authorized transition changes its account forwards.
RowShape(t) ==
    /\ transition[t].kind \in AccountTransitionKind
    /\ transition[t].account \in Accounts
    /\ transition[t].after.generation >= 1
    /\ transition[t].kind # "remove" =>
          transition[t].after.generation > transition[t].before.generation
    /\ transition[t].before.credential # t
    /\ transition[t].kind = "update" => transition[t].after.credential = t
    /\ Known(transition[t].before.credential)
RowOk(t) ==
    /\ ~Stored(t) => transition[t] = NoTransition
    /\ Stored(t) => RowShape(t)
    /\ transition[t].committed /\ transition[t].kind # "remove"
          => accountVersion[t] = transition[t].after
    /\ ~transition[t].committed \/ transition[t].kind = "remove" => accountVersion[t] = NoSnapshot

\* A cleanup belongs to a replacement and leaves "provisional" with its end.
CleanupOk(t) ==
    \A k \in LocatorKind :
        /\ cleanup[t][k] # "none" => Stored(t) /\ transition[t].kind \in {"update", "remove"}
        /\ cleanup[t][k] \in {"ready", "claimed", "deleted"} => transition[t].state = "finalized"

\* A transition in flight holds its account, which stands on a finalized
\* version that none of its other versions is ahead of.
HeldOk(t) ==
    InFlight(t) =>
        /\ account[transition[t].account].active = t
        /\ account[transition[t].account].authorized = t
        /\ account[transition[t].account].snapshot = transition[t].after
        /\ \A v \in Transitions : v # t /\ VersionOf(v, transition[t].account) =>
              accountVersion[v].generation <= transition[t].before.generation
        /\ transition[t].kind # "create" =>
              \E u \in Transitions : CommittedAs(u, transition[t].account, transition[t].before)

AccountOk(a) ==
    /\ Known(account[a].snapshot.credential)
    /\ account[a].state = "absent" =>
          account[a] = NoAccount /\ \A v \in Transitions : Stored(v) => transition[v].account # a
    /\ account[a].state = "active" =>
          /\ CommittedAs(account[a].authorized, a, account[a].snapshot)
          /\ \A v \in Transitions : VersionOf(v, a) =>
                accountVersion[v].generation <= account[a].snapshot.generation
    /\ account[a].active # None =>
          InFlight(account[a].active) /\ transition[account[a].active].account = a

\* What a finalized removal or update leaves behind: no account, or an
\* account that has done with the credential it had.
EndOk(t) ==
    transition[t].state = "finalized" =>
        LET a == transition[t].account
        IN  /\ transition[t].kind = "remove" => account[a].state = "removed"
            /\ transition[t].kind = "update" /\ Live(a) =>
                  transition[t].before.credential # account[a].snapshot.credential
            /\ transition[t].kind = "update" /\ account[a].active # None =>
                  transition[t].before.credential
                     # transition[account[a].active].before.credential

OneInFlight == \A u, v \in Transitions : InFlight(u) /\ InFlight(v) => u = v
OneVersionEach ==
    \A u, v \in Transitions, a \in Accounts :
        /\ VersionOf(u, a) /\ VersionOf(v, a)
        /\ accountVersion[u].generation = accountVersion[v].generation
        => u = v

StoreOk ==
    /\ store.state = "blocked" <=> \E t \in Transitions : Open(t)
    /\ store.state = "recovery_required"
          <=> \E t \in Transitions : transition[t].state = "recovery_required"
    /\ \A t \in Transitions : transition[t].state = "prepared" =>
          /\ transition[t].next.generation = store.pair.generation + 1
          /\ transition[t].next.content \in Contents

PermitOk == permit # None => cleanup[permit[1]][permit[2]] = "claimed"

RowsInv ==
    /\ \A t \in Transitions : RowOk(t) /\ CleanupOk(t) /\ HeldOk(t) /\ EndOk(t)
    /\ \A a \in Accounts : AccountOk(a)
    /\ OneInFlight /\ OneVersionEach /\ StoreOk

Inv == TypeOK /\ RowsInv /\ PairFollowsCommits /\ DeletedMeansErased /\ PermitOk

-----------------------------------------------------------------------------
(* prepare_account_transition.                                               *)

\* The common part of the three prepares.
Prepares(t, k, a, before, c, ls) ==
    /\ t \in Transitions /\ a \in Accounts /\ c \in Contents /\ ls \subseteq LocatorKind
    /\ ~Stored(t) /\ StoreFree
    /\ \/ k = "create" /\ account[a] = NoAccount /\ before = NoSnapshot /\ ls = {}
       \/ /\ k \in AccountTransitionKind /\ k # "create"
          /\ account[a].state = "active" /\ before = account[a].snapshot
          /\ ls = {} \/ k \in {"update", "remove"}
    /\ PrepareRows(t, k, a, before, After(t, k, before), c, ls)

\* After: only an update brings in a credential, and it is the new one.
LEMMA AfterShape ==
  ASSUME NEW t \in Transitions, NEW k \in AccountTransitionKind, NEW before \in Snapshots,
         k = "create" => before = NoSnapshot,
         k # "create" => before.generation >= 1
  PROVE  /\ After(t, k, before) \in Snapshots
         /\ After(t, k, before).generation >= 1
         /\ k # "remove" => After(t, k, before).generation > before.generation
         /\ After(t, k, before).credential \in {t, before.credential}
         /\ k = "update" => After(t, k, before).credential = t
<1>1. CASE k = "create"
  <2>1. After(t, k, before) = [generation |-> 1, credential |-> t]
    BY <1>1 DEF After, Snapshot
  <2> QED BY <2>1, <1>1 DEF Snapshots, NoSnapshot, Snapshot
<1>2. CASE k = "update"
  <2>1. After(t, k, before) = [generation |-> before.generation + 1, credential |-> t]
    BY <1>2 DEF After, Snapshot
  <2> QED BY <2>1, <1>2 DEF Snapshots
<1>3. CASE k \in {"set", "delete"}
  <2>1. After(t, k, before) =
           [generation |-> before.generation + 1, credential |-> before.credential]
    BY <1>3 DEF After, Snapshot
  <2> QED BY <2>1, <1>3 DEF Snapshots
<1>4. CASE k = "remove"
  <2>1. After(t, k, before) = before
    BY <1>4 DEF After
  <2> QED BY <2>1, <1>4 DEF Snapshots
<1> QED BY <1>1, <1>2, <1>3, <1>4 DEF AccountTransitionKind

\* The rows a prepare writes, over a store with nothing in flight.
PreparedAs(t, k, a, before, after, c) ==
    /\ after.generation >= 1
    /\ k # "remove" => after.generation > before.generation
    /\ after.credential \in {t, before.credential}
    /\ k = "update" => after.credential = t
    /\ before \in Snapshots /\ k \in AccountTransitionKind
    /\ transition' = [transition EXCEPT ![t] =
          [state |-> "prepared", kind |-> k, account |-> a,
           expected |-> store.pair, next |-> Pair(store.pair.generation + 1, c),
           before |-> before, after |-> after, committed |-> FALSE]]
    /\ account' = [account EXCEPT ![a] =
          [state |-> IF k = "create" THEN "proposed" ELSE "blocked",
           snapshot |-> after, authorized |-> t, active |-> t]]
    /\ \A v \in Transitions : ~InFlight(v)
    /\ \A b \in Accounts : account[b].active = None

\* What a prepare leaves in the rows, and that nothing was in flight before.
LEMMA PrepareEffect ==
  ASSUME Inv, NEW t, NEW k, NEW a, NEW before, NEW c, NEW ls,
         Prepares(t, k, a, before, c, ls)
  PROVE  \E after \in Snapshots : PreparedAs(t, k, a, before, after, c)
<1>1. before \in Snapshots
  <2>1. NoSnapshot \in Snapshots
    BY DEF NoSnapshot, Snapshot, Snapshots
  <2>2. account[a].snapshot \in Snapshots
    BY DEF Prepares, Inv, TypeOK, AccountRows
  <2> QED BY <2>1, <2>2 DEF Prepares
<1>2. k # "create" => before.generation >= 1
  BY DEF Prepares, Inv, RowsInv, AccountOk, CommittedAs
<1>3. k \in AccountTransitionKind /\ (k = "create" => before = NoSnapshot) /\ t \in Transitions
  BY DEF Prepares, AccountTransitionKind
<1>4. PICK after : after = After(t, k, before)
  OBVIOUS
<1>5. /\ after \in Snapshots
      /\ after.generation >= 1
      /\ k # "remove" => after.generation > before.generation
      /\ after.credential \in {t, before.credential}
      /\ k = "update" => after.credential = t
  BY <1>1, <1>2, <1>3, <1>4, AfterShape
<1>6. /\ transition' = [transition EXCEPT ![t] =
            [state |-> "prepared", kind |-> k, account |-> a,
             expected |-> store.pair, next |-> Pair(store.pair.generation + 1, c),
             before |-> before, after |-> after, committed |-> FALSE]]
      /\ account' = [account EXCEPT ![a] =
            [state |-> IF k = "create" THEN "proposed" ELSE "blocked",
             snapshot |-> after, authorized |-> t, active |-> t]]
  BY <1>4, Zenon DEF Prepares, PrepareRows
<1>7. \A v \in Transitions : ~InFlight(v)
  BY DEF Prepares, StoreFree, InFlight, Inv, RowsInv, StoreOk
<1>8. \A b \in Accounts : account[b].active = None
  BY <1>7 DEF Inv, RowsInv, AccountOk, TypeOK, AccountRows
<1>9. PreparedAs(t, k, a, before, after, c)
  BY <1>1, <1>3, <1>5, <1>6, <1>7, <1>8, Zenon DEF PreparedAs
<1> QED BY <1>5, <1>9, Zenon

\* Prepare keeps the shape of the rows.
LEMMA PrepareTypes ==
  ASSUME Inv, NEW t, NEW k, NEW a, NEW before, NEW c, NEW ls,
         Prepares(t, k, a, before, c, ls)
  PROVE  TypeOK'
<1>0. PICK after \in Snapshots : PreparedAs(t, k, a, before, after, c)
  BY PrepareEffect, Zenon
<1>1. /\ before \in Snapshots /\ k \in AccountTransitionKind
      /\ transition' = [transition EXCEPT ![t] =
            [state |-> "prepared", kind |-> k, account |-> a,
             expected |-> store.pair, next |-> Pair(store.pair.generation + 1, c),
             before |-> before, after |-> after, committed |-> FALSE]]
      /\ account' = [account EXCEPT ![a] =
            [state |-> IF k = "create" THEN "proposed" ELSE "blocked",
             snapshot |-> after, authorized |-> t, active |-> t]]
  BY <1>0 DEF PreparedAs
<1>2. t \in Transitions /\ a \in Accounts /\ c \in Contents /\ ls \subseteq LocatorKind
  BY DEF Prepares
<1>3. store.pair \in Pairs /\ Pair(store.pair.generation + 1, c) \in Pairs
  BY <1>2 DEF Inv, TypeOK, Pairs, Pair
<1>4. PICK row : row = [state |-> "prepared", kind |-> k, account |-> a,
                expected |-> store.pair, next |-> Pair(store.pair.generation + 1, c),
                before |-> before, after |-> after, committed |-> FALSE]
  OBVIOUS
<1>5. row \in TransitionRows /\ row.state = "prepared" /\ row.committed = FALSE
  BY <1>1, <1>2, <1>3, <1>4 DEF TransitionRows, TransitionStates
<1>6. transition' \in [Transitions -> TransitionRows]
  BY <1>1, <1>2, <1>4, <1>5 DEF Inv, TypeOK
<1>7. \A v \in Transitions :
         /\ transition'[v].state \in {"config_committed", "finalized"} => transition'[v].committed
         /\ transition'[v].state \in {"prepared", "aborted"} => ~transition'[v].committed
  BY <1>1, <1>2, <1>4, <1>5 DEF Inv, TypeOK
<1>8. PICK arow : arow = [state |-> IF k = "create" THEN "proposed" ELSE "blocked",
                snapshot |-> after, authorized |-> t, active |-> t]
  OBVIOUS
<1>9. /\ arow \in AccountRows /\ arow.state \in {"proposed", "blocked"}
      /\ arow.active = t /\ arow.authorized = t /\ t # None
  BY <1>1, <1>2, <1>8, TransitionsAssumption DEF AccountRows, AccountStates
<1>10. account' \in [Accounts -> AccountRows]
  BY <1>1, <1>2, <1>8, <1>9 DEF Inv, TypeOK
<1>11. \A b \in Accounts :
          /\ account'[b].active # None <=> account'[b].state \in {"proposed", "blocked"}
          /\ account'[b].state # "absent" => account'[b].authorized \in Transitions
  BY <1>1, <1>2, <1>8, <1>9 DEF Inv, TypeOK
<1>12. store' \in [state : {"active", "blocked", "recovery_required"},
                   pair : [generation : Nat \ {0}, content : Contents]]
  BY DEF Inv, TypeOK, Prepares, PrepareRows, HeldStore
<1>13. /\ cleanup' \in [Transitions -> [LocatorKind ->
                          {"none", "provisional", "ready", "claimed", "deleted"}]]
       /\ UNCHANGED <<storeVersion, accountVersion, erased, permit>>
  BY <1>2 DEF Inv, TypeOK, Prepares, PrepareRows
<1> QED BY <1>6, <1>7, <1>10, <1>11, <1>12, <1>13 DEF Inv, TypeOK, CleanupIds

\* A prepared transition takes the store, its account and its locators, and
\* nothing else moves.
LEMMA PrepareRowsInv ==
  ASSUME Inv, NEW t, NEW k, NEW a, NEW before, NEW c, NEW ls,
         Prepares(t, k, a, before, c, ls)
  PROVE  RowsInv'
<1>0. PICK after \in Snapshots : PreparedAs(t, k, a, before, after, c)
  BY PrepareEffect, Zenon
<1>1. /\ after.generation >= 1
      /\ k # "remove" => after.generation > before.generation
      /\ after.credential \in {t, before.credential}
      /\ k = "update" => after.credential = t
      /\ before \in Snapshots /\ k \in AccountTransitionKind
      /\ transition' = [transition EXCEPT ![t] =
            [state |-> "prepared", kind |-> k, account |-> a,
             expected |-> store.pair, next |-> Pair(store.pair.generation + 1, c),
             before |-> before, after |-> after, committed |-> FALSE]]
      /\ account' = [account EXCEPT ![a] =
            [state |-> IF k = "create" THEN "proposed" ELSE "blocked",
             snapshot |-> after, authorized |-> t, active |-> t]]
      /\ \A v \in Transitions : ~InFlight(v)
      /\ \A b \in Accounts : account[b].active = None
  BY <1>0 DEF PreparedAs
<1>2. t \in Transitions /\ a \in Accounts /\ c \in Contents /\ t # None
  BY TransitionsAssumption DEF Prepares
<1>3. /\ transition'[t].state = "prepared" /\ transition'[t].kind = k
      /\ transition'[t].account = a /\ transition'[t].before = before
      /\ transition'[t].after = after /\ transition'[t].committed = FALSE
      /\ transition'[t].next = Pair(store.pair.generation + 1, c)
  BY <1>1, <1>2 DEF Inv, TypeOK
<1>4. \A v \in Transitions : v # t => transition'[v] = transition[v]
  BY <1>1, <1>2 DEF Inv, TypeOK
<1>5. /\ account'[a].state \in {"proposed", "blocked"} /\ account'[a].snapshot = after
      /\ account'[a].active = t /\ account'[a].authorized = t
  BY <1>1, <1>2 DEF Inv, TypeOK
<1>6. \A b \in Accounts : b # a => account'[b] = account[b]
  BY <1>1, <1>2 DEF Inv, TypeOK
<1>7. transition[t] = NoTransition /\ transition[t].state = "absent"
  BY <1>2 DEF Prepares, Inv, RowsInv, RowOk, Stored
<1>8. accountVersion' = accountVersion /\ accountVersion[t] = NoSnapshot
  <2>1. transition[t].committed = FALSE
    BY <1>7 DEF NoTransition
  <2> QED BY <1>2, <2>1 DEF Prepares, PrepareRows, Inv, RowsInv, RowOk
<1>9. \A v \in Transitions : Stored(v) => Stored(v)' /\ v # t
  BY <1>3, <1>4, <1>7 DEF Stored
<1>10. Known(before.credential) /\ before.credential # t
  <2>1. CASE k = "create"
    BY <2>1, <1>2, TransitionsAssumption DEF Prepares, NoSnapshot, Snapshot, Known
  <2>2. CASE k # "create"
    BY <2>2, <1>2, <1>9 DEF Prepares, Inv, RowsInv, AccountOk, Known
  <2> QED BY <2>1, <2>2
<1>11. k = "create" => \A v \in Transitions : Stored(v) => transition[v].account # a
  <2>1. k = "create" => account[a].state = "absent"
    BY DEF Prepares, NoAccount
  <2> QED BY <2>1, <1>2 DEF Inv, RowsInv, AccountOk
<1>12. k # "create" =>
         /\ CommittedAs(account[a].authorized, a, before)
         /\ \A v \in Transitions : VersionOf(v, a) =>
               accountVersion[v].generation <= before.generation
  BY <1>2 DEF Prepares, Inv, RowsInv, AccountOk
<1>13. \A v \in Transitions, b \in Accounts : VersionOf(v, b)' => v # t /\ VersionOf(v, b)
  BY <1>4, <1>8 DEF VersionOf, Stored
<1>14. \A u \in Transitions, b \in Accounts, s \in Snapshots :
          CommittedAs(u, b, s) => CommittedAs(u, b, s)'
  BY <1>4, <1>7, <1>8 DEF CommittedAs
<1>15. ASSUME NEW v \in Transitions
       PROVE  RowOk(v)'
  <2>1. CASE v = t
    BY <2>1, <1>1, <1>2, <1>3, <1>8, <1>9, <1>10 DEF RowOk, RowShape, Stored, Known
  <2>2. CASE v # t
    <3>1. RowOk(v)
      BY DEF Inv, RowsInv
    <3> QED BY <2>2, <3>1, <1>4, <1>8, <1>9 DEF RowOk, RowShape, Stored, Known
  <2> QED BY <2>1, <2>2
<1>16. ASSUME NEW v \in Transitions
       PROVE  CleanupOk(v)'
  <2>1. CASE v = t
    BY <2>1, <1>2, <1>3 DEF CleanupOk, Stored, Prepares, PrepareRows, Inv, TypeOK
  <2>2. CASE v # t
    <3>1. CleanupOk(v)
      BY DEF Inv, RowsInv
    <3> QED BY <2>2, <3>1, <1>2, <1>4 DEF CleanupOk, Stored, Prepares, PrepareRows, Inv, TypeOK
  <2> QED BY <2>1, <2>2
<1>17. \A v \in Transitions : InFlight(v)' <=> v = t
  BY <1>1, <1>3, <1>4, <1>2 DEF InFlight, Open
<1>18. ASSUME NEW v \in Transitions
       PROVE  HeldOk(v)'
  <2> SUFFICES ASSUME v = t PROVE HeldOk(v)'
    BY <1>17 DEF HeldOk
  <2>1. \A u \in Transitions : u # t /\ VersionOf(u, a)' =>
              accountVersion'[u].generation <= before.generation
    BY <1>2, <1>8, <1>11, <1>12, <1>13 DEF VersionOf
  <2>2. k # "create" => \E u \in Transitions : CommittedAs(u, a, before)'
    BY <1>1, <1>2, <1>12, <1>14 DEF CommittedAs
  <2> QED BY <2>1, <2>2, <1>3, <1>5 DEF HeldOk
<1>19. ASSUME NEW v \in Transitions
       PROVE  EndOk(v)'
  <2> SUFFICES ASSUME v # t, transition[v].state = "finalized" PROVE EndOk(v)'
    BY <1>3, <1>4 DEF EndOk
  <2>1. /\ EndOk(v) /\ Stored(v) /\ RowShape(v) /\ transition'[v] = transition[v]
        /\ transition[v].account \in Accounts /\ transition[v].before.credential # t
    BY <1>2, <1>4, <1>9 DEF Inv, RowsInv, RowOk, RowShape, Stored, Known
  <2>2. CASE transition[v].account = a
    <3>1. account[a].state = "active" /\ before = account[a].snapshot
      BY <2>1, <2>2, <1>11 DEF Prepares
    <3>2. Live(a) /\ account[a].state # "removed"
      BY <3>1 DEF Live
    <3> QED BY <2>1, <2>2, <3>1, <3>2, <1>1, <1>3, <1>5 DEF EndOk
  <2>3. CASE transition[v].account # a
    BY <2>1, <2>3, <1>1, <1>6 DEF EndOk, Live
  <2> QED BY <2>2, <2>3
<1>20. ASSUME NEW b \in Accounts
       PROVE  AccountOk(b)'
  <2>1. CASE b = a
    <3>1. Known(after.credential)'
      BY <1>1, <1>3, <1>9, <1>10 DEF Known, Stored
    <3> QED BY <2>1, <3>1, <1>2, <1>3, <1>5, <1>17 DEF AccountOk
  <2>2. CASE b # a
    <3>1. AccountOk(b) /\ account'[b] = account[b] /\ account[b].active = None
      BY <2>2, <1>1, <1>6 DEF Inv, RowsInv
    <3>2. Known(account[b].snapshot.credential)'
      BY <3>1, <1>9 DEF AccountOk, Known
    <3>3. account'[b].state = "absent" =>
            /\ account'[b] = NoAccount
            /\ \A v \in Transitions : Stored(v)' => transition'[v].account # b
      BY <2>2, <3>1, <1>3, <1>4 DEF AccountOk, Stored
    <3>4. account[b].snapshot \in Snapshots
      BY DEF Inv, TypeOK, AccountRows
    <3>5. account'[b].state = "active" =>
            /\ CommittedAs(account[b].authorized, b, account[b].snapshot)'
            /\ \A v \in Transitions : VersionOf(v, b)' =>
                  accountVersion'[v].generation <= account'[b].snapshot.generation
      <4> SUFFICES ASSUME account[b].state = "active"
                   PROVE  /\ CommittedAs(account[b].authorized, b, account[b].snapshot)'
                          /\ \A v \in Transitions : VersionOf(v, b)' =>
                                accountVersion'[v].generation <= account'[b].snapshot.generation
        BY <3>1
      <4>1. CommittedAs(account[b].authorized, b, account[b].snapshot)'
        BY <3>1, <3>4, <1>4, <1>7, <1>8 DEF AccountOk, CommittedAs
      <4> QED BY <3>1, <4>1, <1>8, <1>13 DEF AccountOk
    <3> QED BY <3>1, <3>2, <3>3, <3>5 DEF AccountOk
  <2> QED BY <2>1, <2>2
<1>21. OneInFlight'
  BY <1>17 DEF OneInFlight
<1>22. OneVersionEach'
  BY <1>8, <1>13 DEF OneVersionEach, Inv, RowsInv
<1>23. StoreOk'
  <2>1. store'.state = "blocked" /\ store'.pair = store.pair
    BY DEF Prepares, PrepareRows, HeldStore, Inv, TypeOK
  <2>2. Open(t)' /\ transition'[t].next.generation = store.pair.generation + 1
                 /\ transition'[t].next.content \in Contents
    BY <1>2, <1>3 DEF Open, Pair
  <2>3. \A v \in Transitions : transition'[v].state = "recovery_required" => FALSE
    BY <1>1, <1>3, <1>4 DEF InFlight
  <2>4. \A v \in Transitions : transition'[v].state = "prepared" => v = t
    BY <1>17 DEF InFlight, Open
  <2> QED BY <2>1, <2>2, <2>3, <2>4, <1>2 DEF StoreOk
<1> QED BY <1>15, <1>16, <1>18, <1>19, <1>20, <1>21, <1>22, <1>23 DEF RowsInv

\* Nothing is committed, reserved or erased by a prepare.
LEMMA PrepareOthers ==
  ASSUME Inv, NEW t, NEW k, NEW a, NEW before, NEW c, NEW ls,
         Prepares(t, k, a, before, c, ls), permit = None
  PROVE  PairFollowsCommits' /\ DeletedMeansErased' /\ PermitOk'
<1>0. PICK after \in Snapshots : PreparedAs(t, k, a, before, after, c)
  BY PrepareEffect, Zenon
<1>1. /\ t \in Transitions
      /\ transition' = [transition EXCEPT ![t] =
            [state |-> "prepared", kind |-> k, account |-> a,
             expected |-> store.pair, next |-> Pair(store.pair.generation + 1, c),
             before |-> before, after |-> after, committed |-> FALSE]]
  BY <1>0 DEF PreparedAs, Prepares
<1>2. transition[t] = NoTransition /\ transition[t].state = "absent"
  BY <1>1 DEF Prepares, Inv, RowsInv, RowOk, Stored
<1>3. transition[t].committed = FALSE
  BY <1>2 DEF NoTransition
<1>4. transition'[t].committed = FALSE
  BY <1>1 DEF Inv, TypeOK
<1>5. \A v \in Transitions : v # t => transition'[v] = transition[v]
  BY <1>1 DEF Inv, TypeOK
<1>6. {v \in Transitions : transition'[v].committed} = {v \in Transitions : transition[v].committed}
  BY <1>3, <1>4, <1>5
<1>7. store.state = "active" /\ store'.pair = store.pair
  BY DEF Prepares, StoreFree, PrepareRows, HeldStore, Inv, TypeOK
<1>8. PairFollowsCommits'
  BY <1>3, <1>5, <1>6, <1>7 DEF PairFollowsCommits, Inv
<1>9. DeletedMeansErased'
  <2>1. \A l \in LocatorKind : cleanup[t][l] = "none" /\ cleanup'[t][l] \in {"none", "provisional"}
    BY <1>1 DEF Inv, RowsInv, CleanupOk, Prepares, PrepareRows, TypeOK
  <2>2. \A v \in Transitions : v # t => cleanup'[v] = cleanup[v]
    BY <1>1 DEF Inv, Prepares, PrepareRows, TypeOK
  <2>3. erased' = erased
    BY DEF Prepares, PrepareRows
  <2> QED BY <2>1, <2>2, <2>3 DEF Inv, DeletedMeansErased
<1>10. PermitOk'
  BY DEF PermitOk, Prepares, PrepareRows
<1> QED BY <1>8, <1>9, <1>10

-----------------------------------------------------------------------------
(* apply_account_observation.                                                *)

\* The one open transition, and its hold on its account.
LEMMA OpenFacts ==
  ASSUME Inv, NEW t \in Transitions, Open(t)
  PROVE  /\ t # None /\ Stored(t) /\ RowShape(t)
         /\ transition[t].account \in Accounts
         /\ account[transition[t].account].active = t
         /\ account[transition[t].account].authorized = t
         /\ account[transition[t].account].snapshot = transition[t].after
         /\ account[transition[t].account].state \in {"proposed", "blocked"}
         /\ Live(transition[t].account)
         /\ \A v \in Transitions : InFlight(v) <=> v = t
         /\ \A b \in Accounts : b # transition[t].account => account[b].active = None
<1>1. t # None /\ Stored(t) /\ RowShape(t) /\ transition[t].account \in Accounts /\ InFlight(t)
  BY TransitionsAssumption DEF Inv, RowsInv, RowOk, RowShape, Stored, Open, InFlight
<1>2. HeldOk(t) /\ OneInFlight
  BY DEF Inv, RowsInv
<1>3. /\ account[transition[t].account].active = t
      /\ account[transition[t].account].authorized = t
      /\ account[transition[t].account].snapshot = transition[t].after
  BY <1>1, <1>2 DEF HeldOk
<1>4. account[transition[t].account].state \in {"proposed", "blocked"}
  BY <1>1, <1>3 DEF Inv, TypeOK
<1>5. \A v \in Transitions : InFlight(v) <=> v = t
  BY <1>1, <1>2 DEF OneInFlight
<1>6. ASSUME NEW b \in Accounts, b # transition[t].account
      PROVE  account[b].active = None
  <2>1. account[b].active \in Transitions \cup {None} /\ AccountOk(b)
    BY DEF Inv, TypeOK, AccountRows, RowsInv
  <2> QED BY <2>1, <1>5, <1>6 DEF AccountOk
<1> QED BY <1>1, <1>3, <1>4, <1>5, <1>6 DEF Live

\* An observation writes the transition's state, its versions and its
\* account, and nothing of any other transition or account.
Observes(t) ==
    /\ t \in Transitions /\ Open(t)
    /\ \A v \in Transitions : v # t =>
          transition'[v] = transition[v] /\ accountVersion'[v] = accountVersion[v]
    /\ transition'[t].state \in {"config_committed", "finalized", "aborted", "recovery_required"}
    /\ transition'[t].kind = transition[t].kind
    /\ transition'[t].account = transition[t].account
    /\ transition'[t].before = transition[t].before
    /\ transition'[t].after = transition[t].after
    /\ transition'[t].next = transition[t].next
    /\ \A b \in Accounts : b # transition[t].account => account'[b] = account[b]

LEMMA ObservedStored ==
  ASSUME Inv, NEW t, Observes(t)
  PROVE  /\ \A v \in Transitions : Stored(v)' <=> Stored(v)
         /\ \A c : Known(c)' <=> Known(c)
         /\ RowShape(t)'
         /\ \A v \in Transitions, b \in Accounts :
               v # t => (VersionOf(v, b)' <=> VersionOf(v, b))
<1>1. t \in Transitions /\ Stored(t) /\ RowShape(t)
  BY OpenFacts DEF Observes
<1>2. \A v \in Transitions : Stored(v)' <=> Stored(v)
  BY <1>1 DEF Observes, Stored
<1>3. \A c : Known(c)' <=> Known(c)
  BY <1>2 DEF Known
<1>4. RowShape(t)'
  BY <1>1, <1>3 DEF RowShape, Observes
<1>5. \A v \in Transitions, b \in Accounts :
               v # t => (VersionOf(v, b)' <=> VersionOf(v, b))
  BY <1>2 DEF VersionOf, Observes
<1> QED BY <1>2, <1>3, <1>4, <1>5

LEMMA ObservedRow ==
  ASSUME Inv, NEW t, Observes(t), NEW v \in Transitions, v # t
  PROVE  RowOk(v)'
<1>1. RowOk(v) /\ transition'[v] = transition[v] /\ accountVersion'[v] = accountVersion[v]
  BY DEF Inv, RowsInv, Observes
<1>2. Stored(v)' <=> Stored(v)
  BY ObservedStored
<1>3. RowShape(v) => RowShape(v)'
  BY <1>1, ObservedStored DEF RowShape
<1> QED BY <1>1, <1>2, <1>3 DEF RowOk

LEMMA ObservedAccount ==
  ASSUME Inv, NEW t, Observes(t), NEW b \in Accounts, b # transition[t].account
  PROVE  AccountOk(b)'
<1>1. AccountOk(b) /\ account'[b] = account[b] /\ account[b].active = None
  BY OpenFacts DEF Inv, RowsInv, Observes
<1>2. Known(account[b].snapshot.credential)'
  BY <1>1, ObservedStored DEF AccountOk
<1>3. \A v \in Transitions : transition'[v].account = transition[v].account
  BY DEF Observes
<1>4. account[b].state = "absent" =>
         account[b] = NoAccount /\ \A v \in Transitions : Stored(v)' => transition'[v].account # b
  BY <1>1, <1>3, ObservedStored DEF AccountOk
<1>5. ASSUME account[b].state = "active"
      PROVE  /\ CommittedAs(account[b].authorized, b, account[b].snapshot)'
             /\ \A v \in Transitions : VersionOf(v, b)' =>
                   accountVersion'[v].generation <= account[b].snapshot.generation
  <2>1. CommittedAs(account[b].authorized, b, account[b].snapshot)
    BY <1>1, <1>5 DEF AccountOk
  <2>2. CommittedAs(account[b].authorized, b, account[b].snapshot)'
    BY <1>1, <2>1 DEF CommittedAs, Observes, Open
  <2>3. ASSUME NEW v \in Transitions, VersionOf(v, b)'
        PROVE  v # t /\ VersionOf(v, b) /\ accountVersion'[v] = accountVersion[v]
    <3>1. v # t
      BY <2>3, <1>3 DEF VersionOf
    <3> QED BY <2>3, <3>1, ObservedStored DEF Observes
  <2> QED BY <1>1, <1>5, <2>2, <2>3 DEF AccountOk
<1> QED BY <1>1, <1>2, <1>4, <1>5 DEF AccountOk

\* Ends of other transitions: a removal is of another account, an update of
\* the same account has retired a credential the open one does not name.
LEMMA ObservedEnd ==
  ASSUME Inv, NEW t, Observes(t), NEW v \in Transitions, v # t,
         LET a == transition[t].account
         IN  /\ account'[a].snapshot.credential
                   \in {account[a].snapshot.credential, transition[t].before.credential}
             /\ account'[a].active \in {t, None}
  PROVE  EndOk(v)'
<1>1. /\ EndOk(v) /\ transition'[v] = transition[v]
      /\ Stored(v) => transition[v].account \in Accounts
      /\ t \in Transitions /\ t # None
      /\ transition[t].account \in Accounts /\ transition'[t].before = transition[t].before
  BY OpenFacts DEF Inv, RowsInv, Observes, RowOk, RowShape
<1> SUFFICES ASSUME transition[v].state = "finalized" PROVE EndOk(v)'
  BY <1>1 DEF EndOk
<1>2. CASE transition[v].account = transition[t].account
  <2>1. /\ account[transition[t].account].active = t /\ Live(transition[t].account)
        /\ account[transition[t].account].state # "removed"
    BY <1>1, OpenFacts DEF Observes
  <2> QED BY <1>1, <1>2, <2>1 DEF EndOk
<1>3. CASE transition[v].account # transition[t].account
  <2>1. transition[v].account \in Accounts
    BY <1>1 DEF Stored
  <2>2. /\ account'[transition[v].account] = account[transition[v].account]
        /\ account[transition[v].account].active = None
    BY <1>1, <1>3, <2>1, OpenFacts DEF Observes
  <2> QED BY <1>1, <1>3, <2>2 DEF EndOk, Live
<1> QED BY <1>2, <1>3

\* mark_config_committed.
LEMMA MarkEffect ==
  ASSUME Inv, NEW t \in Transitions, NEW pair, MarkConfigCommitted(t, pair)
  PROVE  /\ Observes(t) /\ TypeOK'
         /\ transition[t].state = "prepared" /\ transition'[t].state = "config_committed"
         /\ transition'[t].committed = TRUE
         /\ accountVersion'[t] =
               IF transition[t].kind = "remove" THEN NoSnapshot ELSE transition[t].after
         /\ store'.state = store.state /\ store'.pair = transition[t].next
<1>1. transition[t].state = "prepared" /\ Open(t)
  BY DEF MarkConfigCommitted, Open
<1>2. /\ transition[t].account \in Accounts
      /\ account[transition[t].account].snapshot = transition[t].after
  BY <1>1, OpenFacts
<1>3. /\ \A v \in Transitions : v # t => transition'[v] = transition[v]
      /\ transition'[t].state = "config_committed" /\ transition'[t].committed = TRUE
      /\ transition'[t].kind = transition[t].kind
      /\ transition'[t].account = transition[t].account
      /\ transition'[t].before = transition[t].before
      /\ transition'[t].after = transition[t].after
      /\ transition'[t].next = transition[t].next
  BY DEF MarkConfigCommitted, Inv, TypeOK, TransitionRows
<1>4. transition' \in [Transitions -> TransitionRows]
  <2>1. transition[t] \in TransitionRows
    BY DEF Inv, TypeOK
  <2>2. [[transition[t] EXCEPT !.state = "config_committed"] EXCEPT !.committed = TRUE]
           \in TransitionRows
    BY <2>1 DEF TransitionRows, TransitionStates
  <2> QED BY <2>2 DEF MarkConfigCommitted, Inv, TypeOK
<1>5. /\ accountVersion'[t] =
            IF transition[t].kind = "remove" THEN NoSnapshot ELSE transition[t].after
      /\ \A v \in Transitions : v # t => accountVersion'[v] = accountVersion[v]
  BY <1>2 DEF MarkConfigCommitted, InsertVersions, Inv, TypeOK
<1>6. transition[t].after \in Snapshots /\ NoSnapshot \in Snapshots /\ transition[t].next \in Pairs
  BY DEF Inv, TypeOK, TransitionRows, NoSnapshot, Snapshot, Snapshots
<1>7. /\ accountVersion' \in [Transitions -> Snapshots]
      /\ storeVersion' \in [Transitions -> Pairs]
  BY <1>2, <1>6 DEF MarkConfigCommitted, InsertVersions, Inv, TypeOK
<1>8. store'.state = store.state /\ store'.pair = transition[t].next
  BY DEF MarkConfigCommitted, CommittedStore, Inv, TypeOK
<1>9. transition[t].next \in [generation : Nat \ {0}, content : Contents]
  <2>1. /\ transition[t].next.generation = store.pair.generation + 1
        /\ transition[t].next.content \in Contents
    BY <1>1 DEF Inv, RowsInv, StoreOk
  <2>2. store.pair.generation \in Nat
    BY DEF Inv, TypeOK
  <2> QED BY <1>6, <2>1, <2>2 DEF Pairs
<1>10. store' \in [state : {"active", "blocked", "recovery_required"},
                   pair : [generation : Nat \ {0}, content : Contents]]
  BY <1>9 DEF MarkConfigCommitted, CommittedStore, Inv, TypeOK
<1>11. UNCHANGED <<account, cleanup, erased, permit>>
  BY DEF MarkConfigCommitted
<1>12. \A v \in Transitions :
         /\ transition'[v].state \in {"config_committed", "finalized"} => transition'[v].committed
         /\ transition'[v].state \in {"prepared", "aborted"} => ~transition'[v].committed
  BY <1>3 DEF Inv, TypeOK
<1>13. TypeOK'
  BY <1>4, <1>7, <1>10, <1>11, <1>12 DEF Inv, TypeOK, CleanupIds
<1>14. Observes(t)
  BY <1>1, <1>3, <1>5, <1>11 DEF Observes
<1> QED BY <1>1, <1>3, <1>5, <1>8, <1>13, <1>14

LEMMA MarkKeepsInv ==
  ASSUME Inv, NEW t \in Transitions, NEW pair, MarkConfigCommitted(t, pair), permit = None
  PROVE  Inv'
<1>1. /\ Observes(t) /\ TypeOK'
      /\ transition[t].state = "prepared" /\ transition'[t].state = "config_committed"
      /\ transition'[t].committed = TRUE
      /\ accountVersion'[t] =
            IF transition[t].kind = "remove" THEN NoSnapshot ELSE transition[t].after
      /\ store'.state = store.state /\ store'.pair = transition[t].next
  BY MarkEffect
<1>0. PICK a : a = transition[t].account
  OBVIOUS
<1>2. /\ a = transition[t].account /\ t # None /\ Stored(t) /\ RowShape(t) /\ a \in Accounts
      /\ account[a].active = t /\ account[a].authorized = t
      /\ account[a].snapshot = transition[t].after
      /\ account[a].state \in {"proposed", "blocked"}
      /\ \A v \in Transitions : InFlight(v) <=> v = t
  BY <1>0, <1>1, OpenFacts DEF Open
<1>3. UNCHANGED <<account, cleanup, erased, permit>>
  BY DEF MarkConfigCommitted
<1>4. \A v \in Transitions : RowOk(v)'
  <2>1. RowOk(t)'
    <3>1. Stored(t)' /\ RowShape(t)'
      BY <1>1, <1>2, ObservedStored
    <3> QED BY <3>1, <1>1 DEF RowOk, Observes
  <2> QED BY <2>1, <1>1, ObservedRow
<1>5. \A v \in Transitions : CleanupOk(v)'
  <2>1. CleanupOk(t)'
    BY <1>1, <1>2, <1>3, ObservedStored DEF Inv, RowsInv, CleanupOk, Observes
  <2>2. ASSUME NEW v \in Transitions, v # t PROVE CleanupOk(v)'
    BY <2>2, <1>1, <1>3, ObservedStored DEF Inv, RowsInv, CleanupOk, Observes
  <2> QED BY <2>1, <2>2
<1>6. \A v \in Transitions : InFlight(v)' <=> v = t
  BY <1>1, <1>2 DEF InFlight, Open, Observes
<1>7. \A v \in Transitions : HeldOk(v)'
  <2> SUFFICES HeldOk(t)'
    BY <1>6 DEF HeldOk
  <2>1. HeldOk(t) /\ InFlight(t)
    BY <1>2 DEF Inv, RowsInv
  <2>2. \A v \in Transitions : v # t /\ VersionOf(v, a)' =>
              accountVersion'[v].generation <= transition[t].before.generation
    BY <1>1, <1>2, <2>1, ObservedStored DEF HeldOk, Observes
  <2>3. transition[t].kind # "create" =>
              \E u \in Transitions : CommittedAs(u, a, transition[t].before)'
    <3> SUFFICES ASSUME transition[t].kind # "create"
                 PROVE  \E u \in Transitions : CommittedAs(u, a, transition[t].before)'
      OBVIOUS
    <3>1. PICK u \in Transitions : CommittedAs(u, a, transition[t].before)
      BY <2>1, <1>2 DEF HeldOk
    <3>2. CommittedAs(u, a, transition[t].before)'
      BY <3>1, <1>1 DEF CommittedAs, Observes
    <3> QED BY <3>2
  <2> QED BY <2>2, <2>3, <1>1, <1>2, <1>3 DEF HeldOk, Observes
<1>8. \A v \in Transitions : EndOk(v)'
  <2>1. EndOk(t)'
    BY <1>1 DEF EndOk
  <2>2. ASSUME NEW v \in Transitions, v # t PROVE EndOk(v)'
    BY <2>2, <1>1, <1>2, <1>3, ObservedEnd
  <2> QED BY <2>1, <2>2
<1>9. \A b \in Accounts : AccountOk(b)'
  <2>1. AccountOk(a)'
    <3>1. Known(account[a].snapshot.credential)'
      BY <1>1, <1>2, <1>3, ObservedStored DEF Inv, RowsInv, AccountOk
    <3>2. transition'[t].account = a
      BY <1>1, <1>2 DEF Observes
    <3> QED BY <3>1, <3>2, <1>2, <1>3, <1>6 DEF AccountOk
  <2>2. ASSUME NEW b \in Accounts, b # a PROVE AccountOk(b)'
    BY <2>2, <1>1, <1>2, ObservedAccount
  <2> QED BY <2>1, <2>2
<1>10. OneInFlight'
  BY <1>6 DEF OneInFlight
<1>11. OneVersionEach'
  <2>1. ASSUME NEW v \in Transitions, NEW b \in Accounts, v # t,
               VersionOf(v, b)', VersionOf(t, b)'
        PROVE  accountVersion'[v].generation # accountVersion'[t].generation
    <3>1. b = a /\ VersionOf(v, a)' /\ accountVersion'[t] = transition[t].after
            /\ transition[t].kind # "remove"
      BY <2>1, <1>1, <1>2 DEF VersionOf, Observes
    <3>2. accountVersion'[v].generation <= transition[t].before.generation
      BY <3>1, <2>1, <1>1, <1>2, <1>7, <1>6 DEF HeldOk, Observes
    <3>3. transition[t].after.generation > transition[t].before.generation
      BY <3>1, <1>2 DEF RowShape
    <3>4. /\ transition[t].after.generation \in Nat /\ transition[t].before.generation \in Nat
          /\ accountVersion'[v].generation \in Nat
      BY <1>1 DEF Inv, TypeOK, TransitionRows, Snapshots
    <3> QED BY <3>1, <3>2, <3>3, <3>4
  <2>2. ASSUME NEW u \in Transitions, NEW v \in Transitions, NEW b \in Accounts,
               u # t, v # t, VersionOf(u, b)', VersionOf(v, b)',
               accountVersion'[u].generation = accountVersion'[v].generation
        PROVE  u = v
    <3>1. VersionOf(u, b) /\ VersionOf(v, b)
      BY <2>2, <1>1, ObservedStored
    <3>2. accountVersion[u].generation = accountVersion[v].generation
      BY <2>2, <1>1 DEF Observes
    <3> QED BY <3>1, <3>2 DEF Inv, RowsInv, OneVersionEach
  <2> QED BY <2>1, <2>2 DEF OneVersionEach
<1>12. StoreOk'
  <2>1. /\ Open(t) /\ Open(t)'
        /\ \A v \in Transitions : transition'[v].state # "recovery_required"
    BY <1>1, <1>6 DEF Open, InFlight
  <2>2. store.state = "blocked"
    BY <2>1 DEF Inv, RowsInv, StoreOk
  <2>3. \A v \in Transitions : transition'[v].state = "prepared" => FALSE
    BY <1>1, <1>6 DEF Open, InFlight
  <2> QED BY <1>1, <2>1, <2>2, <2>3 DEF StoreOk
<1>13. PairFollowsCommits'
  <2> DEFINE old == {v \in Transitions : transition[v].committed}
             new == {v \in Transitions : transition'[v].committed}
  <2>1. t \notin old
    BY <1>1 DEF Inv, TypeOK
  <2>2. new = old \cup {t}
    BY <1>1 DEF Observes
  <2>3. IsFiniteSet(old)
    BY TransitionsAssumption, FS_Subset
  <2>4. Cardinality(new) = Cardinality(old) + 1 /\ Cardinality(old) \in Nat
    BY <2>1, <2>2, <2>3, FS_AddElement, FS_CardinalityType
  <2>5. /\ transition[t].next.generation = store.pair.generation + 1 /\ store.state = "blocked"
        /\ store.pair.generation = 1 + Cardinality(old)
    BY <1>1 DEF Inv, RowsInv, StoreOk, Open, PairFollowsCommits
  <2>6. t \in new /\ transition'[t].next = transition[t].next
    BY <1>1, <2>2 DEF Observes
  <2>7. store'.pair.generation = 1 + Cardinality(new)
    BY <1>1, <2>4, <2>5
  <2> QED BY <1>1, <2>6, <2>7 DEF PairFollowsCommits
<1>14. DeletedMeansErased' /\ PermitOk'
  BY <1>3 DEF DeletedMeansErased, PermitOk, Inv
<1> QED BY <1>1, <1>4, <1>5, <1>7, <1>8, <1>9, <1>10, <1>11, <1>12, <1>13, <1>14 DEF Inv, RowsInv

\* The other observations write no version row, keep the committed flag and
\* the pair, and so the history of versions stays as it was.
LEMMA EndingKeeps ==
  ASSUME Inv, NEW t, Observes(t), accountVersion' = accountVersion,
         transition'[t].committed = transition[t].committed,
         \/ store'.state = "recovery_required"
         \/ store'.pair = store.pair /\ store.state # "recovery_required"
  PROVE  /\ RowOk(t)' /\ OneVersionEach' /\ PairFollowsCommits'
         /\ \A v \in Transitions, b \in Accounts : VersionOf(v, b)' <=> VersionOf(v, b)
<1>1. t \in Transitions /\ Stored(t) /\ RowShape(t) /\ RowOk(t)
  BY OpenFacts DEF Observes, Inv, RowsInv
<1>2. Stored(t)' /\ RowShape(t)'
  BY <1>1, ObservedStored
<1>3. RowOk(t)'
  BY <1>1, <1>2 DEF RowOk, Observes
<1>4. \A v \in Transitions, b \in Accounts : VersionOf(v, b)' <=> VersionOf(v, b)
  BY <1>1, <1>2, ObservedStored DEF VersionOf, Observes
<1>5. OneVersionEach'
  BY <1>4 DEF OneVersionEach, Inv, RowsInv
<1>6. \A v \in Transitions : /\ transition'[v].committed = transition[v].committed
                             /\ transition'[v].next = transition[v].next
  BY DEF Observes
<1>7. {v \in Transitions : transition'[v].committed} = {v \in Transitions : transition[v].committed}
  BY <1>6
<1>8. PairFollowsCommits'
  BY <1>6, <1>7 DEF PairFollowsCommits, Inv
<1> QED BY <1>3, <1>4, <1>5, <1>8

\* With the transition over nothing is in flight, and the store is open again.
LEMMA EndingOpens ==
  ASSUME Inv, NEW t, Observes(t), transition'[t].state \in {"finalized", "aborted"},
         store'.state = "active"
  PROVE  /\ \A v \in Transitions : HeldOk(v)'
         /\ OneInFlight' /\ StoreOk'
<1>1. \A v \in Transitions : InFlight(v) <=> v = t
  BY OpenFacts DEF Observes
<1>2. \A v \in Transitions : ~InFlight(v)'
  BY <1>1 DEF InFlight, Open, Observes
<1> QED BY <1>2 DEF HeldOk, OneInFlight, StoreOk, InFlight, Open

\* finalize_account_transition.
LEMMA FinalizeEffect ==
  ASSUME Inv, NEW t \in Transitions, NEW pair, Finalize(t, pair)
  PROVE  LET a == transition[t].account
         IN  /\ Observes(t) /\ TypeOK'
             /\ transition[t].state = "config_committed" /\ transition'[t].state = "finalized"
             /\ transition[t].committed /\ transition'[t].committed = transition[t].committed
             /\ accountVersion' = accountVersion
             /\ store'.state = "active" /\ store'.pair = store.pair
             /\ store.state # "recovery_required"
             /\ account'[a].state = IF transition[t].kind = "remove" THEN "removed" ELSE "active"
             /\ account'[a].active = None
             /\ account'[a].snapshot = account[a].snapshot
             /\ account'[a].authorized = account[a].authorized
<1>0. PICK a : a = transition[t].account
  OBVIOUS
<1>1. transition[t].state = "config_committed" /\ Open(t)
  BY DEF Finalize, Open
<1>2. /\ a \in Accounts /\ account[a].authorized = t
      /\ \A v \in Transitions : InFlight(v) <=> v = t
  BY <1>0, <1>1, OpenFacts
<1>3. /\ \A v \in Transitions : v # t => transition'[v] = transition[v]
      /\ transition'[t].state = "finalized" /\ transition'[t].committed = transition[t].committed
      /\ transition'[t].kind = transition[t].kind
      /\ transition'[t].account = transition[t].account
      /\ transition'[t].before = transition[t].before
      /\ transition'[t].after = transition[t].after
      /\ transition'[t].next = transition[t].next
  BY DEF Finalize, Inv, TypeOK, TransitionRows
<1>4. transition' \in [Transitions -> TransitionRows]
  <2>1. transition[t] \in TransitionRows
    BY DEF Inv, TypeOK
  <2>2. [transition[t] EXCEPT !.state = "finalized"] \in TransitionRows
    BY <2>1 DEF TransitionRows, TransitionStates
  <2> QED BY <2>2 DEF Finalize, Inv, TypeOK
<1>5. PICK row : row = [account[a] EXCEPT
            !.state = IF transition[t].kind = "remove" THEN "removed" ELSE "active",
            !.active = None]
  OBVIOUS
<1>6. account[a] \in AccountRows
  BY <1>2 DEF Inv, TypeOK
<1>7. /\ row \in AccountRows
      /\ row.state = IF transition[t].kind = "remove" THEN "removed" ELSE "active"
      /\ row.active = None /\ row.snapshot = account[a].snapshot
      /\ row.authorized = account[a].authorized
  BY <1>5, <1>6 DEF AccountRows, AccountStates
<1>8. account' = [account EXCEPT ![a] = row]
  BY <1>0, <1>5 DEF Finalize, FinalAccount
<1>9. /\ account' \in [Accounts -> AccountRows] /\ account'[a] = row
      /\ \A b \in Accounts : b # a => account'[b] = account[b]
  BY <1>2, <1>7, <1>8 DEF Inv, TypeOK
<1>10. \A b \in Accounts :
          /\ account'[b].active # None <=> account'[b].state \in {"proposed", "blocked"}
          /\ account'[b].state # "absent" => account'[b].authorized \in Transitions
  <2>1. ASSUME NEW b \in Accounts, b # a
        PROVE  /\ account'[b].active # None <=> account'[b].state \in {"proposed", "blocked"}
               /\ account'[b].state # "absent" => account'[b].authorized \in Transitions
    BY <2>1, <1>9 DEF Inv, TypeOK
  <2>2. /\ account'[a].active # None <=> account'[a].state \in {"proposed", "blocked"}
        /\ account'[a].state # "absent" => account'[a].authorized \in Transitions
    BY <1>2, <1>7, <1>9
  <2> QED BY <2>1, <2>2
<1>11. \A v \in Transitions :
         /\ transition'[v].state \in {"config_committed", "finalized"} => transition'[v].committed
         /\ transition'[v].state \in {"prepared", "aborted"} => ~transition'[v].committed
  BY <1>1, <1>3 DEF Inv, TypeOK
<1>12. /\ store'.state = "active" /\ store'.pair = store.pair
       /\ store' \in [state : {"active", "blocked", "recovery_required"},
                      pair : [generation : Nat \ {0}, content : Contents]]
  BY DEF Finalize, Inv, TypeOK
<1>13. /\ cleanup' \in [Transitions -> [LocatorKind ->
                          {"none", "provisional", "ready", "claimed", "deleted"}]]
       /\ UNCHANGED <<storeVersion, accountVersion, erased, permit>>
  BY DEF Inv, TypeOK, Finalize, ReadyCleanup
<1>14. TypeOK'
  BY <1>4, <1>9, <1>10, <1>11, <1>12, <1>13 DEF Inv, TypeOK, CleanupIds
<1>15. Observes(t)
  BY <1>0, <1>1, <1>3, <1>9, <1>13 DEF Observes
<1>16. transition[t].committed /\ store.state # "recovery_required"
  BY <1>1, <1>2 DEF Inv, TypeOK, RowsInv, StoreOk, InFlight
<1> QED BY <1>0, <1>1, <1>3, <1>7, <1>9, <1>12, <1>13, <1>14, <1>15, <1>16

LEMMA FinalizeKeepsInv ==
  ASSUME Inv, NEW t \in Transitions, NEW pair, Finalize(t, pair), permit = None
  PROVE  Inv'
<1>0. PICK a : a = transition[t].account
  OBVIOUS
<1>1. /\ Observes(t) /\ TypeOK'
      /\ transition[t].state = "config_committed" /\ transition'[t].state = "finalized"
      /\ transition[t].committed /\ transition'[t].committed = transition[t].committed
      /\ accountVersion' = accountVersion
      /\ store'.state = "active" /\ store'.pair = store.pair
      /\ store.state # "recovery_required"
      /\ account'[a].state = IF transition[t].kind = "remove" THEN "removed" ELSE "active"
      /\ account'[a].active = None
      /\ account'[a].snapshot = account[a].snapshot
      /\ account'[a].authorized = account[a].authorized
  BY <1>0, FinalizeEffect
<1>2. /\ t # None /\ Stored(t) /\ RowShape(t) /\ a \in Accounts
      /\ account[a].authorized = t /\ account[a].snapshot = transition[t].after
      /\ InFlight(t)
  BY <1>0, <1>1, OpenFacts DEF Open
<1>3. /\ RowOk(t)' /\ OneVersionEach' /\ PairFollowsCommits'
      /\ \A v \in Transitions, b \in Accounts : VersionOf(v, b)' <=> VersionOf(v, b)
  BY <1>1, EndingKeeps
<1>4. (\A v \in Transitions : HeldOk(v)') /\ OneInFlight' /\ StoreOk'
  BY <1>1, EndingOpens
<1>5. \A v \in Transitions : RowOk(v)'
  BY <1>1, <1>3, ObservedRow
<1>6. \A v \in Transitions : CleanupOk(v)'
  <2>1. CleanupOk(t)'
    <3>1. \A k \in LocatorKind : cleanup'[t][k] = IF cleanup[t][k] # "none" THEN "ready" ELSE "none"
      BY DEF Finalize, ReadyCleanup, Reserved, Inv, TypeOK
    <3> QED BY <3>1, <1>1, <1>2, ObservedStored DEF Inv, RowsInv, CleanupOk, Observes
  <2>2. ASSUME NEW v \in Transitions, v # t PROVE CleanupOk(v)'
    <3>1. cleanup'[v] = cleanup[v]
      BY <2>2 DEF Finalize, Inv, TypeOK
    <3> QED BY <3>1, <2>2, <1>1, ObservedStored DEF Inv, RowsInv, CleanupOk, Observes
  <2> QED BY <2>1, <2>2
<1>7. \A v \in Transitions : EndOk(v)'
  <2>1. EndOk(t)'
    BY <1>0, <1>1, <1>2 DEF EndOk, Observes, RowShape
  <2>2. ASSUME NEW v \in Transitions, v # t PROVE EndOk(v)'
    BY <2>2, <1>0, <1>1, ObservedEnd
  <2> QED BY <2>1, <2>2
<1>8. \A b \in Accounts : AccountOk(b)'
  <2>1. AccountOk(a)'
    <3>1. Known(account[a].snapshot.credential)'
      BY <1>1, <1>2, ObservedStored DEF Inv, RowsInv, AccountOk
    <3>2. ASSUME transition[t].kind # "remove"
          PROVE  /\ CommittedAs(t, a, transition[t].after)'
                 /\ \A v \in Transitions : VersionOf(v, a) =>
                       accountVersion[v].generation <= transition[t].after.generation
      <4>1. accountVersion[t] = transition[t].after
        BY <3>2, <1>1 DEF Inv, RowsInv, RowOk
      <4>2. CommittedAs(t, a, transition[t].after)'
        BY <4>1, <1>0, <1>1, <1>2 DEF CommittedAs, RowShape, Observes
      <4>3. transition[t].after.generation > transition[t].before.generation
        BY <3>2, <1>2 DEF RowShape
      <4>4. \A v \in Transitions : v # t /\ VersionOf(v, a) =>
              accountVersion[v].generation <= transition[t].before.generation
        BY <1>0, <1>2 DEF Inv, RowsInv, HeldOk
      <4>5. /\ transition[t].after.generation \in Nat /\ transition[t].before.generation \in Nat
            /\ \A v \in Transitions : accountVersion[v].generation \in Nat
        BY DEF Inv, TypeOK, TransitionRows, Snapshots
      <4> QED BY <4>1, <4>2, <4>3, <4>4, <4>5
    <3>3. account'[a].state = "active" =>
            /\ CommittedAs(account[a].authorized, a, account[a].snapshot)'
            /\ \A v \in Transitions : VersionOf(v, a)' =>
                  accountVersion'[v].generation <= account'[a].snapshot.generation
      BY <3>2, <1>1, <1>2, <1>3, <1>0 DEF CommittedAs, Observes
    <3> QED BY <3>1, <3>3, <1>1 DEF AccountOk
  <2>2. ASSUME NEW b \in Accounts, b # a PROVE AccountOk(b)'
    BY <2>2, <1>0, <1>1, ObservedAccount
  <2> QED BY <2>1, <2>2
<1>9. DeletedMeansErased' /\ PermitOk'
  <2>1. \A k \in LocatorKind : /\ cleanup[t][k] \in {"none", "provisional"}
                               /\ cleanup'[t][k] \in {"none", "ready"}
    <3>1. \A k \in LocatorKind :
             cleanup[t][k] \in {"none", "provisional", "ready", "claimed", "deleted"}
      BY DEF Inv, TypeOK
    <3>2. \A k \in LocatorKind : cleanup[t][k] \in {"none", "provisional"}
      BY <3>1, <1>1 DEF Inv, RowsInv, CleanupOk
    <3>3. \A k \in LocatorKind : cleanup'[t][k] \in {"none", "ready"}
      BY DEF Finalize, ReadyCleanup, Inv, TypeOK
    <3> QED BY <3>2, <3>3
  <2>2. \A v \in Transitions : v # t => cleanup'[v] = cleanup[v]
    BY DEF Finalize, Inv, TypeOK
  <2>3. erased' = erased /\ permit' = permit
    BY DEF Finalize
  <2> QED BY <2>1, <2>2, <2>3 DEF DeletedMeansErased, PermitOk, Inv
<1> QED BY <1>1, <1>3, <1>4, <1>5, <1>6, <1>7, <1>8, <1>9 DEF Inv, RowsInv

\* abort_transition restores exactly the snapshot the account had before: the
\* version row of its generation is the one it stood on.
LEMMA RestoredIsBefore ==
  ASSUME Inv, NEW t \in Transitions, Open(t), transition[t].kind # "create"
  PROVE  /\ Restored(t).state = "active" /\ Restored(t).active = None
         /\ Restored(t).snapshot = transition[t].before
         /\ CommittedAs(Restored(t).authorized, transition[t].account, transition[t].before)
         /\ Restored(t) \in AccountRows
<1> DEFINE P(u) == /\ transition[u].account = transition[t].account
                   /\ accountVersion[u] # NoSnapshot
                   /\ accountVersion[u].generation = transition[t].before.generation
<1>1. PICK w \in Transitions : CommittedAs(w, transition[t].account, transition[t].before)
  <2>1. HeldOk(t) /\ InFlight(t)
    BY DEF Inv, RowsInv, InFlight
  <2> QED BY <2>1 DEF HeldOk
<1>2. NoSnapshot.generation = 0 /\ transition[t].account \in Accounts
  BY OpenFacts DEF NoSnapshot, Snapshot
<1>3. P(w) /\ VersionOf(w, transition[t].account)
  BY <1>1, <1>2 DEF CommittedAs, VersionOf, Stored
<1>4. \A u \in Transitions : P(u) => u = w
  <2> SUFFICES ASSUME NEW u \in Transitions, P(u) PROVE u = w
    OBVIOUS
  <2>1. Stored(u)
    <3> SUFFICES ASSUME ~Stored(u) PROVE FALSE
      OBVIOUS
    <3>1. transition[u].committed = FALSE
      BY DEF Inv, RowsInv, RowOk, NoTransition
    <3> QED BY <3>1 DEF Inv, RowsInv, RowOk
  <2>2. VersionOf(u, transition[t].account)
    BY <2>1 DEF VersionOf
  <2> QED BY <1>2, <1>3, <2>2 DEF Inv, RowsInv, OneVersionEach
<1>5. (CHOOSE u \in Transitions : P(u)) = w
  BY <1>3, <1>4
<1>6. Restored(t) = [state |-> "active", snapshot |-> accountVersion[w], authorized |-> w,
                     active |-> None]
  BY <1>5 DEF Restored, AbortedGeneration
<1>7. accountVersion[w] = transition[t].before /\ accountVersion[w] \in Snapshots
  BY <1>1 DEF CommittedAs, Inv, TypeOK
<1> QED BY <1>1, <1>6, <1>7 DEF AccountRows, AccountStates

LEMMA AbortEffect ==
  ASSUME Inv, NEW t \in Transitions, NEW pair, Abort(t, pair)
  PROVE  LET a == transition[t].account
         IN  /\ Observes(t) /\ TypeOK'
             /\ transition[t].state = "prepared" /\ transition'[t].state = "aborted"
             /\ ~transition[t].committed /\ transition'[t].committed = transition[t].committed
             /\ UNCHANGED <<accountVersion, cleanup, erased, permit>>
             /\ store'.state = "active" /\ store'.pair = store.pair
             /\ store.state # "recovery_required"
             /\ account'[a].active = None
             /\ \/ account'[a].state = "removed" /\ account'[a].snapshot = account[a].snapshot
                \/ /\ account'[a].state = "active"
                   /\ account'[a].snapshot = transition[t].before
                   /\ CommittedAs(account'[a].authorized, a, transition[t].before)
<1>0. PICK a : a = transition[t].account
  OBVIOUS
<1>1. transition[t].state = "prepared" /\ Open(t)
  BY DEF Abort, Open
<1>2. /\ a \in Accounts /\ account[a].authorized = t
      /\ \A v \in Transitions : InFlight(v) <=> v = t
  BY <1>0, <1>1, OpenFacts
<1>3. /\ \A v \in Transitions : v # t => transition'[v] = transition[v]
      /\ transition'[t].state = "aborted" /\ transition'[t].committed = transition[t].committed
      /\ transition'[t].kind = transition[t].kind
      /\ transition'[t].account = transition[t].account
      /\ transition'[t].before = transition[t].before
      /\ transition'[t].after = transition[t].after
      /\ transition'[t].next = transition[t].next
  BY DEF Abort, UpdateAbortRows, Inv, TypeOK, TransitionRows
<1>4. transition' \in [Transitions -> TransitionRows]
  <2>1. transition[t] \in TransitionRows
    BY DEF Inv, TypeOK
  <2>2. [transition[t] EXCEPT !.state = "aborted"] \in TransitionRows
    BY <2>1 DEF TransitionRows, TransitionStates
  <2> QED BY <2>2 DEF Abort, UpdateAbortRows, Inv, TypeOK
<1>5. PICK row : row = IF transition[t].kind = "create"
                       THEN [account[a] EXCEPT !.state = "removed", !.active = None]
                       ELSE Restored(t)
  OBVIOUS
<1>6. account[a] \in AccountRows
  BY <1>2 DEF Inv, TypeOK
<1>7. /\ row \in AccountRows /\ row.active = None /\ row.authorized \in Transitions
      /\ \/ row.state = "removed" /\ row.snapshot = account[a].snapshot
         \/ /\ row.state = "active" /\ row.snapshot = transition[t].before
            /\ CommittedAs(row.authorized, a, transition[t].before)
  <2>1. CASE transition[t].kind = "create"
    <3>1. row = [account[a] EXCEPT !.state = "removed", !.active = None]
      BY <2>1, <1>5
    <3> QED BY <3>1, <1>2, <1>6 DEF AccountRows, AccountStates
  <2>2. CASE transition[t].kind # "create"
    <3>1. row = Restored(t)
      BY <2>2, <1>5
    <3> QED BY <3>1, <2>2, <1>0, <1>1, RestoredIsBefore DEF CommittedAs
  <2> QED BY <2>1, <2>2
<1>8. account' = [account EXCEPT ![a] = row]
  BY <1>0, <1>2, <1>5 DEF Abort, UpdateAbortRows, Inv, TypeOK
<1>9. /\ account' \in [Accounts -> AccountRows] /\ account'[a] = row
      /\ \A b \in Accounts : b # a => account'[b] = account[b]
  BY <1>2, <1>7, <1>8 DEF Inv, TypeOK
<1>10. \A b \in Accounts :
          /\ account'[b].active # None <=> account'[b].state \in {"proposed", "blocked"}
          /\ account'[b].state # "absent" => account'[b].authorized \in Transitions
  <2>1. ASSUME NEW b \in Accounts, b # a
        PROVE  /\ account'[b].active # None <=> account'[b].state \in {"proposed", "blocked"}
               /\ account'[b].state # "absent" => account'[b].authorized \in Transitions
    BY <2>1, <1>9 DEF Inv, TypeOK
  <2>2. /\ account'[a].active # None <=> account'[a].state \in {"proposed", "blocked"}
        /\ account'[a].state # "absent" => account'[a].authorized \in Transitions
    BY <1>7, <1>9
  <2> QED BY <2>1, <2>2
<1>11. \A v \in Transitions :
         /\ transition'[v].state \in {"config_committed", "finalized"} => transition'[v].committed
         /\ transition'[v].state \in {"prepared", "aborted"} => ~transition'[v].committed
  BY <1>1, <1>3 DEF Inv, TypeOK
<1>12. /\ store'.state = "active" /\ store'.pair = store.pair
       /\ store' \in [state : {"active", "blocked", "recovery_required"},
                      pair : [generation : Nat \ {0}, content : Contents]]
  BY DEF Abort, UpdateAbortRows, Inv, TypeOK
<1>13. UNCHANGED <<storeVersion, accountVersion, cleanup, erased, permit>>
  BY DEF Abort
<1>14. TypeOK'
  BY <1>4, <1>9, <1>10, <1>11, <1>12, <1>13 DEF Inv, TypeOK, CleanupIds
<1>15. Observes(t)
  BY <1>0, <1>1, <1>3, <1>9, <1>13 DEF Observes
<1>16. ~transition[t].committed /\ store.state # "recovery_required"
  BY <1>1, <1>2 DEF Inv, TypeOK, RowsInv, StoreOk, InFlight
<1> QED BY <1>0, <1>1, <1>3, <1>7, <1>9, <1>12, <1>13, <1>14, <1>15, <1>16

LEMMA AbortKeepsInv ==
  ASSUME Inv, NEW t \in Transitions, NEW pair, Abort(t, pair), permit = None
  PROVE  Inv'
<1>0. PICK a : a = transition[t].account
  OBVIOUS
<1>1. /\ Observes(t) /\ TypeOK'
      /\ transition[t].state = "prepared" /\ transition'[t].state = "aborted"
      /\ ~transition[t].committed /\ transition'[t].committed = transition[t].committed
      /\ UNCHANGED <<accountVersion, cleanup, erased, permit>>
      /\ store'.state = "active" /\ store'.pair = store.pair
      /\ store.state # "recovery_required"
      /\ account'[a].active = None
      /\ \/ account'[a].state = "removed" /\ account'[a].snapshot = account[a].snapshot
         \/ /\ account'[a].state = "active"
            /\ account'[a].snapshot = transition[t].before
            /\ CommittedAs(account'[a].authorized, a, transition[t].before)
  BY <1>0, AbortEffect
<1>2. /\ t # None /\ Stored(t) /\ RowShape(t) /\ a \in Accounts
      /\ account[a].snapshot = transition[t].after
      /\ InFlight(t)
  BY <1>0, <1>1, OpenFacts DEF Open
<1>3. /\ RowOk(t)' /\ OneVersionEach' /\ PairFollowsCommits'
      /\ \A v \in Transitions, b \in Accounts : VersionOf(v, b)' <=> VersionOf(v, b)
  BY <1>1, EndingKeeps
<1>4. (\A v \in Transitions : HeldOk(v)') /\ OneInFlight' /\ StoreOk'
  BY <1>1, EndingOpens
<1>5. \A v \in Transitions : RowOk(v)'
  BY <1>1, <1>3, ObservedRow
<1>6. \A v \in Transitions : CleanupOk(v)'
  <2>1. CleanupOk(t)'
    BY <1>1, <1>2, ObservedStored DEF Inv, RowsInv, CleanupOk, Observes
  <2>2. ASSUME NEW v \in Transitions, v # t PROVE CleanupOk(v)'
    BY <2>2, <1>1, ObservedStored DEF Inv, RowsInv, CleanupOk, Observes
  <2> QED BY <2>1, <2>2
<1>7. \A v \in Transitions : EndOk(v)'
  <2>1. EndOk(t)'
    BY <1>1 DEF EndOk
  <2>2. ASSUME NEW v \in Transitions, v # t PROVE EndOk(v)'
    BY <2>2, <1>0, <1>1, ObservedEnd
  <2> QED BY <2>1, <2>2
<1>8. \A b \in Accounts : AccountOk(b)'
  <2>1. AccountOk(a)'
    <3>1. Known(transition[t].before.credential) /\ Known(account[a].snapshot.credential)
      BY <1>2 DEF RowShape, Inv, RowsInv, AccountOk
    <3>2. Known(account[a].snapshot.credential)'
      BY <3>1, <1>1, ObservedStored
    <3>3. ASSUME account'[a].state = "active"
          PROVE  /\ CommittedAs(account[a].authorized, a, account[a].snapshot)'
                 /\ \A v \in Transitions : VersionOf(v, a)' =>
                       accountVersion'[v].generation <= account'[a].snapshot.generation
      <4>1. /\ account'[a].snapshot = transition[t].before
            /\ CommittedAs(account'[a].authorized, a, transition[t].before)
        BY <3>3, <1>1
      <4>2. CommittedAs(account[a].authorized, a, account[a].snapshot)'
        BY <4>1, <1>1 DEF CommittedAs, Observes, Open
      <4>3. accountVersion[t] = NoSnapshot
        BY <1>1 DEF Inv, RowsInv, RowOk
      <4>4. \A v \in Transitions : VersionOf(v, a)' => VersionOf(v, a) /\ v # t
        BY <4>3, <1>2, <1>3 DEF VersionOf
      <4>5. \A v \in Transitions : VersionOf(v, a)' =>
               accountVersion[v].generation <= transition[t].before.generation
        BY <4>4, <1>0, <1>2 DEF Inv, RowsInv, HeldOk
      <4> QED BY <4>1, <4>2, <4>5, <1>1
    <3> QED BY <3>2, <3>3, <1>1 DEF AccountOk
  <2>2. ASSUME NEW b \in Accounts, b # a PROVE AccountOk(b)'
    BY <2>2, <1>0, <1>1, ObservedAccount
  <2> QED BY <2>1, <2>2
<1>9. DeletedMeansErased' /\ PermitOk'
  BY <1>1 DEF DeletedMeansErased, PermitOk, Inv
<1> QED BY <1>1, <1>3, <1>4, <1>5, <1>6, <1>7, <1>8, <1>9 DEF Inv, RowsInv

\* A pair the caller can have observed has the shape of one.
LEMMA ObservedPairShape ==
  ObservedPairs \subseteq [generation : Nat \ {0}, content : Contents]
<1>1. Cardinality(Transitions) \in Nat
  BY TransitionsAssumption, FS_CardinalityType
<1> QED BY <1>1 DEF ObservedPairs, Pair

\* commit_account_recovery.
LEMMA RecoveryEffect ==
  ASSUME Inv, NEW t \in Transitions, NEW pair \in ObservedPairs, EnterRecovery(t, pair)
  PROVE  LET a == transition[t].account
         IN  /\ Observes(t) /\ TypeOK'
             /\ transition'[t].state = "recovery_required"
             /\ transition'[t].committed = transition[t].committed
             /\ UNCHANGED <<accountVersion, cleanup, erased, permit>>
             /\ store'.state = "recovery_required"
             /\ account'[a].active = t /\ account'[a].state = "blocked"
             /\ account'[a].snapshot = account[a].snapshot
             /\ account'[a].authorized = account[a].authorized
<1>0. PICK a : a = transition[t].account
  OBVIOUS
<1>1. Open(t)
  BY DEF EnterRecovery, Unsafe, Open
<1>2. a \in Accounts /\ account[a].authorized = t /\ account[a].active = t /\ t # None
  BY <1>0, <1>1, OpenFacts
<1>3. /\ \A v \in Transitions : v # t => transition'[v] = transition[v]
      /\ transition'[t].state = "recovery_required"
      /\ transition'[t].committed = transition[t].committed
      /\ transition'[t].kind = transition[t].kind
      /\ transition'[t].account = transition[t].account
      /\ transition'[t].before = transition[t].before
      /\ transition'[t].after = transition[t].after
      /\ transition'[t].next = transition[t].next
  BY DEF EnterRecovery, Inv, TypeOK, TransitionRows
<1>4. transition' \in [Transitions -> TransitionRows]
  <2>1. transition[t] \in TransitionRows
    BY DEF Inv, TypeOK
  <2>2. [transition[t] EXCEPT !.state = "recovery_required"] \in TransitionRows
    BY <2>1 DEF TransitionRows, TransitionStates
  <2> QED BY <2>2 DEF EnterRecovery, Inv, TypeOK
<1>5. account[a] \in AccountRows
  BY <1>2 DEF Inv, TypeOK
<1>6. PICK row : row = [account[a] EXCEPT !.state = "blocked"]
  OBVIOUS
<1>7. /\ row \in AccountRows /\ row.state = "blocked" /\ row.active = t
      /\ row.snapshot = account[a].snapshot /\ row.authorized = account[a].authorized
  BY <1>2, <1>5, <1>6 DEF AccountRows, AccountStates
<1>8. account' = [account EXCEPT ![a] = row]
  BY <1>0, <1>2, <1>6 DEF EnterRecovery, Inv, TypeOK
<1>9. /\ account' \in [Accounts -> AccountRows] /\ account'[a] = row
      /\ \A b \in Accounts : b # a => account'[b] = account[b]
  BY <1>2, <1>7, <1>8 DEF Inv, TypeOK
<1>10. \A b \in Accounts :
          /\ account'[b].active # None <=> account'[b].state \in {"proposed", "blocked"}
          /\ account'[b].state # "absent" => account'[b].authorized \in Transitions
  <2>1. ASSUME NEW b \in Accounts, b # a
        PROVE  /\ account'[b].active # None <=> account'[b].state \in {"proposed", "blocked"}
               /\ account'[b].state # "absent" => account'[b].authorized \in Transitions
    BY <2>1, <1>9 DEF Inv, TypeOK
  <2>2. /\ account'[a].active # None <=> account'[a].state \in {"proposed", "blocked"}
        /\ account'[a].state # "absent" => account'[a].authorized \in Transitions
    BY <1>2, <1>7, <1>9
  <2> QED BY <2>1, <2>2
<1>11. \A v \in Transitions :
         /\ transition'[v].state \in {"config_committed", "finalized"} => transition'[v].committed
         /\ transition'[v].state \in {"prepared", "aborted"} => ~transition'[v].committed
  BY <1>3 DEF Inv, TypeOK
<1>12. /\ store'.state = "recovery_required"
       /\ store' \in [state : {"active", "blocked", "recovery_required"},
                      pair : [generation : Nat \ {0}, content : Contents]]
  BY ObservedPairShape DEF EnterRecovery
<1>13. UNCHANGED <<storeVersion, accountVersion, cleanup, erased, permit>>
  BY DEF EnterRecovery
<1>14. TypeOK'
  BY <1>4, <1>9, <1>10, <1>11, <1>12, <1>13 DEF Inv, TypeOK, CleanupIds
<1>15. Observes(t)
  BY <1>0, <1>1, <1>3, <1>9, <1>13 DEF Observes
<1> QED BY <1>0, <1>3, <1>7, <1>9, <1>12, <1>13, <1>14, <1>15

LEMMA RecoveryKeepsInv ==
  ASSUME Inv, NEW t \in Transitions, NEW pair \in ObservedPairs, EnterRecovery(t, pair),
         permit = None
  PROVE  Inv'
<1>0. PICK a : a = transition[t].account
  OBVIOUS
<1>1. /\ Observes(t) /\ TypeOK'
      /\ transition'[t].state = "recovery_required"
      /\ transition'[t].committed = transition[t].committed
      /\ UNCHANGED <<accountVersion, cleanup, erased, permit>>
      /\ store'.state = "recovery_required"
      /\ account'[a].active = t /\ account'[a].state = "blocked"
      /\ account'[a].snapshot = account[a].snapshot
      /\ account'[a].authorized = account[a].authorized
  BY <1>0, RecoveryEffect
<1>2. /\ t # None /\ Stored(t) /\ RowShape(t) /\ a \in Accounts /\ Open(t)
      /\ account[a].authorized = t /\ account[a].snapshot = transition[t].after
      /\ \A v \in Transitions : InFlight(v) <=> v = t
  BY <1>0, <1>1, OpenFacts DEF Observes
<1>3. /\ RowOk(t)' /\ OneVersionEach' /\ PairFollowsCommits'
      /\ \A v \in Transitions, b \in Accounts : VersionOf(v, b)' <=> VersionOf(v, b)
  BY <1>1, EndingKeeps
<1>4. \A v \in Transitions : InFlight(v)' <=> v = t
  BY <1>1, <1>2 DEF InFlight, Open, Observes
<1>5. \A v \in Transitions : RowOk(v)'
  BY <1>1, <1>3, ObservedRow
<1>6. \A v \in Transitions : CleanupOk(v)'
  <2>1. CleanupOk(t)'
    BY <1>1, <1>2, ObservedStored DEF Inv, RowsInv, CleanupOk, Observes, Open
  <2>2. ASSUME NEW v \in Transitions, v # t PROVE CleanupOk(v)'
    BY <2>2, <1>1, ObservedStored DEF Inv, RowsInv, CleanupOk, Observes
  <2> QED BY <2>1, <2>2
<1>7. \A v \in Transitions : EndOk(v)'
  <2>1. EndOk(t)'
    BY <1>1 DEF EndOk
  <2>2. ASSUME NEW v \in Transitions, v # t PROVE EndOk(v)'
    BY <2>2, <1>0, <1>1, ObservedEnd
  <2> QED BY <2>1, <2>2
<1>8. \A v \in Transitions : HeldOk(v)'
  <2> SUFFICES HeldOk(t)'
    BY <1>4 DEF HeldOk
  <2>1. HeldOk(t) /\ InFlight(t)
    BY <1>2 DEF Inv, RowsInv
  <2>2. \A v \in Transitions : v # t /\ VersionOf(v, a)' =>
              accountVersion'[v].generation <= transition[t].before.generation
    BY <1>0, <1>1, <1>2, <1>3, <2>1 DEF HeldOk
  <2>3. transition[t].kind # "create" =>
              \E u \in Transitions : CommittedAs(u, a, transition[t].before)'
    <3> SUFFICES ASSUME transition[t].kind # "create"
                 PROVE  \E u \in Transitions : CommittedAs(u, a, transition[t].before)'
      OBVIOUS
    <3>1. PICK u \in Transitions : CommittedAs(u, a, transition[t].before)
      BY <2>1, <1>0 DEF HeldOk
    <3>2. CommittedAs(u, a, transition[t].before)'
      BY <3>1, <1>1 DEF CommittedAs, Observes, Open
    <3> QED BY <3>2
  <2> QED BY <2>2, <2>3, <1>0, <1>1, <1>2 DEF HeldOk, Observes
<1>9. \A b \in Accounts : AccountOk(b)'
  <2>1. AccountOk(a)'
    <3>1. Known(account[a].snapshot.credential)'
      BY <1>1, <1>2, ObservedStored DEF Inv, RowsInv, AccountOk
    <3>2. transition'[t].account = a
      BY <1>0, <1>1 DEF Observes
    <3> QED BY <3>1, <3>2, <1>1, <1>4 DEF AccountOk, Observes
  <2>2. ASSUME NEW b \in Accounts, b # a PROVE AccountOk(b)'
    BY <2>2, <1>0, <1>1, ObservedAccount
  <2> QED BY <2>1, <2>2
<1>10. OneInFlight'
  BY <1>4 DEF OneInFlight
<1>11. StoreOk'
  <2>1. \A v \in Transitions : ~Open(v)' /\ transition'[v].state # "prepared"
    BY <1>1, <1>4 DEF InFlight, Open
  <2> QED BY <2>1, <1>1 DEF StoreOk
<1>12. DeletedMeansErased' /\ PermitOk'
  BY <1>1 DEF DeletedMeansErased, PermitOk, Inv
<1> QED BY <1>1, <1>3, <1>5, <1>6, <1>7, <1>8, <1>9, <1>10, <1>11, <1>12 DEF Inv, RowsInv

-----------------------------------------------------------------------------
(* Credential cleanup, and the calls that touch no row.                      *)

\* A step that leaves the store, account, transition and version rows alone.
LEMMA RowsUnchanged ==
  ASSUME Inv, UNCHANGED <<store, account, transition, storeVersion, accountVersion>>,
         \A v \in Transitions : CleanupOk(v)'
  PROVE  RowsInv' /\ PairFollowsCommits'
<1>1. \A v \in Transitions : RowOk(v)' /\ HeldOk(v)' /\ EndOk(v)'
  BY DEF Inv, RowsInv, RowOk, RowShape, HeldOk, EndOk, Stored, Known, InFlight, Open,
         VersionOf, CommittedAs, Live
<1>2. \A b \in Accounts : AccountOk(b)'
  BY DEF Inv, RowsInv, AccountOk, Stored, Known, InFlight, Open, VersionOf, CommittedAs
<1>3. OneInFlight' /\ OneVersionEach'
  BY DEF Inv, RowsInv, OneInFlight, OneVersionEach, InFlight, Open, VersionOf, Stored
<1>4. StoreOk' /\ PairFollowsCommits'
  BY DEF Inv, RowsInv, StoreOk, Open, PairFollowsCommits
<1> QED BY <1>1, <1>2, <1>3, <1>4 DEF RowsInv

LEMMA ClaimKeepsInv ==
  ASSUME Inv, NEW t \in Transitions, NEW k \in LocatorKind, ClaimCleanup(t, k)
  PROVE  Inv'
<1>1. /\ UNCHANGED <<store, account, transition, storeVersion, accountVersion, erased>>
      /\ cleanup[t][k] = "ready" /\ transition[t].state = "finalized"
      /\ permit' = <<t, k>>
  BY DEF ClaimCleanup, Claimable
<1>2. /\ cleanup'[t][k] = "claimed"
      /\ \A v \in Transitions, l \in LocatorKind :
            v # t \/ l # k => cleanup'[v][l] = cleanup[v][l]
      /\ cleanup' \in [Transitions -> [LocatorKind ->
                          {"none", "provisional", "ready", "claimed", "deleted"}]]
  BY DEF ClaimCleanup, Inv, TypeOK
<1>3. TypeOK'
  BY <1>1, <1>2 DEF Inv, TypeOK, CleanupIds
<1>4. \A v \in Transitions : CleanupOk(v)'
  <2>1. CleanupOk(t)'
    BY <1>1, <1>2 DEF Inv, RowsInv, CleanupOk, Stored
  <2>2. ASSUME NEW v \in Transitions, v # t PROVE CleanupOk(v)'
    BY <2>2, <1>1, <1>2 DEF Inv, RowsInv, CleanupOk, Stored
  <2> QED BY <2>1, <2>2
<1>5. RowsInv' /\ PairFollowsCommits'
  BY <1>1, <1>4, RowsUnchanged
<1>6. DeletedMeansErased'
  <2>1. <<t, k>> \notin erased
    BY <1>1 DEF Inv, DeletedMeansErased
  <2>2. ASSUME NEW v \in Transitions, NEW l \in LocatorKind
        PROVE  /\ cleanup'[v][l] = "deleted" => <<v, l>> \in erased
               /\ <<v, l>> \in erased => cleanup'[v][l] \in {"claimed", "deleted"}
    <3>1. CASE v = t /\ l = k
      BY <3>1, <2>1, <1>2
    <3>2. CASE v # t \/ l # k
      BY <3>2, <1>2 DEF Inv, DeletedMeansErased
    <3> QED BY <3>1, <3>2
  <2> QED BY <2>2, <1>1 DEF DeletedMeansErased
<1>7. PermitOk'
  BY <1>1, <1>2 DEF PermitOk
<1> QED BY <1>3, <1>5, <1>6, <1>7 DEF Inv

\* apply_credential_cleanup_delete, committed.
LEMMA DeleteKeepsInv ==
  ASSUME Inv, permit # None, DeleteCleanup
  PROVE  Inv'
<1>1. PICK t \in Transitions, k \in LocatorKind : permit = <<t, k>>
  BY DEF Inv, TypeOK, CleanupIds
<1>2. cleanup[t][k] = "claimed" /\ transition[t].state = "finalized"
  BY <1>1 DEF Inv, PermitOk, RowsInv, CleanupOk
<1>3. /\ UNCHANGED <<store, account, transition, storeVersion, accountVersion>>
      /\ erased' = erased \cup {<<t, k>>} /\ permit' = None
  BY <1>1 DEF DeleteCleanup
<1>4. /\ cleanup'[t][k] = "deleted"
      /\ \A v \in Transitions, l \in LocatorKind :
            v # t \/ l # k => cleanup'[v][l] = cleanup[v][l]
      /\ cleanup' \in [Transitions -> [LocatorKind ->
                          {"none", "provisional", "ready", "claimed", "deleted"}]]
  BY <1>1 DEF DeleteCleanup, Inv, TypeOK
<1>5. TypeOK'
  BY <1>3, <1>4 DEF Inv, TypeOK, CleanupIds
<1>6. \A v \in Transitions : CleanupOk(v)'
  <2>1. CleanupOk(t)'
    BY <1>2, <1>3, <1>4 DEF Inv, RowsInv, CleanupOk, Stored
  <2>2. ASSUME NEW v \in Transitions, v # t PROVE CleanupOk(v)'
    BY <2>2, <1>3, <1>4 DEF Inv, RowsInv, CleanupOk, Stored
  <2> QED BY <2>1, <2>2
<1>7. RowsInv' /\ PairFollowsCommits'
  BY <1>3, <1>6, RowsUnchanged
<1>8. DeletedMeansErased'
  <2>1. ASSUME NEW v \in Transitions, NEW l \in LocatorKind
        PROVE  /\ cleanup'[v][l] = "deleted" => <<v, l>> \in erased'
               /\ <<v, l>> \in erased' => cleanup'[v][l] \in {"claimed", "deleted"}
    <3>1. CASE v = t /\ l = k
      BY <3>1, <1>3, <1>4
    <3>2. CASE v # t \/ l # k
      BY <3>2, <1>3, <1>4 DEF Inv, DeletedMeansErased
    <3> QED BY <3>1, <3>2
  <2> QED BY <2>1 DEF DeletedMeansErased
<1>9. PermitOk'
  BY <1>3 DEF PermitOk
<1> QED BY <1>5, <1>7, <1>8, <1>9 DEF Inv

\* A step that moves no row: the permit taken again or dropped, the keyring
\* entry erased without the commit, a call about another store.
LEMMA QuietKeepsInv ==
  ASSUME Inv, UNCHANGED <<store, account, transition, storeVersion, accountVersion, cleanup>>,
         permit' = None \/ \E t \in Transitions, k \in LocatorKind :
                              permit' = <<t, k>> /\ cleanup[t][k] = "claimed",
         erased' = erased \/ (permit # None /\ erased' = erased \cup {permit})
  PROVE  Inv'
<1>1. erased' \subseteq CleanupIds /\ permit' \in CleanupIds \cup {None}
  BY DEF Inv, TypeOK, CleanupIds
<1>2. TypeOK'
  BY <1>1 DEF Inv, TypeOK, CleanupIds
<1>3. \A v \in Transitions : CleanupOk(v)'
  BY DEF Inv, RowsInv, CleanupOk, Stored
<1>4. RowsInv' /\ PairFollowsCommits'
  BY <1>3, RowsUnchanged
<1>5. DeletedMeansErased'
  <2>1. CASE erased' = erased
    BY <2>1 DEF Inv, DeletedMeansErased
  <2>2. CASE permit # None /\ erased' = erased \cup {permit}
    <3>1. PICK t \in Transitions, k \in LocatorKind : permit = <<t, k>> /\ cleanup[t][k] = "claimed"
      BY <2>2 DEF Inv, TypeOK, CleanupIds, PermitOk
    <3>2. ASSUME NEW v \in Transitions, NEW l \in LocatorKind
          PROVE  /\ cleanup'[v][l] = "deleted" => <<v, l>> \in erased'
                 /\ <<v, l>> \in erased' => cleanup'[v][l] \in {"claimed", "deleted"}
      <4>1. CASE v = t /\ l = k
        BY <4>1, <2>2, <3>1
      <4>2. CASE v # t \/ l # k
        BY <4>2, <2>2, <3>1 DEF Inv, DeletedMeansErased
      <4> QED BY <4>1, <4>2
    <3> QED BY <3>2 DEF DeletedMeansErased
  <2> QED BY <2>1, <2>2
<1>6. PermitOk'
  BY DEF PermitOk
<1> QED BY <1>2, <1>4, <1>5, <1>6 DEF Inv

-----------------------------------------------------------------------------
(* The invariant of the specification.                                       *)

LEMMA InitInv == Init => Inv
<1> SUFFICES ASSUME Init PROVE Inv
  OBVIOUS
<1>1. /\ NoSnapshot \in Snapshots /\ NoPair \in Pairs
      /\ NoSnapshot.credential = None
  BY DEF NoSnapshot, Snapshot, Snapshots, NoPair, Pair, Pairs
<1>2. NoAccount \in AccountRows /\ NoAccount.state = "absent" /\ NoAccount.active = None
      /\ NoAccount.snapshot = NoSnapshot
  BY <1>1 DEF NoAccount, AccountRows, AccountStates
<1>3. NoTransition \in TransitionRows /\ NoTransition.state = "absent"
      /\ NoTransition.committed = FALSE
  BY <1>1 DEF NoTransition, TransitionRows, TransitionStates
<1>4. InitialPair \in [generation : Nat \ {0}, content : Contents] /\ InitialPair.generation = 1
  BY TransitionsAssumption DEF InitialPair, Pair
<1>5. TypeOK
  BY <1>1, <1>2, <1>3, <1>4 DEF Init, TypeOK, CleanupIds
<1>6. \A t \in Transitions :
         /\ transition[t] = NoTransition /\ accountVersion[t] = NoSnapshot
         /\ \A k \in LocatorKind : cleanup[t][k] = "none"
  BY DEF Init
<1>7. \A t \in Transitions : RowOk(t) /\ CleanupOk(t) /\ HeldOk(t) /\ EndOk(t)
  BY <1>3, <1>6 DEF RowOk, CleanupOk, HeldOk, EndOk, InFlight, Open, Stored
<1>8. \A a \in Accounts : AccountOk(a)
  <2>1. Known(None)
    BY TransitionsAssumption DEF Known
  <2>2. \A a \in Accounts : account[a] = NoAccount
    BY DEF Init
  <2> QED BY <1>1, <1>2, <1>3, <1>6, <2>1, <2>2 DEF AccountOk, Stored
<1>9. OneInFlight /\ OneVersionEach /\ StoreOk
  BY <1>3, <1>6 DEF OneInFlight, OneVersionEach, StoreOk, InFlight, Open, VersionOf, Init
<1>10. PairFollowsCommits
  <2>1. {t \in Transitions : transition[t].committed} = {}
    BY <1>3, <1>6
  <2>2. store.pair = InitialPair /\ Cardinality({}) = 0
    BY FS_EmptySet DEF Init
  <2> QED BY <1>4, <2>1, <2>2 DEF PairFollowsCommits
<1>11. DeletedMeansErased /\ PermitOk
  BY <1>6 DEF DeletedMeansErased, PermitOk, Init
<1> QED BY <1>5, <1>7, <1>8, <1>9, <1>10, <1>11 DEF Inv, RowsInv

LEMMA PrepareKeepsInv ==
  ASSUME Inv, permit = None, NEW t, NEW k, NEW a, NEW before, NEW c, NEW ls,
         Prepares(t, k, a, before, c, ls)
  PROVE  Inv'
BY PrepareTypes, PrepareRowsInv, PrepareOthers DEF Inv

LEMMA NextInv == Inv /\ [Next]_vars => Inv'
<1> SUFFICES ASSUME Inv, [Next]_vars PROVE Inv'
  OBVIOUS
<1>1. ASSUME permit = None, NEW t \in Transitions, NEW a \in Accounts, NEW c \in Contents,
             PrepareCreate(t, a, c)
      PROVE  Inv'
  <2>1. Prepares(t, "create", a, NoSnapshot, c, {})
    BY <1>1 DEF PrepareCreate, Prepares
  <2> QED BY <1>1, <2>1, PrepareKeepsInv
<1>2. ASSUME permit = None, NEW t \in Transitions, NEW a \in Accounts, NEW c \in Contents,
             NEW k \in {"set", "delete"}, PrepareCredential(t, k, a, c)
      PROVE  Inv'
  <2>1. Prepares(t, k, a, account[a].snapshot, c, {})
    BY <1>2 DEF PrepareCredential, Prepares, AccountTransitionKind
  <2> QED BY <1>2, <2>1, PrepareKeepsInv
<1>3. ASSUME permit = None, NEW t \in Transitions, NEW a \in Accounts, NEW c \in Contents,
             NEW k \in {"update", "remove"}, NEW ls \in SUBSET LocatorKind,
             PrepareReplacement(t, k, a, c, ls)
      PROVE  Inv'
  <2>1. Prepares(t, k, a, account[a].snapshot, c, ls)
    BY <1>3 DEF PrepareReplacement, Prepares, AccountTransitionKind
  <2> QED BY <1>3, <2>1, PrepareKeepsInv
<1>4. ASSUME permit = None, NEW t \in Transitions, NEW pair \in ObservedPairs,
             \/ MarkConfigCommitted(t, pair) \/ Finalize(t, pair)
             \/ Abort(t, pair) \/ EnterRecovery(t, pair)
      PROVE  Inv'
  BY <1>4, MarkKeepsInv, FinalizeKeepsInv, AbortKeepsInv, RecoveryKeepsInv
<1>5. ASSUME NEW t \in Transitions, NEW k \in LocatorKind, ClaimCleanup(t, k)
      PROVE  Inv'
  BY <1>5, ClaimKeepsInv
<1>6. ASSUME NEW t \in Transitions, NEW k \in LocatorKind, ReclaimCleanup(t, k)
      PROVE  Inv'
  BY <1>6, QuietKeepsInv DEF ReclaimCleanup
<1>7. ASSUME permit = None, OtherCall
      PROVE  Inv'
  BY <1>7, QuietKeepsInv DEF OtherCall
<1>8. ASSUME permit # None, DeleteCleanup PROVE Inv'
  BY <1>8, DeleteKeepsInv
<1>9. ASSUME permit # None, EraseAndCrash PROVE Inv'
  BY <1>9, QuietKeepsInv DEF EraseAndCrash
<1>10. ASSUME DropPermit PROVE Inv'
  BY <1>10, QuietKeepsInv DEF DropPermit
<1>11. CASE UNCHANGED vars
  <2>1. \A v \in Transitions : CleanupOk(v)'
    BY <1>11 DEF vars, Inv, RowsInv, CleanupOk, Stored
  <2>2. RowsInv' /\ PairFollowsCommits'
    BY <1>11, <2>1, RowsUnchanged DEF vars
  <2> QED BY <1>11, <2>2 DEF vars, Inv, TypeOK, DeletedMeansErased, PermitOk
<1>12. CASE permit = None /\ ValidHistory /\ Call
  <2>1. permit = None
    BY <1>12
  <2> QED BY <1>12, <2>1, <1>1, <1>2, <1>3, <1>4, <1>5, <1>6, <1>7 DEF Call
<1>13. CASE permit # None /\ Locked
  BY <1>13, <1>8, <1>9, <1>10 DEF Locked
<1> QED BY <1>11, <1>12, <1>13 DEF Next

LEMMA Invariance == Spec => []Inv
BY InitInv, NextInv, PTL DEF Spec

-----------------------------------------------------------------------------
(* What the project claims of account transitions.                           *)

\* Every row keeps the shape the schema demands, for any number of accounts
\* and transitions.
THEOREM TypeCorrect == Spec => []TypeOK
<1>1. Inv => TypeOK
  BY DEF Inv
<1> QED BY <1>1, Invariance, PTL

\* prepare_account_transition and the observations keep one change in flight.
THEOREM OneChangeInFlightHolds == Spec => []OneChangeInFlight
<1>1. ASSUME Inv PROVE OneChangeInFlight
  <2> DEFINE open == {t \in Transitions : Open(t)}
             frozen == {t \in Transitions : transition[t].state = "recovery_required"}
  <2>1. \A t \in Transitions : InFlight(t) <=> t \in open \cup frozen
    BY DEF InFlight
  <2>2. Cardinality(open \cup frozen) <= 1
    <3>1. CASE open \cup frozen = {}
      BY <3>1, FS_EmptySet
    <3>2. CASE open \cup frozen # {}
      <4>1. PICK t \in Transitions : t \in open \cup frozen
        BY <3>2
      <4>2. open \cup frozen = {t}
        BY <4>1, <2>1, <1>1 DEF Inv, RowsInv, OneInFlight
      <4>3. Cardinality({t}) = 1
        BY FS_Singleton
      <4> QED BY <4>2, <4>3
    <3> QED BY <3>1, <3>2
  <2>3. /\ store.state = "blocked" <=> open # {}
        /\ store.state = "recovery_required" <=> frozen # {}
    BY <1>1 DEF Inv, RowsInv, StoreOk
  <2>4. \A a \in Accounts : account[a].active # None =>
           account[a].active \in open \cup frozen /\ transition[account[a].active].account = a
    <3>1. \A a \in Accounts : account[a].active \in Transitions \cup {None}
      BY <1>1 DEF Inv, TypeOK, AccountRows
    <3> QED BY <1>1, <2>1, <3>1 DEF Inv, RowsInv, AccountOk
  <2> HIDE DEF open, frozen
  <2> QED BY <2>2, <2>3, <2>4 DEF OneChangeInFlight, open, frozen
<1> QED BY <1>1, Invariance, PTL

\* The configuration pair of a store that is not frozen counts the commits.
THEOREM PairFollowsCommitsHolds == Spec => []PairFollowsCommits
<1>1. Inv => PairFollowsCommits
  BY DEF Inv
<1> QED BY <1>1, Invariance, PTL

\* An active account is what its last finalized transition committed,
\* whatever update_abort_rows restored in between.
THEOREM ActiveAccountIsCommittedHolds == Spec => []ActiveAccountIsCommitted
<1>1. ASSUME Inv PROVE ActiveAccountIsCommitted
  <2> SUFFICES ASSUME NEW a \in Accounts, account[a].state = "active",
                      NEW u, u = account[a].authorized
               PROVE  /\ transition[u].state = "finalized" /\ transition[u].account = a
                      /\ account[a].snapshot = accountVersion[u]
                      /\ \A t \in Transitions :
                            transition[t].state = "finalized" /\ transition[t].account = a
                               => Generation(t) <= Generation(u)
    BY DEF ActiveAccountIsCommitted
  <2>1. /\ CommittedAs(u, a, account[a].snapshot)
        /\ \A v \in Transitions : VersionOf(v, a) =>
              accountVersion[v].generation <= account[a].snapshot.generation
    BY <1>1 DEF Inv, RowsInv, AccountOk
  <2>2. NoSnapshot.generation = 0
    BY DEF NoSnapshot, Snapshot
  <2>3. ASSUME NEW t \in Transitions,
               transition[t].state = "finalized", transition[t].account = a
        PROVE  VersionOf(t, a) /\ accountVersion[t] = transition[t].after
    <3>1. transition[t].kind # "remove" /\ transition[t].committed /\ Stored(t)
      BY <1>1, <2>3 DEF Inv, RowsInv, EndOk, TypeOK, Stored
    <3>2. accountVersion[t] = transition[t].after /\ transition[t].after.generation >= 1
      BY <1>1, <3>1 DEF Inv, RowsInv, RowOk, RowShape
    <3> QED BY <2>2, <2>3, <3>1, <3>2 DEF VersionOf
  <2> QED BY <2>1, <2>3 DEF CommittedAs, Generation
<1> QED BY <1>1, Invariance, PTL

\* A cleanup is recorded as deleted only after its entry was erased, through
\* crashes between the keyring and the commit.
THEOREM DeletedMeansErasedHolds == Spec => []DeletedMeansErased
<1>1. Inv => DeletedMeansErased
  BY DEF Inv
<1> QED BY <1>1, Invariance, PTL

\* No cleanup erases the credential an account has or may fall back to: what
\* a finalized update retired is never an account's again.
THEOREM ErasureSparesCredentialsHolds == Spec => []ErasureSparesCredentials
<1>1. ASSUME Inv PROVE ErasureSparesCredentials
  <2> SUFFICES ASSUME NEW c \in erased, NEW a \in Accounts, NEW t, t = account[a].active
               PROVE  /\ Live(a) => Locator(c[1], c[2])
                                       # LocatorOf(a, account[a].snapshot, "active_v2")
                      /\ t # None /\ Open(t) /\ ~transition[t].committed =>
                            Locator(c[1], c[2]) # LocatorOf(a, transition[t].before, "active_v2")
    BY DEF ErasureSparesCredentials
  <2>1. PICK e \in Transitions, k \in LocatorKind : c = <<e, k>>
    BY <1>1 DEF Inv, TypeOK, CleanupIds
  <2>2. cleanup[e][k] \in {"claimed", "deleted"}
    BY <1>1, <2>1 DEF Inv, DeletedMeansErased
  <2>3. /\ transition[e].state = "finalized" /\ transition[e].kind \in {"update", "remove"}
        /\ EndOk(e)
    BY <1>1, <2>2 DEF Inv, RowsInv, CleanupOk
  <2>4. \A s : LocatorOf(a, s, "active_v2") = <<a, s.credential>>
    BY DEF LocatorOf
  <2>5. CASE k # "active_v2"
    <3>1. Locator(e, k) = <<DisplayOf[transition[e].account]>>
      BY <2>5 DEF Locator, LocatorOf
    <3>2. \A x, y, z : <<x>> # <<y, z>>
      OBVIOUS
    <3> QED BY <2>1, <2>4, <3>1, <3>2
  <2>6. CASE k = "active_v2" /\ transition[e].account # a
    <3>1. Locator(e, k) = <<transition[e].account, transition[e].before.credential>>
      BY <2>6 DEF Locator, LocatorOf
    <3> QED BY <2>1, <2>4, <2>6, <3>1
  <2>7. CASE k = "active_v2" /\ transition[e].account = a
    <3>1. Locator(e, k) = <<a, transition[e].before.credential>>
      BY <2>7 DEF Locator, LocatorOf
    <3>2. Live(a) => transition[e].before.credential # account[a].snapshot.credential
      BY <2>3, <2>7 DEF EndOk, Live
    <3>3. t # None => transition[e].before.credential # transition[t].before.credential
      <4>1. account[a].active # None <=> account[a].state \in {"proposed", "blocked"}
        BY <1>1 DEF Inv, TypeOK
      <4> QED BY <2>3, <2>7, <4>1 DEF EndOk
    <3> QED BY <2>1, <2>4, <3>1, <3>2, <3>3
  <2> QED BY <2>5, <2>6, <2>7
<1> QED BY <1>1, Invariance, PTL

\* No step touches the row of a transition that has ended.
Ended(t) == transition[t].state \in {"finalized", "aborted", "recovery_required"}

LEMMA EndsKept ==
  ASSUME Inv, Next, NEW t \in Transitions, Ended(t)
  PROVE  transition'[t] = transition[t]
<1>1. transition' = transition \/ \E u \in Transitions : \E r :
         ~Ended(u) /\ transition' = [transition EXCEPT ![u] = r]
  <2>1. ASSUME NEW u \in Transitions, NEW k, NEW a, NEW before, NEW after, NEW c, NEW ls,
               ~Stored(u), PrepareRows(u, k, a, before, after, c, ls)
        PROVE  \E r : ~Ended(u) /\ transition' = [transition EXCEPT ![u] = r]
    BY <2>1, Zenon DEF Ended, Stored, PrepareRows
  <2>2. ASSUME NEW u \in Transitions, NEW a \in Accounts, NEW c \in Contents,
               \/ PrepareCreate(u, a, c)
               \/ \E k \in {"set", "delete"} : PrepareCredential(u, k, a, c)
               \/ \E k \in {"update", "remove"}, ls \in SUBSET LocatorKind :
                     PrepareReplacement(u, k, a, c, ls)
        PROVE  \E r : ~Ended(u) /\ transition' = [transition EXCEPT ![u] = r]
    BY <2>1, <2>2, Zenon DEF PrepareCreate, PrepareCredential, PrepareReplacement
  <2>3. ASSUME NEW u \in Transitions, NEW pair, MarkConfigCommitted(u, pair)
        PROVE  \E r : ~Ended(u) /\ transition' = [transition EXCEPT ![u] = r]
    BY <2>3 DEF Ended, MarkConfigCommitted
  <2>4. ASSUME NEW u \in Transitions, NEW pair,
               Finalize(u, pair) \/ Abort(u, pair) \/ EnterRecovery(u, pair)
        PROVE  \E r : ~Ended(u) /\ transition' = [transition EXCEPT ![u] = r]
    BY <2>4 DEF Ended, Finalize, Abort, UpdateAbortRows, EnterRecovery, Unsafe
  <2>5. CASE permit # None /\ Locked
    BY <2>5 DEF Locked, DeleteCleanup, EraseAndCrash, DropPermit
  <2>6. CASE permit = None /\ ValidHistory /\ Call
    <3>1. CASE \E u \in Transitions, a \in Accounts, c \in Contents :
                 \/ PrepareCreate(u, a, c)
                 \/ \E k \in {"set", "delete"} : PrepareCredential(u, k, a, c)
                 \/ \E k \in {"update", "remove"}, ls \in SUBSET LocatorKind :
                       PrepareReplacement(u, k, a, c, ls)
      BY <3>1, <2>2, Zenon
    <3>2. CASE \E u \in Transitions, pair \in ObservedPairs :
                 \/ MarkConfigCommitted(u, pair) \/ Finalize(u, pair)
                 \/ Abort(u, pair) \/ EnterRecovery(u, pair)
      BY <3>2, <2>3, <2>4, Zenon
    <3>3. CASE \/ \E u \in Transitions, k \in LocatorKind :
                    ClaimCleanup(u, k) \/ ReclaimCleanup(u, k)
               \/ OtherCall
      BY <3>3 DEF ClaimCleanup, ReclaimCleanup, OtherCall
    <3> QED BY <2>6, <3>1, <3>2, <3>3, Zenon DEF Call
  <2> QED BY <2>5, <2>6 DEF Next
<1>2. transition \in [Transitions -> TransitionRows]
  BY DEF Inv, TypeOK
<1> QED BY <1>1, <1>2

\* A finalized, aborted or frozen transition keeps its row: no observation,
\* cleanup or later prepare rewrites it.
THEOREM EndsStayHolds == Spec => EndsStay
<1> DEFINE Step == \A t \in Transitions :
                     transition[t].state \in {"finalized", "aborted", "recovery_required"}
                        => transition'[t] = transition[t]
<1>1. ASSUME Inv, [Next]_vars PROVE [Step]_vars
  <2> SUFFICES ASSUME Next PROVE Step
    BY <1>1
  <2> QED BY <1>1, EndsKept DEF Ended
<1>2. Spec => [][Step]_vars
  BY <1>1, Invariance, PTL DEF Spec
<1> QED BY <1>2 DEF EndsStay

\* A step that keeps what stored transitions name and reserves nothing new.
LEMMA LocatorsKept ==
  ASSUME Inv, OneCleanupPerLocator,
         \A v \in Transitions : Stored(v) =>
            /\ transition'[v].account = transition[v].account
            /\ transition'[v].before = transition[v].before,
         \A v \in Transitions, k \in LocatorKind :
            cleanup'[v][k] # "none" => cleanup[v][k] # "none"
  PROVE  OneCleanupPerLocator'
<1>1. ASSUME NEW v \in Transitions, NEW k \in LocatorKind, cleanup'[v][k] # "none"
      PROVE  cleanup[v][k] # "none" /\ Locator(v, k)' = Locator(v, k)
  <2>1. cleanup[v][k] # "none" /\ Stored(v)
    BY <1>1 DEF Inv, RowsInv, CleanupOk
  <2> QED BY <2>1 DEF Locator, LocatorOf
<1> QED BY <1>1 DEF OneCleanupPerLocator

\* The locators of one prepare differ by their layout, and the occupancy
\* check keeps them apart from every one reserved before.
LEMMA PrepareKeepsLocators ==
  ASSUME Inv, OneCleanupPerLocator, NEW t, NEW k, NEW a, NEW before, NEW c, NEW ls,
         Prepares(t, k, a, before, c, ls),
         \A l \in ls : ~LocatorTaken(LocatorOf(a, before, l))
  PROVE  OneCleanupPerLocator'
<1>1. PICK after \in Snapshots : PreparedAs(t, k, a, before, after, c)
  BY PrepareEffect, Zenon
<1>2. t \in Transitions /\ ls \subseteq LocatorKind
  BY DEF Prepares
<1>3. /\ transition'[t].account = a /\ transition'[t].before = before
      /\ \A v \in Transitions : v # t => transition'[v] = transition[v]
  BY <1>1, <1>2 DEF PreparedAs, Inv, TypeOK
<1>4. /\ \A l \in LocatorKind : cleanup'[t][l] # "none" <=> l \in ls
      /\ \A v \in Transitions : v # t => cleanup'[v] = cleanup[v]
  BY <1>2 DEF Prepares, PrepareRows, Inv, TypeOK
<1>5. \A l \in LocatorKind : Locator(t, l)' = LocatorOf(a, before, l)
  BY <1>3 DEF Locator, LocatorOf
<1>6. \A v \in Transitions, l \in LocatorKind : v # t => Locator(v, l)' = Locator(v, l)
  BY <1>3 DEF Locator, LocatorOf
<1>7. \A l, m \in LocatorKind : LocatorOf(a, before, l) = LocatorOf(a, before, m) => l = m
  <2>1. \A x, y, z : <<x, y>> # <<z>>
    OBVIOUS
  <2> QED BY <2>1 DEF LocatorOf, LocatorKind
<1>8. ASSUME NEW v \in Transitions, v # t, NEW l \in LocatorKind, NEW m \in LocatorKind,
             cleanup[v][l] # "none", m \in ls
      PROVE  Locator(v, l) # LocatorOf(a, before, m)
  BY <1>8 DEF LocatorTaken
<1> SUFFICES ASSUME NEW u \in Transitions, NEW v \in Transitions,
                    NEW l \in LocatorKind, NEW m \in LocatorKind,
                    cleanup'[u][l] # "none", cleanup'[v][m] # "none",
                    Locator(u, l)' = Locator(v, m)'
             PROVE  u = v /\ l = m
  BY DEF OneCleanupPerLocator
<1>9. CASE u = t /\ v = t
  BY <1>5, <1>7, <1>9
<1>10. CASE u # t /\ v # t
  BY <1>4, <1>6, <1>10 DEF OneCleanupPerLocator
<1>11. CASE u # t /\ v = t
  BY <1>4, <1>5, <1>6, <1>8, <1>11
<1>12. CASE u = t /\ v # t
  BY <1>4, <1>5, <1>6, <1>8, <1>12
<1> QED BY <1>9, <1>10, <1>11, <1>12

LEMMA NextLocators == Inv /\ OneCleanupPerLocator /\ [Next]_vars => OneCleanupPerLocator'
<1> SUFFICES ASSUME Inv, OneCleanupPerLocator, [Next]_vars PROVE OneCleanupPerLocator'
  OBVIOUS
<1>1. ASSUME NEW t \in Transitions, NEW a \in Accounts, NEW c \in Contents,
             PrepareCreate(t, a, c)
      PROVE  OneCleanupPerLocator'
  <2>1. Prepares(t, "create", a, NoSnapshot, c, {})
    BY <1>1 DEF PrepareCreate, Prepares
  <2> QED BY <2>1, PrepareKeepsLocators
<1>2. ASSUME NEW t \in Transitions, NEW a \in Accounts, NEW c \in Contents,
             NEW k \in {"set", "delete"}, PrepareCredential(t, k, a, c)
      PROVE  OneCleanupPerLocator'
  <2>1. Prepares(t, k, a, account[a].snapshot, c, {})
    BY <1>2 DEF PrepareCredential, Prepares, AccountTransitionKind
  <2> QED BY <2>1, PrepareKeepsLocators
<1>3. ASSUME NEW t \in Transitions, NEW a \in Accounts, NEW c \in Contents,
             NEW k \in {"update", "remove"}, NEW ls \in SUBSET LocatorKind,
             PrepareReplacement(t, k, a, c, ls)
      PROVE  OneCleanupPerLocator'
  <2>1. PICK before : before = account[a].snapshot
    OBVIOUS
  <2>2. Prepares(t, k, a, before, c, ls)
    BY <1>3, <2>1 DEF PrepareReplacement, Prepares, AccountTransitionKind
  <2>3. \A l \in ls : ~LocatorTaken(LocatorOf(a, before, l))
    BY <1>3, <2>1 DEF PrepareReplacement
  <2> QED BY <2>2, <2>3, PrepareKeepsLocators
<1>4. ASSUME NEW t \in Transitions, NEW pair \in ObservedPairs,
             \/ MarkConfigCommitted(t, pair) \/ Finalize(t, pair)
             \/ Abort(t, pair) \/ EnterRecovery(t, pair)
      PROVE  OneCleanupPerLocator'
  <2>1. \A v \in Transitions : /\ transition'[v].account = transition[v].account
                               /\ transition'[v].before = transition[v].before
    BY <1>4, MarkEffect, FinalizeEffect, AbortEffect, RecoveryEffect DEF Observes
  <2>2. \A v \in Transitions, k \in LocatorKind :
           cleanup'[v][k] # "none" => cleanup[v][k] # "none"
    BY <1>4 DEF MarkConfigCommitted, Finalize, Abort, EnterRecovery, ReadyCleanup, Reserved,
                Inv, TypeOK
  <2> QED BY <2>1, <2>2, LocatorsKept
<1>5. ASSUME NEW t \in Transitions, NEW k \in LocatorKind, ClaimCleanup(t, k)
      PROVE  OneCleanupPerLocator'
  <2>1. /\ transition' = transition
        /\ \A v \in Transitions, l \in LocatorKind :
              cleanup'[v][l] # "none" => cleanup[v][l] # "none"
    BY <1>5 DEF ClaimCleanup, Claimable, Inv, TypeOK
  <2> QED BY <2>1, LocatorsKept
<1>6. ASSUME permit # None, DeleteCleanup PROVE OneCleanupPerLocator'
  <2>1. PICK t \in Transitions, k \in LocatorKind : permit = <<t, k>>
    BY <1>6 DEF Inv, TypeOK, CleanupIds
  <2>2. /\ transition' = transition /\ cleanup[t][k] = "claimed"
        /\ \A v \in Transitions, l \in LocatorKind :
              v # t \/ l # k => cleanup'[v][l] = cleanup[v][l]
    BY <1>6, <2>1 DEF DeleteCleanup, Inv, TypeOK, PermitOk
  <2>3. \A v \in Transitions, l \in LocatorKind :
              cleanup'[v][l] # "none" => cleanup[v][l] # "none"
    BY <2>2
  <2> QED BY <2>2, <2>3, LocatorsKept
<1>7. ASSUME transition' = transition, cleanup' = cleanup PROVE OneCleanupPerLocator'
  BY <1>7, LocatorsKept
<1>8. CASE permit = None /\ ValidHistory /\ Call
  BY <1>8, <1>1, <1>2, <1>3, <1>4, <1>5, <1>7 DEF Call, ReclaimCleanup, OtherCall
<1>9. CASE permit # None /\ Locked
  BY <1>9, <1>6, <1>7 DEF Locked, EraseAndCrash, DropPermit
<1>10. CASE UNCHANGED vars
  BY <1>10, <1>7 DEF vars
<1> QED BY <1>8, <1>9, <1>10 DEF Next

\* No two cleanups ever name one keyring entry, through aborts that keep
\* their reservations, finished cleanups and accounts that share a display
\* id, for any number of them.
THEOREM OneCleanupPerLocatorHolds == Spec => []OneCleanupPerLocator
<1>1. Init => OneCleanupPerLocator
  BY DEF Init, OneCleanupPerLocator
<1> QED BY <1>1, InitInv, NextInv, NextLocators, PTL DEF Spec
=============================================================================

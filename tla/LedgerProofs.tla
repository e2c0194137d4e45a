---------------------------- MODULE LedgerProofs ----------------------------
(***************************************************************************)
(* Safety of the ledger for any number of operations and apply calls, any  *)
(* time limits and any lag, proved from one inductive invariant.           *)
(***************************************************************************)
EXTENDS LedgerRefinement, TLAPS

-----------------------------------------------------------------------------
(* Type correctness.                                                         *)

\* The sweeps of reconcile_operations move each row along at most one edge:
\* overdue plans expire, stale attempts become ambiguous, nothing else moves.
LEMMA SweepEffect ==
    ASSUME TypeOK, NEW now \in 0..MaxClock
    PROVE  /\ SweptStatus(now) \in [Ops -> Statuses \cup {"none"}]
           /\ SweptUpdatedAt(now) \in [Ops -> 0..MaxClock]
           /\ SweptTrail(now) \in [Ops -> Seq(Statuses)]
           /\ \A o \in Ops :
                 \/ SweptStatus(now)[o] = status[o]
                 \/ /\ status[o] \in {"planned", "approved"}
                    /\ SweptStatus(now)[o] = "expired"
                 \/ /\ status[o] = "applying"
                    /\ kind[o] # "draft"
                    /\ SweptStatus(now)[o] = "ambiguous"
  <1>1. \A o \in Ops :
            \/ SweptStatus(now)[o] = status[o]
            \/ /\ status[o] \in {"planned", "approved"}
               /\ SweptStatus(now)[o] = "expired"
            \/ /\ status[o] = "applying"
               /\ kind[o] # "draft"
               /\ SweptStatus(now)[o] = "ambiguous"
    BY DEF SweptStatus, Overdue, Stale
  <1>2. \A o \in Ops : Overdue(o, now) \/ Stale(o, now) => SweptStatus(now)[o] \in Statuses
    BY DEF SweptStatus, Statuses, Finals
  <1>3. SweptStatus(now) \in [Ops -> Statuses \cup {"none"}]
    BY DEF TypeOK, SweptStatus, Statuses, Finals
  <1>4. SweptUpdatedAt(now) \in [Ops -> 0..MaxClock]
    BY DEF TypeOK, SweptUpdatedAt
  <1>5. SweptTrail(now) \in [Ops -> Seq(Statuses)]
    BY <1>2 DEF TypeOK, SweptTrail
  <1> QED BY <1>1, <1>3, <1>4, <1>5

\* A transition stays within the types of the table's columns.
LEMMA TransitionType ==
    ASSUME TypeOK, NEW now \in 0..MaxClock, NEW o \in Ops, NEW to \in Statuses,
           Transition(o, now, to)
    PROVE  /\ kind' \in [Ops -> Kinds]
           /\ status' \in [Ops -> Statuses \cup {"none"}]
           /\ expiresAt' \in [Ops -> Int]
           /\ updatedAt' \in [Ops -> 0..MaxClock]
           /\ attempts' \in [Ops -> Nat]
           /\ trail' \in [Ops -> Seq(Statuses)]
  <1>1. /\ SweptStatus(now) \in [Ops -> Statuses \cup {"none"}]
        /\ SweptUpdatedAt(now) \in [Ops -> 0..MaxClock]
        /\ SweptTrail(now) \in [Ops -> Seq(Statuses)]
    BY SweepEffect
  <1>2. trail' \in [Ops -> Seq(Statuses)]
    BY <1>1 DEF Transition
  <1>3. attempts' \in [Ops -> Nat]
    BY DEF Transition, TypeOK
  <1> QED BY <1>1, <1>2, <1>3 DEF Transition, TypeOK

\* The empty ledger is well typed.
LEMMA TypeInit == Init => TypeOK
  BY LedgerAssumption
  DEF Init, TypeOK, Kinds, Statuses, Finals, Points, Holding, NoExpiry

\* Every transaction and every step of an apply call keeps the types.
LEMMA TypeStep == TypeOK /\ [Next]_vars => TypeOK'
  <1> SUFFICES ASSUME TypeOK, [Next]_vars PROVE TypeOK'
    OBVIOUS
  <1>now. \A now \in Now : now \in 0..MaxClock
    BY DEF Now
  <1>points. /\ Points = {"idle", "peeked", "sendClaimed", "mailClaimed", "ready",
                          "waiting", "failing", "succeeding", "doubting"}
             /\ Statuses = {"planned", "approved", "applying", "succeeded",
                            "failed", "ambiguous", "expired"}
    BY DEF Points, Holding, Statuses, Finals
  <1>1. CASE LedgerStep
    <2>1. PICK now \in Now :
              \/ StatusRead(now)
              \/ \E o \in Ops :
                    \/ Approve(o, now)
                    \/ \E k \in Kinds : Plan(o, k, now)
      BY <1>1 DEF LedgerStep
    <2>2. now \in 0..MaxClock
      BY <1>now
    <2>3. CASE StatusRead(now)
      BY <2>2, <2>3, SweepEffect DEF StatusRead, Sweep, TypeOK, remote
    <2>4. ASSUME NEW o \in Ops, Approve(o, now) PROVE TypeOK'
      BY <2>2, <2>4, <1>points, TransitionType DEF Approve, TypeOK, remote
    <2>5. ASSUME NEW o \in Ops, NEW k \in Kinds, Plan(o, k, now) PROVE TypeOK'
      <3>1. trail' \in [Ops -> Seq(Statuses)]
        BY <2>5, <1>points DEF Plan, TypeOK
      <3>2. expiresAt' \in [Ops -> Int]
        BY <2>2, <2>5, LedgerAssumption DEF Plan, TypeOK, NoExpiry
      <3>3. status' \in [Ops -> Statuses \cup {"none"}] /\ kind' \in [Ops -> Kinds]
        BY <2>5, <1>points DEF Plan, TypeOK
      <3>4. updatedAt' \in [Ops -> 0..MaxClock]
        BY <2>2, <2>5 DEF Plan, TypeOK
      <3> QED BY <2>5, <3>1, <3>2, <3>3, <3>4 DEF Plan, TypeOK, remote
    <2> QED BY <2>1, <2>3, <2>4, <2>5
  <1>2. ASSUME NEW w \in Workers, WorkerStep(w) PROVE TypeOK'
    <2>1. CASE RejectKind(w) \/ Abandon(w)
      BY <2>1, <1>points DEF RejectKind, Abandon, Return, TypeOK, table, remote
    <2>2. CASE Credentials(w) \/ PreflightFails(w) \/ RespondError(w)
      BY <2>2, <1>points
      DEF Credentials, PreflightFails, RespondError, MoveTo, TypeOK, table, remote
    <2>3. CASE Begin(w)
      <3>1. target[w] \in Ops
        BY <2>3 DEF Begin, TypeOK
      <3>2. PICK n \in CommandCounts(kind[target[w]]) :
              /\ begins' = [begins EXCEPT ![target[w]] = @ + 1]
              /\ need' = [need EXCEPT ![target[w]] = n]
              /\ IF n = 0
                 THEN MoveTo(w, "succeeding") /\ UNCHANGED issued
                 ELSE /\ MoveTo(w, "waiting")
                      /\ issued' = [issued EXCEPT ![target[w]] = @ + 1]
        BY <2>3 DEF Begin
      <3>3. n \in 0..2
        BY DEF CommandCounts
      <3>4. issued' \in [Ops -> Nat]
        <4>1. CASE n = 0
          BY <3>2, <4>1 DEF TypeOK
        <4>2. CASE n # 0
          <5>1. issued' = [issued EXCEPT ![target[w]] = @ + 1]
            BY <3>2, <4>2
          <5>2. issued \in [Ops -> Nat] /\ issued[target[w]] + 1 \in Nat
            BY <3>1 DEF TypeOK
          <5> QED BY <5>1, <5>2
        <4> QED BY <4>1, <4>2
      <3>6. begins' \in [Ops -> Nat]
        BY <3>1, <3>2 DEF TypeOK
      <3>7. need' \in [Ops -> 0..2]
        BY <3>1, <3>2, <3>3 DEF TypeOK
      <3>5. /\ pc' \in [Workers -> Points]
            /\ \A v \in Workers : pc'[v] # "idle" => target[v] \in Ops
        BY <3>1, <3>2, <1>points DEF MoveTo, TypeOK
      <3> QED BY <2>3, <3>4, <3>5, <3>6, <3>7 DEF Begin, TypeOK, table
    <2>4. CASE Respond(w)
      <3>1. target[w] \in Ops
        BY <2>4 DEF Respond, TypeOK
      <3>2. CASE issued[target[w]] < need[target[w]]
        <4>1. issued' = [issued EXCEPT ![target[w]] = @ + 1] /\ UNCHANGED pc
          BY <2>4, <3>2 DEF Respond
        <4>2. issued \in [Ops -> Nat] /\ issued[target[w]] + 1 \in Nat
          BY <3>1 DEF TypeOK
        <4>3. issued' \in [Ops -> Nat]
          BY <4>1, <4>2
        <4> QED BY <2>4, <4>1, <4>3 DEF Respond, TypeOK, table
      <3>3. CASE ~(issued[target[w]] < need[target[w]])
        BY <2>4, <3>1, <3>3, <1>points DEF Respond, MoveTo, TypeOK, table
      <3> QED BY <3>2, <3>3
    <2>5. ASSUME NEW now \in Now, ClaimMail(w, now) PROVE TypeOK'
      <3>1. target[w] \in Ops /\ now \in 0..MaxClock
        BY <2>5, <1>now DEF ClaimMail, TypeOK
      <3>2. CASE Transition(target[w], now, "applying") /\ MoveTo(w, "mailClaimed") /\ UNCHANGED target
        BY <2>5, <3>1, <3>2, <1>points, TransitionType
        DEF ClaimMail, MoveTo, TypeOK, remote
      <3>3. CASE Return(w) /\ UNCHANGED table
        BY <2>5, <3>3, <1>points DEF ClaimMail, Return, TypeOK, table, remote
      <3> QED BY <2>5, <3>2, <3>3 DEF ClaimMail
    <2>6. ASSUME NEW now \in Now, Finish(w, now) PROVE TypeOK'
      <3>1. target[w] \in Ops /\ now \in 0..MaxClock
        BY <2>6, <1>now DEF Finish, TypeOK
      <3>2. Verdict(pc[w]) \in Statuses
        BY <1>points DEF Verdict
      <3>3. CASE UNCHANGED table
        BY <2>6, <3>3, <1>points DEF Finish, Return, TypeOK, table, remote
      <3>4. CASE status[target[w]] = "applying"
        <4>0. trail' = [trail EXCEPT ![target[w]] = Append(@, Verdict(pc[w]))]
          BY <2>6, <3>4 DEF Finish
        <4>1. trail' \in [Ops -> Seq(Statuses)]
          BY <3>1, <3>2, <4>0 DEF TypeOK
        <4>2. status' \in [Ops -> Statuses \cup {"none"}]
          BY <2>6, <3>1, <3>2, <3>4 DEF Finish, TypeOK
        <4>3. updatedAt' \in [Ops -> 0..MaxClock]
          BY <2>6, <3>1, <3>4 DEF Finish, TypeOK
        <4> QED BY <2>6, <3>4, <4>1, <4>2, <4>3, <1>points
                DEF Finish, Return, TypeOK, remote
      <3> QED BY <2>6, <3>3, <3>4 DEF Finish
    <2>7. ASSUME NEW now \in Now, NEW o \in Ops, ClaimSend(w, o, now) PROVE TypeOK'
      BY <2>7, <1>now, <1>points, TransitionType DEF ClaimSend, MoveTo, TypeOK, remote
    <2>8. ASSUME NEW now \in Now, NEW o \in Ops, PeekMail(w, o, now) PROVE TypeOK'
      <3>1. /\ status' \in [Ops -> Statuses \cup {"none"}]
            /\ updatedAt' \in [Ops -> 0..MaxClock]
            /\ trail' \in [Ops -> Seq(Statuses)]
        BY <2>8, <1>now, SweepEffect DEF PeekMail, Sweep
      <3>2. /\ pc' \in [Workers -> Points]
            /\ target' \in [Workers -> Ops \cup {NoOp}]
            /\ \A v \in Workers : pc'[v] # "idle" => target'[v] \in Ops
        BY <2>8, <1>points DEF PeekMail, MoveTo, TypeOK
      <3> QED BY <2>8, <3>1, <3>2 DEF PeekMail, TypeOK, remote
    <2> QED BY <1>2, <2>1, <2>2, <2>3, <2>4, <2>5, <2>6, <2>7, <2>8 DEF WorkerStep
  <1>3. ASSUME NEW o \in Ops, Execute(o) PROVE TypeOK'
    BY <1>3 DEF Execute, TypeOK, table
  <1>4. CASE Tick
    BY <1>4, LedgerAssumption DEF Tick, TypeOK, table, remote
  <1>5. CASE UNCHANGED vars
    BY <1>5 DEF vars, TypeOK
  <1> QED BY <1>1, <1>2, <1>3, <1>4, <1>5 DEF Next

\* In every reachable state the tables, the workers and the provider's
\* counters are well-typed, and a worker that is not idle has a target.
THEOREM TypeCorrect == Spec => []TypeOK
  BY TypeInit, TypeStep, PTL DEF Spec

-----------------------------------------------------------------------------
(* The inductive invariant.                                                  *)

\* What a sweep leaves true: held rows stay held or become ambiguous, rows
\* never invoked stay so described, and a planned or approved row was so.
LEMMA SweepKeeps ==
    ASSUME TypeOK, LedgerInv, NEW now \in 0..MaxClock
    PROVE  \A o \in Ops :
              /\ status[o] \in {"applying", "ambiguous"}
                    => SweptStatus(now)[o] \in {"applying", "ambiguous"}
              /\ SweptStatus(now)[o] \notin {"applying", "succeeded", "ambiguous"}
                    => begins[o] = 0
              /\ SweptStatus(now)[o] = "succeeded" => status[o] = "succeeded"
              /\ SweptStatus(now)[o] \in {"planned", "approved"}
                    => SweptStatus(now)[o] = status[o]
  BY SweepEffect DEF LedgerInv, ProviderInv

\* The empty ledger has no claims and no invocations.
LEMMA InvInit == Init => LedgerInv
  BY DEF Init, LedgerInv, ClaimInv, AttemptInv, ProviderInv, Holding

\* A claim of an approved row, by a worker that holds nothing.
LEMMA ClaimKeeps ==
    ASSUME TypeOK, LedgerInv, NEW now \in 0..MaxClock, NEW o \in Ops, NEW w \in Workers,
           NEW point \in {"sendClaimed", "mailClaimed"},
           pc[w] \notin Holding,
           CanTransition(o, now, "approved"), Transition(o, now, "applying"),
           pc' = [pc EXCEPT ![w] = point],
           target' = [target EXCEPT ![w] = o],
           UNCHANGED remote
    PROVE  LedgerInv'
  <1>1. /\ status[o] = "approved" /\ kind[o] # "draft" /\ begins[o] = 0
    BY SweepKeeps DEF CanTransition, LedgerInv, ProviderInv
  <1>2. /\ status' = [SweptStatus(now) EXCEPT ![o] = "applying"]
        /\ SweptStatus(now) \in [Ops -> Statuses \cup {"none"}]
        /\ kind' = kind
    BY SweepEffect DEF Transition
  <1>3. \A v \in Workers : pc[v] \in Holding => target[v] \in Ops /\ target[v] # o
    BY <1>1 DEF LedgerInv, ClaimInv, TypeOK, Holding
  <1>4. \A v \in Workers \ {w} : pc'[v] = pc[v] /\ target'[v] = target[v]
    BY DEF TypeOK
  <1>5. pc'[w] = point /\ target'[w] = o
    BY DEF TypeOK
  <1>6. ClaimInv'
    <2>1. ASSUME NEW v \in Workers, pc'[v] \in Holding
          PROVE  status'[target'[v]] \in {"applying", "ambiguous"} /\ kind'[target'[v]] # "draft"
      BY <2>1, <1>1, <1>2, <1>3, <1>4, <1>5, SweepKeeps DEF LedgerInv, ClaimInv
    <2>2. ASSUME NEW u \in Workers, NEW v \in Workers, pc'[u] \in Holding,
                 pc'[v] \in Holding, target'[u] = target'[v]
          PROVE  u = v
      BY <2>2, <1>3, <1>4, <1>5 DEF LedgerInv, ClaimInv
    <2> QED BY <2>1, <2>2 DEF ClaimInv
  <1>7. AttemptInv'
    BY <1>1, <1>4, <1>5 DEF LedgerInv, AttemptInv, remote
  <1>8. ProviderInv'
    BY <1>1, <1>2, SweepKeeps DEF LedgerInv, ProviderInv, remote
  <1> QED BY <1>6, <1>7, <1>8 DEF LedgerInv

\* A step that only sweeps.
LEMMA SweepStepKeeps ==
    ASSUME TypeOK, LedgerInv, NEW now \in 0..MaxClock, Sweep(now),
           UNCHANGED <<kind, remote>>,
           \A w \in Workers : \/ pc'[w] = pc[w] /\ target'[w] = target[w]
                              \/ pc'[w] = "peeked"
    PROVE  LedgerInv'
  <1>1. status' = SweptStatus(now) /\ kind' = kind /\ UNCHANGED <<begins, need, issued, done>>
    BY DEF Sweep, remote
  <1>2. \A w \in Workers : pc'[w] \in Holding =>
            pc'[w] = pc[w] /\ target'[w] = target[w] /\ target[w] \in Ops
    BY DEF Holding, TypeOK
  <1>3. ClaimInv'
    BY <1>1, <1>2, SweepKeeps DEF LedgerInv, ClaimInv
  <1>4. AttemptInv'
    BY <1>1 DEF LedgerInv, AttemptInv
  <1>5. ProviderInv'
    BY <1>1, SweepKeeps DEF LedgerInv, ProviderInv
  <1> QED BY <1>3, <1>4, <1>5 DEF LedgerInv

\* A worker that returns without touching the table.
LEMMA ReturnKeeps ==
    ASSUME TypeOK, LedgerInv, NEW w \in Workers, Return(w), UNCHANGED <<table, remote>>
    PROVE  LedgerInv'
  <1>1. UNCHANGED <<status, kind, begins, need, issued, done>>
    BY DEF table, remote
  <1>2. /\ pc'[w] = "idle"
        /\ \A v \in Workers : v # w => pc'[v] = pc[v] /\ target'[v] = target[v]
    BY DEF Return, TypeOK
  <1>3. ClaimInv'
    BY <1>1, <1>2 DEF LedgerInv, ClaimInv, Holding
  <1>4. AttemptInv'
    BY <1>1, <1>2 DEF LedgerInv, AttemptInv
  <1>5. ProviderInv'
    BY <1>1 DEF LedgerInv, ProviderInv
  <1> QED BY <1>3, <1>4, <1>5 DEF LedgerInv

\* Every transaction and every step of an apply call keeps what claims,
\* attempts and statuses say of the provider.
LEMMA InvStep == TypeOK /\ LedgerInv /\ [Next]_vars => LedgerInv'
  <1> SUFFICES ASSUME TypeOK, LedgerInv, [Next]_vars PROVE LedgerInv'
    OBVIOUS
  <1>now. \A now \in Now : now \in 0..MaxClock
    BY DEF Now
  <1>1. CASE LedgerStep
    <2>1. PICK now \in Now :
              \/ StatusRead(now)
              \/ \E o \in Ops :
                    \/ Approve(o, now)
                    \/ \E k \in Kinds : Plan(o, k, now)
      BY <1>1 DEF LedgerStep
    <2>2. now \in 0..MaxClock
      BY <1>now
    <2>3. CASE StatusRead(now)
      BY <2>2, <2>3, SweepStepKeeps DEF StatusRead, remote
    <2>4. ASSUME NEW o \in Ops, Approve(o, now) PROVE LedgerInv'
      <3>1. status[o] = "planned" /\ begins[o] = 0
        BY <2>2, <2>4, SweepKeeps DEF Approve, CanTransition, LedgerInv, ProviderInv
      <3>2. /\ status' = [SweptStatus(now) EXCEPT ![o] = "approved"]
            /\ SweptStatus(now) \in [Ops -> Statuses \cup {"none"}]
            /\ UNCHANGED <<kind, pc, target, begins, need, issued, done>>
        BY <2>2, <2>4, SweepEffect DEF Approve, Transition, remote
      <3>3. \A w \in Workers : pc[w] \in Holding => target[w] \in Ops /\ target[w] # o
        BY <3>1 DEF LedgerInv, ClaimInv, TypeOK, Holding
      <3>4. ClaimInv'
        BY <2>2, <3>2, <3>3, SweepKeeps DEF LedgerInv, ClaimInv
      <3>5. AttemptInv'
        BY <3>2 DEF LedgerInv, AttemptInv
      <3>6. ProviderInv'
        BY <2>2, <3>1, <3>2, SweepKeeps DEF LedgerInv, ProviderInv
      <3> QED BY <3>4, <3>5, <3>6 DEF LedgerInv
    <2>5. ASSUME NEW o \in Ops, NEW k \in Kinds, Plan(o, k, now) PROVE LedgerInv'
      <3>1. status[o] = "none" /\ begins[o] = 0
        BY <2>5 DEF Plan, LedgerInv, ProviderInv
      <3>2. /\ status' = [status EXCEPT ![o] = "planned"]
            /\ kind' = [kind EXCEPT ![o] = k]
            /\ UNCHANGED <<pc, target, begins, need, issued, done>>
        BY <2>5 DEF Plan, remote
      <3>3. \A w \in Workers : pc[w] \in Holding => target[w] \in Ops /\ target[w] # o
        BY <3>1 DEF LedgerInv, ClaimInv, TypeOK, Holding
      <3>4. ClaimInv'
        BY <3>2, <3>3 DEF LedgerInv, ClaimInv, TypeOK
      <3>5. AttemptInv'
        BY <3>2 DEF LedgerInv, AttemptInv
      <3>6. ProviderInv'
        BY <3>1, <3>2 DEF LedgerInv, ProviderInv, TypeOK
      <3> QED BY <3>4, <3>5, <3>6 DEF LedgerInv
    <2> QED BY <2>1, <2>3, <2>4, <2>5
  <1>2. ASSUME NEW w \in Workers, WorkerStep(w) PROVE LedgerInv'
    <2>0. pc[w] # "idle" => target[w] \in Ops
      BY DEF TypeOK
    <2>1. CASE RejectKind(w) \/ Abandon(w)
      BY <2>1, ReturnKeeps DEF RejectKind, Abandon
    <2>2. CASE Credentials(w) \/ PreflightFails(w) \/ RespondError(w)
      <3>1. UNCHANGED <<status, kind, target, begins, need, issued, done>>
        BY <2>2 DEF Credentials, PreflightFails, RespondError, table, remote
      <3>2. /\ \A v \in Workers : v # w => pc'[v] = pc[v]
            /\ \/ /\ pc[w] \in {"sendClaimed", "mailClaimed", "ready"}
                  /\ pc'[w] \in {"ready", "failing"}
               \/ pc[w] = "waiting" /\ pc'[w] = "doubting"
        BY <2>2 DEF Credentials, PreflightFails, RespondError, MoveTo, TypeOK
      <3>3. ClaimInv'
        BY <3>1, <3>2 DEF LedgerInv, ClaimInv, Holding
      <3>4. AttemptInv'
        BY <3>1, <3>2 DEF LedgerInv, AttemptInv
      <3>5. ProviderInv'
        BY <3>1 DEF LedgerInv, ProviderInv
      <3> QED BY <3>3, <3>4, <3>5 DEF LedgerInv
    <2>3. CASE Begin(w)
      <3> DEFINE o == target[w]
      <3>1. /\ o \in Ops /\ pc[w] = "ready" /\ UNCHANGED <<status, kind, target, done>>
            /\ status[o] \in {"applying", "ambiguous"}
            /\ begins[o] = 0 /\ need[o] = 0 /\ issued[o] = 0 /\ done[o] = 0
        BY <2>0, <2>3 DEF Begin, table, LedgerInv, ClaimInv, AttemptInv, ProviderInv,
                          TypeOK, Holding
      <3>2. PICK n \in CommandCounts(kind[target[w]]) :
              /\ begins' = [begins EXCEPT ![target[w]] = @ + 1]
              /\ need' = [need EXCEPT ![target[w]] = n]
              /\ IF n = 0
                 THEN MoveTo(w, "succeeding") /\ UNCHANGED issued
                 ELSE /\ MoveTo(w, "waiting")
                      /\ issued' = [issued EXCEPT ![target[w]] = @ + 1]
        BY <2>3 DEF Begin
      <3>3. n \in 0..2
        BY DEF CommandCounts
      <3>4. /\ begins'[o] = 1 /\ need'[o] = n
            /\ \/ n = 0 /\ issued'[o] = 0 /\ pc'[w] = "succeeding"
               \/ n > 0 /\ issued'[o] = 1 /\ pc'[w] = "waiting"
        <4>1. begins'[o] = 1 /\ need'[o] = n
          BY <3>1, <3>2 DEF TypeOK
        <4>2. CASE n = 0
          BY <4>1, <4>2, <3>1, <3>2 DEF MoveTo, TypeOK
        <4>3. CASE n # 0
          <5>1. issued' = [issued EXCEPT ![o] = @ + 1] /\ pc' = [pc EXCEPT ![w] = "waiting"]
            BY <4>3, <3>2 DEF MoveTo
          <5> QED BY <4>1, <4>3, <5>1, <3>1, <3>3 DEF TypeOK
        <4> QED BY <4>2, <4>3
      <3>5. \A p \in Ops : p # o =>
              begins'[p] = begins[p] /\ need'[p] = need[p] /\ issued'[p] = issued[p]
        BY <3>1, <3>2 DEF TypeOK
      <3>6. \A v \in Workers : v # w => pc'[v] = pc[v]
        BY <3>2 DEF MoveTo, TypeOK
      <3>7. \A v \in Workers : v # w /\ pc[v] \in Holding => target[v] \in Ops /\ target[v] # o
        BY <3>1 DEF LedgerInv, ClaimInv, TypeOK, Holding
      <3>8. ClaimInv'
        BY <3>1, <3>4, <3>6 DEF LedgerInv, ClaimInv, Holding
      <3>9. AttemptInv'
        BY <3>1, <3>4, <3>5, <3>6, <3>7 DEF LedgerInv, AttemptInv, Holding
      <3>10. ProviderInv'
        BY <3>1, <3>3, <3>4, <3>5 DEF LedgerInv, ProviderInv
      <3> QED BY <3>8, <3>9, <3>10 DEF LedgerInv
    <2>4. CASE Respond(w)
      <3> DEFINE o == target[w]
      <3>1. /\ o \in Ops /\ pc[w] = "waiting" /\ done[o] = issued[o]
            /\ UNCHANGED <<status, kind, target, begins, need, done>>
            /\ begins[o] = 1
        BY <2>0, <2>4 DEF Respond, table, LedgerInv, AttemptInv
      <3>2. \A v \in Workers : v # w /\ pc[v] \in Holding => target[v] \in Ops /\ target[v] # o
        BY <3>1 DEF LedgerInv, ClaimInv, TypeOK, Holding
      <3>3. CASE issued[o] < need[o]
        <4>1. issued' = [issued EXCEPT ![o] = @ + 1] /\ pc' = pc
          BY <2>4, <3>3 DEF Respond
        <4>2. issued'[o] = issued[o] + 1 /\ \A p \in Ops : p # o => issued'[p] = issued[p]
          BY <3>1, <4>1 DEF TypeOK
        <4>3. issued[o] \in Nat /\ need[o] \in 0..2 /\ done[o] \in Nat
          BY <3>1 DEF TypeOK
        <4>4. ClaimInv'
          BY <3>1, <4>1 DEF LedgerInv, ClaimInv
        <4>5. AttemptInv'
          BY <3>1, <3>2, <4>1, <4>2, <4>3 DEF LedgerInv, AttemptInv, Holding
        <4>6. ProviderInv'
          BY <3>1, <3>3, <4>2, <4>3 DEF LedgerInv, ProviderInv
        <4> QED BY <4>4, <4>5, <4>6 DEF LedgerInv
      <3>4. CASE ~(issued[o] < need[o])
        <4>1. issued' = issued /\ pc' = [pc EXCEPT ![w] = "succeeding"]
          BY <2>4, <3>4 DEF Respond, MoveTo
        <4>0. issued[o] \in Nat /\ need[o] \in 0..2
          BY <3>1 DEF TypeOK
        <4>2. done[o] = need[o]
          BY <3>1, <3>4, <4>0 DEF LedgerInv, ProviderInv
        <4>3. pc'[w] = "succeeding" /\ \A v \in Workers : v # w => pc'[v] = pc[v]
          BY <4>1 DEF TypeOK
        <4>4. ClaimInv'
          BY <3>1, <4>3 DEF LedgerInv, ClaimInv, Holding
        <4>5. AttemptInv'
          BY <3>1, <4>1, <4>2, <4>3 DEF LedgerInv, AttemptInv
        <4>6. ProviderInv'
          BY <3>1, <4>1 DEF LedgerInv, ProviderInv
        <4> QED BY <4>4, <4>5, <4>6 DEF LedgerInv
      <3> QED BY <3>3, <3>4
    <2>5. ASSUME NEW now \in Now, ClaimMail(w, now) PROVE LedgerInv'
      <3>1. target[w] \in Ops /\ pc[w] = "peeked"
        BY <2>5 DEF ClaimMail, TypeOK
      <3>2. CASE /\ CanTransition(target[w], now, "approved")
                 /\ Transition(target[w], now, "applying")
                 /\ MoveTo(w, "mailClaimed") /\ UNCHANGED target
        <4>1. target' = [target EXCEPT ![w] = target[w]]
          BY <3>2 DEF TypeOK
        <4>2. pc[w] \notin Holding
          BY <3>1 DEF Holding
        <4> QED BY <2>5, <3>1, <3>2, <4>1, <4>2, <1>now, ClaimKeeps DEF ClaimMail, MoveTo
      <3>3. CASE Return(w) /\ UNCHANGED table
        BY <2>5, <3>3, ReturnKeeps DEF ClaimMail
      <3> QED BY <2>5, <3>2, <3>3 DEF ClaimMail
    <2>6. ASSUME NEW now \in Now, Finish(w, now) PROVE LedgerInv'
      <3> DEFINE o == target[w]
      <3>1. /\ o \in Ops /\ pc[w] \in {"succeeding", "failing", "doubting"} /\ Return(w)
            /\ UNCHANGED <<begins, need, issued, done>> /\ UNCHANGED remote
        BY <2>0, <2>6 DEF Finish, remote
      <3>2. CASE status[o] # "applying"
        BY <2>6, <3>1, <3>2, ReturnKeeps DEF Finish
      <3>3. CASE status[o] = "applying"
        <4>1. status' = [status EXCEPT ![o] = Verdict(pc[w])] /\ kind' = kind
          BY <2>6, <3>3 DEF Finish
        <4>2. /\ pc'[w] = "idle"
              /\ \A v \in Workers : v # w => pc'[v] = pc[v] /\ target'[v] = target[v]
          BY <3>1 DEF Return, TypeOK
        <4>3. \A v \in Workers : v # w /\ pc[v] \in Holding => target[v] \in Ops /\ target[v] # o
          BY <3>1 DEF LedgerInv, ClaimInv, TypeOK, Holding
        <4>4. /\ status'[o] = Verdict(pc[w])
              /\ \A p \in Ops : p # o => status'[p] = status[p]
          BY <3>1, <4>1 DEF TypeOK
        <4>5. /\ Verdict(pc[w]) = "succeeded" => begins[o] = 1 /\ done[o] = need[o]
              /\ Verdict(pc[w]) = "failed" => begins[o] = 0
              /\ Verdict(pc[w]) \in {"succeeded", "failed", "ambiguous"}
          BY <3>1 DEF Verdict, LedgerInv, AttemptInv
        <4>6. ClaimInv'
          BY <4>1, <4>2, <4>3, <4>4 DEF LedgerInv, ClaimInv, Holding
        <4>7. AttemptInv'
          BY <3>1, <4>2 DEF LedgerInv, AttemptInv
        <4>8. ProviderInv'
          BY <3>1, <4>4, <4>5 DEF LedgerInv, ProviderInv
        <4> QED BY <4>6, <4>7, <4>8 DEF LedgerInv
      <3> QED BY <3>2, <3>3
    <2>7. ASSUME NEW now \in Now, NEW o \in Ops, ClaimSend(w, o, now) PROVE LedgerInv'
      <3>1. pc[w] \notin Holding
        BY <2>7 DEF ClaimSend, Holding
      <3> QED BY <2>7, <3>1, <1>now, ClaimKeeps DEF ClaimSend, MoveTo
    <2>8. ASSUME NEW now \in Now, NEW o \in Ops, PeekMail(w, o, now) PROVE LedgerInv'
      <3>1. \A v \in Workers : \/ pc'[v] = pc[v] /\ target'[v] = target[v]
                               \/ pc'[v] = "peeked"
        BY <2>8 DEF PeekMail, MoveTo, TypeOK
      <3> QED BY <2>8, <3>1, <1>now, SweepStepKeeps DEF PeekMail, remote
    <2> QED BY <1>2, <2>1, <2>2, <2>3, <2>4, <2>5, <2>6, <2>7, <2>8 DEF WorkerStep
  <1>3. ASSUME NEW o \in Ops, Execute(o) PROVE LedgerInv'
    <2>1. /\ done[o] < issued[o] /\ done'[o] = done[o] + 1
          /\ \A p \in Ops : p # o => done'[p] = done[p]
          /\ UNCHANGED <<status, kind, pc, target, begins, need, issued>>
      BY <1>3 DEF Execute, table, TypeOK
    <2>2. done[o] \in Nat /\ issued[o] \in Nat /\ need[o] \in 0..2 /\ done[o] < need[o]
      BY <2>1 DEF TypeOK, LedgerInv, ProviderInv
    <2>3. ClaimInv'
      BY <2>1 DEF LedgerInv, ClaimInv
    <2>4. AttemptInv'
      <3>1. ASSUME NEW w \in Workers, pc[w] = "succeeding"
            PROVE  target[w] \in Ops /\ target[w] # o
        BY <3>1, <2>2 DEF TypeOK, LedgerInv, AttemptInv
      <3> QED BY <2>1, <3>1 DEF LedgerInv, AttemptInv
    <2>5. ProviderInv'
      BY <2>1, <2>2 DEF LedgerInv, ProviderInv
    <2> QED BY <2>3, <2>4, <2>5 DEF LedgerInv
  <1>4. CASE Tick \/ UNCHANGED vars
    <2>1. UNCHANGED <<status, kind, pc, target, begins, need, issued, done>>
      BY <1>4 DEF Tick, vars, table, remote
    <2> QED BY <2>1 DEF LedgerInv, ClaimInv, AttemptInv, ProviderInv
  <1> QED BY <1>1, <1>2, <1>3, <1>4 DEF Next

\* Both hold in every state the ledger reaches.
LEMMA Invariance == Spec => [](TypeOK /\ LedgerInv)
  BY TypeInit, TypeStep, InvInit, InvStep, PTL DEF Spec

\* Claims are exclusive, a worker's position tells what it has done to the
\* provider and a row's status what may have happened there, whatever the
\* interleaving of apply calls, deaths and sweeps.
THEOREM LedgerInvHolds == Spec => []LedgerInv
  BY Invariance, PTL

\* An operation reaches the provider at most once and no command of its
\* attempt is sent twice, for any number of concurrent apply calls.
THEOREM AtMostOnceHolds == Spec => []AtMostOnce
  <1>1. TypeOK /\ LedgerInv => AtMostOnce
    BY DEF LedgerInv, ProviderInv, AtMostOnce
  <1> QED BY <1>1, Invariance, PTL

\* A plan shown as planned, approved, expired or failed never reached the
\* provider.
THEOREM InvocationAccountedHolds == Spec => []InvocationAccounted
  <1>1. TypeOK /\ LedgerInv => InvocationAccounted
    BY DEF LedgerInv, ProviderInv, InvocationAccounted, TypeOK
  <1> QED BY <1>1, Invariance, PTL

\* A plan shown as succeeded had all its commands executed by the provider.
THEOREM SucceededMeansAppliedHolds == Spec => []SucceededMeansApplied
  <1>1. TypeOK /\ LedgerInv => SucceededMeansApplied
    BY DEF LedgerInv, ProviderInv, SucceededMeansApplied
  <1> QED BY <1>1, Invariance, PTL

-----------------------------------------------------------------------------
(* Final statuses.                                                           *)

\* Every row that takes part in approval and apply has an expiry.
ExpiryInv ==
    \A o \in Ops : status[o] # "none" /\ kind[o] # "draft" => expiresAt[o] \in Nat

\* create_operation gives every plan an expiry, and nothing takes it away.
LEMMA ExpiryStep == TypeOK /\ ExpiryInv /\ [Next]_vars => ExpiryInv'
  <1> SUFFICES ASSUME TypeOK, ExpiryInv, [Next]_vars PROVE ExpiryInv'
    OBVIOUS
  <1>now. \A now \in Now : now \in 0..MaxClock
    BY DEF Now
  <1>1. ASSUME NEW now \in Now, NEW o \in Ops, NEW k \in Kinds, Plan(o, k, now)
        PROVE  ExpiryInv'
    <2>1. /\ expiresAt' = [expiresAt EXCEPT ![o] = IF k = "draft" THEN NoExpiry ELSE now + Ttl]
          /\ kind' = [kind EXCEPT ![o] = k]
          /\ status' = [status EXCEPT ![o] = "planned"]
      BY <1>1 DEF Plan
    <2>2. now + Ttl \in Nat
      BY <1>now, LedgerAssumption
    <2> QED BY <2>1, <2>2 DEF ExpiryInv, TypeOK
  <1>2. ASSUME NEW now \in Now, Sweep(now), UNCHANGED <<kind, expiresAt>>
        PROVE  ExpiryInv'
    BY <1>2, <1>now, SweepEffect DEF Sweep, ExpiryInv
  <1>3. ASSUME NEW now \in Now, NEW o \in Ops, NEW from \in {"planned", "approved"},
               NEW to \in Statuses, CanTransition(o, now, from), Transition(o, now, to)
        PROVE  ExpiryInv'
    <2>1. status[o] # "none"
      BY <1>3, <1>now, SweepEffect DEF CanTransition
    <2>2. \A p \in Ops : status'[p] # "none" => status[p] # "none"
      BY <1>3, <1>now, <2>1, SweepEffect DEF Transition
    <2> QED BY <1>3, <2>2 DEF Transition, ExpiryInv
  <1>4. ASSUME NEW w \in Workers, NEW now \in Now, Finish(w, now) PROVE ExpiryInv'
    <2>1. target[w] \in Ops
      BY <1>4 DEF Finish, TypeOK
    <2>2. CASE status[target[w]] = "applying"
      <3>1. status' = [status EXCEPT ![target[w]] = Verdict(pc[w])] /\ UNCHANGED <<kind, expiresAt>>
        BY <1>4, <2>2 DEF Finish
      <3> QED BY <2>1, <2>2, <3>1 DEF ExpiryInv, TypeOK
    <2>3. CASE status[target[w]] # "applying"
      BY <1>4, <2>3 DEF Finish, table, ExpiryInv
    <2> QED BY <2>2, <2>3
  <1>5. CASE UNCHANGED table
    BY <1>5 DEF table, ExpiryInv
  <1>6. CASE LedgerStep
    <2>1. PICK now \in Now :
              \/ StatusRead(now)
              \/ \E o \in Ops : Approve(o, now) \/ \E k \in Kinds : Plan(o, k, now)
      BY <1>6 DEF LedgerStep
    <2>2. CASE StatusRead(now)
      BY <1>2, <2>2 DEF StatusRead
    <2>3. ASSUME NEW o \in Ops, Approve(o, now) PROVE ExpiryInv'
      BY <1>3, <2>3 DEF Approve, Statuses
    <2> QED BY <2>1, <2>2, <2>3, <1>1
  <1>7. ASSUME NEW w \in Workers, WorkerStep(w) PROVE ExpiryInv'
    <2>1. CASE \/ RejectKind(w) \/ Credentials(w) \/ PreflightFails(w) \/ Begin(w)
               \/ Respond(w) \/ RespondError(w) \/ Abandon(w)
      <3>1. UNCHANGED table
        BY <2>1 DEF RejectKind, Credentials, PreflightFails, Begin, Respond, RespondError,
                    Abandon
      <3> QED BY <3>1, <1>5
    <2>2. ASSUME NEW now \in Now, ClaimMail(w, now) PROVE ExpiryInv'
      <3>1. target[w] \in Ops
        BY <2>2 DEF ClaimMail, TypeOK
      <3> QED BY <2>2, <3>1, <1>3, <1>5 DEF ClaimMail, Statuses
    <2>3. ASSUME NEW now \in Now, NEW o \in Ops, ClaimSend(w, o, now) PROVE ExpiryInv'
      BY <2>3, <1>3 DEF ClaimSend, Statuses
    <2>4. ASSUME NEW now \in Now, NEW o \in Ops, PeekMail(w, o, now) PROVE ExpiryInv'
      BY <2>4, <1>2 DEF PeekMail
    <2> QED BY <1>7, <1>4, <2>1, <2>2, <2>3, <2>4 DEF WorkerStep
  <1>8. CASE (\E o \in Ops : Execute(o)) \/ Tick \/ UNCHANGED vars
    <2>1. UNCHANGED table
      BY <1>8 DEF Execute, Tick, vars, table
    <2> QED BY <2>1, <1>5
  <1> QED BY <1>6, <1>7, <1>8 DEF Next

\* One step leaves final statuses alone and claims only before expiry.
FinalsStep ==
    \A o \in Ops :
        /\ status[o] \in Finals => status'[o] = status[o]
        /\ status[o] # "applying" /\ status'[o] = "applying" => updatedAt'[o] < expiresAt[o]

\* One step leaves final statuses alone and claims before expiry only.
LEMMA FinalsStepHolds == TypeOK /\ ExpiryInv /\ [Next]_vars => FinalsStep
  <1> SUFFICES ASSUME TypeOK, ExpiryInv, [Next]_vars PROVE FinalsStep
    OBVIOUS
  <1>now. \A now \in Now : now \in 0..MaxClock
    BY DEF Now
  <1>1. CASE UNCHANGED status
    BY <1>1 DEF FinalsStep
  <1>2. ASSUME NEW now \in Now, Sweep(now) PROVE FinalsStep
    BY <1>2, <1>now, SweepEffect DEF Sweep, FinalsStep, Finals
  <1>3. ASSUME NEW now \in Now, NEW o \in Ops, NEW from \in {"planned", "approved"},
               NEW to \in Statuses, CanTransition(o, now, from), Transition(o, now, to)
        PROVE  FinalsStep
    <2>1. /\ status[o] = from /\ kind[o] # "draft" /\ ~Overdue(o, now)
      BY <1>3, <1>now, SweepEffect DEF CanTransition, SweptStatus
    <2>2. now < expiresAt[o]
      BY <2>1, <1>now DEF Overdue, ExpiryInv, NoExpiry
    <2>3. /\ status' = [SweptStatus(now) EXCEPT ![o] = to]
          /\ updatedAt' = [SweptUpdatedAt(now) EXCEPT ![o] = now]
      BY <1>3 DEF Transition
    <2>4. updatedAt'[o] = now
      BY <2>3, <1>now, SweepEffect
    <2>5. \A p \in Ops : p # o => status'[p] = SweptStatus(now)[p]
      BY <2>3, <1>now, SweepEffect
    <2>6. \A p \in Ops : p # o =>
              /\ status[p] \in Finals => status'[p] = status[p]
              /\ status'[p] = "applying" => status[p] = "applying"
      BY <2>5, <1>now, SweepEffect DEF Finals
    <2>7. status[o] \notin Finals /\ updatedAt'[o] < expiresAt[o]
      BY <2>1, <2>2, <2>4 DEF Finals
    <2>8. ASSUME NEW p \in Ops
          PROVE  /\ status[p] \in Finals => status'[p] = status[p]
                 /\ status[p] # "applying" /\ status'[p] = "applying"
                       => updatedAt'[p] < expiresAt[p]
      <3>1. CASE p = o
        BY <2>7, <3>1
      <3>2. CASE p # o
        BY <2>6, <3>2
      <3> QED BY <3>1, <3>2
    <2> QED BY <2>8 DEF FinalsStep
  <1>4. ASSUME NEW now \in Now, NEW o \in Ops, NEW k \in Kinds, Plan(o, k, now)
        PROVE  FinalsStep
    <2>1. status[o] = "none" /\ status' = [status EXCEPT ![o] = "planned"]
      BY <1>4 DEF Plan
    <2>2. status'[o] = "planned" /\ \A p \in Ops : p # o => status'[p] = status[p]
      BY <2>1 DEF TypeOK
    <2> QED BY <2>1, <2>2 DEF FinalsStep, Finals
  <1>5. ASSUME NEW w \in Workers, NEW now \in Now, Finish(w, now) PROVE FinalsStep
    <2>1. target[w] \in Ops
      BY <1>5 DEF Finish, TypeOK
    <2>2. CASE status[target[w]] = "applying"
      <3>1. status' = [status EXCEPT ![target[w]] = Verdict(pc[w])]
        BY <1>5, <2>2 DEF Finish
      <3>2. Verdict(pc[w]) \in {"succeeded", "failed", "ambiguous"}
        BY DEF Verdict
      <3>3. /\ status'[target[w]] # "applying"
            /\ \A p \in Ops : p # target[w] => status'[p] = status[p]
        BY <2>1, <3>1, <3>2 DEF TypeOK
      <3> QED BY <2>1, <2>2, <3>3 DEF FinalsStep, Finals
    <2>3. CASE status[target[w]] # "applying"
      BY <1>5, <2>3, <1>1 DEF Finish, table
    <2> QED BY <2>2, <2>3
  <1>6. CASE LedgerStep
    BY <1>6, <1>2, <1>3, <1>4 DEF LedgerStep, StatusRead, Approve, Statuses
  <1>7. ASSUME NEW w \in Workers, WorkerStep(w) PROVE FinalsStep
    <2>1. CASE \/ RejectKind(w) \/ Credentials(w) \/ PreflightFails(w) \/ Begin(w)
               \/ Respond(w) \/ RespondError(w) \/ Abandon(w)
      <3>1. UNCHANGED status
        BY <2>1 DEF RejectKind, Credentials, PreflightFails, Begin, Respond, RespondError,
                    Abandon, table
      <3> QED BY <3>1, <1>1
    <2>2. ASSUME NEW now \in Now, ClaimMail(w, now) PROVE FinalsStep
      <3>1. target[w] \in Ops
        BY <2>2 DEF ClaimMail, TypeOK
      <3>2. CASE UNCHANGED table
        BY <3>2, <1>1 DEF table
      <3> QED BY <2>2, <3>1, <3>2, <1>3 DEF ClaimMail, Statuses
    <2>3. ASSUME NEW now \in Now, NEW o \in Ops, ClaimSend(w, o, now) PROVE FinalsStep
      BY <2>3, <1>3 DEF ClaimSend, Statuses
    <2>4. ASSUME NEW now \in Now, NEW o \in Ops, PeekMail(w, o, now) PROVE FinalsStep
      BY <2>4, <1>2 DEF PeekMail
    <2> QED BY <1>7, <1>5, <2>1, <2>2, <2>3, <2>4 DEF WorkerStep
  <1>8. CASE (\E o \in Ops : Execute(o)) \/ Tick \/ UNCHANGED vars
    <2>1. UNCHANGED status
      BY <1>8 DEF Execute, Tick, vars, table
    <2> QED BY <2>1, <1>1
  <1> QED BY <1>6, <1>7, <1>8 DEF Next

\* Final statuses never change, whoever is late, and an operation is claimed
\* only by a transaction whose "now" lies before its expiry.
THEOREM FinalsStayHolds == Spec => FinalsStay
  <1>1. Init => ExpiryInv
    BY DEF Init, ExpiryInv
  <1>2. Spec => [](TypeOK /\ ExpiryInv)
    BY <1>1, TypeInit, TypeStep, ExpiryStep, PTL DEF Spec
  <1>3. TypeOK /\ ExpiryInv /\ [Next]_vars => [FinalsStep]_vars
    BY FinalsStepHolds
  <1>4. Spec => [][FinalsStep]_vars
    BY <1>2, <1>3, PTL DEF Spec
  <1> QED BY <1>4 DEF FinalsStay, FinalsStep

-----------------------------------------------------------------------------
(* The audit trail.                                                          *)

\* The events t an operation can have when its row shows status s.
Shows(t, s) ==
    \/ s = "none" /\ t = <<>>
    \/ s = "planned" /\ t = <<"planned">>
    \/ s = "approved" /\ t = <<"planned", "approved">>
    \/ s = "applying" /\ t = <<"planned", "approved", "applying">>
    \/ s = "expired" /\ t = <<"planned", "expired">>
    \/ s = "expired" /\ t = <<"planned", "approved", "expired">>
    \/ /\ s \in {"succeeded", "failed", "ambiguous"}
       /\ t = <<"planned", "approved", "applying", s>>

\* The row of an operation, its events and its attempt counter tell the same
\* story, and a draft never leaves the planned state.
TrailOk(o) ==
    /\ Shows(trail[o], status[o])
    /\ attempts[o] = IF status[o] \in {"applying", "succeeded", "failed", "ambiguous"}
                     THEN 1 ELSE 0
    /\ kind[o] = "draft" => \/ status[o] = "none"
                            \/ status[o] = "planned" /\ expiresAt[o] = NoExpiry

TrailInv == \A o \in Ops : TrailOk(o)

\* The empty ledger has no events.
LEMMA TrailInit == Init => TrailInv
  BY DEF Init, TrailInv, TrailOk, Shows

\* An appended trail, event by event.
LEMMA AppendedTrail ==
    ASSUME NEW t \in Seq(Statuses), NEW to \in Statuses
    PROVE  \E u \in Seq(Statuses) :
               /\ u = Append(t, to)
               /\ Len(u) = Len(t) + 1
               /\ u[Len(t) + 1] = to
               /\ \A i \in 1..Len(t) : u[i] = t[i]
  <1>1. Append(t, to) \in Seq(Statuses)
    OBVIOUS
  <1>2. Len(Append(t, to)) = Len(t) + 1
    OBVIOUS
  <1>3. Append(t, to)[Len(t) + 1] = to
    OBVIOUS
  <1>4. \A i \in 1..Len(t) : Append(t, to)[i] = t[i]
    OBVIOUS
  <1> QED BY <1>1, <1>2, <1>3, <1>4, Zenon

\* Appending the status an edge of the lifecycle leads to gives a trail of
\* that status.
LEMMA AppendEdge ==
    ASSUME NEW s, NEW t \in Seq(Statuses), NEW to \in Statuses, Shows(t, s),
           <<s, to>> \in Lifecycle
    PROVE  Shows(Append(t, to), to)
  <1>0. PICK u \in Seq(Statuses) :
            /\ u = Append(t, to)
            /\ Len(u) = Len(t) + 1
            /\ u[Len(t) + 1] = to
            /\ \A i \in 1..Len(t) : u[i] = t[i]
    BY AppendedTrail
  <1>1. CASE s = "planned"
    <2>1. t = <<"planned">> /\ to \in {"approved", "expired"}
      BY <1>1 DEF Shows, Lifecycle
    <2>2. Len(u) = 2 /\ u[1] = "planned" /\ u[2] = to
      BY <1>0, <2>1
    <2>3. u = <<"planned", to>>
      BY <2>2
    <2> QED BY <1>0, <2>1, <2>3 DEF Shows
  <1>2. CASE s = "approved"
    <2>1. t = <<"planned", "approved">> /\ to \in {"applying", "expired"}
      BY <1>2 DEF Shows, Lifecycle
    <2>2. Len(u) = 3 /\ u[1] = "planned" /\ u[2] = "approved" /\ u[3] = to
      BY <1>0, <2>1
    <2>3. u = <<"planned", "approved", to>>
      BY <2>2
    <2> QED BY <1>0, <2>1, <2>3 DEF Shows
  <1>3. CASE s = "applying"
    <2>1. t = <<"planned", "approved", "applying">> /\ to \in {"succeeded", "failed", "ambiguous"}
      BY <1>3 DEF Shows, Lifecycle
    <2>2. Len(u) = 4 /\ u[1] = "planned" /\ u[2] = "approved" /\ u[3] = "applying" /\ u[4] = to
      BY <1>0, <2>1
    <2>3. u = <<"planned", "approved", "applying", to>>
      BY <2>2
    <2> QED BY <1>0, <2>1, <2>3 DEF Shows
  <1> QED BY <1>1, <1>2, <1>3 DEF Lifecycle

\* What the trail of a status looks like, event by event.
LEMMA ShownTrail ==
    ASSUME NEW s, NEW t \in Seq(Statuses), Shows(t, s)
    PROVE  /\ s = "none" <=> t = <<>>
           /\ t # <<>> => /\ t[1] = "planned"
                          /\ t[Len(t)] = s
                          /\ \A i \in 1..Len(t) - 1 : <<t[i], t[i + 1]>> \in Lifecycle
           /\ (\E i \in DOMAIN t : t[i] = "applying")
                 <=> s \in {"applying", "succeeded", "failed", "ambiguous"}
  <1>1. CASE s = "none" /\ t = <<>>
    BY <1>1
  <1>2. CASE s = "planned" /\ t = <<"planned">>
    BY <1>2
  <1>3. CASE s = "approved" /\ t = <<"planned", "approved">>
    BY <1>3 DEF Lifecycle
  <1>4. CASE s = "applying" /\ t = <<"planned", "approved", "applying">>
    BY <1>4 DEF Lifecycle
  <1>5. CASE s = "expired" /\ t = <<"planned", "expired">>
    BY <1>5 DEF Lifecycle
  <1>6. CASE s = "expired" /\ t = <<"planned", "approved", "expired">>
    BY <1>6 DEF Lifecycle
  <1>7. CASE /\ s \in {"succeeded", "failed", "ambiguous"}
             /\ t = <<"planned", "approved", "applying", s>>
    BY <1>7 DEF Lifecycle
  <1> QED BY <1>1, <1>2, <1>3, <1>4, <1>5, <1>6, <1>7 DEF Shows

\* A row that was ever claimed was planned, approved and then claimed.
LEMMA ClaimedTrail ==
    ASSUME NEW s \in {"applying", "succeeded", "failed", "ambiguous"},
           NEW t \in Seq(Statuses), Shows(t, s)
    PROVE  /\ Len(t) >= 3
           /\ SubSeq(t, 1, 3) = <<"planned", "approved", "applying">>
  <1>1. Len(t) >= 3 /\ t[1] = "planned" /\ t[2] = "approved" /\ t[3] = "applying"
    <2>1. CASE t = <<"planned", "approved", "applying">>
      BY <2>1
    <2>2. CASE t = <<"planned", "approved", "applying", s>>
      BY <2>2
    <2> QED BY <2>1, <2>2 DEF Shows
  <1>2. /\ SubSeq(t, 1, 3) \in Seq(Statuses)
        /\ Len(SubSeq(t, 1, 3)) = 3
        /\ \A i \in 1..3 : SubSeq(t, 1, 3)[i] = t[i]
    BY <1>1
  <1>3. PICK u \in Seq(Statuses) :
            u = SubSeq(t, 1, 3) /\ Len(u) = 3 /\ \A i \in 1..3 : u[i] = t[i]
    BY <1>2, Zenon
  <1>4. Len(u) = 3 /\ u[1] = "planned" /\ u[2] = "approved" /\ u[3] = "applying"
    BY <1>1, <1>3
  <1>5. u = <<"planned", "approved", "applying">>
    BY <1>4
  <1> QED BY <1>1, <1>3, <1>5

\* A sweep moves every overdue or stale row along an edge of the lifecycle,
\* with its event.
LEMMA SweptTrailShows ==
    ASSUME TypeOK, TrailInv, NEW now \in 0..MaxClock, NEW o \in Ops
    PROVE  Shows(SweptTrail(now)[o], SweptStatus(now)[o])
  <1>1. CASE Overdue(o, now)
    <2>1. SweptStatus(now)[o] = "expired" /\ SweptTrail(now)[o] = Append(trail[o], "expired")
      BY <1>1 DEF SweptStatus, SweptTrail
    <2>2. <<status[o], "expired">> \in Lifecycle /\ "expired" \in Statuses
      BY <1>1 DEF Overdue, Lifecycle, Statuses, Finals
    <2> QED BY <2>1, <2>2, AppendEdge DEF TrailInv, TrailOk, TypeOK
  <1>2. CASE ~Overdue(o, now) /\ Stale(o, now)
    <2>1. SweptStatus(now)[o] = "ambiguous" /\ SweptTrail(now)[o] = Append(trail[o], "ambiguous")
      BY <1>2 DEF SweptStatus, SweptTrail
    <2>2. <<status[o], "ambiguous">> \in Lifecycle /\ "ambiguous" \in Statuses
      BY <1>2 DEF Stale, Lifecycle, Statuses, Finals
    <2> QED BY <2>1, <2>2, AppendEdge DEF TrailInv, TrailOk, TypeOK
  <1>3. CASE ~Overdue(o, now) /\ ~Stale(o, now)
    <2>1. SweptStatus(now)[o] = status[o] /\ SweptTrail(now)[o] = trail[o]
      BY <1>3 DEF SweptStatus, SweptTrail
    <2> QED BY <2>1 DEF TrailInv, TrailOk
  <1> QED BY <1>1, <1>2, <1>3

\* An operation that only the sweeps touch.
LEMMA SweepKeepsTrail ==
    ASSUME TypeOK, TrailInv, NEW now \in 0..MaxClock, NEW o \in Ops,
           status'[o] = SweptStatus(now)[o], trail'[o] = SweptTrail(now)[o],
           kind'[o] = kind[o], attempts'[o] = attempts[o], expiresAt'[o] = expiresAt[o]
    PROVE  TrailOk(o)'
  <1>1. Shows(trail'[o], status'[o])
    BY SweptTrailShows
  <1>2. kind[o] = "draft" => SweptStatus(now)[o] = status[o]
    BY DEF Stale, Overdue, SweptStatus, TrailInv, TrailOk
  <1> QED BY <1>1, <1>2, SweepEffect DEF TrailInv, TrailOk

\* An approval or a claim, with the sweeps it starts with.
LEMMA TransitionKeepsTrail ==
    ASSUME TypeOK, TrailInv, NEW now \in 0..MaxClock, NEW o \in Ops, NEW from, NEW to,
           \/ from = "planned" /\ to = "approved"
           \/ from = "approved" /\ to = "applying",
           CanTransition(o, now, from), Transition(o, now, to)
    PROVE  TrailInv'
  <1>1. status[o] = from /\ kind[o] # "draft" /\ SweptStatus(now)[o] = from
    BY SweepEffect DEF CanTransition
  <1>2. /\ <<from, to>> \in Lifecycle /\ to \in Statuses
    BY DEF Lifecycle, Statuses
  <1>3. /\ SweptStatus(now) \in [Ops -> Statuses \cup {"none"}]
        /\ SweptTrail(now) \in [Ops -> Seq(Statuses)]
    BY SweepEffect
  <1>4. /\ status'[o] = to /\ trail'[o] = Append(SweptTrail(now)[o], to)
        /\ attempts'[o] = attempts[o] + (IF to = "applying" THEN 1 ELSE 0)
        /\ kind'[o] # "draft"
    BY <1>1, <1>3 DEF Transition, TypeOK
  <1>5. Shows(trail'[o], status'[o])
    BY <1>1, <1>2, <1>3, <1>4, SweptTrailShows, AppendEdge
  <1>6. TrailOk(o)'
    BY <1>1, <1>4, <1>5 DEF TrailInv, TrailOk
  <1>7. ASSUME NEW p \in Ops, p # o PROVE TrailOk(p)'
    <2>1. /\ status'[p] = SweptStatus(now)[p] /\ trail'[p] = SweptTrail(now)[p]
          /\ attempts'[p] = attempts[p] /\ kind'[p] = kind[p] /\ expiresAt'[p] = expiresAt[p]
      BY <1>3, <1>7 DEF Transition, TypeOK
    <2> QED BY <2>1, SweepKeepsTrail
  <1> QED BY <1>6, <1>7 DEF TrailInv, TrailOk

\* Every transaction changes a row together with its events.
LEMMA TrailStep == TypeOK /\ TrailInv /\ [Next]_vars => TrailInv'
  <1> SUFFICES ASSUME TypeOK, TrailInv, [Next]_vars PROVE TrailInv'
    OBVIOUS
  <1>now. \A now \in Now : now \in 0..MaxClock
    BY DEF Now
  <1>1. CASE UNCHANGED table
    BY <1>1 DEF table, TrailInv, TrailOk
  <1>2. ASSUME NEW now \in Now, Sweep(now), UNCHANGED <<kind, attempts, expiresAt>>
        PROVE  TrailInv'
    <2>1. ASSUME NEW o \in Ops PROVE TrailOk(o)'
      BY <1>now, <1>2, SweepKeepsTrail DEF Sweep
    <2> QED BY <2>1 DEF TrailInv, TrailOk
  <1>3. ASSUME NEW now \in Now, NEW o \in Ops, NEW k \in Kinds, Plan(o, k, now)
        PROVE  TrailInv'
    <2>1. /\ status[o] = "none" /\ status'[o] = "planned" /\ trail'[o] = <<"planned">>
          /\ attempts'[o] = attempts[o] /\ kind'[o] = k
          /\ k = "draft" => expiresAt'[o] = NoExpiry
      BY <1>3 DEF Plan, TypeOK
    <2>2. \A p \in Ops : p # o => /\ status'[p] = status[p] /\ trail'[p] = trail[p]
                                  /\ attempts'[p] = attempts[p] /\ kind'[p] = kind[p]
                                  /\ expiresAt'[p] = expiresAt[p]
      BY <1>3 DEF Plan, TypeOK
    <2>3. Shows(trail'[o], status'[o])
      BY <2>1 DEF Shows
    <2>4. TrailOk(o)'
      BY <2>1, <2>3 DEF TrailInv, TrailOk
    <2>5. ASSUME NEW p \in Ops, p # o PROVE TrailOk(p)'
      BY <2>2, <2>5 DEF TrailInv, TrailOk
    <2> QED BY <2>4, <2>5 DEF TrailInv, TrailOk
  <1>4. ASSUME NEW w \in Workers, NEW now \in Now, Finish(w, now) PROVE TrailInv'
    <2>0. PICK o \in Ops : o = target[w]
      BY <1>4 DEF Finish, TypeOK
    <2>1. CASE status[o] = "applying"
      <3>1. Verdict(pc[w]) \in {"succeeded", "failed", "ambiguous"}
        BY DEF Verdict
      <3>2. PICK s : s = Verdict(pc[w])
        BY <3>1
      <3>3. /\ status' = [status EXCEPT ![o] = s]
            /\ trail' = [trail EXCEPT ![o] = Append(@, s)]
            /\ UNCHANGED <<kind, expiresAt, attempts>>
        BY <1>4, <2>0, <2>1, <3>2 DEF Finish
      <3>4. /\ status'[o] = s /\ trail'[o] = Append(trail[o], s)
            /\ \A p \in Ops : p # o => status'[p] = status[p] /\ trail'[p] = trail[p]
        BY <3>3 DEF TypeOK
      <3>5. <<status[o], s>> \in Lifecycle /\ s \in Statuses
        BY <2>1, <3>1, <3>2 DEF Lifecycle, Statuses, Finals
      <3>6. Shows(trail'[o], status'[o])
        BY <3>4, <3>5, AppendEdge DEF TrailInv, TrailOk, TypeOK
      <3>7. TrailOk(o)'
        BY <2>1, <3>1, <3>2, <3>3, <3>4, <3>6 DEF TrailInv, TrailOk
      <3>8. ASSUME NEW p \in Ops, p # o PROVE TrailOk(p)'
        BY <3>3, <3>4, <3>8 DEF TrailInv, TrailOk
      <3> QED BY <3>7, <3>8 DEF TrailInv, TrailOk
    <2>2. CASE status[o] # "applying"
      BY <1>1, <1>4, <2>0, <2>2 DEF Finish
    <2> QED BY <2>1, <2>2
  <1>5. CASE LedgerStep
    <2>1. PICK now \in Now :
              \/ StatusRead(now)
              \/ \E o \in Ops : Approve(o, now) \/ \E k \in Kinds : Plan(o, k, now)
      BY <1>5 DEF LedgerStep
    <2>2. CASE StatusRead(now)
      BY <1>2, <2>2 DEF StatusRead
    <2>3. ASSUME NEW o \in Ops, Approve(o, now) PROVE TrailInv'
      BY <1>now, <2>3, TransitionKeepsTrail DEF Approve
    <2> QED BY <2>1, <2>2, <2>3, <1>3
  <1>6. ASSUME NEW w \in Workers, WorkerStep(w) PROVE TrailInv'
    <2>1. CASE \/ RejectKind(w) \/ Credentials(w) \/ PreflightFails(w) \/ Begin(w)
               \/ Respond(w) \/ RespondError(w) \/ Abandon(w)
      <3>1. UNCHANGED table
        BY <2>1 DEF RejectKind, Credentials, PreflightFails, Begin, Respond, RespondError,
                    Abandon
      <3> QED BY <3>1, <1>1
    <2>2. ASSUME NEW now \in Now, ClaimMail(w, now) PROVE TrailInv'
      <3>1. target[w] \in Ops
        BY <2>2 DEF ClaimMail, TypeOK
      <3> QED BY <1>now, <2>2, <3>1, <1>1, TransitionKeepsTrail DEF ClaimMail
    <2>3. ASSUME NEW now \in Now, NEW o \in Ops, ClaimSend(w, o, now) PROVE TrailInv'
      BY <1>now, <2>3, TransitionKeepsTrail DEF ClaimSend
    <2>4. ASSUME NEW now \in Now, NEW o \in Ops, PeekMail(w, o, now) PROVE TrailInv'
      BY <2>4, <1>2 DEF PeekMail
    <2> QED BY <1>6, <1>4, <2>1, <2>2, <2>3, <2>4 DEF WorkerStep
  <1>7. CASE (\E o \in Ops : Execute(o)) \/ Tick \/ UNCHANGED vars
    <2>1. UNCHANGED table
      BY <1>7 DEF Execute, Tick, vars, table
    <2> QED BY <2>1, <1>1
  <1> QED BY <1>5, <1>6, <1>7 DEF Next

\* Rows, events and counters stay in step for ever.
LEMMA TrailInvariance == Spec => [](TypeOK /\ TrailInv)
  BY TypeInit, TypeStep, TrailInit, TrailStep, PTL DEF Spec

\* The events of every operation replay to its row: they follow the lifecycle,
\* end in the row's status, and count its attempts.
THEOREM AuditReplaysHolds == Spec => []AuditReplays
  <1>1. TypeOK /\ TrailInv => AuditReplays
    <2> SUFFICES ASSUME TypeOK, TrailInv, NEW o \in Ops
                 PROVE  /\ status[o] = "none" <=> trail[o] = <<>>
                        /\ trail[o] # <<>> =>
                              /\ trail[o][1] = "planned"
                              /\ trail[o][Len(trail[o])] = status[o]
                              /\ \A i \in 1..Len(trail[o]) - 1 :
                                    <<trail[o][i], trail[o][i + 1]>> \in Lifecycle
                        /\ attempts[o] = IF \E i \in DOMAIN trail[o] : trail[o][i] = "applying"
                                         THEN 1 ELSE 0
      BY DEF AuditReplays
    <2>1. trail[o] \in Seq(Statuses) /\ Shows(trail[o], status[o])
      BY DEF TypeOK, TrailInv, TrailOk
    <2>2. attempts[o] = IF status[o] \in {"applying", "succeeded", "failed", "ambiguous"}
                        THEN 1 ELSE 0
      BY DEF TrailInv, TrailOk
    <2> QED BY <2>1, <2>2, ShownTrail
  <1> QED BY <1>1, TrailInvariance, PTL

\* Whatever reaches the provider was planned, approved and claimed, in this
\* order, and is no draft.
THEOREM InvokedOnlyIfApprovedHolds == Spec => []InvokedOnlyIfApproved
  <1>1. TypeOK /\ LedgerInv /\ TrailInv => InvokedOnlyIfApproved
    <2> SUFFICES ASSUME TypeOK, LedgerInv, TrailInv, NEW o \in Ops, begins[o] > 0
                 PROVE  /\ kind[o] # "draft"
                        /\ Len(trail[o]) >= 3
                        /\ SubSeq(trail[o], 1, 3) = <<"planned", "approved", "applying">>
      BY DEF InvokedOnlyIfApproved
    <2>1. status[o] \in {"applying", "succeeded", "ambiguous"}
      BY DEF LedgerInv, ProviderInv, TypeOK
    <2>2. kind[o] # "draft"
      BY <2>1 DEF TrailInv, TrailOk
    <2>3. trail[o] \in Seq(Statuses) /\ Shows(trail[o], status[o])
      BY DEF TypeOK, TrailInv, TrailOk
    <2> QED BY <2>1, <2>2, <2>3, ClaimedTrail
  <1> QED BY <1>1, Invariance, TrailInvariance, PTL

-----------------------------------------------------------------------------
(* The ledger implements GovernedOperation.                                  *)

\* The provider has carried out everything the attempt on o consists of.
IsApplied(o) == begins[o] > 0 /\ done[o] = need[o]

\* Some command of the attempt on o was sent.
IsInvoked(o) == issued[o] > 0

\* The values of the mapped variables, before and after a step.
LEMMA MappedValues ==
    ASSUME NEW o \in Ops
    PROVE  /\ Invoked[o] = IsInvoked(o)
           /\ Applied[o] = IsApplied(o)
           /\ Invoked'[o] = IsInvoked(o)'
           /\ Applied'[o] = IsApplied(o)'
  BY Zenon DEF Invoked, Applied, IsInvoked, IsApplied

\* The same, as truth values.
LEMMA MappedTruth ==
    ASSUME NEW o \in Ops
    PROVE  /\ IsInvoked(o) => Invoked[o] = TRUE
           /\ ~IsInvoked(o) => Invoked[o] = FALSE
           /\ IsApplied(o) => Applied[o] = TRUE
           /\ ~IsApplied(o) => Applied[o] = FALSE
           /\ IsInvoked(o)' => Invoked'[o] = TRUE
           /\ ~IsInvoked(o)' => Invoked'[o] = FALSE
           /\ IsApplied(o)' => Applied'[o] = TRUE
           /\ ~IsApplied(o)' => Applied'[o] = FALSE
  <1>1. ASSUME IsInvoked(o) PROVE Invoked[o] = TRUE
    BY <1>1, MappedValues, Zenon
  <1>2. ASSUME ~IsInvoked(o) PROVE Invoked[o] = FALSE
    <2>1. IsInvoked(o) = FALSE
      BY <1>2
    <2> QED BY <2>1, MappedValues
  <1>3. ASSUME IsApplied(o) PROVE Applied[o] = TRUE
    BY <1>3, MappedValues, Zenon
  <1>4. ASSUME ~IsApplied(o) PROVE Applied[o] = FALSE
    <2>1. IsApplied(o) = FALSE
      BY <1>4
    <2> QED BY <2>1, MappedValues
  <1>5. ASSUME IsInvoked(o)' PROVE Invoked'[o] = TRUE
    BY <1>5, MappedValues, Zenon
  <1>6. ASSUME ~IsInvoked(o)' PROVE Invoked'[o] = FALSE
    <2>1. IsInvoked(o)' = FALSE
      BY <1>6
    <2> QED BY <2>1, MappedValues
  <1>7. ASSUME IsApplied(o)' PROVE Applied'[o] = TRUE
    BY <1>7, MappedValues, Zenon
  <1>8. ASSUME ~IsApplied(o)' PROVE Applied'[o] = FALSE
    <2>1. IsApplied(o)' = FALSE
      BY <1>8
    <2> QED BY <2>1, MappedValues
  <1> QED BY <1>1, <1>2, <1>3, <1>4, <1>5, <1>6, <1>7, <1>8

\* An operation none of whose rows and attempts changed maps to itself.
LEMMA UntouchedIsSame ==
    ASSUME NEW o \in Ops, begins'[o] = begins[o], need'[o] = need[o],
           issued'[o] = issued[o], done'[o] = done[o]
    PROVE  Invoked'[o] = Invoked[o] /\ Applied'[o] = Applied[o]
  BY DEF Invoked, Applied

\* A row that moves along an edge of the lifecycle without the provider being
\* touched takes the corresponding abstract step.
LEMMA EdgeIsStep ==
    ASSUME TypeOK, LedgerInv, NEW o \in Ops,
           begins'[o] = begins[o], need'[o] = need[o],
           issued'[o] = issued[o], done'[o] = done[o],
           \/ status'[o] = status[o]
           \/ status[o] = "none" /\ status'[o] = "planned"
           \/ status[o] = "planned" /\ status'[o] = "approved"
           \/ status[o] \in {"planned", "approved"} /\ status'[o] = "expired"
           \/ status[o] = "approved" /\ status'[o] = "applying"
           \/ status[o] = "applying" /\ status'[o] = "ambiguous"
           \/ status[o] = "applying" /\ status'[o] = "succeeded" /\ IsApplied(o)
           \/ status[o] = "applying" /\ status'[o] = "failed" /\ begins[o] = 0
    PROVE  Governed!Step(o)
  <1>1. Invoked'[o] = Invoked[o] /\ Applied'[o] = Applied[o]
    BY UntouchedIsSame
  <1>2. CASE status'[o] = status[o]
    BY <1>1, <1>2 DEF Governed!Step, Governed!Same
  <1>3. CASE status[o] = "none" /\ status'[o] = "planned"
    BY <1>1, <1>3 DEF Governed!Step, Governed!Create, Governed!Moves
  <1>4. CASE status[o] = "planned" /\ status'[o] = "approved"
    BY <1>1, <1>4 DEF Governed!Step, Governed!Approve, Governed!Moves
  <1>5. CASE status[o] \in {"planned", "approved"} /\ status'[o] = "expired"
    BY <1>1, <1>5 DEF Governed!Step, Governed!Expire, Governed!Moves
  <1>6. CASE status[o] = "approved" /\ status'[o] = "applying"
    BY <1>1, <1>6 DEF Governed!Step, Governed!Claim, Governed!Moves
  <1>7. CASE status[o] = "applying" /\ status'[o] = "ambiguous"
    BY <1>1, <1>7 DEF Governed!Step, Governed!Doubt, Governed!Moves
  <1>8. CASE status[o] = "applying" /\ status'[o] = "succeeded" /\ IsApplied(o)
    <2>1. Applied[o]
      BY <1>8, MappedValues, Zenon
    <2> QED BY <1>1, <1>8, <2>1 DEF Governed!Step, Governed!Succeed, Governed!Moves
  <1>9. CASE status[o] = "applying" /\ status'[o] = "failed" /\ begins[o] = 0
    <2>1. ~IsApplied(o)
      BY <1>9 DEF IsApplied
    <2>2. ~IsInvoked(o)
      BY <1>9 DEF IsInvoked, LedgerInv, ProviderInv, TypeOK
    <2>3. ~Invoked[o] /\ ~Applied[o]
      BY <2>1, <2>2, MappedValues, Zenon
    <2> QED BY <1>1, <1>9, <2>3 DEF Governed!Step, Governed!Fail, Governed!Moves
  <1> QED BY <1>2, <1>3, <1>4, <1>5, <1>6, <1>7, <1>8, <1>9

\* The empty ledger maps to operations that are not planned yet.
LEMMA RefinementInit == Init => Governed!Init
  <1> SUFFICES ASSUME Init PROVE Governed!Init
    OBVIOUS
  <1>0. ASSUME NEW o \in Ops PROVE ~IsInvoked(o) /\ ~IsApplied(o)
    BY DEF Init, IsInvoked, IsApplied
  <1>1. \A o \in Ops : Invoked[o] = FALSE /\ Applied[o] = FALSE
    BY <1>0, MappedTruth
  <1>2. /\ Invoked = [o \in Ops |-> Invoked[o]]
        /\ Applied = [o \in Ops |-> Applied[o]]
    BY Zenon DEF Invoked, Applied
  <1> QED BY <1>1, <1>2 DEF Init, Governed!Init

\* A sweep, alone or followed by one transition, moves every row along an
\* edge and leaves the provider alone.
LEMMA SweepRefines ==
    ASSUME TypeOK, LedgerInv, NEW now \in 0..MaxClock, Sweep(now), UNCHANGED remote
    PROVE  Governed!Next
  <1>1. ASSUME NEW o \in Ops PROVE Governed!Step(o)
    <2>1. status'[o] = SweptStatus(now)[o] /\ UNCHANGED <<begins, need, issued, done>>
      BY DEF Sweep, remote
    <2> QED BY <2>1, SweepEffect, EdgeIsStep
  <1> QED BY <1>1 DEF Governed!Next

\* A transition of one operation, with the sweep it starts with, maps to
\* edges of the abstract lifecycle.
LEMMA TransitionRefines ==
    ASSUME TypeOK, LedgerInv, NEW now \in 0..MaxClock, NEW o \in Ops,
           NEW from, NEW to, <<from, to>> \in {<<"planned", "approved">>, <<"approved", "applying">>},
           CanTransition(o, now, from), Transition(o, now, to), UNCHANGED remote
    PROVE  Governed!Next
  <1>0. \/ from = "planned" /\ to = "approved"
        \/ from = "approved" /\ to = "applying"
    OBVIOUS
  <1>1. /\ status[o] = from
        /\ status' = [SweptStatus(now) EXCEPT ![o] = to]
        /\ UNCHANGED <<begins, need, issued, done>>
    BY <1>0, SweepKeeps DEF CanTransition, Transition, remote
  <1>2. ASSUME NEW p \in Ops PROVE Governed!Step(p)
    <2>1. CASE p = o
      <3>1. status'[o] = to
        BY <1>1, SweepEffect
      <3> QED BY <1>0, <1>1, <2>1, <3>1, EdgeIsStep
    <2>2. CASE p # o
      <3>1. status'[p] = SweptStatus(now)[p]
        BY <1>1, <2>2, SweepEffect
      <3> QED BY <1>1, <3>1, SweepEffect, EdgeIsStep
    <2> QED BY <2>1, <2>2
  <1> QED BY <1>2 DEF Governed!Next

\* The first command of a claimed attempt maps to the abstract invocation.
LEMMA BeginRefines ==
    ASSUME TypeOK, LedgerInv, NEW w \in Workers, Begin(w)
    PROVE  Governed!Next
  <1>0. PICK o \in Ops : o = target[w]
    BY DEF Begin, TypeOK
  <1>1. /\ o \in Ops /\ UNCHANGED <<status, done>>
        /\ status[o] \in {"applying", "ambiguous"}
        /\ begins[o] = 0 /\ need[o] = 0 /\ issued[o] = 0 /\ done[o] = 0
    BY <1>0 DEF Begin, table, LedgerInv, ClaimInv, AttemptInv, ProviderInv, TypeOK, Holding
  <1>2. PICK n \in CommandCounts(kind[o]) :
          /\ begins' = [begins EXCEPT ![o] = @ + 1]
          /\ need' = [need EXCEPT ![o] = n]
          /\ IF n = 0
             THEN MoveTo(w, "succeeding") /\ UNCHANGED issued
             ELSE /\ MoveTo(w, "waiting")
                  /\ issued' = [issued EXCEPT ![o] = @ + 1]
    BY <1>0 DEF Begin
  <1>3. /\ begins'[o] = 1 /\ need'[o] = n /\ n \in 0..2
        /\ \A p \in Ops : p # o => begins'[p] = begins[p] /\ need'[p] = need[p]
    BY <1>1, <1>2 DEF TypeOK, CommandCounts
  <1>4. ~Invoked[o] /\ ~Applied[o]
    <2>1. ~IsInvoked(o) /\ ~IsApplied(o)
      BY <1>1 DEF IsInvoked, IsApplied
    <2> QED BY <1>1, <2>1, MappedValues, Zenon
  <1>5. CASE n = 0
    <2>1. issued' = issued
      BY <1>2, <1>5
    <2>2. Applied'[o] = TRUE /\ Invoked'[o] = Invoked[o]
      <3>1. IsApplied(o)' /\ ~IsInvoked(o) /\ ~IsInvoked(o)'
        BY <1>1, <1>3, <1>5, <2>1 DEF IsApplied, IsInvoked
      <3> QED BY <3>1, MappedTruth
    <2>3. Governed!Step(o)
      BY <1>1, <1>4, <2>2 DEF Governed!Step, Governed!Skip
    <2>4. ASSUME NEW p \in Ops, p # o PROVE Governed!Step(p)
      BY <1>1, <1>3, <2>1, <2>4, EdgeIsStep
    <2> QED BY <2>3, <2>4 DEF Governed!Next
  <1>6. CASE n # 0
    <2>1. issued' = [issued EXCEPT ![o] = @ + 1]
      BY <1>2, <1>6
    <2>2. issued'[o] = 1 /\ \A p \in Ops : p # o => issued'[p] = issued[p]
      BY <1>1, <2>1 DEF TypeOK
    <2>3. Applied'[o] = Applied[o] /\ Invoked'[o] = TRUE
      <3>1. ~IsApplied(o) /\ ~IsApplied(o)'
        BY <1>1, <1>3, <1>6 DEF IsApplied
      <3>2. IsInvoked(o)'
        BY <2>2 DEF IsInvoked
      <3> QED BY <3>1, <3>2, MappedTruth
    <2>4. Governed!Step(o)
      BY <1>1, <1>4, <2>3 DEF Governed!Step, Governed!Invoke
    <2>5. ASSUME NEW p \in Ops, p # o PROVE Governed!Step(p)
      BY <1>1, <1>3, <2>2, <2>5, EdgeIsStep
    <2> QED BY <2>4, <2>5 DEF Governed!Next
  <1> QED BY <1>5, <1>6

\* A command that the provider executes maps to the abstract effect.
LEMMA ExecuteRefines ==
    ASSUME TypeOK, LedgerInv, NEW o \in Ops, Execute(o)
    PROVE  Governed!Next
  <1>1. /\ done[o] < issued[o] /\ done'[o] = done[o] + 1
        /\ \A p \in Ops : p # o => done'[p] = done[p]
        /\ UNCHANGED <<status, begins, need, issued>>
    BY DEF Execute, table, TypeOK
  <1>2. /\ done[o] \in Nat /\ issued[o] \in Nat /\ need[o] \in 0..2 /\ done[o] < need[o]
    BY <1>1 DEF TypeOK, LedgerInv, ProviderInv
  <1>3. begins[o] > 0
    BY <1>2 DEF TypeOK, LedgerInv, ProviderInv
  <1>4. Invoked[o] /\ ~Applied[o] /\ Invoked'[o] = Invoked[o]
    <2>1. IsInvoked(o) /\ IsInvoked(o)' /\ ~IsApplied(o)
      BY <1>1, <1>2 DEF IsApplied, IsInvoked
    <2> QED BY <2>1, MappedTruth
  <1>5. Governed!Step(o)
    <2>1. CASE done[o] + 1 = need[o]
      <3>0. IsApplied(o)'
        BY <1>1, <1>3, <2>1 DEF IsApplied
      <3>1. Applied'[o] = TRUE
        BY <3>0, MappedTruth
      <3> QED BY <1>1, <1>4, <3>1 DEF Governed!Step, Governed!TakeEffect
    <2>2. CASE done[o] + 1 # need[o]
      <3>0. ~IsApplied(o)' /\ ~IsApplied(o)
        BY <1>1, <1>2, <2>2 DEF IsApplied
      <3>1. Applied'[o] = FALSE /\ Applied[o] = FALSE
        BY <3>0, MappedTruth
      <3> QED BY <1>1, <1>4, <3>1 DEF Governed!Step, Governed!Same
    <2> QED BY <2>1, <2>2
  <1>6. ASSUME NEW p \in Ops, p # o PROVE Governed!Step(p)
    BY <1>1, <1>6, EdgeIsStep
  <1> QED BY <1>5, <1>6 DEF Governed!Next

\* Every step of the ledger maps to an abstract step or to none.
LEMMA RefinementStep == TypeOK /\ LedgerInv /\ [Next]_vars => [Governed!Next]_Governed!gvars
  <1> SUFFICES ASSUME TypeOK, LedgerInv, [Next]_vars PROVE Governed!Next
    OBVIOUS
  <1>now. \A now \in Now : now \in 0..MaxClock
    BY DEF Now
  <1>1. CASE UNCHANGED <<status, begins, need, issued, done>>
    BY <1>1, EdgeIsStep DEF Governed!Next
  <1>2. CASE LedgerStep
    <2>1. PICK now \in Now :
              \/ StatusRead(now)
              \/ \E o \in Ops : Approve(o, now) \/ \E k \in Kinds : Plan(o, k, now)
      BY <1>2 DEF LedgerStep
    <2>2. CASE StatusRead(now)
      BY <1>now, <2>2, SweepRefines DEF StatusRead
    <2>3. ASSUME NEW o \in Ops, Approve(o, now) PROVE Governed!Next
      BY <1>now, <2>3, TransitionRefines DEF Approve
    <2>4. ASSUME NEW o \in Ops, NEW k \in Kinds, Plan(o, k, now) PROVE Governed!Next
      <3>1. /\ status[o] = "none" /\ status' = [status EXCEPT ![o] = "planned"]
            /\ UNCHANGED <<begins, need, issued, done>>
        BY <2>4 DEF Plan, remote
      <3>2. status'[o] = "planned" /\ \A p \in Ops : p # o => status'[p] = status[p]
        BY <3>1 DEF TypeOK
      <3>3. ASSUME NEW p \in Ops PROVE Governed!Step(p)
        BY <3>1, <3>2, EdgeIsStep
      <3> QED BY <3>3 DEF Governed!Next
    <2> QED BY <2>1, <2>2, <2>3, <2>4
  <1>3. ASSUME NEW w \in Workers, WorkerStep(w) PROVE Governed!Next
    <2>1. CASE RejectKind(w) \/ Credentials(w) \/ PreflightFails(w) \/ RespondError(w) \/ Abandon(w)
      <3>1. UNCHANGED <<status, begins, need, issued, done>>
        BY <2>1 DEF RejectKind, Credentials, PreflightFails, RespondError, Abandon, table, remote
      <3> QED BY <3>1, <1>1
    <2>2. CASE Begin(w)
      BY <2>2, BeginRefines
    <2>3. CASE Respond(w)
      <3>0. PICK o \in Ops : o = target[w]
        BY <2>3 DEF Respond, TypeOK
      <3>1. o \in Ops /\ pc[w] = "waiting" /\ UNCHANGED <<status, begins, need, done>>
        BY <2>3 DEF Respond, table
      <3>2. issued[o] \in Nat /\ issued[o] > 0
        BY <3>0, <3>1 DEF LedgerInv, AttemptInv, TypeOK
      <3>3. CASE issued[o] < need[o]
        <4>1. issued' = [issued EXCEPT ![o] = @ + 1]
          BY <2>3, <3>0, <3>3 DEF Respond
        <4>2. issued'[o] = issued[o] + 1 /\ \A p \in Ops : p # o => issued'[p] = issued[p]
          BY <3>1, <4>1 DEF TypeOK
        <4>3. Invoked'[o] = Invoked[o] /\ Applied'[o] = Applied[o]
          <5>1. IsInvoked(o) /\ IsInvoked(o)'
            BY <3>2, <4>2 DEF IsInvoked
          <5>2. IsApplied(o)' <=> IsApplied(o)
            BY <3>1 DEF IsApplied
          <5>3. Invoked'[o] = TRUE /\ Invoked[o] = TRUE
            BY <5>1, MappedTruth
          <5>4. Applied'[o] = Applied[o]
            BY <5>2, MappedTruth
          <5> QED BY <5>3, <5>4
        <4>4. Governed!Step(o)
          BY <3>1, <4>3 DEF Governed!Step, Governed!Same
        <4>5. ASSUME NEW p \in Ops, p # o PROVE Governed!Step(p)
          BY <3>1, <4>2, <4>5, EdgeIsStep
        <4> QED BY <4>4, <4>5 DEF Governed!Next
      <3>4. CASE ~(issued[o] < need[o])
        BY <2>3, <3>0, <3>1, <3>4, <1>1 DEF Respond
      <3> QED BY <3>3, <3>4
    <2>4. ASSUME NEW now \in Now, ClaimMail(w, now) PROVE Governed!Next
      <3>1. target[w] \in Ops
        BY <2>4 DEF ClaimMail, TypeOK
      <3>2. CASE UNCHANGED table
        BY <2>4, <3>2, <1>1 DEF ClaimMail, table, remote
      <3> QED BY <1>now, <2>4, <3>1, <3>2, TransitionRefines DEF ClaimMail
    <2>5. ASSUME NEW now \in Now, Finish(w, now) PROVE Governed!Next
      <3> DEFINE o == target[w]
      <3>1. /\ o \in Ops /\ pc[w] \in {"succeeding", "failing", "doubting"}
            /\ UNCHANGED <<begins, need, issued, done>>
        BY <2>5 DEF Finish, TypeOK, remote
      <3>2. CASE status[o] # "applying"
        BY <2>5, <3>1, <3>2, <1>1 DEF Finish, table
      <3>3. CASE status[o] = "applying"
        <4>1. status' = [status EXCEPT ![o] = Verdict(pc[w])]
          BY <2>5, <3>3 DEF Finish
        <4>2. /\ status'[o] = Verdict(pc[w])
              /\ \A p \in Ops : p # o => status'[p] = status[p]
          BY <3>1, <4>1 DEF TypeOK
        <4>3. \/ Verdict(pc[w]) = "succeeded" /\ IsApplied(o)
              \/ Verdict(pc[w]) = "failed" /\ begins[o] = 0
              \/ Verdict(pc[w]) = "ambiguous"
          BY <3>1 DEF Verdict, IsApplied, LedgerInv, AttemptInv
        <4>4. Governed!Step(o)
          BY <3>1, <3>3, <4>2, <4>3, EdgeIsStep
        <4>5. ASSUME NEW p \in Ops, p # o PROVE Governed!Step(p)
          BY <3>1, <4>2, <4>5, EdgeIsStep
        <4> QED BY <4>4, <4>5 DEF Governed!Next
      <3> QED BY <3>2, <3>3
    <2>6. ASSUME NEW now \in Now, NEW o \in Ops, ClaimSend(w, o, now) PROVE Governed!Next
      BY <1>now, <2>6, TransitionRefines DEF ClaimSend
    <2>7. ASSUME NEW now \in Now, NEW o \in Ops, PeekMail(w, o, now) PROVE Governed!Next
      BY <1>now, <2>7, SweepRefines DEF PeekMail
    <2> QED BY <1>3, <2>1, <2>2, <2>3, <2>4, <2>5, <2>6, <2>7 DEF WorkerStep
  <1>4. ASSUME NEW o \in Ops, Execute(o) PROVE Governed!Next
    BY <1>4, ExecuteRefines
  <1>5. CASE Tick \/ UNCHANGED vars
    BY <1>5, <1>1 DEF Tick, vars, table, remote
  <1> QED BY <1>2, <1>3, <1>4, <1>5 DEF Next

\* Every behaviour of the ledger, its workers and the provider is, operation
\* by operation, one that GovernedOperation allows.
THEOREM LedgerRefinesGoverned == Spec => RefinesGoverned
  BY RefinementInit, RefinementStep, Invariance, PTL DEF Spec, RefinesGoverned, Governed!Spec

=============================================================================

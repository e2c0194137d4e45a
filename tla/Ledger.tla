------------------------------- MODULE Ledger -------------------------------
(***************************************************************************)
(* The governed-operation ledger of kirje-store (SqliteOutbox) together    *)
(* with the processes that apply its operations (KirjeRuntime::apply_send  *)
(* and apply_mail_operation) and the mail provider they talk to.           *)
(*                                                                         *)
(* Each column of the "operations" table is one function over Ops; the     *)
(* rows of "operation_events" are, per operation, the sequence of statuses *)
(* they record.  Every ledger call is one immediate SQLite transaction and *)
(* is therefore one action; the calls of one apply are separate actions of *)
(* its worker, and a worker may disappear between any two of them.         *)
(***************************************************************************)
EXTENDS Integers, Sequences

CONSTANTS
    Ops,          \* operation identifiers (UUIDs) that callers may create
    Workers,      \* concurrent apply calls: CLI processes and MCP tool calls
    Ttl,          \* SEND_PLAN_TTL_HOURS = OPERATION_TTL_HOURS
    StaleApply,   \* STALE_APPLY_MINUTES
    Lag,          \* how much older than the clock a sampled "now" may be
                  \* when its transaction gets the database lock
    Horizon,      \* bound: no operation is planned, approved or claimed later
    MaxClock,     \* bound on the clock
    Faults,       \* whether workers may die or lose their final write
    NoOp          \* the target of an idle worker

ASSUME LedgerAssumption ==
    /\ Ttl \in Nat \ {0}
    /\ StaleApply \in Nat \ {0}
    /\ Lag \in Nat
    /\ Horizon \in Nat
    /\ MaxClock \in Nat
    /\ Faults \in BOOLEAN
    /\ NoOp \notin Ops

VARIABLES
    kind,       \* operations.kind
    status,     \* operations.status; "none" before the row exists
    expiresAt,  \* operations.expires_at; NoExpiry stands for NULL
    updatedAt,  \* operations.updated_at
    attempts,   \* operations.attempt_count
    trail,      \* operation_events.status, in sequence order
    clock,      \* wall clock
    pc,         \* where each apply call stands
    target,     \* the operation each apply call works on
    begins,     \* how many apply calls got as far as the provider
    need,       \* provider commands the attempt consists of
    issued,     \* provider commands sent so far
    done        \* provider commands the provider has executed

table == <<kind, status, expiresAt, updatedAt, attempts, trail>>
remote == <<begins, need, issued, done>>
vars == <<kind, status, expiresAt, updatedAt, attempts, trail,
          clock, pc, target, begins, need, issued, done>>

Kinds == {"send", "mailbox", "draft"}
Finals == {"succeeded", "failed", "ambiguous", "expired"}
Statuses == {"planned", "approved", "applying"} \cup Finals
NoExpiry == -1

\* The calls that hold a claim, in the order they pass through them.
Holding == {"sendClaimed", "mailClaimed", "ready", "waiting",
            "failing", "succeeding", "doubting"}
Points == {"idle", "peeked"} \cup Holding

\* Utc::now() is read before the transaction waits for the database lock.
Now == {t \in 0..MaxClock : clock - Lag <= t /\ t <= clock}

Init ==
    /\ kind = [o \in Ops |-> "send"]
    /\ status = [o \in Ops |-> "none"]
    /\ expiresAt = [o \in Ops |-> NoExpiry]
    /\ updatedAt = [o \in Ops |-> 0]
    /\ attempts = [o \in Ops |-> 0]
    /\ trail = [o \in Ops |-> <<>>]
    /\ clock = 0
    /\ pc = [w \in Workers |-> "idle"]
    /\ target = [w \in Workers |-> NoOp]
    /\ begins = [o \in Ops |-> 0]
    /\ need = [o \in Ops |-> 0]
    /\ issued = [o \in Ops |-> 0]
    /\ done = [o \in Ops |-> 0]

-----------------------------------------------------------------------------
(* reconcile_operations: the two sweeps every governed transaction starts    *)
(* with.  They are committed only if the rest of the transaction succeeds.   *)

Overdue(o, now) ==
    /\ status[o] \in {"planned", "approved"}
    /\ expiresAt[o] # NoExpiry
    /\ expiresAt[o] <= now

\* Mutant: only sends are reconciled.
StaleSendsOnly(o, now) ==
    /\ kind[o] = "send"
    /\ status[o] = "applying"
    /\ updatedAt[o] <= now - StaleApply

Stale(o, now) ==
    /\ kind[o] # "draft"
    /\ status[o] = "applying"
    /\ updatedAt[o] <= now - StaleApply

\* Mutant: an attempt without a result is offered for another claim.
SweptStatusRetrying(now) ==
    [o \in Ops |-> IF Overdue(o, now) THEN "expired"
                   ELSE IF Stale(o, now) THEN "approved"
                   ELSE status[o]]

SweptStatus(now) ==
    [o \in Ops |-> IF Overdue(o, now) THEN "expired"
                   ELSE IF Stale(o, now) THEN "ambiguous"
                   ELSE status[o]]

SweptUpdatedAt(now) ==
    [o \in Ops |-> IF Overdue(o, now) \/ Stale(o, now) THEN now
                   ELSE updatedAt[o]]

SweptTrail(now) ==
    [o \in Ops |-> IF Overdue(o, now) \/ Stale(o, now)
                   THEN Append(trail[o], SweptStatus(now)[o])
                   ELSE trail[o]]

-----------------------------------------------------------------------------
(* Planning, reading and approving.                                          *)

\* create, create_operation, create_draft: insert the row and its first event.
Plan(o, k, now) ==
    /\ clock <= Horizon
    /\ status[o] = "none"
    /\ kind' = [kind EXCEPT ![o] = k]
    /\ status' = [status EXCEPT ![o] = "planned"]
    /\ expiresAt' = [expiresAt EXCEPT
                        ![o] = IF k = "draft" THEN NoExpiry ELSE now + Ttl]
    /\ updatedAt' = [updatedAt EXCEPT ![o] = now]
    /\ trail' = [trail EXCEPT ![o] = <<"planned">>]
    /\ UNCHANGED <<attempts, clock, pc, target, remote>>

Sweep(now) ==
    /\ status' = SweptStatus(now)
    /\ updatedAt' = SweptUpdatedAt(now)
    /\ trail' = SweptTrail(now)

\* get_operation, list_operations: commit the sweeps and return rows.
StatusRead(now) ==
    /\ Sweep(now)
    /\ UNCHANGED <<kind, expiresAt, attempts, clock, pc, target, remote>>

\* Mutant: a planned row passes for an approved one.
CanTransitionLoosely(o, now, from) ==
    /\ kind[o] # "draft"
    /\ SweptStatus(now)[o] \in {"planned", from}

\* operation_transition: sweep, check kind and status, update, append event.
\* A failed check drops the transaction, sweeps included.
CanTransition(o, now, from) ==
    /\ kind[o] # "draft"
    /\ SweptStatus(now)[o] = from

Transition(o, now, to) ==
    /\ status' = [SweptStatus(now) EXCEPT ![o] = to]
    /\ updatedAt' = [SweptUpdatedAt(now) EXCEPT ![o] = now]
    /\ trail' = [SweptTrail(now) EXCEPT ![o] = Append(@, to)]
    /\ attempts' = [attempts EXCEPT ![o] = @ + IF to = "applying" THEN 1 ELSE 0]
    /\ UNCHANGED <<kind, expiresAt>>

\* approve_operation, approve_send: the interactive approval of the CLI.
Approve(o, now) ==
    /\ clock <= Horizon
    /\ CanTransition(o, now, "planned")
    /\ Transition(o, now, "approved")
    /\ UNCHANGED <<clock, pc, target, remote>>

-----------------------------------------------------------------------------
(* One apply call, step by step.                                             *)

MoveTo(w, point) == pc' = [pc EXCEPT ![w] = point]

\* Mutant: the worker forgets the operation but not where it stood.
ReturnKeepsPoint(w) ==
    /\ UNCHANGED pc
    /\ target' = [target EXCEPT ![w] = NoOp]

Return(w) ==
    /\ pc' = [pc EXCEPT ![w] = "idle"]
    /\ target' = [target EXCEPT ![w] = NoOp]

\* apply_send starts by claiming, whatever the kind of the operation is.
ClaimSend(w, o, now) ==
    /\ clock <= Horizon
    /\ pc[w] = "idle"
    /\ CanTransition(o, now, "approved")
    /\ Transition(o, now, "applying")
    /\ target' = [target EXCEPT ![w] = o]
    /\ MoveTo(w, "sendClaimed")
    /\ UNCHANGED <<clock, remote>>

\* claim converts the claimed row with send_plan_from_operation after the
\* commit; a row of another kind makes apply_send return an error here.
RejectKind(w) ==
    /\ pc[w] = "sendClaimed"
    /\ kind[target[w]] # "send"
    /\ Return(w)
    /\ UNCHANGED <<table, clock, remote>>

\* apply_mail_operation first reads the row and rejects sends and drafts ...
PeekMail(w, o, now) ==
    /\ clock <= Horizon
    /\ pc[w] = "idle"
    /\ status[o] # "none"
    /\ kind[o] = "mailbox"
    /\ Sweep(now)
    /\ target' = [target EXCEPT ![w] = o]
    /\ MoveTo(w, "peeked")
    /\ UNCHANGED <<kind, expiresAt, attempts, clock, remote>>

\* ... and then claims it in a second transaction, or is refused.
ClaimMail(w, now) ==
    /\ pc[w] = "peeked"
    /\ \/ /\ clock <= Horizon
          /\ CanTransition(target[w], now, "approved")
          /\ Transition(target[w], now, "applying")
          /\ MoveTo(w, "mailClaimed")
          /\ UNCHANGED target
       \/ /\ ~CanTransition(target[w], now, "approved")
          /\ Return(w)
          /\ UNCHANGED table
    /\ UNCHANGED <<clock, remote>>

\* credentials(): the account and its secret are looked up after the claim.
Credentials(w) ==
    /\ \/ pc[w] = "sendClaimed" /\ kind[target[w]] = "send"
       \/ pc[w] = "mailClaimed"
    /\ \/ MoveTo(w, "ready")
       \/ MoveTo(w, "failing")
    /\ UNCHANGED <<table, clock, target, remote>>

\* Everything MailSender::send and MailboxMutator::apply check before the
\* first command that changes remote state: validation, connecting, SELECT.
PreflightFails(w) ==
    /\ pc[w] = "ready"
    /\ MoveTo(w, "failing")
    /\ UNCHANGED <<table, clock, target, remote>>

\* The commands one attempt consists of: a submission, a STORE or MOVE, a
\* COPY followed by a STORE, or none when the destination is the source.
CommandCounts(k) == IF k = "send" THEN {1} ELSE {0, 1, 2}

Begin(w) ==
    /\ pc[w] = "ready"
    /\ \E n \in CommandCounts(kind[target[w]]) :
          /\ begins' = [begins EXCEPT ![target[w]] = @ + 1]
          /\ need' = [need EXCEPT ![target[w]] = n]
          /\ IF n = 0
             THEN /\ MoveTo(w, "succeeding")
                  /\ UNCHANGED issued
             ELSE /\ MoveTo(w, "waiting")
                  /\ issued' = [issued EXCEPT ![target[w]] = @ + 1]
    /\ UNCHANGED <<table, clock, target, done>>

\* The provider executes a command it was sent, perhaps long after the
\* caller gave up waiting for it.
Execute(o) ==
    /\ done[o] < issued[o]
    /\ done' = [done EXCEPT ![o] = @ + 1]
    /\ UNCHANGED <<table, clock, pc, target, begins, need, issued>>

\* Mutant: the COPY of an emulated move is taken for the whole move.
RespondAfterFirst(w) ==
    /\ pc[w] = "waiting"
    /\ done[target[w]] = issued[target[w]]
    /\ MoveTo(w, "succeeding")
    /\ UNCHANGED <<table, clock, target, remote>>

\* A positive response: send the next command, or the attempt is complete.
Respond(w) ==
    /\ pc[w] = "waiting"
    /\ done[target[w]] = issued[target[w]]
    /\ IF issued[target[w]] < need[target[w]]
       THEN /\ issued' = [issued EXCEPT ![target[w]] = @ + 1]
            /\ UNCHANGED pc
       ELSE /\ MoveTo(w, "succeeding")
            /\ UNCHANGED issued
    /\ UNCHANGED <<table, clock, target, begins, need, done>>

\* An error or timeout once a command was sent: after_delivery_started,
\* after_mutation.
RespondError(w) ==
    /\ pc[w] = "waiting"
    /\ MoveTo(w, "doubting")
    /\ UNCHANGED <<table, clock, target, remote>>

\* Mutant: an error reply is taken as proof that nothing happened.
VerdictTrustsErrors(point) ==
    IF point = "succeeding" THEN "succeeded" ELSE "failed"

Verdict(point) == CASE point = "succeeding" -> "succeeded"
                    [] point = "failing" -> "failed"
                    [] OTHER -> "ambiguous"

\* Mutant: the verdict is written whatever the row's status is.
FinishUnguarded(w, now) ==
    /\ pc[w] \in {"succeeding", "failing", "doubting"}
    /\ Return(w)
    /\ LET o == target[w]
           s == Verdict(pc[w])
       IN  /\ status' = [status EXCEPT ![o] = s]
           /\ updatedAt' = [updatedAt EXCEPT ![o] = now]
           /\ trail' = [trail EXCEPT ![o] = Append(@, s)]
    /\ UNCHANGED <<kind, expiresAt, attempts, clock, remote>>

\* Mutant: the row is finalized without its event.
FinishUnaudited(w, now) ==
    /\ pc[w] \in {"succeeding", "failing", "doubting"}
    /\ Return(w)
    /\ status' = IF status[target[w]] = "applying"
                 THEN [status EXCEPT ![target[w]] = Verdict(pc[w])]
                 ELSE status
    /\ UNCHANGED <<kind, expiresAt, updatedAt, attempts, trail, clock, remote>>

\* finish_operation: no sweep; only an applying row is finalized, otherwise
\* the call returns an error and the row keeps its status.
Finish(w, now) ==
    /\ pc[w] \in {"succeeding", "failing", "doubting"}
    /\ Return(w)
    /\ LET o == target[w]
           s == Verdict(pc[w])
       IN  IF status[o] = "applying"
           THEN /\ status' = [status EXCEPT ![o] = s]
                /\ updatedAt' = [updatedAt EXCEPT ![o] = now]
                /\ trail' = [trail EXCEPT ![o] = Append(@, s)]
                /\ UNCHANGED <<kind, expiresAt, attempts>>
           ELSE UNCHANGED table
    /\ UNCHANGED <<clock, remote>>

\* The process is killed, or its final write does not reach the ledger.
Abandon(w) ==
    /\ Faults
    /\ pc[w] # "idle"
    /\ Return(w)
    /\ UNCHANGED <<table, clock, remote>>

Tick ==
    /\ clock < MaxClock
    /\ clock' = clock + 1
    /\ UNCHANGED <<table, pc, target, remote>>

-----------------------------------------------------------------------------
WorkerStep(w) ==
    \/ RejectKind(w)
    \/ Credentials(w)
    \/ PreflightFails(w)
    \/ Begin(w)
    \/ Respond(w)
    \/ RespondError(w)
    \/ Abandon(w)
    \/ \E now \in Now :
          \/ ClaimMail(w, now)
          \/ Finish(w, now)
          \/ \E o \in Ops : ClaimSend(w, o, now) \/ PeekMail(w, o, now)

LedgerStep ==
    \E now \in Now :
       \/ StatusRead(now)
       \/ \E o \in Ops :
             \/ Approve(o, now)
             \/ \E k \in Kinds : Plan(o, k, now)

Next ==
    \/ LedgerStep
    \/ \E w \in Workers : WorkerStep(w)
    \/ \E o \in Ops : Execute(o)
    \/ Tick

Spec == Init /\ [][Next]_vars

\* Time passes and somebody keeps looking at the ledger: every CLI or MCP
\* command that shows an operation sweeps first.  Nothing is assumed of the
\* apply calls, which may stall or die.
FairSpec ==
    /\ Spec
    /\ WF_vars(Tick)
    /\ WF_vars(\E now \in Now : StatusRead(now))

-----------------------------------------------------------------------------
(* Properties.                                                               *)

\* The columns, events and worker variables have the types the schema gives.
TypeOK ==
    /\ kind \in [Ops -> Kinds]
    /\ status \in [Ops -> Statuses \cup {"none"}]
    /\ expiresAt \in [Ops -> Int]
    /\ updatedAt \in [Ops -> 0..MaxClock]
    /\ attempts \in [Ops -> Nat]
    /\ trail \in [Ops -> Seq(Statuses)]
    /\ clock \in 0..MaxClock
    /\ pc \in [Workers -> Points]
    /\ target \in [Workers -> Ops \cup {NoOp}]
    /\ \A w \in Workers : pc[w] # "idle" => target[w] \in Ops
    /\ begins \in [Ops -> Nat]
    /\ need \in [Ops -> 0..2]
    /\ issued \in [Ops -> Nat]
    /\ done \in [Ops -> Nat]

\* "Apply one approved governed IMAP operation at most once", "Claim and apply
\* an approved plan once": whatever the interleaving of apply calls, crashes
\* and stale sweeps, one operation reaches the provider once, and no command
\* of the attempt is sent twice.
AtMostOnce ==
    \A o \in Ops : begins[o] <= 1 /\ issued[o] <= need[o]

\* Only rows that can still turn out to have been delivered may have reached
\* the provider.  In particular a plan reported "failed" or "expired" was
\* never sent, although sweeps and late finishers race for the final status.
InvocationAccounted ==
    \A o \in Ops :
        begins[o] > 0 => status[o] \in {"applying", "succeeded", "ambiguous"}

\* A plan reported "succeeded" had every one of its commands executed by the
\* provider, the COPY and the STORE of an emulated move included.
SucceededMeansApplied ==
    \A o \in Ops :
        status[o] = "succeeded" => begins[o] = 1 /\ done[o] = need[o]

\* The provider is reached only for operations a human approved before they
\* expired: the audit trail of an invoked operation starts planned, approved,
\* applying, and drafts are never invoked.
InvokedOnlyIfApproved ==
    \A o \in Ops :
        begins[o] > 0 =>
            /\ kind[o] # "draft"
            /\ Len(trail[o]) >= 3
            /\ SubSeq(trail[o], 1, 3) = <<"planned", "approved", "applying">>

\* The lifecycle the ledger enforces.
Lifecycle ==
    {<<"planned", "approved">>, <<"planned", "expired">>,
     <<"approved", "applying">>, <<"approved", "expired">>,
     <<"applying", "succeeded">>, <<"applying", "failed">>,
     <<"applying", "ambiguous">>}

\* The append-only events of an operation replay to its row: they follow the
\* lifecycle, end in the row's status and record exactly one claim per
\* counted attempt.  No transaction changes a row without its event.
AuditReplays ==
    \A o \in Ops :
        /\ status[o] = "none" <=> trail[o] = <<>>
        /\ trail[o] # <<>> =>
              /\ trail[o][1] = "planned"
              /\ trail[o][Len(trail[o])] = status[o]
              /\ \A i \in 1..Len(trail[o]) - 1 :
                    <<trail[o][i], trail[o][i + 1]>> \in Lifecycle
        /\ attempts[o] = IF \E i \in DOMAIN trail[o] : trail[o][i] = "applying"
                         THEN 1 ELSE 0

\* A final status is never rewritten, not even by the worker whose attempt it
\* describes, and an operation is claimed only by a transaction whose "now"
\* lies before its expiry.
FinalsStay ==
    [][\A o \in Ops :
          /\ status[o] \in Finals => status'[o] = status[o]
          /\ status[o] # "applying" /\ status'[o] = "applying"
                => updatedAt'[o] < expiresAt[o]]_vars

\* Every plan that is not a draft reaches a final status: it expires, its
\* apply call finishes it, or the stale sweep closes it for a dead worker.
EventuallyFinal ==
    \A o \in Ops :
        (status[o] # "none" /\ kind[o] # "draft") ~> status[o] \in Finals

\* apply_send promises that "Pre-invocation failures are recorded as failed":
\* a call that claimed an operation and returns without having reached the
\* provider leaves the row failed.
PreInvocationFailureRecorded ==
    [][\A w \in Workers :
          /\ pc[w] \in Holding
          /\ pc'[w] = "idle"
          /\ begins[target[w]] = 0
          => status'[target[w]] = "failed"]_vars

-----------------------------------------------------------------------------
(* The inductive invariant behind the safety properties.                     *)

\* A claim is exclusive for as long as its worker lives, even after a sweep
\* took the row from it.
ClaimInv ==
    /\ \A w \in Workers :
          pc[w] \in Holding =>
              /\ status[target[w]] \in {"applying", "ambiguous"}
              /\ kind[target[w]] # "draft"
    /\ \A v, w \in Workers :
          pc[v] \in Holding /\ pc[w] \in Holding /\ target[v] = target[w] => v = w

\* What a worker has done to the provider by the point it has reached.
AttemptInv ==
    \A w \in Workers :
        /\ pc[w] \in {"sendClaimed", "mailClaimed", "ready", "failing"}
              => begins[target[w]] = 0
        /\ pc[w] \in {"waiting", "succeeding", "doubting"} => begins[target[w]] = 1
        /\ pc[w] = "waiting" => issued[target[w]] > 0
        /\ pc[w] = "succeeding" => done[target[w]] = need[target[w]]

\* What a row's status says about the provider.
ProviderInv ==
    \A o \in Ops :
        /\ begins[o] <= 1
        /\ begins[o] = 0 => need[o] = 0
        /\ done[o] <= issued[o] /\ issued[o] <= need[o]
        /\ status[o] \notin {"applying", "succeeded", "ambiguous"} => begins[o] = 0
        /\ status[o] = "succeeded" => begins[o] = 1 /\ done[o] = need[o]

\* Claims are exclusive, an attempt has done to the provider exactly what its
\* position in the apply call says, and a status never claims otherwise:
\* together an invariant that every transaction and every worker step keeps.
LedgerInv == ClaimInv /\ AttemptInv /\ ProviderInv

=============================================================================

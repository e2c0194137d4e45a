-------------------------- MODULE GovernedOperation --------------------------
(***************************************************************************)
(* What the ledger promises about every governed operation, without its    *)
(* tables, clocks or workers: a human approves it, it reaches the mail     *)
(* provider at most once, and its final status never claims more than is   *)
(* known.  Ledger is shown to implement this specification.                *)
(*                                                                         *)
(* Operations are independent, and one transaction may move several of     *)
(* them (a sweep), so a step lets every operation take a step of its own.  *)
(***************************************************************************)
CONSTANT Ops

VARIABLES
    status,   \* the status a caller is shown
    invoked,  \* whether a command of the operation was sent to the provider
    applied   \* whether all its remote effects are in place

gvars == <<status, invoked, applied>>

Init ==
    /\ status = [o \in Ops |-> "none"]
    /\ invoked = [o \in Ops |-> FALSE]
    /\ applied = [o \in Ops |-> FALSE]

Moves(o, from, to) ==
    /\ status[o] = from
    /\ status'[o] = to
    /\ invoked'[o] = invoked[o]
    /\ applied'[o] = applied[o]

Create(o) == Moves(o, "none", "planned")
Approve(o) == Moves(o, "planned", "approved")
Expire(o) == Moves(o, "planned", "expired") \/ Moves(o, "approved", "expired")
Claim(o) == Moves(o, "approved", "applying")

\* Success is reported only for what is done, failure only for what was never
\* started; everything else ends ambiguous.
Succeed(o) == applied[o] /\ Moves(o, "applying", "succeeded")
Fail(o) == ~invoked[o] /\ ~applied[o] /\ Moves(o, "applying", "failed")
Doubt(o) == Moves(o, "applying", "ambiguous")

\* The one invocation, possibly by a worker already given up as ambiguous.
Invoke(o) ==
    /\ status[o] \in {"applying", "ambiguous"}
    /\ ~invoked[o] /\ ~applied[o]
    /\ invoked'[o] = TRUE
    /\ applied'[o] = applied[o]
    /\ status'[o] = status[o]

\* The operation turns out to need no command.
Skip(o) ==
    /\ status[o] \in {"applying", "ambiguous"}
    /\ ~invoked[o] /\ ~applied[o]
    /\ applied'[o] = TRUE
    /\ invoked'[o] = invoked[o]
    /\ status'[o] = status[o]

\* The provider carries the operation out, at any time after the invocation.
TakeEffect(o) ==
    /\ invoked[o] /\ ~applied[o]
    /\ applied'[o] = TRUE
    /\ invoked'[o] = invoked[o]
    /\ status'[o] = status[o]

Same(o) ==
    /\ status'[o] = status[o]
    /\ invoked'[o] = invoked[o]
    /\ applied'[o] = applied[o]

Step(o) ==
    \/ Same(o)
    \/ Create(o) \/ Approve(o) \/ Expire(o) \/ Claim(o)
    \/ Invoke(o) \/ Skip(o) \/ TakeEffect(o)
    \/ Succeed(o) \/ Fail(o) \/ Doubt(o)

Next == \A o \in Ops : Step(o)

Spec == Init /\ [][Next]_gvars

=============================================================================

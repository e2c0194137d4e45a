------------------------- MODULE AuthorityBootstrap -------------------------
(***************************************************************************)
(* First use of the authority: prepare_bootstrap creates the database with *)
(* a fresh realm, the caller publishes the anchor of that realm in a file  *)
(* of its own, and confirm_anchor makes the authority ready.               *)
(*                                                                         *)
(* A handle (AuthorityStore) keeps the anchor that its caller had read and *)
(* the state that open found, while other processes go on.  Every call     *)
(* checks the database again against both.  A call that returns an error   *)
(* changes nothing and is no step.                                         *)
(***************************************************************************)
EXTENDS Integers, Sequences

CONSTANTS
    Callers,       \* processes that use the authority
    Keeper,        \* the one that does not give up
    Keys,          \* pairs of an owner and a recovery public key
    Realms,        \* fresh realm and journal identities
    NoRealm,
    RollbackLimit, \* CLOCK_ROLLBACK_TOLERANCE_MS
    MaxObserved    \* bound on the observed times

ASSUME BootstrapAssumption ==
    /\ Keeper \in Callers
    /\ NoRealm \notin Realms
    /\ RollbackLimit \in Nat
    /\ MaxObserved \in Nat

VARIABLES
    database,  \* its class, the row of authority_meta and the first events
    anchor,    \* the published anchor
    applying,  \* the holders of the apply lock
    handle,    \* the open handle of each caller
    told       \* snapshots returned, with the keys that were asked for

vars == <<database, anchor, applying, handle, told>>

ObservedTimes == 0..MaxObserved
NoSnapshot == [realm |-> NoRealm, keys |-> NoRealm]
Snapshots == [realm : Realms, keys : Keys]

\* What classify_database tells apart, and whether the anchor is confirmed.
Classes == {"absent", "pristine", "pending", "ready"}

\* confirmed is -1 as long as anchor_confirmed_at is NULL.
NoDatabase == [class |-> "absent", snapshot |-> NoSnapshot, created |-> 0,
               last |-> 0, confirmed |-> -1, events |-> << >>]

Event(code, time) == [code |-> code, at |-> time]

\* No call yet: the process holds no AuthorityStore.
Closed == [state |-> "closed", anchor |-> NoSnapshot, snapshot |-> NoSnapshot]

Init ==
    /\ database = NoDatabase
    /\ anchor = NoSnapshot
    /\ applying = {}
    /\ handle = [p \in Callers |-> Closed]
    /\ told = {}

-----------------------------------------------------------------------------
(* Opening.                                                                  *)

\* The checks of load_snapshot on the times of the meta row.
MetaIsValid(d) ==
    /\ 0 <= d.created /\ d.created <= d.last
    /\ IF d.class = "ready" THEN d.created <= d.confirmed /\ d.confirmed <= d.last
       ELSE d.confirmed = -1

\* validate_events: the journal starts with the creation of the realm, and in
\* a ready authority with the confirmation after it.
ValidEvents(d) ==
    IF d.class = "ready"
    THEN /\ Len(d.events) >= 2
         /\ d.events[1] = Event("created", d.created)
         /\ d.events[2] = Event("confirmed", d.confirmed)
    ELSE d.events = << Event("created", d.created) >>

\* The schema is there as a whole or not at all.
UsableSchema(d) == d.class \in {"pending", "ready"}

LoadsSnapshot(d) == UsableSchema(d) /\ MetaIsValid(d) /\ ValidEvents(d)

\* What an authority database is, with the anchor that the caller had read.
InspectConnection(d, a) ==
    IF ~LoadsSnapshot(d) THEN "recovery_required"
    ELSE CASE d.class = "pending" /\ a = NoSnapshot -> "bootstrap_pending"
           [] d.class = "pending" /\ a = d.snapshot -> "confirmation_required"
           [] d.class = "ready" /\ a = d.snapshot -> "ready"
           [] OTHER -> "recovery_required"

\* Mutant: the empty file that a crash leaves is not taken for a fresh start.
InspectRefusingEmpty(d, a) ==
    IF d.class = "absent" /\ a = NoSnapshot THEN "unconfigured" ELSE InspectConnection(d, a)

\* inspect_home: no file, or an empty one, is a fresh start without an anchor.
Inspect(d, a) ==
    IF d.class \in {"absent", "pristine"}
    THEN IF a = NoSnapshot THEN "unconfigured" ELSE "recovery_required"
    ELSE InspectConnection(d, a)

\* The caller reads the anchor, and opens the store with it later.
ReadAnchor(p) ==
    /\ handle' = [handle EXCEPT ![p] = [Closed EXCEPT !.state = "read", !.anchor = anchor]]
    /\ UNCHANGED <<database, anchor, applying, told>>

OpenAuthority(p) ==
    LET h == handle[p]
        s == Inspect(database, h.anchor)
    IN  /\ h.state = "read"
        /\ handle' = [handle EXCEPT ![p].state = s,
                          ![p].snapshot = IF s \in {"unconfigured", "recovery_required"}
                                          THEN NoSnapshot ELSE database.snapshot]
        /\ UNCHANGED <<database, anchor, applying, told>>

-----------------------------------------------------------------------------
(* prepare_bootstrap, under the apply lock.                                  *)

LockIsFree == applying = {}

\* The connection creates an empty file, outside any transaction.
CreateDatabase(p) ==
    /\ LockIsFree
    /\ handle[p].state = "unconfigured"
    /\ database.class = "absent"
    /\ database' = [database EXCEPT !.class = "pristine"]
    /\ applying' = {p}
    /\ UNCHANGED <<anchor, handle, told>>

\* Mutant: what open found is not checked again.
StillUnconfigured(p) == handle[p].state = "unconfigured"

\* The class is read again inside the transaction.
MayCreateRealm(p) == handle[p].state = "unconfigured" /\ database.class = "pristine"

\* The keys of the caller in a realm and a journal with fresh identities.
BootstrapSnapshot(k, r) == [realm |-> r, keys |-> k]

\* Keys, epoch, meta row and first event.
BootstrapRows(snapshot, observed) ==
    [class |-> "pending", snapshot |-> snapshot, created |-> observed, last |-> observed,
     confirmed |-> -1, events |-> << Event("created", observed) >>]

\* The schema and the rows are one transaction.
PrepareBootstrap(p, k, r, observed) ==
    /\ applying \subseteq {p}
    /\ MayCreateRealm(p)
    /\ \A t \in told : t.snapshot.realm # r
    /\ database' = BootstrapRows(BootstrapSnapshot(k, r), observed)
    /\ told' = told \cup {[by |-> p, snapshot |-> BootstrapSnapshot(k, r), asked |-> k]}
    /\ applying' = {}
    /\ UNCHANGED <<anchor, handle>>

\* An error before the commit leaves the empty file.
FailPrepare(p) ==
    /\ p \in applying
    /\ applying' = {}
    /\ UNCHANGED <<database, anchor, handle, told>>

\* Mutant: a caller whose clock lags sets the journal's clock back.
EffectiveIsObserved(observed) == observed

\* Mutant: an observation is added to the time seen last.
EffectiveElapsed(observed) == database.last + observed

\* checked_clock, for the observations it accepts.
Effective(observed) == IF observed > database.last THEN observed ELSE database.last
Acceptable(observed) == observed >= database.last - RollbackLimit

\* The meta row after a call was observed.
Observed(observed) == [database EXCEPT !.last = Effective(observed)]

\* retry_existing_bootstrap
RetryMatches(h, k) ==
    /\ LoadsSnapshot(database)
    /\ \/ h.anchor = database.snapshot
       \/ h.anchor = NoSnapshot /\ database.class = "pending"
    /\ \/ h.state = "unconfigured"
       \/ h.state = "bootstrap_pending" /\ database.class = "pending"
       \/ h.state = "confirmation_required"
       \/ h.state = "ready" /\ database.class = "ready"
    /\ h.state # "unconfigured" => h.snapshot = database.snapshot
    /\ k = database.snapshot.keys

RetryBootstrap(p, k, observed) ==
    /\ LockIsFree
    /\ UsableSchema(database)
    /\ RetryMatches(handle[p], k)
    /\ Acceptable(observed)
    /\ database' = Observed(observed)
    /\ told' = told \cup {[by |-> p, snapshot |-> database.snapshot, asked |-> k]}
    /\ UNCHANGED <<anchor, applying, handle>>

-----------------------------------------------------------------------------
(* The anchor.                                                               *)

\* A caller writes the anchor it was given, or was shown by open, and never
\* over another one.
PublishAnchor(p) ==
    /\ anchor = NoSnapshot
    /\ \/ \E t \in told : t.by = p /\ anchor' = t.snapshot
       \/ handle[p].state = "bootstrap_pending" /\ anchor' = handle[p].snapshot
    /\ UNCHANGED <<database, applying, handle, told>>

ConfirmAnchor(p, observed) ==
    LET h == handle[p]
    IN  /\ h.state = "confirmation_required"
        /\ h.anchor = h.snapshot
        /\ LockIsFree
        /\ database.class = "pending"
        /\ LoadsSnapshot(database)
        /\ h.snapshot = database.snapshot
        /\ Acceptable(observed)
        /\ database' = [Observed(observed) EXCEPT
                            !.class = "ready",
                            !.confirmed = Effective(observed),
                            !.events = Append(@, Event("confirmed", Effective(observed)))]
        /\ told' = told \cup {[by |-> p, snapshot |-> h.snapshot, asked |-> h.snapshot.keys]}
        /\ UNCHANGED <<anchor, applying, handle>>

\* What every other call of a ready authority does first
\* (validate_ready_transaction), and the time it leaves behind.
ReadyCall(p, observed) ==
    LET h == handle[p]
    IN  /\ h.state = "ready"
        /\ h.anchor = database.snapshot
        /\ LockIsFree
        /\ database.class = "ready"
        /\ LoadsSnapshot(database)
        /\ h.snapshot = database.snapshot
        /\ Acceptable(observed)
        /\ database' = Observed(observed)
        /\ UNCHANGED <<anchor, applying, handle, told>>

-----------------------------------------------------------------------------
\* A process ends: its handle and its lock go, what it was told with them.
EndCaller(p) ==
    /\ handle' = [handle EXCEPT ![p] = Closed]
    /\ applying' = applying \ {p}
    /\ told' = {t \in told : t.by # p}
    /\ UNCHANGED <<database, anchor>>

\* A caller inside prepare_bootstrap does nothing else.
Step(p) ==
    \/ /\ p \notin applying
       /\ \/ ReadAnchor(p)
          \/ OpenAuthority(p)
          \/ CreateDatabase(p)
          \/ PublishAnchor(p)
          \/ \E observed \in ObservedTimes :
                 \/ \E k \in Keys : RetryBootstrap(p, k, observed)
                 \/ ConfirmAnchor(p, observed)
                 \/ ReadyCall(p, observed)
    \/ \E observed \in ObservedTimes, k \in Keys, r \in Realms :
           PrepareBootstrap(p, k, r, observed)
    \/ FailPrepare(p)

Next == \E p \in Callers : Step(p) \/ EndCaller(p)

Spec == Init /\ [][Next]_vars

\* Whoever holds the apply lock lets go of it.  One caller tries again and
\* again, and neither errors nor a clock that lags too far come back for ever.
FairSpec ==
    /\ Spec
    /\ \A p \in Callers : WF_vars(p \in applying /\ (Step(p) \/ EndCaller(p)))
    /\ WF_vars(Keeper \notin applying /\ ReadAnchor(Keeper))
    /\ SF_vars(Keeper \notin applying /\ OpenAuthority(Keeper))
    /\ SF_vars(CreateDatabase(Keeper))
    /\ SF_vars(\E observed \in ObservedTimes, k \in Keys, r \in Realms :
                   PrepareBootstrap(Keeper, k, r, observed))
    /\ SF_vars(Keeper \notin applying /\ PublishAnchor(Keeper))
    /\ SF_vars(\E observed \in ObservedTimes : ConfirmAnchor(Keeper, observed))

-----------------------------------------------------------------------------
(* Properties.                                                               *)

Databases ==
    [class : Classes, snapshot : Snapshots \cup {NoSnapshot},
     created : ObservedTimes, last : ObservedTimes, confirmed : ObservedTimes \cup {-1},
     events : Seq([code : {"created", "confirmed"}, at : ObservedTimes])]

OpenStates == {"closed", "read", "unconfigured", "bootstrap_pending",
               "confirmation_required", "ready", "recovery_required"}
Handles ==
    [state : OpenStates, anchor : Snapshots \cup {NoSnapshot},
     snapshot : Snapshots \cup {NoSnapshot}]

\* The meta row, the anchor, the handles and the answers have their types;
\* the clocks of the meta row stay within the times observed.
TypeOK ==
    /\ database \in Databases
    /\ anchor \in Snapshots \cup {NoSnapshot}
    /\ applying \subseteq Callers
    /\ handle \in [Callers -> Handles]
    /\ told \subseteq [by : Callers, snapshot : Snapshots, asked : Keys]

\* Callers that start at the same time, on handles of any age and with any
\* keys, end up in one realm: whatever any of them was told, and the anchor,
\* is the realm of the database, and its keys are those the caller asked for.
OneRealm ==
    /\ \A t \in told : t.snapshot = database.snapshot /\ t.asked = t.snapshot.keys
    /\ anchor \in {NoSnapshot, database.snapshot}

\* A crash between any two steps of the bootstrap can be resumed: with the
\* anchor as it is now, open never reports that recovery is required, and an
\* authority that is ready has its anchor.
AlwaysResumable ==
    /\ Inspect(database, anchor) # "recovery_required"
    /\ database.class = "ready" => anchor = database.snapshot

\* If one caller keeps trying the authority becomes ready, and it stays so,
\* whoever else starts, crashes or holds an old handle.
EventuallyReady == <>[](Inspect(database, anchor) = "ready")

=============================================================================

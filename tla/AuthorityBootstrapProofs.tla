---------------------- MODULE AuthorityBootstrapProofs ----------------------
(***************************************************************************)
(* Proofs about AuthorityBootstrap, for any number of callers, keys and    *)
(* fresh realms, any rollback tolerance and any bound on the clocks.       *)
(*                                                                         *)
(* OneRealm is not inductive: a handle carries what its caller once read   *)
(* into later steps.  BootstrapInv adds that the handles are never ahead   *)
(* of the database and the anchor, and what the database holds in each     *)
(* class.                                                                  *)
(***************************************************************************)
EXTENDS AuthorityBootstrap, TLAPS

\* The anchor of a handle is the one that was published, or none; the snapshot
\* of a handle is the one of the database, or none.
HandlesLag ==
    \A p \in Callers :
        /\ handle[p].anchor \in {NoSnapshot, anchor}
        /\ handle[p].snapshot \in {NoSnapshot, database.snapshot}

\* A database without a realm has no snapshot, and one with a realm passes the
\* checks that every call makes.
DatabaseIsSound ==
    \/ database.class \in {"absent", "pristine"} /\ database.snapshot = NoSnapshot
    \/ /\ database.class \in {"pending", "ready"}
       /\ database.snapshot \in Snapshots
       /\ LoadsSnapshot(database)

ReadyHasAnchor == database.class = "ready" => anchor = database.snapshot

BootstrapInv ==
    /\ TypeOK
    /\ OneRealm
    /\ HandlesLag
    /\ DatabaseIsSound
    /\ ReadyHasAnchor

-----------------------------------------------------------------------------
\* The missing snapshot is not one that a database can hold.
LEMMA NoSnapshotIsNone == NoSnapshot \notin Snapshots
  BY BootstrapAssumption DEF NoSnapshot, Snapshots

Events == [code : {"created", "confirmed"}, at : ObservedTimes]

\* insert_event: a second event leaves the first one in its place.
LEMMA AppendSecond ==
    ASSUME NEW S, NEW a \in S, NEW b \in S, NEW s, s = <<a>>
    PROVE  /\ Append(s, b) \in Seq(S)
           /\ Len(Append(s, b)) = 2
           /\ Append(s, b)[1] = a
           /\ Append(s, b)[2] = b
  <1>1. s \in Seq(S) /\ Len(s) = 1 /\ s[1] = a
    OBVIOUS
  <1> QED BY <1>1

\* checked_clock: the observed time stays within the bound and never runs back.
LEMMA EffectiveIsLater ==
    ASSUME TypeOK, NEW observed \in ObservedTimes
    PROVE  /\ Effective(observed) \in ObservedTimes
           /\ Effective(observed) >= database.last
  BY BootstrapAssumption DEF TypeOK, Databases, Effective, ObservedTimes

\* observe_existing_bootstrap changes the observed time only, and the row still
\* passes the checks of load_snapshot.
LEMMA ObservedIsSound ==
    ASSUME TypeOK, NEW observed \in ObservedTimes
    PROVE  /\ Observed(observed) \in Databases
           /\ Observed(observed).class = database.class
           /\ Observed(observed).snapshot = database.snapshot
           /\ Observed(observed).events = database.events
           /\ Observed(observed).created = database.created
           /\ Observed(observed).confirmed = database.confirmed
           /\ Observed(observed).last = Effective(observed)
           /\ LoadsSnapshot(database) => LoadsSnapshot(Observed(observed))
  <1>1. Effective(observed) \in ObservedTimes /\ Effective(observed) >= database.last
    BY EffectiveIsLater
  <1>2. /\ Observed(observed) \in Databases
        /\ Observed(observed).class = database.class
        /\ Observed(observed).snapshot = database.snapshot
        /\ Observed(observed).events = database.events
        /\ Observed(observed).created = database.created
        /\ Observed(observed).confirmed = database.confirmed
        /\ Observed(observed).last = Effective(observed)
    BY <1>1 DEF Observed, TypeOK, Databases
  <1>3. ASSUME MetaIsValid(database) PROVE MetaIsValid(Observed(observed))
    BY <1>1, <1>2, <1>3, BootstrapAssumption DEF MetaIsValid, TypeOK, Databases, ObservedTimes
  <1>4. ASSUME ValidEvents(database) PROVE ValidEvents(Observed(observed))
    BY <1>2, <1>4 DEF ValidEvents
  <1> QED BY <1>2, <1>3, <1>4 DEF LoadsSnapshot, UsableSchema

\* A step that leaves the database alone, or moves its clock only, and touches
\* no anchor, keeps what the invariant says of both.
LEMMA SameRealm ==
    ASSUME BootstrapInv, UNCHANGED anchor,
           \/ UNCHANGED database
           \/ \E observed \in ObservedTimes : database' = Observed(observed)
    PROVE  /\ database' \in Databases
           /\ database'.snapshot = database.snapshot
           /\ database'.class = database.class
           /\ DatabaseIsSound'
           /\ ReadyHasAnchor'
  <1>1. TypeOK /\ DatabaseIsSound /\ ReadyHasAnchor
    BY DEF BootstrapInv
  <1>2. CASE UNCHANGED database
    BY <1>1, <1>2 DEF TypeOK, DatabaseIsSound, ReadyHasAnchor, LoadsSnapshot, MetaIsValid, ValidEvents, Event
  <1>3. CASE \E observed \in ObservedTimes : database' = Observed(observed)
    <2> PICK observed \in ObservedTimes : database' = Observed(observed)
      BY <1>3
    <2>1. /\ database' \in Databases
          /\ database'.class = database.class
          /\ database'.snapshot = database.snapshot
          /\ LoadsSnapshot(database) => LoadsSnapshot(database')
      BY <1>1, ObservedIsSound
    <2>2. DatabaseIsSound'
      BY <1>1, <2>1 DEF DatabaseIsSound
    <2> QED BY <1>1, <2>1, <2>2 DEF ReadyHasAnchor
  <1> QED BY <1>2, <1>3

-----------------------------------------------------------------------------
(* Each step preserves the invariant.                                        *)

\* A caller that reads the anchor keeps the invariant.
LEMMA ReadAnchorKeeps ==
    ASSUME BootstrapInv, NEW p \in Callers, ReadAnchor(p)
    PROVE  BootstrapInv'
  <1> DEFINE h == [Closed EXCEPT !.state = "read", !.anchor = anchor]
  <1>1. UNCHANGED <<database, anchor, applying, told>>
    BY DEF ReadAnchor
  <1>2. DatabaseIsSound' /\ ReadyHasAnchor'
    BY <1>1, SameRealm
  <1>3. OneRealm'
    BY <1>1 DEF OneRealm, BootstrapInv
  <1>4. h \in Handles /\ h.anchor = anchor /\ h.snapshot = NoSnapshot
    BY DEF Closed, BootstrapInv, TypeOK, Handles, OpenStates
  <1>5. handle' = [handle EXCEPT ![p] = h]
    BY DEF ReadAnchor
  <1> HIDE DEF h
  <1>6. TypeOK'
    BY <1>1, <1>4, <1>5 DEF BootstrapInv, TypeOK
  <1>7. HandlesLag'
    BY <1>1, <1>4, <1>5 DEF BootstrapInv, TypeOK, HandlesLag
  <1> QED BY <1>2, <1>3, <1>6, <1>7 DEF BootstrapInv

\* open copies the snapshot of the database into the handle.
LEMMA OpenAuthorityKeeps ==
    ASSUME BootstrapInv, NEW p \in Callers, OpenAuthority(p)
    PROVE  BootstrapInv'
  <1>1. UNCHANGED <<database, anchor, applying, told>>
    BY DEF OpenAuthority
  <1>2. DatabaseIsSound' /\ ReadyHasAnchor'
    BY <1>1, SameRealm
  <1>3. OneRealm'
    BY <1>1 DEF OneRealm, BootstrapInv
  <1>4. Inspect(database, handle[p].anchor) \in OpenStates
    BY Zenon DEF Inspect, InspectConnection, OpenStates
  <1>5. PICK s \in OpenStates, n \in {NoSnapshot, database.snapshot} :
            handle' = [handle EXCEPT ![p].state = s, ![p].snapshot = n]
    BY <1>4 DEF OpenAuthority
  <1>6. TypeOK'
    BY <1>1, <1>5 DEF BootstrapInv, TypeOK, Handles, Databases
  <1>7. HandlesLag'
    BY <1>1, <1>5 DEF BootstrapInv, TypeOK, Handles, HandlesLag
  <1> QED BY <1>2, <1>3, <1>6, <1>7 DEF BootstrapInv

\* The empty file that the connection creates holds no realm.
LEMMA CreateDatabaseKeeps ==
    ASSUME BootstrapInv, NEW p \in Callers, CreateDatabase(p)
    PROVE  BootstrapInv'
  <1>1. /\ UNCHANGED <<anchor, handle, told>>
        /\ database.class = "absent"
        /\ database' = [database EXCEPT !.class = "pristine"]
        /\ applying' = {p}
    BY DEF CreateDatabase
  <1>2. /\ database' \in Databases
        /\ database'.class = "pristine"
        /\ database'.snapshot = database.snapshot
    BY <1>1 DEF BootstrapInv, TypeOK, Databases, Classes
  <1>3. TypeOK'
    BY <1>1, <1>2 DEF BootstrapInv, TypeOK
  <1>4. OneRealm' /\ HandlesLag'
    BY <1>1, <1>2 DEF BootstrapInv, OneRealm, HandlesLag
  <1>5. DatabaseIsSound' /\ ReadyHasAnchor'
    BY <1>1, <1>2 DEF BootstrapInv, DatabaseIsSound, ReadyHasAnchor
  <1> QED BY <1>3, <1>4, <1>5 DEF BootstrapInv

\* prepare_bootstrap creates a realm only where there is none, so that no
\* handle and no answer names another one.
LEMMA PrepareBootstrapKeeps ==
    ASSUME BootstrapInv, NEW p \in Callers, NEW k \in Keys, NEW r \in Realms,
           NEW observed \in ObservedTimes, PrepareBootstrap(p, k, r, observed)
    PROVE  BootstrapInv'
  <1> DEFINE n == [realm |-> r, keys |-> k]
  <1>1. /\ UNCHANGED <<anchor, handle>>
        /\ applying' = {}
        /\ database.class = "pristine"
        /\ database' = [class |-> "pending", snapshot |-> n, created |-> observed,
                        last |-> observed, confirmed |-> -1,
                        events |-> << Event("created", observed) >>]
        /\ told' = told \cup {[by |-> p, snapshot |-> n, asked |-> k]}
    BY DEF PrepareBootstrap, MayCreateRealm, BootstrapRows, BootstrapSnapshot
  <1>2. database.snapshot = NoSnapshot
    BY <1>1 DEF BootstrapInv, DatabaseIsSound
  <1>3. told = {} /\ anchor = NoSnapshot
    BY <1>2, NoSnapshotIsNone DEF BootstrapInv, OneRealm, TypeOK
  <1>4. n \in Snapshots
    BY DEF Snapshots
  <1>5. database' \in Databases
    <2>1. << Event("created", observed) >> \in Seq([code : {"created", "confirmed"}, at : ObservedTimes])
      BY DEF Event
    <2> QED BY <1>1, <1>4, <2>1 DEF Databases, Classes
  <1>6. TypeOK'
    BY <1>1, <1>3, <1>4, <1>5 DEF BootstrapInv, TypeOK
  <1>7. OneRealm'
    BY <1>1, <1>3 DEF OneRealm
  <1>8. HandlesLag'
    BY <1>1, <1>2 DEF BootstrapInv, HandlesLag
  <1>9. LoadsSnapshot(database')
    BY <1>1, BootstrapAssumption DEF LoadsSnapshot, UsableSchema, MetaIsValid, ValidEvents, ObservedTimes
  <1>10. DatabaseIsSound' /\ ReadyHasAnchor'
    BY <1>1, <1>4, <1>9 DEF DatabaseIsSound, ReadyHasAnchor
  <1> QED BY <1>6, <1>7, <1>8, <1>10 DEF BootstrapInv

\* The exact retry of prepare_bootstrap answers with the realm there is.
LEMMA RetryBootstrapKeeps ==
    ASSUME BootstrapInv, NEW p \in Callers, NEW k \in Keys,
           NEW observed \in ObservedTimes, RetryBootstrap(p, k, observed)
    PROVE  BootstrapInv'
  <1>1. /\ UNCHANGED <<anchor, applying, handle>>
        /\ database.class \in {"pending", "ready"}
        /\ database' = Observed(observed)
        /\ told' = told \cup {[by |-> p, snapshot |-> database.snapshot, asked |-> k]}
        /\ k = database.snapshot.keys
    BY DEF RetryBootstrap, RetryMatches, UsableSchema
  <1>2. database.snapshot \in Snapshots
    BY <1>1 DEF BootstrapInv, DatabaseIsSound
  <1>3. /\ database' \in Databases
        /\ database'.snapshot = database.snapshot
        /\ DatabaseIsSound' /\ ReadyHasAnchor'
    BY <1>1, SameRealm
  <1>4. TypeOK'
    BY <1>1, <1>2, <1>3 DEF BootstrapInv, TypeOK
  <1>5. OneRealm'
    BY <1>1, <1>3 DEF BootstrapInv, OneRealm
  <1>6. HandlesLag'
    BY <1>1, <1>3 DEF BootstrapInv, HandlesLag
  <1> QED BY <1>3, <1>4, <1>5, <1>6 DEF BootstrapInv

\* A caller publishes what it was told or shown, the realm of the database.
LEMMA PublishAnchorKeeps ==
    ASSUME BootstrapInv, NEW p \in Callers, PublishAnchor(p)
    PROVE  BootstrapInv'
  <1>1. UNCHANGED <<database, applying, handle, told>> /\ anchor = NoSnapshot
    BY DEF PublishAnchor
  <1>2. anchor' \in {NoSnapshot, database.snapshot}
    BY DEF PublishAnchor, BootstrapInv, OneRealm, HandlesLag
  <1>3. database.class # "ready"
    BY <1>1, NoSnapshotIsNone DEF BootstrapInv, ReadyHasAnchor, DatabaseIsSound
  <1>4. TypeOK'
    BY <1>1, <1>2 DEF BootstrapInv, TypeOK, Databases
  <1>5. OneRealm' /\ HandlesLag'
    BY <1>1, <1>2 DEF BootstrapInv, OneRealm, HandlesLag
  <1>6. DatabaseIsSound' /\ ReadyHasAnchor'
    BY <1>1, <1>3 DEF BootstrapInv, DatabaseIsSound, ReadyHasAnchor
  <1> QED BY <1>4, <1>5, <1>6 DEF BootstrapInv

\* confirm_anchor makes ready the realm whose anchor was published, with a
\* confirmation that does not lie before the creation.
LEMMA ConfirmAnchorKeeps ==
    ASSUME BootstrapInv, NEW p \in Callers, NEW observed \in ObservedTimes,
           ConfirmAnchor(p, observed)
    PROVE  BootstrapInv'
  <1> DEFINE t == Effective(observed)
  <1>1. /\ UNCHANGED <<anchor, applying, handle>>
        /\ database.class = "pending"
        /\ LoadsSnapshot(database)
        /\ handle[p].anchor = database.snapshot
        /\ handle[p].snapshot = database.snapshot
        /\ database' = [Observed(observed) EXCEPT
                            !.class = "ready", !.confirmed = t,
                            !.events = Append(@, Event("confirmed", t))]
        /\ told' = told \cup {[by |-> p, snapshot |-> database.snapshot,
                               asked |-> database.snapshot.keys]}
    BY DEF ConfirmAnchor
  <1>2. database.snapshot \in Snapshots
    BY <1>1 DEF BootstrapInv, DatabaseIsSound
  <1>3. anchor = database.snapshot
    BY <1>1, <1>2, NoSnapshotIsNone DEF BootstrapInv, HandlesLag
  <1>4. t \in ObservedTimes /\ t >= database.last
    BY EffectiveIsLater DEF BootstrapInv
  <1>5. /\ Observed(observed) \in Databases
        /\ Observed(observed).snapshot = database.snapshot
        /\ Observed(observed).created = database.created
        /\ Observed(observed).last = t
        /\ Observed(observed).events = << Event("created", database.created) >>
    BY <1>1, ObservedIsSound DEF BootstrapInv, LoadsSnapshot, ValidEvents
  <1>6. /\ database'.class = "ready"
        /\ database'.snapshot = database.snapshot
        /\ database'.created = database.created
        /\ database'.last = t
        /\ database'.confirmed = t
        /\ database'.events = Append(Observed(observed).events, Event("confirmed", t))
    <2> DEFINE d == Observed(observed)
    <2>1. /\ database' = [d EXCEPT !.class = "ready", !.confirmed = t,
                                   !.events = Append(@, Event("confirmed", t))]
          /\ d \in Databases
      BY <1>1, <1>5
    <2>2. d.snapshot = database.snapshot /\ d.created = database.created /\ d.last = t
      BY <1>5
    <2> HIDE DEF d, t
    <2> QED BY <2>1, <2>2 DEF Databases, d
  <1>7. /\ database'.events \in Seq(Events)
        /\ Len(database'.events) = 2
        /\ database'.events[1] = Event("created", database.created)
        /\ database'.events[2] = Event("confirmed", t)
    <2>1. Event("created", database.created) \in Events /\ Event("confirmed", t) \in Events
      BY <1>4 DEF Event, Events, BootstrapInv, TypeOK, Databases
    <2> HIDE DEF t
    <2> QED BY <1>5, <1>6, <2>1, AppendSecond
  <1>8. database' \in Databases
    BY <1>1, <1>4, <1>5, <1>6, <1>7 DEF Databases, Classes, Events
  <1>9. LoadsSnapshot(database')
    <2>1. MetaIsValid(database')
      BY <1>1, <1>4, <1>6, BootstrapAssumption
         DEF LoadsSnapshot, MetaIsValid, BootstrapInv, TypeOK, Databases, ObservedTimes
    <2>2. ValidEvents(database')
      BY <1>6, <1>7 DEF ValidEvents
    <2> QED BY <1>6, <2>1, <2>2 DEF LoadsSnapshot, UsableSchema
  <1>10. TypeOK'
    BY <1>1, <1>2, <1>8 DEF BootstrapInv, TypeOK, Snapshots
  <1>11. OneRealm' /\ HandlesLag'
    BY <1>1, <1>6 DEF BootstrapInv, OneRealm, HandlesLag
  <1>12. DatabaseIsSound' /\ ReadyHasAnchor'
    BY <1>1, <1>2, <1>3, <1>6, <1>9 DEF DatabaseIsSound, ReadyHasAnchor
  <1> QED BY <1>10, <1>11, <1>12 DEF BootstrapInv

\* A ready call moves the clock of the meta row forward only.
LEMMA ReadyCallKeeps ==
    ASSUME BootstrapInv, NEW p \in Callers, NEW observed \in ObservedTimes,
           ReadyCall(p, observed)
    PROVE  BootstrapInv'
  <1>1. UNCHANGED <<anchor, applying, handle, told>> /\ database' = Observed(observed)
    BY DEF ReadyCall
  <1>2. /\ database' \in Databases
        /\ database'.snapshot = database.snapshot
        /\ DatabaseIsSound' /\ ReadyHasAnchor'
    BY <1>1, SameRealm
  <1>3. TypeOK' /\ OneRealm' /\ HandlesLag'
    BY <1>1, <1>2 DEF BootstrapInv, TypeOK, OneRealm, HandlesLag
  <1> QED BY <1>2, <1>3 DEF BootstrapInv

\* An error of prepare_bootstrap and the end of a process lose nothing that
\* the invariant needs.
LEMMA EndsKeep ==
    ASSUME BootstrapInv, NEW p \in Callers, FailPrepare(p) \/ EndCaller(p)
    PROVE  BootstrapInv'
  <1>1. UNCHANGED <<database, anchor>> /\ applying' \subseteq applying /\ told' \subseteq told
    BY DEF FailPrepare, EndCaller
  <1>2. /\ handle' \in [Callers -> Handles]
        /\ \A q \in Callers : handle'[q] \in {handle[q], Closed}
    BY DEF FailPrepare, EndCaller, BootstrapInv, TypeOK, Handles, Closed, OpenStates
  <1>3. DatabaseIsSound' /\ ReadyHasAnchor'
    BY <1>1, SameRealm
  <1>4. TypeOK' /\ OneRealm'
    BY <1>1, <1>2 DEF BootstrapInv, TypeOK, OneRealm
  <1>5. HandlesLag'
    BY <1>1, <1>2 DEF BootstrapInv, HandlesLag, Closed
  <1> QED BY <1>3, <1>4, <1>5 DEF BootstrapInv

-----------------------------------------------------------------------------
\* The inductive invariant holds in every reachable state.
THEOREM BootstrapInvariant == Spec => []BootstrapInv
  <1>1. Init => BootstrapInv
    <2> SUFFICES ASSUME Init PROVE BootstrapInv
      OBVIOUS
    <2>1. TypeOK
      BY BootstrapAssumption
         DEF Init, TypeOK, NoDatabase, Databases, Classes, Closed, Handles, OpenStates, ObservedTimes
    <2>2. OneRealm /\ HandlesLag /\ DatabaseIsSound /\ ReadyHasAnchor
      BY DEF Init, OneRealm, HandlesLag, DatabaseIsSound, ReadyHasAnchor, NoDatabase, Closed
    <2> QED BY <2>1, <2>2 DEF BootstrapInv
  <1>2. BootstrapInv /\ [Next]_vars => BootstrapInv'
    <2> SUFFICES ASSUME BootstrapInv, [Next]_vars PROVE BootstrapInv'
      OBVIOUS
    <2>1. CASE UNCHANGED vars
      <3>1. UNCHANGED <<database, anchor, applying, handle, told>>
        BY <2>1 DEF vars
      <3>2. DatabaseIsSound' /\ ReadyHasAnchor'
        BY <3>1, SameRealm
      <3> QED BY <3>1, <3>2 DEF BootstrapInv, TypeOK, OneRealm, HandlesLag
    <2>2. CASE Next
      <3>1. PICK p \in Callers : Step(p) \/ EndCaller(p)
        BY <2>2 DEF Next
      <3>2. CASE EndCaller(p)
        BY <3>2, EndsKeep
      <3>3. CASE Step(p)
        BY <3>3, ReadAnchorKeeps, OpenAuthorityKeeps, CreateDatabaseKeeps, PublishAnchorKeeps,
           RetryBootstrapKeeps, ConfirmAnchorKeeps, ReadyCallKeeps, PrepareBootstrapKeeps, EndsKeep
           DEF Step
      <3> QED BY <3>1, <3>2, <3>3
    <2> QED BY <2>1, <2>2
  <1> QED BY <1>1, <1>2, PTL DEF Spec

\* Type correctness of the bootstrap for every value of the constants.
THEOREM BootstrapTypes == Spec => []TypeOK
  BY BootstrapInvariant, PTL DEF BootstrapInv

\* However many callers race to bootstrap, with whatever keys and on handles of
\* whatever age, no two of them are told of different realms.
THEOREM BootstrapOneRealm == Spec => []OneRealm
  BY BootstrapInvariant, PTL DEF BootstrapInv

\* After a crash between any two steps of any caller, open never asks for a
\* recovery that nobody can make, and a ready authority has its anchor.
THEOREM BootstrapResumable == Spec => []AlwaysResumable
  <1>1. BootstrapInv => AlwaysResumable
    <2> SUFFICES ASSUME BootstrapInv PROVE AlwaysResumable
      OBVIOUS
    <2>1. CASE database.class \in {"absent", "pristine"}
      BY <2>1 DEF BootstrapInv, DatabaseIsSound, OneRealm, AlwaysResumable, Inspect
    <2>2. CASE database.class = "pending"
      BY <2>2 DEF BootstrapInv, DatabaseIsSound, OneRealm, AlwaysResumable, Inspect, InspectConnection
    <2>3. CASE database.class = "ready"
      BY <2>3, NoSnapshotIsNone
         DEF BootstrapInv, DatabaseIsSound, ReadyHasAnchor, AlwaysResumable, Inspect, InspectConnection
    <2> QED BY <2>1, <2>2, <2>3 DEF BootstrapInv, DatabaseIsSound
  <1> QED BY <1>1, BootstrapInvariant, PTL

=============================================================================

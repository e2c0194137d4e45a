------------------------ MODULE AccountHistoryProofs ------------------------
(***************************************************************************)
(* Proof that the history validation of AccountTransitions accepts every   *)
(* history without an aborted transition (LockedOutOnlyAfterAbort): what   *)
(* each call writes is what load_snapshot of the next call looks for.      *)
(***************************************************************************)
EXTENDS AccountTransitionsProofs, SequenceTheorems

-----------------------------------------------------------------------------
(* The inductive invariant: the journal and the rows, by position.           *)

NoAbort == \A t \in Transitions : transition[t].state # "aborted"

EndCodes == {"finalized", "aborted", "recovery_required"}
TransitionCodes == {"prepared", "config_committed"} \cup EndCodes
StoreCodes == {"blocked", "unblocked", "recovered"}
CleanupCodes == {"ready", "claimed", "deleted"}
EventRows ==
    [code : {"used", "other"} \cup TransitionCodes \cup StoreCodes \cup CleanupCodes,
     id : Transitions \cup CleanupIds \cup {None}, pair : Pairs]

\* An event belongs to a row that has reached it.
EventOk(e) ==
    /\ e.code \in TransitionCodes \cup StoreCodes => e.id \in Transitions /\ Stored(e.id)
    /\ e.code = "used" => e.id \in CleanupIds \/ (e.id \in Transitions /\ Stored(e.id))
    /\ e.code \in CleanupCodes => e.id \in CleanupIds
    /\ e.code = "config_committed" => transition[e.id].committed
    /\ e.code \in EndCodes => transition[e.id].state = e.code
    /\ e.code = "unblocked" => transition[e.id].state \in {"finalized", "aborted"}
    /\ e.code = "recovered" => transition[e.id].state = "recovery_required"

JournalOk == journal \in Seq(EventRows) /\ \A i \in DOMAIN journal : EventOk(journal[i])

\* The event is in the journal at position p and nowhere else, or not at all.
At(code, id, i) == i \in DOMAIN journal /\ journal[i].code = code /\ journal[i].id = id
Only(code, id, p) == \A i : At(code, id, i) <=> i = p
Never(code, id) == \A i : ~At(code, id, i)

\* How a transition that is not aborted ended, after position q.
EndAt(t, q, z) ==
    /\ Only(transition[t].state, t, z)
    /\ transition[t].state = "finalized" =>
          z > q /\ z + 1 \in DOMAIN journal /\ journal[z + 1] = Event("unblocked", t, NoPair)
    /\ transition[t].state = "recovery_required" =>
          /\ z - 1 > q /\ journal[z] = Event("recovery_required", t, store.pair)
          /\ journal[z - 1] = Event("recovered", t, store.pair)

\* The events of a transition, prepared at p, last written before its end at q.
PreparedAt(t, p) ==
    /\ Only("prepared", t, p) /\ p > 2 /\ Only("used", t, p - 2)
    /\ journal[p - 1] = Event("blocked", t, NoPair)
CommittedAt(t, p, q) ==
    IF transition[t].committed THEN Only("config_committed", t, q) /\ q > p ELSE q = p
EventsOk(t) ==
    Stored(t) =>
        \E p, q \in DOMAIN journal :
            /\ PreparedAt(t, p) /\ CommittedAt(t, p, q)
            /\ ~Open(t) => \E z \in DOMAIN journal : EndAt(t, q, z)

Has(present, code, id) == IF present THEN \E p : Only(code, id, p) ELSE Never(code, id)
CleanupEventsOk(t, k) ==
    LET s == cleanup[t][k]
    IN  /\ transition[t].state = "finalized" => s # "provisional"
        /\ Has(s \in {"ready", "claimed", "deleted"}, "ready", <<t, k>>)
        /\ Has(s \in {"claimed", "deleted"}, "claimed", <<t, k>>)
        /\ Has(s = "deleted", "deleted", <<t, k>>)

\* The last store event is that of the open transition, if there is one.
LastOk ==
    StoreEvents # {} =>
        \E i \in StoreEvents : /\ LastOf(StoreEvents, i)
                               /\ journal[i].code = "blocked" => Open(journal[i].id)

\* Transitions start from the pair the store had and are one generation
\* apart; the one in flight starts where the others ended.
ChainOk(t) ==
    /\ Stored(t) => transition[t].next.generation = transition[t].expected.generation + 1
    /\ transition[t].state = "prepared" => store.pair = transition[t].expected
    /\ transition[t].state = "config_committed" => store.pair = transition[t].next
    /\ Stored(t) /\ ~InFlight(t) /\ store.state # "recovery_required" =>
          transition[t].next.generation <= store.pair.generation
    /\ InFlight(t) => \A v \in Transitions : Stored(v) /\ v # t =>
          transition[v].next.generation <= transition[t].expected.generation

\* The row of an account follows its last transition.
Latest(t) ==
    Stored(t) /\ \A u \in Transitions : u # t /\ transition[u].account = transition[t].account =>
                    transition[u].expected.generation < transition[t].next.generation
CurrentOk(t) ==
    LET a == account[transition[t].account]
    IN  /\ InFlight(t) =>
              a.state = IF Open(t) /\ transition[t].kind = "create" THEN "proposed" ELSE "blocked"
        /\ transition[t].state = "finalized" /\ Latest(t) =>
              /\ a.snapshot = transition[t].after /\ a.authorized = t /\ a.active = None
              /\ a.state = IF transition[t].kind = "remove" THEN "removed" ELSE "active"

\* The versions a transition committed, and those it stands on.
StartsFrom(pair) ==
    \/ pair = InitialPair
    \/ \E u \in Transitions : transition[u].committed /\ transition[u].next = pair
VersionsOk(t) ==
    /\ storeVersion[t] = IF transition[t].committed THEN transition[t].next ELSE NoPair
    /\ Stored(t) =>
          /\ StartsFrom(transition[t].expected)
          /\ transition[t].kind # "create" =>
                \E u \in Transitions : CommittedAs(u, transition[t].account, transition[t].before)

JournalInv == JournalOk /\ ValidStoreEvents /\ LastOk
EventsInv == \A t \in Transitions : EventsOk(t) /\ \A k \in LocatorKind : CleanupEventsOk(t, k)
ChainInv == \A t \in Transitions : ChainOk(t) /\ CurrentOk(t) /\ VersionsOk(t)
HistoryInv == NoAbort => JournalInv /\ EventsInv /\ ChainInv

-----------------------------------------------------------------------------
(* A call that appends events.                                               *)

\* The positions of a journal and of one extended by a call.
Extends(new) ==
    /\ Len(journal) \in Nat /\ Len(new) \in Nat
    /\ DOMAIN journal = 1..Len(journal) /\ DOMAIN new = 1..Len(new)
    /\ DOMAIN journal' = 1..(Len(journal) + Len(new))
    /\ \A i \in DOMAIN journal : journal'[i] = journal[i]
    /\ \A i \in DOMAIN new : journal'[Len(journal) + i] = new[i]

LEMMA AppendExtends ==
  ASSUME journal \in Seq(EventRows), NEW new \in Seq(EventRows), journal' = journal \o new
  PROVE  Extends(new) /\ journal' \in Seq(EventRows)
BY DEF Extends

\* A position after the step is an old one or one of a new event.
LEMMA OldOrNew ==
  ASSUME NEW new, Extends(new), NEW i \in DOMAIN journal'
  PROVE  \/ i \in DOMAIN journal /\ journal'[i] = journal[i]
         \/ \E j \in DOMAIN new : i = Len(journal) + j /\ journal'[i] = new[j]
<1>1. CASE i \in DOMAIN journal
  BY <1>1 DEF Extends
<1>2. CASE i \notin DOMAIN journal
  <2>1. i - Len(journal) \in DOMAIN new /\ i = Len(journal) + (i - Len(journal))
    BY <1>2 DEF Extends
  <2> QED BY <2>1 DEF Extends
<1> QED BY <1>1, <1>2

\* What the new events do not name stays where it is.
LEMMA AtStays ==
  ASSUME NEW new, Extends(new), NEW code, NEW id,
         \A j \in DOMAIN new : ~(new[j].code = code /\ new[j].id = id)
  PROVE  /\ \A i : At(code, id, i)' <=> At(code, id, i)
         /\ \A p : Only(code, id, p)' <=> Only(code, id, p)
         /\ Never(code, id)' <=> Never(code, id)
<1>1. ASSUME NEW i PROVE At(code, id, i)' <=> At(code, id, i)
  <2>1. CASE i \in DOMAIN journal'
    BY <2>1, OldOrNew DEF At, Extends
  <2>2. CASE i \notin DOMAIN journal'
    BY <2>2 DEF At, Extends
  <2> QED BY <2>1, <2>2
<1>2. \A p : Only(code, id, p)' <=> Only(code, id, p)
  BY <1>1 DEF Only
<1>3. Never(code, id)' <=> Never(code, id)
  BY <1>1 DEF Never
<1> QED BY <1>1, <1>2, <1>3

\* An event that was nowhere is then only where the call wrote it.
LEMMA AtWritten ==
  ASSUME NEW new, Extends(new), NEW code, NEW id, Never(code, id),
         NEW n \in DOMAIN new, NEW p, p = Len(journal) + n,
         \A j \in DOMAIN new : new[j].code = code /\ new[j].id = id <=> j = n
  PROVE  Only(code, id, p)'
<1>1. ASSUME NEW i PROVE At(code, id, i)' <=> i = p
  <2>1. CASE i \in DOMAIN journal'
    <3>1. CASE i \in DOMAIN journal /\ journal'[i] = journal[i]
      BY <3>1 DEF At, Never, Extends
    <3>2. ASSUME NEW j \in DOMAIN new, i = Len(journal) + j, journal'[i] = new[j]
          PROVE  At(code, id, i)' <=> i = p
      BY <2>1, <3>2 DEF At, Extends
    <3> QED BY <2>1, <3>1, <3>2, OldOrNew
  <2>2. CASE i \notin DOMAIN journal'
    BY <2>2 DEF At, Extends
  <2> QED BY <2>1, <2>2
<1> QED BY <1>1 DEF Only

\* The events of a transition that a call says nothing of.
LEMMA EventsStay ==
  ASSUME NEW new, Extends(new), NEW u \in Transitions, EventsOk(u),
         transition'[u] = transition[u],
         \A j \in DOMAIN new : new[j].id # u,
         transition[u].state = "recovery_required" => store'.pair = store.pair
  PROVE  EventsOk(u)'
<1> SUFFICES ASSUME Stored(u) PROVE EventsOk(u)'
  BY DEF EventsOk, Stored
<1>1. PICK p, q \in DOMAIN journal :
         /\ PreparedAt(u, p) /\ CommittedAt(u, p, q)
         /\ ~Open(u) => \E z \in DOMAIN journal : EndAt(u, q, z)
  BY DEF EventsOk
<1>2. \A code, i : Only(code, u, i)' <=> Only(code, u, i)
  BY AtStays
<1>3. p \in DOMAIN journal' /\ q \in DOMAIN journal' /\ p - 1 \in DOMAIN journal
  BY <1>1 DEF Extends, PreparedAt
<1>4. PreparedAt(u, p)'
  BY <1>1, <1>2, <1>3 DEF PreparedAt, Extends
<1>5. CommittedAt(u, p, q)'
  BY <1>1, <1>2 DEF CommittedAt
<1>6. ASSUME ~Open(u) PROVE \E z \in DOMAIN journal' : EndAt(u, q, z)'
  <2>1. PICK z \in DOMAIN journal : EndAt(u, q, z)
    BY <1>1, <1>6
  <2>2. z \in DOMAIN journal' /\ journal'[z] = journal[z]
    BY <2>1 DEF Extends
  <2>3. PICK st : st = transition[u].state
    OBVIOUS
  <2>4. Only(st, u, z)'
    BY <1>2, <2>1, <2>3 DEF EndAt
  <2>5. st = "finalized" =>
          z > q /\ z + 1 \in DOMAIN journal' /\ journal'[z + 1] = Event("unblocked", u, NoPair)
    BY <2>1, <2>3 DEF EndAt, Extends
  <2>6. ASSUME st = "recovery_required"
        PROVE  /\ z - 1 > q /\ journal'[z] = Event("recovery_required", u, store'.pair)
               /\ journal'[z - 1] = Event("recovered", u, store'.pair)
    <3>1. z - 1 > q /\ z - 1 \in DOMAIN journal
      BY <1>1, <2>1, <2>3, <2>6 DEF EndAt, Extends
    <3> QED BY <2>1, <2>2, <2>3, <2>6, <3>1 DEF EndAt, Extends
  <2>7. EndAt(u, q, z)'
    BY <2>3, <2>4, <2>5, <2>6 DEF EndAt
  <2> QED BY <2>2, <2>7
<1>7. Open(u)' <=> Open(u)
  BY DEF Open
<1> QED BY <1>3, <1>4, <1>5, <1>6, <1>7 DEF EventsOk

LEMMA CleanupEventsStay ==
  ASSUME NEW new, Extends(new), NEW u \in Transitions, NEW k \in LocatorKind,
         CleanupEventsOk(u, k), cleanup'[u][k] = cleanup[u][k],
         transition'[u].state = "finalized" =>
            transition[u].state = "finalized" \/ cleanup[u][k] # "provisional",
         \A j \in DOMAIN new : new[j].code \in CleanupCodes => new[j].id # <<u, k>>
  PROVE  CleanupEventsOk(u, k)'
<1>1. PICK id : id = <<u, k>>
  OBVIOUS
<1>2. \A code \in CleanupCodes :
         /\ \A i : Only(code, id, i)' <=> Only(code, id, i)
         /\ Never(code, id)' <=> Never(code, id)
  BY <1>1, AtStays
<1> QED BY <1>1, <1>2 DEF CleanupEventsOk, CleanupCodes, Has

-----------------------------------------------------------------------------
(* The replay of the store's events.                                         *)

\* A step keeps what the replay reads of the rows behind its events.
RowsKept ==
    \A v : \A i \in StoreEvents :
        journal[i].id = v =>
            /\ transition'[v].expected = transition[v].expected
            /\ journal[i].code = "unblocked" => ResultPair(v)' = ResultPair(v)
            /\ journal[i].code # "blocked" => transition'[v].state = transition[v].state

\* A call that writes no store event.
LEMMA StoreEventsKept ==
  ASSUME NEW new, Extends(new), \A j \in DOMAIN new : new[j].code \notin StoreCodes
  PROVE  StoreEvents' = StoreEvents /\ \A i \in StoreEvents : journal'[i] = journal[i]
<1>1. \A i \in StoreEvents : i \in DOMAIN journal /\ journal'[i] = journal[i] /\ i \in DOMAIN journal'
  BY DEF StoreEvents, Extends
<1>2. StoreEvents \subseteq StoreEvents'
  BY <1>1 DEF StoreEvents, IsStoreEvent
<1>3. StoreEvents' \subseteq StoreEvents
  <2> SUFFICES ASSUME NEW i \in StoreEvents' PROVE i \in StoreEvents
    OBVIOUS
  <2>1. i \in DOMAIN journal' /\ journal'[i].code \in StoreCodes
    BY DEF StoreEvents, IsStoreEvent, StoreCodes
  <2>2. i \in DOMAIN journal /\ journal'[i] = journal[i]
    BY <2>1, OldOrNew
  <2> QED BY <2>1, <2>2 DEF StoreEvents, IsStoreEvent, StoreCodes
<1> QED BY <1>1, <1>2, <1>3

\* A call that writes one.
LEMMA StoreEventsGrow ==
  ASSUME NEW new, Extends(new), NEW n \in DOMAIN new, NEW p, p = Len(journal) + n,
         \A j \in DOMAIN new : new[j].code \in StoreCodes <=> j = n
  PROVE  /\ StoreEvents' = StoreEvents \cup {p} /\ journal'[p] = new[n]
         /\ \A i \in StoreEvents : i \in Nat /\ i < p /\ journal'[i] = journal[i]
         /\ p \in Nat
<1>1. \A i \in StoreEvents :
         i \in DOMAIN journal /\ journal'[i] = journal[i] /\ i \in DOMAIN journal' /\ i < p /\ i \in Nat
  BY DEF StoreEvents, Extends
<1>2. p \in DOMAIN journal' /\ journal'[p] = new[n] /\ p \in Nat
  BY DEF Extends
<1>3. StoreEvents \cup {p} \subseteq StoreEvents'
  BY <1>1, <1>2 DEF StoreEvents, IsStoreEvent, StoreCodes
<1>4. StoreEvents' \subseteq StoreEvents \cup {p}
  <2> SUFFICES ASSUME NEW i \in StoreEvents' PROVE i \in StoreEvents \cup {p}
    OBVIOUS
  <2>1. i \in DOMAIN journal' /\ journal'[i].code \in StoreCodes
    BY DEF StoreEvents, IsStoreEvent, StoreCodes
  <2>2. CASE i \in DOMAIN journal /\ journal'[i] = journal[i]
    BY <2>1, <2>2 DEF StoreEvents, IsStoreEvent, StoreCodes
  <2>3. ASSUME NEW j \in DOMAIN new, i = Len(journal) + j, journal'[i] = new[j] PROVE i = p
    BY <2>1, <2>3
  <2> QED BY <2>1, <2>2, <2>3, OldOrNew
<1> QED BY <1>1, <1>2, <1>3, <1>4

LEMMA ReplayKept ==
  ASSUME ValidStoreEvents, RowsKept, StoreEvents' = StoreEvents,
         \A i \in StoreEvents : journal'[i] = journal[i],
         \A i \in StoreEvents : \A e : e = journal[i] /\ LastOf(StoreEvents, i) => ValidOutcome(e)',
         StoreEvents = {} => store' = store
  PROVE  ValidStoreEvents'
<1>1. PICK S : S = StoreEvents
  OBVIOUS
<1>2. /\ \A i \in S : FirstOf(S, i) =>
            journal[i].code = "blocked" /\ transition[journal[i].id].expected = InitialPair
      /\ \A i, j \in S : Adjacent(S, j, i) => ValidSuccession(journal[j], journal[i])
      /\ S = {} => store = [state |-> "active", pair |-> InitialPair]
  BY <1>1 DEF ValidStoreEvents
<1>3. /\ \A i \in S : FirstOf(S, i) =>
            journal'[i].code = "blocked" /\ transition'[journal'[i].id].expected = InitialPair
      /\ S = {} => store' = [state |-> "active", pair |-> InitialPair]
  BY <1>1, <1>2 DEF RowsKept
<1>4. ASSUME NEW i \in S, NEW j \in S, Adjacent(S, j, i)
      PROVE  ValidSuccession(journal[j], journal[i])'
  <2>1. ValidSuccession(journal[j], journal[i])
    BY <1>2, <1>4
  <2>2. journal'[i] = journal[i] /\ journal'[j] = journal[j]
    BY <1>1
  <2> QED BY <1>1, <2>1, <2>2 DEF ValidSuccession, RowsKept
<1>5. \A i \in S : LastOf(S, i) => ValidOutcome(journal[i])'
  <2> SUFFICES ASSUME NEW i \in S, LastOf(S, i) PROVE ValidOutcome(journal[i])'
    OBVIOUS
  <2>1. PICK e : e = journal[i]
    OBVIOUS
  <2>2. ValidOutcome(e)' /\ journal'[i] = e
    BY <1>1, <2>1
  <2> QED BY <2>2 DEF ValidOutcome
<1>6. StoreEvents' = S
  BY <1>1
<1> QED BY <1>3, <1>4, <1>5, <1>6 DEF ValidStoreEvents

LEMMA ReplayGrows ==
  ASSUME ValidStoreEvents, RowsKept, NEW p \in Nat, NEW e, e = journal'[p],
         StoreEvents' = StoreEvents \cup {p},
         \A i \in StoreEvents : i \in Nat /\ i < p /\ journal'[i] = journal[i],
         StoreEvents = {} => e.code = "blocked" /\ transition'[e.id].expected = InitialPair,
         \A i \in StoreEvents : \A f :
            f = journal[i] /\ LastOf(StoreEvents, i) => ValidSuccession(f, e)',
         ValidOutcome(e)'
  PROVE  ValidStoreEvents'
<1>1. PICK S : S = StoreEvents
  OBVIOUS
<1>2. PICK T : T = S \cup {p}
  OBVIOUS
<1>3. /\ \A i \in S : FirstOf(S, i) =>
            journal[i].code = "blocked" /\ transition[journal[i].id].expected = InitialPair
      /\ \A i, j \in S : Adjacent(S, j, i) => ValidSuccession(journal[j], journal[i])
  BY <1>1 DEF ValidStoreEvents
<1>4. ASSUME NEW i \in T, FirstOf(T, i)
      PROVE  journal'[i].code = "blocked" /\ transition'[journal'[i].id].expected = InitialPair
  <2>1. CASE i \in S
    <3>1. FirstOf(S, i)
      BY <1>2, <1>4 DEF FirstOf
    <3> QED BY <1>1, <1>3, <2>1, <3>1 DEF RowsKept
  <2>2. CASE i = p
    <3>1. S = {}
      BY <1>1, <1>2, <1>4, <2>2 DEF FirstOf
    <3> QED BY <1>1, <2>2, <3>1
  <2> QED BY <1>2, <2>1, <2>2
<1>5. ASSUME NEW i \in T, NEW j \in T, Adjacent(T, j, i)
      PROVE  ValidSuccession(journal[j], journal[i])'
  <2>1. CASE i \in S /\ j \in S
    <3>1. Adjacent(S, j, i)
      BY <1>2, <1>5 DEF Adjacent
    <3>2. ValidSuccession(journal[j], journal[i])
      BY <1>3, <2>1, <3>1
    <3>3. journal'[i] = journal[i] /\ journal'[j] = journal[j]
      BY <1>1, <2>1
    <3> QED BY <1>1, <2>1, <3>2, <3>3 DEF ValidSuccession, RowsKept
  <2>2. CASE i = p /\ j \in S
    <3>1. LastOf(S, j)
      BY <1>1, <1>2, <1>5, <2>2 DEF Adjacent, LastOf
    <3>2. PICK f : f = journal[j]
      OBVIOUS
    <3>3. ValidSuccession(f, e)' /\ journal'[j] = f /\ journal'[i] = e
      BY <1>1, <2>2, <3>1, <3>2
    <3> QED BY <3>3 DEF ValidSuccession
  <2>3. CASE j = p
    BY <1>1, <1>2, <1>5, <2>3 DEF Adjacent
  <2> QED BY <1>2, <2>1, <2>2, <2>3
<1>6. ASSUME NEW i \in T, LastOf(T, i)
      PROVE  ValidOutcome(journal[i])'
  <2>1. i = p
    BY <1>1, <1>2, <1>6 DEF LastOf
  <2> QED BY <2>1 DEF ValidOutcome
<1>7. StoreEvents' = T /\ T # {}
  BY <1>1, <1>2
<1> QED BY <1>4, <1>5, <1>6, <1>7 DEF ValidStoreEvents

-----------------------------------------------------------------------------
(* The rows behind the events.                                               *)

\* A step that loses no row, no commit and no end.
RowsGrow ==
    \A v \in Transitions :
        /\ Stored(v) => Stored(v)'
        /\ transition[v].committed => transition'[v].committed
        /\ transition[v].state \in EndCodes => transition'[v].state = transition[v].state

LEMMA JournalGrows ==
  ASSUME JournalOk, RowsGrow, NEW new \in Seq(EventRows), journal' = journal \o new,
         \A j \in DOMAIN new : \A e : e = new[j] => EventOk(e)'
  PROVE  JournalOk' /\ Extends(new)
<1>1. Extends(new) /\ journal' \in Seq(EventRows)
  BY AppendExtends DEF JournalOk
<1>2. ASSUME NEW e, EventOk(e) PROVE EventOk(e)'
  BY <1>2 DEF EventOk, RowsGrow, TransitionCodes, StoreCodes, CleanupCodes, EndCodes
<1>3. ASSUME NEW i \in DOMAIN journal', NEW e, e = journal'[i] PROVE EventOk(e)'
  <2>1. CASE i \in DOMAIN journal /\ journal'[i] = journal[i]
    <3>1. EventOk(e)
      BY <1>3, <2>1 DEF JournalOk
    <3> QED BY <3>1, <1>2
  <2>2. ASSUME NEW j \in DOMAIN new, journal'[i] = new[j] PROVE EventOk(e)'
    BY <1>3, <2>2
  <2> QED BY <1>1, <2>1, <2>2, OldOrNew
<1>4. ASSUME NEW i \in DOMAIN journal' PROVE EventOk(journal[i])'
  <2>1. PICK e : e = journal'[i]
    OBVIOUS
  <2>2. EventOk(e)'
    BY <1>3, <2>1
  <2> QED BY <2>1, <2>2 DEF EventOk
<1> QED BY <1>1, <1>4 DEF JournalOk

\* Events no row has reached yet are not in the journal.
LEMMA NotReached ==
  ASSUME JournalOk, NEW t \in Transitions
  PROVE  /\ ~Stored(t) => Never("used", t) /\ Never("prepared", t)
         /\ ~transition[t].committed => Never("config_committed", t)
         /\ \A code \in EndCodes : transition[t].state # code => Never(code, t)
         /\ ~Stored(t) => \A i \in StoreEvents : journal[i].id # t
<1>1. t \notin CleanupIds
  BY TransitionsAssumption DEF CleanupIds, LocatorKind
<1>2. \A i \in DOMAIN journal : EventOk(journal[i])
  BY DEF JournalOk
<1>3. ~Stored(t) => Never("used", t) /\ Never("prepared", t)
  BY <1>1, <1>2 DEF EventOk, Never, At, TransitionCodes
<1>4. ~transition[t].committed => Never("config_committed", t)
  BY <1>2 DEF EventOk, Never, At
<1>5. \A code \in EndCodes : transition[t].state # code => Never(code, t)
  BY <1>2 DEF EventOk, Never, At
<1>6. ~Stored(t) => \A i \in StoreEvents : journal[i].id # t
  BY <1>2 DEF EventOk, StoreEvents, IsStoreEvent, StoreCodes
<1> QED BY <1>3, <1>4, <1>5, <1>6

\* The last store event is one, and what the store's row was derived from.
LEMMA LastEvent ==
  ASSUME JournalOk, ValidStoreEvents, LastOk, NEW i \in StoreEvents, LastOf(StoreEvents, i)
  PROVE  /\ journal[i].code \in StoreCodes /\ journal[i].id \in Transitions
         /\ ValidOutcome(journal[i])
         /\ journal[i].code = "blocked" => Open(journal[i].id)
<1>1. i \in DOMAIN journal /\ journal[i].code \in StoreCodes
  BY DEF StoreEvents, IsStoreEvent, StoreCodes
<1>2. journal[i].id \in Transitions
  BY <1>1 DEF JournalOk, EventOk
<1>3. ValidOutcome(journal[i])
  BY DEF ValidStoreEvents
<1>4. PICK k \in StoreEvents : LastOf(StoreEvents, k) /\ (journal[k].code = "blocked" => Open(journal[k].id))
  BY DEF LastOk
<1>5. k = i
  <2>1. StoreEvents \subseteq Nat
    BY DEF StoreEvents, JournalOk
  <2> QED BY <1>4, <2>1 DEF LastOf
<1> QED BY <1>1, <1>2, <1>3, <1>4, <1>5

-----------------------------------------------------------------------------
(* prepare_account_transition.                                               *)

\* What a prepare does to the rows the validation reads.
PreparedRows(t, k, a, before, c) ==
    /\ t \in Transitions /\ a \in Accounts /\ ~Stored(t)
    /\ store.state = "active" /\ store' = [state |-> "blocked", pair |-> store.pair]
    /\ transition'[t].state = "prepared" /\ transition'[t].kind = k
    /\ transition'[t].account = a /\ transition'[t].before = before
    /\ transition'[t].expected = store.pair
    /\ transition'[t].next = Pair(store.pair.generation + 1, c)
    /\ transition'[t].committed = FALSE
    /\ \A v \in Transitions : v # t => transition'[v] = transition[v]
    /\ account'[a].state = IF k = "create" THEN "proposed" ELSE "blocked"
    /\ \A b \in Accounts : b # a => account'[b] = account[b]
    /\ \A l \in LocatorKind : cleanup'[t][l] \in {"none", "provisional"}
    /\ \A v \in Transitions : v # t => cleanup'[v] = cleanup[v]
    /\ storeVersion' = storeVersion /\ accountVersion' = accountVersion
    /\ \A v \in Transitions : ~InFlight(v)

LEMMA PrepareFacts ==
  ASSUME Inv, NEW t, NEW k, NEW a, NEW before, NEW c, NEW ls,
         Prepares(t, k, a, before, c, ls)
  PROVE  PreparedRows(t, k, a, before, c)
<1>1. PICK after \in Snapshots : PreparedAs(t, k, a, before, after, c)
  BY PrepareEffect, Zenon
<1>2. /\ t \in Transitions /\ a \in Accounts /\ ~Stored(t) /\ store.state = "active"
      /\ PrepareRows(t, k, a, before, After(t, k, before), c, ls)
  BY DEF Prepares, StoreFree
<1>3. /\ transition' = [transition EXCEPT ![t] =
            [state |-> "prepared", kind |-> k, account |-> a,
             expected |-> store.pair, next |-> Pair(store.pair.generation + 1, c),
             before |-> before, after |-> after, committed |-> FALSE]]
      /\ account' = [account EXCEPT ![a] =
            [state |-> IF k = "create" THEN "proposed" ELSE "blocked",
             snapshot |-> after, authorized |-> t, active |-> t]]
      /\ \A v \in Transitions : ~InFlight(v)
  BY <1>1 DEF PreparedAs
<1>4. /\ transition \in [Transitions -> TransitionRows] /\ account \in [Accounts -> AccountRows]
      /\ store \in [state : {"active", "blocked", "recovery_required"},
                    pair : [generation : Nat \ {0}, content : Contents]]
      /\ DOMAIN cleanup = Transitions
  BY DEF Inv, TypeOK
<1>5. /\ transition'[t].state = "prepared" /\ transition'[t].kind = k
      /\ transition'[t].account = a /\ transition'[t].before = before
      /\ transition'[t].expected = store.pair
      /\ transition'[t].next = Pair(store.pair.generation + 1, c)
      /\ transition'[t].committed = FALSE
      /\ \A v \in Transitions : v # t => transition'[v] = transition[v]
  BY <1>2, <1>3, <1>4
<1>6. /\ account'[a].state = IF k = "create" THEN "proposed" ELSE "blocked"
      /\ \A b \in Accounts : b # a => account'[b] = account[b]
  BY <1>2, <1>3, <1>4
<1>7. store' = [state |-> "blocked", pair |-> store.pair]
  BY <1>2, <1>4 DEF PrepareRows, HeldStore
<1>8. /\ \A l \in LocatorKind : cleanup'[t][l] \in {"none", "provisional"}
      /\ \A v \in Transitions : v # t => cleanup'[v] = cleanup[v]
      /\ UNCHANGED <<storeVersion, accountVersion>>
  BY <1>2, <1>4 DEF PrepareRows
<1> QED BY <1>2, <1>3, <1>5, <1>6, <1>7, <1>8 DEF PreparedRows

\* The three events of a prepare.
LEMMA PrepareNew ==
  ASSUME NEW t \in Transitions, NEW new, new = PreparedEvents(t)
  PROVE  /\ new \in Seq(EventRows) /\ DOMAIN new = 1..3 /\ Len(new) = 3
         /\ new[1] = Event("used", t, NoPair) /\ new[2] = Event("blocked", t, NoPair)
         /\ new[3] = Event("prepared", t, NoPair)
         /\ new[1].code = "used" /\ new[2].code = "blocked" /\ new[3].code = "prepared"
         /\ \A j \in DOMAIN new : new[j].id = t
<1>1. \A code \in {"used", "blocked", "prepared"} : Event(code, t, NoPair) \in EventRows
  BY DEF Event, EventRows, TransitionCodes, StoreCodes, NoPair, Pair, Pairs
<1>2. new = <<Event("used", t, NoPair), Event("blocked", t, NoPair), Event("prepared", t, NoPair)>>
  BY DEF PreparedEvents
<1>3. /\ new \in Seq(EventRows) /\ DOMAIN new = 1..3 /\ Len(new) = 3
      /\ new[1] = Event("used", t, NoPair) /\ new[2] = Event("blocked", t, NoPair)
      /\ new[3] = Event("prepared", t, NoPair)
  BY <1>1, <1>2
<1> QED BY <1>3 DEF Event

LEMMA PrepareEvents ==
  ASSUME Inv, JournalOk, EventsInv, NEW t, NEW k, NEW a, NEW before, NEW c, NEW ls,
         Prepares(t, k, a, before, c, ls), NEW new, new = PreparedEvents(t)
  PROVE  JournalOk' /\ Extends(new) /\ EventsInv'
<1>0. PreparedRows(t, k, a, before, c)
  BY PrepareFacts
<1>1. /\ t \in Transitions /\ ~Stored(t) /\ store'.pair = store.pair
      /\ transition'[t].state = "prepared" /\ transition'[t].committed = FALSE
      /\ \A v \in Transitions : v # t => transition'[v] = transition[v]
      /\ \A l \in LocatorKind : cleanup'[t][l] \in {"none", "provisional"}
      /\ \A v \in Transitions : v # t => cleanup'[v] = cleanup[v]
  BY <1>0 DEF PreparedRows
<1>2. journal' = journal \o new
  BY DEF Prepares, PrepareRows
<1>3. Stored(t)' /\ Open(t)' /\ t \notin CleanupIds /\ ~transition[t].committed
  <2>1. transition[t] = NoTransition
    BY <1>1 DEF Inv, RowsInv, RowOk
  <2> QED BY <1>1, <2>1, TransitionsAssumption
          DEF Stored, Open, CleanupIds, LocatorKind, NoTransition
<1>4. RowsGrow
  BY <1>1, <1>3 DEF RowsGrow, Stored, EndCodes
<1>5. \A j \in DOMAIN new : \A e : e = new[j] => EventOk(e)'
  BY <1>1, <1>3, PrepareNew DEF EventOk, TransitionCodes, StoreCodes, CleanupCodes, EndCodes
<1>6. JournalOk' /\ Extends(new)
  BY <1>1, <1>2, <1>4, <1>5, PrepareNew, JournalGrows
<1>7. EventsOk(t)'
  <2>1. PICK u, b, p : u = Len(journal) + 1 /\ b = Len(journal) + 2 /\ p = Len(journal) + 3
    OBVIOUS
  <2>2. Only("used", t, u)' /\ Only("prepared", t, p)'
    BY <1>1, <1>6, <2>1, NotReached, PrepareNew, AtWritten
  <2>3. /\ p \in DOMAIN journal' /\ p > 2 /\ u = p - 2 /\ b = p - 1
        /\ journal'[b] = Event("blocked", t, NoPair)
    <3>1. 2 \in DOMAIN new /\ Len(new) = 3 /\ new[2] = Event("blocked", t, NoPair)
      BY <1>1, PrepareNew
    <3>2. Len(journal) \in Nat /\ DOMAIN journal' = 1..(Len(journal) + 3) /\ journal'[b] = new[2]
      BY <1>6, <2>1, <3>1 DEF Extends
    <3> QED BY <2>1, <3>1, <3>2
  <2>4. PreparedAt(t, p)'
    BY <2>2, <2>3 DEF PreparedAt
  <2> QED BY <1>1, <1>3, <2>3, <2>4 DEF EventsOk, CommittedAt
<1>8. ASSUME NEW v \in Transitions, v # t PROVE EventsOk(v)'
  BY <1>1, <1>6, <1>8, PrepareNew, EventsStay DEF EventsInv
<1>9. ASSUME NEW v \in Transitions, NEW l \in LocatorKind PROVE CleanupEventsOk(v, l)'
  <2>1. \A j \in DOMAIN new : new[j].code \notin CleanupCodes
    BY <1>1, PrepareNew DEF CleanupCodes
  <2>2. CASE v # t
    BY <1>1, <1>6, <2>1, <2>2, CleanupEventsStay DEF EventsInv
  <2>3. CASE v = t
    <3>1. PICK id : id = <<t, l>>
      OBVIOUS
    <3>2. cleanup[t][l] = "none"
      BY <1>1 DEF Inv, RowsInv, CleanupOk
    <3>3. \A code \in CleanupCodes : Never(code, id)
      BY <1>1, <3>1, <3>2 DEF EventsInv, CleanupEventsOk, Has, CleanupCodes
    <3>4. \A code \in CleanupCodes : Never(code, id)'
      BY <1>6, <2>1, <3>3, AtStays
    <3> QED BY <1>1, <2>3, <3>1, <3>4 DEF CleanupEventsOk, Has, CleanupCodes
  <2> QED BY <2>2, <2>3
<1> QED BY <1>6, <1>7, <1>8, <1>9 DEF EventsInv

\* The replay goes on from an open store, and the prepared transition starts
\* from the pair it ended with.
LEMMA PrepareReplay ==
  ASSUME Inv, JournalInv, NEW t, NEW k, NEW a, NEW before, NEW c, NEW ls,
         Prepares(t, k, a, before, c, ls), NEW new, new = PreparedEvents(t), Extends(new)
  PROVE  ValidStoreEvents' /\ LastOk'
<1>0. PreparedRows(t, k, a, before, c)
  BY PrepareFacts
<1>1. /\ t \in Transitions /\ ~Stored(t) /\ store.state = "active"
      /\ store' = [state |-> "blocked", pair |-> store.pair]
      /\ transition'[t].state = "prepared" /\ transition'[t].committed = FALSE
      /\ transition'[t].expected = store.pair
      /\ \A v \in Transitions : v # t => transition'[v] = transition[v]
  BY <1>0 DEF PreparedRows
<1>2. JournalOk /\ ValidStoreEvents /\ LastOk
  BY DEF JournalInv
<1>3. PICK p : p = Len(journal) + 2
  OBVIOUS
<1>4. /\ StoreEvents' = StoreEvents \cup {p} /\ journal'[p] = new[2] /\ p \in Nat
      /\ \A i \in StoreEvents : i \in Nat /\ i < p /\ journal'[i] = journal[i]
  <2>1. /\ 2 \in DOMAIN new
        /\ \A j \in DOMAIN new : new[j].code \in StoreCodes <=> j = 2
    BY <1>1, PrepareNew DEF StoreCodes
  <2> QED BY <1>3, <2>1, StoreEventsGrow
<1>5. PICK e : e = new[2]
  OBVIOUS
<1>6. e.code = "blocked" /\ e.id = t /\ ResultPair(t)' = store.pair
  BY <1>1, <1>5, PrepareNew DEF ResultPair
<1>7. \A i \in StoreEvents : journal[i].id \in Transitions /\ journal[i].id # t
  <2>1. \A i \in StoreEvents : journal[i].id \in Transitions
    BY <1>2 DEF JournalOk, EventOk, StoreEvents, IsStoreEvent, StoreCodes
  <2> QED BY <1>1, <1>2, <2>1, NotReached
<1>8. \A v \in Transitions : v # t => ResultPair(v)' = ResultPair(v)
  BY <1>1 DEF ResultPair
<1>9. RowsKept
  BY <1>1, <1>7, <1>8 DEF RowsKept
<1>10. StoreEvents = {} => e.code = "blocked" /\ transition'[e.id].expected = InitialPair
  BY <1>1, <1>2, <1>6 DEF ValidStoreEvents
<1>11. ASSUME NEW i \in StoreEvents, NEW f, f = journal[i], LastOf(StoreEvents, i)
       PROVE  ValidSuccession(f, e)'
  <2>1. f.code \in StoreCodes /\ f.id \in Transitions /\ f.id # t /\ ValidOutcome(f)
    BY <1>2, <1>7, <1>11, LastEvent
  <2>2. f.code = "unblocked" /\ store.pair = ResultPair(f.id)
    BY <1>1, <2>1 DEF ValidOutcome, StoreCodes
  <2>3. ResultPair(f.id)' = store.pair
    BY <1>8, <2>1, <2>2
  <2> QED BY <1>1, <1>6, <2>2, <2>3 DEF ValidSuccession
<1>12. ValidOutcome(e)'
  BY <1>1, <1>6 DEF ValidOutcome
<1>13. ValidStoreEvents'
  BY <1>2, <1>4, <1>5, <1>9, <1>10, <1>11, <1>12, ReplayGrows
<1>14. LastOk'
  <2>1. p \in StoreEvents' /\ LastOf(StoreEvents', p)
    BY <1>4 DEF LastOf
  <2>2. Open(t)' /\ journal'[p].id = t
    BY <1>1, <1>4, <1>5, <1>6 DEF Open
  <2> QED BY <2>1, <2>2 DEF LastOk, LastOf, Open
<1> QED BY <1>13, <1>14

\* The prepared transition is the latest of its account, which now follows it.
LEMMA PrepareChain ==
  ASSUME Inv, NoAbort, ChainInv, NEW t, NEW k, NEW a, NEW before, NEW c, NEW ls,
         Prepares(t, k, a, before, c, ls)
  PROVE  ChainInv'
<1>0. PreparedRows(t, k, a, before, c)
  BY PrepareFacts
<1>1. /\ t \in Transitions /\ a \in Accounts /\ ~Stored(t) /\ store.state = "active"
      /\ store' = [state |-> "blocked", pair |-> store.pair]
      /\ transition'[t].state = "prepared" /\ transition'[t].kind = k
      /\ transition'[t].account = a /\ transition'[t].before = before
      /\ transition'[t].expected = store.pair
      /\ transition'[t].next = Pair(store.pair.generation + 1, c)
      /\ transition'[t].committed = FALSE
      /\ \A v \in Transitions : v # t => transition'[v] = transition[v]
      /\ account'[a].state = IF k = "create" THEN "proposed" ELSE "blocked"
      /\ \A b \in Accounts : b # a => account'[b] = account[b]
      /\ storeVersion' = storeVersion /\ accountVersion' = accountVersion
      /\ \A v \in Transitions : ~InFlight(v)
  BY <1>0 DEF PreparedRows
<1>2. /\ store.pair.generation \in Nat /\ store'.pair = store.pair /\ store'.state = "blocked"
      /\ transition'[t].next.generation = store.pair.generation + 1
  BY <1>1 DEF Inv, TypeOK, Pair
<1>3. \A v \in Transitions : /\ transition[v].next.generation \in Nat
                             /\ transition[v].expected.generation \in Nat
  BY DEF Inv, TypeOK, TransitionRows, Pairs
<1>4. \A v \in Transitions : Stored(v) =>
         /\ v # t /\ transition[v].state = "finalized"
         /\ transition[v].next.generation <= store.pair.generation
         /\ transition[v].expected.generation < store.pair.generation
         /\ transition[v].account \in Accounts
  <2> SUFFICES ASSUME NEW v \in Transitions, Stored(v)
               PROVE  /\ v # t /\ transition[v].state = "finalized"
                      /\ transition[v].next.generation <= store.pair.generation
                      /\ transition[v].expected.generation < store.pair.generation
                      /\ transition[v].account \in Accounts
    OBVIOUS
  <2>1. v # t /\ ~InFlight(v)
    BY <1>1
  <2>2. transition[v].state = "finalized"
    BY <2>1 DEF NoAbort, Stored, InFlight, Open, Inv, TypeOK, TransitionRows, TransitionStates
  <2>3. transition[v].account \in Accounts
    BY DEF Inv, RowsInv, RowOk, RowShape
  <2>4. /\ transition[v].next.generation = transition[v].expected.generation + 1
        /\ transition[v].next.generation <= store.pair.generation
    BY <1>1, <2>1 DEF ChainInv, ChainOk
  <2> QED BY <1>2, <1>3, <2>1, <2>2, <2>3, <2>4
<1>5. \A v \in Transitions : ~Stored(v) => transition[v] = NoTransition
  BY DEF Inv, RowsInv, RowOk
<1>6. \A v \in Transitions : v # t => (Stored(v)' <=> Stored(v)) /\ ~InFlight(v)'
  BY <1>1 DEF Stored, InFlight, Open
<1>7. \A v \in Transitions : ChainOk(v)'
  <2>1. ChainOk(t)'
    BY <1>1, <1>2, <1>4, <1>6 DEF ChainOk, InFlight, Open
  <2>2. ASSUME NEW v \in Transitions, v # t PROVE ChainOk(v)'
    <3>1. transition[v].state \notin {"prepared", "config_committed"}
      BY <1>1 DEF InFlight, Open
    <3>2. ChainOk(v)
      BY DEF ChainInv
    <3> QED BY <1>1, <1>2, <1>4, <1>6, <2>2, <3>1, <3>2 DEF ChainOk
  <2> QED BY <2>1, <2>2
<1>8. \A v \in Transitions : CurrentOk(v)'
  <2>1. CurrentOk(t)'
    BY <1>1 DEF CurrentOk, InFlight, Open
  <2>2. ASSUME NEW v \in Transitions, v # t PROVE CurrentOk(v)'
    <3> SUFFICES ASSUME transition[v].state = "finalized", Latest(v)'
                 PROVE  CurrentOk(v)'
      BY <1>1, <1>6, <2>2 DEF CurrentOk
    <3>1. Stored(v) /\ transition'[v] = transition[v]
      BY <1>1, <2>2 DEF Stored
    <3>2. transition[v].account # a
      BY <1>1, <1>2, <1>3, <1>4, <2>2, <3>1 DEF Latest
    <3>3. account'[transition[v].account] = account[transition[v].account]
      BY <1>1, <1>4, <3>1, <3>2
    <3>4. Latest(v)
      <4> SUFFICES ASSUME NEW u \in Transitions, u # v,
                          transition[u].account = transition[v].account
                   PROVE  transition[u].expected.generation < transition[v].next.generation
        BY <3>1 DEF Latest
      <4>1. u # t
        <5>1. transition[t].account = None
          BY <1>1, <1>5 DEF NoTransition
        <5> QED BY <1>4, <3>1, <5>1, TransitionsAssumption
      <4> QED BY <1>1, <3>1, <4>1 DEF Latest
    <3> QED BY <1>6, <2>2, <3>1, <3>3, <3>4 DEF CurrentOk, ChainInv
  <2> QED BY <2>1, <2>2
<1>9. \A v \in Transitions : VersionsOk(v)'
  <2>1. \A v \in Transitions : \A b, s : CommittedAs(v, b, s) => CommittedAs(v, b, s)'
    <3>1. \A v \in Transitions : transition[v].state = "finalized" => v # t
      BY <1>1 DEF Stored
    <3> QED BY <1>1, <3>1 DEF CommittedAs
  <2>2. storeVersion[t] = NoPair
    BY <1>1, <1>5 DEF ChainInv, VersionsOk, NoTransition
  <2>3. VersionsOk(t)'
    <3>1. StartsFrom(store.pair)'
      <4>1. StartsFrom(store.pair)
        BY <1>1 DEF Inv, PairFollowsCommits, StartsFrom
      <4>2. ASSUME NEW u \in Transitions, transition[u].committed PROVE u # t
        BY <1>1, <1>5, <4>2 DEF NoTransition
      <4> QED BY <1>1, <1>2, <4>1, <4>2 DEF StartsFrom
    <3>2. k # "create" => \E u \in Transitions : CommittedAs(u, a, before)
      BY <1>1 DEF Prepares, Inv, RowsInv, AccountOk, CommittedAs
    <3> QED BY <1>1, <2>1, <2>2, <3>1, <3>2 DEF VersionsOk
  <2>4. ASSUME NEW v \in Transitions, v # t PROVE VersionsOk(v)'
    <3>1. ASSUME NEW u \in Transitions, transition[u].committed PROVE u # t
      BY <1>1, <1>5, <3>1 DEF NoTransition
    <3>2. VersionsOk(v) /\ transition'[v] = transition[v]
      BY <1>1, <2>4 DEF ChainInv
    <3>3. Stored(v) => StartsFrom(transition[v].expected)'
      BY <1>1, <3>1, <3>2 DEF VersionsOk, StartsFrom
    <3> QED BY <1>1, <1>6, <2>1, <2>4, <3>2, <3>3 DEF VersionsOk
  <2> QED BY <2>3, <2>4
<1> QED BY <1>7, <1>8, <1>9 DEF ChainInv

-----------------------------------------------------------------------------
(* apply_account_observation.                                                *)

\* An observation of the open transition that aborts nothing.
Advances(t) ==
    /\ Observes(t)
    /\ transition'[t].state \in {"config_committed", "finalized", "recovery_required"}
    /\ transition'[t].expected = transition[t].expected
    /\ transition[t].committed => transition'[t].committed
    /\ transition'[t].state # "config_committed" =>
          transition'[t].committed = transition[t].committed

LEMMA AdvanceEffect ==
  ASSUME Inv, NEW t \in Transitions, NEW pair \in ObservedPairs,
         MarkConfigCommitted(t, pair) \/ Finalize(t, pair) \/ EnterRecovery(t, pair)
  PROVE  Advances(t)
<1>1. transition'[t].expected = transition[t].expected
  BY DEF MarkConfigCommitted, Finalize, EnterRecovery, Inv, TypeOK, TransitionRows
<1>2. CASE MarkConfigCommitted(t, pair)
  <2>1. /\ Observes(t) /\ transition'[t].state = "config_committed"
        /\ transition'[t].committed = TRUE
    BY <1>2, MarkEffect
  <2> QED BY <1>1, <2>1 DEF Advances
<1>3. CASE Finalize(t, pair)
  <2>1. /\ Observes(t) /\ transition'[t].state = "finalized"
        /\ transition'[t].committed = transition[t].committed
    BY <1>3, FinalizeEffect
  <2> QED BY <1>1, <2>1 DEF Advances
<1>4. CASE EnterRecovery(t, pair)
  <2>1. /\ Observes(t) /\ transition'[t].state = "recovery_required"
        /\ transition'[t].committed = transition[t].committed
    BY <1>4, RecoveryEffect
  <2> QED BY <1>1, <2>1 DEF Advances
<1> QED BY <1>2, <1>3, <1>4

\* The store's last event blocked it for the open transition.
LEMMA OpenLast ==
  ASSUME Inv, JournalInv, NEW t \in Transitions, Open(t)
  PROVE  /\ store.state = "blocked" /\ store.pair = ResultPair(t)
         /\ StoreEvents # {}
         /\ \A i \in StoreEvents : LastOf(StoreEvents, i) =>
               journal[i].code = "blocked" /\ journal[i].id = t
         /\ \E i \in StoreEvents : LastOf(StoreEvents, i)
<1>1. store.state = "blocked"
  BY DEF Inv, RowsInv, StoreOk
<1>2. JournalOk /\ ValidStoreEvents /\ LastOk
  BY DEF JournalInv
<1>3. StoreEvents # {}
  BY <1>1, <1>2 DEF ValidStoreEvents
<1>4. PICK l \in StoreEvents : LastOf(StoreEvents, l)
  BY <1>2, <1>3 DEF LastOk
<1>5. ASSUME NEW i \in StoreEvents, LastOf(StoreEvents, i)
      PROVE  /\ journal[i].code = "blocked" /\ journal[i].id = t
             /\ store.pair = ResultPair(t)
  <2>1. /\ journal[i].code \in StoreCodes /\ journal[i].id \in Transitions
        /\ ValidOutcome(journal[i])
        /\ journal[i].code = "blocked" => Open(journal[i].id)
    BY <1>2, <1>5, LastEvent
  <2>2. journal[i].code = "blocked" /\ store.pair = ResultPair(journal[i].id)
    BY <1>1, <2>1 DEF ValidOutcome, StoreCodes
  <2>3. journal[i].id = t
    BY <2>1, <2>2, OpenFacts DEF InFlight
  <2> QED BY <2>2, <2>3
<1> QED BY <1>1, <1>3, <1>4, <1>5

\* What the replay and the event rows read is kept: the open transition has
\* neither unblocked nor frozen the store yet.
LEMMA AdvanceKeeps ==
  ASSUME Inv, JournalOk, NEW t, Advances(t)
  PROVE  RowsGrow /\ RowsKept
<1>1. /\ t \in Transitions /\ Open(t) /\ Stored(t)
      /\ transition'[t].expected = transition[t].expected
      /\ transition[t].committed => transition'[t].committed
      /\ \A v \in Transitions : v # t => transition'[v] = transition[v]
  BY OpenFacts DEF Advances, Observes
<1>2. \A v \in Transitions : Stored(v)' <=> Stored(v)
  BY ObservedStored DEF Advances
<1>3. RowsGrow
  BY <1>1, <1>2 DEF RowsGrow, EndCodes, Open
<1>4. ASSUME NEW i \in StoreEvents
      PROVE  /\ journal[i].id \in Transitions
             /\ journal[i].id = t => journal[i].code = "blocked"
  <2>1. i \in DOMAIN journal /\ journal[i].code \in StoreCodes
    BY DEF StoreEvents, IsStoreEvent, StoreCodes
  <2>2. EventOk(journal[i])
    BY <2>1 DEF JournalOk
  <2> QED BY <1>1, <2>1, <2>2 DEF EventOk, StoreCodes, Open
<1>5. \A v \in Transitions : v # t => ResultPair(v)' = ResultPair(v)
  BY <1>1 DEF ResultPair
<1>6. RowsKept
  BY <1>1, <1>4, <1>5 DEF RowsKept
<1> QED BY <1>3, <1>6

\* The events written before the observation stay what they were.
LEMMA AdvanceEvents ==
  ASSUME Inv, EventsInv, NEW t, Advances(t), NEW new, Extends(new),
         \A j \in DOMAIN new : \A v \in Transitions : v # t => new[j].id # v
  PROVE  \A v \in Transitions : v # t => EventsOk(v)'
<1> SUFFICES ASSUME NEW v \in Transitions, v # t PROVE EventsOk(v)'
  OBVIOUS
<1>1. EventsOk(v) /\ transition'[v] = transition[v]
  BY DEF EventsInv, Advances, Observes
<1>2. transition[v].state # "recovery_required"
  BY OpenFacts DEF Advances, Observes, InFlight
<1>3. \A j \in DOMAIN new : new[j].id # v
  OBVIOUS
<1> QED BY <1>1, <1>2, <1>3, EventsStay

LEMMA PreparedStays ==
  ASSUME NEW new, Extends(new), NEW t, NEW p \in DOMAIN journal, PreparedAt(t, p),
         \A j \in DOMAIN new : new[j].id = t => new[j].code \notin {"prepared", "used"}
  PROVE  p \in DOMAIN journal' /\ PreparedAt(t, p)'
<1>1. \A i : (Only("prepared", t, i)' <=> Only("prepared", t, i))
             /\ (Only("used", t, i)' <=> Only("used", t, i))
  BY AtStays
<1>2. p \in DOMAIN journal' /\ p - 1 \in DOMAIN journal
  BY DEF Extends, PreparedAt
<1> QED BY <1>1, <1>2 DEF PreparedAt, Extends

\* Cleanups that a call neither moves nor writes of.
LEMMA AdvanceCleanups ==
  ASSUME EventsInv, NEW t \in Transitions, Advances(t), NEW new, Extends(new),
         NEW v \in Transitions, NEW k \in LocatorKind, cleanup'[v][k] = cleanup[v][k],
         v = t => transition'[t].state # "finalized" \/ cleanup[v][k] # "provisional",
         \A j \in DOMAIN new : new[j].code \in CleanupCodes => new[j].id # <<v, k>>
  PROVE  CleanupEventsOk(v, k)'
<1>1. CleanupEventsOk(v, k)
  BY DEF EventsInv
<1>2. transition'[v].state = "finalized" =>
            transition[v].state = "finalized" \/ cleanup[v][k] # "provisional"
  BY DEF Advances, Observes
<1> QED BY <1>1, <1>2, CleanupEventsStay

\* The rows of the other transitions, none of which is the latest of the
\* account in flight.
LEMMA AdvanceChain ==
  ASSUME Inv, ChainInv, NEW t, Advances(t), TypeOK',
         store'.state # "recovery_required" => store'.pair.generation >= store.pair.generation,
         NEW v \in Transitions, v # t
  PROVE  ChainOk(v)' /\ CurrentOk(v)'
<1>1. /\ t \in Transitions /\ Open(t) /\ Stored(t) /\ transition[t].account \in Accounts
      /\ \A u \in Transitions : InFlight(u) <=> u = t
      /\ transition'[v] = transition[v] /\ ~InFlight(v) /\ ~InFlight(v)'
  <2>1. t \in Transitions /\ Open(t) /\ transition'[v] = transition[v]
    BY DEF Advances, Observes
  <2> QED BY <2>1, OpenFacts DEF InFlight, Open
<1>2. \A u \in Transitions :
         /\ transition'[u].account = transition[u].account
         /\ transition'[u].expected = transition[u].expected
         /\ transition'[u].next = transition[u].next
         /\ Stored(u)' <=> Stored(u)
         /\ transition[u].next.generation \in Nat
         /\ transition[u].expected.generation \in Nat
  <2>1. \A u \in Transitions : Stored(u)' <=> Stored(u)
    BY ObservedStored DEF Advances
  <2> QED BY <2>1 DEF Advances, Observes, Inv, TypeOK, TransitionRows, Pairs
<1>3. store.pair.generation \in Nat /\ store'.pair.generation \in Nat
  BY DEF Inv, TypeOK
<1>4. ChainOk(v) /\ CurrentOk(v) /\ ChainOk(t) /\ store.state # "recovery_required"
  BY <1>1 DEF ChainInv, Inv, RowsInv, StoreOk, InFlight, Open
<1>5. ChainOk(v)'
  BY <1>1, <1>2, <1>3, <1>4 DEF ChainOk, InFlight, Open
<1>6. ASSUME transition[v].state = "finalized", Latest(v)' PROVE CurrentOk(v)'
  <2>1. Stored(v) /\ transition[v].account \in Accounts
    BY <1>6 DEF Stored, Inv, RowsInv, RowOk, RowShape
  <2>2. transition[t].account # transition[v].account
    <3>1. transition[v].next.generation <= transition[t].expected.generation
      BY <1>1, <1>4, <2>1 DEF ChainOk
    <3>2. transition[t].account = transition[v].account =>
             transition[t].expected.generation < transition[v].next.generation
      BY <1>1, <1>2, <1>6 DEF Latest
    <3> QED BY <1>1, <1>2, <3>1, <3>2
  <2>3. account'[transition[v].account] = account[transition[v].account]
    BY <2>1, <2>2 DEF Advances, Observes
  <2>4. Latest(v)
    BY <1>2, <1>6 DEF Latest
  <2> QED BY <1>1, <1>4, <1>6, <2>3, <2>4 DEF CurrentOk
<1>7. CurrentOk(v)'
  BY <1>1, <1>6 DEF CurrentOk
<1> QED BY <1>5, <1>7

\* mark_config_committed.
LEMMA MarkHistory ==
  ASSUME Inv, JournalInv, EventsInv, ChainInv, NEW t \in Transitions,
         NEW pair \in ObservedPairs, MarkConfigCommitted(t, pair)
  PROVE  JournalInv' /\ EventsInv' /\ ChainInv'
<1>1. /\ Advances(t) /\ TypeOK' /\ Open(t)
      /\ transition[t].state = "prepared" /\ transition'[t].state = "config_committed"
      /\ transition'[t].committed = TRUE /\ transition[t].committed = FALSE
      /\ transition'[t].next = transition[t].next
      /\ store'.state = store.state /\ store'.pair = transition[t].next
      /\ account' = account /\ cleanup' = cleanup
  <2>1. Advances(t)
    BY AdvanceEffect
  <2>2. /\ TypeOK' /\ transition[t].state = "prepared"
        /\ transition'[t].state = "config_committed" /\ transition'[t].committed = TRUE
        /\ store'.state = store.state /\ store'.pair = transition[t].next
    BY MarkEffect
  <2>3. transition[t].committed = FALSE
    BY <2>2 DEF Inv, TypeOK, TransitionRows
  <2> QED BY <2>1, <2>2, <2>3 DEF Advances, Observes, MarkConfigCommitted
<1>2. /\ storeVersion'[t] = transition[t].next
      /\ \A v \in Transitions : v # t => storeVersion'[v] = storeVersion[v]
  BY DEF MarkConfigCommitted, InsertVersions, Inv, TypeOK
<1>3. PICK new : new = <<Event("config_committed", t, NoPair)>>
  OBVIOUS
<1>4. /\ new \in Seq(EventRows) /\ DOMAIN new = {1} /\ 1 \in DOMAIN new
      /\ new[1].code = "config_committed" /\ new[1].id = t
  <2>1. Event("config_committed", t, NoPair) \in EventRows
    BY DEF Event, EventRows, TransitionCodes, NoPair, Pair, Pairs
  <2>2. new \in Seq(EventRows) /\ DOMAIN new = {1} /\ new[1] = Event("config_committed", t, NoPair)
    BY <1>3, <2>1
  <2> QED BY <2>2 DEF Event
<1>5. JournalOk /\ ValidStoreEvents /\ LastOk
  BY DEF JournalInv
<1>6. journal' = journal \o new
  <2>1. journal' = Append(journal, Event("config_committed", t, NoPair))
    BY DEF MarkConfigCommitted
  <2> QED BY <1>3, <1>5, <2>1 DEF JournalOk
<1>7. RowsGrow /\ RowsKept
  BY <1>1, <1>5, AdvanceKeeps
<1>8. JournalOk' /\ Extends(new)
  <2>1. Stored(t)'
    BY <1>1 DEF Stored
  <2>2. ASSUME NEW j \in DOMAIN new, NEW e, e = new[j] PROVE EventOk(e)'
    BY <1>1, <1>4, <2>1, <2>2 DEF EventOk, TransitionCodes, StoreCodes, CleanupCodes, EndCodes
  <2> QED BY <1>4, <1>5, <1>6, <1>7, <2>2, JournalGrows
<1>9. StoreEvents' = StoreEvents /\ \A i \in StoreEvents : journal'[i] = journal[i]
  BY <1>4, <1>8, StoreEventsKept DEF StoreCodes
<1>10. /\ store.state = "blocked" /\ StoreEvents # {}
       /\ \A i \in StoreEvents : LastOf(StoreEvents, i) =>
             journal[i].code = "blocked" /\ journal[i].id = t
       /\ \E i \in StoreEvents : LastOf(StoreEvents, i)
  BY <1>1, OpenLast
<1>11. ValidStoreEvents'
  <2>1. ASSUME NEW i \in StoreEvents, NEW e, e = journal[i], LastOf(StoreEvents, i)
        PROVE  ValidOutcome(e)'
    <3>1. e.code = "blocked" /\ e.id = t
      BY <1>10, <2>1
    <3>2. ResultPair(t)' = transition[t].next
      BY <1>1 DEF ResultPair
    <3>3. store' = [state |-> "blocked", pair |-> transition[t].next]
      BY <1>1, <1>10 DEF TypeOK
    <3> QED BY <3>1, <3>2, <3>3 DEF ValidOutcome
  <2> QED BY <1>5, <1>7, <1>9, <1>10, <2>1, ReplayKept
<1>12. LastOk'
  <2>1. PICK i \in StoreEvents : LastOf(StoreEvents, i)
    BY <1>10
  <2>2. journal'[i].id = t /\ Open(t)' /\ LastOf(StoreEvents', i) /\ i \in StoreEvents'
    BY <1>1, <1>9, <1>10, <2>1 DEF Open, LastOf
  <2> QED BY <2>2 DEF LastOk, Open, LastOf
<1>13. EventsOk(t)'
  <2>1. PICK p \in DOMAIN journal : PreparedAt(t, p)
    BY <1>1, OpenFacts DEF EventsInv, EventsOk
  <2>2. p \in DOMAIN journal' /\ PreparedAt(t, p)'
    BY <1>4, <1>8, <2>1, PreparedStays
  <2>3. PICK q : q = Len(journal) + 1
    OBVIOUS
  <2>4. Only("config_committed", t, q)'
    <3>1. Never("config_committed", t)
      BY <1>1, <1>5, NotReached
    <3>2. \A j \in DOMAIN new : new[j].code = "config_committed" /\ new[j].id = t <=> j = 1
      BY <1>4
    <3> QED BY <1>4, <1>8, <2>3, <3>1, <3>2, AtWritten
  <2>5. q \in DOMAIN journal' /\ q > p
    BY <1>4, <1>8, <2>1, <2>3 DEF Extends
  <2>6. CommittedAt(t, p, q)'
    BY <1>1, <2>4, <2>5 DEF CommittedAt
  <2>7. Open(t)'
    BY <1>1 DEF Open
  <2> QED BY <2>2, <2>5, <2>6, <2>7 DEF EventsOk
<1>14. EventsInv'
  <2>1. \A v \in Transitions : v # t => EventsOk(v)'
    BY <1>1, <1>4, <1>8, AdvanceEvents
  <2>2. \A v \in Transitions, k \in LocatorKind : CleanupEventsOk(v, k)'
    BY <1>1, <1>4, <1>8, AdvanceCleanups DEF CleanupCodes
  <2> QED BY <1>13, <2>1, <2>2 DEF EventsInv
<1>15. ChainInv'
  <2>1. /\ transition'[t].expected = transition[t].expected
        /\ transition'[t].kind = transition[t].kind
        /\ transition'[t].account = transition[t].account
        /\ transition'[t].before = transition[t].before
        /\ \A v \in Transitions : v # t =>
              transition'[v] = transition[v] /\ accountVersion'[v] = accountVersion[v]
        /\ \A v \in Transitions : Stored(v)' <=> Stored(v)
    BY <1>1, ObservedStored DEF Advances, Observes
  <2>2. /\ transition[t].next.generation = store.pair.generation + 1
        /\ store.pair.generation \in Nat
    BY <1>1 DEF Inv, RowsInv, StoreOk, TypeOK
  <2>3. \A v \in Transitions : v # t => ChainOk(v)' /\ CurrentOk(v)'
    BY <1>1, <2>2, AdvanceChain
  <2>4. ChainOk(t)'
    <3>1. ChainOk(t) /\ InFlight(t) /\ Stored(t) /\ Open(t)'
      BY <1>1, OpenFacts DEF ChainInv, InFlight, Open
    <3> QED BY <1>1, <2>1, <3>1 DEF ChainOk, InFlight, Open
  <2>5. CurrentOk(t)'
    <3>1. CurrentOk(t)
      BY DEF ChainInv
    <3> QED BY <1>1, <2>1, <3>1 DEF CurrentOk, InFlight, Open
  <2>6. \A u \in Transitions : \A b, s : CommittedAs(u, b, s) => CommittedAs(u, b, s)'
    BY <1>1, <2>1 DEF CommittedAs
  <2>7. ASSUME NEW v \in Transitions PROVE VersionsOk(v)'
    <3>1. /\ VersionsOk(v) /\ VersionsOk(t)
          /\ transition'[v].expected = transition[v].expected
          /\ transition'[v].kind = transition[v].kind
          /\ transition'[v].account = transition[v].account
          /\ transition'[v].before = transition[v].before
      BY <2>1 DEF ChainInv
    <3>2. storeVersion'[v] = IF transition'[v].committed THEN transition'[v].next ELSE NoPair
      BY <1>1, <1>2, <2>1, <3>1 DEF VersionsOk
    <3>3. Stored(v) => StartsFrom(transition[v].expected)'
      BY <1>1, <2>1, <3>1 DEF VersionsOk, StartsFrom
    <3> QED BY <2>1, <2>6, <3>1, <3>2, <3>3 DEF VersionsOk
  <2> QED BY <2>3, <2>4, <2>5, <2>7 DEF ChainInv
<1> QED BY <1>8, <1>11, <1>12, <1>14, <1>15 DEF JournalInv

\* The positions of a concatenation.
LEMMA Concatenated ==
  ASSUME NEW s \in Seq(EventRows), NEW r \in Seq(EventRows), NEW w, w = s \o r
  PROVE  /\ w \in Seq(EventRows) /\ Len(w) = Len(s) + Len(r)
         /\ DOMAIN w = 1..(Len(s) + Len(r))
         /\ \A i \in 1..Len(s) : w[i] = s[i]
         /\ \A i \in 1..Len(r) : w[Len(s) + i] = r[i]
OBVIOUS

LEMMA AfterTwo ==
  ASSUME NEW f \in EventRows, NEW u \in EventRows, NEW r \in Seq(EventRows), NEW m \in Nat,
         Len(r) = m, NEW w, w = <<f, u>> \o r
  PROVE  /\ w \in Seq(EventRows) /\ DOMAIN w = 1..(2 + m) /\ w[1] = f /\ w[2] = u
         /\ \A i \in 1..m : w[2 + i] = r[i]
<1>1. PICK s : s = <<f, u>>
  OBVIOUS
<1>2. s \in Seq(EventRows) /\ Len(s) = 2 /\ s[1] = f /\ s[2] = u
  BY <1>1
<1>3. w = s \o r
  BY <1>1
<1>4. /\ w \in Seq(EventRows) /\ DOMAIN w = 1..(Len(s) + Len(r))
      /\ \A i \in 1..Len(s) : w[i] = s[i]
      /\ \A i \in 1..Len(r) : w[Len(s) + i] = r[i]
  BY <1>2, <1>3, Concatenated
<1> QED BY <1>2, <1>4

\* The events of a finalization: the two that open the store, and one for
\* each reserved locator.
FinalEvents(t) ==
    <<Event("finalized", t, NoPair), Event("unblocked", t, NoPair)>> \o ReadyEvents(t)

FinalShape(new, t) ==
    /\ new \in Seq(EventRows) /\ 1 \in DOMAIN new /\ 2 \in DOMAIN new
    /\ new[1].code = "finalized" /\ new[1].id = t
    /\ new[2] = Event("unblocked", t, NoPair) /\ new[2].code = "unblocked" /\ new[2].id = t
    /\ \A j \in DOMAIN new : j \notin {1, 2} =>
          new[j].code = "ready" /\ \E k \in Reserved(t) : new[j].id = <<t, k>>
    /\ \A k \in Reserved(t) : \E n \in DOMAIN new : \A j \in DOMAIN new :
          new[j].code = "ready" /\ new[j].id = <<t, k>> <=> j = n

LEMMA FinalizeNew ==
  ASSUME NEW t \in Transitions, NEW new, new = FinalEvents(t)
  PROVE  FinalShape(new, t)
<1>1. PICK f, u, x, y : /\ f = Event("finalized", t, NoPair) /\ u = Event("unblocked", t, NoPair)
                        /\ x = Event("ready", <<t, "active_v2">>, NoPair)
                        /\ y = Event("ready", <<t, "legacy_v1">>, NoPair)
  OBVIOUS
<1>2. /\ f.code = "finalized" /\ f.id = t /\ u.code = "unblocked" /\ u.id = t
      /\ x.code = "ready" /\ x.id = <<t, "active_v2">>
      /\ y.code = "ready" /\ y.id = <<t, "legacy_v1">>
      /\ {f, u, x, y} \subseteq EventRows
  BY <1>1 DEF Event, EventRows, EndCodes, TransitionCodes, StoreCodes, CleanupCodes, CleanupIds,
              LocatorKind, NoPair, Pair, Pairs
<1> DEFINE Ready(j, k) == new[j].code = "ready" /\ new[j].id = <<t, k>>
           Each == /\ \A j \in DOMAIN new : j \notin {1, 2} => \E k \in Reserved(t) : Ready(j, k)
                   /\ \A k \in Reserved(t) : \E n \in DOMAIN new : \A j \in DOMAIN new :
                         Ready(j, k) <=> j = n
           Opens == new \in Seq(EventRows) /\ 1 \in DOMAIN new /\ 2 \in DOMAIN new
                    /\ new[1] = f /\ new[2] = u
<1> HIDE DEF Ready
<1>3. Reserved(t) \subseteq {"active_v2", "legacy_v1"}
  BY DEF Reserved, LocatorKind
<1>4. PICK A, B, r : /\ A = IF "active_v2" \in Reserved(t) THEN <<x>> ELSE <<>>
                     /\ B = IF "legacy_v1" \in Reserved(t) THEN <<y>> ELSE <<>>
                     /\ r = A \o B
  OBVIOUS
<1>a. /\ A \in Seq(EventRows) /\ B \in Seq(EventRows)
      /\ "active_v2" \in Reserved(t) => Len(A) = 1 /\ A[1] = x
      /\ "active_v2" \notin Reserved(t) => Len(A) = 0
      /\ "legacy_v1" \in Reserved(t) => Len(B) = 1 /\ B[1] = y
      /\ "legacy_v1" \notin Reserved(t) => Len(B) = 0
  BY <1>2, <1>4
<1>b. ASSUME NEW m \in Nat, Len(r) = m, r \in Seq(EventRows)
      PROVE  /\ new \in Seq(EventRows) /\ DOMAIN new = 1..(2 + m) /\ new[1] = f /\ new[2] = u
             /\ \A i \in 1..m : new[2 + i] = r[i]
  <2>1. new = <<f, u>> \o r
    BY <1>1, <1>4 DEF FinalEvents, ReadyEvents
  <2>2. f \in EventRows /\ u \in EventRows
    BY <1>2
  <2> QED BY <1>b, <2>1, <2>2, AfterTwo
<1>5. ASSUME Reserved(t) = {} PROVE Opens /\ Each
  <2>1. Len(r) = 0 /\ r \in Seq(EventRows)
    BY <1>4, <1>5, <1>a, Concatenated
  <2>0. /\ new \in Seq(EventRows) /\ DOMAIN new = 1..(2 + 0) /\ new[1] = f /\ new[2] = u
        /\ \A i \in 1..0 : new[2 + i] = r[i]
    <3>1. 0 \in Nat
      OBVIOUS
    <3> QED BY <1>b, <2>1, <3>1
  <2>2. DOMAIN new = 1..2 /\ new[1] = f /\ new[2] = u /\ new \in Seq(EventRows)
    BY <2>0, <2>1
  <2>3. Opens /\ \A j \in DOMAIN new : j \in {1, 2}
    BY <2>2
  <2> QED BY <1>5, <2>3
<1>6. ASSUME Reserved(t) = {"active_v2"} PROVE Opens /\ Each
  <2>1. Len(r) = 1 /\ r[1] = x /\ r \in Seq(EventRows)
    BY <1>4, <1>6, <1>a, Concatenated
  <2>0. /\ new \in Seq(EventRows) /\ DOMAIN new = 1..(2 + 1) /\ new[1] = f /\ new[2] = u
        /\ \A i \in 1..1 : new[2 + i] = r[i]
    <3>1. 1 \in Nat
      OBVIOUS
    <3> QED BY <1>b, <2>1, <3>1
  <2>2. DOMAIN new = 1..3 /\ new[1] = f /\ new[2] = u /\ new[3] = x /\ new \in Seq(EventRows)
    BY <2>0, <2>1
  <2>3. Opens /\ 3 \in DOMAIN new /\ \A j \in DOMAIN new : j \in {1, 2, 3}
    BY <2>2
  <2>4. ~Ready(1, "active_v2") /\ ~Ready(2, "active_v2") /\ Ready(3, "active_v2")
    BY <1>2, <2>2 DEF Ready
  <2>5. \A j \in DOMAIN new : Ready(j, "active_v2") <=> j = 3
    BY <2>3, <2>4
  <2> QED BY <1>6, <2>3, <2>4, <2>5
<1>7. ASSUME Reserved(t) = {"legacy_v1"} PROVE Opens /\ Each
  <2>1. Len(r) = 1 /\ r[1] = y /\ r \in Seq(EventRows)
    BY <1>4, <1>7, <1>a, Concatenated
  <2>0. /\ new \in Seq(EventRows) /\ DOMAIN new = 1..(2 + 1) /\ new[1] = f /\ new[2] = u
        /\ \A i \in 1..1 : new[2 + i] = r[i]
    <3>1. 1 \in Nat
      OBVIOUS
    <3> QED BY <1>b, <2>1, <3>1
  <2>2. DOMAIN new = 1..3 /\ new[1] = f /\ new[2] = u /\ new[3] = y /\ new \in Seq(EventRows)
    BY <2>0, <2>1
  <2>3. Opens /\ 3 \in DOMAIN new /\ \A j \in DOMAIN new : j \in {1, 2, 3}
    BY <2>2
  <2>4. ~Ready(1, "legacy_v1") /\ ~Ready(2, "legacy_v1") /\ Ready(3, "legacy_v1")
    BY <1>2, <2>2 DEF Ready
  <2>5. \A j \in DOMAIN new : Ready(j, "legacy_v1") <=> j = 3
    BY <2>3, <2>4
  <2> QED BY <1>7, <2>3, <2>4, <2>5
<1>8. ASSUME Reserved(t) = {"active_v2", "legacy_v1"} PROVE Opens /\ Each
  <2>1. Len(r) = 2 /\ r[1] = x /\ r[2] = y /\ r \in Seq(EventRows)
    BY <1>4, <1>8, <1>a, Concatenated
  <2>0. /\ new \in Seq(EventRows) /\ DOMAIN new = 1..(2 + 2) /\ new[1] = f /\ new[2] = u
        /\ \A i \in 1..2 : new[2 + i] = r[i]
    <3>1. 2 \in Nat
      OBVIOUS
    <3> QED BY <1>b, <2>1, <3>1
  <2>2. /\ DOMAIN new = 1..4 /\ new[1] = f /\ new[2] = u /\ new[3] = x /\ new[4] = y
        /\ new \in Seq(EventRows)
    BY <2>0, <2>1
  <2>3. Opens /\ 3 \in DOMAIN new /\ 4 \in DOMAIN new /\ \A j \in DOMAIN new : j \in {1, 2, 3, 4}
    BY <2>2
  <2>4. /\ ~Ready(1, "active_v2") /\ ~Ready(2, "active_v2")
        /\ Ready(3, "active_v2") /\ ~Ready(4, "active_v2")
    BY <1>2, <2>2 DEF Ready
  <2>5. /\ ~Ready(1, "legacy_v1") /\ ~Ready(2, "legacy_v1")
        /\ ~Ready(3, "legacy_v1") /\ Ready(4, "legacy_v1")
    BY <1>2, <2>2 DEF Ready
  <2>6. /\ \A j \in DOMAIN new : Ready(j, "active_v2") <=> j = 3
        /\ \A j \in DOMAIN new : Ready(j, "legacy_v1") <=> j = 4
    BY <2>3, <2>4, <2>5
  <2>7. \A j \in DOMAIN new : j \notin {1, 2} => \E k \in Reserved(t) : Ready(j, k)
    BY <1>8, <2>3, <2>4, <2>5
  <2>8. \A k \in Reserved(t) : \E n \in DOMAIN new : \A j \in DOMAIN new :
                         Ready(j, k) <=> j = n
    BY <1>8, <2>3, <2>6
  <2> QED BY <2>3, <2>7, <2>8
<1>9. Opens /\ Each
  <2>1. \/ Reserved(t) = {} \/ Reserved(t) = {"active_v2"}
        \/ Reserved(t) = {"legacy_v1"} \/ Reserved(t) = {"active_v2", "legacy_v1"}
    BY <1>3
  <2> QED BY <2>1, <1>5, <1>6, <1>7, <1>8
<1>10. \A j \in DOMAIN new : j \notin {1, 2} =>
               new[j].code = "ready" /\ \E k \in Reserved(t) : new[j].id = <<t, k>>
  BY <1>9 DEF Ready
<1>11. \A k \in Reserved(t) : \E n \in DOMAIN new : \A j \in DOMAIN new :
               new[j].code = "ready" /\ new[j].id = <<t, k>> <=> j = n
  BY <1>9 DEF Ready
<1> QED BY <1>1, <1>2, <1>9, <1>10, <1>11 DEF FinalShape

LEMMA FinalPieces ==
  ASSUME NEW t \in Transitions
  PROVE  /\ <<Event("finalized", t, NoPair), Event("unblocked", t, NoPair)>> \in Seq(EventRows)
         /\ ReadyEvents(t) \in Seq(EventRows)
<1>1. /\ \A code \in {"finalized", "unblocked"} : Event(code, t, NoPair) \in EventRows
      /\ \A k \in LocatorKind : Event("ready", <<t, k>>, NoPair) \in EventRows
  BY DEF Event, EventRows, EndCodes, TransitionCodes, StoreCodes, CleanupCodes, CleanupIds,
         LocatorKind, NoPair, Pair, Pairs
<1>2. PICK x, y : x = Event("ready", <<t, "active_v2">>, NoPair)
                  /\ y = Event("ready", <<t, "legacy_v1">>, NoPair)
  OBVIOUS
<1>3. PICK A, B : /\ A = IF "active_v2" \in Reserved(t) THEN <<x>> ELSE <<>>
                  /\ B = IF "legacy_v1" \in Reserved(t) THEN <<y>> ELSE <<>>
  OBVIOUS
<1>4. A \in Seq(EventRows) /\ B \in Seq(EventRows)
  BY <1>1, <1>2, <1>3 DEF LocatorKind
<1>5. ReadyEvents(t) = A \o B
  BY <1>2, <1>3 DEF ReadyEvents
<1>6. ReadyEvents(t) \in Seq(EventRows)
  BY <1>4, <1>5, Concatenated
<1> QED BY <1>1, <1>6

\* finalize_account_transition.
LEMMA FinalizeHistory ==
  ASSUME Inv, JournalInv, EventsInv, ChainInv, NEW t \in Transitions,
         NEW pair \in ObservedPairs, Finalize(t, pair)
  PROVE  JournalInv' /\ EventsInv' /\ ChainInv'
<1>1. /\ Advances(t) /\ TypeOK' /\ Open(t)
      /\ transition[t].state = "config_committed" /\ transition'[t].state = "finalized"
      /\ transition[t].committed /\ transition'[t].committed = transition[t].committed
      /\ transition'[t].next = transition[t].next
      /\ store'.state = "active" /\ store'.pair = store.pair
      /\ storeVersion' = storeVersion
  <2>1. Advances(t)
    BY AdvanceEffect
  <2>2. /\ TypeOK' /\ transition[t].state = "config_committed"
        /\ transition'[t].state = "finalized"
        /\ transition[t].committed /\ transition'[t].committed = transition[t].committed
        /\ store'.state = "active" /\ store'.pair = store.pair
    BY FinalizeEffect
  <2> QED BY <2>1, <2>2 DEF Advances, Observes, Finalize
<1>2. /\ \A k \in LocatorKind : cleanup'[t][k] = IF cleanup[t][k] # "none" THEN "ready" ELSE "none"
      /\ \A v \in Transitions : v # t => cleanup'[v] = cleanup[v]
  BY DEF Finalize, ReadyCleanup, Reserved, Inv, TypeOK
<1>3. PICK new : new = FinalEvents(t)
  OBVIOUS
<1>4. /\ new \in Seq(EventRows) /\ 1 \in DOMAIN new /\ 2 \in DOMAIN new
      /\ new[1].code = "finalized" /\ new[1].id = t
      /\ new[2] = Event("unblocked", t, NoPair) /\ new[2].code = "unblocked" /\ new[2].id = t
      /\ \A j \in DOMAIN new : j \notin {1, 2} =>
            new[j].code = "ready" /\ \E k \in Reserved(t) : new[j].id = <<t, k>>
      /\ \A k \in Reserved(t) : \E n \in DOMAIN new : \A j \in DOMAIN new :
            new[j].code = "ready" /\ new[j].id = <<t, k>> <=> j = n
  <2>1. FinalShape(new, t)
    BY <1>3, FinalizeNew
  <2> QED BY <2>1 DEF FinalShape
<1>5. JournalOk /\ ValidStoreEvents /\ LastOk
  BY DEF JournalInv
<1>6. journal' = journal \o new
  <2>1. PICK s, r : /\ s = <<Event("finalized", t, NoPair), Event("unblocked", t, NoPair)>>
                    /\ r = ReadyEvents(t)
    OBVIOUS
  <2>2. s \in Seq(EventRows) /\ r \in Seq(EventRows)
    BY <2>1, FinalPieces
  <2>3. journal' = (journal \o s) \o r /\ new = s \o r
    BY <1>3, <2>1 DEF Finalize, FinalEvents
  <2> QED BY <1>5, <2>2, <2>3, ConcatAssociative DEF JournalOk
<1>7. RowsGrow /\ RowsKept
  BY <1>1, <1>5, AdvanceKeeps
<1>8. \A j \in DOMAIN new : /\ new[j].code \in {"finalized", "unblocked", "ready"}
                            /\ new[j].code = "ready" <=> j \notin {1, 2}
                            /\ new[j].code = "unblocked" <=> j = 2
                            /\ new[j].code = "finalized" <=> j = 1
                            /\ new[j].code = "ready" =>
                                  new[j].id \in CleanupIds /\ \E k \in Reserved(t) : new[j].id = <<t, k>>
                            /\ new[j].code # "ready" => new[j].id = t
  <2>1. \A k \in Reserved(t) : <<t, k>> \in CleanupIds
    BY DEF Reserved, CleanupIds
  <2> SUFFICES ASSUME NEW j \in DOMAIN new
               PROVE  /\ new[j].code \in {"finalized", "unblocked", "ready"}
                      /\ new[j].code = "ready" <=> j \notin {1, 2}
                      /\ new[j].code = "unblocked" <=> j = 2
                      /\ new[j].code = "finalized" <=> j = 1
                      /\ new[j].code = "ready" =>
                            new[j].id \in CleanupIds /\ \E k \in Reserved(t) : new[j].id = <<t, k>>
                      /\ new[j].code # "ready" => new[j].id = t
    OBVIOUS
  <2>2. CASE j \in {1, 2}
    BY <1>4, <2>2
  <2>3. CASE j \notin {1, 2}
    BY <1>4, <2>1, <2>3
  <2> QED BY <2>2, <2>3
<1>9. JournalOk' /\ Extends(new)
  <2>1. Stored(t)'
    BY <1>1 DEF Stored
  <2>2. ASSUME NEW j \in DOMAIN new, NEW e, e = new[j] PROVE EventOk(e)'
    BY <1>1, <1>8, <2>1, <2>2 DEF EventOk, TransitionCodes, StoreCodes, CleanupCodes, EndCodes
  <2> QED BY <1>4, <1>5, <1>6, <1>7, <2>2, JournalGrows
<1>10. PICK b : b = Len(journal) + 2
  OBVIOUS
<1>11. /\ StoreEvents' = StoreEvents \cup {b} /\ journal'[b] = new[2] /\ b \in Nat
       /\ \A i \in StoreEvents : i \in Nat /\ i < b /\ journal'[i] = journal[i]
  <2>1. \A j \in DOMAIN new : new[j].code \in StoreCodes <=> j = 2
    BY <1>8 DEF StoreCodes
  <2> QED BY <1>4, <1>9, <1>10, <2>1, StoreEventsGrow
<1>12. /\ store.pair = ResultPair(t) /\ StoreEvents # {}
       /\ \A i \in StoreEvents : LastOf(StoreEvents, i) =>
             journal[i].code = "blocked" /\ journal[i].id = t
  BY <1>1, OpenLast
<1>13. ValidStoreEvents'
  <2>1. PICK e : e = new[2]
    OBVIOUS
  <2>2. e.code = "unblocked" /\ e.id = t
    BY <1>4, <2>1
  <2>3. ASSUME NEW i \in StoreEvents, NEW f, f = journal[i], LastOf(StoreEvents, i)
        PROVE  ValidSuccession(f, e)'
    BY <1>1, <1>12, <2>2, <2>3 DEF ValidSuccession
  <2>4. ValidOutcome(e)'
    <3>1. ResultPair(t)' = ResultPair(t)
      BY <1>1 DEF ResultPair, Advances
    <3>2. store' = [state |-> "active", pair |-> store.pair]
      BY <1>1 DEF TypeOK
    <3> QED BY <1>12, <2>2, <3>1, <3>2 DEF ValidOutcome
  <2> QED BY <1>5, <1>7, <1>11, <1>12, <2>1, <2>3, <2>4, ReplayGrows
<1>14. LastOk'
  <2>1. b \in StoreEvents' /\ LastOf(StoreEvents', b) /\ journal'[b].code = "unblocked"
    BY <1>4, <1>11 DEF LastOf
  <2> QED BY <2>1 DEF LastOk, LastOf
<1>15. EventsOk(t)'
  <2>1. PICK p, q \in DOMAIN journal : PreparedAt(t, p) /\ CommittedAt(t, p, q)
    BY <1>1, OpenFacts DEF EventsInv, EventsOk
  <2>2. p \in DOMAIN journal' /\ PreparedAt(t, p)'
    BY <1>8, <1>9, <2>1, PreparedStays
  <2>3. q \in DOMAIN journal' /\ CommittedAt(t, p, q)'
    <3>1. Only("config_committed", t, q)' <=> Only("config_committed", t, q)
      BY <1>8, <1>9, AtStays
    <3> QED BY <1>1, <1>9, <2>1, <3>1 DEF CommittedAt, Extends
  <2>4. PICK z : z = Len(journal) + 1
    OBVIOUS
  <2>5. Only("finalized", t, z)'
    <3>1. Never("finalized", t)
      BY <1>1, <1>5, NotReached DEF EndCodes
    <3>2. \A j \in DOMAIN new : new[j].code = "finalized" /\ new[j].id = t <=> j = 1
      BY <1>4, <1>8
    <3> QED BY <1>4, <1>9, <2>4, <3>1, <3>2, AtWritten
  <2>6. /\ z \in DOMAIN journal' /\ z > q /\ z + 1 \in DOMAIN journal'
        /\ journal'[z + 1] = Event("unblocked", t, NoPair)
    <3>1. Len(journal) \in Nat /\ Len(new) \in Nat /\ Len(new) >= 2
      BY <1>4, <1>9 DEF Extends
    <3>2. z + 1 = b
      BY <1>10, <2>4, <3>1
    <3> QED BY <1>4, <1>9, <1>11, <2>1, <2>4, <3>1, <3>2 DEF Extends
  <2>7. EndAt(t, q, z)'
    BY <1>1, <2>5, <2>6 DEF EndAt
  <2> QED BY <2>2, <2>3, <2>6, <2>7 DEF EventsOk
<1>16. \A v \in Transitions : v # t => EventsOk(v)'
  <2>1. \A j \in DOMAIN new : \A v \in Transitions : v # t => new[j].id # v
    BY <1>8, TransitionsAssumption DEF CleanupIds, LocatorKind
  <2> QED BY <1>1, <1>9, <2>1, AdvanceEvents
<1>17. ASSUME NEW v \in Transitions, NEW k \in LocatorKind PROVE CleanupEventsOk(v, k)'
  <2>1. CASE v # t \/ k \notin Reserved(t)
    <3>1. \A j \in DOMAIN new : new[j].code \in CleanupCodes => new[j].id # <<v, k>>
      BY <1>8, <2>1 DEF CleanupCodes
    <3>2. cleanup'[v][k] = cleanup[v][k]
      BY <1>2, <2>1 DEF Reserved
    <3>3. v = t => cleanup[v][k] # "provisional"
      BY <2>1 DEF Reserved
    <3> QED BY <1>1, <1>9, <3>1, <3>2, <3>3, AdvanceCleanups
  <2>2. CASE v = t /\ k \in Reserved(t)
    <3>1. PICK id : id = <<t, k>>
      OBVIOUS
    <3>2. cleanup[t][k] = "provisional" /\ cleanup'[t][k] = "ready"
      <4>1. cleanup[t][k] # "none" /\ cleanup[t][k] \notin {"ready", "claimed", "deleted"}
        BY <1>1, <2>2 DEF Reserved, Inv, RowsInv, CleanupOk
      <4> QED BY <1>2, <4>1 DEF Inv, TypeOK
    <3>3. Never("ready", id) /\ Never("claimed", id) /\ Never("deleted", id)
      BY <3>1, <3>2 DEF EventsInv, CleanupEventsOk, Has
    <3>4. Never("claimed", id)' /\ Never("deleted", id)'
      BY <1>8, <1>9, <3>3, AtStays
    <3>5. PICK n \in DOMAIN new : \A j \in DOMAIN new :
             new[j].code = "ready" /\ new[j].id = id <=> j = n
      BY <1>4, <2>2, <3>1
    <3>6. PICK p : p = Len(journal) + n
      OBVIOUS
    <3>7. Only("ready", id, p)'
      BY <1>9, <3>3, <3>5, <3>6, AtWritten
    <3> QED BY <2>2, <3>1, <3>2, <3>4, <3>7 DEF CleanupEventsOk, Has
  <2> QED BY <2>1, <2>2
<1>18. EventsInv'
  BY <1>15, <1>16, <1>17 DEF EventsInv
<1>19. ChainInv'
  <2>1. /\ transition'[t].expected = transition[t].expected
        /\ transition'[t].kind = transition[t].kind
        /\ transition'[t].account = transition[t].account
        /\ transition'[t].before = transition[t].before
        /\ transition'[t].after = transition[t].after
        /\ \A v \in Transitions : v # t => transition'[v] = transition[v]
        /\ \A v \in Transitions : Stored(v)' <=> Stored(v)
        /\ accountVersion' = accountVersion
    BY <1>1, ObservedStored DEF Advances, Observes, Finalize
  <2>2. store.pair.generation \in Nat /\ ~InFlight(t)'
    BY <1>1 DEF Inv, TypeOK, InFlight, Open
  <2>3. \A v \in Transitions : v # t => ChainOk(v)' /\ CurrentOk(v)'
    BY <1>1, <2>2, AdvanceChain
  <2>4. ChainOk(t)'
    <3>1. ChainOk(t) /\ Stored(t)
      BY <1>1, OpenFacts DEF ChainInv
    <3> QED BY <1>1, <2>1, <2>2, <3>1 DEF ChainOk
  <2>5. CurrentOk(t)'
    <3>1. PICK a : a = transition[t].account
      OBVIOUS
    <3>2. /\ account'[a].state = IF transition[t].kind = "remove" THEN "removed" ELSE "active"
          /\ account'[a].active = None
          /\ account'[a].snapshot = transition[t].after /\ account'[a].authorized = t
      BY <1>1, <3>1, FinalizeEffect, OpenFacts
    <3> QED BY <1>1, <2>1, <2>2, <3>1, <3>2 DEF CurrentOk
  <2>6. \A u \in Transitions : \A c, s : CommittedAs(u, c, s) => CommittedAs(u, c, s)'
    BY <1>1, <2>1 DEF CommittedAs
  <2>7. ASSUME NEW v \in Transitions PROVE VersionsOk(v)'
    <3>1. /\ VersionsOk(v)
          /\ transition'[v].expected = transition[v].expected
          /\ transition'[v].kind = transition[v].kind
          /\ transition'[v].account = transition[v].account
          /\ transition'[v].before = transition[v].before
          /\ transition'[v].committed = transition[v].committed
          /\ transition'[v].next = transition[v].next
      BY <1>1, <2>1 DEF ChainInv
    <3>2. Stored(v) => StartsFrom(transition[v].expected)'
      BY <1>1, <2>1, <3>1 DEF VersionsOk, StartsFrom
    <3> QED BY <1>1, <2>1, <2>6, <3>1, <3>2 DEF VersionsOk
  <2> QED BY <2>3, <2>4, <2>5, <2>7 DEF ChainInv
<1> QED BY <1>9, <1>13, <1>14, <1>18, <1>19 DEF JournalInv

\* commit_account_recovery.
LEMMA RecoveryHistory ==
  ASSUME Inv, JournalInv, EventsInv, ChainInv, NEW t \in Transitions,
         NEW pair \in ObservedPairs, EnterRecovery(t, pair)
  PROVE  JournalInv' /\ EventsInv' /\ ChainInv'
<1>1. /\ Advances(t) /\ TypeOK' /\ Open(t) /\ transition'[t].state = "recovery_required"
      /\ transition'[t].committed = transition[t].committed
      /\ transition'[t].next = transition[t].next
      /\ store'.state = "recovery_required" /\ store'.pair = pair
      /\ storeVersion' = storeVersion /\ accountVersion' = accountVersion /\ cleanup' = cleanup
  <2>1. Advances(t)
    BY AdvanceEffect
  <2>2. /\ TypeOK' /\ transition'[t].state = "recovery_required"
        /\ transition'[t].committed = transition[t].committed
        /\ accountVersion' = accountVersion /\ cleanup' = cleanup
    BY RecoveryEffect
  <2> QED BY <2>1, <2>2 DEF Advances, Observes, EnterRecovery
<1>2. PICK new : new = <<Event("recovered", t, pair), Event("recovery_required", t, pair)>>
  OBVIOUS
<1>3. /\ new \in Seq(EventRows) /\ DOMAIN new = 1..2 /\ Len(new) = 2
      /\ new[1] = Event("recovered", t, pair) /\ new[2] = Event("recovery_required", t, pair)
      /\ new[1].code = "recovered" /\ new[1].id = t
      /\ new[2].code = "recovery_required" /\ new[2].id = t
  <2>1. /\ Event("recovered", t, pair) \in EventRows
        /\ Event("recovery_required", t, pair) \in EventRows
    <3>1. pair \in Pairs
      BY ObservedPairShape DEF Pairs
    <3> QED BY <3>1 DEF Event, EventRows, StoreCodes, TransitionCodes, EndCodes
  <2>2. /\ new \in Seq(EventRows) /\ DOMAIN new = 1..2 /\ Len(new) = 2
        /\ new[1] = Event("recovered", t, pair) /\ new[2] = Event("recovery_required", t, pair)
    BY <1>2, <2>1
  <2> QED BY <2>2 DEF Event
<1>4. 1 \in DOMAIN new /\ 2 \in DOMAIN new /\ \A j \in DOMAIN new : j \in {1, 2} /\ new[j].id = t
  BY <1>3
<1>5. JournalOk /\ ValidStoreEvents /\ LastOk
  BY DEF JournalInv
<1>6. journal' = journal \o new
  BY <1>2 DEF EnterRecovery
<1>7. RowsGrow /\ RowsKept
  BY <1>1, <1>5, AdvanceKeeps
<1>8. JournalOk' /\ Extends(new)
  <2>1. Stored(t)'
    BY <1>1 DEF Stored
  <2>2. ASSUME NEW j \in DOMAIN new, NEW e, e = new[j] PROVE EventOk(e)'
    BY <1>1, <1>3, <1>4, <2>1, <2>2
       DEF EventOk, TransitionCodes, StoreCodes, CleanupCodes, EndCodes
  <2> QED BY <1>3, <1>5, <1>6, <1>7, <2>2, JournalGrows
<1>9. PICK b, z : b = Len(journal) + 1 /\ z = Len(journal) + 2
  OBVIOUS
<1>10. /\ StoreEvents' = StoreEvents \cup {b} /\ journal'[b] = new[1] /\ b \in Nat
       /\ \A i \in StoreEvents : i \in Nat /\ i < b /\ journal'[i] = journal[i]
  <2>1. \A j \in DOMAIN new : new[j].code \in StoreCodes <=> j = 1
    BY <1>3, <1>4 DEF StoreCodes
  <2> QED BY <1>4, <1>8, <1>9, <2>1, StoreEventsGrow
<1>11. /\ StoreEvents # {}
       /\ \A i \in StoreEvents : LastOf(StoreEvents, i) =>
             journal[i].code = "blocked" /\ journal[i].id = t
  BY <1>1, OpenLast
<1>12. ValidStoreEvents'
  <2>1. PICK e : e = new[1]
    OBVIOUS
  <2>2. e.code = "recovered" /\ e.id = t
    BY <1>3, <2>1
  <2>3. ASSUME NEW i \in StoreEvents, NEW f, f = journal[i], LastOf(StoreEvents, i)
        PROVE  ValidSuccession(f, e)'
    BY <1>1, <1>11, <2>2, <2>3 DEF ValidSuccession
  <2>4. ValidOutcome(e)'
    BY <1>1, <2>2 DEF ValidOutcome
  <2> QED BY <1>5, <1>7, <1>10, <1>11, <2>1, <2>3, <2>4, ReplayGrows
<1>13. LastOk'
  <2>1. b \in StoreEvents' /\ LastOf(StoreEvents', b) /\ journal'[b].code = "recovered"
    BY <1>3, <1>10 DEF LastOf
  <2> QED BY <2>1 DEF LastOk, LastOf
<1>14. EventsOk(t)'
  <2>1. PICK p, q \in DOMAIN journal : PreparedAt(t, p) /\ CommittedAt(t, p, q)
    BY <1>1, OpenFacts DEF EventsInv, EventsOk
  <2>2. p \in DOMAIN journal' /\ PreparedAt(t, p)'
    BY <1>3, <1>4, <1>8, <2>1, PreparedStays
  <2>3. q \in DOMAIN journal' /\ CommittedAt(t, p, q)'
    <3>1. Only("config_committed", t, q)' <=> Only("config_committed", t, q)
      BY <1>3, <1>4, <1>8, AtStays
    <3> QED BY <1>1, <1>8, <2>1, <3>1 DEF CommittedAt, Extends
  <2>4. Only("recovery_required", t, z)'
    <3>1. Never("recovery_required", t)
      <4>1. transition[t].state # "recovery_required"
        BY <1>1 DEF Open
      <4> QED BY <1>5, <4>1, NotReached DEF EndCodes
    <3>2. \A j \in DOMAIN new : new[j].code = "recovery_required" /\ new[j].id = t <=> j = 2
      BY <1>3, <1>4
    <3> QED BY <1>4, <1>8, <1>9, <3>1, <3>2, AtWritten
  <2>5. /\ z \in DOMAIN journal' /\ z - 1 > q
        /\ journal'[z] = Event("recovery_required", t, store'.pair)
        /\ journal'[z - 1] = Event("recovered", t, store'.pair)
    <3>1. /\ Len(journal) \in Nat /\ DOMAIN journal' = 1..(Len(journal) + 2)
          /\ DOMAIN journal = 1..Len(journal) /\ journal'[z] = new[2]
      BY <1>3, <1>4, <1>8, <1>9 DEF Extends
    <3>2. z - 1 = b /\ z - 1 > q /\ z \in DOMAIN journal'
      BY <1>9, <2>1, <3>1
    <3> QED BY <1>1, <1>3, <1>10, <3>1, <3>2
  <2>6. EndAt(t, q, z)'
    BY <1>1, <2>4, <2>5 DEF EndAt
  <2> QED BY <2>2, <2>3, <2>5, <2>6 DEF EventsOk
<1>15. EventsInv'
  <2>1. \A v \in Transitions : v # t => EventsOk(v)'
    BY <1>1, <1>4, <1>8, AdvanceEvents
  <2>2. \A j \in DOMAIN new : new[j].code \notin CleanupCodes
    BY <1>3, <1>4 DEF CleanupCodes
  <2>3. \A v \in Transitions, k \in LocatorKind : CleanupEventsOk(v, k)'
    BY <1>1, <1>8, <2>2, AdvanceCleanups
  <2> QED BY <1>14, <2>1, <2>3 DEF EventsInv
<1>16. ChainInv'
  <2>1. /\ transition'[t].expected = transition[t].expected
        /\ transition'[t].kind = transition[t].kind
        /\ transition'[t].account = transition[t].account
        /\ transition'[t].before = transition[t].before
        /\ \A v \in Transitions : v # t => transition'[v] = transition[v]
        /\ \A v \in Transitions : Stored(v)' <=> Stored(v)
    BY <1>1, ObservedStored DEF Advances, Observes
  <2>2. \A v \in Transitions : v # t => ChainOk(v)' /\ CurrentOk(v)'
    BY <1>1, AdvanceChain
  <2>3. ChainOk(t)'
    <3>1. ChainOk(t) /\ Stored(t) /\ InFlight(t) /\ InFlight(t)'
      BY <1>1, OpenFacts DEF ChainInv, InFlight
    <3> QED BY <1>1, <2>1, <3>1 DEF ChainOk
  <2>4. CurrentOk(t)'
    <3>1. PICK a : a = transition[t].account
      OBVIOUS
    <3>2. account'[a].state = "blocked"
      BY <3>1, RecoveryEffect
    <3> QED BY <1>1, <2>1, <3>1, <3>2 DEF CurrentOk, Open
  <2>5. \A u \in Transitions : \A c, s : CommittedAs(u, c, s) => CommittedAs(u, c, s)'
    BY <1>1, <2>1 DEF CommittedAs, Open
  <2>6. ASSUME NEW v \in Transitions PROVE VersionsOk(v)'
    <3>1. /\ VersionsOk(v)
          /\ transition'[v].expected = transition[v].expected
          /\ transition'[v].kind = transition[v].kind
          /\ transition'[v].account = transition[v].account
          /\ transition'[v].before = transition[v].before
          /\ transition'[v].committed = transition[v].committed
          /\ transition'[v].next = transition[v].next
      BY <1>1, <2>1 DEF ChainInv
    <3>2. Stored(v) => StartsFrom(transition[v].expected)'
      BY <1>1, <2>1, <3>1 DEF VersionsOk, StartsFrom
    <3> QED BY <1>1, <2>1, <2>5, <3>1, <3>2 DEF VersionsOk
  <2> QED BY <2>2, <2>3, <2>4, <2>6 DEF ChainInv
<1> QED BY <1>8, <1>12, <1>13, <1>15, <1>16 DEF JournalInv

-----------------------------------------------------------------------------
(* Credential cleanups and calls about other stores.                         *)

\* A step that moves none of the rows and writes no event about them.
LEMMA QuietHistory ==
  ASSUME Inv, JournalInv, EventsInv, ChainInv,
         UNCHANGED <<store, account, transition, storeVersion, accountVersion>>,
         NEW new \in Seq(EventRows), journal' = journal \o new,
         \A j \in DOMAIN new : /\ new[j].code \in {"used", "other"} \cup CleanupCodes
                               /\ new[j].id \notin Transitions
                               /\ new[j].code # "other" => new[j].id \in CleanupIds
  PROVE  /\ Extends(new) /\ JournalInv' /\ ChainInv'
         /\ \A v \in Transitions : EventsOk(v)'
<1>1. JournalOk /\ ValidStoreEvents /\ LastOk
  BY DEF JournalInv
<1>2. RowsGrow /\ RowsKept
  <2>1. \A v : ResultPair(v)' = ResultPair(v)
    BY DEF ResultPair
  <2> QED BY <2>1 DEF RowsGrow, RowsKept, Stored
<1>3. JournalOk' /\ Extends(new)
  <2>1. ASSUME NEW j \in DOMAIN new, NEW e, e = new[j] PROVE EventOk(e)'
    BY <2>1 DEF EventOk, TransitionCodes, StoreCodes, CleanupCodes, EndCodes
  <2> QED BY <1>1, <1>2, <2>1, JournalGrows
<1>4. StoreEvents' = StoreEvents /\ \A i \in StoreEvents : journal'[i] = journal[i]
  BY <1>3, StoreEventsKept DEF StoreCodes, CleanupCodes
<1>5. ValidStoreEvents'
  <2>1. ASSUME NEW i \in StoreEvents, NEW e, e = journal[i], LastOf(StoreEvents, i)
        PROVE  ValidOutcome(e)'
    <3>1. ValidOutcome(e)
      BY <1>1, <2>1 DEF ValidStoreEvents
    <3> QED BY <3>1 DEF ValidOutcome, ResultPair
  <2> QED BY <1>1, <1>2, <1>4, <2>1, ReplayKept
<1>6. LastOk'
  <2> SUFFICES ASSUME StoreEvents # {} PROVE LastOk'
    BY <1>4 DEF LastOk
  <2>1. PICK i \in StoreEvents : /\ LastOf(StoreEvents, i)
                                 /\ journal[i].code = "blocked" => Open(journal[i].id)
    BY <1>1 DEF LastOk
  <2>2. /\ i \in StoreEvents' /\ LastOf(StoreEvents', i)
        /\ journal'[i].code = "blocked" => Open(journal[i].id)
        /\ journal'[i] = journal[i]
    BY <1>4, <2>1
  <2> QED BY <2>2 DEF LastOk, LastOf, Open
<1>7. ASSUME NEW v \in Transitions PROVE EventsOk(v)'
  BY <1>3, EventsStay DEF EventsInv
<1>8. ChainInv'
  <2>1. ASSUME NEW v \in Transitions PROVE ChainOk(v)' /\ CurrentOk(v)' /\ VersionsOk(v)'
    <3>1. ChainOk(v) /\ CurrentOk(v) /\ VersionsOk(v)
      BY DEF ChainInv
    <3>2. ChainOk(v)'
      BY <3>1 DEF ChainOk, InFlight, Open, Stored
    <3>3. CurrentOk(v)'
      BY <3>1 DEF CurrentOk, InFlight, Open, Stored, Latest
    <3>4. VersionsOk(v)'
      BY <3>1 DEF VersionsOk, StartsFrom, CommittedAs, Stored
    <3> QED BY <3>2, <3>3, <3>4
  <2> QED BY <2>1 DEF ChainInv
<1> QED BY <1>1, <1>3, <1>5, <1>6, <1>7, <1>8 DEF JournalInv

\* The identifiers of cleanups are not those of transitions.
LEMMA CleanupIdFacts ==
  ASSUME NEW t \in Transitions, NEW k \in LocatorKind
  PROVE  /\ <<t, k>> \in CleanupIds /\ <<t, k>> \notin Transitions
         /\ \A code \in {"used"} \cup CleanupCodes : Event(code, <<t, k>>, NoPair) \in EventRows
<1>1. <<t, k>> \in CleanupIds /\ <<t, k>> \notin Transitions
  BY TransitionsAssumption DEF CleanupIds, LocatorKind
<1> QED BY <1>1 DEF Event, EventRows, NoPair, Pair, Pairs

\* Cleanups that a step neither moves nor writes of.
LEMMA OtherCleanups ==
  ASSUME EventsInv, NEW new, Extends(new), transition' = transition,
         NEW v \in Transitions, NEW l \in LocatorKind, cleanup'[v][l] = cleanup[v][l],
         \A j \in DOMAIN new : new[j].code \in CleanupCodes => new[j].id # <<v, l>>
  PROVE  CleanupEventsOk(v, l)'
<1>1. CleanupEventsOk(v, l)
  BY DEF EventsInv
<1> QED BY <1>1, CleanupEventsStay

LEMMA ClaimHistory ==
  ASSUME Inv, JournalInv, EventsInv, ChainInv, NEW t \in Transitions, NEW k \in LocatorKind,
         ClaimCleanup(t, k)
  PROVE  JournalInv' /\ EventsInv' /\ ChainInv'
<1>1. /\ UNCHANGED <<store, account, transition, storeVersion, accountVersion>>
      /\ cleanup[t][k] = "ready" /\ transition' = transition
  BY DEF ClaimCleanup, Claimable
<1>2. /\ cleanup'[t][k] = "claimed"
      /\ \A v \in Transitions, l \in LocatorKind :
            v # t \/ l # k => cleanup'[v][l] = cleanup[v][l]
  BY DEF ClaimCleanup, Inv, TypeOK
<1>3. PICK id : id = <<t, k>>
  OBVIOUS
<1>4. PICK new : new = <<Event("used", id, NoPair), Event("claimed", id, NoPair)>>
  OBVIOUS
<1>5. /\ new \in Seq(EventRows) /\ DOMAIN new = 1..2
      /\ new[1].code = "used" /\ new[1].id = id /\ new[2].code = "claimed" /\ new[2].id = id
      /\ id \in CleanupIds /\ id \notin Transitions
  <2>1. /\ Event("used", id, NoPair) \in EventRows /\ Event("claimed", id, NoPair) \in EventRows
        /\ id \in CleanupIds /\ id \notin Transitions
    BY <1>3, CleanupIdFacts DEF CleanupCodes
  <2>2. /\ new \in Seq(EventRows) /\ DOMAIN new = 1..2
        /\ new[1] = Event("used", id, NoPair) /\ new[2] = Event("claimed", id, NoPair)
    BY <1>4, <2>1
  <2> QED BY <2>1, <2>2 DEF Event
<1>6. 2 \in DOMAIN new /\ \A j \in DOMAIN new : j \in {1, 2} /\ new[j].id = id
  BY <1>5
<1>7. journal' = journal \o new
  BY <1>3, <1>4 DEF ClaimCleanup, CleanupEvent
<1>8. Extends(new) /\ JournalInv' /\ ChainInv' /\ \A v \in Transitions : EventsOk(v)'
  <2>1. \A j \in DOMAIN new : /\ new[j].code \in {"used", "other"} \cup CleanupCodes
                              /\ new[j].id \notin Transitions
                              /\ new[j].code # "other" => new[j].id \in CleanupIds
    BY <1>5, <1>6 DEF CleanupCodes
  <2> QED BY <1>1, <1>5, <1>7, <2>1, QuietHistory
<1>9. CleanupEventsOk(t, k)'
  <2>1. /\ \E p : Only("ready", id, p)
        /\ Never("claimed", id) /\ Never("deleted", id)
    BY <1>1, <1>3 DEF EventsInv, CleanupEventsOk, Has
  <2>2. (\E p : Only("ready", id, p)') /\ Never("deleted", id)'
    BY <1>5, <1>6, <1>8, <2>1, AtStays
  <2>3. PICK p : p = Len(journal) + 2
    OBVIOUS
  <2>4. \A j \in DOMAIN new : new[j].code = "claimed" /\ new[j].id = id <=> j = 2
    BY <1>5, <1>6
  <2>5. Only("claimed", id, p)'
    BY <1>6, <1>8, <2>1, <2>3, <2>4, AtWritten
  <2> QED BY <1>2, <1>3, <2>2, <2>5 DEF CleanupEventsOk, Has
<1>10. ASSUME NEW v \in Transitions, NEW l \in LocatorKind, v # t \/ l # k
       PROVE  CleanupEventsOk(v, l)'
  <2>1. <<v, l>> # id
    BY <1>3, <1>10
  <2>2. cleanup'[v][l] = cleanup[v][l]
    BY <1>2, <1>10
  <2>3. \A j \in DOMAIN new : new[j].code \in CleanupCodes => new[j].id # <<v, l>>
    BY <1>6, <2>1
  <2>4. transition' = transition /\ Extends(new)
    BY <1>1, <1>8
  <2> QED BY <2>2, <2>3, <2>4, OtherCleanups
<1> QED BY <1>8, <1>9, <1>10 DEF EventsInv

LEMMA DeleteHistory ==
  ASSUME Inv, JournalInv, EventsInv, ChainInv, permit # None, DeleteCleanup
  PROVE  JournalInv' /\ EventsInv' /\ ChainInv'
<1>0. PICK t \in Transitions, k \in LocatorKind : permit = <<t, k>>
  BY DEF Inv, TypeOK, CleanupIds
<1>1. /\ UNCHANGED <<store, account, transition, storeVersion, accountVersion>>
      /\ cleanup[t][k] = "claimed" /\ transition' = transition
  BY <1>0 DEF DeleteCleanup, Inv, PermitOk
<1>2. /\ cleanup'[t][k] = "deleted"
      /\ \A v \in Transitions, l \in LocatorKind :
            v # t \/ l # k => cleanup'[v][l] = cleanup[v][l]
  BY <1>0 DEF DeleteCleanup, Inv, TypeOK
<1>3. PICK id : id = <<t, k>>
  OBVIOUS
<1>4. PICK new : new = <<Event("deleted", id, NoPair)>>
  OBVIOUS
<1>5. /\ new \in Seq(EventRows) /\ DOMAIN new = {1} /\ 1 \in DOMAIN new
      /\ new[1].code = "deleted" /\ new[1].id = id /\ id \in CleanupIds /\ id \notin Transitions
      /\ Event("deleted", id, NoPair) \in EventRows
  <2>1. /\ Event("deleted", id, NoPair) \in EventRows
        /\ id \in CleanupIds /\ id \notin Transitions
    BY <1>3, CleanupIdFacts DEF CleanupCodes
  <2>2. /\ new \in Seq(EventRows) /\ DOMAIN new = {1} /\ new[1] = Event("deleted", id, NoPair)
    BY <1>4, <2>1
  <2> QED BY <2>1, <2>2 DEF Event
<1>6. journal' = journal \o new
  <2>1. journal' = Append(journal, Event("deleted", id, NoPair))
    BY <1>0, <1>3 DEF DeleteCleanup, CleanupEvent
  <2> QED BY <1>4, <1>5, <2>1, AppendIsConcat DEF JournalInv, JournalOk
<1>7. Extends(new) /\ JournalInv' /\ ChainInv' /\ \A v \in Transitions : EventsOk(v)'
  BY <1>1, <1>5, <1>6, QuietHistory DEF CleanupCodes
<1>8. CleanupEventsOk(t, k)'
  <2>1. /\ \E p : Only("ready", id, p)
        /\ \E p : Only("claimed", id, p)
        /\ Never("deleted", id)
    BY <1>1, <1>3 DEF EventsInv, CleanupEventsOk, Has
  <2>2. (\E p : Only("ready", id, p)') /\ (\E p : Only("claimed", id, p)')
    BY <1>5, <1>7, <2>1, AtStays
  <2>3. PICK p : p = Len(journal) + 1
    OBVIOUS
  <2>4. \A j \in DOMAIN new : new[j].code = "deleted" /\ new[j].id = id <=> j = 1
    BY <1>5
  <2>5. Only("deleted", id, p)'
    <3>1. 1 \in DOMAIN new /\ Extends(new) /\ Never("deleted", id)
      BY <1>5, <1>7, <2>1
    <3> QED BY <2>3, <2>4, <3>1, AtWritten
  <2> QED BY <1>2, <1>3, <2>2, <2>5 DEF CleanupEventsOk, Has
<1>9. ASSUME NEW v \in Transitions, NEW l \in LocatorKind, v # t \/ l # k
      PROVE  CleanupEventsOk(v, l)'
  <2>1. <<v, l>> # id
    BY <1>3, <1>9
  <2>2. cleanup'[v][l] = cleanup[v][l]
    BY <1>2, <1>9
  <2>3. \A j \in DOMAIN new : new[j].code \in CleanupCodes => new[j].id # <<v, l>>
    BY <1>5, <2>1
  <2>4. transition' = transition /\ Extends(new)
    BY <1>1, <1>7
  <2> QED BY <2>2, <2>3, <2>4, OtherCleanups
<1> QED BY <1>7, <1>8, <1>9 DEF EventsInv

\* A step that moves no row at all: a call about another store appends its
\* own event, the others write nothing.
LEMMA IdleHistory ==
  ASSUME Inv, JournalInv, EventsInv, ChainInv,
         UNCHANGED <<store, account, transition, storeVersion, accountVersion, cleanup>>,
         journal' = journal \/ journal' = Append(journal, Event("other", None, NoPair))
  PROVE  JournalInv' /\ EventsInv' /\ ChainInv'
<1>1. PICK e : e = Event("other", None, NoPair)
  OBVIOUS
<1>2. e \in EventRows /\ e.code = "other" /\ e.id = None /\ None \notin Transitions
  BY <1>1, TransitionsAssumption DEF Event, EventRows, NoPair, Pair, Pairs
<1>3. journal \in Seq(EventRows)
  BY DEF JournalInv, JournalOk
<1>4. PICK new \in Seq(EventRows) : /\ journal' = journal \o new
                                    /\ \A j \in DOMAIN new : new[j] = e
  <2>1. CASE journal' = journal
    <3>1. journal' = journal \o <<>> /\ <<>> \in Seq(EventRows) /\ DOMAIN <<>> = {}
      BY <1>3, <2>1
    <3> QED BY <3>1
  <2>2. CASE journal' = Append(journal, e)
    <3>1. journal' = journal \o <<e>> /\ <<e>> \in Seq(EventRows) /\ DOMAIN <<e>> = {1}
          /\ <<e>>[1] = e
      BY <1>2, <1>3, <2>2
    <3> QED BY <3>1
  <2> QED BY <1>1, <2>1, <2>2
<1>5. Extends(new) /\ JournalInv' /\ ChainInv' /\ \A v \in Transitions : EventsOk(v)'
  BY <1>2, <1>4, QuietHistory
<1>6. \A v \in Transitions, l \in LocatorKind : CleanupEventsOk(v, l)'
  BY <1>2, <1>4, <1>5, OtherCleanups DEF CleanupCodes
<1> QED BY <1>5, <1>6 DEF EventsInv

-----------------------------------------------------------------------------
(* The invariant of the specification.                                       *)

LEMMA InitHistory == Init => HistoryInv
<1> SUFFICES ASSUME Init PROVE JournalInv /\ EventsInv /\ ChainInv
  BY DEF HistoryInv
<1>1. /\ journal = <<>> /\ journal \in Seq(EventRows) /\ DOMAIN journal = {}
      /\ store = [state |-> "active", pair |-> InitialPair]
  BY DEF Init
<1>2. \A t \in Transitions :
         /\ transition[t].state = "absent" /\ transition[t].committed = FALSE
         /\ storeVersion[t] = NoPair
         /\ \A k \in LocatorKind : cleanup[t][k] = "none"
  BY DEF Init, NoTransition
<1>3. StoreEvents = {}
  BY <1>1 DEF StoreEvents
<1>4. JournalInv
  BY <1>1, <1>3 DEF JournalInv, JournalOk, ValidStoreEvents, LastOk
<1>5. EventsInv
  BY <1>1, <1>2 DEF EventsInv, EventsOk, CleanupEventsOk, Has, Never, At, Stored
<1>6. ChainInv
  BY <1>2 DEF ChainInv, ChainOk, CurrentOk, VersionsOk, Stored, InFlight, Open
<1> QED BY <1>4, <1>5, <1>6

LEMMA PrepareHistory ==
  ASSUME Inv, NoAbort, JournalInv, EventsInv, ChainInv,
         NEW t, NEW k, NEW a, NEW before, NEW c, NEW ls, Prepares(t, k, a, before, c, ls)
  PROVE  JournalInv' /\ EventsInv' /\ ChainInv'
<1>1. PICK new : new = PreparedEvents(t)
  OBVIOUS
<1>2. JournalOk' /\ Extends(new) /\ EventsInv'
  BY <1>1, PrepareEvents DEF JournalInv
<1>3. ValidStoreEvents' /\ LastOk'
  BY <1>1, <1>2, PrepareReplay
<1>4. ChainInv'
  BY PrepareChain
<1> QED BY <1>2, <1>3, <1>4 DEF JournalInv

LEMMA NextHistory == Inv /\ HistoryInv /\ [Next]_vars => HistoryInv'
<1> DEFINE Goal == JournalInv' /\ EventsInv' /\ ChainInv'
<1> SUFFICES ASSUME Inv, HistoryInv, [Next]_vars, NoAbort' PROVE Goal
  BY DEF HistoryInv
<1>1. NoAbort
  <2> SUFFICES ASSUME NEW t \in Transitions, transition[t].state = "aborted"
               PROVE  transition'[t].state = "aborted"
    BY DEF NoAbort
  <2>1. CASE Next
    BY <2>1, EndsKept DEF Ended
  <2>2. CASE UNCHANGED vars
    BY <2>2 DEF vars
  <2> QED BY <2>1, <2>2
<1>2. JournalInv /\ EventsInv /\ ChainInv
  BY <1>1 DEF HistoryInv
<1>3. ASSUME NEW t, NEW k, NEW a, NEW before, NEW c, NEW ls, Prepares(t, k, a, before, c, ls)
      PROVE  Goal
  BY <1>1, <1>2, <1>3, PrepareHistory
<1> HIDE DEF Goal
<1>4. ASSUME NEW t \in Transitions, NEW a \in Accounts, NEW c \in Contents,
             PrepareCreate(t, a, c)
      PROVE  Goal
  <2>1. Prepares(t, "create", a, NoSnapshot, c, {})
    BY <1>4 DEF PrepareCreate, Prepares
  <2> QED BY <1>3, <2>1
<1>5. ASSUME NEW t \in Transitions, NEW a \in Accounts, NEW c \in Contents,
             NEW k \in {"set", "delete"}, PrepareCredential(t, k, a, c)
      PROVE  Goal
  <2>1. PICK before : before = account[a].snapshot
    OBVIOUS
  <2>2. Prepares(t, k, a, before, c, {})
    BY <1>5, <2>1 DEF PrepareCredential, Prepares, AccountTransitionKind
  <2> QED BY <1>3, <2>2
<1>6. ASSUME NEW t \in Transitions, NEW a \in Accounts, NEW c \in Contents,
             NEW k \in {"update", "remove"}, NEW ls \in SUBSET LocatorKind,
             PrepareReplacement(t, k, a, c, ls)
      PROVE  Goal
  <2>1. PICK before : before = account[a].snapshot
    OBVIOUS
  <2>2. Prepares(t, k, a, before, c, ls)
    BY <1>6, <2>1 DEF PrepareReplacement, Prepares, AccountTransitionKind
  <2> QED BY <1>3, <2>2
<1> USE DEF Goal
<1>7. ASSUME NEW t \in Transitions, NEW pair \in ObservedPairs,
             MarkConfigCommitted(t, pair) \/ Finalize(t, pair) \/ EnterRecovery(t, pair)
      PROVE  Goal
  BY <1>2, <1>7, MarkHistory, FinalizeHistory, RecoveryHistory
<1>8. ASSUME NEW t \in Transitions, NEW pair, Abort(t, pair) PROVE FALSE
  BY <1>8 DEF Abort, UpdateAbortRows, NoAbort, Inv, TypeOK
<1>9. ASSUME NEW t \in Transitions, NEW k \in LocatorKind,
             ClaimCleanup(t, k) \/ ReclaimCleanup(t, k)
      PROVE  Goal
  BY <1>2, <1>9, ClaimHistory, IdleHistory DEF ReclaimCleanup
<1>10. ASSUME OtherCall \/ EraseAndCrash \/ DropPermit \/ UNCHANGED vars PROVE Goal
  BY <1>2, <1>10, IdleHistory DEF OtherCall, EraseAndCrash, DropPermit, vars
<1>11. ASSUME permit # None, DeleteCleanup PROVE Goal
  BY <1>2, <1>11, DeleteHistory
<1> HIDE DEF Goal
<1>12. CASE permit = None /\ ValidHistory /\ Call
  BY <1>12, <1>4, <1>5, <1>6, <1>7, <1>8, <1>9, <1>10 DEF Call
<1>13. CASE permit # None /\ Locked
  BY <1>13, <1>10, <1>11 DEF Locked
<1> QED BY <1>10, <1>12, <1>13 DEF Next

LEMMA HistoryInvariance == Spec => [](Inv /\ HistoryInv)
BY InitInv, NextInv, InitHistory, NextHistory, PTL DEF Spec

-----------------------------------------------------------------------------
(* What the validation looks for, in terms of the invariant.                 *)

LEMMA OnlyMeansOnce ==
  ASSUME NEW code, NEW id, NEW p, Only(code, id, p)
  PROVE  /\ Positions(code, id) = {p} /\ Cardinality(Positions(code, id)) = 1
         /\ Once(code, id) /\ Position(code, id) = p
<1>1. \A i \in DOMAIN journal : journal[i].code = code /\ journal[i].id = id <=> i = p
  BY DEF Only, At
<1>2. p \in DOMAIN journal
  BY DEF Only, At
<1>3. Positions(code, id) = {p}
  BY <1>1, <1>2 DEF Positions
<1>4. Cardinality({p}) = 1
  BY FS_Singleton
<1>5. Position(code, id) = p
  BY <1>1, <1>2 DEF Position
<1> QED BY <1>3, <1>4, <1>5 DEF Once

LEMMA NeverMeansNone ==
  ASSUME NEW code, NEW id, Never(code, id)
  PROVE  Positions(code, id) = {} /\ Cardinality(Positions(code, id)) = 0
<1>1. Positions(code, id) = {}
  BY DEF Never, At, Positions
<1> QED BY <1>1, FS_EmptySet

LEMMA EventsAccepted ==
  ASSUME Inv, NoAbort, JournalInv, EventsInv, NEW t \in Transitions, Stored(t)
  PROVE  ValidTransitionEvents(t)
<1>1. PICK p, q \in DOMAIN journal :
         /\ PreparedAt(t, p) /\ CommittedAt(t, p, q)
         /\ ~Open(t) => \E z \in DOMAIN journal : EndAt(t, q, z)
  BY DEF EventsInv, EventsOk
<1>2. /\ Once("prepared", t) /\ Position("prepared", t) = p /\ p > 2
      /\ Positions("used", t) = {p - 2} /\ journal[p - 1] = Event("blocked", t, NoPair)
  BY <1>1, OnlyMeansOnce DEF PreparedAt
<1>3. /\ transition[t].committed => Once("config_committed", t) /\ q > p
      /\ Previous(t) = q
  BY <1>1, <1>2, OnlyMeansOnce DEF CommittedAt, Previous
<1>4. ASSUME ~Open(t) PROVE Once(transition[t].state, t) /\ ValidTerminal(t)
  <2>1. PICK z \in DOMAIN journal : EndAt(t, q, z)
    BY <1>1, <1>4
  <2>2. Once(transition[t].state, t) /\ Position(transition[t].state, t) = z
    BY <2>1, OnlyMeansOnce DEF EndAt
  <2>3. transition[t].state \in {"finalized", "recovery_required"}
    BY <1>4 DEF NoAbort, Stored, Open, Inv, TypeOK, TransitionRows, TransitionStates
  <2>4. ASSUME transition[t].state = "finalized"
        PROVE  z > q /\ z < Len(journal) /\ journal[z + 1] = Event("unblocked", t, NoPair)
    BY <2>1, <2>4 DEF EndAt, JournalInv, JournalOk
  <2>5. ASSUME transition[t].state = "recovery_required"
        PROVE  /\ z - 1 > q /\ journal[z] = Event("recovery_required", t, store.pair)
               /\ journal[z - 1] = Event("recovered", t, store.pair)
    BY <2>1, <2>5 DEF EndAt
  <2> QED BY <1>3, <2>2, <2>3, <2>4, <2>5 DEF ValidTerminal
<1> QED BY <1>2, <1>3, <1>4 DEF ValidTransitionEvents

LEMMA CleanupAccepted ==
  ASSUME Inv, EventsInv, NEW t \in Transitions, NEW k \in LocatorKind
  PROVE  ValidCleanup(t, k)
<1> SUFFICES ASSUME cleanup[t][k] # "none" PROVE ValidCleanup(t, k)
  BY DEF ValidCleanup
<1>1. PICK s, id : s = cleanup[t][k] /\ id = <<t, k>>
  OBVIOUS
<1>2. s \in {"provisional", "ready", "claimed", "deleted"}
  BY <1>1 DEF Inv, TypeOK
<1>3. /\ transition[t].state = "finalized" => s # "provisional"
      /\ s \in {"ready", "claimed", "deleted"} => transition[t].state = "finalized"
  BY <1>1 DEF EventsInv, CleanupEventsOk, Inv, RowsInv, CleanupOk
<1>4. /\ \A code, p : Only(code, id, p) => Cardinality(Positions(code, id)) = 1
      /\ \A code : Never(code, id) => Cardinality(Positions(code, id)) = 0
  BY OnlyMeansOnce, NeverMeansNone
<1>5. /\ Has(s \in {"ready", "claimed", "deleted"}, "ready", id)
      /\ Has(s \in {"claimed", "deleted"}, "claimed", id)
      /\ Has(s = "deleted", "deleted", id)
  BY <1>1 DEF EventsInv, CleanupEventsOk
<1>6. /\ Cardinality(Positions("ready", id)) = IF s = "provisional" THEN 0 ELSE 1
      /\ Cardinality(Positions("claimed", id)) = IF s \in {"claimed", "deleted"} THEN 1 ELSE 0
      /\ Cardinality(Positions("deleted", id)) = IF s = "deleted" THEN 1 ELSE 0
  BY <1>2, <1>4, <1>5 DEF Has
<1> QED BY <1>1, <1>2, <1>3, <1>6 DEF ValidCleanup

\* A transition in flight has no successor, and one without successors is
\* the latest of its account.
LEMMA CurrentAccepted ==
  ASSUME Inv, NoAbort, ChainInv, NEW t \in Transitions, Stored(t)
  PROVE  /\ Successors(t) # {} => transition[t].state \in {"finalized", "aborted"}
         /\ Successors(t) = {} => ValidCurrentAccount(t)
<1>1. /\ \A v \in Transitions : /\ transition[v].next.generation \in Nat
                                /\ transition[v].expected.generation \in Nat
      /\ transition[t].account \in Accounts /\ None \notin Accounts
      /\ transition[t].state \in {"finalized"} \/ InFlight(t)
  BY TransitionsAssumption DEF Inv, TypeOK, TransitionRows, Pairs, RowsInv, RowOk, RowShape,
     NoAbort, Stored, InFlight, Open, TransitionStates
<1>2. \A v \in Transitions : ChainOk(v) /\ CurrentOk(v)
  BY DEF ChainInv
<1>3. ASSUME InFlight(t) PROVE Successors(t) = {}
  <2> SUFFICES ASSUME NEW u \in Transitions \ {t},
                      transition[u].account = transition[t].account,
                      transition[u].expected.generation >= transition[t].next.generation
               PROVE  FALSE
    BY DEF Successors
  <2>1. Stored(u)
    BY <1>1 DEF Inv, RowsInv, RowOk, NoTransition
  <2>2. /\ transition[u].next.generation <= transition[t].expected.generation
        /\ transition[u].next.generation = transition[u].expected.generation + 1
        /\ transition[t].next.generation = transition[t].expected.generation + 1
    BY <1>2, <1>3, <2>1 DEF ChainOk
  <2> QED BY <1>1, <2>2
<1>4. ASSUME Successors(t) = {} PROVE ValidCurrentAccount(t)
  <2>1. PICK a : a = account[transition[t].account]
    OBVIOUS
  <2>2. CASE InFlight(t)
    <3>1. /\ a.active = t /\ a.authorized = t /\ a.snapshot = transition[t].after
          /\ a.state = IF Open(t) /\ transition[t].kind = "create" THEN "proposed" ELSE "blocked"
      BY <1>2, <2>1, <2>2 DEF Inv, RowsInv, HeldOk, CurrentOk
    <3>2. transition[t].state \in {"prepared", "config_committed", "recovery_required"}
      BY <2>2 DEF InFlight, Open
    <3> QED BY <2>1, <3>1, <3>2 DEF ValidCurrentAccount, Open
  <2>3. CASE transition[t].state = "finalized"
    <3>1. Latest(t)
      BY <1>1, <1>4 DEF Latest, Successors
    <3>2. /\ a.active = None /\ a.authorized = t /\ a.snapshot = transition[t].after
          /\ a.state = IF transition[t].kind = "remove" THEN "removed" ELSE "active"
      BY <1>2, <2>1, <2>3, <3>1 DEF CurrentOk
    <3> QED BY <2>1, <2>3, <3>2 DEF ValidCurrentAccount, Open
  <2> QED BY <1>1, <2>2, <2>3
<1> QED BY <1>1, <1>3, <1>4

LEMMA TransitionAccepted ==
  ASSUME Inv, NoAbort, JournalInv, EventsInv, ChainInv, NEW t \in Transitions, Stored(t)
  PROVE  ValidTransition(t)
<1>1. \A v \in Transitions : VersionsOk(v)
  BY DEF ChainInv
<1>2. ValidVersions(t)
  <2>1. accountVersion[t] = IF transition[t].committed /\ transition[t].kind # "remove"
                            THEN transition[t].after ELSE NoSnapshot
    BY DEF Inv, RowsInv, RowOk
  <2> QED BY <1>1, <2>1 DEF VersionsOk, ValidVersions
<1>3. ASSUME transition[t].kind # "create" PROVE ValidParent(t)
  <2>1. \E u \in Transitions : /\ transition[u].account = transition[t].account
                               /\ transition[u].state = "finalized"
                               /\ accountVersion[u] = transition[t].before
    BY <1>1, <1>3 DEF VersionsOk, CommittedAs
  <2>2. transition[t].expected \in {InitialPair} \cup {storeVersion[u] : u \in Transitions}
    BY <1>1 DEF VersionsOk, StartsFrom
  <2> QED BY <2>1, <2>2 DEF ValidParent
<1> QED BY <1>2, <1>3, EventsAccepted, CleanupAccepted, CurrentAccepted DEF ValidTransition

LEMMA EventRowsAccepted ==
  ASSUME Inv, JournalInv, EventsInv, NEW i \in DOMAIN journal
  PROVE  ValidEventRow(journal[i])
<1>1. PICK e : e = journal[i]
  OBVIOUS
<1>2. EventOk(e)
  BY <1>1 DEF JournalInv, JournalOk
<1>3. CASE e.code \in CleanupCodes
  <2>1. PICK t \in Transitions, k \in LocatorKind : e.id = <<t, k>>
    BY <1>2, <1>3 DEF EventOk, CleanupIds
  <2>2. ~Never(e.code, <<t, k>>)
    BY <1>1, <2>1 DEF Never, At
  <2>3. /\ e.code = "ready" => cleanup[t][k] \in {"ready", "claimed", "deleted"}
        /\ e.code = "claimed" => cleanup[t][k] \in {"claimed", "deleted"}
        /\ e.code = "deleted" => cleanup[t][k] = "deleted"
    BY <2>2 DEF EventsInv, CleanupEventsOk, Has
  <2>4. e.code = "ready" => transition[t].state = "finalized"
    BY <2>3 DEF Inv, RowsInv, CleanupOk
  <2> QED BY <1>1, <1>3, <2>1, <2>3, <2>4 DEF ValidEventRow, CleanupCodes
<1>4. CASE e.code \in TransitionCodes
  BY <1>1, <1>2, <1>4 DEF ValidEventRow, EventOk, TransitionCodes, EndCodes
<1>5. CASE e.code \notin CleanupCodes \cup TransitionCodes
  BY <1>1, <1>5 DEF ValidEventRow, CleanupCodes, TransitionCodes, EndCodes
<1> QED BY <1>3, <1>4, <1>5

-----------------------------------------------------------------------------
(* What the project claims of the history validation.                        *)

\* As long as no transition was aborted, load_snapshot of the next call
\* accepts whatever the calls before it committed, for any number of
\* accounts, transitions and calls about other stores, so no store is shut
\* by its own writes.
THEOREM LockedOutOnlyAfterAbortHolds == Spec => []LockedOutOnlyAfterAbort
<1>1. Inv /\ HistoryInv => LockedOutOnlyAfterAbort
  <2> SUFFICES ASSUME Inv, HistoryInv, NoAbort PROVE ValidHistory
    BY DEF LockedOutOnlyAfterAbort, NoAbort
  <2>1. JournalInv /\ EventsInv /\ ChainInv
    BY DEF HistoryInv
  <2>2. ValidStoreEvents
    BY <2>1 DEF JournalInv
  <2> QED BY <2>1, <2>2, EventRowsAccepted, TransitionAccepted DEF ValidHistory, HistoryError
<1> QED BY <1>1, HistoryInvariance, PTL
=============================================================================

---------------------------- MODULE DraftsProofs ----------------------------
(***************************************************************************)
(* Safety of the draft calls for any number of drafts, sessions and texts. *)
(***************************************************************************)
EXTENDS Drafts, TLAPS

-----------------------------------------------------------------------------
(* Type correctness.                                                         *)

\* An empty store is well typed.
LEMMA TypeInit == Init => TypeOK
  BY DEF Init, TypeOK, Idle, Absent, Payload, Present, At, Points

\* A call that writes a version of its draft, and is over.
LEMMA RecordType ==
    ASSUME TypeOK, NEW s \in Sessions, ~At(s, "idle"),
           NEW event \in {"created", "updated", "discarded"},
           NEW state \in {"active", "discarded"},
           Record(call[s].draft, event, Payload(call[s].text, state)),
           Goes(s, Idle), UNCHANGED <<born, plans>>,
           \E i \in DOMAIN born : born[i] = call[s].draft
    PROVE  TypeOK'
  <1>1. PICK d \in DraftIds : d = call[s].draft
    BY DEF TypeOK
  <1>2. PICK v \in Versions : v = Payload(call[s].text, state)
    BY DEF TypeOK, Versions, Payload
  <1>3. row' = [row EXCEPT ![d] = v]
        /\ events' = [events EXCEPT ![d] = Append(@, [event |-> event, payload |-> v])]
    BY <1>1, <1>2 DEF Record
  <1>4. row' \in [DraftIds -> Versions \cup {Absent}]
    BY <1>3 DEF TypeOK
  <1>5. events' \in [DraftIds -> Seq(Events)]
    <2>1. PICK e \in Events : e = [event |-> event, payload |-> v]
      BY DEF Events
    <2>2. events' = [events EXCEPT ![d] = Append(@, e)]
      BY <1>3, <2>1
    <2> QED BY <2>2 DEF TypeOK
  <1>6. /\ call' \in [Sessions -> [point : Points, draft : DraftIds \cup {None},
                                   text : Texts \cup {None}, seen : Nat]]
        /\ \A r \in Sessions :
              ~At(r, "idle")' => call'[r].draft \in DraftIds /\ call'[r].text \in Texts
    BY DEF Goes, Idle, At, TypeOK, Points
  <1>7. \A c \in DraftIds : Present(c)' => \E i \in DOMAIN born' : born'[i] = c
    BY <1>1, <1>3 DEF TypeOK, Present
  <1> QED BY <1>4, <1>5, <1>6, <1>7 DEF TypeOK

-----------------------------------------------------------------------------
(* The inductive invariant.                                                  *)

Stamped(d) == \E i \in DOMAIN born : born[i] = d

\* A version of a draft that was active and had this text.
ActiveVersion(d, n, t) ==
    /\ n \in DOMAIN events[d]
    /\ events[d][n].payload = Payload(t, "active")

\* What a call that is on its way relies on: the draft it creates is stamped,
\* the draft it read has a row, and what it plans was an active version.
CallOk(s) ==
    /\ call[s].point \in {"created", "admitted"} => Stamped(call[s].draft)
    /\ call[s].point \in {"updating", "discarding", "planning"} => Present(call[s].draft)
    /\ call[s].point = "planning" => ActiveVersion(call[s].draft, call[s].seen, call[s].text)

CallInv == \A s \in Sessions : CallOk(s)

\* A plan holds the text of an active version of its draft.
PlanInv == \A p \in plans : ActiveVersion(p.draft, p.seen, p.text)

DraftsInv == TypeOK /\ CallInv /\ AuditMatchesRow /\ PlanInv

\* Nothing is on its way when there are no drafts.
LEMMA InvInit == Init => DraftsInv
  <1> SUFFICES ASSUME Init PROVE DraftsInv
    OBVIOUS
  <1>1. TypeOK
    BY TypeInit
  <1>2. CallInv
    BY DEF Init, CallInv, CallOk, Idle
  <1>3. AuditMatchesRow
    BY DEF Init, AuditMatchesRow, Present, Absent, Payload
  <1>4. PlanInv
    BY DEF Init, PlanInv
  <1> QED BY <1>1, <1>2, <1>3, <1>4 DEF DraftsInv

\* Rows stay, and versions that were recorded stay where they are.
Grows ==
    \A d \in DraftIds :
        /\ Stamped(d) => Stamped(d)'
        /\ Present(d) => Present(d)'
        /\ \A i \in DOMAIN events[d] : i \in DOMAIN events'[d] /\ events'[d][i] = events[d][i]

\* Under steps that only add, what calls and plans rely on stays true.
LEMMA GrowsKeeps ==
    ASSUME TypeOK, CallInv, PlanInv, Grows
    PROVE  /\ \A s \in Sessions : call'[s] = call[s] => CallOk(s)'
           /\ \A p \in plans : ActiveVersion(p.draft, p.seen, p.text)'
  <1>1. ASSUME NEW d \in DraftIds, NEW n, NEW t, ActiveVersion(d, n, t)
        PROVE  ActiveVersion(d, n, t)'
    BY <1>1 DEF Grows, ActiveVersion
  <1>2. \A p \in plans : ActiveVersion(p.draft, p.seen, p.text)'
    <2>1. \A p \in plans : p.draft \in DraftIds
      BY DEF TypeOK
    <2> QED BY <1>1, <2>1 DEF PlanInv
  <1>3. ASSUME NEW s \in Sessions, call'[s] = call[s] PROVE CallOk(s)'
    <2>1. CASE call[s].point \in {"created", "admitted"}
      <3>1. call[s].draft \in DraftIds /\ Stamped(call[s].draft)
        BY <2>1 DEF TypeOK, At, CallInv, CallOk
      <3> QED BY <1>3, <2>1, <3>1 DEF Grows, CallOk, Stamped
    <2>2. CASE call[s].point \in {"updating", "discarding"}
      <3>1. call[s].draft \in DraftIds /\ Present(call[s].draft)
        BY <2>2 DEF TypeOK, At, CallInv, CallOk
      <3> QED BY <1>3, <2>2, <3>1 DEF Grows, CallOk, Present
    <2>3. CASE call[s].point = "planning"
      <3>1. PICK d \in DraftIds : d = call[s].draft
        BY <2>3 DEF TypeOK, At
      <3>2. Present(d) /\ ActiveVersion(d, call[s].seen, call[s].text)
        BY <2>3, <3>1 DEF CallInv, CallOk
      <3> QED BY <1>1, <1>3, <2>3, <3>1, <3>2 DEF Grows, CallOk, Present, ActiveVersion
    <2>4. CASE call[s].point = "idle"
      BY <1>3, <2>4 DEF CallOk
    <2> QED BY <2>1, <2>2, <2>3, <2>4 DEF TypeOK, Points
  <1> QED BY <1>2, <1>3

\* A call that writes a version of its draft.
LEMMA RecordKeeps ==
    ASSUME DraftsInv, NEW s \in Sessions,
           NEW event \in {"created", "updated", "discarded"},
           NEW state \in {"active", "discarded"},
           \/ event = "created" /\ At(s, "admitted")
           \/ At(s, "updating") \/ At(s, "discarding"),
           Record(call[s].draft, event, Payload(call[s].text, state)),
           Goes(s, Idle), UNCHANGED <<born, plans>>
    PROVE  DraftsInv'
  <1>1. PICK d \in DraftIds : d = call[s].draft
    BY DEF DraftsInv, TypeOK, At
  <1>2. PICK v \in Versions : v = Payload(call[s].text, state)
    BY DEF DraftsInv, TypeOK, Versions, Payload, At
  <1>3. Stamped(d) /\ (event = "created" \/ Present(d))
    BY <1>1 DEF DraftsInv, CallInv, CallOk, At, TypeOK, Stamped
  <1>4. TypeOK'
    BY <1>1, <1>3, RecordType DEF DraftsInv, Stamped, At
  <1>5. PICK e \in Events : e = [event |-> event, payload |-> v]
    BY DEF Events
  <1>6. /\ row' = [row EXCEPT ![d] = v]
        /\ events' = [events EXCEPT ![d] = Append(@, e)]
    BY <1>1, <1>2, <1>5 DEF Record
  <1>7. /\ row'[d] = v /\ events'[d] = Append(events[d], e)
        /\ \A c \in DraftIds : c # d => row'[c] = row[c] /\ events'[c] = events[c]
        /\ events[d] \in Seq(Events)
    BY <1>6 DEF DraftsInv, TypeOK
  <1>8. /\ events'[d] \in Seq(Events) /\ Len(events'[d]) = Len(events[d]) + 1
        /\ events'[d][Len(events[d]) + 1] = e
        /\ \A i \in 1..Len(events[d]) : events'[d][i] = events[d][i]
    BY <1>7
  <1>9. Present(d)'
    BY <1>7 DEF Present, Versions
  <1>10. Grows
    <2>1. ASSUME NEW c \in DraftIds
          PROVE  /\ Stamped(c) => Stamped(c)'
                 /\ Present(c) => Present(c)'
                 /\ \A i \in DOMAIN events[c] : i \in DOMAIN events'[c] /\ events'[c][i] = events[c][i]
      <3>1. CASE c = d
        BY <1>7, <1>8, <1>9, <3>1 DEF Stamped
      <3>2. CASE c # d
        BY <1>7, <3>2 DEF Stamped, Present
      <3> QED BY <3>1, <3>2
    <2> QED BY <2>1 DEF Grows
  <1>11. CallInv'
    <2>1. call'[s].point = "idle" /\ \A r \in Sessions : r # s => call'[r] = call[r]
      BY DEF Goes, Idle, DraftsInv, TypeOK
    <2> QED BY <2>1, <1>10, GrowsKeeps DEF DraftsInv, CallInv, CallOk
  <1>12. PlanInv'
    BY <1>10, GrowsKeeps DEF DraftsInv, PlanInv
  <1>13. AuditMatchesRow'
    <2>1. /\ events'[d] # <<>>
          /\ events'[d][Len(events'[d])].payload = row'[d]
      BY <1>5, <1>7, <1>8
    <2>2. events'[d][1].event = "created"
      <3>1. CASE events[d] = <<>>
        <4>1. event = "created"
          BY <1>3, <3>1 DEF DraftsInv, AuditMatchesRow
        <4> QED BY <1>5, <1>8, <3>1, <4>1
      <3>2. CASE events[d] # <<>>
        <4>1. 1 \in 1..Len(events[d])
          BY <1>7, <3>2
        <4> QED BY <1>8, <3>2, <4>1 DEF DraftsInv, AuditMatchesRow
      <3> QED BY <3>1, <3>2
    <2>3. ASSUME NEW c \in DraftIds, c # d
          PROVE  /\ Present(c)' <=> events'[c] # <<>>
                 /\ events'[c] # <<>> => /\ events'[c][1].event = "created"
                                         /\ events'[c][Len(events'[c])].payload = row'[c]
      BY <1>7, <2>3 DEF DraftsInv, AuditMatchesRow, Present
    <2> QED BY <1>9, <2>1, <2>2, <2>3 DEF AuditMatchesRow
  <1> QED BY <1>4, <1>11, <1>12, <1>13 DEF DraftsInv

\* Every transaction of every call keeps the invariant.
LEMMA InvStep == DraftsInv /\ [Next]_vars => DraftsInv'
  <1> SUFFICES ASSUME DraftsInv, [Next]_vars PROVE DraftsInv'
    OBVIOUS
  <1>types. TypeOK /\ CallInv /\ AuditMatchesRow /\ PlanInv
    BY DEF DraftsInv
  \* A call goes on or is over; no row, event or plan changes.
  <1>1. ASSUME NEW s \in Sessions, NEW c, Goes(s, c), UNCHANGED <<row, events, plans>>,
               \A d \in DraftIds : Stamped(d) => Stamped(d)',
               born' \in Seq(DraftIds),
               c \in [point : Points, draft : DraftIds \cup {None},
                      text : Texts \cup {None}, seen : Nat],
               c.point # "idle" => c.draft \in DraftIds /\ c.text \in Texts,
               c.point \in {"created", "admitted"} => Stamped(c.draft)',
               c.point \in {"updating", "discarding", "planning"} => Present(c.draft),
               c.point = "planning" => ActiveVersion(c.draft, c.seen, c.text)
        PROVE  DraftsInv'
    <2>1. call'[s] = c /\ \A r \in Sessions : r # s => call'[r] = call[r]
      BY <1>1, <1>types DEF Goes, TypeOK
    <2>2. call' \in [Sessions -> [point : Points, draft : DraftIds \cup {None},
                                  text : Texts \cup {None}, seen : Nat]]
      BY <1>1, <1>types DEF Goes, TypeOK
    <2>3. TypeOK'
      BY <1>1, <1>types, <2>1, <2>2 DEF TypeOK, Stamped, Present, At
    <2>4. Grows
      BY <1>1 DEF Grows, Present
    <2>5. CallOk(s)'
      BY <1>1, <2>1 DEF CallOk, Present, ActiveVersion, Stamped
    <2>6. CallInv'
      BY <1>types, <2>1, <2>4, <2>5, GrowsKeeps DEF CallInv
    <2>7. PlanInv'
      BY <1>1, <1>types, <2>4, GrowsKeeps DEF PlanInv
    <2>8. AuditMatchesRow'
      BY <1>1, <1>types DEF AuditMatchesRow, Present
    <2> QED BY <2>3, <2>6, <2>7, <2>8 DEF DraftsInv
  <1>2. ASSUME NEW s \in Sessions, Goes(s, Idle), UNCHANGED <<born, row, events, plans>>
        PROVE  DraftsInv'
    BY <1>1, <1>2, <1>types DEF Idle, Points, TypeOK, Stamped
  <1>3. ASSUME NEW s \in Sessions, NEW d \in DraftIds, NEW t \in Texts, BeginCreate(s, d, t)
        PROVE  DraftsInv'
    <2>1. PICK c : c = Call("created", d, t)
      OBVIOUS
    <2>2. c \in [point : Points, draft : DraftIds \cup {None},
                 text : Texts \cup {None}, seen : Nat]
      BY <1>types, <2>1 DEF Call, Points, TypeOK
    <2>3. born' \in Seq(DraftIds) /\ Stamped(d)' /\ \A e \in DraftIds : Stamped(e) => Stamped(e)'
      <3>1. born \in Seq(DraftIds) /\ born' = Append(born, d)
        BY <1>3, <1>types DEF BeginCreate, TypeOK
      <3>2. /\ born' \in Seq(DraftIds) /\ Len(born') = Len(born) + 1
            /\ born'[Len(born) + 1] = d
            /\ \A i \in 1..Len(born) : born'[i] = born[i]
        BY <3>1
      <3>3. Len(born) + 1 \in DOMAIN born' /\ \A i \in DOMAIN born : i \in DOMAIN born' /\ i \in 1..Len(born)
        BY <3>1, <3>2
      <3> QED BY <3>2, <3>3 DEF Stamped
    <2>4. c.point = "created" /\ c.draft = d /\ c.text = t
      BY <2>1 DEF Call
    <2> QED BY <1>1, <1>3, <2>1, <2>2, <2>3, <2>4 DEF BeginCreate
  <1>4. ASSUME NEW s \in Sessions, CheckLimit(s) PROVE DraftsInv'
    <2>1. CASE Goes(s, Idle)
      BY <1>2, <1>4, <2>1 DEF CheckLimit
    <2>2. CASE Goes(s, [call[s] EXCEPT !.point = "admitted"])
      <3>1. PICK c : c = [call[s] EXCEPT !.point = "admitted"]
        OBVIOUS
      <3>2. c \in [point : Points, draft : DraftIds \cup {None},
                   text : Texts \cup {None}, seen : Nat]
        BY <1>types, <3>1 DEF TypeOK, Points
      <3>3. c.point = "admitted" /\ c.draft = call[s].draft /\ c.text = call[s].text
        BY <1>types, <3>1 DEF TypeOK
      <3>4. c.draft \in DraftIds /\ c.text \in Texts /\ Stamped(c.draft)
        BY <1>4, <1>types, <3>3 DEF CheckLimit, At, TypeOK, CallInv, CallOk
      <3>5. UNCHANGED <<born, row, events, plans>>
        BY <1>4 DEF CheckLimit
      <3> QED BY <1>1, <1>types, <2>2, <3>1, <3>2, <3>3, <3>4, <3>5 DEF TypeOK, Stamped
    <2> QED BY <1>4, <2>1, <2>2 DEF CheckLimit
  <1>5. ASSUME NEW s \in Sessions, NEW d \in DraftIds, NEW t \in Texts,
               NEW p \in {"updating", "discarding", "planning"},
               row[d].state = "active", p = "planning" => t = row[d].text,
               Goes(s, Call(p, d, t)), UNCHANGED <<born, row, events, plans>>
        PROVE  DraftsInv'
    <2>1. PICK c : c = Call(p, d, t)
      OBVIOUS
    <2>2. c \in [point : Points, draft : DraftIds \cup {None},
                 text : Texts \cup {None}, seen : Nat]
      BY <1>types, <2>1 DEF Call, Points, TypeOK
    <2>3. c.point = p /\ c.draft = d /\ c.text = t /\ c.seen = Len(events[d])
      BY <2>1 DEF Call
    <2>4. Present(d)
      BY <1>5 DEF Present
    <2>5. p = "planning" => ActiveVersion(d, Len(events[d]), t)
      <3>1. events[d] # <<>> /\ events[d] \in Seq(Events)
        BY <2>4, <1>types DEF AuditMatchesRow, TypeOK
      <3>2. Len(events[d]) \in DOMAIN events[d] /\ events[d][Len(events[d])].payload = row[d]
        BY <2>4, <3>1, <1>types DEF AuditMatchesRow
      <3>3. row[d] = Payload(row[d].text, "active")
        BY <1>5, <1>types DEF TypeOK, Versions, Payload, Absent
      <3> QED BY <1>5, <3>2, <3>3 DEF ActiveVersion
    <2> QED BY <1>1, <1>5, <1>types, <2>1, <2>2, <2>3, <2>4, <2>5 DEF TypeOK, Stamped
  <1>6. \A d \in DraftIds : row[d].state = "active" => row[d].text \in Texts
    BY <1>types DEF TypeOK, Versions, Absent, Payload
  <1>7. ASSUME NEW s \in Sessions, WritePlan(s) PROVE DraftsInv'
    <2>1. PICK p : p = [draft |-> call[s].draft, text |-> call[s].text, seen |-> call[s].seen]
      OBVIOUS
    <2>2. /\ plans' = plans \cup {p} /\ Goes(s, Idle) /\ UNCHANGED <<born, row, events>>
          /\ call[s].point = "planning"
      BY <1>7, <2>1 DEF WritePlan, At
    <2>3. /\ p \in [draft : DraftIds, text : Texts, seen : Nat]
          /\ p.draft = call[s].draft /\ p.text = call[s].text /\ p.seen = call[s].seen
      BY <1>types, <2>1, <2>2 DEF TypeOK, At
    <2>4. ActiveVersion(p.draft, p.seen, p.text)
      BY <1>types, <2>2, <2>3 DEF CallInv, CallOk
    <2>5. PlanInv'
      BY <1>types, <2>2, <2>4 DEF PlanInv, ActiveVersion
    <2>6. call'[s] = Idle /\ \A r \in Sessions : r # s => call'[r] = call[r]
      BY <1>types, <2>2 DEF Goes, TypeOK
    <2>7. call' \in [Sessions -> [point : Points, draft : DraftIds \cup {None},
                                  text : Texts \cup {None}, seen : Nat]]
      BY <1>types, <2>2 DEF Goes, TypeOK, Idle, Points
    <2>8. TypeOK'
      <3>1. plans' \subseteq [draft : DraftIds, text : Texts, seen : Nat]
        BY <1>types, <2>2, <2>3 DEF TypeOK
      <3>2. \A r \in Sessions :
               ~At(r, "idle")' => call'[r].draft \in DraftIds /\ call'[r].text \in Texts
        <4>1. \A r \in Sessions :
                 call[r].point # "idle" => call[r].draft \in DraftIds /\ call[r].text \in Texts
          BY <1>types DEF TypeOK, At
        <4>2. call'[s].point = "idle"
          BY <2>6 DEF Idle
        <4> QED BY <2>6, <4>1, <4>2 DEF At
      <3> QED BY <1>types, <2>2, <2>7, <3>1, <3>2 DEF TypeOK, Present
    <2>9. CallInv'
      BY <1>types, <2>2, <2>6 DEF CallInv, CallOk, Idle, Stamped, Present, ActiveVersion
    <2>10. AuditMatchesRow'
      BY <1>types, <2>2 DEF AuditMatchesRow, Present
    <2> QED BY <2>5, <2>8, <2>9, <2>10 DEF DraftsInv
  <1>8. ASSUME NEW s \in Sessions, Insert(s) \/ WriteUpdate(s) \/ WriteDiscard(s)
        PROVE  DraftsInv'
    BY <1>8, RecordKeeps DEF Insert, WriteUpdate, WriteDiscard
  <1>9. ASSUME NEW s \in Sessions, NEW d \in DraftIds,
               \/ BeginDiscard(s, d) \/ BeginPlan(s, d)
               \/ \E t \in Texts : BeginUpdate(s, d, t)
        PROVE  DraftsInv'
    BY <1>5, <1>6, <1>9 DEF BeginDiscard, BeginPlan, BeginUpdate
  <1>10. ASSUME NEW s \in Sessions, Crash(s) PROVE DraftsInv'
    BY <1>2, <1>10 DEF Crash
  <1>11. CASE UNCHANGED vars
    BY <1>11 DEF vars, DraftsInv, TypeOK, CallInv, CallOk, AuditMatchesRow, PlanInv, ActiveVersion,
                 Stamped, Present, At
  <1> QED BY <1>3, <1>4, <1>7, <1>8, <1>9, <1>10, <1>11 DEF Next

\* The invariant holds in every state the draft store reaches.
LEMMA Invariance == Spec => []DraftsInv
  BY InvInit, InvStep, PTL DEF Spec

\* Rows, events, plans and calls keep their types, and only stamped drafts
\* have rows.
THEOREM TypeCorrect == Spec => []TypeOK
  <1>1. DraftsInv => TypeOK
    BY DEF DraftsInv
  <1> QED BY <1>1, Invariance, PTL

\* The last event of a draft carries its row, and the first is its creation,
\* however the transactions of concurrent calls interleave.
THEOREM AuditMatchesRowHolds == Spec => []AuditMatchesRow
  <1>1. DraftsInv => AuditMatchesRow
    BY DEF DraftsInv
  <1> QED BY <1>1, Invariance, PTL

\* Every send plan made from a draft holds the text of a version that was
\* active, although the draft may change between the read and the write.
THEOREM PlansAreActiveVersionsHolds == Spec => []PlansAreActiveVersions
  <1>1. DraftsInv => PlansAreActiveVersions
    <2> SUFFICES ASSUME DraftsInv, NEW p \in plans
                 PROVE  /\ events[p.draft][p.seen].payload.state = "active"
                        /\ events[p.draft][p.seen].payload.text = p.text
      BY DEF PlansAreActiveVersions
    <2>1. events[p.draft][p.seen].payload = Payload(p.text, "active")
      BY DEF DraftsInv, PlanInv, ActiveVersion
    <2> QED BY <2>1 DEF Payload
  <1> QED BY <1>1, Invariance, PTL

=============================================================================

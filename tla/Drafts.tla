------------------------------- MODULE Drafts -------------------------------
(***************************************************************************)
(* Private drafts of one account: KirjeRuntime's draft calls over the      *)
(* OperationLedger of SqliteOutbox.  A draft is a row of "operations" of   *)
(* kind draft whose payload holds its text and its draft status; the row's *)
(* own status stays "planned" for ever, so the sweeps of the ledger never  *)
(* touch it.                                                               *)
(*                                                                         *)
(* A call reads the ledger in one transaction and writes it in another.    *)
(* Sessions are calls of CLI processes and MCP tools; each keeps what it   *)
(* read, and may die, between its two transactions.                        *)
(***************************************************************************)
EXTENDS Integers, Sequences, FiniteSets

CONSTANTS
    DraftIds,   \* draft identifiers
    Sessions,   \* concurrent calls
    Texts,      \* SendRequests a draft can hold
    MaxDrafts,  \* MAX_DRAFTS
    MaxEvents,  \* bound on the events of all drafts together
    MaxPlans,   \* bound on the send plans made
    None        \* no draft, no text

ASSUME DraftsAssumption ==
    /\ MaxDrafts \in Nat \ {0}
    /\ MaxEvents \in Nat \ {0}
    /\ MaxPlans \in Nat
    /\ None \notin DraftIds \cup Texts

VARIABLES
    born,    \* the draft identifiers in order of created_at
    row,     \* the payload of each draft row
    events,  \* operation_events of each draft: event name and payload digest
    plans,   \* send plans made from drafts
    call     \* what each session is doing

vars == <<born, row, events, plans, call>>

Points == {"idle", "created", "admitted", "updating", "discarding", "planning"}

Payload(t, st) == [text |-> t, state |-> st]
Absent == Payload(None, "absent")
Idle == [point |-> "idle", draft |-> None, text |-> None, seen |-> 0]

\* A call that goes on: the draft, the text it will write or hand over, and
\* how many events the draft had when it was read.
Call(p, d, t) ==
    [point |-> p, draft |-> d, text |-> t, seen |-> Len(events[d])]

Goes(s, c) == call' = [call EXCEPT ![s] = c]
At(s, p) == call[s].point = p

Init ==
    /\ born = <<>>
    /\ row = [d \in DraftIds |-> Absent]
    /\ events = [d \in DraftIds |-> <<>>]
    /\ plans = {}
    /\ call = [s \in Sessions |-> Idle]

-----------------------------------------------------------------------------
(* Mutants of the definitions below, one per property.                       *)

BeginCreateUnstamped(s, d, t) ==
    /\ At(s, "idle")
    /\ row[d] = Absent
    /\ Goes(s, Call("created", d, t))
    /\ UNCHANGED <<born, row, events, plans>>

RecordNothing(d, event, p) ==
    /\ row' = [row EXCEPT ![d] = p]
    /\ UNCHANGED events

BeginPlanUnchecked(s, d) ==
    /\ At(s, "idle")
    /\ row[d].state # "absent"
    /\ Goes(s, Call("planning", d, row[d].text))
    /\ UNCHANGED <<born, row, events, plans>>

-----------------------------------------------------------------------------
(* Reading.                                                                  *)

Present(d) == row[d].state # "absent"

\* list_drafts: the newest rows, discarded ones included, cut at the limit
\* and only then filtered by draft status.
Newer(e, d) == \E i, j \in DOMAIN born : i < j /\ born[i] = d /\ born[j] = e
NewerRows(d) == {e \in DraftIds : Present(e) /\ Newer(e, d)}
Listed(limit) ==
    {d \in DraftIds : row[d].state = "active" /\ Cardinality(NewerRows(d)) < limit}

WithinLimit == Cardinality(Listed(MaxDrafts)) < MaxDrafts

EventsLeft == Cardinality(UNION {{d} \X DOMAIN events[d] : d \in DraftIds}) < MaxEvents

\* An update of the row and its event, in one transaction.
Record(d, event, p) ==
    /\ row' = [row EXCEPT ![d] = p]
    /\ events' = [events EXCEPT ![d] = Append(@, [event |-> event, payload |-> p])]

-----------------------------------------------------------------------------
(* create_draft: stamp the draft, check the limit, insert.                   *)

BeginCreate(s, d, t) ==
    /\ At(s, "idle")
    /\ \A i \in DOMAIN born : born[i] # d
    /\ born' = Append(born, d)
    /\ Goes(s, Call("created", d, t))
    /\ UNCHANGED <<row, events, plans>>

CheckLimit(s) ==
    /\ At(s, "created")
    /\ Goes(s, IF WithinLimit THEN [call[s] EXCEPT !.point = "admitted"] ELSE Idle)
    /\ UNCHANGED <<born, row, events, plans>>

Insert(s) ==
    /\ At(s, "admitted")
    /\ EventsLeft
    /\ Record(call[s].draft, "created", Payload(call[s].text, "active"))
    /\ Goes(s, Idle)
    /\ UNCHANGED <<born, plans>>

-----------------------------------------------------------------------------
(* update_draft: read the draft, refuse a discarded one, write the new text. *)
(* The write checks the row's kind and status only, and both never change.   *)

BeginUpdate(s, d, t) ==
    /\ At(s, "idle")
    /\ row[d].state = "active"
    /\ Goes(s, Call("updating", d, t))
    /\ UNCHANGED <<born, row, events, plans>>

WriteUpdate(s) ==
    /\ At(s, "updating")
    /\ EventsLeft
    /\ Record(call[s].draft, "updated", Payload(call[s].text, "active"))
    /\ Goes(s, Idle)
    /\ UNCHANGED <<born, plans>>

-----------------------------------------------------------------------------
(* discard_draft: read the draft, refuse a discarded one, write the text that *)
(* was read back with the status discarded.                                  *)

BeginDiscard(s, d) ==
    /\ At(s, "idle")
    /\ row[d].state = "active"
    /\ Goes(s, Call("discarding", d, row[d].text))
    /\ UNCHANGED <<born, row, events, plans>>

WriteDiscard(s) ==
    /\ At(s, "discarding")
    /\ EventsLeft
    /\ Record(call[s].draft, "discarded", Payload(call[s].text, "discarded"))
    /\ Goes(s, Idle)
    /\ UNCHANGED <<born, plans>>

-----------------------------------------------------------------------------
(* plan_send_from_draft: read the draft, refuse a discarded one, create an    *)
(* immutable send plan with the text that was read.                          *)

BeginPlan(s, d) ==
    /\ At(s, "idle")
    /\ row[d].state = "active"
    /\ Goes(s, Call("planning", d, row[d].text))
    /\ UNCHANGED <<born, row, events, plans>>

WritePlan(s) ==
    /\ At(s, "planning")
    /\ Cardinality(plans) < MaxPlans
    /\ plans' = plans \cup {[draft |-> call[s].draft, text |-> call[s].text,
                             seen |-> call[s].seen]}
    /\ Goes(s, Idle)
    /\ UNCHANGED <<born, row, events>>

\* The calling process is killed, or its second transaction fails.
Crash(s) ==
    /\ ~At(s, "idle")
    /\ Goes(s, Idle)
    /\ UNCHANGED <<born, row, events, plans>>

Next ==
    \E s \in Sessions :
        \/ CheckLimit(s) \/ Insert(s)
        \/ WriteUpdate(s) \/ WriteDiscard(s) \/ WritePlan(s)
        \/ Crash(s)
        \/ \E d \in DraftIds :
              \/ BeginDiscard(s, d)
              \/ BeginPlan(s, d)
              \/ \E t \in Texts : BeginCreate(s, d, t) \/ BeginUpdate(s, d, t)

Spec == Init /\ [][Next]_vars

-----------------------------------------------------------------------------
(* Properties.                                                               *)

Versions == [text : Texts, state : {"active", "discarded"}]
Events == [event : {"created", "updated", "discarded"}, payload : Versions]

\* Rows, events, plans and sessions have their types, and only stamped drafts
\* have rows.
TypeOK ==
    /\ born \in Seq(DraftIds)
    /\ row \in [DraftIds -> Versions \cup {Absent}]
    /\ events \in [DraftIds -> Seq(Events)]
    /\ plans \subseteq [draft : DraftIds, text : Texts, seen : Nat]
    /\ call \in [Sessions -> [point : Points, draft : DraftIds \cup {None},
                              text : Texts \cup {None}, seen : Nat]]
    /\ \A d \in DraftIds :
          Present(d) => \E i \in DOMAIN born : born[i] = d
    /\ \A s \in Sessions :
          ~At(s, "idle") => call[s].draft \in DraftIds /\ call[s].text \in Texts

\* The audit trail keeps every version of a draft: it starts with its creation
\* and its last event carries the digest of the payload the row holds, however
\* the two transactions of concurrent calls interleave.
AuditMatchesRow ==
    \A d \in DraftIds :
        /\ Present(d) <=> events[d] # <<>>
        /\ events[d] # <<>> =>
              /\ events[d][1].event = "created"
              /\ events[d][Len(events[d])].payload = row[d]

\* A send plan made from a draft holds the text of one version of that draft,
\* and a version that was active: "discarded draft cannot become a send plan"
\* holds as of the read, whatever other calls do before the plan is written.
PlansAreActiveVersions ==
    \A p \in plans :
        LET version == events[p.draft][p.seen].payload
        IN  version.state = "active" /\ version.text = p.text

ActiveDrafts == {d \in DraftIds : row[d].state = "active"}

\* "an account cannot have more than {MAX_DRAFTS} active drafts", the error of
\* create_draft.  Concurrent calls may each find room for one more, and the
\* page on which create_draft counts the active drafts holds the newest rows,
\* discarded ones included, so that older active ones drop out of the count.
LimitHolds == Cardinality(ActiveDrafts) <= MaxDrafts

\* "discarded draft cannot be edited": a discarded draft stays discarded.
DiscardIsFinal ==
    [][\A d \in DraftIds :
          row[d].state = "discarded" => row'[d].state = "discarded"]_vars

=============================================================================

------------------------- MODULE MessageIndexProofs -------------------------
(***************************************************************************)
(* Proofs about MessageIndex, for any number of concurrent sync calls,     *)
(* batch limits, messages and renewals of the mailbox.                     *)
(*                                                                         *)
(* What a call fetched may be applied much later, so each property of the  *)
(* index rests on a property of the batches on their way: they belong to   *)
(* the UIDVALIDITY that their call has seen, and they still name the       *)
(* messages of the server as long as this UIDVALIDITY lasts.               *)
(***************************************************************************)
EXTENDS MessageIndex, FiniteSetTheorems, TLAPS

\* A batch belongs to the UIDVALIDITY its call saw and names a UID once.
BatchesConsistent ==
    \A s \in Sessions :
        /\ \A r \in call[s].batch : r.validity = call[s].seen
        /\ \A r1, r2 \in call[s].batch : r1.uid = r2.uid => r1 = r2

\* A call has seen a UIDVALIDITY before it has a batch, and has no batch
\* before it has fetched one.
CallsInOrder ==
    \A s \in Sessions :
        /\ call[s].pc \in {"searched", "fetched"} => call[s].seen # 0
        /\ call[s].pc # "fetched" => call[s].batch = {}

\* A row that may still be read names its message, and no later one can take
\* its UID.
Faithful(r) ==
    /\ r.validity <= validity
    /\ r.validity = validity =>
           r.uid < uidNext /\ (r.uid \in DOMAIN box => box[r.uid] = r.message)

EverythingFaithful ==
    /\ \A r \in rows : Faithful(r)
    /\ \A s \in Sessions : \A r \in call[s].batch : Faithful(r)

CallsTyped == call \in [Sessions -> Calls]

IndexInv ==
    /\ TypeOK
    /\ CallsTyped
    /\ CallsInOrder
    /\ BatchesConsistent
    /\ IndexConsistent
    /\ EverythingFaithful

-----------------------------------------------------------------------------
(* The steps of the server leave the index and the calls alone.              *)

\* What the invariant says of the index and of the calls survives.
LEMMA ServerKeeps ==
    ASSUME IndexInv, UNCHANGED <<index, call, skewed>>
    PROVE  /\ state' \in States /\ rows' \subseteq Rows /\ skewed' \in BOOLEAN
           /\ \A s \in Sessions : call'[s] \in Calls
           /\ CallsTyped' /\ CallsInOrder' /\ BatchesConsistent' /\ IndexConsistent'
  BY DEF IndexInv, TypeOK, CallsTyped, CallsInOrder, BatchesConsistent, IndexConsistent,
         IsHighest, UidsOf, index

\* A new message takes a UID that no row and no batch names.
LEMMA DeliverKeeps ==
    ASSUME IndexInv, Deliver
    PROVE  IndexInv'
  <1>1. /\ UNCHANGED <<index, call, skewed>>
        /\ validity' = validity /\ uidNext' = uidNext + 1 /\ delivered' = delivered + 1
        /\ delivered < MaxMessages /\ uidNext <= MaxUid
        /\ DOMAIN box' = DOMAIN box \cup {uidNext}
        /\ box'[uidNext] = delivered'
        /\ \A u \in DOMAIN box : u # uidNext => box'[u] = box[u]
    BY DEF Deliver
  <1>2. \A u \in DOMAIN box : box[u] \in Messages /\ u < uidNext
    BY DEF IndexInv, TypeOK
  <1>3. /\ uidNext \in 1..(MaxUid + 1) /\ delivered \in 0..MaxMessages
        /\ validity \in Validities /\ DOMAIN box \subseteq Uids
        /\ MaxUid \in Nat /\ MaxMessages \in Nat
    BY MessageIndexAssumption DEF IndexInv, TypeOK
  <1>4. TypeOK'
    <2>1. /\ uidNext' \in 1..(MaxUid + 1) /\ delivered' \in 0..MaxMessages
          /\ delivered' \in Messages /\ uidNext \in Uids
      BY <1>1, <1>3 DEF Messages, Uids
    <2>2. \A u \in DOMAIN box' : box'[u] \in Messages /\ u < uidNext'
      BY <1>1, <1>2, <1>3, <2>1 DEF Uids
    <2> QED BY <1>1, <1>3, <2>1, <2>2, ServerKeeps DEF TypeOK
  <1>5. ASSUME NEW r \in Rows, Faithful(r) PROVE Faithful(r)'
    BY <1>1, <1>3, <1>5 DEF Faithful, Rows, Uids
  <1>6. EverythingFaithful'
    BY <1>1, <1>5 DEF EverythingFaithful, IndexInv, TypeOK, Calls, index
  <1> QED BY <1>1, <1>4, <1>6, ServerKeeps DEF IndexInv

\* An expunged message leaves its row behind, which reads nothing.
LEMMA ExpungeKeeps ==
    ASSUME IndexInv, NEW u \in DOMAIN box, Expunge(u)
    PROVE  IndexInv'
  <1>1. /\ UNCHANGED <<index, call, skewed>>
        /\ validity' = validity /\ uidNext' = uidNext /\ delivered' = delivered
        /\ DOMAIN box' = DOMAIN box \ {u}
        /\ \A v \in DOMAIN box' : box'[v] = box[v]
    BY DEF Expunge
  <1>2. TypeOK'
    BY <1>1, ServerKeeps DEF IndexInv, TypeOK
  <1>3. ASSUME NEW r \in Rows, Faithful(r) PROVE Faithful(r)'
    BY <1>1, <1>3 DEF Faithful
  <1>4. EverythingFaithful'
    BY <1>1, <1>3 DEF EverythingFaithful, IndexInv, TypeOK, Calls, index
  <1> QED BY <1>1, <1>2, <1>4, ServerKeeps DEF IndexInv

\* After a renewal every row and batch is of an older UIDVALIDITY.
LEMMA RenewKeeps ==
    ASSUME IndexInv, Renew
    PROVE  IndexInv'
  <1>1. /\ UNCHANGED <<index, call, skewed>>
        /\ validity < MaxValidity /\ validity' = validity + 1 /\ delivered' = delivered
    BY DEF Renew
  <1>2. PICK n \in 0..MaxUid : \E old \in [1..n -> DOMAIN box] :
            box' = [i \in 1..n |-> box[old[i]]] /\ uidNext' = n + 1
    BY DEF Renew
  <1>3. /\ DOMAIN box' = 1..n
        /\ \A i \in 1..n : box'[i] \in Messages
        /\ uidNext' = n + 1
    BY <1>2 DEF IndexInv, TypeOK
  <1>4. validity \in 1..MaxValidity /\ MaxValidity \in Nat /\ MaxUid \in Nat
    BY MessageIndexAssumption DEF IndexInv, TypeOK, Validities
  <1>5. TypeOK'
    <2>1. validity' \in Validities
      BY <1>1, <1>4 DEF Validities
    <2>2. DOMAIN box' \subseteq Uids /\ uidNext' \in 1..(MaxUid + 1)
      BY <1>3, <1>4 DEF Uids
    <2>3. \A u \in DOMAIN box' : box'[u] \in Messages /\ u < uidNext'
      BY <1>3, <1>4
    <2> QED BY <1>1, <2>1, <2>2, <2>3, ServerKeeps DEF IndexInv, TypeOK
  <1>6. ASSUME NEW r \in Rows, Faithful(r) PROVE Faithful(r)'
    BY <1>1, <1>4, <1>6 DEF Faithful, Rows, Validities
  <1>7. EverythingFaithful'
    BY <1>1, <1>6 DEF EverythingFaithful, IndexInv, TypeOK, Calls, index
  <1> QED BY <1>1, <1>5, <1>7, ServerKeeps DEF IndexInv

-----------------------------------------------------------------------------
(* The steps of a sync call before it is applied.                            *)

\* A call that changes only its own record keeps the invariant if the record
\* is well formed and its batch consistent and faithful.
LEMMA CallKeeps ==
    ASSUME IndexInv, UNCHANGED <<server, index, skewed>>, NEW s \in Sessions, NEW c \in Calls,
           call' = [call EXCEPT ![s] = c],
           c.pc \in {"searched", "fetched"} => c.seen # 0,
           c.pc # "fetched" => c.batch = {},
           \A r \in c.batch : r.validity = c.seen,
           \A r1, r2 \in c.batch : r1.uid = r2.uid => r1 = r2,
           \A r \in c.batch : Faithful(r)
    PROVE  IndexInv'
  <1>1. UNCHANGED <<validity, box, uidNext, delivered, state, rows, skewed>>
    BY DEF server, index
  <1>2. CallsTyped' /\ call'[s] = c /\ \A q \in Sessions \ {s} : call'[q] = call[q]
    BY DEF IndexInv, CallsTyped
  <1>3. TypeOK'
    BY <1>1, <1>2 DEF IndexInv, TypeOK, CallsTyped
  <1>4. IndexConsistent'
    BY <1>1 DEF IndexInv, IndexConsistent, IsHighest, UidsOf
  <1>5. CallsInOrder' /\ BatchesConsistent'
    BY <1>2 DEF IndexInv, CallsInOrder, BatchesConsistent
  <1>6. EverythingFaithful'
    BY <1>1, <1>2 DEF IndexInv, EverythingFaithful, Faithful
  <1> QED BY <1>2, <1>3, <1>4, <1>5, <1>6 DEF IndexInv

\* A call that has not begun, or has ended.
LEMMA IdleCall ==
    Idle \in Calls /\ Idle.batch = {} /\ Idle.pc = "idle"
  BY MessageIndexAssumption DEF Idle, Calls, Points, NoCursor, Cursors

\* sync_mailbox starts with the stored cursor and no batch.
LEMMA BeginKeeps ==
    ASSUME IndexInv, NEW s \in Sessions, NEW refresh \in BOOLEAN, NEW limit \in Limits,
           Begin(s, refresh, limit)
    PROVE  IndexInv'
  <1> DEFINE k == IF refresh THEN NoCursor
                  ELSE StoredCursor
             c == [Idle EXCEPT !.pc = "asked", !.refresh = refresh, !.limit = limit, !.cursor = k]
  <1>1. k \in Cursors
    BY MessageIndexAssumption DEF IndexInv, TypeOK, States, Cursors, NoCursor, StoredCursor
  <1> HIDE DEF k
  <1>2. c \in Calls /\ c.batch = {} /\ c.pc = "asked"
    BY <1>1, IdleCall DEF Calls, Points
  <1>3. call' = [call EXCEPT ![s] = c] /\ UNCHANGED <<server, index, skewed>>
    BY DEF Begin, Goes, k
  <1> HIDE DEF c
  <1> QED BY <1>2, <1>3, CallKeeps

\* What a search selects lies in the mailbox.
LEMMA SelectionIsSubset ==
    ASSUME NEW h, NEW limit, NEW incremental
    PROVE  /\ SyncSearchKeys(h) \subseteq DOMAIN box
           /\ \A found \in SUBSET DOMAIN box :
                  SelectSyncUids(found, limit, incremental) \subseteq DOMAIN box
  BY DEF SyncSearchKeys, SearchAll, SearchFrom, SelectSyncUids

\* EXAMINE and UID SEARCH record the UIDVALIDITY of the call.
LEMMA SearchUidsKeeps ==
    ASSUME IndexInv, NEW s \in Sessions, SearchUids(s)
    PROVE  IndexInv'
  <1>1. PICK uids \in SUBSET DOMAIN box, more \in BOOLEAN :
            call' = [call EXCEPT ![s] = [call[s] EXCEPT !.seen = validity, !.pc = "searched",
                                                        !.uids = uids, !.more = more]]
    <2> DEFINE d == [call[s] EXCEPT !.seen = validity]
               h == HighestAsked(d)
               found == IF h = MaxUid THEN {} ELSE SyncSearchKeys(h)
               uids == SelectSyncUids(found, d.limit, h # 0)
               more == Cardinality(found) > d.limit
    <2>1. call' = [call EXCEPT ![s] = [d EXCEPT !.pc = "searched", !.uids = uids, !.more = more]]
      BY DEF SearchUids, Goes
    <2>2. found \in SUBSET DOMAIN box
      BY SelectionIsSubset
    <2> HIDE DEF h
    <2>3. uids \in SUBSET DOMAIN box
      BY <2>2, SelectionIsSubset
    <2>4. more \in BOOLEAN
      OBVIOUS
    <2> HIDE DEF found, uids, more
    <2>5. [d EXCEPT !.pc = "searched", !.uids = uids, !.more = more] =
              [call[s] EXCEPT !.seen = validity, !.pc = "searched", !.uids = uids, !.more = more]
      OBVIOUS
    <2> QED BY <2>1, <2>3, <2>4, <2>5
  <1> DEFINE c == [call[s] EXCEPT !.seen = validity, !.pc = "searched", !.uids = uids, !.more = more]
  <1>2. call[s] \in Calls /\ validity \in Validities /\ uids \in SUBSET Uids
    BY DEF IndexInv, TypeOK
  <1>3. validity \in 0..MaxValidity /\ validity # 0
    BY <1>2, MessageIndexAssumption DEF Validities
  <1>4. c \in Calls /\ c.batch = call[s].batch /\ c.seen = validity
    BY <1>2, <1>3 DEF Calls, Points
  <1>5. UNCHANGED <<server, index, skewed>> /\ call[s].pc = "asked"
    BY DEF SearchUids, At
  <1>6. call[s].batch = {}
    BY <1>5 DEF IndexInv, CallsInOrder
  <1> HIDE DEF c
  <1> QED BY <1>1, <1>3, <1>4, <1>5, <1>6, CallKeeps DEF c

\* A batch names the messages of the server under the UIDVALIDITY seen.
LEMMA FetchKeeps ==
    ASSUME IndexInv, NEW s \in Sessions, Fetch(s)
    PROVE  IndexInv'
  <1> DEFINE uids == call[s].uids
             seen == call[s].seen
             batch == {[validity |-> seen, uid |-> u, message |-> box[u]] :
                           u \in uids \cap DOMAIN box}
             c == [call[s] EXCEPT !.pc = "fetched", !.uids = {}, !.batch = batch]
  <1>1. /\ call[s].pc = "searched"
        /\ uids = {} \/ seen = validity
        /\ call' = [call EXCEPT ![s] = c]
        /\ UNCHANGED <<server, index, skewed>>
    BY DEF Fetch, EnvelopeFrom, At, Goes
  <1>2. call[s] \in Calls /\ seen # 0
    BY <1>1 DEF IndexInv, TypeOK, CallsInOrder
  <1>3. seen \in Validities
    BY <1>2, MessageIndexAssumption DEF Calls, Validities
  <1>4. \A u \in DOMAIN box : u \in Uids /\ box[u] \in Messages /\ u < uidNext
    BY DEF IndexInv, TypeOK
  <1>5. batch \subseteq Rows
    BY <1>3, <1>4 DEF Rows
  <1>6. \A x \in batch : x.validity = seen /\ x.uid \in uids \cap DOMAIN box /\ x.message = box[x.uid]
    OBVIOUS
  <1>7. \A x1, x2 \in batch : x1.uid = x2.uid => x1 = x2
    OBVIOUS
  <1>8. \A x \in batch : Faithful(x)
    BY <1>1, <1>4, <1>6, MessageIndexAssumption DEF Faithful, IndexInv, TypeOK, Validities
  <1> HIDE DEF batch
  <1>9. c \in Calls /\ c.batch = batch /\ c.seen = seen /\ c.pc = "fetched"
    BY <1>2, <1>5 DEF Calls, Points
  <1> HIDE DEF c
  <1> QED BY <1>1, <1>2, <1>6, <1>7, <1>8, <1>9, CallKeeps

\* A call that fails leaves no batch.
LEMMA FailKeeps ==
    ASSUME IndexInv, NEW s \in Sessions, Fail(s)
    PROVE  IndexInv'
  <1>1. call' = [call EXCEPT ![s] = Idle] /\ UNCHANGED <<server, index, skewed>>
    BY DEF Fail, Goes
  <1> QED BY <1>1, IdleCall, CallKeeps

-----------------------------------------------------------------------------
(* apply_sync.                                                               *)

\* The greater of two highest UIDs is the highest of both sets.
LEMMA HighestOfBoth ==
    ASSUME NEW S \in SUBSET Nat, NEW T \in SUBSET Nat, NEW g \in Nat, NEW h \in Nat,
           IsHighest(g, S), IsHighest(h, T)
    PROVE  IsHighest(IF h > g THEN h ELSE g, S \cup T)
  BY DEF IsHighest

\* apply_sync resets the index or merges a batch of its UIDVALIDITY; either
\* way rows and cursor agree.
LEMMA ApplySyncKeeps ==
    ASSUME IndexInv, NEW s \in Sessions, ApplySync(s)
    PROVE  IndexInv'
  <1> DEFINE c == call[s]
             batch == call[s].batch
             g == state.highest
  <1>1. PICK h \in 0..MaxUid :
            /\ IsHighest(h, UidsOf(batch))
            /\ state' = [validity |-> c.seen, highest |-> NextHighest(c, h),
                         complete |-> IF Reset(c) \/ state = NoState THEN ~c.more
                                      ELSE state.complete]
    BY DEF ApplySync
  <1>2. /\ c.pc = "fetched"
        /\ rows' = IF Reset(c) THEN batch ELSE Upsert(batch)
        /\ call' = [call EXCEPT ![s] = Idle]
        /\ skewed' = (skewed \/ Skews(c))
        /\ UNCHANGED <<validity, box, uidNext, delivered>>
    BY DEF ApplySync, At, Goes, server
  <1>3. c \in Calls /\ c.seen # 0 /\ batch \subseteq Rows
    BY <1>2 DEF IndexInv, TypeOK, CallsInOrder, Calls
  <1>4. state \in States /\ rows \subseteq Rows /\ g \in 0..MaxUid /\ MaxUid \in Nat
    BY MessageIndexAssumption DEF IndexInv, TypeOK, States
  <1>5. NextHighest(c, h) \in 0..MaxUid
    BY <1>4 DEF NextHighest
  <1>6. state' \in States /\ rows' \subseteq Rows
    <2>1. (IF Reset(c) \/ state = NoState THEN ~c.more ELSE state.complete) \in BOOLEAN
      BY <1>3, <1>4 DEF Calls, States
    <2>2. c.seen \in 0..MaxValidity
      BY <1>3 DEF Calls
    <2>3. state' \in States
      BY <1>1, <1>5, <2>1, <2>2 DEF States
    <2> QED BY <1>2, <1>3, <1>4, <2>3 DEF Upsert
  <1>7. /\ CallsTyped' /\ call'[s] = Idle
        /\ \A q \in Sessions \ {s} : call'[q] = call[q]
    BY <1>2, IdleCall DEF IndexInv, CallsTyped
  <1>8. TypeOK'
    <2>1. skewed' \in BOOLEAN
      BY <1>2 DEF Skews, IndexInv, TypeOK
    <2> QED BY <1>2, <1>6, <1>7, <2>1 DEF IndexInv, TypeOK, CallsTyped
  <1>9. CallsInOrder' /\ BatchesConsistent'
    BY <1>7, IdleCall DEF IndexInv, CallsInOrder, BatchesConsistent
  <1>10. \A x \in rows' : x \in rows \/ x \in batch
    BY <1>2 DEF Upsert
  <1>11. EverythingFaithful'
    BY <1>2, <1>7, <1>10, IdleCall DEF IndexInv, EverythingFaithful, Faithful
  <1>12. /\ \A x \in batch : x.validity = c.seen
         /\ \A x1, x2 \in batch : x1.uid = x2.uid => x1 = x2
    BY DEF IndexInv, BatchesConsistent
  <1>13. /\ \A x \in rows : x.validity = state.validity
         /\ \A x1, x2 \in rows : x1.uid = x2.uid => x1 = x2
         /\ IsHighest(g, UidsOf(rows))
    BY DEF IndexInv, IndexConsistent
  <1>14. state'.validity = c.seen /\ state'.highest = NextHighest(c, h)
    BY <1>1
  <1>15. IndexConsistent'
    <2>1. CASE Reset(c)
      <3>1. rows' = batch /\ state'.highest = h
        BY <1>2, <1>14, <2>1 DEF NextHighest
      <3>2. UidsOf(rows') = UidsOf(batch)
        BY <3>1
      <3> QED BY <1>1, <1>12, <1>14, <3>1, <3>2 DEF IndexConsistent, UidsOf, IsHighest
    <2>2. CASE ~Reset(c)
      <3>1. rows = {} \/ state.validity = c.seen
        <4>1. state # NoState => state.validity = c.seen
          BY <2>2 DEF Reset
        <4>2. state = NoState => state.validity = 0
          BY DEF NoState
        <4>3. state.validity = 0 => rows = {}
          BY <1>4, <1>13 DEF Rows, Validities
        <4> QED BY <4>1, <4>2, <4>3
      <3>2. rows' = batch \cup {x \in rows : \A b \in batch : <<b.validity, b.uid>> # <<x.validity, x.uid>>}
        BY <1>2, <2>2 DEF Upsert
      <3>3. \A x \in rows' : x.validity = c.seen
        BY <1>12, <1>13, <3>1, <3>2
      <3>4. \A x1, x2 \in rows' : x1.uid = x2.uid => x1 = x2
        BY <1>12, <1>13, <3>1, <3>2
      <3>5. UidsOf(rows') = UidsOf(rows) \cup UidsOf(batch)
        <4>1. \A x \in rows : \E y \in rows' : y.uid = x.uid
          BY <3>2
        <4> QED BY <3>2, <4>1 DEF UidsOf
      <3>6. UidsOf(rows) \in SUBSET Nat /\ UidsOf(batch) \in SUBSET Nat
        BY <1>3, <1>4 DEF UidsOf, Rows, Uids
      <3>7. NextHighest(c, h) = IF h > g THEN h ELSE g
        BY <2>2 DEF NextHighest
      <3>8. IsHighest(state'.highest, UidsOf(rows'))
        <4>1. h \in Nat /\ g \in Nat
          BY <1>4
        <4>2. IsHighest(IF h > g THEN h ELSE g, UidsOf(rows) \cup UidsOf(batch))
          BY <1>1, <1>13, <3>6, <4>1, HighestOfBoth
        <4>3. state'.highest = IF h > g THEN h ELSE g
          BY <1>14, <3>7
        <4> QED BY <3>5, <4>2, <4>3
      <3> QED BY <1>14, <3>3, <3>4, <3>8 DEF IndexConsistent, UidsOf, IsHighest
    <2> QED BY <2>1, <2>2
  <1> QED BY <1>7, <1>8, <1>9, <1>11, <1>15 DEF IndexInv

-----------------------------------------------------------------------------
\* The inductive invariant holds in every reachable state.
THEOREM IndexInvariant == Spec => []IndexInv
  <1>1. Init => IndexInv
    <2> SUFFICES ASSUME Init PROVE IndexInv
      OBVIOUS
    <2>1. TypeOK /\ CallsTyped
      <3>1. call \in [Sessions -> Calls]
        BY IdleCall DEF Init
      <3>2. /\ validity \in Validities /\ uidNext \in 1..(MaxUid + 1)
            /\ delivered \in 0..MaxMessages
        BY MessageIndexAssumption DEF Init, Validities
      <3>3. NoState \in States
        BY MessageIndexAssumption DEF NoState, States
      <3>4. DOMAIN box = {} /\ state = NoState /\ rows = {} /\ skewed \in BOOLEAN
        BY DEF Init
      <3> QED BY <3>1, <3>2, <3>3, <3>4 DEF TypeOK, CallsTyped
    <2>2. CallsInOrder /\ BatchesConsistent
      BY IdleCall DEF Init, CallsInOrder, BatchesConsistent
    <2>3. IndexConsistent /\ EverythingFaithful
      BY IdleCall DEF Init, IndexConsistent, EverythingFaithful, IsHighest, UidsOf, NoState
    <2> QED BY <2>1, <2>2, <2>3 DEF IndexInv
  <1>2. IndexInv /\ [Next]_vars => IndexInv'
    <2> SUFFICES ASSUME IndexInv, [Next]_vars PROVE IndexInv'
      OBVIOUS
    <2>1. CASE UNCHANGED vars
      <3>1. UNCHANGED <<validity, box, uidNext, delivered, state, rows, call, skewed>>
        BY <2>1 DEF vars, server, index
      <3>2. TypeOK' /\ CallsTyped' /\ CallsInOrder' /\ BatchesConsistent'
        BY <3>1 DEF IndexInv, TypeOK, CallsTyped, CallsInOrder, BatchesConsistent
      <3>3. IndexConsistent' /\ EverythingFaithful'
        BY <3>1 DEF IndexInv, IndexConsistent, EverythingFaithful, Faithful, IsHighest, UidsOf
      <3> QED BY <3>2, <3>3 DEF IndexInv
    <2>2. CASE Next
      BY <2>2, DeliverKeeps, ExpungeKeeps, RenewKeeps, BeginKeeps, SearchUidsKeeps, FetchKeeps,
         ApplySyncKeeps, FailKeeps DEF Next, SyncStep
    <2> QED BY <2>1, <2>2
  <1> QED BY <1>1, <1>2, PTL DEF Spec

\* Type correctness of the index, the server and the calls.
THEOREM IndexTypes == Spec => []TypeOK
  BY IndexInvariant, PTL DEF IndexInv

\* In whatever order the batches of concurrent calls are applied, across any
\* renewals, rows and cursor belong to one UIDVALIDITY and agree.
THEOREM IndexStaysConsistent == Spec => []IndexConsistent
  BY IndexInvariant, PTL DEF IndexInv

\* No reference found in the index is ever read as another message.
THEOREM IndexReadsWhatWasIndexed == Spec => []ReadsWhatWasIndexed
  <1>1. IndexInv => ReadsWhatWasIndexed
    BY DEF IndexInv, EverythingFaithful, Faithful, ReadsWhatWasIndexed, LocalSearch, ReadMessage,
           EnsureUidValidity
  <1> QED BY <1>1, IndexInvariant, PTL

-----------------------------------------------------------------------------
(* References.  ReferencesStay compares rows of two states, and a row may    *)
(* come from a batch that was fetched long ago.  So all rows and all batches *)
(* on their way must agree, whatever UIDVALIDITY they belong to.             *)

Known(r) == r \in rows \/ \E s \in Sessions : r \in call[s].batch

SameMessage(r, q) == r.validity = q.validity /\ r.uid = q.uid => r.message = q.message

ReferencesAgree == \A r, q \in Rows : Known(r) /\ Known(q) => SameMessage(r, q)

\* What a fetch would return now.
OnServer(r) == r.validity = validity /\ r.uid \in DOMAIN box /\ r.message = box[r.uid]

\* What is known and what the server holds agree, as known rows are faithful.
LEMMA ServerAgrees ==
    ASSUME IndexInv, ReferencesAgree, NEW r \in Rows, NEW q \in Rows,
           Known(r) \/ OnServer(r), Known(q) \/ OnServer(q)
    PROVE  SameMessage(r, q)
  <1>1. \A x \in Rows : Known(x) => Faithful(x)
    BY DEF Known, IndexInv, EverythingFaithful
  <1> QED BY <1>1 DEF ReferencesAgree, SameMessage, OnServer, Faithful

\* A call that changes only its own record knows its batch and no more.
LEMMA CallKnows ==
    ASSUME CallsTyped, NEW s \in Sessions, NEW c, call' = [call EXCEPT ![s] = c],
           NEW x, Known(x)'
    PROVE  x \in rows' \/ Known(x) \/ x \in c.batch
  <1>1. call'[s] = c /\ \A t \in Sessions \ {s} : call'[t] = call[t]
    BY DEF CallsTyped
  <1> QED BY <1>1 DEF Known

\* No step brings a row from anywhere but the index, a batch and the server.
LEMMA NothingElseIsKnown ==
    ASSUME IndexInv, [Next]_vars, NEW r \in Rows, Known(r)'
    PROVE  Known(r) \/ OnServer(r)
  <1> USE DEF IndexInv
  <1>1. CASE UNCHANGED <<index, call>>
    BY <1>1 DEF Known, index
  <1>2. ASSUME NEW s \in Sessions, NEW c, c.batch = {}, call' = [call EXCEPT ![s] = c],
               UNCHANGED index
        PROVE  Known(r)
    BY <1>2, CallKnows DEF Known, index
  <1>3. Idle.batch = {}
    BY DEF Idle
  <1>4. ASSUME NEW s \in Sessions, NEW refresh \in BOOLEAN, NEW limit \in Limits,
               Begin(s, refresh, limit)
        PROVE  Known(r)
    BY <1>2, <1>4 DEF Begin, Goes, Idle
  <1>5. ASSUME NEW s \in Sessions, SearchUids(s) PROVE Known(r)
    <2>1. call[s] \in Calls /\ call[s].batch = {}
      BY <1>5 DEF SearchUids, At, CallsInOrder, TypeOK
    <2>2. PICK c : c.batch = call[s].batch /\ call' = [call EXCEPT ![s] = c]
      BY <1>5, <2>1 DEF SearchUids, Goes, Calls
    <2> QED BY <1>2, <1>5, <2>1, <2>2 DEF SearchUids
  <1>6. ASSUME NEW s \in Sessions, Fetch(s) PROVE Known(r) \/ OnServer(r)
    <2> DEFINE batch == {EnvelopeFrom(call[s], u) : u \in call[s].uids \cap DOMAIN box}
               c == [call[s] EXCEPT !.pc = "fetched", !.uids = {}, !.batch = batch]
    <2>1. call' = [call EXCEPT ![s] = c] /\ rows' = rows
      BY <1>6 DEF Fetch, Goes, index
    <2>2. call[s].uids = {} \/ call[s].seen = validity
      BY <1>6 DEF Fetch
    <2>3. c.batch = batch
      BY DEF TypeOK, Calls
    <2>4. r \in rows' \/ Known(r) \/ r \in c.batch
      BY <2>1, CallKnows
    <2>5. r \in batch => OnServer(r)
      BY <2>2 DEF EnvelopeFrom, OnServer
    <2> QED BY <2>1, <2>3, <2>4, <2>5 DEF Known
  <1>7. ASSUME NEW s \in Sessions, ApplySync(s) PROVE Known(r)
    <2>1. call' = [call EXCEPT ![s] = Idle] /\ rows' \subseteq rows \cup call[s].batch
      BY <1>7 DEF ApplySync, Goes, Upsert
    <2> QED BY <1>3, <2>1, CallKnows DEF Known
  <1>8. ASSUME NEW s \in Sessions, Fail(s) PROVE Known(r)
    BY <1>2, <1>3, <1>8 DEF Fail, Goes
  <1>9. CASE UNCHANGED vars
    BY <1>1, <1>9 DEF vars
  <1>10. CASE Deliver \/ Renew \/ \E u \in DOMAIN box : Expunge(u)
    BY <1>1, <1>10 DEF Deliver, Renew, Expunge
  <1> QED BY <1>4, <1>5, <1>6, <1>7, <1>8, <1>9, <1>10 DEF Next, SyncStep

\* No batch of any call, however late, ever puts another message under a
\* reference that is in the index.
THEOREM ReferencesStayHolds == Spec => ReferencesStay
  <1>1. Init => ReferencesAgree
    BY IdleCall DEF Init, ReferencesAgree, Known
  <1>2. IndexInv /\ ReferencesAgree /\ [Next]_vars => ReferencesAgree'
    <2> SUFFICES ASSUME IndexInv, ReferencesAgree, [Next]_vars,
                        NEW r \in Rows, NEW q \in Rows, Known(r)', Known(q)'
                 PROVE  SameMessage(r, q)
      BY DEF ReferencesAgree, SameMessage
    <2> QED BY NothingElseIsKnown, ServerAgrees
  <1>3. IndexInv /\ IndexInv' /\ ReferencesAgree /\ [Next]_vars =>
            [\A r \in rows, q \in rows' :
                r.validity = q.validity /\ r.uid = q.uid => r.message = q.message]_vars
    <2> SUFFICES ASSUME IndexInv, IndexInv', ReferencesAgree, [Next]_vars,
                        NEW r \in rows, NEW q \in rows'
                 PROVE  SameMessage(r, q)
      BY DEF SameMessage
    <2>1. r \in Rows /\ q \in Rows /\ Known(r) /\ Known(q)'
      BY DEF IndexInv, TypeOK, Known
    <2> QED BY <2>1, NothingElseIsKnown, ServerAgrees
  <1> QED BY <1>1, <1>2, <1>3, IndexInvariant, PTL DEF Spec, ReferencesStay

-----------------------------------------------------------------------------
(* Coverage.  A batch leaves no gap: with what its call was asked to go on   *)
(* from, it holds every message that it reaches over.  That is what lets     *)
(* apply_sync move the cursor without looking at what lies between.          *)

NoGap(c, uids) ==
    HighestAsked(c) # 0 \/ ~c.more =>
        \A u \in DOMAIN box : \A v \in uids : HighestAsked(c) < u /\ u <= v => u \in uids

\* A call saw no UIDVALIDITY of the future, a refresh goes on from nothing,
\* and what was searched or fetched leaves no gap while the mailbox lasts.
CallCovers(c) ==
    /\ c.seen <= validity
    /\ c.refresh => c.cursor = NoCursor
    /\ c.seen = validity /\ c.pc = "searched" =>
           NoGap(c, c.uids) /\ \A u \in c.uids : u < uidNext
    /\ c.seen = validity /\ c.pc = "fetched" => NoGap(c, UidsOf(c.batch))

CoverageInv ==
    /\ \A s \in Sessions : CallCovers(call[s])
    /\ state.validity <= validity
    /\ CoverageHonest

\* The oldest UIDs of a search leave none out below one they hold.
LEMMA OldestLeaveNoGap ==
    ASSUME NEW found \in SUBSET Uids, NEW limit \in Nat, NEW incremental \in BOOLEAN, incremental,
           NEW u \in found, NEW v \in SelectSyncUids(found, limit, incremental), u <= v
    PROVE  u \in SelectSyncUids(found, limit, incremental)
  <1> DEFINE below(w) == {x \in found : x < w}
  <1>1. v \in found /\ Cardinality(below(v)) < limit
    BY DEF SelectSyncUids
  <1>2. IsFiniteSet(Uids)
    BY FS_Interval, MessageIndexAssumption DEF Uids
  <1>3. IsFiniteSet(below(v)) /\ IsFiniteSet(below(u))
    <2>1. below(v) \in SUBSET Uids /\ below(u) \in SUBSET Uids
      OBVIOUS
    <2> HIDE DEF below
    <2> QED BY <1>2, <2>1, FS_Subset
  <1>4. below(u) \in SUBSET below(v)
    <2>1. u \in Int /\ v \in Int /\ \A x \in found : x \in Int
      BY <1>1, MessageIndexAssumption DEF Uids
    <2>2. \A x \in found : x < u => x < v
      BY <2>1
    <2> QED BY <2>2
  <1>5. Cardinality(below(u)) < limit
    <2> HIDE DEF below
    <2>1. Cardinality(below(u)) <= Cardinality(below(v))
      BY <1>3, <1>4, FS_Subset
    <2>2. Cardinality(below(u)) \in Nat /\ Cardinality(below(v)) \in Nat
      BY <1>3, FS_CardinalityType
    <2> QED BY <1>1, <2>1, <2>2
  <1> QED BY <1>5 DEF SelectSyncUids

\* A window that nothing was left out of holds everything found.
LEMMA WindowTakesAll ==
    ASSUME NEW found \in SUBSET Uids, NEW limit \in Nat, NEW incremental \in BOOLEAN,
           ~incremental, ~(Cardinality(found) > limit), NEW u \in found
    PROVE  u \in SelectSyncUids(found, limit, incremental)
  <1> DEFINE above == {x \in found : x > u}
  <1>1. IsFiniteSet(found)
    <2>1. IsFiniteSet(Uids)
      BY FS_Interval, MessageIndexAssumption DEF Uids
    <2> QED BY <2>1, FS_Subset
  <1>2. above \in SUBSET (found \ {u})
    BY MessageIndexAssumption DEF Uids
  <1>3. Cardinality(above) < limit
    <2> HIDE DEF above
    <2>1. IsFiniteSet(found \ {u}) /\ Cardinality(found \ {u}) = Cardinality(found) - 1
      BY <1>1, FS_RemoveElement
    <2>2. IsFiniteSet(above) /\ Cardinality(above) <= Cardinality(found \ {u})
      BY <1>2, <2>1, FS_Subset
    <2>3. Cardinality(above) \in Nat /\ Cardinality(found) \in Nat
      BY <1>1, <2>2, FS_CardinalityType
    <2> QED BY <2>1, <2>2, <2>3
  <1> QED BY <1>3 DEF SelectSyncUids

\* A call that changes only its own record.
LEMMA OneCallCovers ==
    ASSUME CoverageInv, UNCHANGED <<server, index, skewed>>, CallsTyped, NEW s \in Sessions, NEW c,
           call' = [call EXCEPT ![s] = c], CallCovers(c)'
    PROVE  CoverageInv'
  <1>1. UNCHANGED <<validity, box, uidNext, state, rows, skewed>>
    BY DEF server, index
  <1>2. call'[s] = c /\ \A q \in Sessions \ {s} : call'[q] = call[q]
    BY DEF CallsTyped
  <1>3. ASSUME NEW q \in Sessions PROVE CallCovers(call[q])'
    <2>1. CASE q = s
      BY <1>2, <2>1 DEF CallCovers, NoGap
    <2>2. CASE q # s
      BY <1>1, <1>2, <2>2 DEF CoverageInv, CallCovers, NoGap
    <2> QED BY <2>1, <2>2
  <1> QED BY <1>1, <1>3 DEF CoverageInv, CoverageHonest, ClaimsAll, NothingMissing

\* Nothing new is missing while the server keeps its UIDVALIDITY: a message
\* that arrives takes a UID above every cursor and every batch.
LEMMA ServerCovers ==
    ASSUME IndexInv, CoverageInv, UNCHANGED <<index, call, skewed>>, validity' = validity,
           uidNext' \in Nat, uidNext <= uidNext', DOMAIN box' \subseteq DOMAIN box \cup {uidNext}
    PROVE  CoverageInv'
  <1>1. UNCHANGED <<state, rows, call, skewed, validity>> /\ uidNext \in Nat
    BY MessageIndexAssumption DEF index, IndexInv, TypeOK
  <1>2. ASSUME NEW q \in Sessions PROVE CallCovers(call[q])'
    <2> DEFINE c == call[q]
    <2>1. CallCovers(c) /\ c \in Calls
      BY DEF CoverageInv, IndexInv, TypeOK
    <2>2. ASSUME c.seen = validity, c.pc = "searched"
          PROVE  NoGap(c, c.uids)' /\ \A u \in c.uids : u < uidNext'
      <3>1. NoGap(c, c.uids) /\ \A u \in c.uids : u < uidNext /\ u \in Nat
        BY <2>1, <2>2 DEF CallCovers, Calls, Uids
      <3> QED BY <1>1, <3>1 DEF NoGap
    <2>3. ASSUME c.seen = validity, c.pc = "fetched"
          PROVE  NoGap(c, UidsOf(c.batch))'
      <3>1. NoGap(c, UidsOf(c.batch))
        BY <2>1, <2>3 DEF CallCovers
      <3>2. \A u \in UidsOf(c.batch) : u < uidNext /\ u \in Nat
        BY <2>1, <2>3
           DEF IndexInv, EverythingFaithful, Faithful, BatchesConsistent, UidsOf, Calls, Rows, Uids
      <3> QED BY <1>1, <3>1, <3>2 DEF NoGap, UidsOf
    <2> QED BY <1>1, <2>1, <2>2, <2>3 DEF CallCovers
  <1>3. CoverageHonest'
    <2> SUFFICES ASSUME ~skewed, ClaimsAll, NEW u \in DOMAIN box', u <= state.highest
                 PROVE  u \in UidsOf(rows)
      BY <1>1 DEF CoverageHonest, ClaimsAll, NothingMissing, UidsOf
    <2>1. CASE u \in DOMAIN box
      BY <2>1 DEF CoverageInv, CoverageHonest, NothingMissing
    <2>2. CASE u = uidNext
      <3>1. state.highest \in Nat /\ IsHighest(state.highest, UidsOf(rows))
        BY MessageIndexAssumption DEF IndexInv, IndexConsistent, TypeOK, States
      <3>2. \A w \in UidsOf(rows) : w < uidNext
        BY DEF IndexInv, IndexConsistent, EverythingFaithful, Faithful, UidsOf, ClaimsAll
      <3>3. uidNext >= 1
        BY DEF IndexInv, TypeOK
      <3> QED BY <1>1, <2>2, <3>1, <3>2, <3>3 DEF IsHighest
    <2> QED BY <2>1, <2>2
  <1> QED BY <1>1, <1>2, <1>3 DEF CoverageInv

\* After a renewal nothing is claimed.
LEMMA RenewCovers ==
    ASSUME IndexInv, CoverageInv, Renew
    PROVE  CoverageInv'
  <1>1. UNCHANGED <<state, rows, call, skewed>> /\ validity' = validity + 1 /\ validity \in Nat
    BY DEF Renew, index, IndexInv, TypeOK, Validities
  <1>2. state.validity \in Nat /\ state.validity <= validity
    BY DEF CoverageInv, IndexInv, TypeOK, States
  <1>3. ASSUME NEW q \in Sessions PROVE CallCovers(call[q])'
    <2>1. CallCovers(call[q]) /\ call[q].seen \in Nat
      BY DEF CoverageInv, IndexInv, TypeOK, Calls
    <2> QED BY <1>1, <2>1 DEF CallCovers
  <1> QED BY <1>1, <1>2, <1>3 DEF CoverageInv, CoverageHonest, ClaimsAll, NothingMissing

\* sync_mailbox reads the cursor, unless it is a refresh.
LEMMA BeginCovers ==
    ASSUME IndexInv, CoverageInv, NEW s \in Sessions, NEW refresh \in BOOLEAN, NEW limit \in Limits,
           Begin(s, refresh, limit)
    PROVE  CoverageInv'
  <1>1. PICK c : c = [Idle EXCEPT !.pc = "asked", !.refresh = refresh, !.limit = limit,
                                  !.cursor = IF refresh THEN NoCursor ELSE StoredCursor]
    OBVIOUS
  <1>2. call' = [call EXCEPT ![s] = c] /\ UNCHANGED <<server, index, skewed>>
    BY <1>1 DEF Begin, Goes
  <1>3. c.pc = "asked" /\ c.seen = 0 /\ (c.refresh => c.cursor = NoCursor)
    BY <1>1 DEF Idle
  <1>4. validity' >= 0
    BY <1>2 DEF server, IndexInv, TypeOK, Validities
  <1>5. CallCovers(c)'
    BY <1>3, <1>4 DEF CallCovers
  <1> QED BY <1>2, <1>5, OneCallCovers DEF IndexInv

\* A call that ends without an effect on the index.
LEMMA FailCovers ==
    ASSUME IndexInv, CoverageInv, NEW s \in Sessions, Fail(s)
    PROVE  CoverageInv'
  <1>1. call' = [call EXCEPT ![s] = Idle] /\ UNCHANGED <<server, index, skewed>>
    BY DEF Fail, Goes
  <1>2. CallCovers(Idle)'
    BY <1>1 DEF CallCovers, Idle, server, IndexInv, TypeOK, Validities
  <1> QED BY <1>1, <1>2, OneCallCovers DEF IndexInv

\* UID SEARCH: either everything above the cursor up to some UID, or, when
\* nothing is left for another call, everything.
LEMMA SearchUidsCovers ==
    ASSUME IndexInv, CoverageInv, NEW s \in Sessions, SearchUids(s)
    PROVE  CoverageInv'
  <1>1. PICK d : d = [call[s] EXCEPT !.seen = validity]
    OBVIOUS
  <1>2. PICK h : h = HighestAsked(d)
    OBVIOUS
  <1>3. PICK found : found = IF h = MaxUid THEN {} ELSE SyncSearchKeys(h)
    OBVIOUS
  <1>4. PICK uids : uids = SelectSyncUids(found, d.limit, h # 0)
    OBVIOUS
  <1>5. PICK c : c = [d EXCEPT !.pc = "searched", !.uids = uids,
                               !.more = Cardinality(found) > d.limit]
    OBVIOUS
  <1>6. call' = [call EXCEPT ![s] = c] /\ UNCHANGED <<server, index, skewed>>
    BY <1>1, <1>2, <1>3, <1>4, <1>5 DEF SearchUids, Goes
  <1>7. call[s] \in Calls /\ CallCovers(call[s]) /\ validity \in Nat
    BY DEF IndexInv, TypeOK, CoverageInv, Validities
  <1>8. /\ d.seen = validity /\ d.limit = call[s].limit /\ d.cursor = call[s].cursor
        /\ d.refresh = call[s].refresh
    BY <1>1, <1>7 DEF Calls
  <1>9. /\ c.pc = "searched" /\ c.seen = validity /\ c.cursor = d.cursor
        /\ c.refresh = d.refresh /\ c.uids = uids /\ c.more = (Cardinality(found) > d.limit)
    BY <1>1, <1>5, <1>7, <1>8 DEF Calls
  <1>10. d.limit \in Nat /\ h \in 0..MaxUid /\ MaxUid \in Nat
    <2>1. d.limit \in Nat /\ MaxUid \in Nat
      <3>1. d.limit \in Limits \cup {0}
        BY <1>7, <1>8 DEF Calls
      <3>2. (\A n \in Limits \cup {0} : n \in Nat) /\ MaxUid \in Nat
        BY MessageIndexAssumption
      <3> QED BY <3>1, <3>2
    <2>2. d.cursor.highest \in 0..MaxUid
      BY <1>7, <1>8 DEF Calls, Cursors
    <2> QED BY <1>2, <2>1, <2>2 DEF HighestAsked
  <1>11. HighestAsked(c) = h
    BY <1>2, <1>8, <1>9 DEF HighestAsked, ResetRequired
  <1>12. found \in SUBSET DOMAIN box /\ DOMAIN box \subseteq Uids /\ uids \subseteq found
    BY <1>3, <1>4 DEF SyncSearchKeys, SearchAll, SearchFrom, SelectSyncUids, IndexInv, TypeOK
  <1>13. \A u \in uids : u < uidNext
    BY <1>12 DEF IndexInv, TypeOK
  <1>14. \A u \in DOMAIN box : h < u => u \in found
    <2>1. \A u \in DOMAIN box : u \in Nat /\ u <= MaxUid
      BY <1>10, <1>12 DEF Uids
    <2> QED BY <1>3, <1>10, <2>1 DEF SyncSearchKeys, SearchAll, SearchFrom
  <1>15. NoGap(c, uids)
    <2> SUFFICES ASSUME h # 0 \/ ~(Cardinality(found) > d.limit), NEW u \in DOMAIN box,
                        NEW v \in uids, h < u, u <= v
                 PROVE  u \in uids
      BY <1>9, <1>11 DEF NoGap
    <2>1. u \in found /\ found \in SUBSET Uids
      BY <1>12, <1>14
    <2>2. PICK incremental \in BOOLEAN : incremental = (h # 0)
      OBVIOUS
    <2>3. uids = SelectSyncUids(found, d.limit, incremental)
      BY <1>4, <2>2
    <2>4. CASE incremental
      BY <1>10, <2>1, <2>3, <2>4, OldestLeaveNoGap
    <2>5. CASE ~incremental
      BY <1>10, <2>1, <2>2, <2>3, <2>5, WindowTakesAll
    <2> QED BY <2>4, <2>5
  <1>16. CallCovers(c)'
    <2>1. UNCHANGED <<validity, box, uidNext>>
      BY <1>6 DEF server
    <2>2. c.refresh => c.cursor = NoCursor
      BY <1>7, <1>8, <1>9 DEF CallCovers
    <2> QED BY <1>7, <1>9, <1>13, <1>15, <2>1, <2>2 DEF CallCovers, NoGap
  <1> QED BY <1>6, <1>16, OneCallCovers DEF IndexInv

\* Only what was expunged since the search is missing from the batch.
LEMMA FetchCovers ==
    ASSUME IndexInv, CoverageInv, NEW s \in Sessions, Fetch(s)
    PROVE  CoverageInv'
  <1>1. PICK d : d = call[s]
    OBVIOUS
  <1>2. PICK batch : batch = {EnvelopeFrom(d, u) : u \in d.uids \cap DOMAIN box}
    OBVIOUS
  <1>3. PICK c : c = [d EXCEPT !.pc = "fetched", !.uids = {}, !.batch = batch]
    OBVIOUS
  <1>4. /\ d.pc = "searched" /\ call' = [call EXCEPT ![s] = c]
        /\ UNCHANGED <<server, index, skewed>>
    BY <1>1, <1>2, <1>3 DEF Fetch, Goes, At
  <1>5. d \in Calls /\ CallCovers(d)
    BY <1>1 DEF IndexInv, TypeOK, CoverageInv
  <1>6. /\ c.pc = "fetched" /\ c.seen = d.seen /\ c.cursor = d.cursor /\ c.refresh = d.refresh
        /\ c.more = d.more /\ c.batch = batch
    BY <1>3, <1>5 DEF Calls
  <1>7. UidsOf(batch) = d.uids \cap DOMAIN box
    <2>1. \A u : EnvelopeFrom(d, u).uid = u
      BY DEF EnvelopeFrom
    <2>2. \A r \in batch : r.uid \in d.uids \cap DOMAIN box
      BY <1>2, <2>1
    <2>3. \A u \in d.uids \cap DOMAIN box : \E r \in batch : r.uid = u
      BY <1>2, <2>1
    <2> QED BY <2>2, <2>3 DEF UidsOf
  <1>8. HighestAsked(c) = HighestAsked(d)
    BY <1>6 DEF HighestAsked, ResetRequired
  <1>9. c.seen = validity => NoGap(c, UidsOf(batch))
    BY <1>4, <1>5, <1>6, <1>7, <1>8 DEF CallCovers, NoGap
  <1>10. CallCovers(c)'
    <2>1. UNCHANGED <<validity, box, uidNext>>
      BY <1>4 DEF server
    <2> QED BY <1>5, <1>6, <1>9, <2>1 DEF CallCovers, NoGap
  <1> QED BY <1>4, <1>10, OneCallCovers DEF IndexInv

\* apply_sync moves the cursor over messages that the batch holds, if the
\* batch was asked for the state it meets.
LEMMA ApplySyncCovers ==
    ASSUME IndexInv, CoverageInv, NEW s \in Sessions, ApplySync(s)
    PROVE  CoverageInv'
  <1>1. PICK c : c = call[s]
    OBVIOUS
  <1>2. PICK h \in 0..MaxUid :
            /\ IsHighest(h, UidsOf(c.batch))
            /\ state' = [validity |-> c.seen, highest |-> NextHighest(c, h),
                         complete |-> IF Reset(c) \/ state = NoState THEN ~c.more
                                      ELSE state.complete]
    BY <1>1 DEF ApplySync
  <1>3. /\ c.pc = "fetched" /\ call' = [call EXCEPT ![s] = Idle]
        /\ rows' = IF Reset(c) THEN c.batch ELSE Upsert(c.batch)
        /\ skewed' = (skewed \/ Skews(c))
        /\ UNCHANGED <<validity, box, uidNext>>
    BY <1>1 DEF ApplySync, At, Goes, server
  <1>4. /\ state'.validity = c.seen /\ state'.highest = NextHighest(c, h)
        /\ state'.complete = IF Reset(c) \/ state = NoState THEN ~c.more ELSE state.complete
    BY <1>2
  <1>5. c \in Calls /\ CallCovers(c) /\ h \in Nat /\ state \in States /\ validity \in Nat
    BY <1>1 DEF IndexInv, TypeOK, CoverageInv, Validities
  <1>6. ASSUME NEW q \in Sessions PROVE CallCovers(call[q])'
    <2>1. CASE q = s
      <3>1. call'[q] = Idle
        BY <1>3, <2>1 DEF IndexInv, CallsTyped
      <3> QED BY <1>3, <1>5, <3>1 DEF CallCovers, Idle
    <2>2. CASE q # s
      <3>1. call'[q] = call[q]
        BY <1>3, <2>2 DEF IndexInv, CallsTyped
      <3> QED BY <1>3, <3>1 DEF CoverageInv, CallCovers, NoGap
    <2> QED BY <2>1, <2>2
  <1>7. CoverageHonest'
    <2> SUFFICES ASSUME ~skewed, ~Skews(c), state'.complete, c.seen = validity,
                        NEW u \in DOMAIN box, u <= state'.highest
                 PROVE  u \in UidsOf(rows')
      BY <1>3, <1>4 DEF CoverageHonest, ClaimsAll, NothingMissing, UidsOf
    <2>1. u \in Nat \ {0} /\ state.highest \in Nat
      BY MessageIndexAssumption, <1>5 DEF IndexInv, TypeOK, Uids, States
    <2>2. NoGap(c, UidsOf(c.batch))
      BY <1>3, <1>5 DEF CallCovers
    <2>3. h # 0 => h \in UidsOf(c.batch)
      BY <1>2 DEF IsHighest
    <2>4. state.validity = 0 => rows = {} /\ state.highest = 0
      <3>1. state.validity = 0 => rows = {}
        BY DEF IndexInv, IndexConsistent, TypeOK, Rows, Validities
      <3> QED BY <3>1 DEF IndexInv, IndexConsistent, IsHighest, UidsOf
    <2>5. HighestAsked(c) # 0 =>
              /\ HighestAsked(c) = state.highest /\ state.validity = c.seen
              /\ ~c.refresh /\ ~ResetRequired(c)
      <3> SUFFICES ASSUME HighestAsked(c) # 0
                   PROVE  /\ HighestAsked(c) = state.highest /\ state.validity = c.seen
                          /\ ~c.refresh /\ ~ResetRequired(c)
        OBVIOUS
      <3>1. ~ResetRequired(c) /\ HighestAsked(c) = c.cursor.highest
        BY DEF HighestAsked
      <3>2. c.cursor.validity = state.validity /\ c.cursor.highest = state.highest
        BY DEF Skews, StoredCursor
      <3>3. c.cursor.validity = c.seen
        BY <2>4, <3>1, <3>2 DEF ResetRequired
      <3>4. ~c.refresh
        BY <1>5, <3>1 DEF CallCovers, NoCursor
      <3> QED BY <3>1, <3>2, <3>3, <3>4
    <2>6. CASE Reset(c) \/ state = NoState
      <3>1. ~c.more /\ HighestAsked(c) = 0
        <4>1. ~c.more
          BY <1>4, <2>6
        <4>2. HighestAsked(c) # 0 => state # NoState
          BY <2>5 DEF NoState
        <4> QED BY <2>5, <2>6, <4>1, <4>2 DEF Reset
      <3>2. u <= h
        <4>1. Reset(c) \/ state.highest = 0
          BY <2>6 DEF NoState
        <4> QED BY <1>4, <1>5, <2>1, <4>1 DEF NextHighest
      <3>3. u \in UidsOf(c.batch)
        BY <1>5, <2>1, <2>2, <2>3, <3>1, <3>2 DEF NoGap
      <3> QED BY <1>3, <3>3 DEF UidsOf, Upsert
    <2>7. CASE ~Reset(c) /\ state # NoState
      <3>1. state.validity = validity /\ state.complete
        BY <1>4, <2>7 DEF Reset
      <3>2. \A w \in DOMAIN box : w <= state.highest => w \in UidsOf(rows)
        BY <3>1 DEF CoverageInv, CoverageHonest, ClaimsAll, NothingMissing
      <3>3. UidsOf(rows) \subseteq UidsOf(rows') /\ UidsOf(c.batch) \subseteq UidsOf(rows')
        <4>1. rows' = c.batch \cup
                  {x \in rows : \A b \in c.batch : <<b.validity, b.uid>> # <<x.validity, x.uid>>}
          BY <1>3, <2>7 DEF Upsert
        <4>2. \A x \in rows : \E y \in rows' : y.uid = x.uid
          BY <4>1
        <4> QED BY <4>1, <4>2 DEF UidsOf
      <3>4. HighestAsked(c) # 0 \/ ~c.more
        BY <2>7 DEF Skews
      <3>5. CASE u > state.highest
        <4>1. HighestAsked(c) < u /\ u <= h
          BY <1>4, <1>5, <2>1, <2>5, <3>5 DEF NextHighest
        <4> QED BY <1>5, <2>1, <2>2, <2>3, <3>3, <3>4, <4>1 DEF NoGap
      <3> QED BY <2>1, <3>2, <3>3, <3>5
    <2> QED BY <2>6, <2>7
  <1>8. state'.validity <= validity'
    BY <1>3, <1>4, <1>5 DEF CallCovers
  <1> QED BY <1>6, <1>7, <1>8 DEF CoverageInv

\* A complete window and a cursor mean that nothing below the cursor is
\* missing, however calls of any number of processes interleave, as long as
\* every batch met the state it was asked for.
THEOREM CoverageHonestHolds == Spec => []CoverageHonest
  <1>1. Init => CoverageInv
    BY DEF Init, CoverageInv, CallCovers, CoverageHonest, ClaimsAll, NothingMissing, Idle, NoState
  <1>2. ASSUME IndexInv, IndexInv', CoverageInv, [Next]_vars PROVE CoverageInv'
    <2>1. CASE UNCHANGED vars
      <3>1. UNCHANGED <<validity, box, uidNext, state, rows, call, skewed>>
        BY <2>1 DEF vars, server, index
      <3> QED BY <1>2, <3>1
              DEF CoverageInv, CallCovers, NoGap, CoverageHonest, ClaimsAll, NothingMissing, UidsOf
    <2>2. uidNext \in Nat /\ uidNext' \in Nat
      BY <1>2 DEF IndexInv, TypeOK
    <2>3. CASE Deliver
      BY <1>2, <2>2, <2>3, ServerCovers DEF Deliver
    <2>4. ASSUME NEW u \in DOMAIN box, Expunge(u) PROVE CoverageInv'
      BY <1>2, <2>2, <2>4, ServerCovers DEF Expunge
    <2> QED BY <1>2, <2>1, <2>3, <2>4, RenewCovers, BeginCovers, SearchUidsCovers, FetchCovers,
               ApplySyncCovers, FailCovers DEF Next, SyncStep
  <1>3. CoverageInv => CoverageHonest
    BY DEF CoverageInv
  <1> QED BY <1>1, <1>2, <1>3, IndexInvariant, PTL DEF Spec

=============================================================================

---------------------------- MODULE MessageIndex ----------------------------
(***************************************************************************)
(* The local message index of one mailbox (SqliteMessageIndex), filled by  *)
(* sync calls of concurrent processes (KirjeRuntime::sync_mailbox over     *)
(* PimalayaImapReader::sync_mailbox), against a server that delivers and   *)
(* expunges messages and may renew the mailbox under another UIDVALIDITY.  *)
(*                                                                         *)
(* A sync reads the stored cursor in one transaction, talks to the server  *)
(* command by command, and applies its batch in another transaction that   *)
(* does not look at the cursor the batch was asked for.  A message is      *)
(* named by the order of its delivery, so that a UID used again after a    *)
(* renewal can be told from the message it named before.                   *)
(***************************************************************************)
EXTENDS Integers, FiniteSets

CONSTANTS
    Sessions,     \* concurrent sync calls
    Keeper,       \* the one that keeps syncing
    Limits,       \* batch limits that callers ask for
    MaxUid,       \* u32::MAX
    MaxMessages,  \* bound on the messages delivered
    MaxExpunged,  \* bound on the messages expunged
    MaxValidity   \* bound on the UIDVALIDITY values of the server

ASSUME MessageIndexAssumption ==
    /\ Keeper \in Sessions
    /\ Limits \subseteq Nat \ {0}
    /\ MaxUid \in Nat \ {0}
    /\ MaxMessages \in Nat
    /\ MaxExpunged \in Nat
    /\ MaxValidity \in Nat \ {0}

VARIABLES
    validity,   \* server: UIDVALIDITY of the mailbox
    box,        \* server: the messages by UID
    uidNext,    \* server: the next UID
    delivered,  \* server: how many messages ever arrived
    state,      \* index: the row of mailbox_sync_state
    rows,       \* index: the rows of messages
    call,       \* what each sync call has done so far
    skewed      \* history: a batch met a state it was not asked for

server == <<validity, box, uidNext, delivered>>
index == <<state, rows>>
vars == <<server, index, call, skewed>>

Uids == 1..MaxUid
Messages == 1..MaxMessages
Validities == 1..MaxValidity

\* highest_uid and the cursor: 0 stands for none, as UIDs and UIDVALIDITY
\* values are positive.
Cursors == [validity : 0..MaxValidity, highest : 0..MaxUid]
NoCursor == [validity |-> 0, highest |-> 0]

\* No row of mailbox_sync_state has validity 0.
NoState == [validity |-> 0, highest |-> 0, complete |-> FALSE]
States == [validity : 0..MaxValidity, highest : 0..MaxUid, complete : BOOLEAN]
Rows == [validity : Validities, uid : Uids, message : Messages]

Points == {"idle", "asked", "searched", "fetched"}
Idle == [pc |-> "idle", refresh |-> FALSE, limit |-> 0, cursor |-> NoCursor,
         seen |-> 0, uids |-> {}, more |-> FALSE, batch |-> {}]

Init ==
    /\ validity = 1
    /\ box = [u \in {} |-> 0]
    /\ uidNext = 1
    /\ delivered = 0
    /\ state = NoState
    /\ rows = {}
    /\ call = [s \in Sessions |-> Idle]
    /\ skewed = FALSE

-----------------------------------------------------------------------------
(* The server.                                                               *)

Deliver ==
    /\ delivered < MaxMessages
    /\ uidNext <= MaxUid
    /\ delivered' = delivered + 1
    /\ box' = [u \in DOMAIN box \cup {uidNext} |->
                  IF u = uidNext THEN delivered' ELSE box[u]]
    /\ uidNext' = uidNext + 1
    /\ UNCHANGED <<validity, index, call, skewed>>

Expunge(u) ==
    /\ delivered - Cardinality(DOMAIN box) < MaxExpunged
    /\ box' = [v \in DOMAIN box \ {u} |-> box[v]]
    /\ UNCHANGED <<validity, uidNext, delivered, index, call, skewed>>

\* The mailbox is recreated: its messages keep their order and get new UIDs.
Renew ==
    /\ validity < MaxValidity
    /\ validity' = validity + 1
    /\ \E n \in 0..MaxUid : \E old \in [1..n -> DOMAIN box] :
           /\ \A i, j \in 1..n : i < j => old[i] < old[j]
           /\ \A u \in DOMAIN box : \E i \in 1..n : old[i] = u
           /\ box' = [i \in 1..n |-> box[old[i]]]
           /\ uidNext' = n + 1
    /\ UNCHANGED <<delivered, index, call, skewed>>

\* UID SEARCH ALL, and UID SEARCH n:*, which always matches the last message
\* because "*" names it and a range may be given in either order.
SearchAll == DOMAIN box
SearchFrom(n) ==
    {u \in DOMAIN box : u >= n \/ \A v \in DOMAIN box : v <= u}

-----------------------------------------------------------------------------
(* One sync call.                                                            *)

At(s, p) == call[s].pc = p
Goes(s, c) == call' = [call EXCEPT ![s] = c]

StoredCursor == [validity |-> state.validity, highest |-> state.highest]

\* The cursor is read, or ignored by a refresh, in a transaction of its own.
Begin(s, refresh, limit) ==
    /\ At(s, "idle")
    /\ Goes(s, [Idle EXCEPT !.pc = "asked", !.refresh = refresh, !.limit = limit,
                            !.cursor = IF refresh THEN NoCursor ELSE StoredCursor])
    /\ UNCHANGED <<server, index, skewed>>

ResetRequired(c) == c.cursor.validity # 0 /\ c.cursor.validity # c.seen
HighestAsked(c) == IF ResetRequired(c) THEN 0 ELSE c.cursor.highest

\* Mutant: an incremental sync takes the newest UIDs too.
SelectNewestUids(uids, limit, incremental) ==
    {u \in uids : Cardinality({v \in uids : v > u}) < limit}

\* The oldest UIDs for an incremental sync, the newest ones for a window.
SelectSyncUids(uids, limit, incremental) ==
    {u \in uids : Cardinality({v \in uids : IF incremental THEN v < u ELSE v > u}) < limit}

\* Everything without a cursor, and what is above it otherwise.
SyncSearchKeys(h) == IF h = 0 THEN SearchAll ELSE SearchFrom(h + 1)

\* Connect, EXAMINE and UID SEARCH.  They are one step: of what lies between
\* the two commands a call only notices a renewal, and then it fails.
SearchUids(s) ==
    LET c == [call[s] EXCEPT !.seen = validity]
        h == HighestAsked(c)
        found == IF h = MaxUid THEN {} ELSE SyncSearchKeys(h)
    IN  /\ At(s, "asked")
        /\ Goes(s, [c EXCEPT !.pc = "searched",
                             !.uids = SelectSyncUids(found, c.limit, h # 0),
                             !.more = Cardinality(found) > c.limit])
        /\ UNCHANGED <<server, index, skewed>>

\* Mutant: the reference is labelled with the UIDVALIDITY that was asked for.
EnvelopeAsAsked(c, u) ==
    [validity |-> IF c.cursor.validity = 0 THEN c.seen ELSE c.cursor.validity,
     uid |-> u, message |-> box[u]]

\* The reference of a message, under the UIDVALIDITY that the call saw.
EnvelopeFrom(c, u) == [validity |-> c.seen, uid |-> u, message |-> box[u]]

\* Messages expunged since the search are missing from the answer.
Fetch(s) ==
    LET c == call[s]
    IN  /\ At(s, "searched")
        /\ c.uids = {} \/ c.seen = validity
        /\ Goes(s, [c EXCEPT !.pc = "fetched", !.uids = {},
                             !.batch = {EnvelopeFrom(c, u) : u \in c.uids \cap DOMAIN box}])
        /\ UNCHANGED <<server, index, skewed>>

\* A call may end with an error or with its process: no credentials, no
\* connection, a mailbox renewed while it was selected, a busy database.
Fail(s) ==
    /\ ~At(s, "idle")
    /\ Goes(s, Idle)
    /\ UNCHANGED <<server, index, skewed>>

-----------------------------------------------------------------------------
(* apply_sync: the batch and the new cursor in one transaction.              *)

IsHighest(h, uids) ==
    IF uids = {} THEN h = 0 ELSE h \in uids /\ \A u \in uids : u <= h

UidsOf(batch) == {r.uid : r \in batch}

\* Mutant: only the caller's flag resets, not the stored UIDVALIDITY.
ResetIfAsked(c) == c.refresh \/ ResetRequired(c)

Reset(c) ==
    \/ c.refresh
    \/ ResetRequired(c)
    \/ state # NoState /\ state.validity # c.seen

\* ON CONFLICT DO UPDATE on the identity of the row.
Upsert(batch) ==
    batch \cup {r \in rows : \A b \in batch : <<b.validity, b.uid>> # <<r.validity, r.uid>>}

\* Mutant: the cursor is set by a reset only.
HighestKept(c, h) == IF Reset(c) THEN h ELSE state.highest

\* Mutant: the cursor names the next UID to ask for.
HighestPlusOne(c, h) == h + 1

NextHighest(c, h) ==
    IF Reset(c) \/ h > state.highest THEN h ELSE state.highest

\* A batch asked for above a cursor that is no longer stored, or a window
\* with a backlog that is merged into a state that exists already: one of a
\* call that overlaps, or of a sync that found the mailbox empty.
Skews(c) ==
    \/ HighestAsked(c) # 0 /\ StoredCursor # c.cursor
    \/ HighestAsked(c) = 0 /\ c.more /\ state # NoState /\ ~Reset(c)

ApplySync(s) ==
    LET c == call[s]
    IN  /\ At(s, "fetched")
        /\ \E h \in 0..MaxUid :
               /\ IsHighest(h, UidsOf(c.batch))
               /\ state' = [validity |-> c.seen,
                            highest  |-> NextHighest(c, h),
                            complete |-> IF Reset(c) \/ state = NoState
                                         THEN ~c.more ELSE state.complete]
        /\ rows' = IF Reset(c) THEN c.batch ELSE Upsert(c.batch)
        /\ skewed' = (skewed \/ Skews(c))
        /\ Goes(s, Idle)
        /\ UNCHANGED server

-----------------------------------------------------------------------------
(* Search of the index, and reading a message by a reference found there.    *)

LocalSearch == rows

\* Mutant: ensure_uid_validity is left out.
AnyUidValidity(r) == TRUE

EnsureUidValidity(r) == r.validity = validity

\* What reading the reference returns: no message if it is refused or gone.
ReadMessage(r) ==
    {box[u] : u \in {v \in DOMAIN box : EnsureUidValidity(r) /\ v = r.uid}}

-----------------------------------------------------------------------------
SyncStep(s) ==
    \/ \E refresh \in BOOLEAN, limit \in Limits : Begin(s, refresh, limit)
    \/ SearchUids(s)
    \/ Fetch(s)
    \/ ApplySync(s)

Next ==
    \/ Deliver
    \/ \E u \in DOMAIN box : Expunge(u)
    \/ Renew
    \/ \E s \in Sessions : SyncStep(s) \/ Fail(s)

Spec == Init /\ [][Next]_vars

\* One caller keeps syncing, each of its calls ends (its connection answers or
\* breaks, or the user stops it), and what it can do again and again does not
\* fail for ever.  Nothing is assumed of what the server's mailbox does or of
\* the other callers.
FairSpec ==
    /\ Spec
    /\ WF_vars(SyncStep(Keeper) \/ Fail(Keeper))
    /\ SF_vars(SearchUids(Keeper))
    /\ SF_vars(Fetch(Keeper))
    /\ SF_vars(ApplySync(Keeper))

-----------------------------------------------------------------------------
(* Properties.                                                               *)

Calls ==
    [pc : Points, refresh : BOOLEAN, limit : Limits \cup {0}, cursor : Cursors,
     seen : 0..MaxValidity, uids : SUBSET Uids, more : BOOLEAN, batch : SUBSET Rows]

\* Server, index rows and calls have their types; the cursor of the index
\* stays a UID, up to the largest one.
TypeOK ==
    /\ validity \in Validities
    /\ DOMAIN box \subseteq Uids
    /\ \A u \in DOMAIN box : box[u] \in Messages /\ u < uidNext
    /\ uidNext \in 1..(MaxUid + 1)
    /\ delivered \in 0..MaxMessages
    /\ state \in States
    /\ rows \subseteq Rows
    /\ \A s \in Sessions : call[s] \in Calls
    /\ skewed \in BOOLEAN

\* Every row belongs to the UIDVALIDITY of the stored cursor, a UID has one
\* row, and the cursor stands at the highest indexed UID, whatever the order
\* in which late batches of other calls are applied.
IndexConsistent ==
    /\ \A r \in rows : r.validity = state.validity
    /\ \A r1, r2 \in rows : r1.uid = r2.uid => r1 = r2
    /\ IsHighest(state.highest, UidsOf(rows))

\* The index claims to hold everything up to its cursor.
ClaimsAll == state.complete /\ state.validity = validity

NothingMissing == \A u \in DOMAIN box : u <= state.highest => u \in UidsOf(rows)

\* A complete initial window and a cursor mean that no message of the server
\* up to the cursor is missing from the index, unless a batch met a state it
\* was not asked for.
CoverageHonest == ~skewed /\ ClaimsAll => NothingMissing

\* A reference found in the index is read as the message that was indexed or
\* not at all, however long ago it was indexed and whatever the server did
\* since.
ReadsWhatWasIndexed == \A r \in LocalSearch : ReadMessage(r) \subseteq {r.message}

\* A reference that stays in the index stays the reference of its message: no
\* batch, however late it is applied and whatever mailbox it was fetched from,
\* puts another message under the UIDVALIDITY and UID of an indexed one.
ReferencesStay ==
    [][\A r \in rows, q \in rows' :
          r.validity = q.validity /\ r.uid = q.uid => r.message = q.message]_vars

\* When the server falls silent, the cursor reaches the last message under
\* the current UIDVALIDITY and stays there: no late batch of an old
\* UIDVALIDITY, no refresh and no expunge keeps it behind for ever.
CaughtUp ==
    /\ state.validity = validity
    /\ \A u \in DOMAIN box : u <= state.highest
CursorCatchesUp == <>[]CaughtUp

=============================================================================

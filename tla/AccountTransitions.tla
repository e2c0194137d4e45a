-------------------------- MODULE AccountTransitions --------------------------
(***************************************************************************)
(* Account and credential transitions of one registered store in the      *)
(* authority journal of kirje-store (AuthorityStore).  An authorized       *)
(* transition is prepared, the caller replaces the configuration file, and *)
(* observations of that file commit, finalize, abort or freeze the         *)
(* transition.  A finalized update or removal leaves credential cleanups,  *)
(* which are claimed and then carried out against the system keyring.      *)
(*                                                                         *)
(* Every call holds the exclusive apply lock, validates the whole journal  *)
(* and commits one transaction or changes nothing.  Each committing path   *)
(* is an action; calls that only read or refuse are no steps.              *)
(*                                                                         *)
(* A credential, a grant and a receipt are fresh random identifiers named  *)
(* here by the transition that introduced them, and the binding digest by  *)
(* its credential: an update changes both, nothing else changes either.    *)
(* Clocks and expiry are the subject of module Authorization.              *)
(***************************************************************************)
EXTENDS Integers, Sequences, FiniteSets

CONSTANTS
    Accounts,       \* account identifiers
    DisplayOf,      \* the display id an account would be created under
    Transitions,    \* transition identifiers
    Contents,       \* configuration digests
    InitialContent, \* the digest the store was enrolled with
    MaxOther,       \* bound on journal events of calls about other stores
    None            \* no transition, account or content

ASSUME TransitionsAssumption ==
    /\ DOMAIN DisplayOf = Accounts
    /\ IsFiniteSet(Transitions)
    /\ InitialContent \in Contents
    /\ MaxOther \in Nat
    /\ None \notin Accounts \cup Transitions \cup Contents
    /\ Transitions \cap (Transitions \X {"active_v2", "legacy_v1"}) = {}

VARIABLES
    store,          \* the registered_stores row: state and config pair
    account,        \* registered_accounts
    transition,     \* account_transitions, with the snapshots it authorizes
    storeVersion,   \* registered_store_versions, by committing transition
    accountVersion, \* registered_account_versions, by committing transition
    cleanup,        \* credential_cleanup: state of a transition's locators
    erased,         \* cleanups whose keyring entry was deleted
    permit,         \* the CleanupDeletePermit a process holds, with the lock
    journal         \* authority_events after the store's enrollment

vars == <<store, account, transition, storeVersion, accountVersion, cleanup,
          erased, permit, journal>>

AccountTransitionKind == {"create", "update", "remove", "set", "delete"}
LocatorKind == {"active_v2", "legacy_v1"}

Pair(g, c) == [generation |-> g, content |-> c]
Snapshot(g, c) == [generation |-> g, credential |-> c]
InitialPair == Pair(1, InitialContent)
NoPair == Pair(0, None)
NoSnapshot == Snapshot(0, None)

NoAccount == [state |-> "absent", snapshot |-> NoSnapshot, authorized |-> None,
              active |-> None]
NoTransition == [state |-> "absent", kind |-> None, account |-> None,
                 expected |-> NoPair, next |-> NoPair, before |-> NoSnapshot,
                 after |-> NoSnapshot, committed |-> FALSE]

Init ==
    /\ store = [state |-> "active", pair |-> InitialPair]
    /\ account = [a \in Accounts |-> NoAccount]
    /\ transition = [t \in Transitions |-> NoTransition]
    /\ storeVersion = [t \in Transitions |-> NoPair]
    /\ accountVersion = [t \in Transitions |-> NoSnapshot]
    /\ cleanup = [t \in Transitions |-> [k \in LocatorKind |-> "none"]]
    /\ erased = {}
    /\ permit = None
    /\ journal = <<>>

-----------------------------------------------------------------------------
(* Rows and events.                                                          *)

Stored(t) == transition[t].state # "absent"
Open(t) == transition[t].state \in {"prepared", "config_committed"}
Live(a) == account[a].state \in {"proposed", "active", "blocked"}
Generation(t) == transition[t].after.generation

Event(code, id, pair) == [code |-> code, id |-> id, pair |-> pair]
CleanupEvent(code, c) == Event(code, c, NoPair)
Positions(code, id) ==
    {i \in DOMAIN journal : journal[i].code = code /\ journal[i].id = id}
Once(code, id) == Cardinality(Positions(code, id)) = 1
Position(code, id) ==
    CHOOSE i \in DOMAIN journal : journal[i].code = code /\ journal[i].id = id

\* expected_delete_only_locator: the v2 entry belongs to the credential the
\* account had before the transition, the v1 entry to the display id.
LocatorOf(a, before, k) ==
    IF k = "active_v2" THEN <<a, before.credential>> ELSE <<DisplayOf[a]>>

\* Mutant: the locator of the credential the transition brings in.
LocatorOfNew(t, k) ==
    LocatorOf(transition[t].account, transition[t].after, k)

Locator(t, k) == LocatorOf(transition[t].account, transition[t].before, k)

-----------------------------------------------------------------------------
(* load_snapshot: the part of the history validation that reads transitions. *)

\* validate_current_account_for_transition
ValidCurrentAccount(t) ==
    LET r == transition[t]
        a == account[r.account]
        restored == r.kind # "create" /\ r.state = "aborted"
        parents == {u \in Transitions : /\ transition[u].account = r.account
                                        /\ accountVersion[u] # NoSnapshot
                                        /\ accountVersion[u].generation = r.before.generation}
    IN  /\ a.snapshot = IF restored THEN r.before ELSE r.after
        /\ IF restored THEN a.authorized \in parents ELSE a.authorized = t
        /\ a.active = IF r.state \in {"finalized", "aborted"} THEN None ELSE t
        /\ a.state = CASE Open(t) -> IF r.kind = "create" THEN "proposed" ELSE "blocked"
                       [] r.state = "finalized" -> IF r.kind = "remove" THEN "removed" ELSE "active"
                       [] r.state = "aborted" -> IF r.kind = "create" THEN "removed" ELSE "active"
                       [] OTHER -> "blocked"

\* A later transition of the same account hides the current row from t; it
\* is recognised by the configuration generation it starts from.
Successors(t) ==
    {u \in Transitions \ {t} :
        /\ transition[u].account = transition[t].account
        /\ transition[u].expected.generation >= transition[t].next.generation}

\* validate_account_mutation_parent
ValidParent(t) ==
    LET r == transition[t]
    IN  /\ \E u \in Transitions :
              /\ transition[u].account = r.account
              /\ transition[u].state = "finalized"
              /\ accountVersion[u] = r.before
        /\ r.expected \in {InitialPair} \cup {storeVersion[u] : u \in Transitions}

\* validate_transition_cleanup
ValidCleanup(t, k) ==
    LET s == cleanup[t][k]
    IN  s # "none" =>
        /\ IF transition[t].state = "finalized"
           THEN s \in {"ready", "claimed", "deleted"} ELSE s = "provisional"
        /\ Cardinality(Positions("ready", <<t, k>>)) = (IF s = "provisional" THEN 0 ELSE 1)
        /\ Cardinality(Positions("claimed", <<t, k>>)) = (IF s \in {"claimed", "deleted"} THEN 1 ELSE 0)
        /\ Cardinality(Positions("deleted", <<t, k>>)) = (IF s = "deleted" THEN 1 ELSE 0)

\* The last event before the transition's terminal one.
Previous(t) ==
    Position(IF transition[t].committed THEN "config_committed" ELSE "prepared", t)

\* validate_terminal_transition_pair: an abort has to follow its prepare
\* immediately, a recovery only has to come later.
ValidTerminal(t) ==
    LET terminal == Position(transition[t].state, t)
    IN  CASE transition[t].state = "finalized" ->
               /\ terminal > Previous(t) /\ terminal < Len(journal)
               /\ journal[terminal + 1] = Event("unblocked", t, NoPair)
          [] transition[t].state = "aborted" ->
               /\ terminal = Previous(t) + 1 /\ terminal < Len(journal)
               /\ journal[terminal + 1] = Event("unblocked", t, NoPair)
          [] transition[t].state = "recovery_required" ->
               /\ terminal - 1 > Previous(t)
               /\ journal[terminal] = Event("recovery_required", t, store.pair)
               /\ journal[terminal - 1] = Event("recovered", t, store.pair)

\* validate_transition_events
ValidTransitionEvents(t) ==
    LET prepared == Position("prepared", t)
    IN  /\ Once("prepared", t)
        /\ prepared > 2
        /\ Positions("used", t) = {prepared - 2}
        /\ journal[prepared - 1] = Event("blocked", t, NoPair)
        /\ transition[t].committed => Once("config_committed", t) /\ Previous(t) > prepared
        /\ ~Open(t) => Once(transition[t].state, t) /\ ValidTerminal(t)

\* The versions a transition committed, and no others.
ValidVersions(t) ==
    LET r == transition[t]
    IN  /\ storeVersion[t] = IF r.committed THEN r.next ELSE NoPair
        /\ accountVersion[t] = IF r.committed /\ r.kind # "remove" THEN r.after ELSE NoSnapshot

\* validate_stored_account_transition
ValidTransition(t) ==
    LET r == transition[t]
    IN  /\ Successors(t) # {} => r.state \in {"finalized", "aborted"}
        /\ Successors(t) = {} => ValidCurrentAccount(t)
        /\ ValidVersions(t)
        /\ r.kind # "create" => ValidParent(t)
        /\ \A k \in LocatorKind : ValidCleanup(t, k)
        /\ ValidTransitionEvents(t)

\* account_store_event_is_exact: the store's own events, replayed.
IsStoreEvent(e) == e.code \in {"blocked", "unblocked", "recovered"}
ResultPair(t) == IF transition[t].committed THEN transition[t].next ELSE transition[t].expected

StoreEvents == {i \in DOMAIN journal : IsStoreEvent(journal[i])}
FirstOf(S, i) == \A k \in S : i <= k
LastOf(S, i) == \A k \in S : k <= i
Adjacent(S, j, i) == j < i /\ \A k \in S : k <= j \/ i <= k

\* What the replay demands of event e after the store event p ...
ValidSuccession(p, e) ==
    IF e.code = "blocked"
    THEN p.code = "unblocked" /\ transition[e.id].expected = ResultPair(p.id)
    ELSE /\ p.code = "blocked" /\ p.id = e.id
         /\ transition[e.id].state \in
               IF e.code = "unblocked" THEN {"finalized", "aborted"} ELSE {"recovery_required"}

\* ... and of the store's row after the last event e.
ValidOutcome(e) ==
    CASE e.code = "blocked" -> store = [state |-> "blocked", pair |-> ResultPair(e.id)]
      [] e.code = "unblocked" -> store = [state |-> "active", pair |-> ResultPair(e.id)]
      [] OTHER -> store.state = "recovery_required"

ValidStoreEvents ==
    LET S == StoreEvents
    IN  /\ \A i \in S : FirstOf(S, i) =>
              journal[i].code = "blocked" /\ transition[journal[i].id].expected = InitialPair
        /\ \A i, j \in S : Adjacent(S, j, i) => ValidSuccession(journal[j], journal[i])
        /\ \A i \in S : LastOf(S, i) => ValidOutcome(journal[i])
        /\ S = {} => store = [state |-> "active", pair |-> InitialPair]

\* validate_registry_event_row: every event row is one that the state of its
\* cleanup or transition can have reached.
ValidEventRow(e) ==
    CASE e.code \in {"ready", "claimed", "deleted"} ->
           LET s == cleanup[e.id[1]][e.id[2]]
           IN  /\ e.code = "ready" =>
                     s \in {"ready", "claimed", "deleted"} /\ transition[e.id[1]].state = "finalized"
               /\ e.code = "claimed" => s \in {"claimed", "deleted"}
               /\ e.code = "deleted" => s = "deleted"
      [] e.code \in {"prepared", "config_committed", "finalized", "aborted", "recovery_required"} ->
           /\ e.code = "prepared" => Stored(e.id)
           /\ e.code = "config_committed" => transition[e.id].committed
           /\ e.code \notin {"prepared", "config_committed"} => e.code = transition[e.id].state
      [] OTHER -> TRUE

\* validate_registry_history, validate_events: the first check that fails
\* fails the call.
HistoryError ==
    \/ ~ValidStoreEvents
    \/ \E i \in DOMAIN journal : ~ValidEventRow(journal[i])
    \/ \E t \in Transitions : Stored(t) /\ ~ValidTransition(t)

ValidHistory == ~HistoryError

-----------------------------------------------------------------------------
(* prepare_account_transition.  A request whose manifest names another pair  *)
(* or snapshot than the current one is refused, so the manifest is read off  *)
(* the rows; its after-digest may be any other one.                          *)

\* validate_prepare_occupancy
StoreFree == store.state = "active" /\ \A t \in Transitions : ~Open(t)
DisplayTaken(d) == \E a \in Accounts : Live(a) /\ DisplayOf[a] = d

\* Mutant: an aborted transition gives its locators back.
LocatorTakenLive(l) ==
    \E t \in Transitions, k \in LocatorKind :
        cleanup[t][k] # "none" /\ transition[t].state # "aborted" /\ Locator(t, k) = l

LocatorTaken(l) ==
    \E t \in Transitions, k \in LocatorKind : cleanup[t][k] # "none" /\ Locator(t, k) = l

\* Mutant: the store is left open.
HeldStoreOpen == store

HeldStore == [store EXCEPT !.state = "blocked"]

PreparedEvents(t) ==
    <<Event("used", t, NoPair), Event("blocked", t, NoPair), Event("prepared", t, NoPair)>>

PrepareRows(t, k, a, before, after, content, locators) ==
    LET next == Pair(store.pair.generation + 1, content)
    IN  /\ store' = HeldStore
        /\ account' = [account EXCEPT ![a] =
              [state |-> IF k = "create" THEN "proposed" ELSE "blocked",
               snapshot |-> after, authorized |-> t, active |-> t]]
        /\ transition' = [transition EXCEPT ![t] =
              [state |-> "prepared", kind |-> k, account |-> a,
               expected |-> store.pair, next |-> next, before |-> before,
               after |-> after, committed |-> FALSE]]
        /\ cleanup' = [cleanup EXCEPT ![t] =
              [l \in LocatorKind |-> IF l \in locators THEN "provisional" ELSE "none"]]
        /\ journal' = journal \o PreparedEvents(t)
        /\ UNCHANGED <<storeVersion, accountVersion, erased, permit>>

\* The account a manifest proposes: an update takes a new credential, setting
\* or deleting a credential keeps it, a removal leaves the account as it was.
After(t, k, before) ==
    CASE k = "create" -> Snapshot(1, t)
      [] k = "update" -> Snapshot(before.generation + 1, t)
      [] k \in {"set", "delete"} -> Snapshot(before.generation + 1, before.credential)
      [] k = "remove" -> before

PrepareCreate(t, a, content) ==
    /\ ~Stored(t) /\ StoreFree
    /\ account[a] = NoAccount
    /\ ~DisplayTaken(DisplayOf[a])
    /\ content # store.pair.content
    /\ PrepareRows(t, "create", a, NoSnapshot, After(t, "create", NoSnapshot), content, {})

PrepareCredential(t, k, a, content) ==
    LET before == account[a].snapshot
    IN  /\ ~Stored(t) /\ StoreFree
        /\ k \in {"set", "delete"}
        /\ account[a].state = "active"
        /\ content # store.pair.content
        /\ PrepareRows(t, k, a, before, After(t, k, before), content, {})

PrepareReplacement(t, k, a, content, locators) ==
    LET before == account[a].snapshot
    IN  /\ ~Stored(t) /\ StoreFree
        /\ k \in {"update", "remove"}
        /\ account[a].state = "active"
        /\ content # store.pair.content
        /\ locators # {}
        /\ \A l \in locators : ~LocatorTaken(LocatorOf(a, before, l))
        /\ PrepareRows(t, k, a, before, After(t, k, before), content, locators)

-----------------------------------------------------------------------------
(* apply_account_observation, with the configuration pair the caller saw.    *)

\* classify_observed_pair
Class(t, pair) ==
    IF pair = transition[t].expected THEN "before"
    ELSE IF pair = transition[t].next THEN "after" ELSE "third"

\* Mutant: the store keeps the old pair.
CommittedStoreBehind(t) == store

\* mark_config_committed, which keeps the store blocked.
CommittedStore(t) == [store EXCEPT !.pair = transition[t].next]

InsertVersions(t) ==
    /\ storeVersion' = [storeVersion EXCEPT ![t] = transition[t].next]
    /\ accountVersion' = [accountVersion EXCEPT ![t] =
          IF transition[t].kind = "remove" THEN NoSnapshot ELSE account[transition[t].account].snapshot]

MarkConfigCommitted(t, pair) ==
    /\ transition[t].state = "prepared" /\ Class(t, pair) = "after"
    /\ transition' = [transition EXCEPT ![t].state = "config_committed", ![t].committed = TRUE]
    /\ store' = CommittedStore(t)
    /\ InsertVersions(t)
    /\ journal' = Append(journal, Event("config_committed", t, NoPair))
    /\ UNCHANGED <<account, cleanup, erased, permit>>

Reserved(t) == {k \in LocatorKind : cleanup[t][k] # "none"}

\* Mutant: no event is written.
ReadyEventsOmitted(t) == <<>>

\* insert_cleanup_ready_events
ReadyEvents(t) ==
    LET Ready(k) == IF k \in Reserved(t) THEN <<Event("ready", <<t, k>>, NoPair)>> ELSE <<>>
    IN  Ready("active_v2") \o Ready("legacy_v1")

\* Mutant: the account keeps its active transition.
FinalAccountHeld(t) ==
    [account[transition[t].account] EXCEPT
        !.state = IF transition[t].kind = "remove" THEN "removed" ELSE "active"]

\* update_finalize_rows
FinalAccount(t) ==
    [account[transition[t].account] EXCEPT
        !.state = IF transition[t].kind = "remove" THEN "removed" ELSE "active",
        !.active = None]

ReadyCleanup(t) == [k \in LocatorKind |-> IF k \in Reserved(t) THEN "ready" ELSE "none"]

\* finalize_account_transition
Finalize(t, pair) ==
    /\ transition[t].state = "config_committed" /\ Class(t, pair) = "after"
    /\ account' = [account EXCEPT ![transition[t].account] = FinalAccount(t)]
    /\ transition' = [transition EXCEPT ![t].state = "finalized"]
    /\ store' = [store EXCEPT !.state = "active"]
    /\ cleanup' = [cleanup EXCEPT ![t] = ReadyCleanup(t)]
    /\ journal' = journal \o <<Event("finalized", t, NoPair), Event("unblocked", t, NoPair)>>
                          \o ReadyEvents(t)
    /\ UNCHANGED <<storeVersion, accountVersion, erased, permit>>

\* Mutant: the row is unblocked with what was prepared.
RestoredInPlace(t) == [account[transition[t].account] EXCEPT !.state = "active", !.active = None]

\* transition_projection_account_generation, for an aborted transition
AbortedGeneration(t) == transition[t].before.generation

\* An account that existed before is restored from the version row of the
\* generation it had.
Restored(t) ==
    LET a == transition[t].account
        u == CHOOSE u \in Transitions : /\ transition[u].account = a
                                        /\ accountVersion[u] # NoSnapshot
                                        /\ accountVersion[u].generation = AbortedGeneration(t)
    IN  [state |-> "active", snapshot |-> accountVersion[u], authorized |-> u, active |-> None]

\* update_abort_rows; reserved locators stay reserved.
UpdateAbortRows(t) ==
    /\ account' = [account EXCEPT ![transition[t].account] =
          IF transition[t].kind = "create"
          THEN [@ EXCEPT !.state = "removed", !.active = None] ELSE Restored(t)]
    /\ transition' = [transition EXCEPT ![t].state = "aborted"]
    /\ store' = [store EXCEPT !.state = "active"]

\* abort_transition
Abort(t, pair) ==
    /\ transition[t].state = "prepared" /\ Class(t, pair) = "before"
    /\ UpdateAbortRows(t)
    /\ journal' = journal \o <<Event("aborted", t, NoPair), Event("unblocked", t, NoPair)>>
    /\ UNCHANGED <<storeVersion, accountVersion, cleanup, erased, permit>>

\* Mutant: a finished transition is judged too.
UnsafeAfterEnd(t, pair) ==
    \/ transition[t].state = "prepared" /\ Class(t, pair) = "third"
    \/ transition[t].state \in {"config_committed", "finalized"} /\ Class(t, pair) # "after"

Unsafe(t, pair) ==
    \/ transition[t].state = "prepared" /\ Class(t, pair) = "third"
    \/ transition[t].state = "config_committed" /\ Class(t, pair) # "after"

\* commit_account_recovery, entered from every observation method but the
\* repeated mark_config_committed: the store keeps the pair that was seen.
EnterRecovery(t, pair) ==
    /\ Unsafe(t, pair)
    /\ account' = [account EXCEPT ![transition[t].account].state = "blocked"]
    /\ transition' = [transition EXCEPT ![t].state = "recovery_required"]
    /\ store' = [state |-> "recovery_required", pair |-> pair]
    /\ journal' = journal \o <<Event("recovered", t, pair), Event("recovery_required", t, pair)>>
    /\ UNCHANGED <<storeVersion, accountVersion, cleanup, erased, permit>>

-----------------------------------------------------------------------------
(* Credential cleanup.  The permit carries the apply lock, so no other call  *)
(* runs until it is used or dropped.                                         *)

\* validate_credential_cleanup_public_pair
PublicPairActive(t) ==
    store.state = "active" /\ account[transition[t].account].state \in {"active", "removed"}

\* validate_credential_cleanup_context
Claimable(t, k) == cleanup[t][k] = "ready" /\ transition[t].state = "finalized"

ClaimCleanup(t, k) ==
    /\ Claimable(t, k) /\ PublicPairActive(t)
    /\ cleanup' = [cleanup EXCEPT ![t][k] = "claimed"]
    /\ permit' = <<t, k>>
    /\ journal' = journal \o <<Event("used", <<t, k>>, NoPair), CleanupEvent("claimed", <<t, k>>)>>
    /\ UNCHANGED <<store, account, transition, storeVersion, accountVersion, erased>>

\* The exact claim repeated, in whatever state the store is by then.
ReclaimCleanup(t, k) ==
    /\ cleanup[t][k] = "claimed"
    /\ permit' = <<t, k>>
    /\ UNCHANGED <<store, account, transition, storeVersion, accountVersion, cleanup, erased,
                   journal>>

\* Mutant: a keyring failure is ignored.
DeleteCleanupUnerased ==
    /\ cleanup' = [cleanup EXCEPT ![permit[1]][permit[2]] = "deleted"]
    /\ permit' = None
    /\ journal' = Append(journal, CleanupEvent("deleted", permit))
    /\ UNCHANGED <<store, account, transition, storeVersion, accountVersion, erased>>

\* apply_credential_cleanup_delete erases the keyring entry first, inside the
\* open transaction.
DeleteCleanup ==
    /\ cleanup' = [cleanup EXCEPT ![permit[1]][permit[2]] = "deleted"]
    /\ erased' = erased \cup {permit}
    /\ permit' = None
    /\ journal' = Append(journal, CleanupEvent("deleted", permit))
    /\ UNCHANGED <<store, account, transition, storeVersion, accountVersion>>

\* The process ends, or the commit fails, after the entry was erased.
EraseAndCrash ==
    /\ erased' = erased \cup {permit}
    /\ permit' = None
    /\ UNCHANGED <<store, account, transition, storeVersion, accountVersion, cleanup, journal>>

\* The permit is dropped, or the keyring refuses.
DropPermit ==
    /\ permit' = None
    /\ UNCHANGED <<store, account, transition, storeVersion, accountVersion, cleanup, erased,
                   journal>>

\* A call about another store (a challenge, a proof, an enrollment) appends
\* to the same journal.
OtherCall ==
    /\ Cardinality(Positions("other", None)) < MaxOther
    /\ journal' = Append(journal, Event("other", None, NoPair))
    /\ UNCHANGED <<store, account, transition, storeVersion, accountVersion, cleanup, erased,
                   permit>>

-----------------------------------------------------------------------------
ObservedPairs == {Pair(g, c) : g \in 1..(Cardinality(Transitions) + 1), c \in Contents}

Locked ==
    \/ ValidHistory /\ (DeleteCleanup \/ EraseAndCrash)
    \/ DropPermit

Call ==
    \/ \E t \in Transitions, a \in Accounts, c \in Contents :
          \/ PrepareCreate(t, a, c)
          \/ \E k \in {"set", "delete"} : PrepareCredential(t, k, a, c)
          \/ \E k \in {"update", "remove"}, ls \in SUBSET LocatorKind :
                PrepareReplacement(t, k, a, c, ls)
    \/ \E t \in Transitions, pair \in ObservedPairs :
          \/ MarkConfigCommitted(t, pair)
          \/ Finalize(t, pair)
          \/ Abort(t, pair)
          \/ EnterRecovery(t, pair)
    \/ \E t \in Transitions, k \in LocatorKind : ClaimCleanup(t, k) \/ ReclaimCleanup(t, k)
    \/ OtherCall

Next ==
    \/ permit # None /\ Locked
    \/ permit = None /\ ValidHistory /\ Call

Spec == Init /\ [][Next]_vars

-----------------------------------------------------------------------------
(* Properties.                                                               *)

AccountStates == {"absent", "proposed", "active", "blocked", "removed"}
TransitionStates == {"absent", "prepared", "config_committed", "finalized", "aborted",
                     "recovery_required"}
CleanupIds == Transitions \X LocatorKind

Pairs == [generation : Nat, content : Contents \cup {None}]
Snapshots == [generation : Nat, credential : Transitions \cup {None}]
AccountRows ==
    [state : AccountStates, snapshot : Snapshots, authorized : Transitions \cup {None},
     active : Transitions \cup {None}]
TransitionRows ==
    [state : TransitionStates, kind : AccountTransitionKind \cup {None},
     account : Accounts \cup {None}, expected : Pairs, next : Pairs, before : Snapshots,
     after : Snapshots, committed : BOOLEAN]

\* Every row has the shape the schema's CHECK constraints demand; an account
\* refers to an active transition exactly while it is proposed or blocked.
TypeOK ==
    /\ store \in [state : {"active", "blocked", "recovery_required"},
                  pair : [generation : Nat \ {0}, content : Contents]]
    /\ account \in [Accounts -> AccountRows]
    /\ transition \in [Transitions -> TransitionRows]
    /\ storeVersion \in [Transitions -> Pairs]
    /\ accountVersion \in [Transitions -> Snapshots]
    /\ cleanup \in [Transitions -> [LocatorKind ->
                       {"none", "provisional", "ready", "claimed", "deleted"}]]
    /\ erased \subseteq CleanupIds
    /\ permit \in CleanupIds \cup {None}
    /\ \A a \in Accounts :
          /\ account[a].active # None <=> account[a].state \in {"proposed", "blocked"}
          /\ account[a].state # "absent" => account[a].authorized \in Transitions
    /\ \A t \in Transitions :
          /\ transition[t].state \in {"config_committed", "finalized"} => transition[t].committed
          /\ transition[t].state \in {"prepared", "aborted"} => ~transition[t].committed

\* The history validation of the next call accepts what every call committed:
\* the store is never shut by its own writes.
NeverLockedOut == ValidHistory

\* Apart from histories with an aborted transition, whose validation is
\* stricter than the abort itself, every committed history is accepted.
LockedOutOnlyAfterAbort ==
    (\E t \in Transitions : transition[t].state = "aborted") \/ ValidHistory

\* prepare_account_transition and the observations keep one change in flight:
\* the store is blocked exactly while one transition is open, frozen exactly
\* when one was, and no account but that transition's is held by it.
OneChangeInFlight ==
    LET open == {t \in Transitions : Open(t)}
        frozen == {t \in Transitions : transition[t].state = "recovery_required"}
    IN  /\ Cardinality(open \cup frozen) <= 1
        /\ store.state = "blocked" <=> open # {}
        /\ store.state = "recovery_required" <=> frozen # {}
        /\ \A a \in Accounts :
              account[a].active # None =>
                 account[a].active \in open \cup frozen /\ transition[account[a].active].account = a

\* An active account is exactly what its last finalized transition committed,
\* whatever was prepared and aborted since.
ActiveAccountIsCommitted ==
    \A a \in Accounts : account[a].state = "active" =>
        LET u == account[a].authorized
        IN  /\ transition[u].state = "finalized" /\ transition[u].account = a
            /\ account[a].snapshot = accountVersion[u]
            /\ \A t \in Transitions :
                  transition[t].state = "finalized" /\ transition[t].account = a
                     => Generation(t) <= Generation(u)

\* Until it is frozen, the store's configuration pair counts the committed
\* transitions and carries the content of the last one.
PairFollowsCommits ==
    LET committed == {t \in Transitions : transition[t].committed}
    IN  store.state # "recovery_required" =>
        /\ store.pair.generation = 1 + Cardinality(committed)
        /\ \/ committed = {} /\ store.pair = InitialPair
           \/ \E t \in committed : transition[t].next = store.pair

\* The keyring entry of the credential an account has, or would fall back to
\* when its open transition is aborted, is never erased by a cleanup.
ErasureSparesCredentials ==
    \A c \in erased, a \in Accounts :
        LET t == account[a].active
        IN  /\ Live(a) => Locator(c[1], c[2]) # LocatorOf(a, account[a].snapshot, "active_v2")
            /\ t # None /\ Open(t) /\ ~transition[t].committed =>
                  Locator(c[1], c[2]) # LocatorOf(a, transition[t].before, "active_v2")

\* A cleanup recorded as deleted was erased, and only a claimed or deleted
\* one ever is, through crashes between the keyring and the commit.
DeletedMeansErased ==
    \A t \in Transitions, k \in LocatorKind :
        /\ cleanup[t][k] = "deleted" => <<t, k>> \in erased
        /\ <<t, k>> \in erased => cleanup[t][k] \in {"claimed", "deleted"}

\* A keyring entry belongs to one cleanup only, whatever became of the
\* transition that reserved it and of the account it was for: the occupancy
\* check of a prepare never lets a second cleanup name it.
OneCleanupPerLocator ==
    \A t, u \in Transitions, k, l \in LocatorKind :
        /\ cleanup[t][k] # "none" /\ cleanup[u][l] # "none"
        /\ Locator(t, k) = Locator(u, l)
        => t = u /\ k = l

\* A finalized, aborted or frozen transition keeps its row whatever is
\* observed later.
EndsStay ==
    [][\A t \in Transitions :
          transition[t].state \in {"finalized", "aborted", "recovery_required"}
             => transition'[t] = transition[t]]_vars

=============================================================================

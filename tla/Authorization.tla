---------------------------- MODULE Authorization ----------------------------
(***************************************************************************)
(* Owner authorization in the authority journal of kirje-store             *)
(* (AuthorityStore): a challenge is created for a manifest, the owner's    *)
(* detached proof turns it into a receipt, and the receipt is consumed     *)
(* once, here by enrolling the store the manifest names.                   *)
(*                                                                         *)
(* A call takes the exclusive apply lock, opens one immediate transaction, *)
(* validates the whole journal and then either commits or rolls back.      *)
(* Each committing path of a call is one action; a call that rolls back    *)
(* changes nothing and is no step.  A process that dies after the commit   *)
(* lost only its answer and repeats the call.                              *)
(*                                                                         *)
(* A challenge, its grant and its receipt are identified by the grant:     *)
(* each challenge has a fresh random grant, nonce and receipt id.          *)
(***************************************************************************)
EXTENDS Integers, Sequences, FiniteSets

CONSTANTS
    Grants,      \* grant identifiers
    Manifests,   \* store-enrollment manifests; each is a context of its own
    Stores,      \* store identifiers
    StoreOf,     \* the store a manifest enrolls
    LocationOf,  \* the location it binds the store to
    Proofs,      \* detached proofs for one challenge
    Genuine,     \* those whose signature verifies
    Lifetime,    \* AUTHORIZATION_LIFETIME_MS
    Tolerance,   \* CLOCK_ROLLBACK_TOLERANCE_MS
    MaxClock,    \* bound on the times a caller may observe
    None         \* no manifest, proof or grant

ASSUME AuthorizationAssumption ==
    /\ StoreOf \in [Manifests -> Stores]
    /\ DOMAIN LocationOf = Manifests
    /\ Genuine \subseteq Proofs
    /\ Lifetime \in Nat \ {0}
    /\ Tolerance \in Nat
    /\ MaxClock \in Nat
    /\ None \notin Grants \cup Manifests \cup Proofs

VARIABLES
    lastObserved,  \* authority_meta.last_observed_at
    challenge,     \* authorization_challenges
    receipt,       \* authorization_receipts
    nonceUse,      \* nonce_uses.consumed_at
    grantUse,      \* grant_uses.used_at
    store,         \* registered_stores and its initial version
    journal,       \* authority_events after the two bootstrap events
    answers,       \* receipts and enrollments that callers were shown
    toldExpired    \* grants some caller was told had expired

tables == <<challenge, receipt, nonceUse, grantUse, store, journal>>
vars == <<lastObserved, challenge, receipt, nonceUse, grantUse, store,
          journal, answers, toldExpired>>

Times == 0..MaxClock
NoTime == -1
NoChallenge == [state |-> "absent", manifest |-> None, issued |-> NoTime,
                expires |-> NoTime, created |-> 0]
NoReceipt == [proof |-> None, verified |-> NoTime, expires |-> NoTime]
NoStore == [location |-> None, grant |-> None, created |-> NoTime]

Init ==
    /\ lastObserved = 0
    /\ challenge = [g \in Grants |-> NoChallenge]
    /\ receipt = [g \in Grants |-> NoReceipt]
    /\ nonceUse = [g \in Grants |-> NoTime]
    /\ grantUse = [g \in Grants |-> NoTime]
    /\ store = [s \in Stores |-> NoStore]
    /\ journal = <<>>
    /\ answers = {}
    /\ toldExpired = {}

-----------------------------------------------------------------------------
(* Rows and events.                                                          *)

Stored(g) == challenge[g].state # "absent"
Receipted(g) == receipt[g] # NoReceipt
Used(g) == grantUse[g] # NoTime
Registered(s) == store[s] # NoStore
NonceUsed(g) == nonceUse[g] # NoTime

Event(code, id, at) == [code |-> code, id |-> id, at |-> at]
GrantUsedEvent(g, t) == Event("used", g, t)
StoreEnrolledEvent(s, t) == Event("enrolled", s, t)

\* Positions of the events with this code for this entity.
EventsOf(code, id) ==
    {i \in DOMAIN journal : journal[i].code = code /\ journal[i].id = id}

-----------------------------------------------------------------------------
(* load_snapshot: every call first validates everything that was ever stored *)
(* and refuses to work, for good, on a journal it would not have written.    *)

\* validate_stored_receipt
ValidReceipt(g) ==
    LET c == challenge[g]
        r == receipt[g]
    IN  /\ r.proof \in Genuine
        /\ c.issued <= r.verified /\ r.verified <= c.expires
        /\ r.expires = c.expires
        /\ nonceUse[g] = r.verified

\* validate_stored_challenge
ValidChallenge(g) ==
    LET c == challenge[g]
    IN  /\ c.issued < c.expires /\ c.expires - c.issued <= Lifetime
        /\ c.issued <= lastObserved
        /\ Receipted(g) => ValidReceipt(g)
        /\ \/ c.state = "authorized" /\ Receipted(g)
           \/ c.state = "expired" /\ Receipted(g) /\ ~Used(g)
           \/ c.state \in {"pending", "expired"} /\ ~Receipted(g) /\ ~NonceUsed(g)

\* validate_challenge_event_graph; the position it returns is that of the
\* authorization, of the expiry of an unauthorized challenge, or 0.
Terminal(g) ==
    LET a == EventsOf("authorized", g)
        e == EventsOf("expired", g)
    IN  IF a # {} THEN CHOOSE i \in a : TRUE
        ELSE IF e # {} THEN CHOOSE i \in e : TRUE ELSE 0

ValidEventGraph(g) ==
    LET a == EventsOf("authorized", g)
        e == EventsOf("expired", g)
    IN  /\ EventsOf("created", g) = {challenge[g].created}
        /\ Cardinality(a) <= 1 /\ Cardinality(e) <= 1
        /\ \/ challenge[g].state = "pending" /\ a = {} /\ e = {}
           \/ challenge[g].state = "authorized" /\ a # {} /\ e = {}
           \/ challenge[g].state = "expired" /\ e # {} /\ \A i \in a, j \in e : i < j
        /\ Terminal(g) # 0 => challenge[g].created < Terminal(g)

\* validate_challenge_lifecycles: the challenges of one context follow one
\* another, each starting after its predecessor was answered or expired.
ValidLifecycles ==
    \A g, h \in Grants :
        /\ Stored(g) /\ Stored(h)
        /\ challenge[g].manifest = challenge[h].manifest
        /\ challenge[g].created < challenge[h].created
        => Terminal(g) # 0 /\ Terminal(g) < challenge[h].created

\* validate_initial_store_version
ValidInitialVersion(s) ==
    LET g == store[s].grant
    IN  /\ s = StoreOf[challenge[g].manifest]
        /\ store[s].location = LocationOf[challenge[g].manifest]

\* validate_registry_events: the use of a grant and the enrollment it paid
\* for are neighbours.
ValidRegistryEvents(g, s) ==
    LET u == EventsOf("used", g)
        v == EventsOf("enrolled", s)
    IN  /\ Cardinality(u) = 1 /\ Cardinality(v) = 1
        /\ \A i \in u, j \in v : j = i + 1

\* validate_stored_grant
ValidGrant(g) ==
    /\ challenge[g].state = "authorized"
    /\ receipt[g].verified <= grantUse[g] /\ grantUse[g] <= receipt[g].expires
    /\ \E s \in Stores :
          /\ store[s].grant = g
          /\ store[s].created = grantUse[g]
          /\ ValidInitialVersion(s)
          /\ ValidRegistryEvents(g, s)

\* validate_stored_store
ValidStore(s) ==
    LET g == store[s].grant
    IN  Receipted(g) /\ Used(g) /\ grantUse[g] = store[s].created /\ ValidInitialVersion(s)

\* validate_challenge_event
ValidChallengeEvent(e) ==
    CASE e.code = "created" -> Stored(e.id) /\ e.at = challenge[e.id].issued
      [] e.code = "authorized" -> Receipted(e.id) /\ e.at = receipt[e.id].verified
      [] e.code = "expired" -> e.at > challenge[e.id].expires /\ e.at <= lastObserved

\* validate_registry_event_row
ValidRegistryEvent(e) ==
    CASE e.code = "used" -> Used(e.id) /\ e.at = grantUse[e.id]
      [] e.code = "enrolled" -> Registered(e.id) /\ e.at = grantUse[store[e.id].grant]

\* validate_events, after the bootstrap events
ValidEvent(e) ==
    IF e.code \in {"used", "enrolled"} THEN ValidRegistryEvent(e) ELSE ValidChallengeEvent(e)

\* validate_authorization_history, validate_registry_history, validate_events
ValidHistory ==
    /\ \A g \in Grants : Stored(g) => ValidChallenge(g) /\ ValidEventGraph(g)
    /\ \A g \in Grants : Used(g) => ValidGrant(g)
    /\ \A s \in Stores : Registered(s) => ValidStore(s)
    /\ Cardinality({g \in Grants : Used(g)}) = Cardinality({s \in Stores : Registered(s)})
    /\ \A i \in DOMAIN journal : ValidEvent(journal[i])
    /\ ValidLifecycles

-----------------------------------------------------------------------------
(* The clock: a caller's time may lie behind what the journal has seen, by    *)
(* at most the tolerance, and then counts as the latest time seen.            *)

\* Mutant: an observation is added to what was seen before.
CheckedClockElapsed(observed) == lastObserved + observed

\* checked_clock, for the observations it accepts
CheckedClock(observed) == IF observed > lastObserved THEN observed ELSE lastObserved

Observations == {t \in Times : t >= lastObserved - Tolerance}

\* observe_clock_pair
Observe(t) == lastObserved' = t

\* A caller is shown a receipt (receipt_projection): its rows, and whether it
\* was used, has expired or can still be used.
Show(call, g, t) ==
    /\ answers' = answers \cup
          {[call |-> call, grant |-> g, proof |-> receipt'[g].proof,
            at |-> IF call = "verify" THEN receipt'[g].verified ELSE grantUse'[g]]}
    /\ toldExpired' =
          IF call = "verify" /\ ~Used(g) /\ (challenge[g].state = "expired" \/ t > receipt'[g].expires)
          THEN toldExpired \cup {g} ELSE toldExpired

\* The call ends in authorization_expired_error after a commit.
TellExpired(g) ==
    /\ toldExpired' = toldExpired \cup {g}
    /\ UNCHANGED answers

-----------------------------------------------------------------------------
(* create_challenge                                                          *)

Pending(m) == {g \in Grants : challenge[g].state = "pending" /\ challenge[g].manifest = m}

\* store_identity_count
Unregistered(m) ==
    /\ ~Registered(StoreOf[m])
    /\ \A s \in Stores : store[s].location # LocationOf[m]

\* validate_fresh_manifest_context, for a store enrollment
FreshManifest(m) == Unregistered(m)

\* A pending challenge that has not expired is returned again.
RecoverChallenge(m, observed) ==
    /\ \E g \in Pending(m) : CheckedClock(observed) <= challenge[g].expires
    /\ Observe(CheckedClock(observed))
    /\ UNCHANGED <<tables, answers, toldExpired>>

\* Mutant: the expired predecessor is left pending.
CreateChallengeKeepingOld(m, g, observed, expires) ==
    LET t == CheckedClock(observed)
    IN  /\ ~Stored(g)
        /\ \A old \in Pending(m) : t > challenge[old].expires
        /\ FreshManifest(m)
        /\ t < expires /\ expires - t <= Lifetime
        /\ challenge' = [challenge EXCEPT
              ![g] = [state |-> "pending", manifest |-> m, issued |-> t,
                      expires |-> expires, created |-> Len(journal) + 1]]
        /\ journal' = Append(journal, Event("created", g, t))
        /\ Observe(t)
        /\ UNCHANGED <<receipt, nonceUse, grantUse, store, answers, toldExpired>>

\* Otherwise it is expired and, in the same transaction, a new one stored.
CreateChallenge(m, g, observed, expires) ==
    LET t == CheckedClock(observed)
        old == Pending(m)
        closed == IF old = {} THEN journal
                  ELSE Append(journal, Event("expired", CHOOSE h \in old : TRUE, t))
    IN  /\ ~Stored(g)
        /\ \A h \in old : t > challenge[h].expires
        /\ FreshManifest(m)
        /\ t < expires /\ expires - t <= Lifetime
        /\ challenge' =
              [h \in Grants |->
                 IF h = g THEN [state |-> "pending", manifest |-> m, issued |-> t,
                                expires |-> expires, created |-> Len(closed) + 1]
                 ELSE IF h \in old THEN [challenge[h] EXCEPT !.state = "expired"]
                 ELSE challenge[h]]
        /\ journal' = Append(closed, Event("created", g, t))
        /\ Observe(t)
        /\ UNCHANGED <<receipt, nonceUse, grantUse, store, answers, toldExpired>>

-----------------------------------------------------------------------------
(* Expiring a challenge, found by verify_proof or by enroll_store.            *)

Expire(g, t) ==
    /\ challenge' = [challenge EXCEPT ![g].state = "expired"]
    /\ journal' = Append(journal, Event("expired", g, t))
    /\ Observe(t)
    /\ TellExpired(g)
    /\ UNCHANGED <<receipt, nonceUse, grantUse, store>>

-----------------------------------------------------------------------------
(* verify_proof                                                              *)

\* Mutant: recovering a receipt leaves the clock alone.
RecoverReceiptUnobserved(g, p, observed) ==
    /\ Receipted(g)
    /\ receipt[g].proof = p
    /\ UNCHANGED <<tables, lastObserved>>
    /\ Show("verify", g, CheckedClock(observed))

\* The proof that produced the receipt is presented again.
RecoverReceipt(g, p, observed) ==
    /\ Receipted(g)
    /\ receipt[g].proof = p
    /\ Observe(CheckedClock(observed))
    /\ UNCHANGED tables
    /\ Show("verify", g, CheckedClock(observed))

VerifyExpired(g, observed) ==
    /\ ~Receipted(g)
    /\ challenge[g].state = "expired"
    /\ Observe(CheckedClock(observed))
    /\ TellExpired(g)
    /\ UNCHANGED tables

VerifyTooLate(g, observed) ==
    /\ ~Receipted(g)
    /\ challenge[g].state = "pending"
    /\ CheckedClock(observed) > challenge[g].expires
    /\ Expire(g, CheckedClock(observed))

\* validate_first_proof: the proof answers this challenge and its signature
\* verifies under the key the action requires.
FirstProofVerifies(p) == p \in Genuine

\* Mutant: any genuine proof is accepted, receipt or not.
AuthorizeAgain(g, p, observed) ==
    LET t == CheckedClock(observed)
    IN  /\ challenge[g].state \in {"pending", "authorized"}
        /\ t <= challenge[g].expires
        /\ FirstProofVerifies(p)
        /\ receipt' = [receipt EXCEPT
              ![g] = [proof |-> p, verified |-> t, expires |-> challenge[g].expires]]
        /\ nonceUse' = [nonceUse EXCEPT ![g] = t]
        /\ challenge' = [challenge EXCEPT ![g].state = "authorized"]
        /\ journal' = Append(journal, Event("authorized", g, t))
        /\ Observe(t)
        /\ UNCHANGED <<grantUse, store>>
        /\ Show("verify", g, t)

\* The first proof: validate_first_proof, then receipt, nonce, state, event.
Authorize(g, p, observed) ==
    LET t == CheckedClock(observed)
    IN  /\ ~Receipted(g)
        /\ challenge[g].state = "pending"
        /\ t <= challenge[g].expires
        /\ FirstProofVerifies(p)
        /\ receipt' = [receipt EXCEPT
              ![g] = [proof |-> p, verified |-> t, expires |-> challenge[g].expires]]
        /\ nonceUse' = [nonceUse EXCEPT ![g] = t]
        /\ challenge' = [challenge EXCEPT ![g].state = "authorized"]
        /\ journal' = Append(journal, Event("authorized", g, t))
        /\ Observe(t)
        /\ UNCHANGED <<grantUse, store>>
        /\ Show("verify", g, t)

-----------------------------------------------------------------------------
(* enroll_store, for a request that names the challenge's own manifest;       *)
(* validate_enrollment_identity refuses every other request.                  *)

\* The grant was used by this very request.
RecoverEnrollment(g, observed) ==
    /\ Used(g)
    /\ Observe(CheckedClock(observed))
    /\ UNCHANGED tables
    /\ Show("enroll", g, CheckedClock(observed))

EnrollExpired(g, observed) ==
    /\ ~Used(g)
    /\ Receipted(g)
    /\ challenge[g].state = "expired"
    /\ Observe(CheckedClock(observed))
    /\ TellExpired(g)
    /\ UNCHANGED tables

EnrollTooLate(g, observed) ==
    /\ ~Used(g)
    /\ Receipted(g)
    /\ challenge[g].state = "authorized"
    /\ CheckedClock(observed) > receipt[g].expires
    /\ Expire(g, CheckedClock(observed))

InsertGrantUse(g, t) == grantUse' = [grantUse EXCEPT ![g] = t]

\* Mutant: only the store id, not the location, is checked for conflicts.
EnrollOverLocation(g, observed) ==
    LET t == CheckedClock(observed)
        m == challenge[g].manifest
    IN  /\ ~Used(g)
        /\ challenge[g].state = "authorized"
        /\ t <= receipt[g].expires
        /\ ~Registered(StoreOf[m])
        /\ InsertGrantUse(g, t)
        /\ store' = [store EXCEPT
              ![StoreOf[m]] = [location |-> LocationOf[m], grant |-> g, created |-> t]]
        /\ journal' = journal \o <<GrantUsedEvent(g, t), StoreEnrolledEvent(StoreOf[m], t)>>
        /\ Observe(t)
        /\ UNCHANGED <<challenge, receipt, nonceUse>>
        /\ Show("enroll", g, t)

Enroll(g, observed) ==
    LET t == CheckedClock(observed)
        m == challenge[g].manifest
    IN  /\ ~Used(g)
        /\ challenge[g].state = "authorized"
        /\ t <= receipt[g].expires
        /\ Unregistered(m)
        /\ InsertGrantUse(g, t)
        /\ store' = [store EXCEPT
              ![StoreOf[m]] = [location |-> LocationOf[m], grant |-> g, created |-> t]]
        /\ journal' = journal \o <<GrantUsedEvent(g, t), StoreEnrolledEvent(StoreOf[m], t)>>
        /\ Observe(t)
        /\ UNCHANGED <<challenge, receipt, nonceUse>>
        /\ Show("enroll", g, t)

-----------------------------------------------------------------------------
\* validate_ready_transaction opens every call.
Next ==
    /\ ValidHistory
    /\ \E observed \in Observations :
       \/ \E m \in Manifests :
             \/ RecoverChallenge(m, observed)
             \/ \E g \in Grants, expires \in 0..(MaxClock + Lifetime) :
                   CreateChallenge(m, g, observed, expires)
       \/ \E g \in Grants :
             \/ VerifyExpired(g, observed)
             \/ VerifyTooLate(g, observed)
             \/ RecoverEnrollment(g, observed)
             \/ EnrollExpired(g, observed)
             \/ EnrollTooLate(g, observed)
             \/ Enroll(g, observed)
             \/ \E p \in Proofs :
                   RecoverReceipt(g, p, observed) \/ Authorize(g, p, observed)

Spec == Init /\ [][Next]_vars

-----------------------------------------------------------------------------
(* Properties.                                                               *)

Lifetimes == 0..(MaxClock + Lifetime)
Locations == {LocationOf[m] : m \in Manifests}
ChallengeRows ==
    [state : {"absent", "pending", "authorized", "expired"}, manifest : Manifests \cup {None},
     issued : Times \cup {NoTime}, expires : Lifetimes \cup {NoTime}, created : Nat]
ReceiptRows ==
    [proof : Proofs \cup {None}, verified : Times \cup {NoTime},
     expires : Lifetimes \cup {NoTime}]
StoreRows ==
    [location : Locations \cup {None}, grant : Grants \cup {None}, created : Times \cup {NoTime}]
Events ==
    [code : {"created", "authorized", "expired", "used", "enrolled"}, id : Grants \cup Stores,
     at : Times]

\* Every table holds rows of the types the schema gives.
TypeOK ==
    /\ lastObserved \in Times
    /\ challenge \in [Grants -> ChallengeRows]
    /\ receipt \in [Grants -> ReceiptRows]
    /\ nonceUse \in [Grants -> Times \cup {NoTime}]
    /\ grantUse \in [Grants -> Times \cup {NoTime}]
    /\ store \in [Stores -> StoreRows]
    /\ \A s \in Stores : Registered(s) => store[s].grant \in Grants
    /\ journal \in Seq(Events)
    /\ answers \subseteq [call : {"verify", "enroll"}, grant : Grants, proof : Proofs, at : Times]
    /\ toldExpired \subseteq Grants

\* No sequence of accepted calls, retries, expiries and tolerated clock
\* rollbacks leaves rows or events that the next call's load_snapshot would
\* refuse as corrupt: the authority never locks itself out.
NeverLockedOut == ValidHistory

\* A caller who was told that an authorization expired can rely on it: the
\* grant is not used afterwards, although clocks of other callers may lag by
\* the tolerance, and a used grant is never reported expired.
ExpiryIsFinal == \A g \in toldExpired : ~Used(g)

\* Several authorized receipts may exist for one store or one location, but
\* only one of them registers it, and each used grant registered exactly the
\* store and location its manifest names.
OneEnrollmentPerIdentity ==
    /\ \A g \in Grants :
          Used(g) => LET m == challenge[g].manifest
                     IN  /\ store[StoreOf[m]].grant = g
                         /\ store[StoreOf[m]].location = LocationOf[m]
    /\ \A s1, s2 \in Stores :
          /\ Registered(s1) /\ Registered(s2)
          /\ store[s1].grant = store[s2].grant \/ store[s1].location = store[s2].location
          => s1 = s2

\* "Verify one detached proof or exactly recover its immutable receipt": all
\* callers that are ever shown the receipt or the enrollment of a grant are
\* shown the same one, and it rests on a single genuine proof.
AnswersAgree ==
    \A a, b \in answers :
        /\ a.proof \in Genuine
        /\ a.grant = b.grant => a.proof = b.proof /\ (a.call = b.call => a.at = b.at)

=============================================================================

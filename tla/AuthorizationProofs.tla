------------------------- MODULE AuthorizationProofs --------------------------
(***************************************************************************)
(* Proofs about Authorization, for any grants, manifests, stores, lifetime *)
(* and clock tolerance: no sequence of calls leaves a journal that         *)
(* load_snapshot refuses (NeverLockedOut), expiry is final, each identity  *)
(* is enrolled once, and every caller is shown the same receipt.           *)
(***************************************************************************)
EXTENDS Authorization, FiniteSetTheorems, TLAPS

-----------------------------------------------------------------------------
(* The inductive invariant, row by row.  Where load_snapshot counts events,  *)
(* the invariant says at which position the one event stands.                *)

Created(g) == EventsOf("created", g)
Authorized(g) == EventsOf("authorized", g)
Expired(g) == EventsOf("expired", g)

ChallengeOk(g) ==
    /\ Stored(g) => challenge[g].manifest \in Manifests /\ ValidChallenge(g)
    /\ ~Stored(g) => ~Receipted(g) /\ ~Used(g) /\ ~NonceUsed(g)
    /\ Receipted(g) => receipt[g].verified \in Times /\ receipt[g].verified <= lastObserved

\* The events of a challenge: creation, then authorization, then expiry.
GraphOk(g) ==
    /\ ~Stored(g) => Created(g) = {} /\ Authorized(g) = {} /\ Expired(g) = {}
    /\ Stored(g) => Created(g) = {challenge[g].created}
    /\ challenge[g].state = "pending" => Authorized(g) = {} /\ Expired(g) = {}
    /\ challenge[g].state = "authorized" =>
          Expired(g) = {} /\ \E i \in Nat : Authorized(g) = {i} /\ challenge[g].created < i
    /\ challenge[g].state = "expired" =>
          \E j \in Nat :
             /\ Expired(g) = {j} /\ challenge[g].created < j
             /\ \/ Authorized(g) = {}
                \/ \E i \in Nat : Authorized(g) = {i} /\ challenge[g].created < i /\ i < j

\* A used grant paid for the store its manifest names, with two neighbours.
EnrolledAs(g, s) ==
    /\ store[s].grant = g /\ store[s].created = grantUse[g] /\ ValidInitialVersion(s)
    /\ \E i \in Nat : EventsOf("used", g) = {i} /\ EventsOf("enrolled", s) = {i + 1}
GrantOk(g) ==
    /\ ~Used(g) => EventsOf("used", g) = {}
    /\ Used(g) =>
          /\ challenge[g].state = "authorized"
          /\ receipt[g].verified <= grantUse[g] /\ grantUse[g] <= receipt[g].expires
          /\ \E s \in Stores : EnrolledAs(g, s)

StoreOk(s) ==
    /\ ~Registered(s) => EventsOf("enrolled", s) = {}
    /\ Registered(s) => ValidStore(s)

\* Each event row is one its entity can have reached.
EventOk(e) ==
    \/ e.code = "created" /\ e.id \in Grants /\ Stored(e.id) /\ e.at = challenge[e.id].issued
    \/ e.code = "authorized" /\ e.id \in Grants /\ Receipted(e.id) /\ e.at = receipt[e.id].verified
    \/ /\ e.code = "expired" /\ e.id \in Grants /\ Stored(e.id)
       /\ e.at > challenge[e.id].expires /\ e.at <= lastObserved
    \/ e.code = "used" /\ e.id \in Grants /\ Used(e.id) /\ e.at = grantUse[e.id]
    \/ /\ e.code = "enrolled" /\ e.id \in Stores /\ Registered(e.id)
       /\ e.at = grantUse[store[e.id].grant]

\* A challenge that was answered or expired, and since when.
ClosedAt(g, i) ==
    \/ Authorized(g) = {i}
    \/ Authorized(g) = {} /\ Expired(g) = {i}
InOrder(g, h) ==
    /\ Stored(g) /\ Stored(h)
    /\ challenge[g].manifest = challenge[h].manifest
    /\ challenge[g].created < challenge[h].created
    => \E i \in Nat : ClosedAt(g, i) /\ i < challenge[h].created

UsedGrants == {g \in Grants : Used(g)}
RegisteredStores == {s \in Stores : Registered(s)}
CountsOk ==
    /\ IsFiniteSet(UsedGrants) /\ IsFiniteSet(RegisteredStores)
    /\ Cardinality(UsedGrants) = Cardinality(RegisteredStores)

OneStoreEach ==
    \A s1, s2 \in Stores :
        Registered(s1) /\ Registered(s2) /\ store[s1].location = store[s2].location => s1 = s2

TablesInv ==
    /\ \A g \in Grants : ChallengeOk(g) /\ GraphOk(g) /\ GrantOk(g)
    /\ \A s \in Stores : StoreOk(s)
    /\ \A i \in DOMAIN journal : EventOk(journal[i])
    /\ \A g, h \in Grants : InOrder(g, h)
    /\ CountsOk /\ OneStoreEach

\* Whoever was told of an expiry was told so by a state or a clock that no
\* later call goes back behind.
ToldOk(g) ==
    /\ Stored(g) /\ ~Used(g)
    /\ challenge[g].state = "expired" \/ (Receipted(g) /\ lastObserved > receipt[g].expires)

\* An answer repeats the rows.
AnswerOk(a) ==
    /\ Receipted(a.grant) /\ a.proof = receipt[a.grant].proof
    /\ a.call = "verify" => a.at = receipt[a.grant].verified
    /\ a.call = "enroll" => Used(a.grant) /\ a.at = grantUse[a.grant]

CallersInv == (\A g \in toldExpired : ToldOk(g)) /\ (\A a \in answers : AnswerOk(a))

Inv == TypeOK /\ TablesInv /\ CallersInv

-----------------------------------------------------------------------------
(* The invariant is what load_snapshot accepts.                              *)

\* Terminal is the position that closed the challenge.
LEMMA TerminalIsClosing ==
  ASSUME NEW g \in Grants, NEW i \in Nat, ClosedAt(g, i)
  PROVE  Terminal(g) = i
<1>1. CASE Authorized(g) = {i}
  <2>1. (CHOOSE j \in {i} : TRUE) = i
    OBVIOUS
  <2> QED BY <1>1, <2>1 DEF Terminal, Authorized
<1>2. CASE Authorized(g) = {} /\ Expired(g) = {i}
  <2>1. (CHOOSE j \in {i} : TRUE) = i
    OBVIOUS
  <2> QED BY <1>2, <2>1 DEF Terminal, Authorized, Expired
<1> QED BY <1>1, <1>2 DEF ClosedAt

LEMMA GraphIsValid ==
  ASSUME NEW g \in Grants, GraphOk(g), Stored(g),
         challenge[g].state \in {"absent", "pending", "authorized", "expired"}
  PROVE  ValidEventGraph(g)
<1>0. /\ Cardinality({}) = 0 /\ \A i : Cardinality({i}) = 1
  BY FS_EmptySet, FS_Singleton
<1>1. CASE challenge[g].state = "pending"
  <2>1. Authorized(g) = {} /\ Expired(g) = {} /\ Created(g) = {challenge[g].created}
    BY <1>1 DEF GraphOk
  <2>2. Terminal(g) = 0
    BY <2>1 DEF Terminal, Authorized, Expired
  <2> QED BY <1>0, <1>1, <2>1, <2>2 DEF ValidEventGraph, Authorized, Expired, Created
<1>2. CASE challenge[g].state = "authorized"
  <2>1. PICK i \in Nat : /\ Authorized(g) = {i} /\ Expired(g) = {} /\ challenge[g].created < i
                         /\ Created(g) = {challenge[g].created}
    BY <1>2 DEF GraphOk
  <2>2. Terminal(g) = i
    BY <2>1, TerminalIsClosing DEF ClosedAt
  <2>3. Cardinality(Authorized(g)) <= 1 /\ Cardinality(Expired(g)) <= 1 /\ Authorized(g) # {}
    <3>1. Cardinality(Authorized(g)) = 1 /\ Cardinality(Expired(g)) = 0
      BY <1>0, <2>1, Zenon
    <3> QED BY <2>1, <3>1
  <2> QED BY <1>2, <2>1, <2>2, <2>3 DEF ValidEventGraph, Authorized, Expired, Created
<1>3. CASE challenge[g].state = "expired"
  <2>1. PICK j \in Nat : /\ Expired(g) = {j} /\ challenge[g].created < j
                         /\ \/ Authorized(g) = {}
                            \/ \E i \in Nat : /\ Authorized(g) = {i}
                                              /\ challenge[g].created < i /\ i < j
                         /\ Created(g) = {challenge[g].created}
    BY <1>3 DEF GraphOk
  <2>2. CASE Authorized(g) = {}
    <3>1. Terminal(g) = j
      BY <2>1, <2>2, TerminalIsClosing DEF ClosedAt
    <3> QED BY <1>0, <1>3, <2>1, <2>2, <3>1 DEF ValidEventGraph, Authorized, Expired, Created
  <2>3. CASE \E i \in Nat : Authorized(g) = {i} /\ challenge[g].created < i /\ i < j
    <3>1. PICK i \in Nat : Authorized(g) = {i} /\ challenge[g].created < i /\ i < j
      BY <2>3
    <3>2. Terminal(g) = i
      BY <3>1, TerminalIsClosing DEF ClosedAt
    <3>3. /\ Cardinality(Authorized(g)) <= 1 /\ Cardinality(Expired(g)) <= 1
          /\ Expired(g) # {} /\ \A x \in Authorized(g), y \in Expired(g) : x < y
      <4>1. Cardinality(Authorized(g)) = 1 /\ Cardinality(Expired(g)) = 1
        BY <1>0, <2>1, <3>1, Zenon
      <4> QED BY <2>1, <3>1, <4>1
    <3> QED BY <1>3, <2>1, <3>1, <3>2, <3>3 DEF ValidEventGraph, Authorized, Expired, Created
  <2> QED BY <2>1, <2>2, <2>3
<1> QED BY <1>1, <1>2, <1>3 DEF Stored

LEMMA GrantIsValid ==
  ASSUME NEW g \in Grants, GrantOk(g), Used(g)
  PROVE  ValidGrant(g)
<1>1. PICK s \in Stores : EnrolledAs(g, s)
  BY DEF GrantOk
<1>2. ValidRegistryEvents(g, s)
  <2>1. PICK i \in Nat : EventsOf("used", g) = {i} /\ EventsOf("enrolled", s) = {i + 1}
    BY <1>1 DEF EnrolledAs
  <2>2. \A x : Cardinality({x}) = 1
    BY FS_Singleton
  <2> QED BY <2>1, <2>2 DEF ValidRegistryEvents
<1> QED BY <1>1, <1>2 DEF ValidGrant, EnrolledAs, GrantOk

LEMMA EventIsValid ==
  ASSUME NEW e, EventOk(e)
  PROVE  ValidEvent(e)
<1>1. CASE e.code = "created" /\ e.id \in Grants /\ Stored(e.id) /\ e.at = challenge[e.id].issued
  BY <1>1 DEF ValidEvent, ValidChallengeEvent
<1>2. CASE e.code = "authorized" /\ Receipted(e.id) /\ e.at = receipt[e.id].verified
  BY <1>2 DEF ValidEvent, ValidChallengeEvent
<1>3. CASE e.code = "expired" /\ e.at > challenge[e.id].expires /\ e.at <= lastObserved
  BY <1>3 DEF ValidEvent, ValidChallengeEvent
<1>4. CASE e.code = "used" /\ Used(e.id) /\ e.at = grantUse[e.id]
  BY <1>4 DEF ValidEvent, ValidRegistryEvent
<1>5. CASE e.code = "enrolled" /\ Registered(e.id) /\ e.at = grantUse[store[e.id].grant]
  BY <1>5 DEF ValidEvent, ValidRegistryEvent
<1> QED BY <1>1, <1>2, <1>3, <1>4, <1>5 DEF EventOk

LEMMA InvIsValid == Inv => ValidHistory
<1> SUFFICES ASSUME Inv PROVE ValidHistory
  OBVIOUS
<1>1. \A g \in Grants : Stored(g) => ValidChallenge(g) /\ ValidEventGraph(g)
  <2>1. \A g \in Grants : challenge[g].state \in {"absent", "pending", "authorized", "expired"}
    BY DEF Inv, TypeOK, ChallengeRows
  <2> QED BY <2>1, GraphIsValid DEF Inv, TablesInv, ChallengeOk
<1>2. \A g \in Grants : Used(g) => ValidGrant(g)
  BY GrantIsValid DEF Inv, TablesInv
<1>3. \A s \in Stores : Registered(s) => ValidStore(s)
  BY DEF Inv, TablesInv, StoreOk
<1>4. Cardinality({g \in Grants : Used(g)}) = Cardinality({s \in Stores : Registered(s)})
  BY DEF Inv, TablesInv, CountsOk, UsedGrants, RegisteredStores
<1>5. \A i \in DOMAIN journal : ValidEvent(journal[i])
  BY EventIsValid DEF Inv, TablesInv
<1>6. ValidLifecycles
  <2> SUFFICES ASSUME NEW g \in Grants, NEW h \in Grants, Stored(g), Stored(h),
                      challenge[g].manifest = challenge[h].manifest,
                      challenge[g].created < challenge[h].created
               PROVE  Terminal(g) # 0 /\ Terminal(g) < challenge[h].created
    BY DEF ValidLifecycles
  <2>1. PICK i \in Nat : ClosedAt(g, i) /\ i < challenge[h].created
    BY DEF Inv, TablesInv, InOrder
  <2>2. i \in DOMAIN journal
    <3>1. i \in Authorized(g) \/ i \in Expired(g)
      BY <2>1 DEF ClosedAt
    <3> QED BY <3>1 DEF Authorized, Expired, EventsOf
  <2>3. i # 0
    BY <2>2 DEF Inv, TypeOK
  <2> QED BY <2>1, <2>3, TerminalIsClosing
<1> QED BY <1>1, <1>2, <1>3, <1>4, <1>5, <1>6 DEF ValidHistory

-----------------------------------------------------------------------------
(* What every call keeps.                                                    *)

\* checked_clock never takes the journal's time back.
LEMMA ClockMovesOn ==
  ASSUME TypeOK, NEW observed \in Observations
  PROVE  CheckedClock(observed) \in Times /\ lastObserved <= CheckedClock(observed)
BY AuthorizationAssumption DEF TypeOK, Observations, CheckedClock, Times

\* Rows are only added: a stored challenge keeps everything but its state, a
\* receipt, a use and a registration keep everything.
Persists ==
    /\ lastObserved' \in Times /\ lastObserved <= lastObserved'
    /\ \A g \in Grants : Stored(g) =>
          /\ Stored(g)'
          /\ challenge'[g].manifest = challenge[g].manifest
          /\ challenge'[g].issued = challenge[g].issued
          /\ challenge'[g].expires = challenge[g].expires
          /\ challenge'[g].created = challenge[g].created
    /\ \A g \in Grants : Receipted(g) => receipt'[g] = receipt[g]
    /\ \A g \in Grants : Used(g) => grantUse'[g] = grantUse[g]
    /\ \A s \in Stores : Registered(s) => store'[s] = store[s]

LEMMA KeptEvent ==
  ASSUME Inv, Persists, NEW e \in Events, EventOk(e)
  PROVE  EventOk(e)'
<1>1. lastObserved \in Int /\ lastObserved' \in Int /\ e.at \in Int /\ lastObserved <= lastObserved'
  BY AuthorizationAssumption DEF Inv, TypeOK, Times, Events, Persists
<1>2. ASSUME NEW g \in Grants, Receipted(g) PROVE Receipted(g)'
  BY <1>2 DEF Persists, Receipted
<1>3. ASSUME NEW g \in Grants, Used(g) PROVE Used(g)'
  BY <1>3 DEF Persists, Used
<1>4. ASSUME NEW s \in Stores, Registered(s)
      PROVE  /\ Registered(s)' /\ store[s].grant \in Grants
             /\ grantUse'[store'[s].grant] = grantUse[store[s].grant]
  BY <1>4 DEF Persists, Registered, Inv, TypeOK, TablesInv, StoreOk, ValidStore
<1> QED BY <1>1, <1>2, <1>3, <1>4 DEF EventOk, Persists

LEMMA KeptChallenge ==
  ASSUME Inv, Persists, NEW g \in Grants, challenge'[g] = challenge[g],
         receipt'[g] = receipt[g], nonceUse'[g] = nonceUse[g], grantUse'[g] = grantUse[g]
  PROVE  ChallengeOk(g)'
<1>1. /\ lastObserved \in Int /\ lastObserved' \in Int /\ lastObserved <= lastObserved'
      /\ challenge[g].issued \in Int /\ receipt[g].verified \in Int
  BY AuthorizationAssumption
     DEF Inv, TypeOK, Times, Persists, NoTime, ChallengeRows, ReceiptRows
<1>2. ChallengeOk(g)
  BY DEF Inv, TablesInv
<1>3. /\ Stored(g)' <=> Stored(g)
      /\ Receipted(g)' <=> Receipted(g)
      /\ Used(g)' <=> Used(g)
      /\ NonceUsed(g)' <=> NonceUsed(g)
      /\ ValidReceipt(g)' <=> ValidReceipt(g)
  BY DEF Stored, Receipted, Used, NonceUsed, ValidReceipt
<1> QED BY <1>1, <1>2, <1>3 DEF ChallengeOk, ValidChallenge

LEMMA KeptGraph ==
  ASSUME NEW g \in Grants, GraphOk(g), challenge'[g] = challenge[g],
         Created(g)' = Created(g), Authorized(g)' = Authorized(g), Expired(g)' = Expired(g)
  PROVE  GraphOk(g)'
BY DEF GraphOk, Stored

LEMMA KeptGrant ==
  ASSUME Inv, Persists, NEW g \in Grants, grantUse'[g] = grantUse[g],
         EventsOf("used", g)' = EventsOf("used", g),
         Used(g) => challenge'[g].state = challenge[g].state,
         \A s \in Stores : Registered(s) => EventsOf("enrolled", s)' = EventsOf("enrolled", s)
  PROVE  GrantOk(g)'
<1>1. GrantOk(g) /\ ChallengeOk(g)
  BY DEF Inv, TablesInv
<1>2. CASE ~Used(g)
  BY <1>1, <1>2 DEF GrantOk, Used
<1>3. CASE Used(g)
  <2>1. Stored(g) /\ Receipted(g)
    BY <1>1, <1>3 DEF GrantOk, ChallengeOk, ValidChallenge, Stored
  <2>2. receipt'[g] = receipt[g] /\ challenge'[g].manifest = challenge[g].manifest
    BY <2>1 DEF Persists
  <2>3. PICK s \in Stores : EnrolledAs(g, s)
    BY <1>1, <1>3 DEF GrantOk
  <2>4. Registered(s)
    BY <2>3, AuthorizationAssumption DEF EnrolledAs, Registered, NoStore
  <2>5. store'[s] = store[s] /\ EventsOf("enrolled", s)' = EventsOf("enrolled", s)
    BY <2>4 DEF Persists
  <2>6. EnrolledAs(g, s)'
    BY <2>2, <2>3, <2>5 DEF EnrolledAs, ValidInitialVersion
  <2> QED BY <1>1, <1>3, <2>2, <2>6 DEF GrantOk, Used
<1> QED BY <1>2, <1>3

LEMMA KeptStore ==
  ASSUME Inv, Persists, NEW s \in Stores, store'[s] = store[s],
         EventsOf("enrolled", s)' = EventsOf("enrolled", s)
  PROVE  StoreOk(s)'
<1>1. StoreOk(s)
  BY DEF Inv, TablesInv
<1>2. CASE ~Registered(s)
  BY <1>1, <1>2 DEF StoreOk, Registered
<1>3. CASE Registered(s)
  <2>1. PICK g \in Grants : g = store[s].grant
    BY <1>3 DEF Inv, TypeOK
  <2>2. Receipted(g) /\ Used(g) /\ Stored(g)
    BY <1>1, <1>3, <2>1 DEF StoreOk, ValidStore, Inv, TablesInv, ChallengeOk
  <2>3. /\ receipt'[g] = receipt[g] /\ grantUse'[g] = grantUse[g]
        /\ challenge'[g].manifest = challenge[g].manifest
    BY <2>2 DEF Persists
  <2> QED BY <1>1, <1>3, <2>1, <2>2, <2>3
          DEF StoreOk, ValidStore, ValidInitialVersion, Registered, Receipted, Used
<1> QED BY <1>2, <1>3

\* No new challenge, and no closing event moved: the order stays.
LEMMA KeptOrder ==
  ASSUME Inv, Persists, NEW g \in Grants, NEW h \in Grants, Stored(g), Stored(h),
         \A i \in Nat : ClosedAt(g, i) => ClosedAt(g, i)'
  PROVE  InOrder(g, h)'
<1>1. InOrder(g, h)
  BY DEF Inv, TablesInv
<1>2. /\ challenge'[g].manifest = challenge[g].manifest
      /\ challenge'[h].manifest = challenge[h].manifest
      /\ challenge'[g].created = challenge[g].created
      /\ challenge'[h].created = challenge[h].created
  BY DEF Persists
<1> QED BY <1>1, <1>2 DEF InOrder

-----------------------------------------------------------------------------
(* Appending to the journal.                                                 *)

EventsIn(s, code, id) == {i \in DOMAIN s : s[i].code = code /\ s[i].id = id}

LEMMA AppendFacts ==
  ASSUME NEW S, NEW s \in Seq(S), NEW e \in S
  PROVE  /\ Append(s, e) \in Seq(S) /\ Len(Append(s, e)) = Len(s) + 1
         /\ DOMAIN Append(s, e) = 1..(Len(s) + 1)
         /\ \A i \in DOMAIN s : Append(s, e)[i] = s[i]
         /\ Append(s, e)[Len(s) + 1] = e
         /\ \A c, d : EventsIn(Append(s, e), c, d) =
               IF e.code = c /\ e.id = d THEN EventsIn(s, c, d) \cup {Len(s) + 1}
               ELSE EventsIn(s, c, d)
         /\ \A c, d : EventsIn(s, c, d) \subseteq 1..Len(s)
         /\ Len(s) \in Nat
<1>0. PICK t : t = Append(s, e)
  OBVIOUS
<1>1. /\ t \in Seq(S) /\ t = Append(s, e) /\ Len(t) = Len(s) + 1 /\ t[Len(s) + 1] = e
      /\ \A i \in 1..Len(s) : t[i] = s[i]
  BY <1>0
<1>2. DOMAIN s = 1..Len(s) /\ DOMAIN t = 1..(Len(s) + 1) /\ Len(s) \in Nat
  BY <1>1
<1>3. ASSUME NEW c, NEW d
      PROVE  EventsIn(t, c, d) =
               IF e.code = c /\ e.id = d THEN EventsIn(s, c, d) \cup {Len(s) + 1}
               ELSE EventsIn(s, c, d)
  <2>1. \A i \in 1..(Len(s) + 1) : i \in EventsIn(t, c, d) <=>
           IF i = Len(s) + 1 THEN e.code = c /\ e.id = d ELSE i \in EventsIn(s, c, d)
    BY <1>1, <1>2 DEF EventsIn
  <2>2. EventsIn(t, c, d) \subseteq 1..(Len(s) + 1) /\ EventsIn(s, c, d) \subseteq 1..Len(s)
    BY <1>2 DEF EventsIn
  <2>3. Len(s) + 1 \notin EventsIn(s, c, d) /\ 1..(Len(s) + 1) = (1..Len(s)) \cup {Len(s) + 1}
    BY <2>2, <1>2
  <2>4. CASE e.code = c /\ e.id = d
    <3>1. \A i \in 1..(Len(s) + 1) :
             i \in EventsIn(t, c, d) <=> i \in EventsIn(s, c, d) \cup {Len(s) + 1}
      BY <2>1, <2>4
    <3> QED BY <2>2, <2>3, <2>4, <3>1
  <2>5. CASE ~(e.code = c /\ e.id = d)
    <3>1. \A i \in 1..(Len(s) + 1) : i \in EventsIn(t, c, d) <=> i \in EventsIn(s, c, d)
      BY <2>1, <2>3, <2>5
    <3> QED BY <2>2, <2>3, <2>5, <3>1
  <2> QED BY <2>4, <2>5
<1>4. \A c, d : EventsIn(s, c, d) \subseteq 1..Len(s)
  BY <1>2 DEF EventsIn
<1> QED BY <1>1, <1>2, <1>3, <1>4

\* The journal grows by e: only e's own position is new.
Logs(e) ==
    /\ e \in Events /\ journal \in Seq(Events) /\ journal' \in Seq(Events)
    /\ Len(journal) \in Nat /\ Len(journal') = Len(journal) + 1
    /\ DOMAIN journal' = 1..(Len(journal) + 1) /\ DOMAIN journal = 1..Len(journal)
    /\ \A i \in DOMAIN journal : journal'[i] = journal[i]
    /\ journal'[Len(journal) + 1] = e
    /\ EventsOf(e.code, e.id)' = EventsOf(e.code, e.id) \cup {Len(journal) + 1}
    /\ \A c, d : c # e.code \/ d # e.id => EventsOf(c, d)' = EventsOf(c, d)
    /\ \A c, d : EventsOf(c, d) \subseteq 1..Len(journal)

LEMMA LogsOne ==
  ASSUME journal \in Seq(Events), NEW e \in Events, journal' = Append(journal, e)
  PROVE  Logs(e)
<1>1. /\ journal' \in Seq(Events) /\ Len(journal') = Len(journal) + 1
      /\ DOMAIN journal' = 1..(Len(journal) + 1)
      /\ \A i \in DOMAIN journal : journal'[i] = journal[i]
      /\ journal'[Len(journal) + 1] = e
      /\ \A c, d : EventsIn(journal', c, d) =
            IF e.code = c /\ e.id = d THEN EventsIn(journal, c, d) \cup {Len(journal) + 1}
            ELSE EventsIn(journal, c, d)
      /\ \A c, d : EventsIn(journal, c, d) \subseteq 1..Len(journal)
      /\ Len(journal) \in Nat
  BY AppendFacts
<1>2. \A c, d : EventsOf(c, d) = EventsIn(journal, c, d) /\ EventsOf(c, d)' = EventsIn(journal', c, d)
  BY DEF EventsOf, EventsIn
<1>3. DOMAIN journal = 1..Len(journal)
  OBVIOUS
<1> HIDE DEF EventsOf
<1> QED BY <1>1, <1>2, <1>3 DEF Logs

-----------------------------------------------------------------------------
(* Calls that write no table: the clock moves on, and a caller is told.      *)

LEMMA QuietTables ==
  ASSUME Inv, UNCHANGED tables, lastObserved' \in Times, lastObserved <= lastObserved'
  PROVE  TablesInv'
<1>1. Persists
  BY DEF Persists, tables, Stored
<1>2. \A c, d : EventsOf(c, d)' = EventsOf(c, d)
  BY DEF EventsOf, tables
<1>3. \A g \in Grants : ChallengeOk(g)'
  BY <1>1, KeptChallenge DEF tables
<1>4. \A g \in Grants : GraphOk(g)'
  BY <1>2, KeptGraph DEF tables, Inv, TablesInv, Created, Authorized, Expired
<1>5. \A g \in Grants : GrantOk(g)'
  BY <1>1, <1>2, KeptGrant DEF tables
<1>6. \A s \in Stores : StoreOk(s)'
  BY <1>1, <1>2, KeptStore DEF tables
<1>7. \A i \in DOMAIN journal' : EventOk(journal[i])'
  <2> SUFFICES ASSUME NEW i \in DOMAIN journal PROVE EventOk(journal[i])'
    BY DEF tables
  <2>1. PICK e : e = journal[i]
    OBVIOUS
  <2>2. e \in Events /\ EventOk(e) /\ journal'[i] = e
    BY <2>1 DEF Inv, TypeOK, TablesInv, tables
  <2>3. EventOk(e)'
    BY <2>2, <1>1, KeptEvent
  <2> QED BY <2>2, <2>3
<1>8. \A g, h \in Grants : InOrder(g, h)'
  <2> SUFFICES ASSUME NEW g \in Grants, NEW h \in Grants PROVE InOrder(g, h)'
    OBVIOUS
  <2>1. CASE Stored(g) /\ Stored(h)
    BY <2>1, <1>1, <1>2, KeptOrder DEF ClosedAt, Authorized, Expired
  <2>2. CASE ~(Stored(g) /\ Stored(h))
    BY <2>2 DEF InOrder, Stored, tables
  <2> QED BY <2>1, <2>2
<1>9. CountsOk' /\ OneStoreEach'
  BY DEF Inv, TablesInv, CountsOk, OneStoreEach, UsedGrants, RegisteredStores, Used, Registered,
         tables
<1> QED BY <1>3, <1>4, <1>5, <1>6, <1>7, <1>8, <1>9 DEF TablesInv

\* What was told and answered stays true while the rows persist, the grants
\* told of stay unused and expired challenges stay expired.
LEMMA KeptCallers ==
  ASSUME Inv, Persists,
         \A g \in toldExpired : grantUse'[g] = grantUse[g],
         \A g \in Grants : challenge[g].state = "expired" => challenge'[g].state = "expired"
  PROVE  (\A g \in toldExpired : ToldOk(g)') /\ (\A a \in answers : AnswerOk(a)')
<1>1. ASSUME NEW g \in toldExpired PROVE ToldOk(g)'
  <2>1. g \in Grants /\ ToldOk(g)
    BY DEF Inv, TypeOK, CallersInv
  <2>2. Stored(g)' /\ ~Used(g)'
    BY <1>1, <2>1 DEF ToldOk, Persists, Used
  <2>3. ASSUME Receipted(g), lastObserved > receipt[g].expires
        PROVE  Receipted(g)' /\ lastObserved' > receipt'[g].expires
    <3>1. receipt'[g] = receipt[g]
      BY <2>1, <2>3 DEF Persists
    <3>2. /\ lastObserved \in Int /\ lastObserved' \in Int /\ receipt[g].expires \in Int
          /\ lastObserved <= lastObserved'
      BY <2>1, AuthorizationAssumption
         DEF Inv, TypeOK, Times, Persists, ReceiptRows, Lifetimes, NoTime
    <3> QED BY <2>3, <3>1, <3>2 DEF Receipted
  <2> QED BY <2>1, <2>2, <2>3 DEF ToldOk
<1>2. ASSUME NEW a \in answers PROVE AnswerOk(a)'
  <2>1. a.grant \in Grants /\ AnswerOk(a)
    BY DEF Inv, TypeOK, CallersInv
  <2> QED BY <2>1 DEF AnswerOk, Persists, Receipted, Used
<1> QED BY <1>1, <1>2

-----------------------------------------------------------------------------
(* Calls that write tables.                                                  *)

LEMMA LoggedEvents ==
  ASSUME Inv, Persists, NEW e, Logs(e), EventOk(e)'
  PROVE  \A i \in DOMAIN journal' : EventOk(journal[i])'
<1> SUFFICES ASSUME NEW i \in DOMAIN journal' PROVE EventOk(journal[i])'
  OBVIOUS
<1>1. CASE i \in DOMAIN journal
  <2>1. PICK x : x = journal[i]
    OBVIOUS
  <2>2. x \in Events /\ EventOk(x) /\ journal'[i] = x
    BY <1>1, <2>1 DEF Inv, TypeOK, TablesInv, Logs
  <2>3. EventOk(x)'
    BY <2>2, KeptEvent
  <2> QED BY <2>2, <2>3
<1>2. CASE i = Len(journal) + 1
  <2>1. journal'[i] = e
    BY <1>2 DEF Logs
  <2> QED BY <2>1
<1> QED BY <1>1, <1>2 DEF Logs

\* A challenge that can still be closed has no successor, and closing it or
\* expiring an authorized one moves no closing event.
LEMMA OneChallengeOrder ==
  ASSUME Inv, Persists, NEW g \in Grants,
         \A h \in Grants : Stored(h)' <=> Stored(h),
         \A h \in Grants : h # g =>
            Authorized(h)' = Authorized(h) /\ Expired(h)' = Expired(h),
         \A i \in Nat : ClosedAt(g, i) => ClosedAt(g, i)'
  PROVE  \A x, y \in Grants : InOrder(x, y)'
<1> SUFFICES ASSUME NEW x \in Grants, NEW y \in Grants PROVE InOrder(x, y)'
  OBVIOUS
<1>1. CASE Stored(x) /\ Stored(y)
  <2>1. \A i \in Nat : ClosedAt(x, i) => ClosedAt(x, i)'
    BY DEF ClosedAt
  <2> QED BY <1>1, <2>1, KeptOrder
<1>2. CASE ~(Stored(x) /\ Stored(y))
  BY <1>2 DEF InOrder
<1> QED BY <1>1, <1>2

\* A challenge found expired, by verify_proof or by enroll_store.
LEMMA ExpireKeepsInv ==
  ASSUME Inv, NEW g \in Grants, NEW t \in Times, lastObserved <= t, Expire(g, t),
         challenge[g].state \in {"pending", "authorized"}, ~Used(g), t > challenge[g].expires
  PROVE  Inv'
<1>1. /\ UNCHANGED <<receipt, nonceUse, grantUse, store, answers>>
      /\ toldExpired' = toldExpired \cup {g} /\ lastObserved' = t
  BY DEF Expire, Observe, TellExpired
<1>2. Event("expired", g, t) \in Events
  BY DEF Event, Events
<1>3. Logs(Event("expired", g, t))
  BY <1>2, LogsOne DEF Expire, Inv, TypeOK
<1>4. PICK row : row = [challenge[g] EXCEPT !.state = "expired"]
  OBVIOUS
<1>5. challenge[g] \in ChallengeRows
  BY DEF Inv, TypeOK
<1>6. /\ row \in ChallengeRows /\ row.state = "expired"
      /\ row.manifest = challenge[g].manifest /\ row.issued = challenge[g].issued
      /\ row.expires = challenge[g].expires /\ row.created = challenge[g].created
  BY <1>4, <1>5 DEF ChallengeRows
<1>7. challenge' = [challenge EXCEPT ![g] = row]
  BY <1>4 DEF Expire, Inv, TypeOK
<1>8. /\ challenge' \in [Grants -> ChallengeRows] /\ challenge'[g] = row
      /\ \A h \in Grants : h # g => challenge'[h] = challenge[h]
  BY <1>6, <1>7 DEF Inv, TypeOK
<1>9. TypeOK'
  BY <1>1, <1>3, <1>8 DEF Inv, TypeOK, Registered, Logs
<1>10. \A h \in Grants : Stored(h)' <=> Stored(h)
  BY <1>6, <1>8 DEF Stored
<1>11. Persists
  BY <1>1, <1>6, <1>8, <1>10 DEF Persists
<1>12. /\ Expired(g)' = Expired(g) \cup {Len(journal) + 1}
       /\ \A h \in Grants : h # g => Expired(h)' = Expired(h)
       /\ \A h \in Grants : Created(h)' = Created(h) /\ Authorized(h)' = Authorized(h)
       /\ \A d : EventsOf("used", d)' = EventsOf("used", d)
                    /\ EventsOf("enrolled", d)' = EventsOf("enrolled", d)
  BY <1>3 DEF Logs, Event, Expired, Created, Authorized
<1>13. /\ Expired(g) = {} /\ Created(g) = {challenge[g].created}
       /\ \/ Authorized(g) = {}
          \/ \E i \in Nat : Authorized(g) = {i} /\ challenge[g].created < i
  BY DEF Inv, TablesInv, GraphOk, Stored
<1>14. \A h \in Grants : ChallengeOk(h)'
  <2>1. ChallengeOk(g)'
    <3>1. /\ Stored(g) /\ ChallengeOk(g) /\ Stored(g)'
          /\ (Receipted(g)' <=> Receipted(g)) /\ ~Used(g)' /\ (NonceUsed(g)' <=> NonceUsed(g))
      BY <1>1, <1>10 DEF Inv, TablesInv, Stored, Receipted, Used, NonceUsed
    <3>2. Receipted(g) => ValidReceipt(g) /\ ValidReceipt(g)'
      BY <1>1, <1>6, <1>8, <3>1 DEF ChallengeOk, ValidChallenge, ValidReceipt
    <3>3. /\ lastObserved \in Int /\ t \in Int
          /\ challenge[g].issued \in Int /\ receipt[g].verified \in Int
      BY AuthorizationAssumption DEF Inv, TypeOK, Times, NoTime, ChallengeRows, ReceiptRows
    <3> QED BY <1>1, <1>6, <1>8, <3>1, <3>2, <3>3 DEF ChallengeOk, ValidChallenge
  <2> QED BY <2>1, <1>1, <1>8, <1>11, KeptChallenge
<1>15. \A h \in Grants : GraphOk(h)'
  <2>1. GraphOk(g)'
    <3>1. /\ Expired(g)' = {Len(journal) + 1} /\ Created(g)' = {challenge'[g].created}
          /\ Authorized(g)' = Authorized(g) /\ challenge'[g].created = challenge[g].created
          /\ challenge'[g].state = "expired"
      BY <1>6, <1>8, <1>12, <1>13
    <3>2. Created(g) \subseteq 1..Len(journal) /\ Authorized(g) \subseteq 1..Len(journal)
            /\ Len(journal) \in Nat
      BY <1>3 DEF Logs, Created, Authorized
    <3>3. challenge[g].created \in 1..Len(journal)
      BY <1>13, <3>2
    <3>4. /\ Len(journal) + 1 \in Nat /\ challenge[g].created < Len(journal) + 1
          /\ \A i \in Authorized(g) : i < Len(journal) + 1
      BY <3>2, <3>3
    <3>5. \/ Authorized(g)' = {}
          \/ \E i \in Nat : /\ Authorized(g)' = {i} /\ challenge'[g].created < i
                            /\ i < Len(journal) + 1
      BY <3>1, <3>4, <1>13
    <3> QED BY <1>10, <3>1, <3>4, <3>5 DEF GraphOk, Stored
  <2> QED BY <2>1, <1>8, <1>12, KeptGraph DEF Inv, TablesInv
<1>16. \A h \in Grants : GrantOk(h)'
  BY <1>1, <1>8, <1>11, <1>12, KeptGrant
<1>17. \A s \in Stores : StoreOk(s)'
  BY <1>1, <1>11, <1>12, KeptStore
<1>18. \A i \in DOMAIN journal' : EventOk(journal[i])'
  <2>1. EventOk(Event("expired", g, t))'
    BY <1>1, <1>6, <1>8, <1>10, AuthorizationAssumption DEF EventOk, Event, Stored, Times
  <2> QED BY <1>3, <1>11, <2>1, LoggedEvents
<1>19. \A x, y \in Grants : InOrder(x, y)'
  <2>1. \A i \in Nat : ClosedAt(g, i) => ClosedAt(g, i)'
    BY <1>12, <1>13 DEF ClosedAt
  <2> QED BY <1>10, <1>11, <1>12, <2>1, OneChallengeOrder
<1>20. CountsOk' /\ OneStoreEach'
  BY <1>1 DEF Inv, TablesInv, CountsOk, OneStoreEach, UsedGrants, RegisteredStores, Used, Registered
<1>21. CallersInv'
  <2>1. (\A h \in toldExpired : ToldOk(h)') /\ (\A a \in answers : AnswerOk(a)')
    BY <1>1, <1>6, <1>8, <1>11, KeptCallers
  <2>2. ToldOk(g)'
    BY <1>1, <1>6, <1>8 DEF ToldOk, Stored, Used
  <2> QED BY <1>1, <2>1, <2>2 DEF CallersInv
<1> QED BY <1>9, <1>14, <1>15, <1>16, <1>17, <1>18, <1>19, <1>20, <1>21 DEF Inv, TablesInv

\* The first proof.
LEMMA AuthorizeKeepsInv ==
  ASSUME Inv, NEW g \in Grants, NEW p \in Proofs, NEW observed \in Observations,
         Authorize(g, p, observed)
  PROVE  Inv'
<1>0. PICK t : t = CheckedClock(observed)
  OBVIOUS
<1>1. /\ t \in Times /\ lastObserved <= t /\ t \in Int /\ lastObserved \in Int /\ t # NoTime
  BY <1>0, ClockMovesOn, AuthorizationAssumption DEF Inv, TypeOK, Times, NoTime
<1>2. /\ ~Receipted(g) /\ challenge[g].state = "pending" /\ t <= challenge[g].expires
      /\ p \in Genuine /\ p # None
      /\ receipt' = [receipt EXCEPT
            ![g] = [proof |-> p, verified |-> t, expires |-> challenge[g].expires]]
      /\ nonceUse' = [nonceUse EXCEPT ![g] = t]
      /\ challenge' = [challenge EXCEPT ![g].state = "authorized"]
      /\ journal' = Append(journal, Event("authorized", g, t))
      /\ lastObserved' = t /\ UNCHANGED <<grantUse, store>> /\ Show("verify", g, t)
  BY <1>0, AuthorizationAssumption DEF Authorize, FirstProofVerifies, Observe
<1>3. Event("authorized", g, t) \in Events
  BY <1>1 DEF Event, Events
<1>4. Logs(Event("authorized", g, t))
  BY <1>2, <1>3, LogsOne DEF Inv, TypeOK
<1>5. PICK row : row = [challenge[g] EXCEPT !.state = "authorized"]
  OBVIOUS
<1>6. challenge[g] \in ChallengeRows /\ Stored(g) /\ ChallengeOk(g) /\ ~Used(g)
  BY <1>2 DEF Inv, TypeOK, TablesInv, Stored, GrantOk
<1>7. /\ row \in ChallengeRows /\ row.state = "authorized"
      /\ row.manifest = challenge[g].manifest /\ row.issued = challenge[g].issued
      /\ row.expires = challenge[g].expires /\ row.created = challenge[g].created
  BY <1>5, <1>6 DEF ChallengeRows
<1>8. challenge' = [challenge EXCEPT ![g] = row]
  BY <1>2, <1>5 DEF Inv, TypeOK
<1>9. /\ challenge' \in [Grants -> ChallengeRows] /\ challenge'[g] = row
      /\ \A h \in Grants : h # g => challenge'[h] = challenge[h]
  BY <1>7, <1>8 DEF Inv, TypeOK
<1>10. challenge[g].expires \in Lifetimes
  BY <1>1, <1>2, <1>6, AuthorizationAssumption DEF ChallengeRows, Lifetimes, NoTime, Times
<1>11. PICK r : r = [proof |-> p, verified |-> t, expires |-> challenge[g].expires]
  OBVIOUS
<1>12. /\ r \in ReceiptRows /\ r.proof = p /\ r.verified = t /\ r.expires = challenge[g].expires
       /\ r # NoReceipt
  BY <1>1, <1>2, <1>10, <1>11 DEF ReceiptRows, NoReceipt
<1>13. /\ receipt' \in [Grants -> ReceiptRows] /\ receipt'[g] = r
       /\ \A h \in Grants : h # g => receipt'[h] = receipt[h]
  BY <1>2, <1>11, <1>12 DEF Inv, TypeOK
<1>14. /\ nonceUse' \in [Grants -> Times \cup {NoTime}] /\ nonceUse'[g] = t
       /\ \A h \in Grants : h # g => nonceUse'[h] = nonceUse[h]
  BY <1>1, <1>2 DEF Inv, TypeOK
<1>15. PICK answer : answer = [call |-> "verify", grant |-> g, proof |-> p, at |-> t]
  OBVIOUS
<1>16. /\ answers' = answers \cup {answer} /\ toldExpired' = toldExpired
       /\ answer \in [call : {"verify", "enroll"}, grant : Grants, proof : Proofs, at : Times]
       /\ answer.call = "verify" /\ answer.grant = g /\ answer.proof = p /\ answer.at = t
  <2>1. ~(t > receipt'[g].expires)
    BY <1>1, <1>2, <1>10, <1>12, <1>13, AuthorizationAssumption DEF Lifetimes
  <2>2. toldExpired' = toldExpired
    BY <1>2, <2>1 DEF Show
  <2>3. answers' = answers \cup {answer}
    BY <1>2, <1>12, <1>13, <1>15 DEF Show
  <2> QED BY <1>1, <1>15, <2>2, <2>3
<1>17. TypeOK'
  BY <1>1, <1>2, <1>4, <1>9, <1>13, <1>14, <1>16 DEF Inv, TypeOK, Registered, Logs
<1>18. \A h \in Grants : Stored(h)' <=> Stored(h)
  BY <1>6, <1>7, <1>9 DEF Stored
<1>19. Persists
  BY <1>1, <1>2, <1>7, <1>9, <1>13, <1>18 DEF Persists
<1>20. /\ Authorized(g)' = Authorized(g) \cup {Len(journal) + 1}
       /\ \A h \in Grants : h # g => Authorized(h)' = Authorized(h)
       /\ \A h \in Grants : Created(h)' = Created(h) /\ Expired(h)' = Expired(h)
       /\ \A d : EventsOf("used", d)' = EventsOf("used", d)
                    /\ EventsOf("enrolled", d)' = EventsOf("enrolled", d)
  BY <1>4 DEF Logs, Event, Expired, Created, Authorized
<1>21. Expired(g) = {} /\ Authorized(g) = {} /\ Created(g) = {challenge[g].created}
  BY <1>2, <1>6 DEF Inv, TablesInv, GraphOk
<1>22. \A h \in Grants : ChallengeOk(h)'
  <2>1. ChallengeOk(g)'
    <3>1. ValidReceipt(g)' /\ Receipted(g)' /\ Stored(g)'
      <4>1. challenge[g].issued <= t
        <5>1. challenge[g].issued \in Int /\ challenge[g].issued <= lastObserved
          BY <1>6, AuthorizationAssumption DEF ChallengeRows, ChallengeOk, ValidChallenge, NoTime, Times
        <5> QED BY <5>1, <1>1
      <4> QED BY <4>1, <1>2, <1>6, <1>7, <1>9, <1>12, <1>13, <1>14, <1>18
              DEF ValidReceipt, Receipted
    <3>2. /\ challenge[g].issued \in Int /\ challenge[g].issued <= lastObserved
          /\ challenge[g].manifest \in Manifests
          /\ challenge[g].issued < challenge[g].expires
          /\ challenge[g].expires - challenge[g].issued <= Lifetime
      BY <1>6, AuthorizationAssumption DEF ChallengeRows, ChallengeOk, ValidChallenge, NoTime, Times
    <3>3. ValidChallenge(g)'
      BY <1>1, <1>2, <1>7, <1>9, <3>1, <3>2 DEF ValidChallenge
    <3> QED BY <1>1, <1>2, <1>7, <1>9, <1>12, <1>13, <3>1, <3>2, <3>3 DEF ChallengeOk
  <2> QED BY <2>1, <1>2, <1>9, <1>13, <1>14, <1>19, KeptChallenge
<1>23. \A h \in Grants : GraphOk(h)'
  <2>1. GraphOk(g)'
    <3>1. /\ Authorized(g)' = {Len(journal) + 1} /\ Created(g)' = {challenge'[g].created}
          /\ Expired(g)' = {} /\ challenge'[g].created = challenge[g].created
          /\ challenge'[g].state = "authorized"
      BY <1>7, <1>9, <1>20, <1>21
    <3>2. Created(g) \subseteq 1..Len(journal) /\ Len(journal) \in Nat
      BY <1>4 DEF Logs, Created
    <3>3. Len(journal) + 1 \in Nat /\ challenge[g].created < Len(journal) + 1
      BY <1>21, <3>2
    <3> QED BY <3>1, <3>3 DEF GraphOk, Stored
  <2> QED BY <2>1, <1>9, <1>20, KeptGraph DEF Inv, TablesInv
<1>24. \A h \in Grants : GrantOk(h)'
  BY <1>2, <1>6, <1>9, <1>19, <1>20, KeptGrant
<1>25. \A s \in Stores : StoreOk(s)'
  BY <1>2, <1>19, <1>20, KeptStore
<1>26. \A i \in DOMAIN journal' : EventOk(journal[i])'
  <2>1. EventOk(Event("authorized", g, t))'
    BY <1>12, <1>13 DEF EventOk, Event, Receipted
  <2> QED BY <1>4, <1>19, <2>1, LoggedEvents
<1>27. \A x, y \in Grants : InOrder(x, y)'
  <2>1. \A i \in Nat : ClosedAt(g, i) => ClosedAt(g, i)'
    BY <1>21 DEF ClosedAt
  <2> QED BY <1>18, <1>19, <1>20, <2>1, OneChallengeOrder
<1>28. CountsOk' /\ OneStoreEach'
  BY <1>2 DEF Inv, TablesInv, CountsOk, OneStoreEach, UsedGrants, RegisteredStores, Used, Registered
<1>29. CallersInv'
  <2>1. (\A h \in toldExpired : ToldOk(h)') /\ (\A a \in answers : AnswerOk(a)')
    BY <1>2, <1>7, <1>9, <1>19, KeptCallers
  <2>2. AnswerOk(answer)'
    BY <1>12, <1>13, <1>16 DEF AnswerOk, Receipted
  <2> QED BY <1>16, <2>1, <2>2 DEF CallersInv
<1> QED BY <1>17, <1>22, <1>23, <1>24, <1>25, <1>26, <1>27, <1>28, <1>29 DEF Inv, TablesInv

\* Two events of different kinds in one transaction.
LogsTwo(e, f) ==
    /\ e \in Events /\ f \in Events /\ e.code # f.code
    /\ journal \in Seq(Events) /\ journal' \in Seq(Events)
    /\ Len(journal) \in Nat
    /\ DOMAIN journal' = 1..(Len(journal) + 2) /\ DOMAIN journal = 1..Len(journal)
    /\ \A i \in DOMAIN journal : journal'[i] = journal[i]
    /\ journal'[Len(journal) + 1] = e /\ journal'[Len(journal) + 2] = f
    /\ EventsOf(e.code, e.id)' = EventsOf(e.code, e.id) \cup {Len(journal) + 1}
    /\ EventsOf(f.code, f.id)' = EventsOf(f.code, f.id) \cup {Len(journal) + 2}
    /\ \A c, d : (c # e.code \/ d # e.id) /\ (c # f.code \/ d # f.id) =>
          EventsOf(c, d)' = EventsOf(c, d)
    /\ \A c, d : EventsOf(c, d) \subseteq 1..Len(journal)

LEMMA LogsBoth ==
  ASSUME journal \in Seq(Events), NEW e \in Events, NEW f \in Events, e.code # f.code,
         journal' = Append(Append(journal, e), f)
  PROVE  LogsTwo(e, f)
<1>1. PICK s : s = Append(journal, e)
  OBVIOUS
<1>2. /\ s \in Seq(Events) /\ Len(s) = Len(journal) + 1
      /\ DOMAIN s = 1..(Len(journal) + 1)
      /\ \A i \in DOMAIN journal : s[i] = journal[i]
      /\ s[Len(journal) + 1] = e
      /\ \A c, d : EventsIn(s, c, d) =
            IF e.code = c /\ e.id = d THEN EventsIn(journal, c, d) \cup {Len(journal) + 1}
            ELSE EventsIn(journal, c, d)
      /\ \A c, d : EventsIn(journal, c, d) \subseteq 1..Len(journal)
      /\ Len(journal) \in Nat
  BY <1>1, AppendFacts
<1>3. /\ journal' \in Seq(Events)
      /\ DOMAIN journal' = 1..(Len(s) + 1)
      /\ \A i \in DOMAIN s : journal'[i] = s[i]
      /\ journal'[Len(s) + 1] = f
      /\ \A c, d : EventsIn(journal', c, d) =
            IF f.code = c /\ f.id = d THEN EventsIn(s, c, d) \cup {Len(s) + 1}
            ELSE EventsIn(s, c, d)
  <2>1. s \in Seq(Events) /\ journal' = Append(s, f)
    BY <1>1, <1>2
  <2> QED BY <2>1, AppendFacts
<1>4. \A c, d : EventsOf(c, d) = EventsIn(journal, c, d) /\ EventsOf(c, d)' = EventsIn(journal', c, d)
  BY DEF EventsOf, EventsIn
<1>5. DOMAIN journal = 1..Len(journal) /\ Len(s) + 1 = Len(journal) + 2
  BY <1>2
<1>6. /\ \A i \in DOMAIN journal : journal'[i] = journal[i]
      /\ journal'[Len(journal) + 1] = e /\ journal'[Len(journal) + 2] = f
  BY <1>2, <1>3, <1>5
<1>7. /\ EventsOf(e.code, e.id)' = EventsOf(e.code, e.id) \cup {Len(journal) + 1}
      /\ EventsOf(f.code, f.id)' = EventsOf(f.code, f.id) \cup {Len(journal) + 2}
      /\ \A c, d : (c # e.code \/ d # e.id) /\ (c # f.code \/ d # f.id) =>
            EventsOf(c, d)' = EventsOf(c, d)
  BY <1>2, <1>3, <1>4, <1>5
<1> QED BY <1>2, <1>3, <1>4, <1>5, <1>6, <1>7 DEF LogsTwo

LEMMA LoggedBoth ==
  ASSUME Inv, Persists, NEW e, NEW f, LogsTwo(e, f), EventOk(e)', EventOk(f)'
  PROVE  \A i \in DOMAIN journal' : EventOk(journal[i])'
<1> SUFFICES ASSUME NEW i \in DOMAIN journal' PROVE EventOk(journal[i])'
  OBVIOUS
<1>1. CASE i \in DOMAIN journal
  <2>1. PICK x : x = journal[i]
    OBVIOUS
  <2>2. x \in Events /\ EventOk(x) /\ journal'[i] = x
    BY <1>1, <2>1 DEF Inv, TypeOK, TablesInv, LogsTwo
  <2>3. EventOk(x)'
    BY <2>2, KeptEvent
  <2> QED BY <2>2, <2>3
<1>2. CASE i = Len(journal) + 1
  <2>1. journal'[i] = e
    BY <1>2 DEF LogsTwo
  <2> QED BY <2>1
<1>3. CASE i = Len(journal) + 2
  <2>1. journal'[i] = f
    BY <1>3 DEF LogsTwo
  <2> QED BY <2>1
<1> QED BY <1>1, <1>2, <1>3 DEF LogsTwo

\* enroll_store, with a receipt that is still good.
LEMMA EnrollKeepsInv ==
  ASSUME Inv, NEW g \in Grants, NEW observed \in Observations, Enroll(g, observed)
  PROVE  Inv'
<1>0. PICK t, m, s : /\ t = CheckedClock(observed) /\ m = challenge[g].manifest
                     /\ s = StoreOf[m]
  OBVIOUS
<1>1. t \in Times /\ lastObserved <= t /\ t \in Int /\ lastObserved \in Int /\ t # NoTime
  BY <1>0, ClockMovesOn, AuthorizationAssumption DEF Inv, TypeOK, Times, NoTime
<1>2. /\ ~Used(g) /\ challenge[g].state = "authorized" /\ t <= receipt[g].expires
      /\ Unregistered(m) /\ grantUse' = [grantUse EXCEPT ![g] = t]
      /\ store' = [store EXCEPT ![s] = [location |-> LocationOf[m], grant |-> g, created |-> t]]
      /\ journal' = journal \o <<GrantUsedEvent(g, t), StoreEnrolledEvent(s, t)>>
      /\ lastObserved' = t /\ UNCHANGED <<challenge, receipt, nonceUse>> /\ Show("enroll", g, t)
  BY <1>0 DEF Enroll, InsertGrantUse, Observe
<1>3. /\ Stored(g) /\ Receipted(g) /\ ValidReceipt(g) /\ m \in Manifests /\ s \in Stores
      /\ receipt[g].verified <= lastObserved /\ g # None
  BY <1>0, <1>2, AuthorizationAssumption
     DEF Inv, TablesInv, ChallengeOk, ValidChallenge, Stored
<1>4. PICK e, f : e = GrantUsedEvent(g, t) /\ f = StoreEnrolledEvent(s, t)
  OBVIOUS
<1>5. /\ e \in Events /\ e.code = "used" /\ e.id = g /\ e.at = t
      /\ f \in Events /\ f.code = "enrolled" /\ f.id = s /\ f.at = t
  BY <1>1, <1>3, <1>4 DEF GrantUsedEvent, StoreEnrolledEvent, Event, Events
<1>6. LogsTwo(e, f)
  <2>1. journal \in Seq(Events)
    BY DEF Inv, TypeOK
  <2>2. journal' = Append(Append(journal, e), f)
    BY <1>2, <1>4, <1>5, <2>1
  <2> QED BY <1>5, <2>1, <2>2, LogsBoth
<1>7. PICK row : row = [location |-> LocationOf[m], grant |-> g, created |-> t]
  OBVIOUS
<1>8. /\ row \in StoreRows /\ row.location = LocationOf[m] /\ row.grant = g /\ row.created = t
      /\ row # NoStore
  BY <1>1, <1>3, <1>7 DEF StoreRows, Locations, NoStore
<1>9. /\ store' \in [Stores -> StoreRows] /\ store'[s] = row
      /\ \A x \in Stores : x # s => store'[x] = store[x]
  BY <1>2, <1>3, <1>7, <1>8 DEF Inv, TypeOK
<1>10. /\ grantUse' \in [Grants -> Times \cup {NoTime}] /\ grantUse'[g] = t
       /\ \A h \in Grants : h # g => grantUse'[h] = grantUse[h]
  BY <1>1, <1>2 DEF Inv, TypeOK
<1>11. /\ ~Registered(s) /\ Registered(s)' /\ Used(g)'
       /\ \A x \in Stores : store[x].location # LocationOf[m]
  BY <1>0, <1>1, <1>2, <1>8, <1>9, <1>10 DEF Unregistered, Registered, Used
<1>12. PICK answer : answer = [call |-> "enroll", grant |-> g, proof |-> receipt[g].proof, at |-> t]
  OBVIOUS
<1>13. /\ answers' = answers \cup {answer} /\ toldExpired' = toldExpired
       /\ answer \in [call : {"verify", "enroll"}, grant : Grants, proof : Proofs, at : Times]
       /\ answer.call = "enroll" /\ answer.grant = g /\ answer.proof = receipt[g].proof
       /\ answer.at = t
  <2>1. receipt[g].proof \in Proofs
    BY <1>3, AuthorizationAssumption DEF ValidReceipt
  <2>2. answers' = answers \cup {answer} /\ toldExpired' = toldExpired
    BY <1>2, <1>10, <1>12 DEF Show
  <2> QED BY <1>1, <1>12, <2>1, <2>2
<1>14. TypeOK'
  <2>1. \A x \in Stores : Registered(x)' => store'[x].grant \in Grants
    BY <1>8, <1>9 DEF Inv, TypeOK, Registered
  <2> QED BY <1>1, <1>2, <1>6, <1>9, <1>10, <1>13, <2>1 DEF Inv, TypeOK, LogsTwo
<1>15. Persists
  BY <1>1, <1>2, <1>9, <1>10, <1>11 DEF Persists, Stored
<1>16. /\ EventsOf("used", g)' = EventsOf("used", g) \cup {Len(journal) + 1}
       /\ EventsOf("enrolled", s)' = EventsOf("enrolled", s) \cup {Len(journal) + 2}
       /\ \A h \in Grants : h # g => EventsOf("used", h)' = EventsOf("used", h)
       /\ \A x \in Stores : x # s => EventsOf("enrolled", x)' = EventsOf("enrolled", x)
       /\ \A h \in Grants : /\ Created(h)' = Created(h) /\ Authorized(h)' = Authorized(h)
                            /\ Expired(h)' = Expired(h)
  BY <1>5, <1>6 DEF LogsTwo, Created, Authorized, Expired
<1>17. EventsOf("used", g) = {} /\ EventsOf("enrolled", s) = {} /\ Len(journal) \in Nat
  BY <1>2, <1>3, <1>6, <1>11 DEF Inv, TablesInv, GrantOk, StoreOk, LogsTwo
<1>18. \A h \in Grants : ChallengeOk(h)'
  <2>1. ChallengeOk(g)'
    <3>1. /\ ChallengeOk(g) /\ challenge[g].issued \in Int /\ receipt[g].verified \in Int
          /\ Stored(g)' /\ Receipted(g)' /\ ValidReceipt(g)'
      BY <1>2, <1>3, AuthorizationAssumption
         DEF Inv, TablesInv, TypeOK, ChallengeRows, ReceiptRows, Times, NoTime, Stored, Receipted,
             ValidReceipt
    <3> QED BY <1>1, <1>2, <1>3, <3>1 DEF ChallengeOk, ValidChallenge
  <2> QED BY <2>1, <1>2, <1>10, <1>15, KeptChallenge
<1>19. \A h \in Grants : GraphOk(h)'
  BY <1>2, <1>16, KeptGraph DEF Inv, TablesInv
<1>20. \A h \in Grants : GrantOk(h)'
  <2>1. GrantOk(g)'
    <3>1. /\ EventsOf("used", g)' = {Len(journal) + 1}
          /\ EventsOf("enrolled", s)' = {(Len(journal) + 1) + 1} /\ Len(journal) + 1 \in Nat
      BY <1>16, <1>17
    <3>2. ValidInitialVersion(s)'
      BY <1>0, <1>2, <1>8, <1>9 DEF ValidInitialVersion
    <3>3. EnrolledAs(g, s)'
      BY <1>8, <1>9, <1>10, <3>1, <3>2 DEF EnrolledAs
    <3>4. receipt[g].verified <= t
      BY <1>1, <1>3, AuthorizationAssumption DEF Inv, TypeOK, ReceiptRows, Times, NoTime
    <3> QED BY <1>2, <1>3, <1>10, <1>11, <3>3, <3>4 DEF GrantOk
  <2> QED BY <2>1, <1>2, <1>10, <1>11, <1>15, <1>16, KeptGrant
<1>21. \A x \in Stores : StoreOk(x)'
  <2>1. StoreOk(s)'
    <3>1. ValidInitialVersion(s)'
      BY <1>0, <1>2, <1>8, <1>9 DEF ValidInitialVersion
    <3>2. ValidStore(s)'
      BY <1>2, <1>3, <1>8, <1>9, <1>10, <1>11, <3>1 DEF ValidStore, Receipted
    <3> QED BY <1>11, <3>2 DEF StoreOk
  <2> QED BY <2>1, <1>9, <1>15, <1>16, KeptStore
<1>22. \A i \in DOMAIN journal' : EventOk(journal[i])'
  <2>1. EventOk(e)' /\ EventOk(f)'
    BY <1>3, <1>5, <1>8, <1>9, <1>10, <1>11 DEF EventOk
  <2> QED BY <1>6, <1>15, <2>1, LoggedBoth
<1>23. \A x, y \in Grants : InOrder(x, y)'
  <2>1. \A h \in Grants : Stored(h)' <=> Stored(h)
    BY <1>2 DEF Stored
  <2>2. \A i \in Nat : ClosedAt(g, i) => ClosedAt(g, i)'
    BY <1>16 DEF ClosedAt
  <2> QED BY <1>15, <1>16, <2>1, <2>2, OneChallengeOrder
<1>24. CountsOk'
  <2>1. /\ UsedGrants' = UsedGrants \cup {g} /\ g \notin UsedGrants
        /\ RegisteredStores' = RegisteredStores \cup {s} /\ s \notin RegisteredStores
    BY <1>2, <1>3, <1>9, <1>10, <1>11 DEF UsedGrants, RegisteredStores, Used, Registered
  <2>2. /\ IsFiniteSet(UsedGrants) /\ IsFiniteSet(RegisteredStores)
        /\ Cardinality(UsedGrants) = Cardinality(RegisteredStores)
    BY DEF Inv, TablesInv, CountsOk
  <2>3. /\ IsFiniteSet(UsedGrants \cup {g})
        /\ Cardinality(UsedGrants \cup {g}) = Cardinality(UsedGrants) + 1
    BY <2>1, <2>2, FS_AddElement
  <2>4. /\ IsFiniteSet(RegisteredStores \cup {s})
        /\ Cardinality(RegisteredStores \cup {s}) = Cardinality(RegisteredStores) + 1
    BY <2>1, <2>2, FS_AddElement
  <2> QED BY <2>1, <2>2, <2>3, <2>4 DEF CountsOk
<1>25. OneStoreEach'
  <2>1. OneStoreEach
    BY DEF Inv, TablesInv
  <2> QED BY <1>8, <1>9, <1>11, <2>1 DEF OneStoreEach, Registered
<1>26. CallersInv'
  <2>1. g \notin toldExpired
    <3> SUFFICES ASSUME g \in toldExpired PROVE FALSE
      OBVIOUS
    <3>1. lastObserved > receipt[g].expires
      BY <1>2 DEF Inv, CallersInv, ToldOk
    <3>2. receipt[g].expires \in Int
      BY AuthorizationAssumption DEF Inv, TypeOK, ReceiptRows, Lifetimes, NoTime
    <3> QED BY <1>1, <1>2, <3>1, <3>2
  <2>2. \A h \in toldExpired : grantUse'[h] = grantUse[h]
    BY <1>10, <2>1 DEF Inv, TypeOK
  <2>3. (\A h \in toldExpired : ToldOk(h)') /\ (\A a \in answers : AnswerOk(a)')
    BY <1>2, <1>15, <2>2, KeptCallers
  <2>4. AnswerOk(answer)'
    BY <1>2, <1>3, <1>10, <1>11, <1>13 DEF AnswerOk, Receipted
  <2> QED BY <1>13, <2>3, <2>4 DEF CallersInv
<1> QED BY <1>14, <1>18, <1>19, <1>20, <1>21, <1>22, <1>23, <1>24, <1>25, <1>26 DEF Inv, TablesInv

\* At most one challenge of a context is pending: its successor would have
\* to follow the event that closed it.
LEMMA OnePending ==
  ASSUME Inv, NEW m, NEW x \in Pending(m), NEW y \in Pending(m)
  PROVE  x = y
<1>1. /\ x \in Grants /\ y \in Grants /\ Stored(x) /\ Stored(y)
      /\ challenge[x].state = "pending" /\ challenge[y].state = "pending"
      /\ challenge[x].manifest = challenge[y].manifest
  BY DEF Pending, Stored
<1>2. /\ Created(x) = {challenge[x].created} /\ Authorized(x) = {} /\ Expired(x) = {}
      /\ Created(y) = {challenge[y].created} /\ Authorized(y) = {} /\ Expired(y) = {}
  BY <1>1 DEF Inv, TablesInv, GraphOk
<1>3. ~(challenge[x].created < challenge[y].created) /\ ~(challenge[y].created < challenge[x].created)
  BY <1>1, <1>2 DEF Inv, TablesInv, InOrder, ClosedAt
<1>4. challenge[x].created \in Nat /\ challenge[y].created \in Nat
  BY <1>1 DEF Inv, TypeOK, ChallengeRows
<1>5. challenge[x].created = challenge[y].created
  BY <1>3, <1>4
<1>6. /\ challenge[x].created \in EventsOf("created", x)
      /\ challenge[x].created \in EventsOf("created", y)
  BY <1>2, <1>5 DEF Created
<1> QED BY <1>6 DEF EventsOf

\* The events of create_challenge: at n the new challenge, before it the
\* expiry of the pending one, if there was one.
CreateLogs(g, old, n) ==
    /\ journal' \in Seq(Events) /\ Len(journal) \in Nat /\ n \in Nat /\ Len(journal) < n
    /\ \A c, d : EventsOf(c, d) \subseteq 1..Len(journal)
    /\ Created(g)' = Created(g) \cup {n}
    /\ \A h \in Grants : h # g => Created(h)' = Created(h)
    /\ \A h \in Grants : Authorized(h)' = Authorized(h)
    /\ \A h \in Grants : h \notin old => Expired(h)' = Expired(h)
    /\ \A h \in old : \E i \in Nat : /\ Expired(h)' = Expired(h) \cup {i}
                                     /\ Len(journal) < i /\ i < n
    /\ \A d : /\ EventsOf("used", d)' = EventsOf("used", d)
              /\ EventsOf("enrolled", d)' = EventsOf("enrolled", d)

LEMMA CreateKeepsInv ==
  ASSUME Inv, NEW m \in Manifests, NEW g \in Grants, NEW observed \in Observations,
         NEW expires \in 0..(MaxClock + Lifetime), CreateChallenge(m, g, observed, expires)
  PROVE  Inv'
<1>0. PICK t, old, closed :
         /\ t = CheckedClock(observed) /\ old = Pending(m)
         /\ closed = IF old = {} THEN journal
                     ELSE Append(journal, Event("expired", CHOOSE h \in old : TRUE, t))
  OBVIOUS
<1>1. t \in Times /\ lastObserved <= t /\ t \in Int /\ lastObserved \in Int
  BY <1>0, ClockMovesOn, AuthorizationAssumption DEF Inv, TypeOK, Times
<1>2. PICK row : row = [state |-> "pending", manifest |-> m, issued |-> t,
                        expires |-> expires, created |-> Len(closed) + 1]
  OBVIOUS
<1>3. /\ ~Stored(g)
      /\ \A h \in old : t > challenge[h].expires
      /\ t < expires /\ expires - t <= Lifetime
      /\ challenge' = [h \in Grants |-> IF h = g THEN row
                          ELSE IF h \in old THEN [challenge[h] EXCEPT !.state = "expired"]
                          ELSE challenge[h]]
      /\ journal' = Append(closed, Event("created", g, t))
      /\ lastObserved' = t
      /\ UNCHANGED <<receipt, nonceUse, grantUse, store, answers, toldExpired>>
  <2>1. /\ ~Stored(g) /\ t < expires /\ expires - t <= Lifetime
        /\ \A h \in old : t > challenge[h].expires
        /\ lastObserved' = t
        /\ UNCHANGED <<receipt, nonceUse, grantUse, store, answers, toldExpired>>
    BY <1>0 DEF CreateChallenge, Observe
  <2>2. journal' = Append(closed, Event("created", g, t))
    BY <1>0 DEF CreateChallenge
  <2>3. challenge' = [h \in Grants |-> IF h = g THEN row
                          ELSE IF h \in old THEN [challenge[h] EXCEPT !.state = "expired"]
                          ELSE challenge[h]]
    BY <1>0, <1>2 DEF CreateChallenge
  <2> QED BY <2>1, <2>2, <2>3
<1>4. /\ \A h \in old : /\ h \in Grants /\ challenge[h].state = "pending" /\ h # g
                        /\ Stored(h) /\ challenge[h].manifest = m
      /\ \A h \in Grants : challenge[h].state = "pending" /\ challenge[h].manifest = m => h \in old
  BY <1>0, <1>3 DEF Pending, Stored
<1>5. journal \in Seq(Events) /\ Event("created", g, t) \in Events
  BY <1>1 DEF Inv, TypeOK, Event, Events
<1>6. Len(closed) \in Nat /\ Len(closed) + 1 \in Nat
  <2>1. closed \in Seq(Events)
    <3>1. CASE old = {}
      BY <3>1, <1>0, <1>5
    <3>2. CASE old # {}
      <4>1. PICK h : h = CHOOSE x \in old : TRUE
        OBVIOUS
      <4>2. h \in old
        BY <3>2, <4>1
      <4>3. Event("expired", h, t) \in Events
        BY <1>1, <1>4, <4>2 DEF Event, Events
      <4> QED BY <1>0, <1>5, <3>2, <4>1, <4>3
    <3> QED BY <3>1, <3>2
  <2> QED BY <2>1
<1>7. /\ row \in ChallengeRows /\ row.state = "pending" /\ row.manifest = m /\ row.issued = t
      /\ row.expires = expires /\ row.created = Len(closed) + 1
  BY <1>1, <1>2, <1>6 DEF ChallengeRows, Lifetimes
<1>8. challenge'[g] = row /\ \A h \in Grants : h # g /\ h \notin old => challenge'[h] = challenge[h]
  BY <1>3
<1>9. \A h \in old : /\ challenge'[h] \in ChallengeRows /\ challenge'[h].state = "expired"
                     /\ challenge'[h].manifest = challenge[h].manifest
                     /\ challenge'[h].issued = challenge[h].issued
                     /\ challenge'[h].expires = challenge[h].expires
                     /\ challenge'[h].created = challenge[h].created
  <2> SUFFICES ASSUME NEW h \in old
               PROVE  /\ challenge'[h] \in ChallengeRows /\ challenge'[h].state = "expired"
                      /\ challenge'[h].manifest = challenge[h].manifest
                      /\ challenge'[h].issued = challenge[h].issued
                      /\ challenge'[h].expires = challenge[h].expires
                      /\ challenge'[h].created = challenge[h].created
    OBVIOUS
  <2>1. challenge'[h] = [challenge[h] EXCEPT !.state = "expired"]
    BY <1>3, <1>4
  <2>2. challenge[h] \in ChallengeRows
    BY <1>4 DEF Inv, TypeOK
  <2> QED BY <2>1, <2>2 DEF ChallengeRows
<1>10. challenge' \in [Grants -> ChallengeRows]
  <2>1. \A h \in Grants : challenge'[h] \in ChallengeRows
    BY <1>7, <1>8, <1>9 DEF Inv, TypeOK
  <2> QED BY <2>1, <1>3
<1>11. /\ \A h \in Grants : h # g => (Stored(h)' <=> Stored(h))
       /\ Stored(g)'
  BY <1>4, <1>7, <1>8, <1>9 DEF Stored
<1>12. Persists
  BY <1>1, <1>3, <1>8, <1>9, <1>11 DEF Persists
<1>13. /\ EventOk(Event("created", g, t))'
       /\ \A h \in old : EventOk(Event("expired", h, t))'
  <2>1. EventOk(Event("created", g, t))'
    BY <1>7, <1>8, <1>11 DEF EventOk, Event
  <2>2. ASSUME NEW h \in old PROVE EventOk(Event("expired", h, t))'
    BY <1>1, <1>3, <1>4, <1>9, <1>11 DEF EventOk, Event
  <2> QED BY <2>1, <2>2
<1>14. CreateLogs(g, old, Len(closed) + 1) /\ \A i \in DOMAIN journal' : EventOk(journal[i])'
  <2>1. CASE old = {}
    <3>1. closed = journal /\ Logs(Event("created", g, t))
      BY <2>1, <1>0, <1>3, <1>5, LogsOne
    <3>2. CreateLogs(g, old, Len(closed) + 1)
      BY <2>1, <3>1 DEF CreateLogs, Logs, Event, Created, Authorized, Expired
    <3> QED BY <3>1, <3>2, <1>12, <1>13, LoggedEvents
  <2>2. CASE old # {}
    <3>1. PICK h : h = CHOOSE x \in old : TRUE
      OBVIOUS
    <3>2. h \in old /\ h \in Grants /\ \A x \in old : x = h
      BY <2>2, <3>1, <1>0, <1>4, OnePending
    <3>3. PICK e, f : e = Event("expired", h, t) /\ f = Event("created", g, t)
      OBVIOUS
    <3>4. /\ e \in Events /\ e.code = "expired" /\ e.id = h
          /\ f \in Events /\ f.code = "created" /\ f.id = g
      BY <1>1, <1>5, <3>2, <3>3 DEF Event, Events
    <3>5. closed = Append(journal, e) /\ journal' = Append(Append(journal, e), f)
      BY <1>0, <1>3, <2>2, <3>1, <3>3
    <3>6. LogsTwo(e, f)
      BY <1>5, <3>4, <3>5, LogsBoth
    <3>7. Len(closed) + 1 = Len(journal) + 2
      BY <1>5, <3>4, <3>5
    <3>8. /\ Expired(h)' = Expired(h) \cup {Len(journal) + 1}
          /\ \A x \in Grants : x # h => Expired(x)' = Expired(x)
          /\ Created(g)' = Created(g) \cup {Len(journal) + 2}
          /\ \A x \in Grants : x # g => Created(x)' = Created(x)
          /\ \A x \in Grants : Authorized(x)' = Authorized(x)
          /\ \A d : /\ EventsOf("used", d)' = EventsOf("used", d)
                    /\ EventsOf("enrolled", d)' = EventsOf("enrolled", d)
          /\ journal' \in Seq(Events) /\ Len(journal) \in Nat
          /\ \A c, d : EventsOf(c, d) \subseteq 1..Len(journal)
      BY <3>4, <3>6 DEF LogsTwo, Expired, Created, Authorized
    <3>9. \A x \in old : \E i \in Nat : /\ Expired(x)' = Expired(x) \cup {i}
                                        /\ Len(journal) < i /\ i < Len(journal) + 2
      <4>1. /\ Len(journal) + 1 \in Nat /\ Len(journal) < Len(journal) + 1
            /\ Len(journal) + 1 < Len(journal) + 2
        BY <3>8
      <4> QED BY <3>2, <3>8, <4>1
    <3>10. CreateLogs(g, old, Len(journal) + 2)
      BY <3>2, <3>8, <3>9 DEF CreateLogs
    <3> QED BY <3>2, <3>3, <3>6, <3>7, <3>10, <1>12, <1>13, LoggedBoth
  <2> QED BY <2>1, <2>2
<1>15. TypeOK'
  BY <1>1, <1>3, <1>10, <1>14 DEF Inv, TypeOK, Registered, CreateLogs
<1>16. \A h \in old : ~Receipted(h) /\ ~NonceUsed(h) /\ ~Used(h)
  BY <1>4 DEF Inv, TablesInv, ChallengeOk, ValidChallenge, GrantOk
<1>17. ~Receipted(g) /\ ~NonceUsed(g) /\ ~Used(g) /\ challenge[g].state = "absent"
  BY <1>3 DEF Inv, TablesInv, ChallengeOk, Stored
<1>18. \A h \in Grants : ChallengeOk(h)'
  <2>1. ChallengeOk(g)'
    <3>1. ~Receipted(g)' /\ ~NonceUsed(g)' /\ ~Used(g)'
      BY <1>3, <1>17 DEF Receipted, NonceUsed, Used
    <3>2. ValidChallenge(g)'
      BY <1>1, <1>3, <1>7, <1>8, <3>1 DEF ValidChallenge
    <3> QED BY <1>7, <1>8, <1>11, <3>1, <3>2 DEF ChallengeOk
  <2>2. ASSUME NEW h \in old PROVE ChallengeOk(h)'
    <3>1. ~Receipted(h)' /\ ~NonceUsed(h)' /\ ~Used(h)'
      BY <1>3, <1>16 DEF Receipted, NonceUsed, Used
    <3>2. ChallengeOk(h) /\ Stored(h) /\ challenge[h].issued \in Int
      BY <1>4, AuthorizationAssumption DEF Inv, TablesInv, TypeOK, ChallengeRows, Times, NoTime
    <3>3. ValidChallenge(h)'
      <4>1. /\ challenge[h].issued < challenge[h].expires
            /\ challenge[h].expires - challenge[h].issued <= Lifetime
            /\ challenge[h].issued <= lastObserved
        BY <3>2 DEF ChallengeOk, ValidChallenge
      <4>2. challenge[h].issued <= t
        BY <1>1, <3>2, <4>1
      <4> QED BY <1>3, <1>9, <3>1, <4>1, <4>2 DEF ValidChallenge
    <3> QED BY <1>4, <1>9, <1>11, <3>1, <3>2, <3>3 DEF ChallengeOk
  <2>3. ASSUME NEW h \in Grants, h # g, h \notin old PROVE ChallengeOk(h)'
    BY <2>3, <1>3, <1>8, <1>12, KeptChallenge
  <2> QED BY <2>1, <2>2, <2>3
<1>19. \A h \in Grants : Stored(h) => challenge[h].created \in 1..Len(journal)
  <2> SUFFICES ASSUME NEW h \in Grants, Stored(h) PROVE challenge[h].created \in 1..Len(journal)
    OBVIOUS
  <2>1. challenge[h].created \in Created(h) /\ Created(h) \subseteq 1..Len(journal)
    BY <1>14 DEF Inv, TablesInv, GraphOk, CreateLogs, Created
  <2> QED BY <2>1
<1>20. \A h \in Grants : GraphOk(h)'
  <2>1. GraphOk(g)'
    <3>1. Created(g) = {} /\ Authorized(g) = {} /\ Expired(g) = {}
      BY <1>3 DEF Inv, TablesInv, GraphOk
    <3>2. Created(g)' = {Len(closed) + 1} /\ Authorized(g)' = {} /\ Expired(g)' = {}
      BY <1>4, <1>14, <3>1 DEF CreateLogs
    <3> QED BY <1>7, <1>8, <1>11, <3>2 DEF GraphOk
  <2>2. ASSUME NEW h \in old PROVE GraphOk(h)'
    <3>1. Created(h) = {challenge[h].created} /\ Authorized(h) = {} /\ Expired(h) = {}
      BY <1>4 DEF Inv, TablesInv, GraphOk
    <3>2. PICK i \in Nat : Expired(h)' = Expired(h) \cup {i} /\ Len(journal) < i
      BY <1>14 DEF CreateLogs
    <3>3. challenge[h].created < i
      BY <1>4, <1>14, <1>19, <3>2 DEF CreateLogs
    <3>4. Created(h)' = {challenge[h].created} /\ Authorized(h)' = {} /\ Expired(h)' = {i}
      BY <1>4, <1>14, <3>1, <3>2 DEF CreateLogs
    <3> QED BY <1>4, <1>9, <1>11, <3>2, <3>3, <3>4 DEF GraphOk
  <2>3. ASSUME NEW h \in Grants, h # g, h \notin old PROVE GraphOk(h)'
    BY <2>3, <1>8, <1>14, KeptGraph DEF Inv, TablesInv, CreateLogs
  <2> QED BY <2>1, <2>2, <2>3
<1>21. \A h \in Grants : GrantOk(h)'
  <2>1. \A h \in Grants : Used(h) => challenge'[h].state = challenge[h].state
    BY <1>8, <1>16, <1>17
  <2> QED BY <2>1, <1>3, <1>12, <1>14, KeptGrant DEF CreateLogs
<1>22. \A s \in Stores : StoreOk(s)'
  BY <1>3, <1>12, <1>14, KeptStore DEF CreateLogs
<1>23. \A x, y \in Grants : InOrder(x, y)'
  <2> SUFFICES ASSUME NEW x \in Grants, NEW y \in Grants, Stored(x)', Stored(y)',
                      challenge'[x].manifest = challenge'[y].manifest,
                      challenge'[x].created < challenge'[y].created
               PROVE  \E i \in Nat : ClosedAt(x, i)' /\ i < challenge'[y].created
    BY DEF InOrder
  <2>0. /\ \A h \in Grants : h # g /\ Stored(h)' =>
              /\ Stored(h) /\ challenge'[h].manifest = challenge[h].manifest
              /\ challenge'[h].created = challenge[h].created
        /\ challenge'[g].created = Len(closed) + 1 /\ challenge'[g].manifest = m
        /\ Len(journal) \in Nat /\ Len(journal) < Len(closed) + 1
    BY <1>7, <1>8, <1>11, <1>12, <1>14 DEF Persists, CreateLogs
  <2>1. x # g
    <3> SUFFICES ASSUME x = g PROVE FALSE
      OBVIOUS
    <3>1. y # g
      BY <2>0, <1>6
    <3>2. challenge'[y].created \in 1..Len(journal)
      BY <2>0, <3>1, <1>19
    <3> QED BY <2>0, <3>2, <1>6
  <2>2. CASE y = g /\ x \in old
    <3>1. PICK i \in Nat : Expired(x)' = Expired(x) \cup {i} /\ i < Len(closed) + 1
      BY <2>2, <1>14 DEF CreateLogs
    <3>2. Expired(x) = {} /\ Authorized(x) = {} /\ Authorized(x)' = Authorized(x)
      BY <2>2, <1>4, <1>14 DEF Inv, TablesInv, GraphOk, CreateLogs
    <3>3. ClosedAt(x, i)'
      BY <3>1, <3>2 DEF ClosedAt
    <3> QED BY <2>0, <2>2, <3>1, <3>3
  <2>3. CASE y = g /\ x \notin old
    <3>1. /\ Stored(x) /\ challenge[x].manifest = m /\ challenge[x].state # "pending"
          /\ challenge[x].state \in {"absent", "pending", "authorized", "expired"}
      BY <2>0, <2>1, <2>3, <1>4 DEF Inv, TypeOK, ChallengeRows
    <3>2. PICK i \in Nat : ClosedAt(x, i)
      BY <3>1 DEF Inv, TablesInv, GraphOk, ClosedAt, Stored
    <3>3. i \in Authorized(x) \/ i \in Expired(x)
      BY <3>2 DEF ClosedAt
    <3>4. i \in 1..Len(journal)
      BY <3>3, <1>14 DEF CreateLogs, Authorized, Expired
    <3>5. ClosedAt(x, i)'
      BY <2>3, <3>2, <1>14 DEF ClosedAt, CreateLogs
    <3> QED BY <2>0, <2>3, <3>4, <3>5, <1>6
  <2>4. CASE y # g
    <3>1. Stored(x) /\ Stored(y)
      BY <2>0, <2>1, <2>4
    <3>2. \A i \in Nat : ClosedAt(x, i) => ClosedAt(x, i)'
      <4>1. CASE x \in old
        <5>1. Expired(x) = {} /\ Authorized(x) = {}
          BY <4>1, <1>4 DEF Inv, TablesInv, GraphOk
        <5> QED BY <5>1 DEF ClosedAt
      <4>2. CASE x \notin old
        BY <4>2, <1>14 DEF ClosedAt, CreateLogs
      <4> QED BY <4>1, <4>2
    <3>3. InOrder(x, y)'
      BY <3>1, <3>2, <1>12, KeptOrder
    <3> QED BY <3>3 DEF InOrder
  <2> QED BY <2>2, <2>3, <2>4
<1>24. CountsOk' /\ OneStoreEach'
  BY <1>3 DEF Inv, TablesInv, CountsOk, OneStoreEach, UsedGrants, RegisteredStores, Used, Registered
<1>25. CallersInv'
  <2>1. \A h \in Grants : challenge[h].state = "expired" => challenge'[h].state = "expired"
    BY <1>4, <1>8, <1>17
  <2>2. (\A h \in toldExpired : ToldOk(h)') /\ (\A a \in answers : AnswerOk(a)')
    BY <1>3, <1>12, <2>1, KeptCallers
  <2> QED BY <1>3, <2>2 DEF CallersInv
<1> QED BY <1>14, <1>15, <1>18, <1>20, <1>21, <1>22, <1>23, <1>24, <1>25 DEF Inv, TablesInv

-----------------------------------------------------------------------------
(* The invariant of the specification.                                       *)

\* A receipt or an enrollment shown again.
LEMMA ShowAgain ==
  ASSUME Inv, NEW g \in Grants, NEW call \in {"verify", "enroll"}, NEW t,
         UNCHANGED tables, lastObserved' = t, t \in Times, lastObserved <= t,
         Receipted(g), call = "enroll" => Used(g), Show(call, g, t)
  PROVE  Inv'
<1>1. TablesInv'
  BY QuietTables
<1>2. /\ UNCHANGED <<challenge, receipt, nonceUse, grantUse, store, journal>>
  BY DEF tables
<1>3. Stored(g) /\ ValidReceipt(g)
  BY DEF Inv, TablesInv, ChallengeOk, ValidChallenge
<1>4. PICK answer : answer = [call |-> call, grant |-> g, proof |-> receipt[g].proof,
                        at |-> IF call = "verify" THEN receipt[g].verified ELSE grantUse[g]]
  OBVIOUS
<1>5. answers' = answers \cup {answer}
  BY <1>2, <1>4 DEF Show
<1>6. receipt[g].proof \in Proofs /\ receipt[g].verified \in Times
  BY <1>3, AuthorizationAssumption DEF ValidReceipt, Inv, TablesInv, ChallengeOk
<1>7. Used(g) => grantUse[g] \in Times
  BY DEF Inv, TypeOK, Used
<1>8. /\ answer \in [call : {"verify", "enroll"}, grant : Grants, proof : Proofs, at : Times]
      /\ answer.call = call /\ answer.grant = g /\ answer.proof = receipt[g].proof
      /\ answer.at = IF call = "verify" THEN receipt[g].verified ELSE grantUse[g]
  BY <1>4, <1>6, <1>7
<1>9. \/ toldExpired' = toldExpired
      \/ /\ toldExpired' = toldExpired \cup {g} /\ ~Used(g)
         /\ challenge[g].state = "expired" \/ t > receipt[g].expires
  BY <1>2 DEF Show
<1>10. TypeOK'
  BY <1>2, <1>5, <1>8, <1>9 DEF Inv, TypeOK, Registered
<1>11. (\A h \in toldExpired : ToldOk(h)') /\ (\A a \in answers : AnswerOk(a)')
  <2>1. Persists
    BY <1>2 DEF Persists, Stored
  <2> QED BY <1>2, <2>1, KeptCallers
<1>12. AnswerOk(answer)'
  BY <1>2, <1>8 DEF AnswerOk, Receipted, Used
<1>13. \A h \in toldExpired' : ToldOk(h)'
  BY <1>2, <1>3, <1>9, <1>11 DEF ToldOk, Stored, Used, Receipted
<1> QED BY <1>1, <1>5, <1>10, <1>11, <1>12, <1>13 DEF Inv, CallersInv

\* The clock moves on, and somebody may be told that g has expired.
LEMMA TellAgain ==
  ASSUME Inv, UNCHANGED tables, UNCHANGED answers, lastObserved' \in Times,
         lastObserved <= lastObserved',
         \/ toldExpired' = toldExpired
         \/ \E g \in Grants : /\ toldExpired' = toldExpired \cup {g} /\ ~Used(g)
                              /\ challenge[g].state = "expired"
  PROVE  Inv'
<1>1. TablesInv'
  BY QuietTables
<1>2. UNCHANGED <<challenge, receipt, nonceUse, grantUse, store, journal>>
  BY DEF tables
<1>3. TypeOK'
  BY <1>2 DEF Inv, TypeOK, Registered
<1>4. (\A h \in toldExpired : ToldOk(h)') /\ (\A a \in answers : AnswerOk(a)')
  <2>1. Persists
    BY <1>2 DEF Persists, Stored
  <2> QED BY <1>2, <2>1, KeptCallers
<1>5. \A h \in toldExpired' : ToldOk(h)'
  BY <1>2, <1>4 DEF ToldOk, Stored, Used
<1> QED BY <1>1, <1>3, <1>4, <1>5 DEF Inv, CallersInv

LEMMA InitInv == Init => Inv
<1> SUFFICES ASSUME Init PROVE Inv
  OBVIOUS
<1>1. NoChallenge \in ChallengeRows /\ NoChallenge.state = "absent"
  BY DEF NoChallenge, ChallengeRows
<1>2. NoReceipt \in ReceiptRows /\ NoStore \in StoreRows
  BY DEF NoReceipt, ReceiptRows, NoStore, StoreRows
<1>3. /\ lastObserved = 0 /\ 0 \in Times /\ journal = <<>> /\ journal \in Seq(Events)
      /\ answers = {} /\ toldExpired = {}
  BY AuthorizationAssumption DEF Init, Times
<1>4. /\ \A g \in Grants : /\ challenge[g] = NoChallenge /\ receipt[g] = NoReceipt
                           /\ nonceUse[g] = NoTime /\ grantUse[g] = NoTime
      /\ \A s \in Stores : store[s] = NoStore
  BY DEF Init
<1>5. TypeOK
  BY <1>1, <1>2, <1>3, <1>4 DEF Init, TypeOK, Registered
<1>6. \A c, d : EventsOf(c, d) = {}
  BY <1>3 DEF EventsOf
<1>7. \A g \in Grants : ~Stored(g) /\ ~Receipted(g) /\ ~Used(g) /\ ~NonceUsed(g)
  BY <1>1, <1>4 DEF Stored, Receipted, Used, NonceUsed
<1>8. \A g \in Grants : ChallengeOk(g) /\ GraphOk(g) /\ GrantOk(g)
  BY <1>1, <1>4, <1>6, <1>7 DEF ChallengeOk, GraphOk, GrantOk, Created, Authorized, Expired
<1>9. \A s \in Stores : ~Registered(s) /\ StoreOk(s)
  BY <1>4, <1>6 DEF StoreOk, Registered
<1>10. \A g, h \in Grants : InOrder(g, h)
  BY <1>7 DEF InOrder
<1>11. CountsOk /\ OneStoreEach
  <2>1. UsedGrants = {} /\ RegisteredStores = {}
    BY <1>7, <1>9 DEF UsedGrants, RegisteredStores
  <2> QED BY <1>9, <2>1, FS_EmptySet DEF CountsOk, OneStoreEach
<1> QED BY <1>3, <1>5, <1>8, <1>9, <1>10, <1>11 DEF Inv, TablesInv, CallersInv

LEMMA NextInv == Inv /\ [Next]_vars => Inv'
<1> SUFFICES ASSUME Inv, [Next]_vars PROVE Inv'
  OBVIOUS
<1>1. CASE UNCHANGED vars
  <2>1. lastObserved \in Int /\ lastObserved \in Times
    BY AuthorizationAssumption DEF Inv, TypeOK, Times
  <2> QED BY <1>1, <2>1, TellAgain DEF vars, tables
<1>2. ASSUME NEW observed \in Observations, NEW m \in Manifests, RecoverChallenge(m, observed)
      PROVE  Inv'
  <2>1. CheckedClock(observed) \in Times /\ lastObserved <= CheckedClock(observed)
    BY ClockMovesOn DEF Inv
  <2> QED BY <1>2, <2>1, TellAgain DEF RecoverChallenge, Observe
<1>3. ASSUME NEW observed \in Observations, NEW m \in Manifests, NEW g \in Grants,
             NEW expires \in 0..(MaxClock + Lifetime), CreateChallenge(m, g, observed, expires)
      PROVE  Inv'
  BY <1>3, CreateKeepsInv
<1>4. ASSUME NEW observed \in Observations, NEW g \in Grants
      PROVE  /\ CheckedClock(observed) \in Times /\ lastObserved <= CheckedClock(observed)
             /\ Used(g) => challenge[g].state = "authorized" /\ Receipted(g)
             /\ Receipted(g) => receipt[g].expires = challenge[g].expires
  BY ClockMovesOn DEF Inv, TablesInv, GrantOk, ChallengeOk, ValidChallenge, ValidReceipt, Stored
<1>5. ASSUME NEW observed \in Observations, NEW g \in Grants,
             VerifyExpired(g, observed) \/ EnrollExpired(g, observed)
      PROVE  Inv'
  BY <1>4, <1>5, TellAgain DEF VerifyExpired, EnrollExpired, Observe, TellExpired
<1>6. ASSUME NEW observed \in Observations, NEW g \in Grants,
             VerifyTooLate(g, observed) \/ EnrollTooLate(g, observed)
      PROVE  Inv'
  <2>1. /\ Expire(g, CheckedClock(observed)) /\ ~Used(g)
        /\ challenge[g].state \in {"pending", "authorized"}
        /\ CheckedClock(observed) > challenge[g].expires
    BY <1>4, <1>6 DEF VerifyTooLate, EnrollTooLate
  <2> QED BY <2>1, <1>4, ExpireKeepsInv
<1>7. ASSUME NEW observed \in Observations, NEW g \in Grants, RecoverEnrollment(g, observed)
      PROVE  Inv'
  BY <1>4, <1>7, ShowAgain DEF RecoverEnrollment, Observe
<1>8. ASSUME NEW observed \in Observations, NEW g \in Grants, NEW p \in Proofs,
             RecoverReceipt(g, p, observed)
      PROVE  Inv'
  BY <1>4, <1>8, ShowAgain DEF RecoverReceipt, Observe
<1>9. ASSUME NEW observed \in Observations, NEW g \in Grants, Enroll(g, observed)
      PROVE  Inv'
  BY <1>9, EnrollKeepsInv
<1>10. ASSUME NEW observed \in Observations, NEW g \in Grants, NEW p \in Proofs,
              Authorize(g, p, observed)
       PROVE  Inv'
  BY <1>10, AuthorizeKeepsInv
<1> QED BY <1>1, <1>2, <1>3, <1>5, <1>6, <1>7, <1>8, <1>9, <1>10 DEF Next

LEMMA Invariance == Spec => []Inv
BY InitInv, NextInv, PTL DEF Spec

-----------------------------------------------------------------------------
(* What the project claims of authorization.                                 *)

\* Every table keeps rows of the schema's types.
THEOREM TypeCorrect == Spec => []TypeOK
<1>1. Inv => TypeOK
  BY DEF Inv
<1> QED BY <1>1, Invariance, PTL

\* load_snapshot accepts every journal that accepted calls, retries, expiries
\* and tolerated clock rollbacks can leave.
THEOREM NeverLockedOutHolds == Spec => []NeverLockedOut
<1>1. Inv => NeverLockedOut
  BY InvIsValid DEF NeverLockedOut
<1> QED BY <1>1, Invariance, PTL

\* A grant some caller was told had expired is never used.
THEOREM ExpiryIsFinalHolds == Spec => []ExpiryIsFinal
<1>1. Inv => ExpiryIsFinal
  BY DEF Inv, CallersInv, ToldOk, ExpiryIsFinal
<1> QED BY <1>1, Invariance, PTL

\* enroll_store registers each store, location and grant once, as its
\* manifest says.
THEOREM OneEnrollmentPerIdentityHolds == Spec => []OneEnrollmentPerIdentity
<1>1. ASSUME Inv PROVE OneEnrollmentPerIdentity
  <2>1. ASSUME NEW g \in Grants, Used(g), NEW m, m = challenge[g].manifest
        PROVE  store[StoreOf[m]].grant = g /\ store[StoreOf[m]].location = LocationOf[m]
    <3>1. PICK s \in Stores : EnrolledAs(g, s)
      BY <1>1, <2>1 DEF Inv, TablesInv, GrantOk
    <3> QED BY <2>1, <3>1 DEF EnrolledAs, ValidInitialVersion
  <2>2. ASSUME NEW s1 \in Stores, NEW s2 \in Stores, Registered(s1), Registered(s2),
               store[s1].grant = store[s2].grant \/ store[s1].location = store[s2].location
        PROVE  s1 = s2
    <3>1. CASE store[s1].location = store[s2].location
      BY <1>1, <2>2, <3>1 DEF Inv, TablesInv, OneStoreEach
    <3>2. CASE store[s1].grant = store[s2].grant
      BY <1>1, <2>2, <3>2 DEF Inv, TablesInv, StoreOk, ValidStore, ValidInitialVersion
    <3> QED BY <2>2, <3>1, <3>2
  <2> QED BY <2>1, <2>2 DEF OneEnrollmentPerIdentity
<1> QED BY <1>1, Invariance, PTL

\* Every caller that verify_proof or enroll_store answers about a grant is
\* shown the same receipt and enrollment, resting on one genuine proof.
THEOREM AnswersAgreeHolds == Spec => []AnswersAgree
<1>1. ASSUME Inv PROVE AnswersAgree
  <2> SUFFICES ASSUME NEW a \in answers, NEW b \in answers
               PROVE  /\ a.proof \in Genuine
                      /\ a.grant = b.grant =>
                            a.proof = b.proof /\ (a.call = b.call => a.at = b.at)
    BY DEF AnswersAgree
  <2>1. /\ a.grant \in Grants /\ a.call \in {"verify", "enroll"} /\ AnswerOk(a)
        /\ b.grant \in Grants /\ b.call \in {"verify", "enroll"} /\ AnswerOk(b)
    BY <1>1 DEF Inv, TypeOK, CallersInv
  <2>2. receipt[a.grant].proof \in Genuine
    BY <1>1, <2>1 DEF AnswerOk, Inv, TablesInv, ChallengeOk, ValidChallenge, ValidReceipt
  <2> QED BY <2>1, <2>2 DEF AnswerOk
<1> QED BY <1>1, Invariance, PTL

=============================================================================

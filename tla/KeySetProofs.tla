---------------------------- MODULE KeySetProofs ----------------------------
(***************************************************************************)
(* Proofs about KeySet, for any number of callers and kids, any TTL,       *)
(* cooldowns and timeout, any number of attempts.                          *)
(***************************************************************************)
EXTENDS KeySet, TLAPS

USE DEF Never

(***************************************************************************)
(* Type correctness.                                                       *)
(***************************************************************************)

\* Every action of the key cache keeps the types of its state.
LEMMA TypeStep == TypeOK /\ [Next]_vars => TypeOK'
<1> SUFFICES ASSUME TypeOK, [Next]_vars PROVE TypeOK'
    OBVIOUS
<1> USE KeySetAssumption DEF TypeOK, Phases, Steps, Results, Time
<1>1. CASE Tick
    BY <1>1 DEF Tick, idpVars, cacheVars, flightVars, callerVars
<1>2. ASSUME NEW document_ \in SUBSET Kids, Rotate(document_) PROVE TypeOK'
    BY <1>2 DEF Rotate, cacheVars, flightVars, callerVars
<1>3. CASE ServeDocument
    BY <1>3 DEF ServeDocument, idpVars, cacheVars, callerVars
<1>4. CASE store
    BY <1>4 DEF store, idpVars, callerVars
<1>5. CASE LoadFailsTransiently
    BY <1>5 DEF LoadFailsTransiently, recordFailure, idpVars, cacheVars, callerVars
<1>6. CASE LoadFailsPermanently
    BY <1>6 DEF LoadFailsPermanently, recordFailure, idpVars, callerVars
<1>7. CASE Retry
    BY <1>7 DEF Retry, idpVars, cacheVars, callerVars
<1>8. CASE AbandonRetry
    BY <1>8 DEF AbandonRetry, recordFailure, idpVars, callerVars
<1>9. CASE CompleteFlight
    BY <1>9 DEF CompleteFlight, idpVars, cacheVars
<1>10. ASSUME NEW c \in Callers, Cancel(c) PROVE TypeOK'
    BY <1>10 DEF Cancel, idpVars, cacheVars, flightVars
<1>11. ASSUME NEW c \in Callers, NEW k \in Kids \cup {NoKid}, Key(c, k) PROVE TypeOK'
    BY <1>11 DEF Key, cached, idpVars, cacheVars, flightVars
<1>12. ASSUME NEW c \in Callers, Lead(c) PROVE TypeOK'
    BY <1>12 DEF Lead, idpVars, cacheVars
<1>13. ASSUME NEW c \in Callers, Join(c) PROVE TypeOK'
    BY <1>13 DEF Join, idpVars, cacheVars, flightVars
<1>14. ASSUME NEW c \in Callers, lookup(c) PROVE TypeOK'
    BY <1>14 DEF lookup, idpVars, cacheVars, flightVars
<1>15. CASE UNCHANGED vars
    BY <1>15 DEF vars, idpVars, cacheVars, flightVars, callerVars
<1> QED
    BY <1>1, <1>2, <1>3, <1>4, <1>5, <1>6, <1>7, <1>8, <1>9, <1>10, <1>11, <1>12,
       <1>13, <1>14, <1>15 DEF Next, Flight, Caller

\* The state of the key cache, of its flight and of the callers always has the
\* types the code gives it.
THEOREM TypeCorrect == Spec => []TypeOK
<1>1. Init => TypeOK
    BY KeySetAssumption DEF Init, TypeOK, Phases, Steps, Results, Time
<1> QED
    BY <1>1, TypeStep, PTL DEF Spec

(***************************************************************************)
(* The inductive invariant.  KeyFreshness and UnknownIsTruthful speak of   *)
(* the answers; to hold they need what every stored document says about    *)
(* the IdP (KeysInv), which rests on what the document of the flight says   *)
(* (DocumentInv), and on how the times of the flight relate to the times    *)
(* of the callers it serves.                                               *)
(***************************************************************************)

InFlight == {"load", "answer", "backoff"}

ClockInv ==
    /\ lastRefresh <= now
    /\ lastFailure <= now
    /\ \A c \in Callers : startedAt[c] <= now
    /\ phase \in InFlight => loadStart <= now /\ lastRefresh <= loadStart
    /\ phase \in {"load", "answer"} => now <= loadStart + FetchTimeout
    /\ lastRefresh = Never => keys = {} /\ expiry = 0
    /\ lastRefresh # Never => expiry = lastRefresh + CacheTTL

CallerInv ==
    /\ phase # "none" => pc[leader] = "waiting"
    /\ phase = "stored" => lastRefresh = now
    /\ \A c \in Callers :
        /\ pc[c] \in {"decided", "waiting", "lookup"} => kid[c] \in Kids
        /\ pc[c] # "returned" => result[c] = "none"
        /\ pc[c] = "lookup" => lastRefresh # Never /\ startedAt[c] <= lastRefresh
        /\ pc[c] = "returned" /\ result[c] \in {"key", "unknown"} => kid[c] \in Kids

DecisionInv ==
    \A c \in Callers :
        pc[c] = "decided" /\ lastRefresh # Never
            => \/ startedAt[c] <= lastRefresh
               \/ startedAt[c] >= expiry
               \/ startedAt[c] - lastRefresh >= RefreshCooldown

\* D is what the IdP published at some time t or later.
Snapshot(D, t) ==
    /\ \A k \in D : PublishedSince(k, t)
    /\ \A k \in Kids \ D : AbsentSince(k, t)

DocumentInv == phase = "answer" => Snapshot(document, loadStart)

KeysInv == lastRefresh # Never => Snapshot(keys, lastRefresh - FetchTimeout)

IInv ==
    /\ TypeOK
    /\ ClockInv
    /\ CallerInv
    /\ DecisionInv
    /\ DocumentInv
    /\ KeysInv
    /\ KeyFreshness
    /\ UnknownIsTruthful
    /\ CooldownHasACause
    /\ RefetchOnlyByEarlierDecision

-----------------------------------------------------------------------------
\* What the IdP published stays history: the clock moves on and only Rotate
\* touches the IdP's state.
LEMMA HistoryStep ==
    ASSUME TypeOK, [Next]_vars, NEW k \in Kids, NEW t \in Int, t <= now
    PROVE  /\ PublishedSince(k, t) => PublishedSince(k, t)'
           /\ AbsentSince(k, t) => AbsentSince(k, t)'
<1>1. ASSUME NEW document_ \in SUBSET Kids, Rotate(document_)
      PROVE  /\ PublishedSince(k, t) => PublishedSince(k, t)'
             /\ AbsentSince(k, t) => AbsentSince(k, t)'
    BY <1>1 DEF Rotate, TypeOK, Time, PublishedSince, AbsentSince
<1>2. CASE UNCHANGED <<published, withdrawnAt, addedAt>>
    BY <1>2 DEF PublishedSince, AbsentSince
<1> QED
    BY <1>1, <1>2 DEF Next, Flight, Caller, Tick, ServeDocument, store,
        LoadFailsTransiently, LoadFailsPermanently, Retry, AbandonRetry, CompleteFlight,
        Cancel, Key, Lead, Join, lookup, vars, idpVars

\* A snapshot of the IdP's document stays one.
LEMMA SnapshotStep ==
    ASSUME TypeOK, [Next]_vars, NEW D \in SUBSET Kids, NEW t \in Int, t <= now,
           Snapshot(D, t)
    PROVE  Snapshot(D, t)'
    BY HistoryStep DEF Snapshot

\* The times of the cache and of the flight stay ordered.
LEMMA ClockStep ==
    TypeOK /\ ClockInv /\ CallerInv /\ [Next]_vars => ClockInv'
<1> SUFFICES ASSUME TypeOK, ClockInv, CallerInv, [Next]_vars PROVE ClockInv'
    OBVIOUS
<1> USE KeySetAssumption DEF TypeOK, ClockInv, Time, InFlight
<1>1. CASE Tick
    BY <1>1 DEF Tick, idpVars, cacheVars, flightVars, callerVars
<1>2. ASSUME NEW document_ \in SUBSET Kids, Rotate(document_) PROVE ClockInv'
    BY <1>2 DEF Rotate, cacheVars, flightVars, callerVars
<1>3. CASE ServeDocument
    BY <1>3 DEF ServeDocument, cacheVars, callerVars
<1>4. CASE store
    BY <1>4 DEF store, callerVars
<1>5. CASE LoadFailsTransiently
    BY <1>5 DEF LoadFailsTransiently, recordFailure, cacheVars, callerVars
<1>6. CASE LoadFailsPermanently
    BY <1>6 DEF LoadFailsPermanently, recordFailure, callerVars
<1>7. CASE Retry
    BY <1>7 DEF Retry, cacheVars, callerVars
<1>8. CASE AbandonRetry
    BY <1>8 DEF AbandonRetry, recordFailure, callerVars
<1>9. CASE CompleteFlight
    BY <1>9 DEF CompleteFlight, cacheVars
<1>10. ASSUME NEW c \in Callers, Cancel(c) PROVE ClockInv'
    BY <1>10 DEF Cancel, cacheVars, flightVars
<1>11. ASSUME NEW c \in Callers, NEW k \in Kids \cup {NoKid}, Key(c, k) PROVE ClockInv'
    BY <1>11 DEF Key, cacheVars, flightVars
<1>12. ASSUME NEW c \in Callers, Lead(c) PROVE ClockInv'
    BY <1>12 DEF Lead, cacheVars
<1>13. ASSUME NEW c \in Callers, Join(c) PROVE ClockInv'
    BY <1>13 DEF Join, cacheVars, flightVars
<1>14. ASSUME NEW c \in Callers, lookup(c) PROVE ClockInv'
    BY <1>14 DEF lookup, cacheVars, flightVars
<1>15. CASE UNCHANGED vars
    BY <1>15 DEF vars, cacheVars, flightVars, callerVars
<1> QED
    BY <1>1, <1>2, <1>3, <1>4, <1>5, <1>6, <1>7, <1>8, <1>9, <1>10, <1>11, <1>12,
       <1>13, <1>14, <1>15 DEF Next, Flight, Caller

\* The flight belongs to a waiting caller and whoever leaves it to look its kid
\* up does so in a document stored after its call.
LEMMA CallerStep ==
    TypeOK /\ ClockInv /\ CallerInv /\ [Next]_vars => CallerInv'
<1> SUFFICES ASSUME TypeOK, ClockInv, CallerInv, [Next]_vars PROVE CallerInv'
    OBVIOUS
<1> USE KeySetAssumption DEF TypeOK, CallerInv, Time
<1>1. CASE Tick
    BY <1>1 DEF Tick, cacheVars, flightVars, callerVars
<1>2. ASSUME NEW document_ \in SUBSET Kids, Rotate(document_) PROVE CallerInv'
    BY <1>2 DEF Rotate, cacheVars, flightVars, callerVars
<1>3. CASE ServeDocument
    BY <1>3 DEF ServeDocument, cacheVars, callerVars
<1>4. CASE store
    BY <1>4 DEF store, callerVars, ClockInv
<1>5. CASE LoadFailsTransiently
    BY <1>5 DEF LoadFailsTransiently, recordFailure, cacheVars, callerVars
<1>6. CASE LoadFailsPermanently
    BY <1>6 DEF LoadFailsPermanently, recordFailure, callerVars
<1>7. CASE Retry
    BY <1>7 DEF Retry, cacheVars, callerVars
<1>8. CASE AbandonRetry
    BY <1>8 DEF AbandonRetry, recordFailure, callerVars
<1>9. CASE CompleteFlight
    BY <1>9 DEF CompleteFlight, cacheVars, Steps, Results, ClockInv
<1>10. ASSUME NEW c \in Callers, Cancel(c) PROVE CallerInv'
    BY <1>10 DEF Cancel, cacheVars, flightVars
<1>11. ASSUME NEW c \in Callers, NEW k \in Kids \cup {NoKid}, Key(c, k) PROVE CallerInv'
    BY <1>11 DEF Key, cached, cacheVars, flightVars, Steps, Results
<1>12. ASSUME NEW c \in Callers, Lead(c) PROVE CallerInv'
    BY <1>12 DEF Lead, cacheVars, Steps
<1>13. ASSUME NEW c \in Callers, Join(c) PROVE CallerInv'
    BY <1>13 DEF Join, cacheVars, flightVars, Steps
<1>14. ASSUME NEW c \in Callers, lookup(c) PROVE CallerInv'
    BY <1>14 DEF lookup, cacheVars, flightVars, Steps, Results
<1>15. CASE UNCHANGED vars
    BY <1>15 DEF vars, cacheVars, flightVars, callerVars
<1> QED
    BY <1>1, <1>2, <1>3, <1>4, <1>5, <1>6, <1>7, <1>8, <1>9, <1>10, <1>11, <1>12,
       <1>13, <1>14, <1>15 DEF Next, Flight, Caller

\* A caller decides to fetch only when the stored document cannot answer it.
LEMMA DecisionStep ==
    TypeOK /\ ClockInv /\ DecisionInv /\ [Next]_vars => DecisionInv'
<1> SUFFICES ASSUME TypeOK, ClockInv, DecisionInv, [Next]_vars PROVE DecisionInv'
    OBVIOUS
<1> USE KeySetAssumption DEF TypeOK, DecisionInv, Time
<1>1. CASE store
    BY <1>1 DEF store, callerVars, ClockInv
<1>2. ASSUME NEW c \in Callers, NEW k \in Kids \cup {NoKid}, Key(c, k) PROVE DecisionInv'
    BY <1>2 DEF Key, cached, Unexpired, RecentlyRefreshed, cacheVars, Steps
<1>3. CASE CompleteFlight
    BY <1>3 DEF CompleteFlight, cacheVars, Steps
<1>4. ASSUME NEW c \in Callers, Lead(c) \/ Join(c) \/ lookup(c) PROVE DecisionInv'
    BY <1>4 DEF Lead, Join, lookup, cacheVars, Steps
<1>5. CASE UNCHANGED <<lastRefresh, expiry, pc, startedAt>>
    BY <1>5
<1> QED
    BY <1>1, <1>2, <1>3, <1>4, <1>5 DEF Next, Flight, Caller, Tick, Rotate, ServeDocument,
        LoadFailsTransiently, LoadFailsPermanently, Retry, AbandonRetry, recordFailure,
        Cancel, vars, cacheVars, callerVars

\* The document of the flight is a snapshot taken after the request was sent,
\* and so the stored one is a snapshot no older than one attempt.
LEMMA DocumentStep ==
    TypeOK /\ ClockInv /\ DocumentInv /\ KeysInv /\ [Next]_vars => DocumentInv' /\ KeysInv'
<1> SUFFICES ASSUME TypeOK, ClockInv, DocumentInv, KeysInv, [Next]_vars
             PROVE  DocumentInv' /\ KeysInv'
    OBVIOUS
<1> USE KeySetAssumption DEF Time
<1>1. phase = "answer" => Snapshot(document, loadStart)'
                          \/ document' # document \/ loadStart' # loadStart
    <2>1. SUFFICES ASSUME phase = "answer", document' = document, loadStart' = loadStart
                   PROVE  Snapshot(document, loadStart)'
        OBVIOUS
    <2>2. \A k \in document : PublishedSince(k, loadStart)'
        BY <2>1, HistoryStep DEF DocumentInv, Snapshot, ClockInv, InFlight, TypeOK
    <2>3. \A k \in Kids \ document : AbsentSince(k, loadStart)'
        BY <2>1, HistoryStep DEF DocumentInv, Snapshot, ClockInv, InFlight, TypeOK
    <2> QED BY <2>1, <2>2, <2>3 DEF Snapshot
<1>2. lastRefresh # Never /\ keys' = keys /\ lastRefresh' = lastRefresh
        => Snapshot(keys, lastRefresh - FetchTimeout)'
    <2>1. SUFFICES ASSUME lastRefresh # Never, keys' = keys, lastRefresh' = lastRefresh
                   PROVE  Snapshot(keys, lastRefresh - FetchTimeout)'
        OBVIOUS
    <2> DEFINE t == lastRefresh - FetchTimeout
    <2>2. t \in Int /\ t <= now /\ t' = t
        BY <2>1 DEF ClockInv, TypeOK
    <2>3. \A k \in keys : PublishedSince(k, t)'
        BY <2>1, <2>2, HistoryStep DEF KeysInv, Snapshot, TypeOK
    <2>4. \A k \in Kids \ keys : AbsentSince(k, t)'
        BY <2>1, <2>2, HistoryStep DEF KeysInv, Snapshot, TypeOK
    <2> QED BY <2>1, <2>2, <2>3, <2>4 DEF Snapshot
<1>3. CASE ServeDocument
    <2>1. Snapshot(document, loadStart)'
        BY <1>3 DEF ServeDocument, Snapshot, PublishedSince, AbsentSince, idpVars, TypeOK
    <2> QED BY <1>2, <1>3, <2>1 DEF ServeDocument, DocumentInv, KeysInv, cacheVars
<1>4. CASE store
    <2>1. \A k \in document : PublishedSince(k, now - FetchTimeout)
        BY <1>4 DEF store, DocumentInv, Snapshot, ClockInv, PublishedSince, TypeOK
    <2>2. \A k \in Kids \ document : AbsentSince(k, now - FetchTimeout)
        BY <1>4 DEF store, DocumentInv, Snapshot, ClockInv, AbsentSince, TypeOK
    <2>3. Snapshot(keys, lastRefresh - FetchTimeout)'
        BY <1>4, <2>1, <2>2 DEF store, Snapshot, PublishedSince, AbsentSince, idpVars
    <2> QED BY <1>4, <2>3 DEF store, DocumentInv, KeysInv
<1>5. CASE UNCHANGED <<keys, lastRefresh>> /\ phase' # "answer"
    BY <1>2, <1>5 DEF DocumentInv, KeysInv
<1>6. CASE UNCHANGED <<keys, lastRefresh, phase, document, loadStart>>
    BY <1>1, <1>2, <1>6 DEF DocumentInv, KeysInv
<1> QED
    BY <1>3, <1>4, <1>5, <1>6 DEF Next, Flight, Caller, Tick, Rotate,
        LoadFailsTransiently, LoadFailsPermanently, Retry, AbandonRetry, CompleteFlight,
        recordFailure, Cancel, Key, Lead, Join, lookup, vars, cacheVars, flightVars

\* An answer given by this step is fresh; one given earlier stays so.
LEMMA FreshnessStep ==
    IInv /\ [Next]_vars => KeyFreshness' /\ UnknownIsTruthful'
<1> SUFFICES ASSUME IInv, [Next]_vars, NEW d \in Callers
             PROVE  /\ (pc[d] = "returned" /\ result[d] = "key")'
                        => PublishedSince(kid[d], startedAt[d] - (CacheTTL + FetchTimeout))'
                    /\ (pc[d] = "returned" /\ result[d] = "unknown")'
                        => AbsentSince(kid[d], startedAt[d] - (RefreshCooldown + FetchTimeout))'
    BY DEF KeyFreshness, UnknownIsTruthful
<1> USE KeySetAssumption DEF IInv, TypeOK, Time
<1> DEFINE keyBound == startedAt[d] - (CacheTTL + FetchTimeout)
           unknownBound == startedAt[d] - (RefreshCooldown + FetchTimeout)
<1>1. ASSUME NEW k \in Kids \cup {NoKid}, Key(d, k)
      PROVE  /\ (pc[d] = "returned" /\ result[d] = "key")' => PublishedSince(kid[d], keyBound)'
             /\ (pc[d] = "returned" /\ result[d] = "unknown")' => AbsentSince(kid[d], unknownBound)'
    <2>1. kid'[d] = k /\ startedAt'[d] = now /\ UNCHANGED <<now, published, withdrawnAt, addedAt>>
        BY <1>1 DEF Key, idpVars
    <2>2. result'[d] = "key" => k \in keys /\ now < expiry
        BY <1>1 DEF Key, cached, Unexpired, Results
    <2>3. result'[d] = "unknown" => k \in Kids \ keys /\ now < expiry /\ now - lastRefresh < RefreshCooldown
        BY <1>1 DEF Key, cached, Unexpired, RecentlyRefreshed, Results
    <2>4. now < expiry => lastRefresh # Never /\ expiry = lastRefresh + CacheTTL
        BY DEF ClockInv
    <2>5. result'[d] = "key" => PublishedSince(k, now - (CacheTTL + FetchTimeout))
        BY <2>2, <2>4 DEF KeysInv, Snapshot, PublishedSince
    <2>6. result'[d] = "unknown" => AbsentSince(k, now - (RefreshCooldown + FetchTimeout))
        BY <2>3, <2>4 DEF KeysInv, Snapshot, AbsentSince
    <2> QED BY <2>1, <2>5, <2>6 DEF PublishedSince, AbsentSince
<1>2. ASSUME lookup(d)
      PROVE  /\ (pc[d] = "returned" /\ result[d] = "key")' => PublishedSince(kid[d], keyBound)'
             /\ (pc[d] = "returned" /\ result[d] = "unknown")' => AbsentSince(kid[d], unknownBound)'
    <2>1. UNCHANGED <<kid, startedAt, published, withdrawnAt, addedAt>>
        BY <1>2 DEF lookup, idpVars
    <2>2. kid[d] \in Kids /\ lastRefresh # Never /\ startedAt[d] <= lastRefresh
        BY <1>2 DEF lookup, CallerInv
    <2>3. result'[d] = "key" => PublishedSince(kid[d], keyBound)
        BY <1>2, <2>2 DEF lookup, KeysInv, Snapshot, PublishedSince, Results
    <2>4. result'[d] = "unknown" => AbsentSince(kid[d], unknownBound)
        BY <1>2, <2>2 DEF lookup, KeysInv, Snapshot, AbsentSince, Results
    <2> QED BY <2>1, <2>3, <2>4 DEF PublishedSince, AbsentSince
<1>3. CASE /\ kid'[d] = kid[d] /\ startedAt'[d] = startedAt[d]
           /\ \A r \in {"key", "unknown"} :
                (pc[d] = "returned" /\ result[d] = r)' => pc[d] = "returned" /\ result[d] = r
    <2>1. keyBound \in Int /\ keyBound <= now /\ unknownBound \in Int /\ unknownBound <= now
        BY DEF ClockInv
    <2>2. pc[d] = "returned" /\ result[d] \in {"key", "unknown"} => kid[d] \in Kids
        BY DEF CallerInv
    <2>3. pc[d] = "returned" /\ result[d] = "key" => PublishedSince(kid[d], keyBound)'
        <3>1. SUFFICES ASSUME pc[d] = "returned", result[d] = "key"
                       PROVE  PublishedSince(kid[d], keyBound)'
            OBVIOUS
        <3>2. PublishedSince(kid[d], keyBound)
            BY <3>1 DEF KeyFreshness
        <3> DEFINE k == kid[d]  t == keyBound
        <3>3. k \in Kids BY <2>2, <3>1
        <3> QED BY <1>3, <2>1, <3>2, <3>3, HistoryStep DEF PublishedSince
    <2>4. pc[d] = "returned" /\ result[d] = "unknown" => AbsentSince(kid[d], unknownBound)'
        BY <1>3, <2>1, <2>2, HistoryStep DEF UnknownIsTruthful, AbsentSince
    <2> QED BY <1>3, <2>3, <2>4
<1>4. ASSUME NEW c \in Callers \ {d}, Cancel(c) \/ (\E k \in Kids \cup {NoKid} : Key(c, k)) \/ Caller(c)
      PROVE  kid'[d] = kid[d] /\ startedAt'[d] = startedAt[d] /\ pc'[d] = pc[d] /\ result'[d] = result[d]
    BY <1>4 DEF Cancel, Key, Caller, Lead, Join, lookup
<1>5. ASSUME Cancel(d) \/ Lead(d) \/ Join(d)
      PROVE  /\ kid'[d] = kid[d] /\ startedAt'[d] = startedAt[d] /\ result'[d] = result[d]
             /\ pc'[d] = "returned" => pc[d] = "returned"
    BY <1>5 DEF Cancel, Lead, Join, Steps
<1>6. ASSUME CompleteFlight
      PROVE  /\ kid'[d] = kid[d] /\ startedAt'[d] = startedAt[d]
             /\ result'[d] \in {"key", "unknown"}
                 => (pc'[d] = pc[d] /\ result'[d] = result[d]) \/ pc'[d] = "lookup"
    BY <1>6 DEF CompleteFlight, Steps, Results
<1>7. ASSUME \/ Tick \/ \E document_ \in SUBSET Kids : Rotate(document_)
             \/ (Flight /\ ~CompleteFlight) \/ UNCHANGED vars
      PROVE  kid'[d] = kid[d] /\ startedAt'[d] = startedAt[d] /\ pc'[d] = pc[d] /\ result'[d] = result[d]
    BY <1>7 DEF Tick, Rotate, Flight, ServeDocument, store, LoadFailsTransiently,
        LoadFailsPermanently, Retry, AbandonRetry, vars, callerVars
<1> QED
    BY <1>1, <1>2, <1>3, <1>4, <1>5, <1>6, <1>7 DEF Next, Caller

\* recordFailure keeps quiet under an ended context, and under a live one the
\* attempt that ended has just failed by itself.
LEMMA CooldownStep ==
    IInv /\ [Next]_vars => CooldownHasACause'
<1> SUFFICES ASSUME IInv, [Next]_vars PROVE CooldownHasACause'
    OBVIOUS
<1> USE DEF IInv, TypeOK, Time, ClockInv, CooldownHasACause
<1>1. CASE store
    BY <1>1 DEF store
<1>2. CASE LoadFailsTransiently
    BY <1>2 DEF LoadFailsTransiently, recordFailure, cacheVars
<1>3. CASE LoadFailsPermanently
    BY <1>3 DEF LoadFailsPermanently, recordFailure
<1>4. CASE AbandonRetry
    BY <1>4 DEF AbandonRetry, recordFailure
<1>5. CASE UNCHANGED <<lastFailure, lastFault>>
    BY <1>5
<1> QED
    BY <1>1, <1>2, <1>3, <1>4, <1>5 DEF Next, Flight, Caller, Tick, Rotate, ServeDocument,
        Retry, CompleteFlight, Cancel, Key, Lead, Join, lookup, vars, cacheVars, flightVars

\* A flight inside the refresh cooldown was decided on before the document.
LEMMA RefetchStep ==
    IInv /\ [Next]_vars => RefetchOnlyByEarlierDecision'
<1> SUFFICES ASSUME IInv, [Next]_vars PROVE RefetchOnlyByEarlierDecision'
    OBVIOUS
<1> USE KeySetAssumption DEF IInv, TypeOK, Time, ClockInv, RefetchOnlyByEarlierDecision
<1>1. ASSUME NEW c \in Callers, Lead(c) PROVE RefetchOnlyByEarlierDecision'
    BY <1>1 DEF Lead, DecisionInv, cacheVars
<1>2. CASE store
    BY <1>2 DEF store, callerVars
<1>3. CASE Retry
    BY <1>3 DEF Retry, cacheVars, callerVars, InFlight
<1>4. CASE CompleteFlight
    BY <1>4 DEF CompleteFlight
<1>5. ASSUME NEW c \in Callers, NEW k \in Kids \cup {NoKid}, Key(c, k)
      PROVE  RefetchOnlyByEarlierDecision'
    BY <1>5 DEF Key, CallerInv, cacheVars, flightVars
<1>6. CASE /\ UNCHANGED <<lastRefresh, expiry, loadStart, leader, startedAt>>
           /\ phase = "none" => phase' = "none"
    BY <1>6
<1> QED
    BY <1>1, <1>2, <1>3, <1>4, <1>5, <1>6 DEF Next, Flight, Caller, Tick, Rotate,
        ServeDocument, LoadFailsTransiently, LoadFailsPermanently, AbandonRetry,
        recordFailure, Cancel, Join, lookup, vars, cacheVars, flightVars, callerVars

\* IInv is inductive.
LEMMA Invariance == Spec => []IInv
<1>1. Init => IInv
    <2>1. Init => TypeOK
        BY KeySetAssumption DEF Init, TypeOK, Phases, Steps, Results, Time
    <2>2. Init => ClockInv /\ CallerInv /\ DecisionInv
        BY KeySetAssumption DEF Init, ClockInv, CallerInv, DecisionInv, InFlight
    <2>3. Init => /\ DocumentInv /\ KeysInv /\ KeyFreshness /\ UnknownIsTruthful
                  /\ CooldownHasACause /\ RefetchOnlyByEarlierDecision
        BY DEF Init, DocumentInv, KeysInv, KeyFreshness, UnknownIsTruthful,
               CooldownHasACause, RefetchOnlyByEarlierDecision
    <2> QED BY <2>1, <2>2, <2>3 DEF IInv
<1>2. IInv /\ [Next]_vars => IInv'
    BY TypeStep, ClockStep, CallerStep, DecisionStep, DocumentStep, FreshnessStep,
       CooldownStep, RefetchStep DEF IInv
<1> QED
    BY <1>1, <1>2, PTL DEF Spec

\* A key Key hands out was published within the TTL plus one attempt.
THEOREM ServedKeysAreFresh == Spec => []KeyFreshness
<1>1. IInv => KeyFreshness
    BY DEF IInv
<1> QED
    BY <1>1, Invariance, PTL

\* A key published for longer than the refresh cooldown plus one attempt is
\* never reported unknown.
THEOREM UnknownKeysAreTruthful == Spec => []UnknownIsTruthful
<1>1. IInv => UnknownIsTruthful
    BY DEF IInv
<1> QED
    BY <1>1, Invariance, PTL

\* No canceled request puts the key cache into its failure cooldown.
THEOREM CooldownsHaveACause == Spec => []CooldownHasACause
<1>1. IInv => CooldownHasACause
    BY DEF IInv
<1> QED
    BY <1>1, Invariance, PTL

\* Inside the refresh cooldown only an earlier decision starts a fetch.
THEOREM RefetchesAreDecidedEarlier == Spec => []RefetchOnlyByEarlierDecision
<1>1. IInv => RefetchOnlyByEarlierDecision
    BY DEF IInv
<1> QED
    BY <1>1, Invariance, PTL

-----------------------------------------------------------------------------
(* The refinement.                                                         *)

\* What cached answers may be answered at once.
LEMMA CachedIsRight ==
    ASSUME IInv, NEW k \in Kids, cached(k) # "fetch"
    PROVE  Lookup!AtOnce(cached(k), k)
<1> USE KeySetAssumption DEF TypeOK, Time, Lookup!Never
<1>0. TypeOK /\ ClockInv
    BY DEF IInv
<1>1. CASE Unexpired /\ k \in keys
    <2>1. lastRefresh # Never /\ now < lastRefresh + CacheTTL
        BY <1>0, <1>1 DEF ClockInv, Unexpired
    <2>2. PublishedSince(k, lastRefresh - FetchTimeout)
        BY <1>1, <2>1 DEF IInv, KeysInv, Snapshot
    <2>3. PublishedSince(k, now - (CacheTTL + FetchTimeout))
        BY <1>0, <2>1, <2>2 DEF PublishedSince
    <2>4. cached(k) = "key"
        BY <1>1 DEF cached
    <2> QED BY <2>3, <2>4 DEF Lookup!AtOnce, Lookup!Right, PublishedSince
<1>2. CASE RecentlyRefreshed /\ k \notin keys
    <2>1. lastRefresh # Never /\ now - lastRefresh < RefreshCooldown
        BY <1>0, <1>2 DEF ClockInv, RecentlyRefreshed, Unexpired
    <2>2. AbsentSince(k, lastRefresh - FetchTimeout)
        BY <1>2, <2>1 DEF IInv, KeysInv, Snapshot
    <2>3. AbsentSince(k, now - (RefreshCooldown + FetchTimeout))
        BY <1>0, <2>1, <2>2 DEF AbsentSince
    <2>4. cached(k) = "unknown"
        BY <1>2 DEF cached
    <2> QED BY <2>3, <2>4 DEF Lookup!AtOnce, Lookup!Right, AbsentSince
<1>3. CASE ~(Unexpired /\ k \in keys) /\ ~(RecentlyRefreshed /\ k \notin keys)
    <2>1. cached(k) = "unavailable"
        BY <1>3 DEF cached
    <2> QED BY <2>1 DEF Lookup!AtOnce
<1> QED BY <1>1, <1>2, <1>3

\* Whoever looks the kid up after a flight does so in a document of its own time.
LEMMA LookupIsRight ==
    ASSUME IInv, NEW c \in Callers, pc[c] = "lookup"
    PROVE  Lookup!Right(IF kid[c] \in keys THEN "key" ELSE "unknown", kid[c],
                        startedAt[c] - FetchTimeout)
<1> USE KeySetAssumption DEF TypeOK, Time, Lookup!Never
<1>1. /\ TypeOK /\ kid[c] \in Kids /\ lastRefresh # Never /\ startedAt[c] <= lastRefresh
      /\ Snapshot(keys, lastRefresh - FetchTimeout)
    BY DEF IInv, CallerInv, KeysInv
<1>2. CASE kid[c] \in keys
    <2>1. PublishedSince(kid[c], lastRefresh - FetchTimeout)
        BY <1>1, <1>2 DEF Snapshot
    <2>2. PublishedSince(kid[c], startedAt[c] - FetchTimeout)
        BY <1>1, <2>1 DEF PublishedSince
    <2> QED BY <1>2, <2>2 DEF Lookup!Right, PublishedSince
<1>3. CASE kid[c] \notin keys
    <2>1. AbsentSince(kid[c], lastRefresh - FetchTimeout)
        BY <1>1, <1>3 DEF Snapshot
    <2>2. AbsentSince(kid[c], startedAt[c] - FetchTimeout)
        BY <1>1, <2>1 DEF AbsentSince
    <2> QED BY <1>3, <2>2 DEF Lookup!Right, AbsentSince
<1> QED BY <1>2, <1>3

\* The key set implements KeyLookup: with its cache, its cooldowns and its flights,
\* for every number of requests and kids, every call has an answer of its own that
\* is right for a document the IdP served in the window, and a call that was made
\* to wait has one from a document of its own time.
THEOREM KeySetImplementsLookup == Spec => ImplementsLookup
<1> DEFINE PC == [c \in Callers |->
                    IF pc[c] \in {"decided", "waiting", "lookup"} THEN "asked" ELSE pc[c]]
<1>1. Init => Lookup!Init
    BY DEF Init, Lookup!Init, Lookup!Never
<1>2. IInv /\ [Next]_vars => [Lookup!Next]_Lookup!vars
    <2> SUFFICES ASSUME IInv, [Next]_vars PROVE Lookup!Next \/ UNCHANGED Lookup!vars
        OBVIOUS
    <2>0. TypeOK
        BY DEF IInv
    <2>1. CASE Tick
        BY <2>1 DEF Tick, idpVars, callerVars, Lookup!Next, Lookup!Tick, Lookup!idpVars,
                    Lookup!callVars
    <2>2. ASSUME NEW document_ \in SUBSET Kids, Rotate(document_) PROVE Lookup!Next
        BY <2>2 DEF Rotate, callerVars, Lookup!Next, Lookup!Rotate, Lookup!callVars
    <2>3. ASSUME \/ ServeDocument \/ store \/ LoadFailsTransiently \/ LoadFailsPermanently
                 \/ Retry \/ AbandonRetry
          PROVE  UNCHANGED Lookup!vars
        BY <2>3 DEF ServeDocument, store, LoadFailsTransiently, LoadFailsPermanently, Retry,
                    AbandonRetry, idpVars, callerVars, Lookup!vars, Lookup!idpVars, Lookup!callVars
    <2>4. CASE CompleteFlight /\ phase = "stored"
        <3>1. PC' = PC
            BY <2>0, <2>4 DEF CompleteFlight, TypeOK, Steps
        <3>2. result' = result
            BY <2>0, <2>4 DEF CompleteFlight, TypeOK
        <3> QED BY <2>4, <3>1, <3>2 DEF CompleteFlight, idpVars, Lookup!vars, Lookup!idpVars,
                                        Lookup!callVars
    <2>5. CASE CompleteFlight /\ phase = "failed"
        <3>0. PICK cs \in SUBSET Callers : cs = {c \in Callers : pc[c] = "waiting"}
            OBVIOUS
        <3>1. \A c \in cs : PC[c] = "asked"
            BY <3>0
        <3>2. /\ PC' = [c \in Callers |-> IF c \in cs THEN "returned" ELSE PC[c]]
              /\ result' = [c \in Callers |-> IF c \in cs THEN "unavailable" ELSE result[c]]
              /\ UNCHANGED <<now, published, withdrawnAt, addedAt, kid, startedAt>>
            BY <2>5, <3>0 DEF CompleteFlight, idpVars
        <3>3. Lookup!Fail(cs)
            BY <3>1, <3>2 DEF Lookup!Fail, Lookup!idpVars
        <3> QED BY <3>3 DEF Lookup!Next
    <2>6. ASSUME NEW c \in Callers, Cancel(c) \/ Lead(c) \/ Join(c) PROVE UNCHANGED Lookup!vars
        <3>1. PC' = PC
            BY <2>0, <2>6 DEF Cancel, Lead, Join, TypeOK
        <3> QED BY <2>6, <3>1 DEF Cancel, Lead, Join, idpVars, Lookup!vars, Lookup!idpVars,
                                  Lookup!callVars
    <2>7. ASSUME NEW c \in Callers, NEW k \in Kids \cup {NoKid}, Key(c, k) PROVE Lookup!Next
        <3> DEFINE answer == IF k = NoKid THEN "missing" ELSE cached(k)
        <3>1. /\ pc[c] = "idle"
              /\ pc' = [pc EXCEPT ![c] = IF answer = "fetch" THEN "decided" ELSE "returned"]
              /\ result' = [result EXCEPT ![c] = IF answer = "fetch" THEN "none" ELSE answer]
              /\ kid' = [kid EXCEPT ![c] = k] /\ startedAt' = [startedAt EXCEPT ![c] = now]
              /\ UNCHANGED <<now, published, withdrawnAt, addedAt>>
            BY <2>7 DEF Key, idpVars
        <3>2. PC[c] = "idle"
            BY <3>1
        <3>3. answer \in {"missing", "key", "unknown", "unavailable", "fetch"}
            BY DEF cached
        <3>4. answer = "fetch" => k \in Kids
            BY KeySetAssumption
        <3>5. answer # "fetch" => Lookup!AtOnce(answer, k)
            BY CachedIsRight, KeySetAssumption DEF Lookup!AtOnce
        <3> HIDE DEF answer
        <3>6. CASE answer = "fetch"
            <4>1. PC' = [PC EXCEPT ![c] = "asked"]
                BY <2>0, <3>1, <3>6 DEF TypeOK
            <4>2. result' = result
                BY <2>0, <3>1, <3>6 DEF TypeOK, IInv, CallerInv
            <4>3. Lookup!Call(c, k)
                BY <3>1, <3>2, <3>4, <3>6, <4>1, <4>2 DEF Lookup!Call, Lookup!idpVars
            <4> QED BY <4>3 DEF Lookup!Next
        <3>7. CASE answer # "fetch"
            <4>1. PC' = [PC EXCEPT ![c] = "returned"] /\ result' = [result EXCEPT ![c] = answer]
                BY <2>0, <3>1, <3>7 DEF TypeOK
            <4>2. Lookup!Call(c, k)
                BY <3>1, <3>2, <3>3, <3>5, <3>7, <4>1 DEF Lookup!Call, Lookup!idpVars
            <4> QED BY <4>2 DEF Lookup!Next
        <3> QED BY <3>6, <3>7
    <2>8. ASSUME NEW c \in Callers, lookup(c) PROVE Lookup!Next
        <3>0. PICK answer \in {"key", "unknown"} :
                answer = IF kid[c] \in keys THEN "key" ELSE "unknown"
            OBVIOUS
        <3>1. /\ pc[c] = "lookup" /\ pc' = [pc EXCEPT ![c] = "returned"]
              /\ result' = [result EXCEPT ![c] = answer]
              /\ UNCHANGED <<now, published, withdrawnAt, addedAt, kid, startedAt>>
            BY <2>8, <3>0 DEF lookup, idpVars
        <3>2. PC[c] = "asked" /\ PC' = [PC EXCEPT ![c] = "returned"]
            BY <2>0, <3>1 DEF TypeOK
        <3>3. Lookup!Right(answer, kid[c], startedAt[c] - FetchTimeout)
            BY <3>0, <3>1, LookupIsRight
        <3>4. Lookup!Return(c, answer)
            BY <3>1, <3>2, <3>3 DEF Lookup!Return, Lookup!idpVars
        <3> QED BY <3>4 DEF Lookup!Next
    <2>9. CASE UNCHANGED vars
        BY <2>9 DEF vars, idpVars, callerVars, Lookup!vars, Lookup!idpVars, Lookup!callVars
    <2>10. CompleteFlight => phase = "stored" \/ phase = "failed"
        BY DEF CompleteFlight
    <2> QED BY <2>1, <2>2, <2>3, <2>4, <2>5, <2>6, <2>7, <2>8, <2>9, <2>10
            DEF Next, Flight, Caller
<1> QED BY <1>1, <1>2, Invariance, PTL DEF Spec, ImplementsLookup, Lookup!Spec
=============================================================================

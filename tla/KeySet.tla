------------------------------- MODULE KeySet -------------------------------
(***************************************************************************)
(* The cache of the IdP's verification keys (externaltoken.KeySet).        *)
(*                                                                         *)
(* Every request that carries an external token calls Key with the kid of  *)
(* the token.  Key answers from the cached document, or joins the single   *)
(* flight that fetches the document anew.  The flight runs on the          *)
(* goroutine, and under the context, of the caller that started it; the    *)
(* others wait for its outcome and then look the kid up in whatever        *)
(* document is stored by then.                                             *)
(*                                                                         *)
(* A document is the set of kids that parseJWKS makes of it.  Time is a    *)
(* discrete clock.  A context ends when the caller's client goes away.     *)
(***************************************************************************)
EXTENDS Integers, FiniteSets

CONSTANTS
    Callers,          \* requests verifying an external token, one call of Key each
    Kids,             \* key identifiers the IdP may publish
    NoKid,            \* a token header without kid
    CacheTTL,         \* how long a stored document serves hits
    RefreshCooldown,  \* how long an unknown kid does not cause a new fetch
    FailureCooldown,  \* how long a failed fetch is not repeated
    FetchTimeout,     \* deadline of one attempt
    MaxAttempts,      \* 1 + len(retryBackoff)
    MaxTime,          \* bound on the clock
    MaxRotations,     \* bound on the IdP's rotations
    MaxCancels        \* bound on the clients that go away

ASSUME KeySetAssumption ==
    /\ NoKid \notin Kids
    /\ CacheTTL \in Nat \ {0}
    /\ RefreshCooldown \in Nat \ {0}
    /\ FailureCooldown \in Nat \ {0}
    /\ FetchTimeout \in Nat \ {0}
    /\ MaxAttempts \in Nat \ {0}
    /\ MaxTime \in Nat
    /\ MaxRotations \in Nat
    /\ MaxCancels \in Nat

Never == -1           \* the zero time.Time

VARIABLES
    now,              \* the clock
    published,        \* kids in the JWKS document the IdP serves now
    withdrawnAt,      \* history: when the IdP last withdrew a kid
    addedAt,          \* history: when the IdP last added a kid
    rotations,        \* number of the IdP's rotations so far
    keys,             \* KeySet.keys
    expiry,           \* KeySet.expiry
    lastRefresh,      \* KeySet.lastRefresh
    lastFailure,      \* KeySet.lastFailure
    phase,            \* where the flight stands, "none" without one
    leader,           \* the caller the flight runs on
    attempt,          \* attempt of refresh the flight is at
    loadStart,        \* when that attempt's request was sent
    document,         \* what the IdP answered to it
    lastFault,        \* history: last attempt the IdP or the network failed
    pc,               \* where each caller stands in Key
    kid,              \* the kid it asks for
    startedAt,        \* when it called Key
    result,           \* what Key answered
    canceled          \* the callers whose context has ended

idpVars == <<published, withdrawnAt, addedAt, rotations>>
cacheVars == <<keys, expiry, lastRefresh, lastFailure>>
flightVars == <<phase, leader, attempt, loadStart, document, lastFault>>
callerVars == <<pc, kid, startedAt, result, canceled>>
vars == <<now, idpVars, cacheVars, flightVars, callerVars>>

Phases == {"none", "load", "answer", "backoff", "stored", "failed"}
Steps == {"idle", "decided", "waiting", "lookup", "returned"}
Results == {"none", "key", "unknown", "unavailable", "missing"}
Time == Nat \cup {Never}

TypeOK ==
    /\ now \in Nat
    /\ published \in SUBSET Kids
    /\ withdrawnAt \in [Kids -> Time]
    /\ addedAt \in [Kids -> Time]
    /\ rotations \in Nat
    /\ keys \in SUBSET Kids
    /\ expiry \in Nat
    /\ lastRefresh \in Time
    /\ lastFailure \in Time
    /\ phase \in Phases
    /\ phase # "none" => leader \in Callers
    /\ attempt \in 0..MaxAttempts
    /\ phase = "backoff" => attempt < MaxAttempts
    /\ loadStart \in Nat
    /\ document \in SUBSET Kids
    /\ lastFault \in Time
    /\ pc \in [Callers -> Steps]
    /\ kid \in [Callers -> Kids \cup {NoKid}]
    /\ startedAt \in [Callers -> Nat]
    /\ result \in [Callers -> Results]
    /\ canceled \in SUBSET Callers

Init ==
    /\ now = 0
    /\ published \in SUBSET Kids
    /\ withdrawnAt = [k \in Kids |-> Never]
    /\ addedAt = [k \in Kids |-> Never]
    /\ rotations = 0
    /\ keys = {}
    /\ expiry = 0
    /\ lastRefresh = Never
    /\ lastFailure = Never
    /\ phase = "none"
    /\ leader = NoKid
    /\ attempt = 0
    /\ loadStart = 0
    /\ document = {}
    /\ lastFault = Never
    /\ pc = [c \in Callers |-> "idle"]
    /\ kid = [c \in Callers |-> NoKid]
    /\ startedAt = [c \in Callers |-> 0]
    /\ result = [c \in Callers |-> "none"]
    /\ canceled = {}

-----------------------------------------------------------------------------
(* The environment: the clock, the IdP and the callers' clients.           *)

\* The clock advances.  context.WithTimeout ends an attempt at its deadline,
\* and a goroutine that has stored a document leaves the flight before the
\* clock advances by a whole unit.
Tick ==
    /\ now < MaxTime
    /\ phase \in {"load", "answer"} => now < loadStart + FetchTimeout
    /\ phase \notin {"stored", "failed"}
    /\ now' = now + 1
    /\ UNCHANGED <<idpVars, cacheVars, flightVars, callerVars>>

\* The IdP rotates its keys.
Rotate(document_) ==
    /\ rotations < MaxRotations
    /\ document_ # published
    /\ published' = document_
    /\ rotations' = rotations + 1
    /\ withdrawnAt' = [k \in Kids |->
            IF k \in published \ document_ THEN now ELSE withdrawnAt[k]]
    /\ addedAt' = [k \in Kids |->
            IF k \in document_ \ published THEN now ELSE addedAt[k]]
    /\ UNCHANGED <<now, cacheVars, flightVars, callerVars>>

\* The client of a request in progress goes away.
Cancel(c) ==
    /\ pc[c] \in {"decided", "waiting", "lookup"}
    /\ c \notin canceled
    /\ Cardinality(canceled) < MaxCancels
    /\ canceled' = canceled \cup {c}
    /\ UNCHANGED <<now, idpVars, cacheVars, flightVars, pc, kid, startedAt, result>>

-----------------------------------------------------------------------------
(* Key, from its call to group.Do.                                         *)

Unexpired == now < expiry

CoolingDown == lastFailure # Never /\ now - lastFailure < FailureCooldown

RecentlyRefreshed == Unexpired /\ now - lastRefresh < RefreshCooldown

\* Mutants of cached: the expiry is not looked at for a key, or for the lack of
\* one, and an unknown kid always causes a fetch.
cached_NoExpiry(k) ==
    CASE k \in keys -> "key"
      [] RecentlyRefreshed /\ k \notin keys -> "unknown"
      [] OTHER -> "fetch"

cached_ForeverUnknown(k) ==
    CASE Unexpired /\ k \in keys -> "key"
      [] lastRefresh # Never /\ k \notin keys -> "unknown"
      [] OTHER -> "fetch"

cached_NoCooldown(k) ==
    CASE Unexpired /\ k \in keys -> "key"
      [] ~(Unexpired /\ k \in keys) /\ CoolingDown -> "unavailable"
      [] OTHER -> "fetch"

\* What cached answers, "fetch" standing for errFetchRequired.
cached(k) ==
    CASE Unexpired /\ k \in keys -> "key"
      [] RecentlyRefreshed /\ k \notin keys -> "unknown"
      [] ~(Unexpired /\ k \in keys) /\ ~RecentlyRefreshed /\ CoolingDown -> "unavailable"
      [] OTHER -> "fetch"

\* A request calls Key; cached runs under the mutex, so the call and its
\* answer from the cache are one step.
Key(c, k) ==
    LET answer == IF k = NoKid THEN "missing" ELSE cached(k)
    IN  /\ pc[c] = "idle"
        /\ pc' = [pc EXCEPT ![c] = IF answer = "fetch" THEN "decided" ELSE "returned"]
        /\ result' = [result EXCEPT ![c] = IF answer = "fetch" THEN "none" ELSE answer]
        /\ kid' = [kid EXCEPT ![c] = k]
        /\ startedAt' = [startedAt EXCEPT ![c] = now]
        /\ UNCHANGED <<now, idpVars, cacheVars, flightVars, canceled>>

\* group.Do without a flight: the caller becomes its leader and sends the
\* first request.  Nothing is checked again here.
Lead(c) ==
    /\ pc[c] = "decided"
    /\ phase = "none"
    /\ phase' = "load"
    /\ leader' = c
    /\ attempt' = 1
    /\ loadStart' = now
    /\ pc' = [pc EXCEPT ![c] = "waiting"]
    /\ UNCHANGED <<now, idpVars, cacheVars, document, lastFault,
                   kid, startedAt, result, canceled>>

\* group.Do with a flight: the caller waits for its outcome.
Join(c) ==
    /\ pc[c] = "decided"
    /\ phase # "none"
    /\ pc' = [pc EXCEPT ![c] = "waiting"]
    /\ UNCHANGED <<now, idpVars, cacheVars, flightVars, kid, startedAt, result, canceled>>

-----------------------------------------------------------------------------
(* refresh, on the leader's goroutine.                                     *)

\* The IdP answers with the document it serves at that moment.
ServeDocument ==
    /\ phase = "load"
    /\ phase' = "answer"
    /\ document' = published
    /\ UNCHANGED <<now, idpVars, cacheVars, leader, attempt, loadStart,
                   lastFault, callerVars>>

\* load returns the document and store replaces the cached one.
store ==
    /\ phase = "answer"
    /\ keys' = document
    /\ expiry' = now + CacheTTL
    /\ lastRefresh' = now
    /\ lastFailure' = Never
    /\ phase' = "stored"
    /\ UNCHANGED <<now, idpVars, leader, attempt, loadStart, document, lastFault,
                   callerVars>>

\* Mutant: the end of the leader's context counts as a failure of the IdP.
recordFailure_Canceled ==
    /\ lastFailure' = now
    /\ UNCHANGED <<keys, expiry, lastRefresh>>

\* refresh gives up: a failure under a live context starts the cooldown.
recordFailure ==
    /\ lastFailure' = IF leader \in canceled THEN lastFailure ELSE now
    /\ UNCHANGED <<keys, expiry, lastRefresh>>

\* An attempt ends with an error worth another attempt: the connection
\* failed, the deadline passed, the IdP answered 429 or 5xx, or the leader's
\* context ended.
LoadFailsTransiently ==
    /\ phase \in {"load", "answer"}
    /\ \/ leader \in canceled /\ UNCHANGED lastFault
       \/ lastFault' = now
    /\ IF attempt < MaxAttempts
       THEN phase' = "backoff" /\ UNCHANGED cacheVars
       ELSE phase' = "failed" /\ recordFailure
    /\ UNCHANGED <<now, idpVars, leader, attempt, loadStart, document, callerVars>>

\* An attempt ends with an error no attempt repairs: another status, an
\* oversized document, or one parseJWKS refuses.
LoadFailsPermanently ==
    /\ phase \in {"load", "answer"}
    /\ lastFault' = now
    /\ phase' = "failed"
    /\ recordFailure
    /\ UNCHANGED <<now, idpVars, leader, attempt, loadStart, document, callerVars>>

\* waitFor lets the next attempt start.  With the timer and the context both
\* ready its select takes either.
Retry ==
    /\ phase = "backoff"
    /\ phase' = "load"
    /\ attempt' = attempt + 1
    /\ loadStart' = now
    /\ UNCHANGED <<now, idpVars, cacheVars, leader, document, lastFault,
                   callerVars>>

\* waitFor sees the leader's context end; recordFailure then returns early.
AbandonRetry ==
    /\ phase = "backoff"
    /\ leader \in canceled
    /\ phase' = "failed"
    /\ recordFailure
    /\ UNCHANGED <<now, idpVars, leader, attempt, loadStart, document, lastFault,
                   callerVars>>

\* Mutant: a failure is handed to the leader alone.
CompleteFlight_LeaderOnly ==
    LET waiters == IF phase = "failed" THEN {leader} ELSE {c \in Callers : pc[c] = "waiting"}
    IN  /\ phase \in {"stored", "failed"}
        /\ phase' = "none"
        /\ pc' = [c \in Callers |->
                    IF c \notin waiters THEN pc[c]
                    ELSE IF phase = "failed" THEN "returned" ELSE "lookup"]
        /\ result' = [c \in Callers |->
                    IF c \in waiters /\ phase = "failed" THEN "unavailable" ELSE result[c]]
        /\ leader' = NoKid
        /\ attempt' = 0
        /\ loadStart' = 0
        /\ document' = {}
        /\ UNCHANGED <<now, idpVars, cacheVars, lastFault, kid, startedAt, canceled>>

\* Mutant: the error of the flight is dropped, and everyone looks the kid up in
\* whatever is stored.
CompleteFlight_ErrorDropped ==
    LET waiters == {c \in Callers : pc[c] = "waiting"}
    IN  /\ phase \in {"stored", "failed"}
        /\ phase' = "none"
        /\ pc' = [c \in Callers |-> IF c \in waiters THEN "lookup" ELSE pc[c]]
        /\ leader' = NoKid
        /\ attempt' = 0
        /\ loadStart' = 0
        /\ document' = {}
        /\ UNCHANGED <<now, idpVars, cacheVars, lastFault, kid, startedAt, result, canceled>>

\* group.Do hands the outcome to the leader and to everyone who joined, and
\* forgets the flight.
CompleteFlight ==
    LET waiters == {c \in Callers : pc[c] = "waiting"}
    IN  /\ phase \in {"stored", "failed"}
        /\ phase' = "none"
        /\ pc' = [c \in Callers |->
                    IF c \notin waiters THEN pc[c]
                    ELSE IF phase = "failed" THEN "returned" ELSE "lookup"]
        /\ result' = [c \in Callers |->
                    IF c \in waiters /\ phase = "failed" THEN "unavailable" ELSE result[c]]
        /\ leader' = NoKid
        /\ attempt' = 0
        /\ loadStart' = 0
        /\ document' = {}
        /\ UNCHANGED <<now, idpVars, cacheVars, lastFault, kid, startedAt, canceled>>

\* Key ends: the kid is looked up in the document stored by now.
lookup(c) ==
    /\ pc[c] = "lookup"
    /\ pc' = [pc EXCEPT ![c] = "returned"]
    /\ result' = [result EXCEPT ![c] = IF kid[c] \in keys THEN "key" ELSE "unknown"]
    /\ UNCHANGED <<now, idpVars, cacheVars, flightVars, kid, startedAt, canceled>>

-----------------------------------------------------------------------------
Flight ==
    \/ ServeDocument \/ store
    \/ LoadFailsTransiently \/ LoadFailsPermanently
    \/ Retry \/ AbandonRetry \/ CompleteFlight

Caller(c) == Lead(c) \/ Join(c) \/ lookup(c)

Next ==
    \/ Tick
    \/ \E document_ \in SUBSET Kids : Rotate(document_)
    \/ Flight
    \/ \E c \in Callers :
        \/ Cancel(c)
        \/ \E k \in Kids \cup {NoKid} : Key(c, k)
        \/ Caller(c)

Spec == Init /\ [][Next]_vars

\* A goroutine that can run does run.  Neither the IdP's rotations nor new
\* calls are owed; an attempt ends because it has a deadline.
FairSpec == Spec /\ WF_vars(Flight) /\ \A c \in Callers : WF_vars(Caller(c))

-----------------------------------------------------------------------------
(* What Key promises.                                                      *)

\* The IdP published k at some time t or later.
PublishedSince(k, t) ==
    k \in published \/ (withdrawnAt[k] # Never /\ withdrawnAt[k] >= t)

\* The IdP did not publish k at some time t or later.
AbsentSince(k, t) ==
    k \notin published \/ (addedAt[k] # Never /\ addedAt[k] >= t)

\* A key that Key hands out was in the IdP's document no longer ago than the
\* cache TTL plus one attempt before the call: the expiry is stamped when the
\* document is stored, not when it was asked for, and lookup has no expiry
\* check of its own.
KeyFreshness ==
    \A c \in Callers :
        pc[c] = "returned" /\ result[c] = "key"
            => PublishedSince(kid[c], startedAt[c] - (CacheTTL + FetchTimeout))

\* A kid is reported unknown only when the IdP did not publish it at some
\* time within the refresh cooldown plus one attempt before the call, or
\* later: a key that has been published for longer is always found.
UnknownIsTruthful ==
    \A c \in Callers :
        pc[c] = "returned" /\ result[c] = "unknown"
            => AbsentSince(kid[c], startedAt[c] - (RefreshCooldown + FetchTimeout))

\* The failure cooldown is entered only for a failure of the IdP or of the
\* network: a client that goes away in the middle of a fetch does not make the
\* gateway refuse everyone else's tokens for the length of the cooldown.
CooldownHasACause == lastFailure # Never => lastFault >= lastFailure

\* Inside the refresh cooldown a fetch is started only by a caller that had
\* decided to fetch before the document was stored (group.Do runs without a
\* second look at the cache); nobody who sees that document starts one.
RefetchOnlyByEarlierDecision ==
    phase # "none" /\ lastRefresh # Never /\ lastRefresh <= loadStart
        /\ loadStart < expiry /\ loadStart - lastRefresh < RefreshCooldown
            => startedAt[leader] <= lastRefresh

\* Every call of Key returns, whatever the IdP does.
CallsReturn ==
    \A c \in Callers : (pc[c] \in {"decided", "waiting", "lookup"}) ~> (pc[c] = "returned")

\* The key set implements the service without cache, cooldowns and flights: every
\* call has one answer, about its own kid, from a document that is no older than the
\* cache or the cooldown allow; and a call that was made to fetch, or to wait for the
\* fetch of another, is never answered from a document asked for more than one
\* attempt before the call.
Lookup == INSTANCE KeyLookup WITH
    HitDelay <- CacheTTL + FetchTimeout,
    MissDelay <- RefreshCooldown + FetchTimeout,
    WaitDelay <- FetchTimeout,
    pc <- [c \in Callers |-> IF pc[c] \in {"decided", "waiting", "lookup"} THEN "asked" ELSE pc[c]]

ImplementsLookup == Lookup!Spec

\* README.md: verifier_unavailable means that the verification keys cannot be
\* obtained.  Here: a live caller is refused as unavailable only after the IdP
\* or the network has failed an attempt.
UnavailableHasACause ==
    \A c \in Callers :
        pc[c] = "returned" /\ result[c] = "unavailable" /\ c \notin canceled
            => lastFault # Never
=============================================================================

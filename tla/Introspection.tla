---------------------------- MODULE Introspection ----------------------------
(***************************************************************************)
(* The cache of introspection answers (externaltoken.Introspector).        *)
(*                                                                         *)
(* A request to a procedure that needs introspection calls Active with its *)
(* verified token.  Active answers from the cache, or joins the flight of  *)
(* the token's jti, which looks at the cache once more, asks the IdP and   *)
(* stores the answer.  The cache is bounded and evicts.                    *)
(*                                                                         *)
(* A token stands for its jti.  Time is a discrete clock.                  *)
(***************************************************************************)
EXTENDS Integers, FiniteSets

CONSTANTS
    Callers,     \* requests, one call of Active each
    Tokens,      \* external tokens
    NoToken,     \* a request without a jti
    CacheTTL,    \* Introspector.cacheTTL
    Timeout,     \* Introspector.timeout
    MaxEntries,  \* Introspector.maxEntries
    Leeway,      \* how long the verifier still accepts an expired token
    MaxTime,     \* bound on the clock
    MaxRevoked,  \* bound on the tokens the IdP revokes
    Expiries     \* expiry times of tokens to explore

ASSUME IntrospectionAssumption ==
    /\ NoToken \notin Tokens
    /\ CacheTTL \in Nat \ {0}
    /\ Timeout \in Nat \ {0}
    /\ MaxEntries \in Nat \ {0}
    /\ Leeway \in Nat
    /\ MaxTime \in Nat
    /\ MaxRevoked \in Nat
    /\ Expiries \subseteq Nat

Never == -1

VARIABLES
    now,         \* the clock
    expiresAt,   \* exp of each token
    revokedAt,   \* when the IdP revoked a token, or Never
    entries,     \* the keys of Introspector.results
    active,      \* the answer kept for an entry
    expiry,      \* the expiry of an entry
    phase,       \* where the flight of each jti stands
    askedAt,     \* when its request was sent
    verdict,     \* what the flight returns
    pc,          \* where each caller stands in Active
    token,       \* the token it asks about
    startedAt,   \* when it called Active
    result       \* what Active answered

idpVars == <<expiresAt, revokedAt>>
cacheVars == <<entries, active, expiry>>
flightVars == <<phase, askedAt, verdict>>
callerVars == <<pc, token, startedAt, result>>
vars == <<now, idpVars, cacheVars, flightVars, callerVars>>

Verdicts == {"active", "inactive", "unavailable"}
Phases == {"none", "check", "ask", "answer", "done"}

TypeOK ==
    /\ now \in Nat
    /\ expiresAt \in [Tokens -> Nat]
    /\ revokedAt \in [Tokens -> Nat \cup {Never}]
    /\ entries \in SUBSET Tokens
    /\ active \in [Tokens -> {"active", "inactive"}]
    /\ expiry \in [Tokens -> Nat]
    /\ phase \in [Tokens -> Phases]
    /\ askedAt \in [Tokens -> Nat]
    /\ verdict \in [Tokens -> Verdicts]
    /\ \A t \in Tokens : phase[t] = "answer" => verdict[t] # "unavailable"
    /\ pc \in [Callers -> {"idle", "decided", "waiting", "returned"}]
    /\ token \in [Callers -> Tokens \cup {NoToken}]
    /\ startedAt \in [Callers -> Nat]
    /\ result \in [Callers -> Verdicts]

\* The defaults of entries, flights and calls that do not exist are never read.
Init ==
    /\ now = 0
    /\ expiresAt \in [Tokens -> Expiries]
    /\ revokedAt = [t \in Tokens |-> Never]
    /\ entries = {}
    /\ active = [t \in Tokens |-> "inactive"]
    /\ expiry = [t \in Tokens |-> 0]
    /\ phase = [t \in Tokens |-> "none"]
    /\ askedAt = [t \in Tokens |-> 0]
    /\ verdict = [t \in Tokens |-> "unavailable"]
    /\ pc = [c \in Callers |-> "idle"]
    /\ token = [c \in Callers |-> NoToken]
    /\ startedAt = [c \in Callers |-> 0]
    /\ result = [c \in Callers |-> "unavailable"]

-----------------------------------------------------------------------------
(* The environment.                                                        *)

\* context.WithTimeout ends a request at its deadline; a goroutine leaves the
\* flight it has finished before the clock advances by a whole unit.
Tick ==
    /\ now < MaxTime
    /\ \A t \in Tokens :
        /\ phase[t] \in {"ask", "answer"} => now < askedAt[t] + Timeout
        /\ phase[t] # "done"
    /\ now' = now + 1
    /\ UNCHANGED <<idpVars, cacheVars, flightVars, callerVars>>

\* The IdP revokes a token, for good.
Revoke(t) ==
    /\ revokedAt[t] = Never
    /\ Cardinality({u \in Tokens : revokedAt[u] # Never}) < MaxRevoked
    /\ revokedAt' = [revokedAt EXCEPT ![t] = now]
    /\ UNCHANGED <<now, expiresAt, cacheVars, flightVars, callerVars>>

ActiveAtIdP(t) == revokedAt[t] = Never /\ now < expiresAt[t]

-----------------------------------------------------------------------------
(* Active.                                                                 *)

\* The cache has an answer for the token.
cached(t) == t \in entries /\ now < expiry[t]

\* A request whose token the verifier has accepted calls Active.
Active(c, t) ==
    /\ pc[c] = "idle"
    /\ t \in Tokens => now < expiresAt[t] + Leeway
    /\ token' = [token EXCEPT ![c] = t]
    /\ startedAt' = [startedAt EXCEPT ![c] = now]
    /\ \/ /\ t = NoToken
          /\ pc' = [pc EXCEPT ![c] = "returned"]
          /\ result' = [result EXCEPT ![c] = "unavailable"]
       \/ /\ t \in Tokens /\ cached(t)
          /\ pc' = [pc EXCEPT ![c] = "returned"]
          /\ result' = [result EXCEPT ![c] = active[t]]
       \/ /\ t \in Tokens /\ ~cached(t)
          /\ pc' = [pc EXCEPT ![c] = "decided"]
          /\ UNCHANGED result
    /\ UNCHANGED <<now, idpVars, cacheVars, flightVars>>

\* group.Do: the first caller opens the flight of the jti, the others join it.
Do(c) ==
    LET t == token[c]
    IN  /\ pc[c] = "decided"
        /\ pc' = [pc EXCEPT ![c] = "waiting"]
        /\ phase' = [phase EXCEPT ![t] = IF @ = "none" THEN "check" ELSE @]
        /\ UNCHANGED <<now, idpVars, cacheVars, askedAt, verdict, token, startedAt, result>>

\* Mutant: the flight sends its request without a second look.
Recheck_Blind(t) ==
    /\ phase[t] = "check"
    /\ phase' = [phase EXCEPT ![t] = "ask"]
    /\ askedAt' = [askedAt EXCEPT ![t] = now]
    /\ UNCHANGED <<now, idpVars, cacheVars, verdict, callerVars>>

\* The flight looks at the cache again before it sends its request.
Recheck(t) ==
    /\ phase[t] = "check"
    /\ IF cached(t)
       THEN /\ phase' = [phase EXCEPT ![t] = "done"]
            /\ verdict' = [verdict EXCEPT ![t] = active[t]]
            /\ UNCHANGED askedAt
       ELSE /\ phase' = [phase EXCEPT ![t] = "ask"]
            /\ askedAt' = [askedAt EXCEPT ![t] = now]
            /\ UNCHANGED verdict
    /\ UNCHANGED <<now, idpVars, cacheVars, callerVars>>

\* The IdP answers with what holds at that moment.  Only an active answer is
\* compared with the jti that was asked about (IntrospectFails); an inactive one
\* is taken as it is, so that "inactive" is as true as the IdP's answer.
Answer(t) ==
    /\ phase[t] = "ask"
    /\ phase' = [phase EXCEPT ![t] = "answer"]
    /\ verdict' = [verdict EXCEPT ![t] = IF ActiveAtIdP(t) THEN "active" ELSE "inactive"]
    /\ UNCHANGED <<now, idpVars, cacheVars, askedAt, callerVars>>

\* Mutant: a failure is tried again for ever.
IntrospectFails_Again(t) ==
    /\ phase[t] \in {"ask", "answer"}
    /\ phase' = [phase EXCEPT ![t] = "check"]
    /\ UNCHANGED <<now, idpVars, cacheVars, verdict, askedAt, callerVars>>

\* introspect fails: no connection, the deadline, the end of the context of the
\* caller the flight runs on, another status, a document that is too large, is
\* no introspection answer or calls another jti active.  Nothing is stored.
IntrospectFails(t) ==
    /\ phase[t] \in {"ask", "answer"}
    /\ phase' = [phase EXCEPT ![t] = "done"]
    /\ verdict' = [verdict EXCEPT ![t] = "unavailable"]
    /\ UNCHANGED <<now, idpVars, cacheVars, askedAt, callerVars>>

\* Mutants: an answer is kept for the life of the token, or for the whole TTL.
entryExpiry_TokenLife(t) == expiresAt[t]

entryExpiry_Uncapped(t) == now + CacheTTL

\* How long an answer stored now is kept: the TTL, at most until exp.
entryExpiry(t) ==
    IF expiresAt[t] < now + CacheTTL THEN expiresAt[t] ELSE now + CacheTTL

\* Mutant: the last to expire goes first.
evict_Latest(E, exp) ==
    LET live == {t \in E : now < exp[t]}
    IN  IF Cardinality(live) <= MaxEntries
        THEN {live}
        ELSE {K \in SUBSET live :
                /\ Cardinality(K) = MaxEntries
                /\ \A t \in live \ K : \A u \in K : exp[u] <= exp[t]}

\* The entries evict may leave of E: none that has expired, and when these are
\* too many, MaxEntries of them that expire last (equal expiries in any order).
evict(E, exp) ==
    LET live == {t \in E : now < exp[t]}
    IN  IF Cardinality(live) <= MaxEntries
        THEN {live}
        ELSE {K \in SUBSET live :
                /\ Cardinality(K) = MaxEntries
                /\ \A t \in live \ K : \A u \in K : exp[t] <= exp[u]}

\* introspect returns an answer; store keeps it.
store(t) ==
    LET E == entries \cup {t}
        exp == [expiry EXCEPT ![t] = entryExpiry(t)]
    IN  /\ phase[t] = "answer"
        /\ phase' = [phase EXCEPT ![t] = "done"]
        /\ active' = [active EXCEPT ![t] = verdict[t]]
        /\ expiry' = exp
        /\ IF Cardinality(E) > MaxEntries
           THEN entries' \in evict(E, exp)
           ELSE entries' = E
        /\ UNCHANGED <<now, idpVars, askedAt, verdict, callerVars>>

\* Mutant: one flight for all tokens, so that its verdict is everyone's.
Complete_Shared(t) ==
    LET waiters == {c \in Callers : pc[c] = "waiting"}
    IN  /\ phase[t] = "done"
        /\ phase' = [phase EXCEPT ![t] = "none"]
        /\ pc' = [c \in Callers |-> IF c \in waiters THEN "returned" ELSE pc[c]]
        /\ result' = [c \in Callers |-> IF c \in waiters THEN verdict[t] ELSE result[c]]
        /\ verdict' = [verdict EXCEPT ![t] = "unavailable"]
        /\ askedAt' = [askedAt EXCEPT ![t] = 0]
        /\ UNCHANGED <<now, idpVars, cacheVars, token, startedAt>>

\* group.Do hands the verdict to everyone in the flight and forgets it.
Complete(t) ==
    LET waiters == {c \in Callers : pc[c] = "waiting" /\ token[c] = t}
    IN  /\ phase[t] = "done"
        /\ phase' = [phase EXCEPT ![t] = "none"]
        /\ pc' = [c \in Callers |-> IF c \in waiters THEN "returned" ELSE pc[c]]
        /\ result' = [c \in Callers |-> IF c \in waiters THEN verdict[t] ELSE result[c]]
        /\ verdict' = [verdict EXCEPT ![t] = "unavailable"]
        /\ askedAt' = [askedAt EXCEPT ![t] = 0]
        /\ UNCHANGED <<now, idpVars, cacheVars, token, startedAt>>

-----------------------------------------------------------------------------
Flight(t) ==
    Recheck(t) \/ Answer(t) \/ IntrospectFails(t) \/ store(t) \/ Complete(t)

Next ==
    \/ Tick
    \/ \E t \in Tokens : Revoke(t) \/ Flight(t)
    \/ \E c \in Callers :
        \/ \E t \in Tokens \cup {NoToken} : Active(c, t)
        \/ Do(c)

Spec == Init /\ [][Next]_vars

\* Goroutines that can run do run; a request to the IdP ends at its deadline.
FairSpec ==
    /\ Spec
    /\ \A t \in Tokens : WF_vars(Flight(t))
    /\ \A c \in Callers : WF_vars(Do(c))

-----------------------------------------------------------------------------
(* What Active promises.                                                   *)

\* The token was not revoked at some time s or later.
UnrevokedSince(t, s) == revokedAt[t] = Never \/ revokedAt[t] >= s

\* A request admitted on an active answer bears a token that the IdP had not
\* revoked as recently as the TTL plus one request before the call: store
\* stamps the answer when it arrives, not when the IdP gave it.
RevocationDelay ==
    \A c \in Callers :
        pc[c] = "returned" /\ result[c] = "active"
            => UnrevokedSince(token[c], startedAt[c] - (CacheTTL + Timeout))

\* An answer does not outlive its token: store caps the entry at exp, so beyond
\* it only callers of a flight that was already on its way are told active.
ActiveWithinLifetime ==
    \A c \in Callers :
        pc[c] = "returned" /\ result[c] = "active"
            => startedAt[c] < expiresAt[token[c]] + Timeout

\* A token is turned away as revoked only when the IdP has revoked it or it has
\* expired.
InactiveIsTruthful ==
    \A c \in Callers :
        pc[c] = "returned" /\ result[c] = "inactive"
            => revokedAt[token[c]] # Never \/ expiresAt[token[c]] <= now

\* The IdP is not asked about a token whose answer the cache holds: the flight
\* looks at the cache again after group.Do has let it in.
NeverAskedTwice ==
    \A t \in Tokens : phase[t] \in {"ask", "answer"} => ~cached(t)

\* The cache keeps within its limit.
CacheBounded == Cardinality(entries) <= MaxEntries

\* evict is exact: it leaves no more than the limit, and drops an answer that is
\* still good only from a cache that stays full of answers that are good for at
\* least as long.
EvictsTheEarliest ==
    [][/\ CacheBounded'
       /\ \A t \in entries \ entries' :
            now < expiry[t]
                => /\ Cardinality(entries') = MaxEntries
                   /\ \A u \in entries' : expiry[t] <= expiry'[u]]_vars

\* Every call of Active returns.
CallsReturn ==
    \A c \in Callers : (pc[c] \in {"decided", "waiting"}) ~> (pc[c] = "returned")

\* The introspector implements the service without cache and flights: every call
\* has one answer, about its own token, that the IdP would have given at some
\* moment at most the TTL plus one request before the call.
Check == INSTANCE RevocationCheck WITH
    Delay <- CacheTTL + Timeout,
    pc <- [c \in Callers |-> IF pc[c] \in {"decided", "waiting"} THEN "asked" ELSE pc[c]]

ImplementsCheck == Check!Spec

\* README.md: a revocation takes effect within the 60 seconds answers are
\* cached for.
RevokedWithinTTL ==
    \A c \in Callers :
        pc[c] = "returned" /\ result[c] = "active"
            => UnrevokedSince(token[c], startedAt[c] - CacheTTL)
=============================================================================

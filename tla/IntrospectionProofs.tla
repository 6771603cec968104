------------------------- MODULE IntrospectionProofs -------------------------
(***************************************************************************)
(* Proofs about Introspection, for any number of requests and tokens, any  *)
(* TTL, timeout and cache limit.                                           *)
(***************************************************************************)
EXTENDS Introspection, FiniteSetTheorems, TLAPS

USE DEF Never

\* What evict leaves is part of what it was given, within the limit.
LEMMA EvictLeaves ==
    ASSUME NEW E, NEW exp, NEW K \in evict(E, exp)
    PROVE  K \subseteq E /\ Cardinality(K) <= MaxEntries
    BY IntrospectionAssumption DEF evict

\* A finite cache stays finite with one entry more.
LEMMA AddEntry ==
    ASSUME NEW E, NEW t, IsFiniteSet(E)
    PROVE  IsFiniteSet(E \cup {t}) /\ Cardinality(E \cup {t}) \in Int
<1>1. IsFiniteSet(E \cup {t})
    BY FS_AddElement
<1>2. Cardinality(E \cup {t}) \in Nat
    BY <1>1, FS_CardinalityType
<1> QED
    BY <1>1, <1>2

\* Every action keeps the types of the cache, the flights and the callers.
LEMMA TypeStep == TypeOK /\ [Next]_vars => TypeOK'
<1> SUFFICES ASSUME TypeOK, [Next]_vars PROVE TypeOK'
    OBVIOUS
<1> USE IntrospectionAssumption DEF TypeOK, Phases, Verdicts
<1>1. CASE Tick
    BY <1>1 DEF Tick, idpVars, cacheVars, flightVars, callerVars
<1>2. ASSUME NEW t \in Tokens, Revoke(t) PROVE TypeOK'
    BY <1>2 DEF Revoke, cacheVars, flightVars, callerVars
<1>3. ASSUME NEW t \in Tokens, Recheck(t) PROVE TypeOK'
    BY <1>3 DEF Recheck, idpVars, cacheVars, callerVars
<1>4. ASSUME NEW t \in Tokens, Answer(t) PROVE TypeOK'
    BY <1>4 DEF Answer, idpVars, cacheVars, callerVars
<1>5. ASSUME NEW t \in Tokens, IntrospectFails(t) PROVE TypeOK'
    BY <1>5 DEF IntrospectFails, idpVars, cacheVars, callerVars
<1>6. ASSUME NEW t \in Tokens, store(t) PROVE TypeOK'
    <2>1. entries' \subseteq entries \cup {t}
        BY <1>6, EvictLeaves DEF store
    <2> QED BY <1>6, <2>1 DEF store, entryExpiry, idpVars, callerVars
<1>7. ASSUME NEW t \in Tokens, Complete(t) PROVE TypeOK'
    BY <1>7 DEF Complete, idpVars, cacheVars
<1>8. ASSUME NEW c \in Callers, NEW t \in Tokens \cup {NoToken}, Active(c, t) PROVE TypeOK'
    BY <1>8 DEF Active, idpVars, cacheVars, flightVars
<1>9. ASSUME NEW c \in Callers, Do(c) PROVE TypeOK'
    BY <1>9 DEF Do, idpVars, cacheVars
<1>10. CASE UNCHANGED vars
    BY <1>10 DEF vars, idpVars, cacheVars, flightVars, callerVars
<1> QED
    BY <1>1, <1>2, <1>3, <1>4, <1>5, <1>6, <1>7, <1>8, <1>9, <1>10 DEF Next, Flight

(***************************************************************************)
(* The inductive invariant: what the promises say about answers handed     *)
(* out, said of the entries of the cache and of the verdicts of flights.   *)
(***************************************************************************)

\* The IdP reports the token as inactive from now on.
Dead(t) == revokedAt[t] # Never \/ expiresAt[t] <= now

ClockInv ==
    /\ \A c \in Callers : startedAt[c] <= now
    /\ \A t \in Tokens : phase[t] \in {"ask", "answer"}
            => askedAt[t] <= now /\ now <= askedAt[t] + Timeout

EntryInv ==
    \A t \in entries :
        /\ expiry[t] <= expiresAt[t]
        /\ expiry[t] <= now + CacheTTL
        /\ active[t] = "active" => UnrevokedSince(t, expiry[t] - (CacheTTL + Timeout))
        /\ active[t] = "inactive" => Dead(t)

VerdictInv ==
    \A t \in Tokens :
        /\ phase[t] = "answer" /\ verdict[t] = "active"
            => UnrevokedSince(t, askedAt[t]) /\ askedAt[t] < expiresAt[t]
        /\ phase[t] = "done" /\ verdict[t] = "active"
            => /\ UnrevokedSince(t, now - (CacheTTL + Timeout))
               /\ now < expiresAt[t] + Timeout
               /\ 0 < expiresAt[t]
        /\ phase[t] \in {"answer", "done"} /\ verdict[t] = "inactive" => Dead(t)

CallerInv ==
    \A c \in Callers :
        /\ pc[c] \in {"decided", "waiting"} => token[c] \in Tokens
        /\ pc[c] = "returned" /\ result[c] # "unavailable" => token[c] \in Tokens

Promises ==
    /\ RevocationDelay
    /\ ActiveWithinLifetime
    /\ InactiveIsTruthful
    /\ NeverAskedTwice
    /\ CacheBounded

IInv ==
    /\ TypeOK
    /\ IsFiniteSet(entries)
    /\ ClockInv
    /\ EntryInv
    /\ VerdictInv
    /\ CallerInv
    /\ Promises

-----------------------------------------------------------------------------
\* A revocation only adds to the history, at the present time.
LEMMA HistoryStep ==
    ASSUME TypeOK, [Next]_vars, NEW t \in Tokens, NEW s \in Int, s <= now
    PROVE  /\ UnrevokedSince(t, s) => UnrevokedSince(t, s)'
           /\ Dead(t) => Dead(t)'
           /\ expiresAt' = expiresAt
<1>1. CASE \E u \in Tokens : Revoke(u)
    BY <1>1 DEF Revoke, TypeOK, UnrevokedSince, Dead
<1>2. CASE Tick
    BY <1>2 DEF Tick, idpVars, TypeOK, UnrevokedSince, Dead
<1>3. CASE UNCHANGED <<now, expiresAt, revokedAt>>
    BY <1>3 DEF UnrevokedSince, Dead
<1> QED
    BY <1>1, <1>2, <1>3 DEF Next, Flight, Recheck, Answer, IntrospectFails, store, Complete,
        Active, Do, vars, idpVars

\* No request outlives its deadline.
LEMMA ClockStep == TypeOK /\ ClockInv /\ [Next]_vars => ClockInv'
<1> SUFFICES ASSUME TypeOK, ClockInv, [Next]_vars PROVE ClockInv'
    OBVIOUS
<1> USE IntrospectionAssumption DEF TypeOK, ClockInv
<1>1. CASE Tick
    BY <1>1 DEF Tick, flightVars, callerVars
<1>2. ASSUME NEW t \in Tokens, Recheck(t) PROVE ClockInv'
    BY <1>2 DEF Recheck, callerVars, Phases
<1>3. ASSUME NEW t \in Tokens, Answer(t) \/ IntrospectFails(t) \/ store(t) PROVE ClockInv'
    BY <1>3 DEF Answer, IntrospectFails, store, callerVars, Phases
<1>4. ASSUME NEW t \in Tokens, Complete(t) PROVE ClockInv'
    BY <1>4 DEF Complete, Phases
<1>5. ASSUME NEW c \in Callers, NEW t \in Tokens \cup {NoToken}, Active(c, t) PROVE ClockInv'
    BY <1>5 DEF Active, flightVars
<1>6. ASSUME NEW c \in Callers, Do(c) PROVE ClockInv'
    BY <1>6 DEF Do, Phases
<1>7. CASE UNCHANGED <<now, phase, askedAt, startedAt>>
    BY <1>7
<1> QED
    BY <1>1, <1>2, <1>3, <1>4, <1>5, <1>6, <1>7
    DEF Next, Flight, Revoke, vars, flightVars, callerVars

\* Whoever waits for a flight asks about a token.
LEMMA CallerStep == TypeOK /\ CallerInv /\ [Next]_vars => CallerInv'
<1> SUFFICES ASSUME TypeOK, CallerInv, [Next]_vars PROVE CallerInv'
    OBVIOUS
<1> USE DEF TypeOK, CallerInv
<1>1. ASSUME NEW t \in Tokens, Complete(t) PROVE CallerInv'
    BY <1>1 DEF Complete
<1>2. ASSUME NEW c \in Callers, NEW t \in Tokens \cup {NoToken}, Active(c, t) PROVE CallerInv'
    BY <1>2 DEF Active
<1>3. ASSUME NEW c \in Callers, Do(c) PROVE CallerInv'
    BY <1>3 DEF Do
<1>4. CASE UNCHANGED <<pc, token, result>>
    BY <1>4
<1> QED
    BY <1>1, <1>2, <1>3, <1>4 DEF Next, Flight, Tick, Revoke, Recheck, Answer, IntrospectFails,
        store, vars, callerVars

\* A stored answer is what the IdP said no longer ago than one request, and no
\* entry outlives its token.
LEMMA EntryStep ==
    TypeOK /\ ClockInv /\ EntryInv /\ VerdictInv /\ [Next]_vars => EntryInv'
<1> SUFFICES ASSUME TypeOK, ClockInv, EntryInv, VerdictInv, [Next]_vars, NEW u \in entries'
             PROVE  /\ expiry'[u] <= expiresAt'[u]
                    /\ expiry'[u] <= now' + CacheTTL
                    /\ active'[u] = "active" => UnrevokedSince(u, expiry[u] - (CacheTTL + Timeout))'
                    /\ active'[u] = "inactive" => Dead(u)'
    BY DEF EntryInv
<1> USE IntrospectionAssumption DEF TypeOK
<1>1. now <= now' /\ now' \in Nat /\ u \in Tokens
    <2>1. u \in Tokens
        BY TypeStep
    <2>2. now' = now \/ now' = now + 1
        BY DEF Next, Flight, Tick, Revoke, Recheck, Answer, IntrospectFails, store, Complete,
               Active, Do, vars
    <2> QED BY <2>1, <2>2
<1>2. CASE u \in entries /\ expiry'[u] = expiry[u] /\ active'[u] = active[u]
    <2> DEFINE s == expiry[u] - (CacheTTL + Timeout)
    <2>1. s \in Int /\ s <= now /\ u \in Tokens
        BY <1>2 DEF EntryInv
    <2>2. active[u] = "active" => UnrevokedSince(u, s)
        BY <1>2 DEF EntryInv
    <2>3. active[u] = "active" => UnrevokedSince(u, s)'
        BY <1>2, <2>1, <2>2, HistoryStep DEF UnrevokedSince
    <2>4. active[u] = "inactive" => Dead(u)'
        BY <1>2, <2>1, HistoryStep DEF EntryInv
    <2>5. expiresAt' = expiresAt
        BY <2>1, HistoryStep
    <2> QED BY <1>1, <1>2, <2>3, <2>4, <2>5 DEF EntryInv, UnrevokedSince
<1>3. CASE store(u)
    <2>1. u \in Tokens /\ active'[u] = verdict[u] /\ expiry'[u] = entryExpiry(u)
          /\ phase[u] = "answer" /\ UNCHANGED <<now, expiresAt, revokedAt>>
        BY <1>1, <1>3 DEF store, idpVars
    <2> QED BY <2>1 DEF entryExpiry, ClockInv, VerdictInv, UnrevokedSince, Dead
<1>4. ASSUME NEW t \in Tokens, store(t), t # u
      PROVE  u \in entries /\ expiry'[u] = expiry[u] /\ active'[u] = active[u]
    BY <1>4, EvictLeaves DEF store
<1>5. CASE UNCHANGED <<entries, active, expiry>>
    BY <1>2, <1>5
<1> QED
    BY <1>2, <1>3, <1>4, <1>5 DEF Next, Flight, Tick, Revoke, Recheck, Answer, IntrospectFails,
        Complete, Active, Do, vars, cacheVars

\* A flight ends with what the IdP said during it or with what the cache held.
LEMMA VerdictStep ==
    TypeOK /\ ClockInv /\ EntryInv /\ VerdictInv /\ [Next]_vars => VerdictInv'
<1> SUFFICES ASSUME TypeOK, ClockInv, EntryInv, VerdictInv, [Next]_vars, NEW u \in Tokens
             PROVE  /\ (phase[u] = "answer" /\ verdict[u] = "active")'
                        => (UnrevokedSince(u, askedAt[u]) /\ askedAt[u] < expiresAt[u])'
                    /\ (phase[u] = "done" /\ verdict[u] = "active")'
                        => (/\ UnrevokedSince(u, now - (CacheTTL + Timeout))
                            /\ now < expiresAt[u] + Timeout
                            /\ 0 < expiresAt[u])'
                    /\ (phase[u] \in {"answer", "done"} /\ verdict[u] = "inactive")' => Dead(u)'
    BY DEF VerdictInv
<1> USE IntrospectionAssumption DEF TypeOK, Phases, Verdicts
<1>1. CASE Recheck(u)
    BY <1>1 DEF Recheck, cached, EntryInv, UnrevokedSince, Dead, idpVars, cacheVars
<1>2. CASE Answer(u)
    BY <1>2 DEF Answer, ActiveAtIdP, ClockInv, UnrevokedSince, Dead, idpVars
<1>3. CASE IntrospectFails(u)
    BY <1>3 DEF IntrospectFails
<1>4. CASE store(u)
    BY <1>4 DEF store, ClockInv, VerdictInv, UnrevokedSince, Dead, idpVars
<1>5. CASE Complete(u)
    BY <1>5 DEF Complete
<1>6. CASE /\ phase'[u] \in {"answer", "done"} => phase'[u] = phase[u]
           /\ phase[u] = "done" => now' = now
           /\ askedAt'[u] = askedAt[u] /\ verdict'[u] = verdict[u]
    <2>1. phase[u] \in {"answer", "done"} /\ verdict[u] = "inactive" => Dead(u)'
        BY HistoryStep DEF VerdictInv
    <2>2. phase[u] = "answer" /\ verdict[u] = "active"
            => UnrevokedSince(u, askedAt[u])' /\ askedAt[u] < expiresAt'[u]
        <3>1. SUFFICES ASSUME phase[u] = "answer", verdict[u] = "active"
                       PROVE  UnrevokedSince(u, askedAt[u])' /\ askedAt[u] < expiresAt'[u]
            OBVIOUS
        <3> DEFINE s == askedAt[u]
        <3>2. s \in Int /\ s <= now /\ UnrevokedSince(u, s) /\ s < expiresAt[u]
            BY <3>1 DEF ClockInv, VerdictInv
        <3> QED BY <1>6, <3>2, HistoryStep DEF UnrevokedSince
    <2>3. phase[u] = "done" /\ verdict[u] = "active"
            => /\ UnrevokedSince(u, now - (CacheTTL + Timeout))'
               /\ now < expiresAt'[u] + Timeout
               /\ 0 < expiresAt'[u]
        <3>1. SUFFICES ASSUME phase[u] = "done", verdict[u] = "active"
                       PROVE  /\ UnrevokedSince(u, now - (CacheTTL + Timeout))'
                              /\ now < expiresAt'[u] + Timeout
                              /\ 0 < expiresAt'[u]
            OBVIOUS
        <3> DEFINE s == now - (CacheTTL + Timeout)
        <3>2. /\ s \in Int /\ s <= now /\ UnrevokedSince(u, s)
              /\ now < expiresAt[u] + Timeout /\ 0 < expiresAt[u]
            BY <3>1 DEF VerdictInv
        <3> QED BY <1>6, <3>1, <3>2, HistoryStep DEF UnrevokedSince
    <2> QED BY <1>6, <2>1, <2>2, <2>3 DEF UnrevokedSince
<1>7. ASSUME NEW t \in Tokens \ {u}, Flight(t)
      PROVE  phase'[u] = phase[u] /\ askedAt'[u] = askedAt[u] /\ verdict'[u] = verdict[u] /\ now' = now
    BY <1>7 DEF Flight, Recheck, Answer, IntrospectFails, store, Complete
<1>8. ASSUME NEW c \in Callers, Do(c)
      PROVE  /\ phase'[u] \in {"answer", "done"} => phase'[u] = phase[u]
             /\ askedAt'[u] = askedAt[u] /\ verdict'[u] = verdict[u] /\ now' = now
    BY <1>8 DEF Do
<1>9. ASSUME \/ Tick \/ \E t \in Tokens : Revoke(t) \/ UNCHANGED vars
             \/ \E c \in Callers, t \in Tokens \cup {NoToken} : Active(c, t)
      PROVE  /\ phase'[u] = phase[u] /\ askedAt'[u] = askedAt[u] /\ verdict'[u] = verdict[u]
             /\ phase[u] = "done" => now' = now
    BY <1>9 DEF Tick, Revoke, Active, vars, flightVars
<1> QED
    BY <1>1, <1>2, <1>3, <1>4, <1>5, <1>6, <1>7, <1>8, <1>9 DEF Next, Flight

\* An answer given by this step keeps the promises; one given earlier still does.
LEMMA AnswerStep ==
    IInv /\ [Next]_vars => RevocationDelay' /\ ActiveWithinLifetime' /\ InactiveIsTruthful'
<1> SUFFICES ASSUME IInv, [Next]_vars, NEW d \in Callers, pc'[d] = "returned"
             PROVE  /\ result'[d] = "active"
                        => /\ UnrevokedSince(token[d], startedAt[d] - (CacheTTL + Timeout))'
                           /\ startedAt'[d] < expiresAt'[token'[d]] + Timeout
                    /\ result'[d] = "inactive" => Dead(token[d])'
    BY DEF RevocationDelay, ActiveWithinLifetime, InactiveIsTruthful, Dead
<1> USE IntrospectionAssumption DEF IInv, TypeOK, Verdicts
<1>1. ASSUME NEW t \in Tokens \cup {NoToken}, Active(d, t)
      PROVE  /\ result'[d] = "active"
                => /\ UnrevokedSince(token[d], startedAt[d] - (CacheTTL + Timeout))'
                   /\ startedAt'[d] < expiresAt'[token'[d]] + Timeout
             /\ result'[d] = "inactive" => Dead(token[d])'
    <2>1. /\ token'[d] = t /\ startedAt'[d] = now
          /\ UNCHANGED <<now, expiresAt, revokedAt>>
        BY <1>1 DEF Active, idpVars
    <2>2. result'[d] # "unavailable" => t \in Tokens /\ cached(t) /\ result'[d] = active[t]
        BY <1>1 DEF Active
    <2> QED BY <2>1, <2>2 DEF cached, EntryInv, UnrevokedSince, Dead
<1>2. ASSUME NEW t \in Tokens, Complete(t), pc[d] = "waiting", token[d] = t
      PROVE  /\ result'[d] = "active"
                => /\ UnrevokedSince(token[d], startedAt[d] - (CacheTTL + Timeout))'
                   /\ startedAt'[d] < expiresAt'[token'[d]] + Timeout
             /\ result'[d] = "inactive" => Dead(token[d])'
    BY <1>2 DEF Complete, VerdictInv, ClockInv, UnrevokedSince, Dead, idpVars
<1>3. CASE /\ token'[d] = token[d] /\ startedAt'[d] = startedAt[d]
           /\ pc[d] = "returned" /\ result'[d] = result[d]
    <2> DEFINE s == startedAt[d] - (CacheTTL + Timeout)
               t == token[d]
    <2>1. SUFFICES ASSUME result[d] # "unavailable"
                   PROVE  /\ result[d] = "active"
                            => UnrevokedSince(t, s)' /\ startedAt[d] < expiresAt'[t] + Timeout
                          /\ result[d] = "inactive" => Dead(t)'
        BY <1>3
    <2>2. s \in Int /\ s <= now /\ t \in Tokens
        BY <1>3, <2>1 DEF ClockInv, CallerInv
    <2>3. result[d] = "active" => UnrevokedSince(t, s) /\ startedAt[d] < expiresAt[t] + Timeout
        BY <1>3 DEF Promises, RevocationDelay, ActiveWithinLifetime
    <2>4. result[d] = "inactive" => Dead(t)
        BY <1>3 DEF Promises, InactiveIsTruthful, Dead
    <2>5. /\ UnrevokedSince(t, s) => UnrevokedSince(t, s)'
          /\ Dead(t) => Dead(t)'
          /\ expiresAt' = expiresAt
        BY <1>3, <2>2, HistoryStep DEF UnrevokedSince, Dead
    <2> QED BY <2>3, <2>4, <2>5
<1>4. ASSUME NEW t \in Tokens, Complete(t), ~(pc[d] = "waiting" /\ token[d] = t)
      PROVE  token'[d] = token[d] /\ startedAt'[d] = startedAt[d] /\ pc'[d] = pc[d]
             /\ result'[d] = result[d]
    BY <1>4 DEF Complete
<1>5. ASSUME \/ \E c \in Callers \ {d}, t \in Tokens \cup {NoToken} : Active(c, t)
             \/ \E c \in Callers : Do(c)
      PROVE  token'[d] = token[d] /\ startedAt'[d] = startedAt[d] /\ pc'[d] = pc[d]
             /\ result'[d] = result[d]
    BY <1>5 DEF Active, Do
<1>6. CASE UNCHANGED callerVars
    BY <1>3, <1>6 DEF callerVars
<1> QED
    BY <1>1, <1>2, <1>3, <1>4, <1>5, <1>6 DEF Next, Flight, Tick, Revoke, Recheck, Answer,
        IntrospectFails, store, vars

\* A flight asks only after it has missed in the cache, only its own store fills
\* that gap, and store leaves no more entries than the limit.
LEMMA CacheStep ==
    IInv /\ [Next]_vars => NeverAskedTwice' /\ CacheBounded' /\ IsFiniteSet(entries')
<1> DEFINE Goal == NeverAskedTwice' /\ CacheBounded' /\ IsFiniteSet(entries')
<1> SUFFICES ASSUME IInv, [Next]_vars PROVE Goal
    OBVIOUS
<1> USE IntrospectionAssumption DEF IInv, TypeOK, Promises, NeverAskedTwice, CacheBounded, cached
<1>1. CASE Tick
    BY <1>1 DEF Tick, flightVars, cacheVars
<1>2. ASSUME NEW t \in Tokens, Recheck(t) PROVE Goal
    BY <1>2 DEF Recheck, cacheVars, Phases
<1>3. ASSUME NEW t \in Tokens, Answer(t) \/ IntrospectFails(t)
      PROVE  Goal
    BY <1>3 DEF Answer, IntrospectFails, cacheVars, Phases
<1>4. ASSUME NEW t \in Tokens, store(t) PROVE Goal
    <2>1. IsFiniteSet(entries \cup {t}) /\ Cardinality(entries \cup {t}) \in Int
        BY AddEntry
    <2>2. entries' \subseteq entries \cup {t} /\ Cardinality(entries') <= MaxEntries
        <3>1. CASE Cardinality(entries \cup {t}) > MaxEntries
            BY <1>4, <3>1, EvictLeaves DEF store
        <3>2. CASE ~(Cardinality(entries \cup {t}) > MaxEntries)
            <4>1. entries' = entries \cup {t}
                BY <1>4, <3>2 DEF store
            <4> QED BY <2>1, <3>2, <4>1
        <3> QED BY <3>1, <3>2
    <2>3. IsFiniteSet(entries')
        BY <2>1, <2>2, FS_Subset
    <2> QED BY <1>4, <2>2, <2>3 DEF store, Phases
<1>5. ASSUME NEW t \in Tokens, Complete(t) PROVE Goal
    BY <1>5 DEF Complete, cacheVars, Phases
<1>6. ASSUME NEW c \in Callers, Do(c) PROVE Goal
    BY <1>6 DEF Do, cacheVars, CallerInv, Phases
<1>7. CASE UNCHANGED <<now, phase, entries, expiry>>
    BY <1>7
<1> QED
    BY <1>1, <1>2, <1>3, <1>4, <1>5, <1>6, <1>7
    DEF Next, Flight, Revoke, Active, vars, cacheVars, flightVars

\* IInv is inductive.
LEMMA Invariance == Spec => []IInv
<1>1. Init => IInv
    <2>1. Init => TypeOK
        <3>1. Init => expiresAt \in [Tokens -> Nat]
            BY IntrospectionAssumption DEF Init
        <3> QED BY <3>1 DEF Init, TypeOK, Phases, Verdicts
    <2>2. Init => IsFiniteSet(entries) /\ CacheBounded
        BY FS_EmptySet, IntrospectionAssumption DEF Init, CacheBounded
    <2>3. Init => ClockInv /\ EntryInv /\ VerdictInv /\ CallerInv
        BY DEF Init, ClockInv, EntryInv, VerdictInv, CallerInv
    <2>4. Init => RevocationDelay /\ ActiveWithinLifetime /\ InactiveIsTruthful /\ NeverAskedTwice
        BY DEF Init, RevocationDelay, ActiveWithinLifetime, InactiveIsTruthful, NeverAskedTwice
    <2> QED BY <2>1, <2>2, <2>3, <2>4 DEF IInv, Promises
<1>2. IInv /\ [Next]_vars => IInv'
    BY TypeStep, ClockStep, EntryStep, VerdictStep, CallerStep, AnswerStep, CacheStep
    DEF IInv, Promises
<1> QED
    BY <1>1, <1>2, PTL DEF Spec

\* The cache, the flights and the callers always have their types.
THEOREM TypeCorrect == Spec => []TypeOK
<1>1. IInv => TypeOK
    BY DEF IInv
<1> QED
    BY <1>1, Invariance, PTL

\* A revocation is delayed by less than the TTL plus one request.
THEOREM RevocationIsTimely == Spec => []RevocationDelay
<1>1. IInv => RevocationDelay
    BY DEF IInv, Promises
<1> QED
    BY <1>1, Invariance, PTL

\* A cached answer does not outlive its token.
THEOREM AnswersEndWithTheToken == Spec => []ActiveWithinLifetime
<1>1. IInv => ActiveWithinLifetime
    BY DEF IInv, Promises
<1> QED
    BY <1>1, Invariance, PTL

\* Nobody is turned away as revoked without cause.
THEOREM InactiveAnswersAreTruthful == Spec => []InactiveIsTruthful
<1>1. IInv => InactiveIsTruthful
    BY DEF IInv, Promises
<1> QED
    BY <1>1, Invariance, PTL

\* The IdP is asked about a token only while the cache has no answer.
THEOREM AskedOncePerAnswer == Spec => []NeverAskedTwice
<1>1. IInv => NeverAskedTwice
    BY DEF IInv, Promises
<1> QED
    BY <1>1, Invariance, PTL

\* The cache never exceeds its limit.
THEOREM CacheStaysBounded == Spec => []CacheBounded
<1>1. IInv => CacheBounded
    BY DEF IInv, Promises
<1> QED
    BY <1>1, Invariance, PTL

\* What evict drops that has not expired, it drops from a full cache, and all
\* that it leaves expires no earlier.
LEMMA EvictDropsTheEarliest ==
    ASSUME NEW E, NEW exp, NEW K \in evict(E, exp), NEW t \in E \ K, now < exp[t]
    PROVE  Cardinality(K) = MaxEntries /\ \A u \in K : exp[t] <= exp[u]
BY DEF evict

\* store and evict: the cache never exceeds its limit, and a good answer goes only
\* when the cache is full of answers that are good for at least as long; the
\* flight's own answer is no exception, since a flight asks only after a miss.
THEOREM EvictionIsExact == Spec => EvictsTheEarliest
<1>1. IInv /\ [Next]_vars =>
        [/\ CacheBounded'
         /\ \A t \in entries \ entries' :
            now < expiry[t]
                => /\ Cardinality(entries') = MaxEntries
                   /\ \A u \in entries' : expiry[t] <= expiry'[u]]_vars
    <2> SUFFICES ASSUME IInv, [Next]_vars, ~ UNCHANGED vars
                 PROVE  /\ CacheBounded'
                        /\ \A t \in entries \ entries' :
                            now < expiry[t]
                                => /\ Cardinality(entries') = MaxEntries
                                   /\ \A u \in entries' : expiry[t] <= expiry'[u]
        OBVIOUS
    <2>1. CacheBounded'
        BY CacheStep
    <2>2. SUFFICES ASSUME NEW u \in entries \ entries', now < expiry[u]
                   PROVE  /\ Cardinality(entries') = MaxEntries
                          /\ \A v \in entries' : expiry[u] <= expiry'[v]
        BY <2>1
    <2>3. PICK t \in Tokens : store(t)
        BY <2>2 DEF Next, Flight, Tick, Revoke, Recheck, Answer, IntrospectFails, Complete,
            Active, Do, vars, cacheVars
    <2> DEFINE E == entries \cup {t}
               exp == [expiry EXCEPT ![t] = entryExpiry(t)]
    <2>4. u # t
        BY <2>2, <2>3 DEF IInv, Promises, NeverAskedTwice, cached, store
    <2>5. u \in E /\ exp[u] = expiry[u]
        BY <2>2, <2>4 DEF IInv, TypeOK
    <2>6. expiry' = exp /\ entries' \in evict(E, exp)
        BY <2>2, <2>3 DEF store
    <2> QED BY <2>2, <2>5, <2>6, EvictDropsTheEarliest
<1> QED BY <1>1, Invariance, PTL DEF Spec, EvictsTheEarliest

-----------------------------------------------------------------------------
(* The refinement.                                                         *)

\* A token that was not revoked at s, and expires later, was active then; if s
\* lies before the start of the clock, it was so at the start.
LEMMA AMoment ==
    ASSUME TypeOK, NEW t \in Tokens, NEW start \in Nat, NEW s \in Int,
           s <= now, s >= start - (CacheTTL + Timeout),
           UnrevokedSince(t, s), s < expiresAt[t], 0 < expiresAt[t]
    PROVE  Check!Allowed(t, start, "active")
<1> DEFINE m == IF s < 0 THEN 0 ELSE s
<1>1. m \in 0..now /\ m >= start - (CacheTTL + Timeout)
    BY IntrospectionAssumption DEF TypeOK
<1>2. m < expiresAt[t] /\ (revokedAt[t] = Never \/ m <= revokedAt[t])
    BY DEF TypeOK, UnrevokedSince
<1>3. Check!ActiveAt(t, m)
    BY <1>2 DEF Check!ActiveAt, Check!Never
<1> QED BY <1>1, <1>3 DEF Check!Allowed

\* What the cache holds is allowed for a call made now.
LEMMA CachedIsAllowed ==
    ASSUME IInv, NEW t \in Tokens, cached(t)
    PROVE  Check!Allowed(t, now, active[t])
<1> USE IntrospectionAssumption
<1>1. /\ expiry[t] <= expiresAt[t] /\ now < expiry[t] /\ t \in entries
      /\ expiry[t] <= now + CacheTTL /\ now \in Nat /\ expiry[t] \in Nat /\ expiresAt[t] \in Nat
    BY DEF IInv, EntryInv, TypeOK, cached
<1>2. CASE active[t] = "active"
    <2> DEFINE s == expiry[t] - (CacheTTL + Timeout)
    <2>1. UnrevokedSince(t, s)
        BY <1>1, <1>2 DEF IInv, EntryInv
    <2>2. s \in Int /\ s <= now /\ s >= now - (CacheTTL + Timeout)
          /\ s < expiresAt[t] /\ 0 < expiresAt[t]
        BY <1>1
    <2> QED BY <1>1, <1>2, <2>1, <2>2, AMoment DEF IInv
<1>3. CASE active[t] = "inactive"
    BY <1>1, <1>3 DEF IInv, EntryInv, Dead, Check!Allowed, Check!Never
<1> QED BY <1>2, <1>3 DEF IInv, TypeOK

\* What a flight returns is allowed for everyone who waits for it.
LEMMA VerdictIsAllowed ==
    ASSUME IInv, NEW t \in Tokens, phase[t] = "done", NEW c \in Callers
    PROVE  Check!Allowed(t, startedAt[c], verdict[t])
<1> USE IntrospectionAssumption
<1>1. now \in Nat /\ expiresAt[t] \in Nat /\ startedAt[c] \in Nat /\ startedAt[c] <= now
    BY DEF IInv, TypeOK, ClockInv
<1>2. CASE verdict[t] = "active"
    <2> DEFINE s == now - (CacheTTL + Timeout)
    <2>1. UnrevokedSince(t, s) /\ now < expiresAt[t] + Timeout /\ 0 < expiresAt[t]
        BY <1>2 DEF IInv, VerdictInv
    <2>2. s \in Int /\ s <= now /\ s >= startedAt[c] - (CacheTTL + Timeout) /\ s < expiresAt[t]
        BY <1>1, <2>1
    <2> QED BY <1>1, <1>2, <2>1, <2>2, AMoment DEF IInv
<1>3. CASE verdict[t] = "inactive"
    BY <1>3 DEF IInv, VerdictInv, Dead, Check!Allowed, Check!Never
<1>4. CASE verdict[t] = "unavailable"
    BY <1>4 DEF Check!Allowed
<1> QED BY <1>2, <1>3, <1>4 DEF IInv, TypeOK, Verdicts

\* The introspector implements RevocationCheck: with its cache and its flights, for
\* every number of requests and tokens, every call has an answer of its own that
\* the IdP would have given at a moment in the window.
THEOREM IntrospectorImplementsCheck == Spec => ImplementsCheck
<1> DEFINE PC == [c \in Callers |-> IF pc[c] \in {"decided", "waiting"} THEN "asked" ELSE pc[c]]
<1>1. Init => Check!Init
    <2>1. Init => expiresAt \in [Tokens -> Nat]
        BY IntrospectionAssumption DEF Init
    <2> QED BY <2>1 DEF Init, Check!Init, Check!Never
<1>2. IInv /\ [Next]_vars => [Check!Next]_Check!vars
    <2> SUFFICES ASSUME IInv, [Next]_vars PROVE Check!Next \/ UNCHANGED Check!vars
        OBVIOUS
    <2>0. TypeOK
        BY DEF IInv
    <2>1. CASE Tick
        BY <2>1 DEF Tick, idpVars, callerVars, Check!Next, Check!Tick
    <2>2. ASSUME NEW t \in Tokens, Revoke(t) PROVE Check!Next
        BY <2>2 DEF Revoke, callerVars, Check!Next, Check!Revoke, Check!Never
    <2>3. ASSUME NEW t \in Tokens, Recheck(t) \/ Answer(t) \/ IntrospectFails(t) \/ store(t)
          PROVE  UNCHANGED Check!vars
        BY <2>3 DEF Recheck, Answer, IntrospectFails, store, idpVars, callerVars, Check!vars,
                    Check!idpVars
    <2>4. ASSUME NEW t \in Tokens, Complete(t) PROVE Check!Next
        <3>1. PICK cs \in SUBSET Callers, v \in {"active", "inactive", "unavailable"} :
                /\ cs = {c \in Callers : pc[c] = "waiting" /\ token[c] = t}
                /\ v = verdict[t]
            BY <2>0 DEF TypeOK, Verdicts
        <3>2. \A c \in cs : PC[c] = "asked" /\ token[c] = t /\ Check!Allowed(t, startedAt[c], v)
            BY <2>4, <3>1, VerdictIsAllowed DEF Complete
        <3>3. PC' = [c \in Callers |-> IF c \in cs THEN "returned" ELSE PC[c]]
            BY <2>0, <2>4, <3>1 DEF Complete, TypeOK
        <3>4. /\ result' = [c \in Callers |-> IF c \in cs THEN v ELSE result[c]]
              /\ UNCHANGED <<now, expiresAt, revokedAt, token, startedAt>>
            BY <2>4, <3>1 DEF Complete, idpVars
        <3>5. Check!Return(cs, t, v)
            BY <3>2, <3>3, <3>4 DEF Check!Return, Check!idpVars
        <3> QED BY <3>5 DEF Check!Next
    <2>5. ASSUME NEW c \in Callers, NEW t \in Tokens \cup {NoToken}, Active(c, t)
          PROVE  Check!Next
        <3>1. /\ PC[c] = "idle"
              /\ token' = [token EXCEPT ![c] = t]
              /\ startedAt' = [startedAt EXCEPT ![c] = now]
              /\ UNCHANGED <<now, expiresAt, revokedAt>>
            BY <2>5 DEF Active, idpVars
        <3>2. CASE t = NoToken
            <4>1. /\ PC' = [PC EXCEPT ![c] = "returned"]
                  /\ result' = [result EXCEPT ![c] = "unavailable"]
                BY <2>0, <2>5, <3>2, IntrospectionAssumption DEF Active, TypeOK
            <4>2. Check!Allowed(t, now, "unavailable")
                BY DEF Check!Allowed
            <4>3. Check!Call(c, t)
                BY <3>1, <4>1, <4>2 DEF Check!Call, Check!idpVars
            <4> QED BY <4>3 DEF Check!Next
        <3>3. CASE t \in Tokens /\ cached(t)
            <4>1. /\ PC' = [PC EXCEPT ![c] = "returned"]
                  /\ result' = [result EXCEPT ![c] = active[t]]
                BY <2>0, <2>5, <3>3, IntrospectionAssumption DEF Active, TypeOK
            <4>2. Check!Allowed(t, now, active[t]) /\ active[t] \in {"active", "inactive"}
                BY <2>0, <3>3, CachedIsAllowed DEF TypeOK
            <4>3. Check!Call(c, t)
                BY <3>1, <4>1, <4>2 DEF Check!Call, Check!idpVars
            <4> QED BY <4>3 DEF Check!Next
        <3>4. CASE t \in Tokens /\ ~cached(t)
            <4>1. PC' = [PC EXCEPT ![c] = "asked"] /\ UNCHANGED result
                BY <2>0, <2>5, <3>4, IntrospectionAssumption DEF Active, TypeOK
            <4>2. Check!Call(c, t)
                BY <3>1, <4>1 DEF Check!Call, Check!idpVars
            <4> QED BY <4>2 DEF Check!Next
        <3> QED BY <3>2, <3>3, <3>4
    <2>6. ASSUME NEW c \in Callers, Do(c) PROVE UNCHANGED Check!vars
        <3>1. PC' = PC
            BY <2>0, <2>6 DEF Do, TypeOK
        <3> QED BY <2>6, <3>1 DEF Do, idpVars, Check!vars, Check!idpVars
    <2>7. CASE UNCHANGED vars
        BY <2>7 DEF vars, idpVars, callerVars, Check!vars, Check!idpVars
    <2> QED BY <2>1, <2>2, <2>3, <2>4, <2>5, <2>6, <2>7 DEF Next, Flight
<1> QED BY <1>1, <1>2, Invariance, PTL DEF Spec, ImplementsCheck, Check!Spec
=============================================================================

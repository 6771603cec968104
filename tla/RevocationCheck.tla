-------------------------- MODULE RevocationCheck --------------------------
(***************************************************************************)
(* What the pipeline relies on when it asks whether a token is revoked,    *)
(* without the cache and the flights: every call is answered once, with    *)
(* what the IdP would have said at some moment, at most Delay before the   *)
(* call, or with unavailable.                                              *)
(***************************************************************************)
EXTENDS Integers

CONSTANTS Callers, Tokens, NoToken, Delay

VARIABLES
    now,        \* the clock
    expiresAt,  \* exp of each token
    revokedAt,  \* when the IdP revoked a token, or Never
    pc,         \* where each call stands
    token,      \* the token it is about
    startedAt,  \* when it was made
    result      \* its answer

idpVars == <<now, expiresAt, revokedAt>>
vars == <<idpVars, pc, token, startedAt, result>>

Never == -1

Init ==
    /\ now = 0
    /\ expiresAt \in [Tokens -> Nat]
    /\ revokedAt = [t \in Tokens |-> Never]
    /\ pc = [c \in Callers |-> "idle"]
    /\ token = [c \in Callers |-> NoToken]
    /\ startedAt = [c \in Callers |-> 0]
    /\ result = [c \in Callers |-> "unavailable"]

Tick ==
    /\ now' = now + 1
    /\ UNCHANGED <<expiresAt, revokedAt, pc, token, startedAt, result>>

Revoke(t) ==
    /\ revokedAt[t] = Never
    /\ revokedAt' = [revokedAt EXCEPT ![t] = now]
    /\ UNCHANGED <<now, expiresAt, pc, token, startedAt, result>>

\* The IdP would have called the token active at time s.
ActiveAt(t, s) == s < expiresAt[t] /\ (revokedAt[t] = Never \/ s <= revokedAt[t])

\* A call about t that was made at time start may be answered so.
Allowed(t, start, verdict) ==
    \/ verdict = "unavailable"
    \/ /\ verdict = "active"
       /\ t \in Tokens
       /\ \E s \in 0..now : s >= start - Delay /\ ActiveAt(t, s)
    \/ /\ verdict = "inactive"
       /\ t \in Tokens
       /\ revokedAt[t] # Never \/ expiresAt[t] <= now

\* A call is made, and may be answered at once.
Call(c, t) ==
    /\ pc[c] = "idle"
    /\ token' = [token EXCEPT ![c] = t]
    /\ startedAt' = [startedAt EXCEPT ![c] = now]
    /\ \/ pc' = [pc EXCEPT ![c] = "asked"] /\ UNCHANGED result
       \/ \E verdict \in {"active", "inactive", "unavailable"} :
            /\ Allowed(t, now, verdict)
            /\ pc' = [pc EXCEPT ![c] = "returned"]
            /\ result' = [result EXCEPT ![c] = verdict]
    /\ UNCHANGED idpVars

\* Calls about one token are answered together.
Return(cs, t, verdict) ==
    /\ \A c \in cs : pc[c] = "asked" /\ token[c] = t /\ Allowed(t, startedAt[c], verdict)
    /\ pc' = [c \in Callers |-> IF c \in cs THEN "returned" ELSE pc[c]]
    /\ result' = [c \in Callers |-> IF c \in cs THEN verdict ELSE result[c]]
    /\ UNCHANGED <<idpVars, token, startedAt>>

Next ==
    \/ Tick
    \/ \E t \in Tokens : Revoke(t)
    \/ \E c \in Callers, t \in Tokens \cup {NoToken} : Call(c, t)
    \/ \E cs \in SUBSET Callers, t \in Tokens, v \in {"active", "inactive", "unavailable"} :
        Return(cs, t, v)

Spec == Init /\ [][Next]_vars
=============================================================================

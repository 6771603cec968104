----------------------------- MODULE KeyLookup -----------------------------
(***************************************************************************)
(* What the verifier relies on when it asks for a verification key,        *)
(* without the cache, the cooldowns and the flights: every call is         *)
(* answered once, about its own kid.  An answer given at once may be from  *)
(* an old document; a call that was made to wait is answered from one of   *)
(* its own time.                                                           *)
(***************************************************************************)
EXTENDS Integers

CONSTANTS
    Callers, Kids, NoKid,
    HitDelay,   \* how old a document may be that has the key at once
    MissDelay,  \* how old one may be that does not have it
    WaitDelay   \* how old one may be that was waited for

VARIABLES
    now,          \* the clock
    published,    \* the IdP's document
    withdrawnAt,  \* when it last withdrew a kid, or Never
    addedAt,      \* when it last added a kid, or Never
    pc,           \* where each call stands
    kid,          \* the kid it is about
    startedAt,    \* when it was made
    result        \* its answer

idpVars == <<published, withdrawnAt, addedAt>>
callVars == <<pc, kid, startedAt, result>>
vars == <<now, idpVars, callVars>>

Never == -1

Init ==
    /\ now = 0
    /\ published \in SUBSET Kids
    /\ withdrawnAt = [k \in Kids |-> Never]
    /\ addedAt = [k \in Kids |-> Never]
    /\ pc = [c \in Callers |-> "idle"]
    /\ kid = [c \in Callers |-> NoKid]
    /\ startedAt = [c \in Callers |-> 0]
    /\ result = [c \in Callers |-> "none"]

Tick == now' = now + 1 /\ UNCHANGED <<idpVars, callVars>>

Rotate(document) ==
    /\ published' = document
    /\ withdrawnAt' = [k \in Kids |->
            IF k \in published \ document THEN now ELSE withdrawnAt[k]]
    /\ addedAt' = [k \in Kids |-> IF k \in document \ published THEN now ELSE addedAt[k]]
    /\ UNCHANGED <<now, callVars>>

\* The answer is right for a document that the IdP served at time t or later.
Right(answer, k, t) ==
    \/ answer = "key" /\ (k \in published \/ (withdrawnAt[k] # Never /\ withdrawnAt[k] >= t))
    \/ answer = "unknown" /\ (k \notin published \/ (addedAt[k] # Never /\ addedAt[k] >= t))

\* What may be answered at once.
AtOnce(answer, k) ==
    \/ answer = "missing" /\ k = NoKid
    \/ answer = "unavailable" /\ k \in Kids
    \/ answer = "key" /\ k \in Kids /\ Right(answer, k, now - HitDelay)
    \/ answer = "unknown" /\ k \in Kids /\ Right(answer, k, now - MissDelay)

\* A call is made, and may be answered at once.
Call(c, k) ==
    /\ pc[c] = "idle"
    /\ kid' = [kid EXCEPT ![c] = k]
    /\ startedAt' = [startedAt EXCEPT ![c] = now]
    /\ \/ k \in Kids /\ pc' = [pc EXCEPT ![c] = "asked"] /\ UNCHANGED result
       \/ \E answer \in {"missing", "unavailable", "key", "unknown"} :
            /\ AtOnce(answer, k)
            /\ pc' = [pc EXCEPT ![c] = "returned"]
            /\ result' = [result EXCEPT ![c] = answer]
    /\ UNCHANGED <<now, idpVars>>

\* A call that has waited is answered.
Return(c, answer) ==
    /\ pc[c] = "asked"
    /\ Right(answer, kid[c], startedAt[c] - WaitDelay)
    /\ pc' = [pc EXCEPT ![c] = "returned"]
    /\ result' = [result EXCEPT ![c] = answer]
    /\ UNCHANGED <<now, idpVars, kid, startedAt>>

\* Calls that have waited for one failure hear of it together.
Fail(cs) ==
    /\ \A c \in cs : pc[c] = "asked"
    /\ pc' = [c \in Callers |-> IF c \in cs THEN "returned" ELSE pc[c]]
    /\ result' = [c \in Callers |-> IF c \in cs THEN "unavailable" ELSE result[c]]
    /\ UNCHANGED <<now, idpVars, kid, startedAt>>

Next ==
    \/ Tick
    \/ \E document \in SUBSET Kids : Rotate(document)
    \/ \E c \in Callers, k \in Kids \cup {NoKid} : Call(c, k)
    \/ \E c \in Callers, answer \in {"key", "unknown"} : Return(c, answer)
    \/ \E cs \in SUBSET Callers : Fail(cs)

Spec == Init /\ [][Next]_vars
=============================================================================

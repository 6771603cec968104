---------------------------- MODULE ServiceChain ----------------------------
(***************************************************************************)
(* The internal tokens in circulation.                                     *)
(*                                                                         *)
(* A request with an external token enters through the public listener and *)
(* is exchanged for an internal token addressed to its destination.  A     *)
(* service that has been called calls others through the internal          *)
(* listener: it presents the token it was called with, or declares its     *)
(* name, and the gateway reissues a token for the next destination.        *)
(*                                                                         *)
(* The gateway keeps no record of a token; what links the tokens of a      *)
(* chain is in their claims alone.  The fields root, parent, hops and      *)
(* srcExp below are not claims: they are history the properties compare    *)
(* the claims with.  A grant stands for scope, tenant_id and event_id,     *)
(* which are copied together.                                              *)
(***************************************************************************)
EXTENDS EdgePolicy

CONSTANTS
    Users,           \* subjects of external tokens
    Grants,          \* grants of external tokens
    EdgeLists,       \* lists of edges to start the process with
    Forgeries,       \* contexts the gateway has not signed
    TTL,             \* lifetime of an internal token
    Leeway,          \* clock skew the verifiers tolerate
    SourceLifetimes, \* remaining lifetimes of external tokens to explore
    MaxTime,         \* bound on the clock
    MaxIssued        \* bound on the tokens issued

Callers == {Entries[p].destination : p \in DOMAIN Entries}

ASSUME ServiceChainAssumption ==
    /\ NoName \notin Users \cup Grants \cup Callers
    /\ TTL \in Nat \ {0}
    /\ Leeway \in Nat
    /\ SourceLifetimes \subseteq Int
    /\ \A f \in Forgeries : f.jti = -1
    /\ MaxTime \in Nat
    /\ MaxIssued \in Nat

VARIABLES
    now,      \* the clock
    edges,    \* the edge policy, fixed at the start
    issued,   \* every internal token issued so far
    fresh     \* the last identifier drawn for a jti or a txn

vars == <<now, edges, issued, fresh>>

Tokens ==
    [jti : Nat, use : TokenUses, aud : Callers, sub : Users \cup Callers,
     originSub : Users \cup {NoName}, grant : Grants \cup {NoName}, txn : Nat,
     srcJti : Nat, exp : Int, root : Nat, parent : Nat, hops : Nat, srcExp : Int]

TypeOK ==
    /\ now \in Nat
    /\ Build(edges)
    /\ issued \in SUBSET Tokens
    /\ fresh \in Nat

Init ==
    /\ now = 0
    /\ edges \in {list \in EdgeLists : Build(list)}
    /\ issued = {}
    /\ fresh = 0

-----------------------------------------------------------------------------
(* The token library, as the gateway uses it.                              *)

\* Mutant: the lifetime of the external token is ignored.
IssueFromExternal_Uncapped(aud, use, user, grant, srcExp) ==
    [jti |-> fresh + 1, use |-> use, aud |-> aud, sub |-> user,
     originSub |-> NoName, grant |-> grant, txn |-> fresh + 2, srcJti |-> 0,
     exp |-> now + TTL,
     root |-> fresh + 1, parent |-> 0, hops |-> 0, srcExp |-> srcExp]

\* An entry token: it lives no longer than the external token it stands for.
IssueFromExternal(aud, use, user, grant, srcExp) ==
    [jti |-> fresh + 1, use |-> use, aud |-> aud, sub |-> user,
     originSub |-> NoName, grant |-> grant, txn |-> fresh + 2, srcJti |-> 0,
     exp |-> IF srcExp < now + TTL THEN srcExp ELSE now + TTL,
     root |-> fresh + 1, parent |-> 0, hops |-> 0, srcExp |-> srcExp]

\* Mutant: the second hop names the first service for the user.
IssueUserOriginService_Sub(aud, caller, context) ==
    [jti |-> fresh + 1, use |-> "service", aud |-> aud, sub |-> caller,
     originSub |-> context.sub,
     grant |-> context.grant, txn |-> context.txn, srcJti |-> context.jti,
     exp |-> now + TTL,
     root |-> context.root, parent |-> context.jti, hops |-> context.hops + 1,
     srcExp |-> context.srcExp]

\* A service token that goes on with a user's context, with a lifetime of its
\* own.
IssueUserOriginService(aud, caller, context) ==
    [jti |-> fresh + 1, use |-> "service", aud |-> aud, sub |-> caller,
     originSub |-> IF context.originSub # NoName THEN context.originSub ELSE context.sub,
     grant |-> context.grant, txn |-> context.txn, srcJti |-> context.jti,
     exp |-> now + TTL,
     root |-> context.root, parent |-> context.jti, hops |-> context.hops + 1,
     srcExp |-> context.srcExp]

\* Mutant: every hop draws a txn.
IssueMachineOriginService_NewTxn(aud, caller, context) ==
    [jti |-> fresh + 1, use |-> "service", aud |-> aud, sub |-> caller,
     originSub |-> NoName, grant |-> NoName, txn |-> fresh + 2,
     srcJti |-> 0, exp |-> now + TTL,
     root |-> IF context = NoContext THEN fresh + 1 ELSE context.root,
     parent |-> context.jti,
     hops |-> IF context = NoContext THEN 1 ELSE context.hops + 1,
     srcExp |-> IF context = NoContext THEN 0 ELSE context.srcExp]

\* A service token of a machine: it takes over the txn of a context and
\* nothing else.
IssueMachineOriginService(aud, caller, context) ==
    [jti |-> fresh + 1, use |-> "service", aud |-> aud, sub |-> caller,
     originSub |-> NoName, grant |-> NoName,
     txn |-> IF context = NoContext THEN fresh + 2 ELSE context.txn,
     srcJti |-> 0, exp |-> now + TTL,
     root |-> IF context = NoContext THEN fresh + 1 ELSE context.root,
     parent |-> context.jti,
     hops |-> IF context = NoContext THEN 1 ELSE context.hops + 1,
     srcExp |-> IF context = NoContext THEN 0 ELSE context.srcExp]

\* The context verifier: signed by the gateway, addressed to the presenter and
\* not expired beyond the tolerated skew.
Verify(context, presenter) ==
    context \in issued /\ context.aud = presenter /\ now < context.exp + Leeway

\* The issuer refuses a context that has expired, skew or not.
ContextExpired(context) == context # NoContext /\ now >= context.exp

-----------------------------------------------------------------------------
Tick ==
    /\ now < MaxTime
    /\ now' = now + 1
    /\ UNCHANGED <<edges, issued, fresh>>

\* The public listener admits an external token and exchanges it.  Its verifier
\* tolerates the skew, so the external token may just have expired.
Exchange(user, use, grant, procedure, lifetime) ==
    LET entry == Entries[procedure]
    IN  /\ fresh < 2 * MaxIssued
        /\ use \in entry.subjects
        /\ lifetime > -Leeway
        /\ issued' = issued \cup
            {IssueFromExternal(entry.destination, use, user, grant, now + lifetime)}
        /\ fresh' = fresh + 2
        /\ UNCHANGED <<now, edges>>

\* The token the internal listener forwards a call with.
ReissuedToken(caller, procedure, context, origin) ==
    LET aud == Entries[procedure].destination
    IN  IF origin = "user" THEN IssueUserOriginService(aud, caller, context)
        ELSE IssueMachineOriginService(aud, caller, context)

\* The internal listener reissues.
Forward(caller, procedure, context) ==
    LET origin == Reissue(edges, caller, procedure, context, Verify(context, caller))
    IN  /\ fresh < 2 * MaxIssued
        /\ origin \in {"user", "machine_chain", "new_machine"}
        /\ ~ContextExpired(context)
        /\ issued' = issued \cup {ReissuedToken(caller, procedure, context, origin)}
        /\ fresh' = fresh + 2
        /\ UNCHANGED <<now, edges>>

\* A call with a context: its aud, taken from the token before anything of it
\* is verified, names the caller.
ContextCall(context, procedure) == Forward(context.aud, procedure, context)

\* A call that declares its caller.
DeclaredCall(caller, procedure) == Forward(caller, procedure, NoContext)

Next ==
    \/ Tick
    \/ \E procedure \in DOMAIN Entries :
        \/ \E user \in Users, use \in UserTokenUses, grant \in Grants,
              lifetime \in SourceLifetimes :
                Exchange(user, use, grant, procedure, lifetime)
        \/ \E context \in issued \cup Forgeries : ContextCall(context, procedure)
        \/ \E caller \in Callers : DeclaredCall(caller, procedure)

Spec == Init /\ [][Next]_vars

-----------------------------------------------------------------------------
(* What the claims promise.                                                *)

\* A token that names a user as its origin goes back, over any number of hops,
\* to an entry token of that very user, and carries the grant and the txn of
\* that entry token unchanged: no hop can widen the scope, switch the tenant
\* or the event, or speak for somebody else.
UserChainIntact ==
    \A t \in issued : t.originSub # NoName =>
        \E r \in issued :
            /\ r.jti = t.root
            /\ r.use \in UserTokenUses
            /\ r.sub = t.originSub
            /\ r.grant = t.grant
            /\ r.txn = t.txn

\* A chain never changes its kind: what a user has started names the user at
\* every later hop, and what a machine has started names no user and carries
\* no grant.
OriginNeverChanges ==
    \A r, t \in issued : t.use = "service" /\ t.root = r.jti =>
        IF r.use \in UserTokenUses
        THEN t.originSub # NoName
        ELSE t.originSub = NoName /\ t.grant = NoName

\* Two tokens have the same txn exactly when they belong to the same chain, so
\* the audit trail can be put together from it.
TxnNamesTheChain ==
    \A t, u \in issued : t.txn = u.txn <=> t.root = u.root

\* Each token was issued to the service the token before it was addressed to,
\* for an edge of the policy, and never sends a service to itself.
ChainConnected ==
    \A t \in issued : t.use = "service" =>
        /\ t.sub # t.aud
        /\ \E i \in DOMAIN edges :
            edges[i].caller = t.sub /\ Entries[edges[i].procedure].destination = t.aud
        /\ t.parent # 0 =>
            \E p \in issued : p.jti = t.parent /\ p.aud = t.sub /\ p.root = t.root

\* A user's chain outlives the external token by one lifetime per hop at most:
\* every hop starts before the token of the hop before it expires, although
\* the lifetime of a reissued token is independent of it.
DelegationEnds ==
    \A t \in issued : t.use \in UserTokenUses \/ t.originSub # NoName =>
        t.exp <= t.srcExp + t.hops * TTL

\* With the catalogue's edges a user's chain has one hop, so nothing done in a
\* user's name is started later than one lifetime after the external token has
\* expired; and a machine's chain has two hops.
DelegationIsShort ==
    \A t \in issued :
        /\ t.hops <= 2
        /\ t.originSub # NoName => t.exp <= t.srcExp + TTL
=============================================================================

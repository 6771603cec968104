------------------------- MODULE ServiceChainProofs -------------------------
(***************************************************************************)
(* Proofs about ServiceChain.  The claims of a chain are right because     *)
(* each hop copies them from a token that is itself in the chain: the      *)
(* inductive invariant says, of every token, what its root looks like.     *)
(***************************************************************************)
EXTENDS ServiceChain, TLAPS

\* Identifiers in use were drawn before.
FreshInv ==
    \A t \in issued :
        t.jti \in 1..fresh /\ t.root \in 1..fresh /\ t.txn \in 1..fresh

\* The shape of entry tokens, and of service tokens without a user.
ShapeInv ==
    \A t \in issued :
        /\ t.use \in UserTokenUses =>
            t.sub \in Users /\ t.originSub = NoName /\ t.hops = 0 /\ t.root = t.jti
        /\ t.use = "service" /\ t.originSub = NoName => t.grant = NoName

\* The root of a token's chain, seen from the token.
RootInv ==
    \A t \in issued : \E r \in issued :
        /\ r.jti = t.root
        /\ r.txn = t.txn
        /\ \/ r = t
           \/ /\ r.use \in UserTokenUses /\ t.use = "service"
              /\ t.originSub = r.sub /\ t.grant = r.grant
           \/ r.use = "service" /\ t.use = "service" /\ t.originSub = NoName
        /\ r.use = "service" => t.use = "service" /\ t.originSub = NoName

\* No identifier is drawn twice.
UniqueInv == \A t, u \in issued : t.jti = u.jti => t = u

IInv ==
    /\ TypeOK
    /\ FreshInv
    /\ ShapeInv
    /\ RootInv
    /\ UniqueInv
    /\ TxnNamesTheChain
    /\ ChainConnected
    /\ DelegationEnds

LEMMA InitIInv == Init => IInv
BY ServiceChainAssumption
DEF Init, IInv, TypeOK, FreshInv, ShapeInv, RootInv, UniqueInv,
    TxnNamesTheChain, ChainConnected, DelegationEnds

\* What Reissue has found out when it names an origin.
LEMMA ReissueFacts ==
    ASSUME NEW caller, NEW procedure, NEW context,
           Reissue(edges, caller, procedure, context, Verify(context, caller))
               \in {"user", "machine_chain", "new_machine"}
    PROVE  LET origin == Reissue(edges, caller, procedure, context, Verify(context, caller))
           IN  /\ procedure \in DOMAIN Entries
               /\ \E i \in DOMAIN edges :
                    edges[i].caller = caller /\ edges[i].procedure = procedure
               /\ origin = "new_machine" <=> context = NoContext
               /\ context # NoContext => Verify(context, caller)
               /\ origin = "user" => context # NoContext /\ isUserOrigin(context)
               /\ origin = "machine_chain" =>
                    context.use = "service" /\ ~isUserOrigin(context)
<1> DEFINE edge == edges[CHOOSE i \in Lookup(edges, caller, procedure) : TRUE]
           origin == Reissue(edges, caller, procedure, context, Verify(context, caller))
<1>1. /\ context # NoContext => Verify(context, caller)
      /\ Lookup(edges, caller, procedure) # {}
      /\ procedure \in DOMAIN Entries
      /\ origin = Origin(edge, context)
  BY DEF Reissue
<1>2. \E i \in DOMAIN edges : edges[i].caller = caller /\ edges[i].procedure = procedure
  BY <1>1 DEF Lookup
<1>3. /\ origin = "new_machine" <=> context = NoContext
      /\ origin = "user" => context # NoContext /\ isUserOrigin(context)
      /\ origin = "machine_chain" => context.use = "service" /\ ~isUserOrigin(context)
  <2> HIDE DEF edge
  <2> QED BY <1>1 DEF Origin
<1> QED BY <1>1, <1>2, <1>3

\* A policy that has been built sends no service to itself.
LEMMA NoSelfEdge ==
    ASSUME Build(edges), NEW i \in DOMAIN edges
    PROVE  edges[i].caller # Entries[edges[i].procedure].destination
BY DEF Build, checkEdge

\* A set of tokens that satisfies the invariant still does with one more entry
\* token.
LEMMA ExchangeIInv ==
    ASSUME IInv, NEW user \in Users, NEW use \in UserTokenUses, NEW grant \in Grants,
           NEW procedure \in DOMAIN Entries, NEW lifetime \in SourceLifetimes,
           Exchange(user, use, grant, procedure, lifetime)
    PROVE  IInv'
<1> DEFINE new == IssueFromExternal(Entries[procedure].destination, use, user, grant,
                                    now + lifetime)
<1>1. /\ issued' = issued \cup {new} /\ fresh' = fresh + 2
      /\ now' = now /\ edges' = edges
      /\ lifetime \in Int /\ fresh \in Nat /\ now \in Nat
  BY ServiceChainAssumption DEF Exchange, IInv, TypeOK
<1>2. Entries[procedure].destination \in Callers
  BY DEF Callers
<1>3. new \in Tokens
  BY <1>1, <1>2, ServiceChainAssumption DEF IssueFromExternal, Tokens, TokenUses
<1>4. /\ new.jti = fresh + 1 /\ new.root = fresh + 1 /\ new.txn = fresh + 2
      /\ new.use \in UserTokenUses /\ new.use # "service" /\ new.sub \in Users
      /\ new.originSub = NoName /\ new.hops = 0
      /\ new.exp <= new.srcExp + new.hops * TTL
  BY <1>1, ServiceChainAssumption DEF IssueFromExternal, UserTokenUses
<1> HIDE DEF new
<1>5. TypeOK'
  BY <1>1, <1>3 DEF IInv, TypeOK
<1>6. FreshInv' /\ UniqueInv'
  BY <1>1, <1>3, <1>4 DEF IInv, TypeOK, FreshInv, UniqueInv, Tokens
<1>7. ShapeInv'
  BY <1>1, <1>4 DEF IInv, ShapeInv
<1>8. RootInv'
  BY <1>1, <1>4 DEF IInv, RootInv
<1>9. TxnNamesTheChain'
  BY <1>1, <1>3, <1>4 DEF IInv, TypeOK, FreshInv, TxnNamesTheChain, Tokens
<1>10. ChainConnected'
  BY <1>1, <1>4 DEF IInv, ChainConnected
<1>11. DelegationEnds'
  BY <1>1, <1>4 DEF IInv, DelegationEnds
<1> QED BY <1>5, <1>6, <1>7, <1>8, <1>9, <1>10, <1>11 DEF IInv

\* A token reissued for a verified context.
LEMMA ChainIInv ==
    ASSUME IInv, NEW context \in issued, NEW procedure \in DOMAIN Entries,
           Forward(context.aud, procedure, context)
    PROVE  IInv'
<1> DEFINE caller == context.aud
           origin == Reissue(edges, caller, procedure, context, Verify(context, caller))
           new == ReissuedToken(caller, procedure, context, origin)
           aud == Entries[procedure].destination
<1>1. /\ issued' = issued \cup {new} /\ fresh' = fresh + 2
      /\ now' = now /\ edges' = edges
      /\ fresh \in Nat /\ now \in Nat
      /\ origin \in {"user", "machine_chain", "new_machine"}
      /\ ~ContextExpired(context)
  BY DEF Forward, IInv, TypeOK
<1>2. context \in Tokens /\ context.jti \in 1..fresh /\ context # NoContext
  <2>1. context \in Tokens /\ context.jti \in 1..fresh
    BY DEF IInv, TypeOK, FreshInv
  <2>2. context.jti # 0
    BY <2>1, <1>1
  <2> QED BY <2>1, <2>2 DEF NoContext
<1>3. now < context.exp
  BY <1>1, <1>2 DEF ContextExpired, Tokens
<1>4. aud \in Callers /\ caller \in Callers
  BY <1>2 DEF Callers, Tokens
<1>5. \E i \in DOMAIN edges : edges[i].caller = caller /\ edges[i].procedure = procedure
  BY <1>1, ReissueFacts
<1>6. \/ origin = "user" /\ isUserOrigin(context)
      \/ origin = "machine_chain" /\ context.use = "service" /\ ~isUserOrigin(context)
  BY <1>1, <1>2, ReissueFacts
<1>7. new = IF origin = "user" THEN IssueUserOriginService(aud, caller, context)
            ELSE IssueMachineOriginService(aud, caller, context)
  BY DEF ReissuedToken
<1> HIDE DEF new, origin
<1>8. /\ new.jti = fresh + 1 /\ new.root = context.root /\ new.txn = context.txn
      /\ new.use = "service" /\ new.sub = caller /\ new.aud = aud
      /\ new.parent = context.jti /\ new.hops = context.hops + 1
      /\ new.srcExp = context.srcExp /\ new.exp = now + TTL
  BY <1>2, <1>7 DEF IssueUserOriginService, IssueMachineOriginService
<1>9. \/ /\ context.use \in UserTokenUses
         /\ new.originSub = context.sub /\ new.grant = context.grant
      \/ /\ context.use = "service" /\ context.originSub # NoName
         /\ new.originSub = context.originSub /\ new.grant = context.grant
      \/ /\ context.use = "service" /\ context.originSub = NoName
         /\ new.originSub = NoName /\ new.grant = NoName
  BY <1>2, <1>6, <1>7
  DEF IssueUserOriginService, IssueMachineOriginService, isUserOrigin, IInv, ShapeInv
<1>10. new \in Tokens
  <2>1. new.originSub \in Users \cup {NoName} /\ new.grant \in Grants \cup {NoName}
    BY <1>2, <1>9 DEF IInv, ShapeInv, Tokens
  <2>2. fresh + 1 \in Nat /\ context.hops + 1 \in Nat /\ now + TTL \in Int
    BY <1>1, <1>2, ServiceChainAssumption DEF Tokens
  <2>3. CASE origin = "user"
    BY <2>1, <2>2, <2>3, <1>2, <1>4, <1>7 DEF IssueUserOriginService, Tokens, TokenUses
  <2>4. CASE origin # "user"
    BY <2>1, <2>2, <2>4, <1>2, <1>4, <1>7 DEF IssueMachineOriginService, Tokens, TokenUses
  <2> QED BY <2>3, <2>4
<1>11. TypeOK'
  BY <1>1, <1>10 DEF IInv, TypeOK
<1>12. FreshInv' /\ UniqueInv'
  BY <1>1, <1>2, <1>8, <1>10 DEF IInv, TypeOK, FreshInv, UniqueInv, Tokens
<1>13. ShapeInv'
  <2>1. new.originSub = NoName => new.grant = NoName
    BY <1>9, ServiceChainAssumption DEF IInv, ShapeInv
  <2> QED BY <2>1, <1>1, <1>8 DEF IInv, ShapeInv, UserTokenUses
<1>14. RootInv'
  <2>1. PICK r \in issued :
            /\ r.jti = context.root
            /\ r.txn = context.txn
            /\ \/ r = context
               \/ /\ r.use \in UserTokenUses /\ context.use = "service"
                  /\ context.originSub = r.sub /\ context.grant = r.grant
               \/ r.use = "service" /\ context.use = "service" /\ context.originSub = NoName
            /\ r.use = "service" => context.use = "service" /\ context.originSub = NoName
    BY DEF IInv, RootInv
  <2>2. r.use \in UserTokenUses => r.sub # NoName
    BY ServiceChainAssumption DEF IInv, ShapeInv
  <2>3. r.use \in UserTokenUses \/ r.use = "service"
    BY DEF IInv, TypeOK, Tokens, TokenUses
  <2>4. "service" \notin UserTokenUses
    BY DEF UserTokenUses
  <2>5. \/ r.use \in UserTokenUses /\ new.originSub = r.sub /\ new.grant = r.grant
        \/ r.use = "service" /\ new.originSub = NoName
    BY <2>1, <2>2, <2>3, <2>4, <1>9
  <2> QED BY <2>1, <2>4, <2>5, <1>1, <1>8 DEF IInv, RootInv
<1>15. TxnNamesTheChain'
  BY <1>1, <1>2, <1>8 DEF IInv, TxnNamesTheChain
<1>16. ChainConnected'
  <2>1. PICK i \in DOMAIN edges : edges[i].caller = caller /\ edges[i].procedure = procedure
    BY <1>5
  <2>2. caller # aud
    BY <2>1, NoSelfEdge DEF IInv, TypeOK
  <2> QED BY <2>1, <2>2, <1>1, <1>8 DEF IInv, ChainConnected
<1>17. DelegationEnds'
  <2>1. (context.hops + 1) * TTL = context.hops * TTL + TTL
    BY <1>2, ServiceChainAssumption DEF Tokens
  <2>2. new.originSub # NoName => context.exp <= context.srcExp + context.hops * TTL
    BY <1>9 DEF IInv, DelegationEnds
  <2>3. context.hops * TTL \in Int
    BY <1>2, ServiceChainAssumption DEF Tokens
  <2>4. new.originSub # NoName => new.exp <= new.srcExp + new.hops * TTL
    BY <2>1, <2>2, <2>3, <1>1, <1>2, <1>3, <1>8, ServiceChainAssumption DEF Tokens
  <2>5. new.use \notin UserTokenUses
    BY <1>8 DEF UserTokenUses
  <2> QED BY <2>4, <2>5, <1>1 DEF IInv, DelegationEnds
<1> QED BY <1>11, <1>12, <1>13, <1>14, <1>15, <1>16, <1>17 DEF IInv

\* A token that starts a machine's chain.
LEMMA NewMachineIInv ==
    ASSUME IInv, NEW caller \in Callers, NEW procedure \in DOMAIN Entries,
           Forward(caller, procedure, NoContext)
    PROVE  IInv'
<1> DEFINE origin == Reissue(edges, caller, procedure, NoContext, Verify(NoContext, caller))
           new == ReissuedToken(caller, procedure, NoContext, origin)
           aud == Entries[procedure].destination
<1>1. /\ issued' = issued \cup {new} /\ fresh' = fresh + 2
      /\ now' = now /\ edges' = edges
      /\ fresh \in Nat /\ now \in Nat
      /\ origin \in {"user", "machine_chain", "new_machine"}
  BY DEF Forward, IInv, TypeOK
<1>2. origin = "new_machine"
  BY <1>1, ReissueFacts
<1>3. \E i \in DOMAIN edges : edges[i].caller = caller /\ edges[i].procedure = procedure
  BY <1>1, ReissueFacts
<1>4. new = IssueMachineOriginService(aud, caller, NoContext)
  BY <1>2 DEF ReissuedToken
<1> HIDE DEF new, origin
<1>5. /\ new.jti = fresh + 1 /\ new.root = fresh + 1 /\ new.txn = fresh + 2
      /\ new.use = "service" /\ new.sub = caller /\ new.aud = aud
      /\ new.parent = 0 /\ new.originSub = NoName /\ new.grant = NoName
  BY <1>4 DEF IssueMachineOriginService, NoContext
<1>6. new \in Tokens
  <2>1. aud \in Callers
    BY DEF Callers
  <2>2. fresh + 1 \in Nat /\ fresh + 2 \in Nat /\ now + TTL \in Int
    BY <1>1, ServiceChainAssumption
  <2> QED BY <2>1, <2>2, <1>4 DEF IssueMachineOriginService, Tokens, TokenUses, NoContext
<1>7. TypeOK'
  BY <1>1, <1>6 DEF IInv, TypeOK
<1>8. FreshInv' /\ UniqueInv'
  BY <1>1, <1>5, <1>6 DEF IInv, TypeOK, FreshInv, UniqueInv, Tokens
<1>9. ShapeInv'
  BY <1>1, <1>5 DEF IInv, ShapeInv, UserTokenUses
<1>10. RootInv'
  BY <1>1, <1>5 DEF IInv, RootInv
<1>11. TxnNamesTheChain'
  BY <1>1, <1>5, <1>6 DEF IInv, TypeOK, FreshInv, TxnNamesTheChain, Tokens
<1>12. ChainConnected'
  <2>1. PICK i \in DOMAIN edges : edges[i].caller = caller /\ edges[i].procedure = procedure
    BY <1>3
  <2>2. caller # aud
    BY <2>1, NoSelfEdge DEF IInv, TypeOK
  <2> QED BY <2>1, <2>2, <1>1, <1>5 DEF IInv, ChainConnected
<1>13. DelegationEnds'
  BY <1>1, <1>5 DEF IInv, DelegationEnds, UserTokenUses
<1> QED BY <1>7, <1>8, <1>9, <1>10, <1>11, <1>12, <1>13 DEF IInv

LEMMA NextIInv == IInv /\ [Next]_vars => IInv'
<1> SUFFICES ASSUME IInv, [Next]_vars PROVE IInv'
  OBVIOUS
<1>1. CASE Tick \/ UNCHANGED vars
  <2>1. issued' = issued /\ edges' = edges /\ fresh' = fresh /\ now' \in Nat
    BY <1>1 DEF Tick, vars, IInv, TypeOK
  <2> QED BY <2>1
      DEF IInv, TypeOK, FreshInv, ShapeInv, RootInv, UniqueInv,
          TxnNamesTheChain, ChainConnected, DelegationEnds
<1>2. ASSUME NEW procedure \in DOMAIN Entries, NEW user \in Users,
             NEW use \in UserTokenUses, NEW grant \in Grants,
             NEW lifetime \in SourceLifetimes,
             Exchange(user, use, grant, procedure, lifetime)
      PROVE  IInv'
  BY <1>2, ExchangeIInv
<1>3. ASSUME NEW procedure \in DOMAIN Entries, NEW context \in issued \cup Forgeries,
             ContextCall(context, procedure)
      PROVE  IInv'
  <2>1. context # NoContext
    BY ServiceChainAssumption DEF NoContext, IInv, FreshInv
  <2>2. Verify(context, context.aud)
    BY <1>3, <2>1, ReissueFacts DEF ContextCall, Forward
  <2>3. context \in issued
    BY <2>2 DEF Verify
  <2> QED BY <2>3, <1>3, ChainIInv DEF ContextCall
<1>4. ASSUME NEW procedure \in DOMAIN Entries, NEW caller \in Callers,
             DeclaredCall(caller, procedure)
      PROVE  IInv'
  BY <1>4, NewMachineIInv DEF DeclaredCall
<1> QED BY <1>1, <1>2, <1>3, <1>4 DEF Next

\* The inductive invariant holds for every registry and every policy Build
\* accepts.
THEOREM Invariance == Spec => []IInv
BY InitIInv, NextIInv, PTL DEF Spec

\* Tokens are well formed and the policy stays the one that was built.
THEOREM TypeCorrect == Spec => []TypeOK
<1>1. IInv => TypeOK
  BY DEF IInv
<1> QED BY <1>1, Invariance, PTL

\* Every token that names a user descends from an entry token of that user,
\* with its grant and txn.
THEOREM UserChainsAreIntact == Spec => []UserChainIntact
<1>1. IInv => UserChainIntact
  <2> SUFFICES ASSUME IInv, NEW t \in issued, t.originSub # NoName
               PROVE  \E r \in issued :
                        /\ r.jti = t.root /\ r.use \in UserTokenUses
                        /\ r.sub = t.originSub /\ r.grant = t.grant /\ r.txn = t.txn
    BY DEF UserChainIntact
  <2>1. t.use \in UserTokenUses \/ t.use = "service"
    BY DEF IInv, TypeOK, Tokens, TokenUses
  <2> QED BY <2>1 DEF IInv, RootInv, ShapeInv
<1> QED BY <1>1, Invariance, PTL

\* A chain that a user has started names the user at every hop, and one that a
\* machine has started never does.
THEOREM OriginsNeverChange == Spec => []OriginNeverChanges
<1>1. IInv => OriginNeverChanges
  <2> SUFFICES ASSUME IInv, NEW r \in issued, NEW t \in issued,
                      t.use = "service", t.root = r.jti
               PROVE  IF r.use \in UserTokenUses
                      THEN t.originSub # NoName
                      ELSE t.originSub = NoName /\ t.grant = NoName
    BY DEF OriginNeverChanges
  <2>1. PICK q \in issued :
            /\ q.jti = t.root
            /\ \/ q = t
               \/ /\ q.use \in UserTokenUses
                  /\ t.originSub = q.sub
               \/ q.use = "service" /\ t.originSub = NoName
            /\ q.use = "service" => t.originSub = NoName
    BY DEF IInv, RootInv
  <2>2. q = r
    BY <2>1 DEF IInv, UniqueInv
  <2>3. r.use \in UserTokenUses \/ r.use = "service"
    BY DEF IInv, TypeOK, Tokens, TokenUses
  <2>4. "service" \notin UserTokenUses
    BY DEF UserTokenUses
  <2>5. r.use \in UserTokenUses => r.sub # NoName
    BY ServiceChainAssumption DEF IInv, ShapeInv
  <2>6. t.originSub = NoName => t.grant = NoName
    BY DEF IInv, ShapeInv
  <2> QED BY <2>1, <2>2, <2>3, <2>4, <2>5, <2>6
<1> QED BY <1>1, Invariance, PTL

\* The txn tells chains apart and holds each together.
THEOREM TxnsNameTheChains == Spec => []TxnNamesTheChain
<1>1. IInv => TxnNamesTheChain
  BY DEF IInv
<1> QED BY <1>1, Invariance, PTL

\* Each hop starts at the service the hop before it ended at, along an edge.
THEOREM ChainsAreConnected == Spec => []ChainConnected
<1>1. IInv => ChainConnected
  BY DEF IInv
<1> QED BY <1>1, Invariance, PTL

\* A user's delegation ends one token lifetime per hop after the external token.
THEOREM DelegationsEnd == Spec => []DelegationEnds
<1>1. IInv => DelegationEnds
  BY DEF IInv
<1> QED BY <1>1, Invariance, PTL

-----------------------------------------------------------------------------
(* How far a chain goes depends on the edges.                              *)

Catalogue == INSTANCE Catalog

\* No edge takes a service's token for a user, and where a machine's chain may be
\* taken to, no edge takes it further.
Shallow(list) ==
    /\ \A i \in DOMAIN list : \A j \in DOMAIN list[i].tokenUses :
        list[i].tokenUses[j] # "service"
    /\ \A i, j \in DOMAIN list :
        "machine_chain" \in list[i].origins /\ "machine_chain" \in list[j].origins =>
            Entries[list[i].procedure].destination # list[j].caller

\* An edge takes machines' chains to the service.
ChainsEndAt(list, service) ==
    \E i \in DOMAIN list :
        "machine_chain" \in list[i].origins
        /\ Entries[list[i].procedure].destination = service

\* A user's chain has one hop; a machine's has one, or two and ends there.
HopsInv ==
    /\ edges \in EdgeLists
    /\ \A t \in issued : t.use = "service" =>
        \/ t.hops = 1
        \/ t.hops = 2 /\ t.originSub = NoName /\ ChainsEndAt(edges, t.aud)

\* The edge that an origin was found with.
LEMMA ReissueEdge ==
    ASSUME NEW caller, NEW procedure, NEW context,
           Reissue(edges, caller, procedure, context, Verify(context, caller))
               \in {"user", "machine_chain", "new_machine"}
    PROVE  \E i \in DOMAIN edges :
            /\ edges[i].caller = caller /\ edges[i].procedure = procedure
            /\ Reissue(edges, caller, procedure, context, Verify(context, caller))
                    = Origin(edges[i], context)
<1> DEFINE i == CHOOSE i \in Lookup(edges, caller, procedure) : TRUE
<1>1. /\ Lookup(edges, caller, procedure) # {}
      /\ Reissue(edges, caller, procedure, context, Verify(context, caller))
            = Origin(edges[i], context)
  BY DEF Reissue
<1>2. i \in Lookup(edges, caller, procedure)
  BY <1>1
<1> QED BY <1>1, <1>2 DEF Lookup

\* A hop keeps HopsInv if the edges are shallow.
LEMMA ChainHops ==
    ASSUME IInv, HopsInv, Shallow(edges), NEW context \in issued,
           NEW procedure \in DOMAIN Entries, Forward(context.aud, procedure, context)
    PROVE  HopsInv'
<1> DEFINE caller == context.aud
           origin == Reissue(edges, caller, procedure, context, Verify(context, caller))
           new == ReissuedToken(caller, procedure, context, origin)
           aud == Entries[procedure].destination
<1>1. /\ issued' = issued \cup {new} /\ edges' = edges
      /\ origin \in {"user", "machine_chain", "new_machine"}
  BY DEF Forward
<1>2. context \in Tokens /\ context # NoContext
  <2>1. context \in Tokens /\ context.jti \in 1..fresh /\ fresh \in Nat
    BY DEF IInv, TypeOK, FreshInv
  <2>2. context.jti # 0
    BY <2>1
  <2> QED BY <2>1, <2>2 DEF NoContext
<1>3. PICK i \in DOMAIN edges :
        /\ edges[i].caller = caller /\ edges[i].procedure = procedure
        /\ origin = Origin(edges[i], context)
  BY <1>1, ReissueEdge
<1>4. \/ origin = "user" /\ isUserOrigin(context)
      \/ origin = "machine_chain" /\ context.use = "service" /\ ~isUserOrigin(context)
  BY <1>1, <1>2, ReissueFacts
<1>5. new = IF origin = "user" THEN IssueUserOriginService(aud, caller, context)
            ELSE IssueMachineOriginService(aud, caller, context)
  BY DEF ReissuedToken
<1> HIDE DEF new, origin
<1>6. new.hops = context.hops + 1 /\ new.aud = aud
  BY <1>2, <1>5 DEF IssueUserOriginService, IssueMachineOriginService
<1>7. CASE origin = "user"
  <2>1. \E j \in DOMAIN edges[i].tokenUses : edges[i].tokenUses[j] = context.use
    BY <1>2, <1>3, <1>4, <1>7 DEF Origin
  <2>2. context.use # "service"
    BY <2>1 DEF Shallow
  <2>3. context.hops = 0
    BY <1>4, <1>7, <2>2 DEF isUserOrigin, IInv, ShapeInv
  <2> QED BY <1>1, <1>6, <2>3 DEF HopsInv
<1>8. CASE origin = "machine_chain"
  <2>1. "machine_chain" \in edges[i].origins /\ context.use = "service"
    BY <1>2, <1>3, <1>4, <1>8 DEF Origin
  <2>2. ~ChainsEndAt(edges, caller)
    BY <1>3, <2>1 DEF Shallow, ChainsEndAt
  <2>3. context.hops = 1
    BY <2>1, <2>2 DEF HopsInv
  <2>4. new.originSub = NoName
    BY <1>5, <1>8 DEF IssueMachineOriginService
  <2>5. ChainsEndAt(edges, aud)
    BY <1>3, <2>1 DEF ChainsEndAt
  <2> QED BY <1>1, <1>6, <2>3, <2>4, <2>5 DEF HopsInv
<1> QED BY <1>4, <1>7, <1>8

\* So does every step.
LEMMA NextHops ==
    ASSUME \A list \in EdgeLists : Shallow(list)
    PROVE  IInv /\ HopsInv /\ [Next]_vars => HopsInv'
<1> SUFFICES ASSUME IInv, HopsInv, [Next]_vars PROVE HopsInv'
  OBVIOUS
<1>0. Shallow(edges)
  BY DEF HopsInv
<1>1. CASE Tick \/ UNCHANGED vars
  BY <1>1 DEF Tick, vars, HopsInv
<1>2. ASSUME NEW procedure \in DOMAIN Entries, NEW user \in Users,
             NEW use \in UserTokenUses, NEW grant \in Grants,
             NEW lifetime \in SourceLifetimes,
             Exchange(user, use, grant, procedure, lifetime)
      PROVE  HopsInv'
  <2>1. use # "service"
    BY DEF UserTokenUses
  <2> QED BY <1>2, <2>1 DEF Exchange, IssueFromExternal, HopsInv
<1>3. ASSUME NEW procedure \in DOMAIN Entries, NEW context \in issued \cup Forgeries,
             ContextCall(context, procedure)
      PROVE  HopsInv'
  <2>1. context # NoContext
    BY ServiceChainAssumption DEF NoContext, IInv, FreshInv
  <2>2. Verify(context, context.aud)
    BY <1>3, <2>1, ReissueFacts DEF ContextCall, Forward
  <2>3. context \in issued
    BY <2>2 DEF Verify
  <2> QED BY <1>0, <1>3, <2>3, ChainHops DEF ContextCall, Forward
<1>4. ASSUME NEW procedure \in DOMAIN Entries, NEW caller \in Callers,
             DeclaredCall(caller, procedure)
      PROVE  HopsInv'
  <2> DEFINE origin == Reissue(edges, caller, procedure, NoContext, Verify(NoContext, caller))
             new == ReissuedToken(caller, procedure, NoContext, origin)
  <2>1. /\ issued' = issued \cup {new} /\ edges' = edges
        /\ origin \in {"user", "machine_chain", "new_machine"}
    BY <1>4 DEF DeclaredCall, Forward
  <2>2. origin = "new_machine"
    BY <2>1, ReissueFacts
  <2>3. new.hops = 1
    BY <2>2 DEF ReissuedToken, IssueMachineOriginService
  <2> HIDE DEF new
  <2> QED BY <2>1, <2>3 DEF HopsInv
<1> QED BY <1>1, <1>2, <1>3, <1>4 DEF Next

\* DelegationIsShort is invariant for every registry and every shallow policy.
THEOREM ShallowPoliciesDelegateShortly ==
    ASSUME \A list \in EdgeLists : Shallow(list)
    PROVE  Spec => []DelegationIsShort
<1>1. Init => HopsInv
  BY DEF Init, HopsInv
<1>2. IInv /\ HopsInv /\ [Next]_vars => HopsInv'
  BY NextHops
<1>3. IInv /\ HopsInv => DelegationIsShort
  <2> SUFFICES ASSUME IInv, HopsInv, NEW t \in issued
               PROVE  t.hops <= 2 /\ (t.originSub # NoName => t.exp <= t.srcExp + TTL)
    BY DEF DelegationIsShort
  <2>1. t \in Tokens
    BY DEF IInv, TypeOK
  <2>2. CASE t.use = "service"
    <3>1. t.hops <= 2 /\ (t.originSub # NoName => t.hops = 1)
      BY <2>2 DEF HopsInv
    <3>2. t.originSub # NoName => t.exp <= t.srcExp + 1 * TTL
      BY <3>1 DEF IInv, DelegationEnds
    <3>3. 1 * TTL = TTL
      BY ServiceChainAssumption
    <3> QED BY <3>1, <3>2, <3>3
  <2>3. CASE t.use # "service"
    <3>1. t.use \in UserTokenUses
      BY <2>1, <2>3 DEF Tokens, TokenUses
    <3> QED BY <3>1 DEF IInv, ShapeInv
  <2> QED BY <2>2, <2>3
<1> QED BY <1>1, <1>2, <1>3, Invariance, PTL DEF Spec

\* The edges of catalog.Edges are shallow.
LEMMA CatalogueIsShallow ==
    ASSUME Entries = Catalogue!Bindings
    PROVE  Shallow(Catalogue!Edges)
<1> DEFINE list == Catalogue!Edges
<1> USE DEF Catalogue!Edges, Catalogue!Edge, Catalogue!fromObservation, Catalogue!fromGuest
<1>1. DOMAIN list = 1..12
  OBVIOUS
<1>2. ASSUME NEW i \in 1..12
      PROVE  \A j \in DOMAIN list[i].tokenUses : list[i].tokenUses[j] # "service"
  <2>1. list[i].tokenUses \in {<<"event_access">>, <<>>}
    BY <1>2
  <2> QED BY <2>1
<1>3. ASSUME NEW i \in 1..12, "machine_chain" \in list[i].origins
      PROVE  /\ list[i].caller = "tolo-observation"
             /\ list[i].procedure \in {"GetCurrentRevision", "GetObservationPointMappings",
                    "GetQrLocations", "RequestProposalDelivery", "RecordFeedbackValues"}
  BY <1>3
<1>4. ASSUME NEW p \in {"GetCurrentRevision", "GetObservationPointMappings",
                    "GetQrLocations", "RequestProposalDelivery", "RecordFeedbackValues"}
      PROVE  Entries[p].destination # "tolo-observation"
  BY <1>4 DEF Catalogue!Bindings, Catalogue!Entry
<1> HIDE DEF list
<1>5. ASSUME NEW i \in DOMAIN list, NEW j \in DOMAIN list,
             "machine_chain" \in list[i].origins, "machine_chain" \in list[j].origins
      PROVE  Entries[list[i].procedure].destination # list[j].caller
  <2>1. Entries[list[i].procedure].destination # "tolo-observation"
    BY <1>1, <1>3, <1>4, <1>5
  <2>2. list[j].caller = "tolo-observation"
    BY <1>1, <1>3, <1>5
  <2> QED BY <2>1, <2>2
<1>6. Shallow(list)
  BY <1>1, <1>2, <1>5 DEF Shallow
<1> QED BY <1>6 DEF list

\* DelegationIsShort is invariant with the edges and bindings of the catalogue:
\* whatever the number of users, grants, hops and tokens and whatever the lifetimes,
\* nothing is done in a user's name later than one lifetime after the external
\* token.
THEOREM DelegationsAreShort ==
    ASSUME Entries = Catalogue!Bindings, EdgeLists = {Catalogue!Edges}
    PROVE  Spec => []DelegationIsShort
<1>1. \A list \in EdgeLists : Shallow(list)
  BY CatalogueIsShallow
<1> QED BY <1>1, ShallowPoliciesDelegateShortly
=============================================================================

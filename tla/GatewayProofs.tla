--------------------------- MODULE GatewayProofs ---------------------------
(***************************************************************************)
(* What Gateway promises, proved for every set of deployments, bearer      *)
(* tokens and headers.                                                     *)
(*                                                                         *)
(* The first part is about the operators: what the registry derives from a *)
(* policy says the same as the policy, and the refusals of the stages,     *)
(* taken together, say the same as Admissible.  The second part carries    *)
(* what each stage has established to the next one.                        *)
(***************************************************************************)
EXTENDS Gateway, TLAPS

\* What is known of the tables once the process has started.
SoundTables(d) ==
    /\ \A p \in Bound(d) : deriveSubjects(PolicyOf(d, p)) # {}
    /\ \A i, j \in DOMAIN d.edges :
        d.edges[i].caller = d.edges[j].caller /\ d.edges[i].procedure = d.edges[j].procedure
            => i = j
    /\ \A i \in DOMAIN d.edges :
        /\ d.edges[i].caller # ""
        /\ d.edges[i].procedure \in Bound(d)
        /\ "service" \in deriveSubjects(PolicyOf(d, d.edges[i].procedure))
        /\ Elements(d.edges[i].tokenUses) \subseteq KnownTokenUses

-----------------------------------------------------------------------------
(* The registry.                                                           *)

\* deriveSubjects accepts exactly whom a policy names: nobody is anonymous but at
\* level "public", services are let in by level "internal" or by name, and
\* external tokens by level "authenticated" and by name.
LEMMA SubjectsArePolicy ==
    ASSUME NEW policy
    PROVE  LET subjects == deriveSubjects(policy)
           IN  /\ "anonymous" \in subjects => policy.level = "public"
               /\ "service" \in subjects =>
                    policy.level = "internal" \/ "service" \in Elements(policy.tokenUses)
               /\ ExternalTokenUses(subjects) # {} =>
                    policy.level = "authenticated" /\ subjects = Elements(policy.tokenUses)
               /\ subjects # {} /\ policy.level = "public" => "anonymous" \in subjects
               /\ subjects # {} /\ policy.level = "authenticated" =>
                    /\ subjects = Elements(policy.tokenUses)
                    /\ subjects \subseteq KnownTokenUses
<1>1. CASE policy.level = "public"
    BY <1>1 DEF deriveSubjects, ExternalTokenUses
<1>2. CASE policy.level = "internal"
    BY <1>2 DEF deriveSubjects, ExternalTokenUses
<1>3. CASE policy.level = "authenticated"
    BY <1>3 DEF deriveSubjects, ExternalTokenUses, authenticatedSubjects, KnownTokenUses
<1>4. CASE policy.level \notin {"public", "internal", "authenticated"}
    BY <1>4 DEF deriveSubjects, ExternalTokenUses
<1> QED BY <1>1, <1>2, <1>3, <1>4

\* A bound procedure has the policy of a binding that declares it.
LEMMA BindingDeclares ==
    ASSUME NEW d, NEW p \in Bound(d)
    PROVE  \E i \in DOMAIN d.bindings :
            p \in Procedures(d.bindings[i]) /\ PolicyOf(d, p) = d.bindings[i].policies[p]
<1>1. \E i \in DOMAIN d.bindings : p \in Procedures(d.bindings[i])
    BY DEF Bound
<1> DEFINE i == CHOOSE i \in DOMAIN d.bindings : p \in Procedures(d.bindings[i])
<1>2. i \in DOMAIN d.bindings /\ p \in Procedures(d.bindings[i])
    BY <1>1
<1>3. PolicyOf(d, p) = d.bindings[i].policies[p]
    BY DEF PolicyOf, BindingOf
<1> QED BY <1>2, <1>3

LEMMA PositionsAreNumbers == \A S : \A s \in Seq(S) : \A i \in DOMAIN s : i \in Nat
OBVIOUS

\* The checks of the start make the tables sound.
LEMMA StartsSound ==
    ASSUME deployment \in Deployments, Starts
    PROVE  SoundTables(deployment)
<1> DEFINE edges == deployment.edges
<1>1. ASSUME NEW p \in Bound(deployment) PROVE deriveSubjects(PolicyOf(deployment, p)) # {}
    BY <1>1, BindingDeclares DEF Starts, BuildRegistry, addBinding
<1>2. ASSUME NEW i \in DOMAIN edges
      PROVE  /\ edges[i].caller # ""
             /\ edges[i].procedure \in Bound(deployment)
             /\ "service" \in deriveSubjects(PolicyOf(deployment, edges[i].procedure))
             /\ Elements(edges[i].tokenUses) \subseteq KnownTokenUses
             /\ \A j \in DOMAIN edges : j < i =>
                    edges[j].caller # edges[i].caller \/ edges[j].procedure # edges[i].procedure
    <2>1. Policy!checkEdge(edges, i)
        BY DEF Starts, Policy!Build
    <2>2. edges[i].procedure \in Bound(deployment)
        BY <2>1 DEF Policy!checkEdge, EntriesOf
    <2>3. EntriesOf(deployment)[edges[i].procedure].subjects
            = deriveSubjects(PolicyOf(deployment, edges[i].procedure))
        BY <2>2 DEF EntriesOf, deriveEntry
    <2>4. Elements(edges[i].tokenUses) \subseteq KnownTokenUses
        BY <2>1 DEF Policy!checkEdge, Policy!checkTokenUses, Policy!TokenUses,
                    Policy!UserTokenUses, KnownTokenUses, Elements
    <2> QED BY <2>1, <2>2, <2>3, <2>4 DEF Policy!checkEdge, Policy!NoName
<1>3. ASSUME NEW i \in DOMAIN edges, NEW j \in DOMAIN edges,
             edges[i].caller = edges[j].caller, edges[i].procedure = edges[j].procedure
      PROVE  i = j
    <2>1. edges \in Seq(Elements(edges))
        BY GatewayAssumption
    <2>2. i \in Nat /\ j \in Nat
        BY <1>3, <2>1, PositionsAreNumbers
    <2>3. ~ (i < j) /\ ~ (j < i)
        BY <1>2, <1>3
    <2> QED BY <2>2, <2>3
<1> QED BY <1>1, <1>2, <1>3 DEF SoundTables

-----------------------------------------------------------------------------
(* Refused or admissible.                                                  *)

\* What verify and authorize have let through.
Verified(d, p, h) ==
    LET t == h.authorization
    IN  /\ headerRefusal(d, h, EntriesOf(d)[p]) = None
        /\ t # NoBearer
        /\ ValidExternal(t)
        /\ t.bound = "no"
        /\ authorize(d, t, EntriesOf(d)[p]) = None

LEMMA EntryFacts ==
    ASSUME NEW d, NEW p \in Bound(d)
    PROVE  /\ EntriesOf(d)[p].subjects = deriveSubjects(PolicyOf(d, p))
           /\ EntriesOf(d)[p].scopes = PolicyOf(d, p).scopes
           /\ EntriesOf(d)[p].introspection = IF p \in Elements(d.overrides) THEN "yes" ELSE "no"
BY DEF EntriesOf, deriveEntry

\* Headers have their credential in one of three forms, which differ.
LEMMA HeaderFacts ==
    ASSUME NEW h \in Headers
    PROVE  /\ h.caller \in STRING
           /\ h.workload \in {"yes", "no"} /\ h.dpop \in {"yes", "no"}
           /\ h.authorization \in Bearers \cup {NoBearer, Malformed}
           /\ h.authorization \in Bearers =>
                /\ h.authorization.aud \in STRING
                /\ h.authorization.life \in {"live", "skewed", "expired"}
                /\ h.authorization.bound \in {"yes", "no"}
                /\ h.authorization.active \in {"yes", "no"}
                /\ h.authorization \notin {NoBearer, Malformed}
                /\ h.authorization # Policy!NoContext
<1>1. h \in [caller : STRING, workload : {"yes", "no"}, dpop : {"yes", "no"},
             authorization : Bearers \cup {NoBearer, Malformed}]
    BY GatewayAssumption
<1>2. ASSUME h.authorization \in Bearers
      PROVE  h.authorization \in
        [kind : {"bearer"}, signer : STRING, life : {"live", "skewed", "expired"},
         use : STRING, aud : STRING, originSub : STRING, scopes : SUBSET STRING,
         wellFormed : {"yes", "no"}, bound : {"yes", "no"}, active : {"yes", "no"}]
    BY <1>2, GatewayAssumption
<1>3. ASSUME h.authorization \in Bearers
      PROVE  h.authorization \notin {NoBearer, Malformed} /\ h.authorization # Policy!NoContext
    <2>1. h.authorization.kind = "bearer"
        BY <1>2, <1>3
    <2>2. "kind" \in DOMAIN h.authorization
        BY <1>2, <1>3
    <2>3. "kind" \notin DOMAIN Policy!NoContext
        BY DEF Policy!NoContext
    <2> QED BY <2>1, <2>2, <2>3 DEF NoBearer, Malformed
<1> QED BY <1>1, <1>2, <1>3

\* Without a bearer token the public listener lets through what is admissible.
LEMMA AnonymousIsAdmissible ==
    ASSUME NEW d, NEW p \in Bound(d), NEW h \in Headers,
           headerRefusal(d, h, EntriesOf(d)[p]) = None, h.authorization = NoBearer
    PROVE  AdmissiblePublic(d, p, h) /\ PolicyOf(d, p).level = "public"
<1>1. "anonymous" \in deriveSubjects(PolicyOf(d, p))
    BY EntryFacts DEF headerRefusal, None
<1>2. PolicyOf(d, p).level = "public"
    BY <1>1, SubjectsArePolicy
<1>3. h.caller = None /\ h.workload = "no" /\ h.dpop = "no"
    BY HeaderFacts DEF headerRefusal, None
<1> QED BY <1>2, <1>3 DEF AdmissiblePublic

\* With one, likewise, after verification and, where it is asked for,
\* introspection.
LEMMA VerifiedIsAdmissible ==
    ASSUME NEW d, NEW p \in Bound(d), NEW h \in Headers, Verified(d, p, h),
           EntriesOf(d)[p].introspection = "yes" => h.authorization.active = "yes"
    PROVE  AdmissiblePublic(d, p, h)
<1> DEFINE t == h.authorization
           policy == PolicyOf(d, p)
           uses == ExternalTokenUses(deriveSubjects(policy))
<1>1. h.caller = None /\ h.workload = "no" /\ h.dpop = "no" /\ t # Malformed
    BY HeaderFacts DEF Verified, headerRefusal, None
<1>2. t \in Bearers
    BY <1>1, HeaderFacts DEF Verified
<1>3. t.use \in uses /\ policy.scopes \subseteq grantedScopes(d, t)
    BY EntryFacts DEF Verified, authorize, None
<1>4. policy.level = "authenticated" /\ t.use \in Elements(policy.tokenUses) \ {"service"}
    BY <1>3, SubjectsArePolicy DEF ExternalTokenUses
<1>5. p \in Elements(d.overrides) => t.active = "yes"
    BY EntryFacts
<1> QED BY <1>1, <1>2, <1>3, <1>4, <1>5 DEF AdmissiblePublic, Verified, ValidExternal

\* Conversely, no stage of the public listener refuses what is admissible, but
\* for want of the IdP.
LEMMA AdmissibleIsNotRefused ==
    ASSUME NEW d, NEW p \in Bound(d), NEW h \in Headers, SoundTables(d),
           AdmissiblePublic(d, p, h)
    PROVE  LET t == h.authorization
           IN  /\ headerRefusal(d, h, EntriesOf(d)[p]) \in {None, "external_authorization"}
               /\ t # NoBearer =>
                    /\ ValidExternal(t)
                    /\ t.bound = "no"
                    /\ authorize(d, t, EntriesOf(d)[p]) \in {None, "introspection_unavailable"}
                    /\ EntriesOf(d)[p].introspection = "yes" => t.active = "yes"
<1> DEFINE t == h.authorization
           policy == PolicyOf(d, p)
<1>1. deriveSubjects(policy) # {}
    BY DEF SoundTables
<1>2. CASE t = NoBearer
    <2>1. policy.level = "public"
        BY <1>2, HeaderFacts DEF AdmissiblePublic
    <2>2. "anonymous" \in EntriesOf(d)[p].subjects
        BY <1>1, <2>1, SubjectsArePolicy, EntryFacts
    <2> QED BY <1>2, <2>2 DEF AdmissiblePublic, headerRefusal
<1>3. CASE t # NoBearer
    <2>1. /\ policy.level = "authenticated" /\ t \in Bearers
          /\ t.use \in Elements(policy.tokenUses) \ {"service"}
          /\ policy.scopes \subseteq grantedScopes(d, t)
        BY <1>3 DEF AdmissiblePublic
    <2>2. t.use \in KnownTokenUses \ {"service"}
          /\ t.use \in ExternalTokenUses(EntriesOf(d)[p].subjects)
        BY <1>1, <2>1, SubjectsArePolicy, EntryFacts DEF ExternalTokenUses, KnownTokenUses
    <2>3. headerRefusal(d, h, EntriesOf(d)[p]) \in {None, "external_authorization"}
        BY <1>3, <2>1, HeaderFacts DEF AdmissiblePublic, headerRefusal
    <2>4. ValidExternal(t) /\ t.bound = "no"
        BY <1>3, <2>2 DEF AdmissiblePublic, ValidExternal
    <2>5. authorize(d, t, EntriesOf(d)[p]) \in {None, "introspection_unavailable"}
        BY <2>1, <2>2, EntryFacts DEF authorize
    <2>6. EntriesOf(d)[p].introspection = "yes" => t.active = "yes"
        BY <1>3, EntryFacts DEF AdmissiblePublic
    <2> QED BY <2>3, <2>4, <2>5, <2>6
<1> QED BY <1>2, <1>3

\* What Reissue says of the request, before the issuer has looked at the context.
Valid == context(header) # Policy!NoContext => ValidContext(context(header))
Decision == Policy!Reissue(deployment.edges, caller(header), procedure, context(header), Valid)
Leading == {i \in DOMAIN deployment.edges : deployment.edges[i].caller = caller(header)
                                          /\ deployment.edges[i].procedure = procedure}

\* The edge that leads from the caller to the procedure decides, if there is one.
LEMMA TheEdgeDecides ==
    ASSUME SoundTables(deployment), Valid
    PROVE  \/ Leading = {} /\ Decision = "edge_not_allowed"
           \/ \E i \in Leading :
                Leading = {i} /\ Decision = Policy!Origin(deployment.edges[i], context(header))
<1>1. Policy!Lookup(deployment.edges, caller(header), procedure) = Leading
    BY DEF Policy!Lookup, Leading
<1>2. CASE Leading = {}
    BY <1>1, <1>2 DEF Policy!Reissue, Decision, Valid
<1>3. CASE Leading # {}
    <2> DEFINE i == CHOOSE i \in Leading : TRUE
    <2>1. i \in Leading
        BY <1>3
    <2>2. Leading = {i}
        BY <2>1 DEF Leading, SoundTables
    <2>3. procedure \in DOMAIN EntriesOf(deployment)
        BY <2>1 DEF SoundTables, EntriesOf, Leading
    <2>4. Decision = Policy!Origin(deployment.edges[i], context(header))
        BY <1>1, <1>3, <2>3 DEF Policy!Reissue, Decision, Valid
    <2> QED BY <2>1, <2>2, <2>4
<1> QED BY <1>2, <1>3

\* What the internal listener reissues for is admissible.
LEMMA ReissuedIsAdmissible ==
    ASSUME SoundTables(deployment), procedure \in Bound(deployment), header \in Headers,
           serviceRefusal(header) = None,
           ReissueDecision \in {"user", "machine_chain", "new_machine"}
    PROVE  AdmissibleInternal(deployment, procedure, header)
<1> DEFINE edges == deployment.edges
           t == header.authorization
           c == context(header)
<1>1. Decision = ReissueDecision
    BY DEF ReissueDecision, Decision, Valid
<1>2. Valid
    BY <1>1 DEF Policy!Reissue, Decision, Valid
<1>3. PICK i \in DOMAIN edges :
        /\ edges[i].caller = caller(header) /\ edges[i].procedure = procedure
        /\ Decision = Policy!Origin(edges[i], c)
    BY <1>1, <1>2, TheEdgeDecides DEF Leading
<1>4. edges[i] \in Elements(edges)
    BY <1>3 DEF Elements
<1>5. \/ PolicyOf(deployment, procedure).level = "internal"
      \/ "service" \in Elements(PolicyOf(deployment, procedure).tokenUses)
    BY <1>3, SubjectsArePolicy DEF SoundTables
<1>6. header.dpop = "no"
    BY HeaderFacts DEF serviceRefusal, None
<1>7. CASE header.caller # None
    <2>1. t = NoBearer /\ header.caller # BadCaller
        BY <1>7 DEF serviceRefusal, None
    <2>2. "new_machine" \in edges[i].origins
        BY <1>1, <1>3, <1>7 DEF context, Policy!Origin
    <2> QED BY <1>3, <1>4, <1>5, <1>6, <1>7, <2>1, <2>2 DEF AdmissibleInternal, caller
<1>8. CASE header.caller = None
    <2>1. t \in Bearers /\ t # Policy!NoContext
        BY <1>8, HeaderFacts DEF serviceRefusal, None
    <2>2. c = t /\ caller(header) = t.aud
        BY <1>8 DEF context, caller
    <2>3. t.signer = "gateway" /\ t.life # "expired"
        BY <1>2, <2>1, <2>2 DEF Valid, ValidContext
    <2>4. IF t.use = "service" /\ t.originSub = "" THEN "machine_chain" \in edges[i].origins
          ELSE t.use \in Elements(edges[i].tokenUses)
        BY <1>1, <1>3, <2>1, <2>2
        DEF Policy!Origin, Policy!isUserOrigin, Policy!UserTokenUses, Policy!NoName, Elements
    <2>5. Decision \in {"user", "machine_chain"}
        BY <1>1, <1>3, <2>1, <2>2 DEF Policy!Origin
    <2>6. t.life = "live"
        BY <1>1, <2>1, <2>2, <2>3, <2>5, HeaderFacts DEF ReissueDecision, Decision, Valid
    <2> QED BY <1>3, <1>4, <1>5, <1>6, <1>8, <2>1, <2>2, <2>3, <2>4, <2>6
            DEF AdmissibleInternal
<1> QED BY <1>7, <1>8

\* Conversely, it refuses nothing that is admissible.
LEMMA AdmissibleIsReissued ==
    ASSUME SoundTables(deployment), procedure \in Bound(deployment), header \in Headers,
           AdmissibleInternal(deployment, procedure, header)
    PROVE  /\ serviceRefusal(header) = None
           /\ ReissueDecision \in {"user", "machine_chain", "new_machine"}
<1> DEFINE edges == deployment.edges
           t == header.authorization
           c == context(header)
<1>1. CASE header.caller # None
    <2>1. /\ header.dpop = "no" /\ t = NoBearer /\ header.caller # BadCaller
          /\ \E e \in Elements(edges) : e.caller = header.caller /\ e.procedure = procedure
                                        /\ "new_machine" \in e.origins
        BY <1>1 DEF AdmissibleInternal
    <2>2. PICK i \in DOMAIN edges : edges[i].caller = header.caller
            /\ edges[i].procedure = procedure /\ "new_machine" \in edges[i].origins
        BY <2>1 DEF Elements
    <2>3. c = Policy!NoContext /\ caller(header) = header.caller
        BY <1>1 DEF context, caller
    <2>4. Decision = Policy!Origin(edges[i], c)
        BY <2>2, <2>3, TheEdgeDecides DEF Valid, Leading
    <2>5. Decision = "new_machine"
        BY <2>2, <2>3, <2>4 DEF Policy!Origin
    <2>6. ReissueDecision = "new_machine"
        BY <2>5 DEF ReissueDecision, Decision, Valid
    <2> QED BY <1>1, <2>1, <2>6 DEF serviceRefusal
<1>2. CASE header.caller = None
    <2>1. /\ header.dpop = "no" /\ t \in Bearers /\ t.signer = "gateway" /\ t.life = "live"
          /\ \E e \in Elements(edges) :
                /\ e.caller = t.aud /\ e.procedure = procedure
                /\ IF t.use = "service" /\ t.originSub = ""
                   THEN "machine_chain" \in e.origins ELSE t.use \in Elements(e.tokenUses)
        BY <1>2 DEF AdmissibleInternal
    <2>2. PICK i \in DOMAIN edges :
            /\ edges[i].caller = t.aud /\ edges[i].procedure = procedure
            /\ IF t.use = "service" /\ t.originSub = ""
               THEN "machine_chain" \in edges[i].origins ELSE t.use \in Elements(edges[i].tokenUses)
        BY <2>1 DEF Elements
    <2>3. c = t /\ caller(header) = t.aud /\ Valid /\ c # Policy!NoContext
        BY <1>2, <2>1, HeaderFacts DEF context, caller, ValidContext, Valid
    <2>4. Decision = Policy!Origin(edges[i], c)
        BY <2>2, <2>3, TheEdgeDecides DEF Leading
    <2>5. t.use \in Elements(edges[i].tokenUses) => t.use \in KnownTokenUses
        BY <2>2 DEF SoundTables
    <2>6. Decision \in {"user", "machine_chain"}
        BY <2>2, <2>3, <2>4, <2>5
        DEF Policy!Origin, Policy!isUserOrigin, Policy!UserTokenUses, Policy!NoName, Elements,
            KnownTokenUses
    <2>7. ReissueDecision = Decision
        BY <2>1, <2>3 DEF ReissueDecision, Decision, Valid
    <2>8. t.aud # ""
        BY <2>2 DEF SoundTables
    <2> QED BY <1>2, <2>1, <2>6, <2>7, <2>8, HeaderFacts DEF serviceRefusal, BadCaller, None
<1> QED BY <1>1, <1>2

-----------------------------------------------------------------------------
(* The inductive invariant.                                                *)

\* A request under way has a procedure, one that is bound.
RequestInv ==
    /\ pc = "idle" => procedure = None
    /\ pc \notin {"idle", "done"} => procedure # None
    /\ procedure # None => procedure \in Bound(deployment) /\ header \in Headers

\* Until it is admitted nothing has been issued, called or recorded.
EarlyInv ==
    pc \in {"idle", "admit", "verify", "introspect", "issue", "reissue"} =>
        token = None /\ upstream = None /\ record = newRecord

\* What the stages behind it have established.
StageInv ==
    /\ pc = "verify" =>
        /\ listener = "public"
        /\ headerRefusal(deployment, header, EntriesOf(deployment)[procedure]) = None
        /\ header.authorization # NoBearer
    /\ pc \in {"introspect", "issue"} =>
        listener = "public" /\ Verified(deployment, procedure, header)
    /\ pc = "introspect" => EntriesOf(deployment)[procedure].introspection = "yes"
    /\ pc = "issue" /\ EntriesOf(deployment)[procedure].introspection = "yes" =>
        header.authorization.active = "yes"
    /\ pc = "reissue" => listener = "internal" /\ serviceRefusal(header) = None

\* What has got to the handler is admissible, and has its token unless the
\* procedure is public.
AdmittedInv ==
    /\ pc \in {"handle", "upstream", "send"} \/ upstream # None =>
        /\ procedure # None
        /\ Admissible
        /\ token = None => PolicyOf(deployment, procedure).level = "public"
    /\ pc = "handle" => upstream = None
    /\ upstream = "anonymous" => token = None

\* The answer, the result and the number of records go together.
AnswerInv ==
    /\ pc \notin {"finish", "done"} =>
        answer = None /\ record.result = None /\ record.reason = None
    /\ pc = "finish" =>
        \/ record.result = None /\ answer \in {"protocol", "aborted"}
        \/ record.result = answer /\ answer # None
    /\ pc = "done" /\ procedure # None =>
        \/ record.result = "unknown" /\ answer \in {"protocol", "aborted"}
        \/ record.result = answer /\ answer # None
    /\ audits = IF pc = "done" /\ procedure # None THEN 1 ELSE 0

Tables == deployment \in Deployments /\ SoundTables(deployment)

IInv ==
    /\ Tables
    /\ TypeOK
    /\ RequestInv
    /\ EarlyInv
    /\ StageInv
    /\ AdmittedInv
    /\ AnswerInv
    /\ RefusalsAreDeserved
    /\ AuditNamesTheActors
    /\ ClientIsNotBlamed

-----------------------------------------------------------------------------
(* The steps.                                                              *)

\* Reasons that are not the client's.
NotTheClients ==
    upstreamReasons \cup {None, "external_authorization", "verifier_unavailable",
                          "introspection_unavailable", "issue_failed"}

LEMMA Vocabulary ==
    /\ None \in Callers /\ None \in Identities /\ "external" \in Identities
    /\ "permission_denied" \in Results \ {None, "unknown"}
    /\ "unauthenticated" \in Results \ {None, "unknown"}
    /\ "unavailable" \in Results \ {None, "unknown"}
    /\ "internal" \in Results \ {None, "unknown"}
    /\ "canceled" \in Results \ {None, "unknown"}
    /\ "deadline_exceeded" \in Results \ {None, "unknown"}
    /\ authnReasons \subseteq Reasons /\ serviceReasons \subseteq Reasons
    /\ admissionReasons \subseteq Reasons
BY DEF None, Callers, Identities, Results, RemoteCodes, refusalCodes, Reasons

\* A request in progress may be refused with any code, with "unknown" only if nobody
\* is there to see it, if a client that is admissible is not blamed and nobody is
\* named who has not shown it.
MayRefuse(code, reason, from, identity) ==
    /\ pc \in {"admit", "verify", "introspect", "issue", "reissue", "handle", "upstream", "send"}
    /\ code \in Results \ {None} /\ (code = "unknown" => gone = "yes")
    /\ code = "unauthenticated" => token = None
    /\ reason \in Reasons /\ (Admissible => reason \in NotTheClients)
    /\ identity \in Identities
    /\ identity = "external" => listener = "public" /\ header.authorization \in Bearers
                                    /\ header.authorization.signer = "idp"
    /\ from \in Callers
    /\ from # None => \/ from = header.caller
                      \/ /\ header.authorization \in Bearers
                         /\ header.authorization.signer = "gateway"
                         /\ from = header.authorization.aud
    /\ token = "issued" => identity # None

LEMMA RefuseStep ==
    ASSUME IInv, NEW code, NEW reason, NEW from, NEW identity,
           MayRefuse(code, reason, from, identity),
           Refuse(code, reason, from, identity)
    PROVE  IInv'
<1> USE DEF IInv, MayRefuse, Refuse, environment, request, None
<1>1. Tables'
    BY DEF Tables
<1>2. TypeOK'
    BY DEF TypeOK
<1>3. RequestInv' /\ EarlyInv' /\ StageInv'
    BY DEF RequestInv, EarlyInv, StageInv
<1>4. AdmittedInv'
    BY DEF AdmittedInv, Admissible
<1>5. AnswerInv' /\ ClientIsNotBlamed'
    BY DEF AnswerInv, TypeOK, ClientIsNotBlamed
<1>6. RefusalsAreDeserved'
    BY DEF RefusalsAreDeserved, NotTheClients, Admissible, TypeOK
<1>7. AuditNamesTheActors'
    BY DEF AuditNamesTheActors, TypeOK
<1> QED BY <1>1, <1>2, <1>3, <1>4, <1>5, <1>6, <1>7

\* A request goes on to a stage whose conditions hold.
LEMMA ProceedStep ==
    ASSUME IInv, NEW stage \in {"verify", "introspect", "issue", "reissue", "handle"},
           pc \in {"admit", "verify", "introspect"},
           Proceed(stage),
           stage = "verify" =>
                /\ listener = "public"
                /\ headerRefusal(deployment, header, EntriesOf(deployment)[procedure]) = None
                /\ header.authorization # NoBearer,
           stage \in {"introspect", "issue"} =>
                listener = "public" /\ Verified(deployment, procedure, header),
           stage = "introspect" => EntriesOf(deployment)[procedure].introspection = "yes",
           stage = "issue" /\ EntriesOf(deployment)[procedure].introspection = "yes" =>
                header.authorization.active = "yes",
           stage = "reissue" => listener = "internal" /\ serviceRefusal(header) = None,
           stage = "handle" => Admissible /\ PolicyOf(deployment, procedure).level = "public"
    PROVE  IInv'
<1> USE DEF IInv, Proceed, environment, request, None
<1>1. Tables' /\ TypeOK'
    BY DEF Tables, TypeOK
<1>2. RequestInv' /\ EarlyInv' /\ StageInv'
    BY DEF RequestInv, EarlyInv, StageInv
<1>3. AdmittedInv'
    BY DEF AdmittedInv, Admissible, RequestInv, EarlyInv
<1>4. AnswerInv' /\ ClientIsNotBlamed' /\ AuditNamesTheActors'
    BY DEF AnswerInv, ClientIsNotBlamed, AuditNamesTheActors
<1>5. RefusalsAreDeserved'
    BY DEF RefusalsAreDeserved, Admissible
<1> QED BY <1>1, <1>2, <1>3, <1>4, <1>5

\* A token is issued for a request that is admissible, and recorded with its party.
LEMMA IssueStep ==
    ASSUME IInv, NEW from \in Callers, NEW identity \in Identities,
           pc \in {"issue", "reissue"}, pc' = "handle", token' = "issued",
           record' = [record EXCEPT !.caller = from, !.identity = identity, !.jti = "issued"],
           UNCHANGED <<environment, request, upstream, audits, answer>>,
           Admissible,
           identity # None,
           identity = "external" => listener = "public" /\ header.authorization \in Bearers
                                        /\ header.authorization.signer = "idp",
           from # None => \/ from = header.caller
                          \/ /\ header.authorization \in Bearers
                             /\ header.authorization.signer = "gateway"
                             /\ from = header.authorization.aud
    PROVE  IInv'
<1> USE DEF IInv, environment, request, None
<1>1. Tables' /\ TypeOK'
    BY DEF Tables, TypeOK
<1>2. RequestInv' /\ EarlyInv' /\ StageInv'
    BY DEF RequestInv, EarlyInv, StageInv
<1>3. AdmittedInv'
    BY DEF AdmittedInv, Admissible, RequestInv, EarlyInv
<1>4. AnswerInv' /\ ClientIsNotBlamed'
    BY DEF AnswerInv, ClientIsNotBlamed, TypeOK
<1>5. AuditNamesTheActors'
    BY DEF AuditNamesTheActors, TypeOK
<1>6. RefusalsAreDeserved'
    BY DEF RefusalsAreDeserved, Admissible, TypeOK
<1> QED BY <1>1, <1>2, <1>3, <1>4, <1>5, <1>6

\* The steps of the environment change nothing the invariant is about.
LEMMA EnvironmentStep ==
    ASSUME IInv, Resolve \/ ClientGoes \/ UNCHANGED vars
    PROVE  IInv'
<1> USE DEF IInv, Resolve, ClientGoes, vars, environment, request, None
<1>1. Tables' /\ TypeOK'
    BY DEF Tables, TypeOK
<1>2. RequestInv' /\ EarlyInv' /\ StageInv'
    BY DEF RequestInv, EarlyInv, StageInv
<1>3. AdmittedInv'
    BY DEF AdmittedInv, Admissible
<1>4. AnswerInv' /\ ClientIsNotBlamed' /\ AuditNamesTheActors'
    BY DEF AnswerInv, ClientIsNotBlamed, AuditNamesTheActors
<1>5. RefusalsAreDeserved'
    BY DEF RefusalsAreDeserved, Admissible
<1> QED BY <1>1, <1>2, <1>3, <1>4, <1>5

LEMMA FallbackStep ==
    ASSUME IInv, NEW code \in {"not_found", "unimplemented"}, Fallback(code)
    PROVE  IInv'
<1> USE DEF IInv, Fallback, environment, request, None
<1>1. Tables' /\ TypeOK'
    BY DEF Tables, TypeOK
<1>2. RequestInv' /\ EarlyInv' /\ StageInv'
    BY DEF RequestInv, EarlyInv, StageInv
<1>3. AdmittedInv'
    BY DEF AdmittedInv, EarlyInv
<1>4. AnswerInv' /\ ClientIsNotBlamed' /\ AuditNamesTheActors'
    BY DEF AnswerInv, ClientIsNotBlamed, AuditNamesTheActors, RequestInv
<1>5. RefusalsAreDeserved'
    BY DEF RefusalsAreDeserved, RequestInv
<1> QED BY <1>1, <1>2, <1>3, <1>4, <1>5

LEMMA ReceiveStep ==
    ASSUME IInv, NEW l \in {"public", "internal"}, NEW p \in Bound(deployment), NEW h \in Headers,
           Receive(l, p, h)
    PROVE  IInv'
<1> USE DEF IInv, Receive, environment, None
<1>1. record' = newRecord /\ token' = None /\ upstream' = None
    BY DEF EarlyInv
<1>2. p # None
    BY GatewayAssumption DEF Tables
<1>3. Tables' /\ TypeOK'
    BY DEF Tables, TypeOK
<1>4. RequestInv' /\ EarlyInv' /\ StageInv'
    BY <1>1, <1>2 DEF RequestInv, EarlyInv, StageInv
<1>5. AdmittedInv'
    BY <1>1 DEF AdmittedInv
<1>6. AnswerInv' /\ ClientIsNotBlamed' /\ AuditNamesTheActors'
    BY <1>1 DEF AnswerInv, ClientIsNotBlamed, AuditNamesTheActors, newRecord
<1>7. RefusalsAreDeserved'
    BY <1>1 DEF RefusalsAreDeserved, newRecord
<1> QED BY <1>3, <1>4, <1>5, <1>6, <1>7

\* The handler is reached, ends early or panics: the record is left as it is.
LEMMA CallStep ==
    ASSUME IInv, CallUpstream
    PROVE  IInv'
<1> USE DEF IInv, CallUpstream, environment, request, None
<1>1. Tables' /\ TypeOK'
    BY DEF Tables, TypeOK
<1>2. RequestInv' /\ EarlyInv' /\ StageInv'
    BY DEF RequestInv, EarlyInv, StageInv
<1>3. AdmittedInv'
    BY DEF AdmittedInv, Admissible, TypeOK
<1>4. AnswerInv' /\ ClientIsNotBlamed' /\ AuditNamesTheActors'
    BY DEF AnswerInv, ClientIsNotBlamed, AuditNamesTheActors
<1>5. RefusalsAreDeserved'
    BY DEF RefusalsAreDeserved, Admissible
<1> QED BY <1>1, <1>2, <1>3, <1>4, <1>5

LEMMA SucceedStep ==
    ASSUME IInv, UpstreamSucceeds
    PROVE  IInv'
<1> USE DEF IInv, UpstreamSucceeds, Proceed, environment, request, None
<1>1. Tables' /\ TypeOK'
    BY DEF Tables, TypeOK
<1>2. RequestInv' /\ EarlyInv' /\ StageInv'
    BY DEF RequestInv, EarlyInv, StageInv
<1>3. AdmittedInv'
    BY DEF AdmittedInv, Admissible
<1>4. AnswerInv' /\ ClientIsNotBlamed' /\ AuditNamesTheActors'
    BY DEF AnswerInv, ClientIsNotBlamed, AuditNamesTheActors
<1>5. RefusalsAreDeserved'
    BY DEF RefusalsAreDeserved, Admissible
<1> QED BY <1>1, <1>2, <1>3, <1>4, <1>5

LEMMA BreakStep ==
    ASSUME IInv, ProtocolRefuses \/ Panic
    PROVE  IInv'
<1> USE DEF IInv, ProtocolRefuses, Panic, environment, request, None
<1>1. Tables' /\ TypeOK'
    BY DEF Tables, TypeOK
<1>2. RequestInv' /\ EarlyInv' /\ StageInv'
    BY DEF RequestInv, EarlyInv, StageInv
<1>3. AdmittedInv'
    BY DEF AdmittedInv, Admissible, TypeOK
<1>4. AnswerInv' /\ ClientIsNotBlamed' /\ AuditNamesTheActors'
    BY DEF AnswerInv, ClientIsNotBlamed, AuditNamesTheActors, TypeOK
<1>5. RefusalsAreDeserved'
    BY DEF RefusalsAreDeserved, Admissible
<1> QED BY <1>1, <1>2, <1>3, <1>4, <1>5

LEMMA FinishStep ==
    ASSUME IInv, finish
    PROVE  IInv'
<1> USE DEF IInv, finish, environment, request, None
<1>1. Tables'
    BY DEF Tables
<1>0. TypeOK'
    <2>1. record'.result \in Results
        BY DEF TypeOK, Results, RemoteCodes
    <2>2. record' \in [caller : Callers, identity : Identities, jti : {None, "issued"},
                       result : Results, reason : Reasons]
        BY <2>1 DEF TypeOK
    <2> QED BY <2>2 DEF TypeOK
<1>2. RequestInv' /\ EarlyInv' /\ StageInv'
    BY DEF RequestInv, EarlyInv, StageInv
<1>3. AdmittedInv'
    BY DEF AdmittedInv, Admissible, TypeOK
<1>4. AnswerInv'
    BY DEF AnswerInv, TypeOK, RequestInv
<1>5. ClientIsNotBlamed' /\ AuditNamesTheActors'
    BY DEF ClientIsNotBlamed, AuditNamesTheActors, TypeOK
<1>6. RefusalsAreDeserved'
    BY DEF RefusalsAreDeserved, Admissible, TypeOK
<1> QED BY <1>0, <1>1, <1>2, <1>3, <1>4, <1>5, <1>6

-----------------------------------------------------------------------------
(* The stages.                                                             *)

\* The public listener looks at the headers.
LEMMA AuthenticateStep ==
    ASSUME IInv, Authenticate
    PROVE  IInv'
<1> DEFINE refusal == headerRefusal(deployment, header, EntriesOf(deployment)[procedure])
<1>1. /\ pc = "admit" /\ listener = "public" /\ token = None
      /\ procedure \in Bound(deployment) /\ header \in Headers /\ SoundTables(deployment)
    BY DEF IInv, Authenticate, RequestInv, EarlyInv, Tables
<1>2. CASE refusal # None /\ Reject(refusal)
    <2>1. refusal \in {"caller_service_on_public", "workload_authorization",
                       "dpop_unsupported", "anonymous_rejected", "malformed_authorization",
                       "external_authorization"}
        BY <1>2 DEF headerRefusal
    <2>2. Admissible => refusal \in NotTheClients
        BY <1>1, AdmissibleIsNotRefused DEF Admissible, NotTheClients, None
    <2>3. Code(refusal) = "unauthenticated"
        BY <2>1 DEF Code
    <2>4. Refuse("unauthenticated", refusal, None, None)
        BY <1>2, <2>3 DEF Reject
    <2>5. MayRefuse("unauthenticated", refusal, None, None)
        BY <1>1, <2>1, <2>2, Vocabulary DEF MayRefuse, authnReasons, None
    <2> QED BY <2>4, <2>5, RefuseStep
<1>3. CASE refusal = None /\ header.authorization = NoBearer /\ Proceed("handle")
    <2>1. Admissible /\ PolicyOf(deployment, procedure).level = "public"
        BY <1>1, <1>3, AnonymousIsAdmissible DEF Admissible
    <2> QED BY <1>1, <1>3, <2>1, ProceedStep
<1>4. CASE refusal = None /\ header.authorization # NoBearer /\ Proceed("verify")
    BY <1>1, <1>4, ProceedStep
<1> QED BY <1>2, <1>3, <1>4 DEF Authenticate, Entry

\* The token is verified and compared with the entry.
LEMMA VerifyStep ==
    ASSUME IInv, VerifyUnavailable \/ VerifyRefuses \/ VerifyAccepts
    PROVE  IInv'
<1> DEFINE t == header.authorization
           refusal == authorize(deployment, t, EntriesOf(deployment)[procedure])
<1>1. /\ pc = "verify" /\ listener = "public" /\ token = None
      /\ procedure \in Bound(deployment) /\ header \in Headers /\ SoundTables(deployment)
      /\ headerRefusal(deployment, header, EntriesOf(deployment)[procedure]) = None
      /\ t # NoBearer
    BY DEF IInv, VerifyUnavailable, VerifyRefuses, VerifyAccepts, RequestInv, EarlyInv,
           StageInv, Tables
<1>2. t \in Bearers
    BY <1>1, HeaderFacts DEF headerRefusal, None
<1>3. Admissible => /\ ValidExternal(t)
                    /\ t.bound = "no"
                    /\ refusal \in {None, "introspection_unavailable"}
    BY <1>1, AdmissibleIsNotRefused DEF Admissible
<1>4. CASE VerifyUnavailable
    <2>1. Refuse("unavailable", "verifier_unavailable", None, None)
        BY <1>4 DEF VerifyUnavailable, Reject, Code
    <2>2. Admissible => "verifier_unavailable" \in NotTheClients
        BY DEF NotTheClients
    <2>3. MayRefuse("unavailable", "verifier_unavailable", None, None)
        BY <1>1, <2>2, Vocabulary DEF MayRefuse, authnReasons, None
    <2> QED BY <2>1, <2>3, RefuseStep
<1>5. CASE VerifyRefuses
    <2>1. Refuse("unauthenticated", "invalid_token", None, None)
        BY <1>5 DEF VerifyRefuses, Reject, Code
    <2>2. ~ Admissible
        BY <1>3, <1>5 DEF VerifyRefuses
    <2>3. MayRefuse("unauthenticated", "invalid_token", None, None)
        BY <1>1, <2>2, Vocabulary DEF MayRefuse, authnReasons, None
    <2> QED BY <2>1, <2>3, RefuseStep
<1>6. CASE VerifyAccepts
    <2>1. ValidExternal(t)
        BY <1>6 DEF VerifyAccepts
    <2>2. CASE t.bound = "yes" /\ Reject("sender_constrained_unsupported")
        <3>1. Refuse("unauthenticated", "sender_constrained_unsupported", None, None)
            BY <2>2 DEF Reject, Code
        <3>2. ~ Admissible
            BY <1>3, <2>2
        <3>3. MayRefuse("unauthenticated", "sender_constrained_unsupported", None, None)
            BY <1>1, <3>2, Vocabulary DEF MayRefuse, authnReasons, None
        <3> QED BY <3>1, <3>3, RefuseStep
    <2>3. CASE t.bound = "no" /\ refusal # None /\ Refuse(Code(refusal), refusal, None, "external")
        <3>1. refusal \in {"internal_only", "token_use_mismatch", "missing_scope",
                           "introspection_unavailable"}
            BY <2>3 DEF authorize
        <3>2. Code(refusal) \in {"permission_denied", "unauthenticated"}
            BY <3>1 DEF Code
        <3>3. Admissible => refusal \in NotTheClients
            BY <1>3 DEF NotTheClients
        <3>4. t.signer = "idp"
            BY <2>1 DEF ValidExternal
        <3>5. MayRefuse(Code(refusal), refusal, None, "external")
            BY <1>1, <1>2, <3>1, <3>2, <3>3, <3>4, Vocabulary DEF MayRefuse, authnReasons, None
        <3> QED BY <2>3, <3>5, RefuseStep
    <2>4. CASE t.bound = "no" /\ refusal = None
               /\ Proceed(IF EntriesOf(deployment)[procedure].introspection = "yes"
                          THEN "introspect" ELSE "issue")
        <3>1. Verified(deployment, procedure, header)
            BY <1>1, <2>1, <2>4 DEF Verified
        <3> QED BY <1>1, <2>4, <3>1, ProceedStep
    <2> QED BY <1>6, <2>2, <2>3, <2>4 DEF VerifyAccepts, Entry
<1> QED BY <1>4, <1>5, <1>6

\* What Verified says of the request, for the stages after it.
LEMMA VerifiedFacts ==
    ASSUME IInv, pc \in {"introspect", "issue"}
    PROVE  /\ listener = "public" /\ token = None
           /\ procedure \in Bound(deployment) /\ header \in Headers /\ SoundTables(deployment)
           /\ Verified(deployment, procedure, header)
           /\ header.authorization \in Bearers
           /\ header.authorization.signer = "idp"
<1>1. /\ listener = "public" /\ token = None
      /\ procedure \in Bound(deployment) /\ header \in Headers /\ SoundTables(deployment)
      /\ Verified(deployment, procedure, header)
    BY DEF IInv, RequestInv, EarlyInv, StageInv, Tables
<1>2. header.authorization \in Bearers
    BY <1>1, HeaderFacts DEF Verified, headerRefusal, None
<1> QED BY <1>1, <1>2 DEF Verified, ValidExternal

LEMMA IntrospectStep ==
    ASSUME IInv, Introspect
    PROVE  IInv'
<1>1. pc = "introspect"
    BY DEF Introspect
<1>2. CASE header.authorization.active = "yes" /\ Proceed("issue")
    BY <1>1, <1>2, VerifiedFacts, ProceedStep
<1>3. CASE header.authorization.active = "no"
           /\ Refuse(Code("token_revoked"), "token_revoked", None, "external")
    <2>1. Refuse("unauthenticated", "token_revoked", None, "external")
        BY <1>3 DEF Code
    <2>2. EntriesOf(deployment)[procedure].introspection = "yes"
        BY <1>1 DEF IInv, StageInv
    <2>3. ~ Admissible
        BY <1>1, <1>3, <2>2, VerifiedFacts, AdmissibleIsNotRefused DEF Admissible, Verified
    <2>4. MayRefuse("unauthenticated", "token_revoked", None, "external")
        BY <1>1, <2>3, VerifiedFacts, Vocabulary DEF MayRefuse, authnReasons, None
    <2> QED BY <2>1, <2>4, RefuseStep
<1>4. CASE Refuse(Code("introspection_unavailable"), "introspection_unavailable",
                  None, "external")
    <2>1. Refuse("unauthenticated", "introspection_unavailable", None, "external")
        BY <1>4 DEF Code
    <2>2. Admissible => "introspection_unavailable" \in NotTheClients
        BY DEF NotTheClients
    <2>3. MayRefuse("unauthenticated", "introspection_unavailable", None, "external")
        BY <1>1, <2>2, VerifiedFacts, Vocabulary DEF MayRefuse, authnReasons, None
    <2> QED BY <2>1, <2>3, RefuseStep
<1> QED BY <1>2, <1>3, <1>4 DEF Introspect

\* The entry token is issued, or the gateway fails to.
LEMMA IssueEntryStep ==
    ASSUME IInv, IssueEntry \/ IssueEntryFails
    PROVE  IInv'
<1>1. pc = "issue"
    BY DEF IssueEntry, IssueEntryFails
<1>2. CASE IssueEntry
    <2>1. record' = [record EXCEPT !.caller = None, !.identity = "external", !.jti = "issued"]
        <3>1. record.caller = None
            BY <1>1 DEF IInv, EarlyInv, newRecord
        <3>2. record \in [caller : Callers, identity : Identities, jti : {None, "issued"},
                          result : Results, reason : Reasons]
            BY DEF IInv, TypeOK
        <3>3. record = [record EXCEPT !.caller = None]
            BY <3>1, <3>2
        <3> QED BY <1>2, <3>2, <3>3 DEF IssueEntry
    <2>2. Admissible
        BY <1>1, VerifiedFacts, VerifiedIsAdmissible DEF IInv, StageInv, Admissible
    <2> QED BY <1>1, <1>2, <2>1, <2>2, VerifiedFacts, Vocabulary, IssueStep DEF IssueEntry, None
<1>3. CASE IssueEntryFails
    <2>1. PICK code \in {"internal", "canceled", "deadline_exceeded"} : Refuse(code, "issue_failed", None, None)
        BY <1>3 DEF IssueEntryFails, IssueFailed
    <2>2. MayRefuse(code, "issue_failed", None, None)
        BY <1>1, <2>1, VerifiedFacts, Vocabulary
        DEF MayRefuse, admissionReasons, NotTheClients, None
    <2> QED BY <2>1, <2>2, RefuseStep
<1> QED BY <1>2, <1>3

\* The internal listener looks at the headers.
LEMMA ServiceCallStep ==
    ASSUME IInv, ServiceCall
    PROVE  IInv'
<1> DEFINE refusal == serviceRefusal(header)
<1>1. /\ pc = "admit" /\ listener = "internal" /\ token = None
      /\ procedure \in Bound(deployment) /\ header \in Headers /\ SoundTables(deployment)
    BY DEF IInv, ServiceCall, RequestInv, EarlyInv, Tables
<1>2. CASE refusal # None /\ Reject(refusal)
    <2>1. refusal \in {"dpop_unsupported", "malformed_authorization"} \cup serviceReasons
        BY <1>2 DEF serviceRefusal, serviceReasons
    <2>2. ~ Admissible
        BY <1>1, <1>2, AdmissibleIsReissued DEF Admissible
    <2>3. Code(refusal) = "unauthenticated"
        BY <2>1 DEF Code, serviceReasons
    <2>4. Refuse("unauthenticated", refusal, None, None)
        BY <1>2, <2>3 DEF Reject
    <2>5. MayRefuse("unauthenticated", refusal, None, None)
        BY <1>1, <2>1, <2>2, Vocabulary DEF MayRefuse, authnReasons, None
    <2> QED BY <2>4, <2>5, RefuseStep
<1>3. CASE refusal = None /\ Proceed("reissue")
    BY <1>1, <1>3, ProceedStep
<1> QED BY <1>2, <1>3 DEF ServiceCall

\* A caller whose context is not refused has declared itself, or is the
\* audience of a context of the gateway.
LEMMA CallerIsShown ==
    ASSUME header \in Headers, serviceRefusal(header) = None,
           ReissueDecision # "invalid_context"
    PROVE  /\ caller(header) \in Callers
           /\ \/ caller(header) = header.caller
              \/ /\ header.authorization \in Bearers
                 /\ header.authorization.signer = "gateway"
                 /\ caller(header) = header.authorization.aud
<1>1. CASE header.caller # None
    BY <1>1 DEF caller, Callers
<1>2. CASE header.caller = None
    <2>1. header.authorization \in Bearers
        BY <1>2, HeaderFacts DEF serviceRefusal, None
    <2>2. context(header) = header.authorization /\ context(header) # Policy!NoContext
        BY <1>2, <2>1, HeaderFacts DEF context
    <2>3. Valid
        BY <2>2 DEF ReissueDecision, Policy!Reissue, Valid
    <2>4. header.authorization.signer = "gateway"
        BY <2>2, <2>3 DEF Valid, ValidContext
    <2> QED BY <1>2, <2>1, <2>4 DEF caller, Callers
<1> QED BY <1>1, <1>2

LEMMA ReissueFacts ==
    ASSUME IInv, pc = "reissue"
    PROVE  /\ listener = "internal" /\ token = None /\ serviceRefusal(header) = None
           /\ procedure \in Bound(deployment) /\ header \in Headers /\ SoundTables(deployment)
           /\ record = newRecord
BY DEF IInv, RequestInv, EarlyInv, StageInv, Tables

\* The context is reissued, refused, or the gateway fails to issue.
LEMMA ReissueStep ==
    ASSUME IInv, ReissueRefuses \/ Reissues \/ ReissueFails
    PROVE  IInv'
<1>1. pc = "reissue"
    BY DEF ReissueRefuses, Reissues, ReissueFails
<1>2. CASE ReissueRefuses
    <2> DEFINE decision == ReissueDecision
               from == IF decision = "invalid_context" THEN None ELSE caller(header)
    <2>1. decision \in {"edge_not_allowed", "context_required", "invalid_context"}
          /\ Refuse(Code(decision), decision, from, None)
        BY <1>2 DEF ReissueRefuses
    <2>2. ~ Admissible
        BY <1>1, <2>1, ReissueFacts, AdmissibleIsReissued DEF Admissible
    <2>3. Code(decision) \in {"permission_denied", "unauthenticated"}
        BY <2>1 DEF Code
    <2>4. decision \in Reasons
        BY <2>1, Vocabulary DEF admissionReasons, serviceReasons
    <2>5. from \in Callers /\ (from # None => \/ from = header.caller
                                             \/ /\ header.authorization \in Bearers
                                                /\ header.authorization.signer = "gateway"
                                                /\ from = header.authorization.aud)
        BY <1>1, ReissueFacts, CallerIsShown, Vocabulary
    <2> HIDE DEF from, decision
    <2>6. MayRefuse(Code(decision), decision, from, None)
        BY <1>1, <2>2, <2>3, <2>4, <2>5, ReissueFacts, Vocabulary DEF MayRefuse, None
    <2> QED BY <2>1, <2>6, RefuseStep
<1>3. CASE Reissues
    <2>1. ReissueDecision \in {"user", "machine_chain", "new_machine"}
        BY <1>3 DEF Reissues
    <2>2. Admissible
        BY <1>1, <2>1, ReissueFacts, ReissuedIsAdmissible DEF Admissible
    <2>3. ReissueDecision \in Identities \ {None, "external"}
        BY <2>1 DEF Identities, None
    <2> QED BY <1>1, <1>3, <2>1, <2>2, <2>3, ReissueFacts, CallerIsShown, IssueStep DEF Reissues
<1>4. CASE ReissueFails
    <2>1. PICK code \in {"internal", "canceled", "deadline_exceeded"} :
            Refuse(code, "issue_failed", caller(header), None)
        BY <1>4 DEF ReissueFails, IssueFailed
    <2>2. ReissueDecision # "invalid_context"
        BY <1>4 DEF ReissueFails
    <2>3. MayRefuse(code, "issue_failed", caller(header), None)
        BY <1>1, <2>1, <2>2, ReissueFacts, CallerIsShown, Vocabulary
        DEF MayRefuse, admissionReasons, NotTheClients, None
    <2> QED BY <2>1, <2>3, RefuseStep
<1> QED BY <1>2, <1>3, <1>4

\* The handler and the destination answer with a code and a reason that do not
\* blame the client, who is admissible; the record names whom it named before.
LEMMA AnswerStep ==
    ASSUME IInv, pc \in {"handle", "upstream", "send"},
           NEW code \in Results \ {None}, code = "unknown" => gone = "yes", NEW reason \in Reasons \cap NotTheClients,
           code = "unauthenticated" => token = None,
           Refuse(code, reason, record.caller, record.identity)
    PROVE  IInv'
<1>1. MayRefuse(code, reason, record.caller, record.identity)
    BY DEF MayRefuse, IInv, TypeOK, AuditNamesTheActors
<1> QED BY <1>1, RefuseStep

\* The message is bad, the answer is taken, or the client is lost.
LEMMA ConverseStep ==
    ASSUME IInv,
           \/ DecodeFails("invalid_argument") \/ DecodeFails("resource_exhausted")
           \/ ClientLost("canceled") \/ ClientLost("unknown")
           \/ Send
    PROVE  IInv'
<1>1. PICK code \in {"invalid_argument", "resource_exhausted", "canceled", "unknown", "ok"} :
        /\ pc \in {"handle", "send"}
        /\ code = "unknown" => gone = "yes"
        /\ Refuse(code, None, record.caller, record.identity)
    BY DEF DecodeFails, ClientLost, Send
<1>2. code \in Results \ {None, "unauthenticated"} /\ None \in Reasons \cap NotTheClients
    BY DEF Results, RemoteCodes, refusalCodes, Reasons, NotTheClients, None
<1> QED BY <1>1, <1>2, AnswerStep

\* Whatever the failure, its translation is a code of the protocol and a reason
\* of the destination's, and never asks for other credentials than the gateway's.
LEMMA TranslationBlamesNoClient ==
    ASSUME NEW from, NEW code \in RemoteCodes
    PROVE  LET translated == translateError(from, code, token = "issued")
           IN  /\ translated.code \in Results \ {None, "unknown"}
               /\ translated.reason \in upstreamReasons
               /\ translated.code = "unauthenticated" => token # "issued"
BY DEF translateError, Results, RemoteCodes, refusalCodes, upstreamReasons, None

LEMMA UpstreamStep ==
    ASSUME IInv,
           \/ UpstreamDeadline
           \/ \E code \in RemoteCodes : UpstreamFails("remote", code)
           \/ \E code \in {"canceled", "unavailable"} : CallFails(code)
    PROVE  IInv'
<1>1. ASSUME NEW from, NEW code \in RemoteCodes, UpstreamFails(from, code) PROVE IInv'
    <2> DEFINE translated == translateError(from, code, token = "issued")
    <2>1. pc = "upstream"
          /\ Refuse(translated.code, translated.reason, record.caller, record.identity)
        BY <1>1 DEF UpstreamFails, Answered
    <2>2. /\ translated.code \in Results \ {None, "unknown"}
          /\ translated.reason \in upstreamReasons
          /\ translated.code = "unauthenticated" => token # "issued"
        BY TranslationBlamesNoClient
    <2>3. translated.code = "unauthenticated" => token = None
        BY <2>2 DEF IInv, TypeOK
    <2>4. translated.reason \in Reasons \cap NotTheClients
        BY <2>2 DEF Reasons, NotTheClients
    <2> HIDE DEF translated
    <2> QED BY <2>1, <2>2, <2>3, <2>4, AnswerStep
<1>2. {"canceled", "unavailable", "deadline_exceeded"} \subseteq RemoteCodes
    BY DEF RemoteCodes
<1> QED BY <1>1, <1>2 DEF UpstreamDeadline, CallFails

-----------------------------------------------------------------------------
(* The theorems.                                                           *)

LEMMA InitEstablishes == Init => IInv
<1> SUFFICES ASSUME Init PROVE IInv
    OBVIOUS
<1> USE DEF Init, None
<1>1. Tables
    BY StartsSound DEF Tables
<1>2. TypeOK
    BY Vocabulary DEF TypeOK, newRecord, Results, Reasons
<1>3. RequestInv /\ EarlyInv /\ StageInv /\ AdmittedInv
    BY DEF RequestInv, EarlyInv, StageInv, AdmittedInv
<1>4. AnswerInv /\ RefusalsAreDeserved /\ AuditNamesTheActors /\ ClientIsNotBlamed
    BY DEF AnswerInv, RefusalsAreDeserved, AuditNamesTheActors, ClientIsNotBlamed, newRecord
<1> QED BY <1>1, <1>2, <1>3, <1>4 DEF IInv

LEMMA NextPreserves == IInv /\ [Next]_vars => IInv'
<1> SUFFICES ASSUME IInv, [Next]_vars PROVE IInv'
    OBVIOUS
<1>1. CASE Resolve \/ ClientGoes \/ UNCHANGED vars
    BY <1>1, EnvironmentStep
<1>2. CASE \E code \in {"not_found", "unimplemented"} : Fallback(code)
    BY <1>2, FallbackStep
<1>3. CASE \E l \in {"public", "internal"}, p \in Bound(deployment), h \in Headers :
            Receive(l, p, h)
    BY <1>3, ReceiveStep
<1>4. CASE Serve
    <2>1. CASE Authenticate
        BY <2>1, AuthenticateStep
    <2>2. CASE VerifyUnavailable \/ VerifyRefuses \/ VerifyAccepts
        BY <2>2, VerifyStep
    <2>3. CASE Introspect
        BY <2>3, IntrospectStep
    <2>4. CASE IssueEntry \/ IssueEntryFails
        BY <2>4, IssueEntryStep
    <2>5. CASE ServiceCall
        BY <2>5, ServiceCallStep
    <2>6. CASE ReissueRefuses \/ Reissues \/ ReissueFails
        BY <2>6, ReissueStep
    <2>7. CASE ClientLost("canceled") \/ ClientLost("unknown")
        BY <2>7, ConverseStep
    <2>8. CASE UpstreamDeadline
        BY <2>8, UpstreamStep
    <2>9. CASE finish
        BY <2>9, FinishStep
    <2> QED BY <1>4, <2>1, <2>2, <2>3, <2>4, <2>5, <2>6, <2>7, <2>8, <2>9 DEF Serve
<1>5. CASE Converse
    <2>1. CASE ProtocolRefuses
        BY <2>1, BreakStep
    <2>2. CASE CallUpstream
        BY <2>2, CallStep
    <2> QED BY <1>5, <2>1, <2>2, ConverseStep DEF Converse
<1>6. CASE UpstreamSucceeds
    BY <1>6, SucceedStep
<1>7. CASE \/ \E code \in RemoteCodes : UpstreamFails("remote", code)
           \/ \E code \in {"canceled", "unavailable"} : CallFails(code)
    BY <1>7, UpstreamStep
<1>8. CASE Panic
    BY <1>8, BreakStep
<1> QED BY <1>1, <1>2, <1>3, <1>4, <1>5, <1>6, <1>7, <1>8 DEF Next

\* Every reachable state satisfies the inductive invariant.
THEOREM Invariance == Spec => []IInv
<1> QED BY InitEstablishes, NextPreserves, PTL DEF Spec

\* The record, the context and the stages of a request keep their types, and a
\* record holds only words of the vocabularies that the code declares.
THEOREM TypeCorrect == Spec => []TypeOK
<1>1. IInv => TypeOK
    BY DEF IInv
<1> QED BY <1>1, Invariance, PTL

\* Forwarding: whatever the tables the process has started with, no destination
\* is called for a request that the declared policies, the overrides and the
\* edges do not admit, and without a token only for a public procedure.
THEOREM NothingElseReachesADestination == Spec => []UpstreamOnlyAdmitted
<1>1. IInv => UpstreamOnlyAdmitted
    BY DEF IInv, AdmittedInv, UpstreamOnlyAdmitted
<1> QED BY <1>1, Invariance, PTL

\* Authentication and reissue: the stages, which compare one claim after the
\* other with a derived table, never refuse what the declared policies admit,
\* but for want of the IdP, of a token or of the destination.
THEOREM NoAdmissibleRequestIsBlamed == Spec => []RefusalsAreDeserved
<1>1. IInv => RefusalsAreDeserved
    BY DEF IInv
<1> QED BY <1>1, Invariance, PTL

\* ServeHTTP and finish: each RPC is audited exactly once, at its end, with
\* what its client was told, whichever stage refused it or panicked.
THEOREM TheAuditTrailIsComplete == Spec => []AuditTellsTheAnswer
<1>1. IInv => AuditTellsTheAnswer
    BY DEF IInv, AnswerInv, AuditTellsTheAnswer
<1> QED BY <1>1, Invariance, PTL

\* The audit record names a bearer only for a token of the IdP and a caller only
\* if it has declared itself or holds a context of the gateway, and it has every
\* token that is issued.
THEOREM TheAuditTrailIsTrue == Spec => []AuditNamesTheActors
<1>1. IInv => AuditNamesTheActors
    BY DEF IInv
<1> QED BY <1>1, Invariance, PTL

\* translateError: no client of a request that was let in with credentials is
\* asked for other ones because of what the destination answered, and none that
\* is still there sees a code of the destination's insides.
THEOREM CredentialsAreAskedForAtTheDoor == Spec => []ClientIsNotBlamed
<1>1. IInv => ClientIsNotBlamed
    BY DEF IInv
<1> QED BY <1>1, Invariance, PTL
=============================================================================

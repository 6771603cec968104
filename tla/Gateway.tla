------------------------------ MODULE Gateway ------------------------------
(***************************************************************************)
(* One request on its way through the gateway: the pipeline of             *)
(* infra/connect, from classification to the audit record.                 *)
(*                                                                         *)
(* The public listener authenticates an external token against the         *)
(* procedure's entry and exchanges it; the internal listener identifies a  *)
(* service and reissues.  What is admitted goes to the procedure's handler *)
(* and on to the destination, whose answer is translated.  Meanwhile the   *)
(* metadata of the IdP may become resolved, the client may go away, and    *)
(* any stage may panic.                                                    *)
(*                                                                         *)
(* A deployment is what the process is started with: the inputs of         *)
(* Registry, the edges, and the switches idp, introspection and            *)
(* legacyScope ("yes" or "no").  A bearer token has a signer ("idp",       *)
(* "gateway" or another), a life ("live", "skewed": expired within the     *)
(* tolerated skew, or "expired"), the claims use, aud, originSub and       *)
(* scopes, wellFormed (every claim an external token must have is there,   *)
(* and its tenant and event fit its use), bound (it is sender constrained) *)
(* and active (what the IdP says of it).                                   *)
(***************************************************************************)
EXTENDS Registry

CONSTANTS
    Deployments,  \* what to start the process with
    Bearers,      \* bearer tokens to explore
    Headers,      \* credentials of requests to explore
    Audience      \* IDP_AUDIENCE, the audience of external tokens

None == "none"
NoBearer == [kind |-> "none"]
Malformed == [kind |-> "malformed"]   \* an Authorization that is no bearer token
BadCaller == "malformed"              \* a caller header that is empty or repeated

\* What the claims of a token, the credentials of a request and the tables of a
\* deployment look like; a path is never the name that stands for no path.
ASSUME GatewayAssumption ==
    /\ Bearers \subseteq
        [kind : {"bearer"}, signer : STRING, life : {"live", "skewed", "expired"},
         use : STRING, aud : STRING, originSub : STRING, scopes : SUBSET STRING,
         wellFormed : {"yes", "no"}, bound : {"yes", "no"}, active : {"yes", "no"}]
    /\ Headers \subseteq
        [caller : STRING, workload : {"yes", "no"}, dpop : {"yes", "no"},
         authorization : Bearers \cup {NoBearer, Malformed}]
    /\ \A d \in Deployments :
        None \notin Bound(d) /\ d.edges \in Seq(Elements(d.edges))

VARIABLES
    deployment, \* what the process was started with
    resolved,   \* whether the IdP's metadata is resolved
    gone,       \* whether the client has gone away
    pc,         \* the stage the request is in
    listener,   \* the listener it came in through
    procedure,  \* its path
    header,     \* its credentials
    token,      \* the internal token of its context
    upstream,   \* what the destination was called with
    record,     \* the audit record
    audits,     \* how often the record was emitted
    answer      \* the code the client is answered with

request == <<listener, procedure, header>>
environment == <<deployment, resolved, gone>>
vars == <<environment, pc, request, token, upstream, record, audits, answer>>

Policy == INSTANCE EdgePolicy WITH Entries <- EntriesOf(deployment)

NoHeader == [caller |-> None, workload |-> "no", dpop |-> "no", authorization |-> NoBearer]

newRecord ==
    [caller |-> None, identity |-> None, jti |-> None, result |-> None, reason |-> None]

\* The codes of the RPC protocol; refusalCodes blame the request.
refusalCodes == {"invalid_argument", "not_found", "already_exists", "permission_denied",
                 "failed_precondition", "out_of_range", "aborted", "unauthenticated"}

RemoteCodes == refusalCodes \cup {"canceled", "unknown", "deadline_exceeded",
    "resource_exhausted", "unimplemented", "internal", "unavailable", "data_loss"}

\* The reasons of the audit record, by the part that gives them.
authnReasons == {"workload_authorization", "caller_service_on_public", "external_authorization",
    "anonymous_rejected", "dpop_unsupported", "malformed_authorization", "verifier_unavailable",
    "invalid_token", "sender_constrained_unsupported", "internal_only", "token_use_mismatch",
    "missing_scope", "introspection_unavailable", "token_revoked"}

serviceReasons == {"ambiguous_service_credential", "missing_service_credential",
    "malformed_caller_service", "invalid_context"}

admissionReasons == {"issue_failed", "edge_not_allowed", "context_required"}

upstreamReasons == {"upstream_unreachable", "upstream_internal", "upstream_error",
    "upstream_refused", "upstream_rejected_internal_token", "canceled", "deadline_exceeded"}

\* What the audit record may say; a caller is a party that some credential names.
Callers == {None} \cup {h.caller : h \in Headers} \cup {t.aud : t \in Bearers}
Identities == {None, "external", "user", "machine_chain", "new_machine"}
Results == {None, "ok"} \cup RemoteCodes
Reasons == {None} \cup authnReasons \cup serviceReasons \cup admissionReasons
                  \cup upstreamReasons

TypeOK ==
    /\ resolved \in {"no", "yes"}
    /\ gone \in {"no", "yes"}
    /\ pc \in {"idle", "admit", "verify", "introspect", "issue", "reissue", "handle",
               "upstream", "send", "finish", "done"}
    /\ listener \in {"public", "internal"}
    /\ procedure \in Bound(deployment) \cup {None}
    /\ header \in Headers \cup {NoHeader}
    /\ token \in {None, "issued"}
    /\ upstream \in {None, "anonymous", "token"}
    /\ record \in [caller : Callers, identity : Identities, jti : {None, "issued"},
                   result : Results, reason : Reasons]
    /\ audits \in Nat

\* run: the process starts only when every check of the tables passes.
Starts ==
    /\ BuildRegistry(deployment)
    /\ LoadDestinations(deployment) /\ CheckDestinations(deployment)
    /\ checkCoverage(deployment)
    /\ Policy!Build(deployment.edges)

Init ==
    /\ deployment \in Deployments /\ Starts
    /\ resolved = "no"
    /\ gone = "no"
    /\ pc = "idle"
    /\ listener = "public"
    /\ procedure = None
    /\ header = NoHeader
    /\ token = None
    /\ upstream = None
    /\ record = newRecord
    /\ audits = 0
    /\ answer = None

-----------------------------------------------------------------------------
(* The environment.                                                        *)

\* The provider resolves the IdP's metadata, once.
Resolve ==
    /\ deployment.idp = "yes"
    /\ resolved = "no"
    /\ resolved' = "yes"
    /\ UNCHANGED <<deployment, gone, pc, request, token, upstream, record, audits, answer>>

\* The request's context is canceled.
ClientGoes ==
    /\ pc \notin {"idle", "done"}
    /\ gone = "no"
    /\ gone' = "yes"
    /\ UNCHANGED <<deployment, resolved, pc, request, token, upstream, record, audits, answer>>

-----------------------------------------------------------------------------
(* ServeHTTP and serve.                                                    *)

\* A request that is no RPC, or to a procedure that is not registered, gets
\* the fallback's answer and leaves no audit record.
Fallback(code) ==
    /\ pc = "idle"
    /\ pc' = "done"
    /\ answer' = code
    /\ UNCHANGED <<environment, request, token, upstream, record, audits>>

Receive(l, p, h) ==
    /\ pc = "idle"
    /\ pc' = "admit"
    /\ listener' = l
    /\ procedure' = p
    /\ header' = h
    /\ UNCHANGED <<environment, token, upstream, record, audits, answer>>

Entry == EntriesOf(deployment)[procedure]

\* The request goes on to a stage.
Proceed(stage) ==
    /\ pc' = stage
    /\ UNCHANGED <<environment, request, token, upstream, record, audits, answer>>

\* The request is answered without a call of the destination.
Refuse(code, reason, caller, identity) ==
    /\ pc' = "finish"
    /\ record' = [record EXCEPT !.result = code, !.reason = reason,
                                !.caller = caller, !.identity = identity]
    /\ answer' = code
    /\ UNCHANGED <<environment, request, token, upstream, audits>>

\* rejectionError and reissueRejection: the code of a reason.
Code(reason) ==
    CASE reason \in {"internal_only", "missing_scope", "edge_not_allowed"} -> "permission_denied"
      [] reason = "verifier_unavailable" -> "unavailable"
      [] OTHER -> "unauthenticated"

Reject(reason) == Refuse(Code(reason), reason, None, None)

\* InternalError: a failure of the gateway's own, unless the client has gone or
\* the request's deadline has passed.
IssueFailed(caller) ==
    \E code \in {"internal", "canceled", "deadline_exceeded"} :
        /\ code = "canceled" => gone = "yes"
        /\ Refuse(code, "issue_failed", caller, None)

-----------------------------------------------------------------------------
(* The public listener: publicAdmission and authn.                         *)

\* What the headers alone are refused for, in the order they are looked at.
headerRefusal(d, h, entry) ==
    IF h.caller # None THEN "caller_service_on_public"
    ELSE IF h.workload = "yes" THEN "workload_authorization"
    ELSE IF h.dpop = "yes" THEN "dpop_unsupported"
    ELSE IF h.authorization = NoBearer
    THEN IF "anonymous" \in entry.subjects THEN None ELSE "anonymous_rejected"
    ELSE IF h.authorization = Malformed THEN "malformed_authorization"
    ELSE IF d.idp = "no" THEN "external_authorization"
    ELSE None

Authenticate ==
    /\ pc = "admit" /\ listener = "public"
    /\ LET refusal == headerRefusal(deployment, header, Entry)
       IN  \/ refusal # None /\ Reject(refusal)
           \/ refusal = None /\ header.authorization = NoBearer /\ Proceed("handle")
           \/ refusal = None /\ header.authorization # NoBearer /\ Proceed("verify")

\* The verifier: signature, issuer, lifetime, audience, and readClaims.
ValidExternal(t) ==
    /\ t.signer = "idp"
    /\ t.life # "expired"
    /\ t.aud = Audience
    /\ t.use \in KnownTokenUses \ {"service"}
    /\ t.wellFormed = "yes"

\* expandLegacyEventsWriteScope, applied to a verified token's scopes.
grantedScopes(d, t) ==
    IF d.legacyScope = "yes" /\ "events.write" \in t.scopes
    THEN (t.scopes \ {"events.write"})
            \cup {"events.manage", "events.operate", "events.report"}
    ELSE t.scopes

\* Mutants: the scopes are not compared, or a procedure that services may call
\* is taken for an internal one.
authorize_NoScopes(d, t, entry) ==
    IF ExternalTokenUses(entry.subjects) = {}
    THEN IF "service" \in entry.subjects THEN "internal_only" ELSE "token_use_mismatch"
    ELSE IF t.use \notin ExternalTokenUses(entry.subjects) THEN "token_use_mismatch"
    ELSE IF entry.introspection = "yes" /\ d.introspection = "no"
    THEN "introspection_unavailable"
    ELSE None

authorize_ServiceFirst(d, t, entry) ==
    IF "service" \in entry.subjects THEN "internal_only"
    ELSE IF t.use \notin ExternalTokenUses(entry.subjects) THEN "token_use_mismatch"
    ELSE IF ~ (entry.scopes \subseteq grantedScopes(d, t)) THEN "missing_scope"
    ELSE IF entry.introspection = "yes" /\ d.introspection = "no"
    THEN "introspection_unavailable"
    ELSE None

\* authorize and introspect, up to the question to the IdP.
authorize(d, t, entry) ==
    IF ExternalTokenUses(entry.subjects) = {}
    THEN IF "service" \in entry.subjects THEN "internal_only" ELSE "token_use_mismatch"
    ELSE IF t.use \notin ExternalTokenUses(entry.subjects) THEN "token_use_mismatch"
    ELSE IF ~ (entry.scopes \subseteq grantedScopes(d, t)) THEN "missing_scope"
    ELSE IF entry.introspection = "yes" /\ d.introspection = "no"
    THEN "introspection_unavailable"
    ELSE None

\* Without metadata, and whenever a key cannot be had, the token is not blamed.
VerifyUnavailable ==
    /\ pc = "verify"
    /\ Reject("verifier_unavailable")

VerifyRefuses ==
    /\ pc = "verify" /\ resolved = "yes"
    /\ ~ ValidExternal(header.authorization)
    /\ Reject("invalid_token")

\* A verified token is refused without naming its bearer when it is sender
\* constrained, and with its bearer when authorize refuses it.
VerifyAccepts ==
    LET t == header.authorization
        refusal == authorize(deployment, t, Entry)
    IN  /\ pc = "verify" /\ resolved = "yes"
        /\ ValidExternal(t)
        /\ \/ t.bound = "yes" /\ Reject("sender_constrained_unsupported")
           \/ /\ t.bound = "no" /\ refusal # None
              /\ Refuse(Code(refusal), refusal, None, "external")
           \/ /\ t.bound = "no" /\ refusal = None
              /\ Proceed(IF Entry.introspection = "yes" THEN "introspect" ELSE "issue")

Introspect ==
    /\ pc = "introspect"
    /\ \/ header.authorization.active = "yes" /\ Proceed("issue")
       \/ /\ header.authorization.active = "no"
          /\ Refuse(Code("token_revoked"), "token_revoked", None, "external")
       \/ Refuse(Code("introspection_unavailable"), "introspection_unavailable",
                 None, "external")

IssueEntry ==
    /\ pc = "issue"
    /\ pc' = "handle"
    /\ token' = "issued"
    /\ record' = [record EXCEPT !.identity = "external", !.jti = "issued"]
    /\ UNCHANGED <<environment, request, upstream, audits, answer>>

IssueEntryFails == pc = "issue" /\ IssueFailed(None)

-----------------------------------------------------------------------------
(* The internal listener: serviceAdmission and authn.ServiceCall.          *)

serviceRefusal(h) ==
    IF h.dpop = "yes" THEN "dpop_unsupported"
    ELSE IF h.caller # None /\ h.authorization # NoBearer THEN "ambiguous_service_credential"
    ELSE IF h.caller = BadCaller THEN "malformed_caller_service"
    ELSE IF h.caller # None THEN None
    ELSE IF h.authorization = Malformed THEN "malformed_authorization"
    ELSE IF h.authorization = NoBearer THEN "missing_service_credential"
    ELSE IF h.authorization.aud = "" THEN "invalid_context"
    ELSE None

ServiceCall ==
    /\ pc = "admit" /\ listener = "internal"
    /\ LET refusal == serviceRefusal(header)
       IN  \/ refusal # None /\ Reject(refusal)
           \/ refusal = None /\ Proceed("reissue")

\* The caller the credential names: a declared one, or the audience of the
\* context, which is not verified yet.
caller(h) == IF h.caller # None THEN h.caller ELSE h.authorization.aud

context(h) == IF h.caller # None THEN Policy!NoContext ELSE h.authorization

\* The context verifier tolerates the skew, the issuer does not.
ValidContext(t) == t.signer = "gateway" /\ t.life # "expired"

ReissueDecision ==
    LET c == context(header)
        valid == c # Policy!NoContext => ValidContext(c)
        origin == Policy!Reissue(deployment.edges, caller(header), procedure, c, valid)
    IN  IF /\ origin \in {"user", "machine_chain"}
           /\ c.life = "skewed"
        THEN "invalid_context" ELSE origin

\* Mutant: the caller is recorded whatever became of its context.
ReissueRefuses_Named ==
    /\ pc = "reissue"
    /\ ReissueDecision \in {"edge_not_allowed", "context_required", "invalid_context"}
    /\ Refuse(Code(ReissueDecision), ReissueDecision, caller(header), None)

\* An invalid context names no caller.
ReissueRefuses ==
    /\ pc = "reissue"
    /\ ReissueDecision \in {"edge_not_allowed", "context_required", "invalid_context"}
    /\ Refuse(Code(ReissueDecision), ReissueDecision,
              IF ReissueDecision = "invalid_context" THEN None ELSE caller(header), None)

Reissues ==
    /\ pc = "reissue"
    /\ ReissueDecision \in {"user", "machine_chain", "new_machine"}
    /\ pc' = "handle"
    /\ token' = "issued"
    /\ record' = [record EXCEPT !.caller = caller(header), !.identity = ReissueDecision,
                                !.jti = "issued"]
    /\ UNCHANGED <<environment, request, upstream, audits, answer>>

ReissueFails ==
    /\ pc = "reissue"
    /\ ReissueDecision \in {"user", "machine_chain", "new_machine"}
    /\ IssueFailed(caller(header))

-----------------------------------------------------------------------------
(* The handler and the destination.                                        *)

\* The RPC library refuses the request before the interceptors run.
ProtocolRefuses ==
    /\ pc = "handle"
    /\ pc' = "finish"
    /\ answer' = "protocol"
    /\ UNCHANGED <<environment, request, token, upstream, record, audits>>

\* The message cannot be decoded, or is too large: the audit interceptor sees it.
DecodeFails(code) ==
    /\ pc = "handle"
    /\ Refuse(code, None, record.caller, record.identity)

\* The message has arrived.  Unary calls the destination, and
\* AuthorizationInterceptor adds the token.
CallUpstream ==
    /\ pc = "handle"
    /\ pc' = "upstream"
    /\ upstream' = IF token = "issued" THEN "token" ELSE "anonymous"
    /\ UNCHANGED <<environment, request, token, record, audits, answer>>

\* Mutant: the refusal of an internal token is relayed.
translateError_Relayed(from, code, hasInternalToken) ==
    IF code \in {"canceled", "deadline_exceeded"} THEN [code |-> code, reason |-> code]
    ELSE IF from = "local" THEN [code |-> "unavailable", reason |-> "upstream_unreachable"]
    ELSE IF code \in {"unknown", "internal"}
    THEN [code |-> "internal", reason |-> "upstream_internal"]
    ELSE [code |-> code, reason |-> IF code \in refusalCodes THEN "upstream_refused"
                                    ELSE "upstream_error"]

\* What a failed call is answered with.  The failure is the destination's, or
\* local: of the transport or of the request's own context.
translateError(from, code, hasInternalToken) ==
    IF code \in {"canceled", "deadline_exceeded"} THEN [code |-> code, reason |-> code]
    ELSE IF from = "local" THEN [code |-> "unavailable", reason |-> "upstream_unreachable"]
    ELSE IF code = "unauthenticated" /\ hasInternalToken
    THEN [code |-> "internal", reason |-> "upstream_rejected_internal_token"]
    ELSE IF code \in {"unknown", "internal"}
    THEN [code |-> "internal", reason |-> "upstream_internal"]
    ELSE [code |-> code, reason |-> IF code \in refusalCodes THEN "upstream_refused"
                                    ELSE "upstream_error"]

Answered(translated) ==
    /\ pc = "upstream"
    /\ Refuse(translated.code, translated.reason, record.caller, record.identity)

\* The destination's message goes to the client, who may take its time.
UpstreamSucceeds == pc = "upstream" /\ Proceed("send")

Send ==
    /\ pc = "send"
    /\ Refuse("ok", None, record.caller, record.identity)

\* The read of the message, or the write of the answer, fails once the client
\* has gone: the interceptor sees a canceled call or an error with no code.
ClientLost(code) ==
    /\ pc \in {"handle", "send"}
    /\ gone = "yes"
    /\ Refuse(code, None, record.caller, record.identity)

UpstreamFails(from, code) == Answered(translateError(from, code, token = "issued"))

\* The destination cannot be reached, or the client has gone.
CallFails(code) ==
    /\ code = "canceled" => gone = "yes"
    /\ UpstreamFails("local", code)

\* Mutant: a call ends early only when its client goes away.
UpstreamDeadline_Client == gone = "yes" /\ UpstreamFails("local", "canceled")

\* withUpstreamDeadline: every call has a deadline.
UpstreamDeadline == UpstreamFails("local", "deadline_exceeded")

-----------------------------------------------------------------------------
(* The end.                                                                *)

\* A panic unwinds through the deferred finish; the server drops the connection.
Panic ==
    /\ pc \notin {"idle", "finish", "done"}
    /\ pc' = "finish"
    /\ answer' = "aborted"
    /\ UNCHANGED <<environment, request, token, upstream, record, audits>>

\* Mutant: a record without a result is emitted as it is.
finish_Empty ==
    /\ pc = "finish"
    /\ pc' = "done"
    /\ audits' = audits + 1
    /\ UNCHANGED <<environment, request, token, upstream, record, answer>>

finish ==
    /\ pc = "finish"
    /\ pc' = "done"
    /\ record' = [record EXCEPT !.result = IF record.result = None THEN "unknown"
                                           ELSE record.result]
    /\ audits' = audits + 1
    /\ UNCHANGED <<environment, request, token, upstream, answer>>

-----------------------------------------------------------------------------
\* The steps that the gateway takes by itself, sooner or later.
Serve ==
    \/ Authenticate
    \/ VerifyUnavailable \/ VerifyRefuses \/ VerifyAccepts
    \/ Introspect
    \/ IssueEntry \/ IssueEntryFails
    \/ ServiceCall
    \/ ReissueRefuses \/ Reissues \/ ReissueFails
    \/ ClientLost("canceled") \/ ClientLost("unknown")
    \/ UpstreamDeadline
    \/ finish

\* The steps that wait for the client: for its message, or for it to take the
\* answer.  NewServer bounds the time of the headers only.
Converse ==
    \/ ProtocolRefuses \/ DecodeFails("invalid_argument") \/ DecodeFails("resource_exhausted")
    \/ CallUpstream
    \/ Send

Next ==
    \/ Resolve
    \/ ClientGoes
    \/ \E code \in {"not_found", "unimplemented"} : Fallback(code)
    \/ \E l \in {"public", "internal"}, p \in Bound(deployment), h \in Headers :
        Receive(l, p, h)
    \/ Serve
    \/ Converse
    \/ UpstreamSucceeds
    \/ \E code \in RemoteCodes : UpstreamFails("remote", code)
    \/ \E code \in {"canceled", "unavailable"} : CallFails(code)
    \/ Panic

Spec == Init /\ [][Next]_vars

\* Verification and introspection return (KeySet and Introspection), a call of
\* the destination has a deadline, and a connection that is lost fails its reads
\* and writes.  Nothing is assumed of the destination or of a client that stays.
FairSpec == Spec /\ WF_vars(Serve)

-----------------------------------------------------------------------------
(* What the gateway promises, in terms of the policies that the services   *)
(* declare and of what is true of the credentials.                         *)

\* A client of the public listener has shown what the policy asks for.
AdmissiblePublic(d, p, h) ==
    LET policy == PolicyOf(d, p)
        t == h.authorization
    IN  /\ h.caller = None /\ h.workload = "no" /\ h.dpop = "no"
        /\ \/ policy.level = "public" /\ t = NoBearer
           \/ /\ policy.level = "authenticated" /\ t \in Bearers
              /\ t.signer = "idp" /\ t.life # "expired" /\ t.aud = Audience
              /\ t.wellFormed = "yes" /\ t.bound = "no"
              /\ t.use \in Elements(policy.tokenUses) \ {"service"}
              /\ policy.scopes \subseteq grantedScopes(d, t)
              /\ p \in Elements(d.overrides) => t.active = "yes"

\* An edge of the policy leads from a service to the procedure, and takes the
\* context the service goes on with, or the lack of one.
AdmissibleInternal(d, p, h) ==
    LET t == h.authorization
        Leads(e, from) == e.caller = from /\ e.procedure = p
    IN  /\ \/ PolicyOf(d, p).level = "internal"
           \/ "service" \in Elements(PolicyOf(d, p).tokenUses)
        /\ h.dpop = "no"
        /\ \/ /\ h.caller \notin {None, BadCaller} /\ t = NoBearer
              /\ \E e \in Elements(d.edges) : Leads(e, h.caller) /\ "new_machine" \in e.origins
           \/ /\ h.caller = None /\ t \in Bearers
              /\ t.signer = "gateway" /\ t.life = "live"
              /\ \E e \in Elements(d.edges) :
                    /\ Leads(e, t.aud)
                    /\ IF t.use = "service" /\ t.originSub = ""
                       THEN "machine_chain" \in e.origins
                       ELSE t.use \in Elements(e.tokenUses)

Admissible ==
    IF listener = "public" THEN AdmissiblePublic(deployment, procedure, header)
    ELSE AdmissibleInternal(deployment, procedure, header)

\* No call reaches a destination that the declared policies, the overrides and
\* the edges do not admit, whatever became of the request on the way; and a
\* call goes without a token only to a public procedure.
UpstreamOnlyAdmitted ==
    upstream # None =>
        /\ Admissible
        /\ upstream = "anonymous" => PolicyOf(deployment, procedure).level = "public"

\* Conversely, a request that is admissible is never refused for a reason that
\* is the client's: it fails for want of the IdP, of a token or of the
\* destination only.
RefusalsAreDeserved ==
    procedure # None /\ Admissible =>
        record.reason \in upstreamReasons \cup {None, "external_authorization",
            "verifier_unavailable", "introspection_unavailable", "issue_failed"}

\* Each RPC is audited exactly once, after its answer is settled, a panic
\* included, and the record tells what the client was told; it says "unknown"
\* only of that or of what no interceptor has seen.  Nothing else is audited.
AuditTellsTheAnswer ==
    /\ audits = (IF pc = "done" /\ procedure # None THEN 1 ELSE 0)
    /\ audits = 1 =>
        \/ record.result = answer
        \/ record.result = "unknown" /\ answer \in {"protocol", "aborted"}

\* The audit trail names no one on the strength of an unverified credential:
\* a bearer only for a token the IdP has signed, and a caller only if it has
\* declared itself or a context of the gateway is addressed to it.  Every
\* token issued is in the trail, with the party it was issued for.
AuditNamesTheActors ==
    /\ record.identity = "external" =>
        listener = "public" /\ header.authorization \in Bearers
            /\ header.authorization.signer = "idp"
    /\ record.caller # None =>
        \/ record.caller = header.caller
        \/ /\ header.authorization \in Bearers
           /\ header.authorization.signer = "gateway"
           /\ record.caller = header.authorization.aud
    /\ token = "issued" <=> record.jti # None
    /\ token = "issued" => record.identity # None

\* No client of a request that was let in with credentials is asked for other
\* ones because of what the destination answered: a destination that rejects the
\* gateway's token is the gateway's failure.  Nor does a client that is still
\* there see a code of the destination's insides.
ClientIsNotBlamed ==
    /\ answer = "unauthenticated" => token = None
    /\ answer = "unknown" => gone = "yes"

\* Every request is answered and, if it is an RPC, audited, even if the
\* destination never answers, or waits for a client that is still there: what
\* the gateway has to do, and what a lost client has left behind, always ends.
EveryRequestEnds ==
    pc # "idle" ~> pc = "done" \/ (pc \in {"handle", "send"} /\ gone = "no")
=============================================================================

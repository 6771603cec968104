------------------------------ MODULE Startup ------------------------------
(***************************************************************************)
(* The start of the process, from its environment to its first requests:   *)
(* run of cmd/server/main.go, with config.Load, the construction of the    *)
(* IdP provider (whose package checks the configuration once more, some of *)
(* it only when the metadata has arrived), the readiness endpoint and the  *)
(* source address that requests are recorded with.  Lifecycle has what the *)
(* goroutines do afterwards.                                               *)
(***************************************************************************)
EXTENDS Config, SourceIP

CONSTANTS
    Environments,  \* the environments the process may be started in
    Headers,       \* X-Forwarded-For as clients send it
    Client,        \* the address of a client
    Proxies,       \* the addresses of the proxies, the outermost first
    LogLevels      \* the values of LOG_LEVEL that ParseLevel knows

\* Unset is not the text of a mode, a variable that is a list is read as a sequence,
\* the secret in a file is not the name that stands for none, and addresses and
\* headers are texts.
ASSUME StartupAssumption ==
    /\ Unset \notin {"split", "public", "internal"}
    /\ \A e \in Environments :
        /\ DOMAIN e = Variables
        /\ e.publishedKeyFiles \in Seq(ToSet(e.publishedKeyFiles))
        /\ e.secretFile = Unset \/ readSecretFile(e.secretFile) # Unset
    /\ Addresses \subseteq STRING
    /\ Headers \subseteq Seq(Seq(STRING))
    /\ Proxies \in Seq(Addresses)
    /\ Client \in Addresses \ ToSet(Proxies)

VARIABLES
    env,       \* the environment
    stage,     \* how far run is
    cfg,       \* the configuration; Invalid before Load and after an error
    tracing,   \* the tracing pipeline
    built,     \* what the authenticator is made of
    checks,    \* the readiness checks registered
    resolved,  \* the provider has resolved the metadata
    exit,      \* why the process has ended
    probe,     \* the last answer of /readyz
    request,   \* a request on its way
    source     \* the address the last request was recorded with

startVars == <<env, stage, cfg, tracing, built, checks>>
vars == <<startVars, resolved, exit, probe, request, source>>

NoRequest == [at |-> 0, header |-> <<>>, peer |-> Unset]

Stages == {"logger", "load", "tracing", "registry", "issuer", "idp", "serving", "exited"}
Exits == {"none", "log level", "config", "tracing", "files", "validation", "metadata", "signal"}

\* env never changes and stays in Environments.
TypeOK ==
    /\ stage \in Stages
    /\ cfg \in {Invalid, Load(env)}
    /\ tracing \in {"off", "on", "flushed"}
    /\ built \in [verifier : BOOLEAN, introspector : BOOLEAN]
    /\ checks \subseteq {"signing_key", "idp"}
    /\ resolved \in BOOLEAN
    /\ exit \in Exits
    /\ probe \in {"none", "ok", "not ready"}
    /\ request.at \in 0..(Len(Proxies) + 1)
    /\ source \in Addresses \cup {Unset}

Init ==
    /\ env \in Environments
    /\ stage = "logger"
    /\ cfg = Invalid
    /\ tracing = "off"
    /\ built = [verifier |-> FALSE, introspector |-> FALSE]
    /\ checks = {}
    /\ resolved = FALSE
    /\ exit = "none"
    /\ probe = "none"
    /\ request = NoRequest
    /\ source = Unset

-----------------------------------------------------------------------------
(* run, step by step.                                                      *)

\* Mutant: a start that fails leaves by os.Exit.
Return_NoDefer(reason) ==
    /\ stage' = "exited"
    /\ exit' = reason
    /\ tracing' = IF reason = "signal" /\ tracing = "on" THEN "flushed" ELSE tracing
    /\ UNCHANGED <<env, cfg, built, checks, resolved, probe, request, source>>

\* run returns; the deferred shutdown of the tracing pipeline flushes it.
Return(reason) ==
    /\ stage' = "exited"
    /\ exit' = reason
    /\ tracing' = IF tracing = "on" THEN "flushed" ELSE tracing
    /\ UNCHANGED <<env, cfg, built, checks, resolved, probe, request, source>>

\* run goes on.
Continue(next) ==
    /\ stage' = next
    /\ UNCHANGED <<env, resolved, exit, probe, request, source>>

NewLogger ==
    /\ stage = "logger"
    /\ IF env.logLevel \in LogLevels \cup {Unset}
       THEN Continue("load") /\ UNCHANGED <<cfg, tracing, built, checks>>
       ELSE Return("log level")

LoadConfig ==
    /\ stage = "load"
    /\ IF Load(env) # Invalid
       THEN Continue("tracing") /\ cfg' = Load(env) /\ UNCHANGED <<tracing, built, checks>>
       ELSE Return("config")

\* telemetry.Setup: the pipeline is set up, with or without an exporter, or its
\* resource or its exporter cannot be made.
SetupTracing ==
    /\ stage = "tracing"
    /\ \/ Continue("registry") /\ tracing' = "on" /\ UNCHANGED <<cfg, built, checks>>
       \/ Return("tracing")

\* The registry, the destinations, the handlers: the catalogue and a file decide.
BuildRegistry ==
    /\ stage = "registry"
    /\ \/ Continue("issuer") /\ UNCHANGED <<cfg, tracing, built, checks>>
       \/ Return("files")

\* The issuer and the reissuer, from the key files; then the first check.
NewIssuerFromFiles ==
    /\ stage = "issuer"
    /\ \/ Continue("idp") /\ checks' = {"signing_key"} /\ UNCHANGED <<cfg, tracing, built>>
       \/ Return("files")

\* What idp.New demands of the configuration.
New ==
    /\ cfg.idpAudience # Unset
    /\ (cfg.clientID = Unset) = (cfg.secret = Unset)

\* Mutant: the provider's readiness check is not registered.
BuildAuthenticator_Unchecked ==
    /\ stage = "idp"
    /\ IF cfg.idpIssuer = Unset \/ New
       THEN /\ Continue("serving")
            /\ built' = IF cfg.idpIssuer = Unset THEN built
                        ELSE [verifier |-> TRUE, introspector |-> ~cfg.introspectionDisabled]
            /\ UNCHANGED <<cfg, tracing, checks>>
       ELSE Return("validation")

\* The authenticator has a verifier when there is an IdP, and an introspector
\* unless introspection is disabled; then the listeners are started.
BuildAuthenticator ==
    /\ stage = "idp"
    /\ IF cfg.idpIssuer = Unset \/ New
       THEN /\ Continue("serving")
            /\ built' = IF cfg.idpIssuer = Unset THEN built
                        ELSE [verifier |-> TRUE, introspector |-> ~cfg.introspectionDisabled]
            /\ checks' = IF cfg.idpIssuer = Unset THEN checks ELSE checks \cup {"idp"}
            /\ UNCHANGED <<cfg, tracing>>
       ELSE Return("validation")

-----------------------------------------------------------------------------
(* The provider's goroutine: Run ends in a resolution or a fatal error.    *)

\* parseIssuer, NewVerifier and NewIntrospector check the configuration again.
parseIssuer ==
    /\ URL[cfg.idpIssuer].scheme \in {"http", "https"}
    /\ URL[cfg.idpIssuer].host # Unset
    /\ URL[cfg.idpIssuer].rest = {}

NewVerifier == ToSet(cfg.idpAlgorithms) \subseteq {"RS256", "ES256"}

NewIntrospector == cfg.clientID = Unset \/ cfg.secret # Unset

Resolve ==
    /\ stage = "serving" /\ built.verifier /\ ~resolved
    /\ IF parseIssuer /\ NewVerifier /\ NewIntrospector
       THEN \/ resolved' = TRUE /\ UNCHANGED <<startVars, exit, probe, request, source>>
            \/ Return("metadata")
       ELSE Return("validation")

Signal == stage = "serving" /\ Return("signal")

-----------------------------------------------------------------------------
(* Requests.                                                               *)

\* Whether a registered check succeeds; the signing key was read at the start.
Check(name) == name = "idp" => resolved

handleReadyz ==
    /\ stage = "serving"
    /\ probe' = IF \A name \in checks : Check(name) THEN "ok" ELSE "not ready"
    /\ UNCHANGED <<startVars, resolved, exit, request, source>>

\* A client sends a request with a header of its choice.
Send(header) ==
    /\ stage = "serving" /\ request.at = 0
    /\ request' = [at |-> 1, header |-> header, peer |-> Client]
    /\ UNCHANGED <<startVars, resolved, exit, probe, source>>

\* A proxy passes it on with the address of its peer, as another element of the
\* last value or as a value of its own.
Relay ==
    LET header == request.header
        proxy == Proxies[request.at]
    IN  /\ stage = "serving" /\ source = Unset /\ request.at \in DOMAIN Proxies
        /\ \E next \in {Append(header, <<request.peer>>)} \cup
                (IF header = <<>> THEN {}
                 ELSE {Append(Front(header), Append(Last(header), request.peer))}) :
            request' = [at |-> request.at + 1, header |-> next, peer |-> proxy]
        /\ UNCHANGED <<startVars, resolved, exit, probe, source>>

\* The pipeline records the source address.
ServeHTTP ==
    /\ stage = "serving" /\ source = Unset /\ request.at > 0
    /\ source' = sourceIP(request, cfg.hops)
    /\ UNCHANGED <<startVars, resolved, exit, probe, request>>

\* The client has its answer.
Answered ==
    /\ stage = "serving" /\ source # Unset
    /\ request' = NoRequest /\ source' = Unset
    /\ UNCHANGED <<startVars, resolved, exit, probe>>

Next ==
    \/ NewLogger \/ LoadConfig \/ SetupTracing \/ BuildRegistry
    \/ NewIssuerFromFiles \/ BuildAuthenticator
    \/ Resolve \/ Signal
    \/ handleReadyz
    \/ \E header \in Headers : Send(header)
    \/ Relay \/ ServeHTTP \/ Answered

Spec == Init /\ [][Next]_vars

-----------------------------------------------------------------------------
(* What a start may not do.                                                *)

\* The validators of config.Load and those of the packages the configuration is
\* handed to agree: a configuration that was loaded is never refused later, when
\* the process may already be serving.
LoadedConfigsBuild == exit # "validation"

\* A process that verifies external tokens can ask whether they are revoked,
\* with both credentials, unless the operator has written "disabled": two
\* functions of config.go check half of this each.
RevocationIsOffOnlyOnRequest ==
    stage = "serving" /\ built.verifier =>
        IF built.introspector
        THEN cfg.clientID # Unset /\ cfg.secret # Unset
        ELSE env.introspection = "disabled"

\* What run makes of a configuration: without an IdP its settings are not used.
Wired(config) ==
    <<config.listeners, config.issuerID, config.signingKey, config.publishedKeys,
      config.destinationsFile, config.hops,
      IF config.idpIssuer = Unset THEN Unset
      ELSE <<config.idpIssuer, config.idpAudience, config.idpAlgorithms, config.clientID,
             config.secret, config.introspectionDisabled, config.legacy>> >>

Lists == {"publishedKeyFiles", "idpAlgorithms"}
Without(v) == [env EXCEPT ![v] = IF v \in Lists THEN <<>> ELSE Unset]

\* Settings of no effect: those that spell out the default, PORT of a process
\* with two listeners, and the one that Load does not read.
NoEffect(v) ==
    \/ v = "logLevel"
    \/ v = "port" /\ env.mode = "split"
    \/ v = "hops" /\ cfg.hops = 0
    \/ v = "introspection" /\ env.introspection = "required"
    \/ v = "idpAlgorithms" /\ env.idpAlgorithms = <<"RS256">>

\* No other setting is silently ignored: in an environment that is accepted,
\* dropping a variable changes what the process is made of, or is refused.
SettingsTakeEffect ==
    stage = "tracing" =>
        \A v \in DOMAIN env :
            \/ env[v] = Without(v)[v]
            \/ NoEffect(v)
            \/ Load(Without(v)) = Invalid
            \/ Wired(Load(Without(v))) # Wired(cfg)

\* The listeners come in the order shutdown counts on, the public one first, and
\* they never compete for one port.
ListenersFit ==
    cfg # Invalid =>
        /\ [i \in DOMAIN cfg.listeners |-> cfg.listeners[i].inbound]
                \in {<<"public", "internal">>, <<"public">>, <<"internal">>}
        /\ IsInjective([i \in DOMAIN cfg.listeners |-> Atoi[cfg.listeners[i].port]])

\* Every published key of the list is loaded, and no key ID names two keys, the
\* signing key included.
KeyIDsAreUnique ==
    cfg # Invalid =>
        /\ Len(cfg.publishedKeys) = Len(env.publishedKeyFiles)
        /\ IsInjective(<<cfg.signingKey.kid>> \o
                       [i \in DOMAIN cfg.publishedKeys |-> cfg.publishedKeys[i].kid])

\* Wherever run returns after the pipeline was set up, the spans are flushed.
TracesAreFlushed == stage = "exited" => tracing # "on"

\* Once /readyz has answered 200, no token is turned away because the metadata of
\* the IdP is not resolved.
ReadyIsTruthful == probe = "ok" /\ built.verifier => resolved

\* A start is sound at every step: what Load returns can be listened on and signed
\* with, what run has set up is torn down wherever it returns, and the probe does
\* not promise what is still missing.
StartIsSound ==
    /\ TypeOK
    /\ ListenersFit
    /\ KeyIDsAreUnique
    /\ TracesAreFlushed
    /\ ReadyIsTruthful

\* A client cannot choose the address it is recorded with: behind at least as many
\* proxies as the configuration trusts, it is the address that connected to the
\* outermost trusted one, whatever headers the client sent and however the
\* proxies extended them.
SourceIsNotForged ==
    LET untrusted == request.at - 1 - cfg.hops
    IN  source # Unset /\ untrusted >= 0 =>
            source = IF untrusted = 0 THEN Client ELSE Proxies[untrusted]
=============================================================================

# Verification of tolo-service-gateway

TLA+ models of the gateway in `src/`, with TLC configurations and TLAPS proofs.
The gateway is a Go process in front of a set of Connect/gRPC services. Clients
come in through a *public* listener with an external token of an identity
provider (IdP); services call each other through an *internal* listener. The
gateway checks every call against tables fixed at the start, exchanges the
credential for a short-lived internal token addressed to the destination,
forwards the call and leaves one audit record.

## The system: inventory

| component | state | operations | what makes it correct |
|---|---|---|---|
| `externaltoken.KeySet` | cached JWKS, expiry, times of the last refresh and failure, one singleflight | `Key`, `refresh` with retries, `store`, `recordFailure`, `lookup` | served keys and "unknown" verdicts are not staler than the TTL or the cooldown; cooldowns have a cause; calls return |
| `externaltoken.Introspector` | bounded cache of answers by jti, a singleflight per jti | `Active`, `introspect`, `store`, `evict` | revocation takes effect in bounded time; failures are not answers; the bound holds |
| `externaltoken.Verifier` | none | `Verify` | accepts what the IdP signed for this audience, within the leeway |
| `externaltoken.Discover`, `idp.Provider` | resolved metadata, verifier, introspector | `Run`, `Verify`, `Active`, `Ready` | outages are retried, misconfiguration ends the process |
| `registry` | table of procedures, fixed at the start | `Build`, `Load`, `CheckDestinations` | derives from each declared policy exactly whom it admits, or does not start |
| `edgepolicy`, `catalog` | table of edges, fixed at the start | `Build`, `Lookup` | only sound tables are accepted |
| `reissue.Reissuer` | none | `Reissue` | a chain keeps its user, grant, origin and txn; it ends |
| `token`, JWKS endpoint | signing and published keys, read once at the start | issue and verify internal tokens, publish the keys | lifetimes and claims of the three kinds of token; every valid token can be verified while keys are rotated and instances restart |
| `infra/connect` (pipeline, `authn`, `forward`) | one request each | admission on both listeners, forwarding, error translation, audit | only admissible calls reach a destination, and all of those do; one truthful audit record |
| `cmd/server` | goroutines, two channels, servers | start, `select`, shutdown | no leaked sends, orderly drain, bounded stop |
| `config` | none | `Load` with its parsers | what it accepts can be built and is used; nothing is turned off unasked |
| `httpapi` (health, readiness) | the registered checks | `Register`, `/healthz`, `/readyz` | ready means that the IdP is resolved |
| `sourceip` | none | `sourceIP` | clients cannot choose the address they are recorded with |
| `logging`, `audit` | per handler, the calls it was derived by | `WithAttrs`, `WithGroup`, `Handle`, `Emit` | an entry has its own logger's attributes, and the fields Cloud Logging reads are the handler's |
| `telemetry` | the tracing pipeline | `Setup`, shutdown | spans are flushed however the process ends |

How they interact: `cmd/server` builds the tables, starts a goroutine for
`Provider.Run` and one per listener. Every public request calls
`Provider.Verify` (and through it `KeySet.Key`) and, for procedures with an
introspection override, `Provider.Active` (`Introspector.Active`); these two
caches are the only state that requests share. Every internal request calls
`Reissuer.Reissue`, which reads the edge table and the claims of the context it
is shown: the tokens themselves are the only memory between the hops of a chain.
A destination may call back through the internal listener while its public
request is in flight, which is why the order of the shutdown matters.

What is hard: callers racing into a singleflight after a decision taken under a
mutex that has been released; a flight that runs under the context of one of its
callers; values stamped on arrival rather than on sending; the cache at its
limit; claims that must survive several hops with nothing but the claims to go
by; ends of a request at any stage (refusal, protocol error, panic, client gone,
destination silent); two documents fetched one after the other from an IdP that
changes; sends into channels that nobody may read any more; listeners shut down
one after the other under one deadline; instances with different key sets during
a rotation, and copies of the JWKS of two ages; a configuration that is validated
in several places, some of them after the process has begun to serve; slices
shared by loggers that are derived from one another. `PROJECT.json` lists these hazards with
their lines and the properties aimed at them.

## The modules

`KeySet` — `externaltoken/keyset.go`. The mutex-protected fields are the
variables `keys`, `expiry`, `lastRefresh`, `lastFailure`; a document is the set
of kids that `parseJWKS` makes of it. A caller goes through `Key` (up to the
release of the mutex in `cached`), `Lead` or `Join` (`group.Do`), and `lookup`.
The flight goes through attempts (`ServeDocument`, `store`,
`LoadFailsTransiently`, `LoadFailsPermanently`), `Retry` and `AbandonRetry`
(`waitFor`) and `CompleteFlight`. Each of these is one critical section or one
wait of the code. Time is a discrete clock. `published`, `withdrawnAt`,
`addedAt`, `rotations` are the IdP; `withdrawnAt`, `addedAt` and `lastFault` are
history the properties speak of.

`KeyLookup` is the abstract specification of it: calls that are each answered once,
about their own kid, with no cache, cooldowns or flights; answers given at once may
be as old as the cache or the cooldown allow, and an answer that was waited for may
not. `ImplementsLookup` states, by `INSTANCE ... WITH`, that `KeySet` implements it.

`Introspection` — `externaltoken/introspection.go`, in the same style: `Active`,
`Do`, the second look at the cache inside the flight (`Recheck`), `Answer` or
`IntrospectFails`, `store` with `entryExpiry` and `evict`, `Complete`. A flight
runs under the context of the caller that opened it; the end of that context is
one of the causes of `IntrospectFails`, which needs no more state because a
failure is never stored. `evict` leaves open which of several entries of equal expiry
goes, as the iteration over a Go map does. `introspect` compares the jti of active
answers only; an inactive one is taken as it is, and the IdP of the model answers
about the token it was asked about. If it did not, a good token would be refused for
the TTL, never a revoked one let in.

`RevocationCheck` is the abstract specification of it: calls that are each
answered once, with what the IdP would have said at some moment of a window, or
with unavailable; no cache, no flights. `ImplementsCheck` states, by
`INSTANCE ... WITH`, that `Introspection` implements it; the refinement mapping
forgets where in a flight a caller stands. The window is what `Gateway` assumes of
an answer when it lets the introspection of a token end either way.

`EdgePolicy` — `edgepolicy.Build`, `Lookup` and the decision of
`reissue.Reissue` as operators. `ServiceChain` extends it with the internal
tokens in circulation: `Exchange` (public listener), `ContextCall` and
`DeclaredCall` (internal listener). The records of tokens are their claims plus
history fields. The token library is not in the repository; the operators
`Issue…` and `Verify` are marked external and say what `token/issuer.go` and
`token/resolver.go` rely on. `Catalog` is `catalog.Edges`, with the registry
entries of every procedure that accepts a service and of one per destination and
kind of external token.

`Registry` — `registry.Build`, the destinations and `forward`'s coverage check,
as operators over a deployment record. `Gateway` extends it with one request:
`pc` is the stage, `record` the audit record, `answer` what the client gets.
`Policy == INSTANCE EdgePolicy WITH Entries <- EntriesOf(deployment)` composes
the pipeline with the decision of the `Reissuer` over the entries the registry
derives. One request is enough here: requests share nothing but the two caches,
whose answers are nondeterministic in `Gateway` within what `KeySet` and
`Introspection` establish (a verdict, or unavailable, in bounded time). The claims
of a bearer that `readClaims` and `readBinding` demand (`sub`, `client_id`, `scope`,
`jti`, the tenant or event of the token use, the shape of `cnf`) are one field,
`wellFormed`: a token without one of them is refused whatever the policy asks for.
An admitted request goes through `handle`, where the RPC library reads the client's
message, `upstream`, and `send`, where it writes the answer; in the first and the
last the gateway waits for its client (`Converse`), in all others it does not
(`Serve`).

`Lifecycle` — `cmd/server/main.go`, `idp.Provider.Run` and
`externaltoken.Discover`. One action per step of a goroutine: the two fetches of
a discovery, the wait between attempts, the sends into `idpErr` and `serveErr`,
`select`, the closing and the draining of each listener, the deadline. It
assumes that `IDP_ISSUER` is set; without it there is no provider goroutine.

`SigningKeys` — the keys of the internal tokens over time: the check of the key
IDs (`parsePublishedKeys`), the key set an instance reads when it starts
(`token/issuer.go`; it is never read again, because `RefreshInterval` is 0), the
resolution of a kid (`LocalKeyResolver.Key`), and the JWKS endpoint with its
`Cache-Control` and `ETag` (`httpapi/jwks.go`). Around it are the instances, which
crash and start at any time with any deployment not yet drained, and with slips
of the operator in the published list; an operator who rotates in the three steps
of `docs/service_gateway_spec.md`; a shared HTTP cache; and destinations that
verify with the copy they have. Times count down, so that nothing bounds the
number of rotations.

`Config` — every parser of `config.go` as an operator that returns what it accepts
or `Invalid`, and `Load`, which puts them together. `SourceIP` —
`connect/sourceip.go`, likewise. `Startup` extends both: `run` step by step, from
an environment to the first requests, with the deferred flush of the tracing
pipeline, the second validation of the configuration by `idp.New`, `Discover`,
`NewVerifier` and `NewIntrospector`, the readiness checks, and requests that pass
through proxies which append to `X-Forwarded-For`. `Lifecycle` takes over where
the goroutines run.

`Logging` — `logging/handler.go` and `audit.Emit`. Slices are modelled as Go has
them, a length and an array that may be shared, since the question is whether
loggers derived from one logger get in each other's way. What `slog`'s JSON
handler does with groups and attributes is external. `Log` is a record of the
process, subject to `LOG_LEVEL`; `Emit` is one of the audit emitter, whose own logger
is at INFO whatever `LOG_LEVEL` says.

`MC*` modules give the constants of the TLC runs and define symmetry;
`*Proofs` modules hold the theorems. Definitions whose name is that of another
definition with a suffix (`evict_Latest`, `Drain_NoDeadline`), commented as mutants,
are plausible bugs: no specification uses them, and each property is known to
fail when one of them is put in the place of its original. `StartIsSound`, which has
several parts, has one for each part but the types.

## Runs

| run | question | bounds |
|---|---|---|
| `keyset` | how stale an answer of `Key` can be, what starts a cooldown, who may fetch inside one, whether every call returns; the refinement of `KeyLookup` | 2 callers, 1 kid that comes or goes, TTL 2, refresh cooldown 2, failure cooldown 1, 2 attempts, 1 cancellation, clock to 4: a document can be stored, expire and be replaced, with a caller on each side |
| `keyset_cancel` | a finding, below | 3 callers |
| `introspection` | how late a revocation takes effect, whether failures pass for answers, whether a question is asked twice, what is evicted, whether every call returns; the refinement of `RevocationCheck` | 2 callers, 2 tokens for 1 entry, expiries inside and beyond the TTL, leeway larger than the timeout, 1 revocation |
| `introspection_readme` | a finding, below | timeout 2 |
| `service_chain` | what the claims guarantee over several hops | every pair of edges of four kinds between two services, 3 tokens, 2 users, 2 grants, forged contexts; two hops are what it takes to lose or swap a user |
| `service_chain_catalog` | how long the deployed edges let a chain become | the catalogue's twelve edges, 3 tokens, a lifetime long enough for a second hop to start after the external token has expired |
| `gateway` | whom the pipeline lets through and what it records | every level, list of token uses and scopes; overrides, edges, switches; 19 bearer tokens, two of them malformed, and the combinations of credentials; both listeners |
| `lifecycle` | shutdown, channels, what is fatal; the process stops when it must and becomes ready when it can | 2 listeners, 1 request that calls back, an IdP that changes once, in any of six ways |
| `lifecycle_readme` | a finding, below | an IdP whose metadata is always sound or absent |
| `signing_keys` | whether a rotation or a restart makes a valid token unverifiable, how long a removed key is trusted | 2 public instances and an internal one, a destination, 2 kids, 2 keys, every time 1 and the operator's waits the least that are allowed: with longer waits less can go wrong; unbounded rotations |
| `startup` | what the process makes of its environment | the listeners' variables, the keys', the IdP's and the process's, each group in every combination of the kinds of values while the others are sound; two proxies, up to two trusted |
| `logging` | what an entry contains | 3 derived loggers, five lists of attributes that collide with the handler's keys, a group, two spans, a threshold above the level of the audit records |

Deadlock checking is off throughout: bounded clocks and bounded sets of
requests end, and a process that has returned does nothing more. Symmetry is used
only in runs without liveness properties.

What the passing runs show:

* `KeyFreshness`, `UnknownIsTruthful`: the bounds that hold are the TTL, or the
  refresh cooldown, *plus one attempt*, because `store` stamps the document when
  it arrives. `CooldownHasACause`: a client that goes away starts no cooldown.
  `RefetchOnlyByEarlierDecision`: inside the cooldown only a caller that had
  decided before the document was stored fetches again (`KeySet.fetch` enters
  `group.Do` without a second look at the cache, so such a fetch does occur).
  `CallsReturn`. `ImplementsLookup`: whoever waited for a fetch is answered from a
  document asked for at most one attempt before the call, whichever flight stored
  it, and never from an old one after a failure.
* `RevocationDelay`, `ActiveWithinLifetime`: likewise TTL plus timeout.
  `NeverAskedTwice`: the second look at the cache closes the race that `KeySet`
  leaves open. `EvictsTheEarliest`: a full cache stays full, of the answers that
  last longest. `CallsReturn`. `ImplementsCheck`: nobody gets the answer about
  another token, and a failure is never taken for a revocation
  (`InactiveIsTruthful`).
* `UserChainIntact`, `OriginNeverChanges`, `TxnNamesTheChain`, `ChainConnected`,
  `DelegationEnds`: no sequence of calls, over any sound table of edges, makes a
  token speak for another user, lose its origin or its grant, or continue where
  it was not addressed; a chain outlives the external token by one lifetime per
  hop. `DelegationIsShort`: with the catalogue that is one hop for a user.
* `UpstreamOnlyAdmitted`, `RefusalsAreDeserved`: what reaches a destination is
  exactly what the declared policies, overrides and edges admit, in terms that do
  not mention what the registry derives. `AuditTellsTheAnswer`,
  `AuditNamesTheActors`: one record per RPC, naming nobody who was not verified.
  `ClientIsNotBlamed`: a destination that refuses the gateway's token does not
  look like a client without credentials, once the request was let in; at the door an
  outage of introspection does answer `unauthenticated` (`authn.go:167`).
  `EveryRequestEnds`: a request ends unless it waits for a client that is still
  there to send its message or take its answer; there is no timeout for that, since
  `httpapi.NewServer` sets `ReadHeaderTimeout` only. Nothing the IdP, a destination
  or a panic does holds a request.
* `CallBacksAreServed`, `DrainedOrExpired`, `SendsNeverBlock`,
  `OutageIsNotFatal`, `EventuallyReady`; `StopsWhenItMust`: a signal and metadata
  that cannot be used end the process, whatever its requests do.
* `ContextsVerify`, `DestinationsVerify`: whatever instances restart with, every
  running one resolves the key of every valid token, and every destination with a
  fresh copy finds that key and no other, if the operator waits for
  `max-age` plus the destinations' cache time before the switch and for the
  lifetime of a token before the removal; the 15 minutes and the "TTL + cache TTL"
  of `docs/service_gateway_spec.md` are longer. `RemovedKeysAreForgotten`.
* `LoadedConfigsBuild`: `config.Load` refuses whatever `idp.New`, `Discover`,
  `NewVerifier` and `NewIntrospector` would refuse of a configuration; key files and
  the destinations file are read later and may still end the start. `RevocationIsOffOnlyOnRequest`, `SettingsTakeEffect` (up to the settings
  `NoEffect` lists), `SourceIsNotForged`. `StartIsSound` has named parts: the type
  invariant, `ListenersFit`, `KeyIDsAreUnique`, `TracesAreFlushed`,
  `ReadyIsTruthful`.
* `EntriesAreFaithful`, `CloudFieldsAreTheHandlers`: no order of
  derivations mixes two loggers, no attribute takes the place of the time, the
  severity, the message or the trace of an entry, and an audit record is filed
  under the trace it names (`AuditTracesAgree`). This is about attributes with a
  key. A group with an empty key, whose members `slog` puts at the level of the
  group itself, is not in the instance: `isReserved` does not look inside one, so a
  reserved key could get to the top level that way; no call in the repository
  makes such a group.

### Where the code and its documents disagree

* `keyset_cancel`: `refresh` runs under the context of the caller that leads the
  flight. If its client goes away, every follower is answered
  `verifier_unavailable` although the IdP failed nothing.
* `introspection_readme`: `README.md` says a revocation takes effect within the
  60 seconds answers are cached for; the timeout of one request comes on top.
* `lifecycle_readme`: an IdP that moves its `jwks_uri` between the two requests of
  a discovery ends the process, although everything it published is sound;
  `README.md` reserves that for misconfiguration.

## Fairness

Weak fairness only, of what the Go scheduler and the clock guarantee: goroutines
that can run do (`Flight`, `Caller`, `Do`, `Serve`, `Run`, `Main`,
`SendServeErr`), and deadlines pass (`Expire`; the end of an attempt in
`Flight`; `UpstreamDeadline` in `Serve`, because `withUpstreamDeadline` gives
every call one). Nothing is assumed of the IdP, the destinations, the clients or
the operator: a flight may always fail, a destination may never answer, a
request may never end. A client may stall its message or not take its answer:
`Converse` has no fairness, and only a connection that is lost (`ClientLost`) ends
such a wait.

## Proofs

Every invariant, action property and refinement that a passing run checks is also
proved, for every value of the constants that satisfies the named assumptions:
`KeySetAssumption`, `IntrospectionAssumption`, `ServiceChainAssumption`,
`LifecycleAssumption`, `SigningKeysAssumption` (positive durations, placeholders
outside the sets they stand beside, the modes of the listeners, the operator's
waits), `GatewayAssumption` (bearer tokens and headers are records of their kind;
the lists of edges are sequences; a request that names no procedure is not bound),
`StartupAssumption` (an environment says of each variable what it is set to; a file
that is named and read is not an unset one; the proxies are a sequence of addresses
that the client is not among) and `LoggingAssumption` (lists of attributes with
keys, a threshold that `ParseLevel` knows, no caller's group called like the audit
emitter's).

* `KeySetProofs`: `TypeCorrect`, `ServedKeysAreFresh`, `UnknownKeysAreTruthful`,
  `CooldownsHaveACause`, `RefetchesAreDecidedEarlier`, `KeySetImplementsLookup`. The
  inductive invariant `IInv` adds to the promises what the flight's document and the stored one say
  about the IdP (`DocumentInv`, `KeysInv`: a *snapshot* of what was published at
  some time since the request), how the times are ordered (`ClockInv`), that a
  caller about to look up started before the document was stored
  (`CallerInv`), and why a caller decided to fetch (`DecisionInv`). Without the
  snapshot the answers say nothing about the IdP; without the order of the times
  the bounds do not add up. In the refinement of `KeyLookup`, `Key` maps to a call
  with or without its answer, `lookup` to an answer, a flight that fails to the
  answer of all who wait, all else to a stutter.
* `IntrospectionProofs`: `TypeCorrect`, `RevocationIsTimely`,
  `AnswersEndWithTheToken`, `InactiveAnswersAreTruthful`, `AskedOncePerAnswer`,
  `CacheStaysBounded`, `EvictionIsExact`. `IInv` adds what every cache entry
  (`EntryInv`) and every verdict on its way (`VerdictInv`) say about the token, and
  that the cache is finite, so that its cardinality can be reasoned about.
  `EvictionIsExact` is an action property; it needs that a flight stores only what
  was not in the cache.
  `IntrospectorImplementsCheck` is the refinement of `RevocationCheck`: the first
  look at the cache maps to a call with or without its answer, `Complete` to the
  joint answer of everyone in the flight, all else to a stutter; the invariant
  yields the moment at which the IdP would have given the answer (`AMoment`).
* `ServiceChainProofs`: `TypeCorrect`, `UserChainsAreIntact`,
  `OriginsNeverChange`, `TxnsNameTheChains`, `ChainsAreConnected`,
  `DelegationsEnd`, for any number of services, edges, users and tokens. The
  properties compare a token with the root of its chain, which a step does not
  see; `RootInv` carries what the root looks like from every token, `ShapeInv`
  what entry tokens and machine tokens look like, `FreshInv` and `UniqueInv` that
  identifiers are drawn once. How short chains are is a matter of the edges:
  `ShallowPoliciesDelegateShortly` shows it of every policy in which no edge takes a
  service's token for a user and none takes a machine's chain on from where another
  has taken it, `DelegationsAreShort` of the catalogue, which is such a policy.
* `LifecycleProofs`: `TypeCorrect`, `OutagesAreNotFatal`, `SendersNeverBlock`,
  `ProcessDrains`, `CallsBackAreServed`, for each mode of the listeners, any number
  of requests and anything an IdP may publish. `ListenerFacts` says what the
  three lists have in common, `ShutdownInvariant` which listeners are open, closed
  or drained at each position of the shutdown's loop; without it the order of the
  closing says nothing about a request that is still in flight.
* `SigningKeysProofs`: `TypeCorrect`, `ContextsAlwaysVerify`,
  `DestinationsAlwaysVerify`, `KeysAreForgotten`, for any number of instances,
  destinations, kids, keys and rotations. `RotationInv` is what each phase of a
  rotation establishes before the next: which deployments an instance can have
  (`RolloutInv`, `LoadedInv`), that a token of the old key has at most as long to
  live as the operator still has to wait (`LiveInv`), that a document without the
  next key has at most as long to stay (`DocumentInv`), and what documents with a
  removed key have left (`ForgottenInv`).
* `GatewayProofs`: `TypeCorrect`, `NothingElseReachesADestination`,
  `NoAdmissibleRequestIsBlamed`, `TheAuditTrailIsComplete`, `TheAuditTrailIsTrue`,
  `CredentialsAreAskedForAtTheDoor`, for every deployment the process starts with
  and every credential. Two parts: lemmas about the operators show that what
  `registry.Build` derives says the same as the declared policies, and that the
  checks of the stages together say the same as `Admissible`, which mentions neither
  the stages nor what is derived; the inductive invariant then carries what a stage
  has established to the next (`StageInv`, `AdmittedInv`) and to the answer and the
  record (`AnswerInv`, `EarlyInv`). Without the tables' soundness (`SoundTables`,
  from the start) two edges could decide differently about one call.
* `StartupProofs`: `ValidatorsNeverDisagree`, `RevocationChecksAreNotLost`,
  `StartsAreSound`, `TheSourceIsTheClients`, `NoSettingIsIgnored`, for every set of
  environments and any number of proxies. Lemmas say what an accepted configuration
  has in common with its environment, variable by variable, and what the last
  elements of a header are after each proxy has added to it. `IInv` is what holds at
  each step of `run` (`Loaded`, `Built`, `Progress`) and along the way of a request
  (`Forwarded`, `Recorded`): the header ends with the peers of the proxies passed so
  far, which the address finally picked out of it does not show.
* `LoggingProofs`: `EntriesAreTheCallers`, `HandlerFieldsAreItsOwn`, for every tree of
  loggers, every list and every span. `IInv` says that the slice of each handler
  holds its operations and that these mirror, one for one, the calls it was derived
  by (`Mirrored`), and that an entry has the handler's fields and those asked for
  (`Filed`). The lemmas below it are about fields: operations before the first
  group leave the groups open later as they are (`SameGroups`), and no attribute,
  renamed or in a group, has the path and the key of a field of the handler
  (`AskedIsForeign`).

The prover cannot instantiate the library's induction theorems. Where a proof needs
induction over a number (the open groups of a logger, the values of a header), it
is induction on the set of the numbers that have the property (`SetInduction`,
from the well-foundedness of the order).

The type invariants of `KeySet`, `Introspection`, `ServiceChain`, `Lifecycle`,
`SigningKeys` and `Gateway`, `InactiveIsTruthful` and `CacheBounded` are proved, and the runs do not
check them again.

Only model-checked: the liveness properties (`CallsReturn` of `KeySet` and of
`Introspection`, `EveryRequestEnds`, `StopsWhenItMust`, `EventuallyReady`), since
fairness and `ENABLED` are out of the prover's reach, and the three findings, which are
counterexamples.

## Abstractions

A document is a set of kids and a JWK is decoded or not; grants stand for scope,
tenant and event, which are copied together; times are small numbers; messages,
headers and details of errors are left out. Texts in `Config` are names, and what
`strconv`, `net/url` and the file system make of them are constants; a header is
the sequence of its values. The bounds on the clock, on
rotations, cancellations, revocations, tokens and changes of the IdP
(`MaxTime`, `MaxRotations`, `MaxCancels`, `MaxRevoked`, `MaxIssued`,
`MaxChanges`, `MaxHandlers`) limit the environment, never the gateway; the theorems hold for
every value of them. `SigningKeys` needs no bound.

## Not modelled

* Generated forwarders and their generator: one line per procedure, and a tool of
  the build; that the forwarders cover the bindings is `checkCoverage`.
* Signing, JWK decoding and the HTTP and RPC libraries: outside the repository,
  or pure conversions.
* The reading of the destinations file and the syntax of its URLs
  (`LoadDestinations` keeps that there are destinations and that they have names),
  and what makes `telemetry.Setup` fail: each keeps the process from starting, which
  `Startup` allows at that step.
* `fakeidp`, `testbackend` and their commands: services for local runs. What the
  gateway relies on in an IdP or a destination is the environment of `KeySet`,
  `Introspection`, `Lifecycle` and `Gateway`.
* `/healthz`, which always answers 200, and the routing, which is `net/http`'s.
* The export of spans and the source locations of log entries.

## Plan

Done, in this order: the state that requests share (`KeySet`, `Introspection`),
the claims that travel (`EdgePolicy`, `ServiceChain`, `Catalog`), the pipeline that
uses both (`Registry`, `Gateway`), the process around it (`Lifecycle`), the keys
over restarts (`SigningKeys`), the start (`Config`, `SourceIP`, `Startup`), the log
(`Logging`), and the proofs of all safety properties and of both refinements.

Next: `Gateway` lets a verdict on a key or on a revocation be anything within what
`KeyLookup` and `RevocationCheck` allow; a module that composes a request with both
would show end to end how late a revoked token or a withdrawn key can still reach a
destination.

----------------------------- MODULE Lifecycle -----------------------------
(***************************************************************************)
(* The life of the gateway process: main.run and idp.Provider.Run.         *)
(*                                                                         *)
(* Once configured, the process runs a goroutine per listener, one that    *)
(* resolves the IdP's metadata, and main, which waits for the first of     *)
(* them to fail or for a signal and then shuts the listeners down one      *)
(* after the other under one deadline.  A request that came in through the *)
(* public listener may make its destination call back through the internal *)
(* one.                                                                    *)
(*                                                                         *)
(* Metadata is a record: the IdP answers ("ok"), does not ("down"), or     *)
(* answers with what is no metadata document ("garbage"); the issuer is    *)
(* the configured one or another; uri is jwks_uri; endpoint tells whether  *)
(* there is an introspection_endpoint.                                     *)
(***************************************************************************)
EXTENDS Naturals, Sequences, FiniteSets

CONSTANTS
    Listeners,      \* config.Listeners, a sequence
    Requests,       \* requests that may arrive
    Metadata,       \* what the IdP may publish
    Introspection,  \* "required" or "disabled"
    NoDocument,     \* no document fetched yet
    MaxChanges      \* bound on the IdP's changes

Names == {Listeners[i] : i \in DOMAIN Listeners}

ASSUME LifecycleAssumption ==
    /\ Listeners \in {<<"public", "internal">>, <<"public">>, <<"internal">>}
    /\ Introspection \in {"required", "disabled"}
    /\ NoDocument \notin Metadata
    /\ MaxChanges \in Nat

VARIABLES
    metadata,  \* what the IdP publishes now
    changes,   \* how often that has changed
    seen,      \* history: everything the IdP has published
    provider,  \* where Provider.Run stands
    openID,    \* the first of the two documents Discover fetches
    idpErr,    \* messages in the channel idpErr
    signaled,  \* "yes" once the process has got its signal
    server,    \* the state of each http.Server
    serving,   \* where the goroutine of each listener stands
    serveErr,  \* messages in the channel serveErr
    main,      \* where run stands
    step,      \* the listener shutdown is at
    cause,     \* the channel select took
    deadline,  \* the context of shutdown
    req,       \* the listener a request is in flight at, "none" or "done"
    nested     \* the call back a request has caused

idpVars == <<metadata, changes, seen>>
providerVars == <<provider, openID, idpErr>>
serverVars == <<server, serving, serveErr>>
mainVars == <<main, step, cause, deadline>>
requestVars == <<req, nested>>
vars == <<idpVars, providerVars, signaled, serverVars, mainVars, requestVars>>

TypeOK ==
    /\ metadata \in Metadata
    /\ changes \in 0..MaxChanges
    /\ seen \in SUBSET Metadata
    /\ provider \in {"openid", "authserver", "wait", "failed", "resolved", "stopped", "reported"}
    /\ openID \in Metadata \cup {NoDocument}
    /\ idpErr \in {0, 1}
    /\ signaled \in {"no", "yes"}
    /\ server \in [Names -> {"listening", "failed", "closed"}]
    /\ serving \in [Names -> {"serving", "sending", "ended"}]
    /\ serveErr \in 0..Len(Listeners)
    /\ main \in {"select", "close", "drain", "returned"}
    /\ step \in 1..(Len(Listeners) + 1)
    /\ main \in {"close", "drain"} => step \in DOMAIN Listeners
    /\ cause \in {"none", "serve", "idp", "signal"}
    /\ deadline \in {"none", "armed", "expired"}
    /\ req \in [Requests -> Names \cup {"none", "done"}]
    /\ nested \in [Requests -> {"none", "running", "done", "refused"}]

Init ==
    /\ metadata \in Metadata
    /\ changes = 0
    /\ seen = {metadata}
    /\ provider = "openid"
    /\ openID = NoDocument
    /\ idpErr = 0
    /\ signaled = "no"
    /\ server = [l \in Names |-> "listening"]
    /\ serving = [l \in Names |-> "serving"]
    /\ serveErr = 0
    /\ main = "select"
    /\ step = 1
    /\ cause = "none"
    /\ deadline = "none"
    /\ req = [r \in Requests |-> "none"]
    /\ nested = [r \in Requests |-> "none"]

-----------------------------------------------------------------------------
(* The IdP and Provider.Run.                                               *)

Publish(m) ==
    /\ changes < MaxChanges
    /\ m # metadata
    /\ metadata' = m
    /\ changes' = changes + 1
    /\ seen' = seen \cup {m}
    /\ UNCHANGED <<providerVars, signaled, serverVars, mainVars, requestVars>>

\* fatal: not a document, or not one of this issuer.
Garbage(m) == m.answer = "garbage"
Mismatch(m) == m.answer = "ok" /\ m.issuer # "configured"

\* checkMetadata on the two documents, fetched one after the other.  A document of
\* another issuer stands for every one that checkDocument and checkEndpoint refuse,
\* an endpoint that is missing or no HTTP URL included.
checkMetadata(openID_, authorizationServer) ==
    /\ ~Mismatch(openID_)
    /\ ~Mismatch(authorizationServer)
    /\ openID_.uri = authorizationServer.uri

\* newIntrospector: introspection is configured and there is no endpoint.
NoIntrospector(m) == Introspection = "required" /\ m.endpoint = "none"

\* Mutant: an outage is fatal.
FetchOpenID_OutageFatal ==
    /\ provider = "openid"
    /\ \/ /\ metadata.answer = "ok"
          /\ provider' = "authserver" /\ openID' = metadata
       \/ /\ metadata.answer # "ok"
          /\ provider' = "failed" /\ UNCHANGED openID
    /\ UNCHANGED <<idpVars, idpErr, signaled, serverVars, mainVars, requestVars>>

\* A document is fetched, or the fetch fails and is tried again later, or what
\* was fetched ends Run.  A signal ends a fetch the way an outage does.
FetchOpenID ==
    /\ provider = "openid"
    /\ \/ /\ metadata.answer = "down" \/ signaled = "yes"
          /\ provider' = "wait" /\ UNCHANGED openID
       \/ /\ metadata.answer = "ok"
          /\ provider' = "authserver" /\ openID' = metadata
       \/ /\ Garbage(metadata)
          /\ provider' = "failed" /\ UNCHANGED openID
    /\ UNCHANGED <<idpVars, idpErr, signaled, serverVars, mainVars, requestVars>>

\* The second document, the checks on both, and resolve.
FetchAuthorizationServer ==
    /\ provider = "authserver"
    /\ \/ /\ metadata.answer = "down" \/ signaled = "yes"
          /\ provider' = "wait"
       \/ /\ metadata.answer = "ok"
          /\ provider' = IF checkMetadata(openID, metadata) /\ ~NoIntrospector(metadata)
                         THEN "resolved" ELSE "failed"
       \/ /\ Garbage(metadata)
          /\ provider' = "failed"
    /\ openID' = NoDocument
    /\ UNCHANGED <<idpVars, idpErr, signaled, serverVars, mainVars, requestVars>>

\* Mutant: Run gives up after the first outage.
Wait_GivesUp ==
    /\ provider = "wait"
    /\ provider' = "stopped"
    /\ UNCHANGED <<idpVars, openID, idpErr, signaled, serverVars, mainVars, requestVars>>

\* After the delay Discover starts over; the end of the context ends Run.  With
\* both ready the select takes either.
Wait ==
    /\ provider = "wait"
    /\ \/ provider' = "openid"
       \/ signaled = "yes" /\ provider' = "stopped"
    /\ UNCHANGED <<idpVars, openID, idpErr, signaled, serverVars, mainVars, requestVars>>

\* The goroutine puts the error into its channel, which has room for one.
Report ==
    /\ provider = "failed"
    /\ idpErr < 1
    /\ provider' = "reported"
    /\ idpErr' = idpErr + 1
    /\ UNCHANGED <<idpVars, openID, signaled, serverVars, mainVars, requestVars>>

\* Ready: the metadata is resolved.  Nothing takes it back.
Ready == provider = "resolved"

Run == FetchOpenID \/ FetchAuthorizationServer \/ Wait \/ Report

-----------------------------------------------------------------------------
(* The listeners and their requests.                                       *)

Signal ==
    /\ signaled = "no"
    /\ signaled' = "yes"
    /\ UNCHANGED <<idpVars, providerVars, serverVars, mainVars, requestVars>>

\* A listener cannot be opened, or breaks.
ListenAndServeFails(l) ==
    /\ server[l] = "listening"
    /\ server' = [server EXCEPT ![l] = "failed"]
    /\ serving' = [serving EXCEPT ![l] = "sending"]
    /\ UNCHANGED <<idpVars, providerVars, signaled, serveErr, mainVars, requestVars>>

\* Mutant: room for one error, as in idpErr.
ServeErrCapacity_One == 1

\* The capacity of serveErr.
ServeErrCapacity == Len(Listeners)

\* The goroutine of a listener puts what ListenAndServe returned into serveErr.
SendServeErr(l) ==
    /\ serving[l] = "sending"
    /\ serveErr < ServeErrCapacity
    /\ serving' = [serving EXCEPT ![l] = "ended"]
    /\ serveErr' = serveErr + 1
    /\ UNCHANGED <<idpVars, providerVars, signaled, server, mainVars, requestVars>>

Accept(r, l) ==
    /\ main # "returned"
    /\ req[r] = "none"
    /\ server[l] = "listening"
    /\ req' = [req EXCEPT ![r] = l]
    /\ UNCHANGED <<idpVars, providerVars, signaled, serverVars, mainVars, nested>>

\* The destination of a public request calls another service through the
\* internal listener of this process.
CallBack(r) ==
    /\ main # "returned"
    /\ "internal" \in Names
    /\ req[r] = "public"
    /\ nested[r] = "none"
    /\ nested' = [nested EXCEPT ![r] =
            IF server["internal"] = "listening" THEN "running" ELSE "refused"]
    /\ UNCHANGED <<idpVars, providerVars, signaled, serverVars, mainVars, req>>

Return(r) ==
    /\ main # "returned"
    /\ nested[r] = "running"
    /\ nested' = [nested EXCEPT ![r] = "done"]
    /\ UNCHANGED <<idpVars, providerVars, signaled, serverVars, mainVars, req>>

Finish(r) ==
    /\ main # "returned"
    /\ req[r] \in Names
    /\ nested[r] # "running"
    /\ req' = [req EXCEPT ![r] = "done"]
    /\ UNCHANGED <<idpVars, providerVars, signaled, serverVars, mainVars, nested>>

InFlight(l) ==
    {r \in Requests : req[r] = l \/ (l = "internal" /\ nested[r] = "running")}

-----------------------------------------------------------------------------
(* main.                                                                   *)

\* select: the first message or the signal; of several, any.
Select ==
    /\ main = "select"
    /\ \/ /\ serveErr > 0
          /\ serveErr' = serveErr - 1 /\ cause' = "serve" /\ UNCHANGED idpErr
       \/ /\ idpErr > 0
          /\ idpErr' = idpErr - 1 /\ cause' = "idp" /\ UNCHANGED serveErr
       \/ /\ signaled = "yes"
          /\ cause' = "signal" /\ UNCHANGED <<serveErr, idpErr>>
    /\ main' = "close"
    /\ step' = 1
    /\ deadline' = "armed"
    /\ UNCHANGED <<idpVars, provider, openID, signaled, server, serving, requestVars>>

\* Mutant: all listeners are closed at once.
CloseListener_All ==
    /\ main = "close"
    /\ main' = "drain"
    /\ server' = [l \in Names |-> "closed"]
    /\ serving' = [l \in Names |-> IF serving[l] = "serving" THEN "sending" ELSE serving[l]]
    /\ UNCHANGED <<idpVars, providerVars, signaled, serveErr, step, cause, deadline,
                   requestVars>>

\* server.Shutdown closes the listener, which makes ListenAndServe return ...
CloseListener ==
    LET l == Listeners[step]
    IN  /\ main = "close"
        /\ main' = "drain"
        /\ server' = [server EXCEPT ![l] = "closed"]
        /\ serving' = [serving EXCEPT ![l] = IF @ = "serving" THEN "sending" ELSE @]
        /\ UNCHANGED <<idpVars, providerVars, signaled, serveErr, step, cause, deadline,
                       requestVars>>

\* Mutants: Close instead of Shutdown, and Shutdown without a deadline.
Drain_Close ==
    /\ main = "drain"
    /\ main' = IF step < Len(Listeners) THEN "close" ELSE "returned"
    /\ step' = step + 1
    /\ UNCHANGED <<idpVars, providerVars, signaled, serverVars, cause, deadline, requestVars>>

Drain_NoDeadline ==
    /\ main = "drain"
    /\ InFlight(Listeners[step]) = {}
    /\ main' = IF step < Len(Listeners) THEN "close" ELSE "returned"
    /\ step' = step + 1
    /\ UNCHANGED <<idpVars, providerVars, signaled, serverVars, cause, deadline, requestVars>>

\* ... and waits for its requests, or for the deadline, which all servers share.
Drain ==
    /\ main = "drain"
    /\ InFlight(Listeners[step]) = {} \/ deadline = "expired"
    /\ main' = IF step < Len(Listeners) THEN "close" ELSE "returned"
    /\ step' = step + 1
    /\ UNCHANGED <<idpVars, providerVars, signaled, serverVars, cause, deadline, requestVars>>

\* shutdownTimeout passes.
Expire ==
    /\ main \in {"close", "drain"}
    /\ deadline = "armed"
    /\ deadline' = "expired"
    /\ UNCHANGED <<idpVars, providerVars, signaled, serverVars, main, step, cause, requestVars>>

Main == Select \/ CloseListener \/ Drain

Next ==
    \/ \E m \in Metadata : Publish(m)
    \/ Run
    \/ Signal
    \/ \E l \in Names : ListenAndServeFails(l) \/ SendServeErr(l)
    \/ \E r \in Requests :
        \/ \E l \in Names : Accept(r, l)
        \/ CallBack(r) \/ Return(r) \/ Finish(r)
    \/ Main
    \/ Expire

Spec == Init /\ [][Next]_vars

\* The goroutines run and the clock goes on.  Nothing is assumed of the
\* requests, the IdP, the listeners and the operator.
FairSpec ==
    /\ Spec
    /\ WF_vars(Run) /\ WF_vars(Main) /\ WF_vars(Expire)
    /\ \A l \in Names : WF_vars(SendServeErr(l))

-----------------------------------------------------------------------------
(* What the process promises.                                              *)

\* During a shutdown a public request in progress can still make its call back:
\* the internal listener is closed only after the public one has drained, so
\* a call back is refused only when the deadline has passed or the internal
\* listener has failed by itself.
CallBacksAreServed ==
    [][\A r \in Requests :
        nested[r] # "refused" /\ nested'[r] = "refused" =>
            deadline = "expired" \/ server["internal"] = "failed"]_vars

\* run returns while a request is in flight only when the deadline has passed.
DrainedOrExpired ==
    main = "returned" =>
        deadline = "expired" \/ \A l \in Names : InFlight(l) = {}

\* No goroutine of a listener is left blocked on its channel, whoever reads it.
SendsNeverBlock ==
    \A l \in Names : serving[l] = "sending" => serveErr < ServeErrCapacity

\* The metadata of the IdP disagrees with the configuration.
Unsound(m) == Garbage(m) \/ Mismatch(m) \/ (m.answer = "ok" /\ NoIntrospector(m))

\* An outage of the IdP, however long, never ends the process: it takes metadata
\* that is unsound or that has moved to another jwks_uri.
OutageIsNotFatal ==
    cause = "idp" =>
        \/ \E m \in seen : Unsound(m)
        \/ \E m, n \in seen : m.answer = "ok" /\ n.answer = "ok" /\ m.uri # n.uri

\* A signal ends the process, whatever its requests do, and so does metadata that
\* cannot be used: the error of discovery reaches main.
StopsWhenItMust == (signaled = "yes" \/ provider = "failed") ~> (main = "returned")

\* With an IdP that publishes sound metadata for good, the gateway becomes ready,
\* whatever the IdP did before, unless the process is stopped.
EventuallyReady ==
    (<>[](metadata.answer = "ok")) => <>(Ready \/ main # "select")

\* README.md: the process ends by itself when the metadata disagrees with the
\* configuration; other failures are tried again.
OnlyMisconfigurationIsFatal ==
    cause = "idp" => \E m \in seen : Unsound(m)
=============================================================================

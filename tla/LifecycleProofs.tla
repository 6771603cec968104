-------------------------- MODULE LifecycleProofs --------------------------
(***************************************************************************)
(* The safety properties of Lifecycle for every number of requests, every  *)
(* metadata an IdP may publish however often, and each of the listener     *)
(* modes.                                                                  *)
(***************************************************************************)
EXTENDS Lifecycle, TLAPS

-----------------------------------------------------------------------------
(* The listeners.                                                          *)

\* The three lists of listeners: positions, names and their number.
LEMMA ListenerFacts ==
    /\ Len(Listeners) \in {1, 2}
    /\ DOMAIN Listeners = 1..Len(Listeners)
    /\ Names \subseteq {"public", "internal"}
    /\ \A i \in DOMAIN Listeners : Listeners[i] \in Names
    /\ \A i, j \in DOMAIN Listeners : Listeners[i] = Listeners[j] => i = j
    /\ \A l \in Names : \E i \in DOMAIN Listeners : Listeners[i] = l
    /\ {"public", "internal"} \subseteq Names => Listeners = <<"public", "internal">>
    /\ Len(Listeners) = 1 => \A k, l \in Names : k = l
<1>1. CASE Listeners = <<"public", "internal">>
    BY <1>1 DEF Names
<1>2. CASE Listeners = <<"public">>
    BY <1>2 DEF Names
<1>3. CASE Listeners = <<"internal">>
    BY <1>3 DEF Names
<1> QED BY <1>1, <1>2, <1>3, LifecycleAssumption

\* Every variable keeps its type: in particular the loop of shutdown stays within
\* the servers, and neither channel holds more than it has room for.
THEOREM TypeCorrect == Spec => []TypeOK
<1>1. Init => TypeOK
    BY ListenerFacts, LifecycleAssumption DEF Init, TypeOK
<1>2. TypeOK /\ [Next]_vars => TypeOK'
    <2> SUFFICES ASSUME TypeOK, [Next]_vars PROVE TypeOK'
        OBVIOUS
    <2> USE ListenerFacts, LifecycleAssumption
    <2>1. ASSUME NEW m \in Metadata, Publish(m) PROVE TypeOK'
        BY <2>1 DEF TypeOK, Publish, providerVars, serverVars, mainVars, requestVars
    <2>2. CASE FetchOpenID
        BY <2>2 DEF TypeOK, FetchOpenID, idpVars, serverVars, mainVars, requestVars
    <2>3. CASE FetchAuthorizationServer
        BY <2>3 DEF TypeOK, FetchAuthorizationServer, idpVars, serverVars, mainVars, requestVars
    <2>4. CASE Wait
        BY <2>4 DEF TypeOK, Wait, idpVars, serverVars, mainVars, requestVars
    <2>5. CASE Report
        BY <2>5 DEF TypeOK, Report, idpVars, serverVars, mainVars, requestVars
    <2>6. CASE Signal
        BY <2>6 DEF TypeOK, Signal, idpVars, providerVars, serverVars, mainVars, requestVars
    <2>7. ASSUME NEW l \in Names, ListenAndServeFails(l) PROVE TypeOK'
        BY <2>7 DEF TypeOK, ListenAndServeFails, idpVars, providerVars, mainVars, requestVars
    <2>8. ASSUME NEW l \in Names, SendServeErr(l) PROVE TypeOK'
        BY <2>8 DEF TypeOK, SendServeErr, ServeErrCapacity, idpVars, providerVars, mainVars,
                    requestVars
    <2>9. ASSUME NEW r \in Requests, NEW l \in Names, Accept(r, l) PROVE TypeOK'
        BY <2>9 DEF TypeOK, Accept, idpVars, providerVars, serverVars, mainVars
    <2>10. ASSUME NEW r \in Requests, CallBack(r) PROVE TypeOK'
        BY <2>10 DEF TypeOK, CallBack, idpVars, providerVars, serverVars, mainVars
    <2>11. ASSUME NEW r \in Requests, Return(r) PROVE TypeOK'
        BY <2>11 DEF TypeOK, Return, idpVars, providerVars, serverVars, mainVars
    <2>12. ASSUME NEW r \in Requests, Finish(r) PROVE TypeOK'
        BY <2>12 DEF TypeOK, Finish, idpVars, providerVars, serverVars, mainVars
    <2>13. CASE Select
        BY <2>13 DEF TypeOK, Select, idpVars, requestVars
    <2>14. CASE CloseListener
        BY <2>14 DEF TypeOK, CloseListener, idpVars, providerVars, requestVars
    <2>15. CASE Drain
        BY <2>15 DEF TypeOK, Drain, idpVars, providerVars, serverVars, requestVars
    <2>16. CASE Expire
        BY <2>16 DEF TypeOK, Expire, idpVars, providerVars, serverVars, requestVars
    <2>17. CASE UNCHANGED vars
        BY <2>17 DEF TypeOK, vars, idpVars, providerVars, serverVars, mainVars, requestVars
    <2> QED BY <2>1, <2>2, <2>3, <2>4, <2>5, <2>6, <2>7, <2>8, <2>9, <2>10, <2>11, <2>12,
               <2>13, <2>14, <2>15, <2>16, <2>17 DEF Next, Run, Main
<1> QED BY <1>1, <1>2, PTL DEF Spec

-----------------------------------------------------------------------------
(* The IdP.  A failure of Run goes back to a document that was published,  *)
(* and it is the only thing that reaches main through idpErr.              *)

\* Something published is unsound, or jwks_uri has moved.
Faulty ==
    \/ \E m \in seen : Unsound(m)
    \/ \E m, n \in seen : m.answer = "ok" /\ n.answer = "ok" /\ m.uri # n.uri

IdpInv ==
    /\ metadata \in seen
    /\ provider = "authserver" => openID \in seen /\ openID.answer = "ok"
    /\ provider \in {"failed", "reported"} => Faulty
    /\ idpErr > 0 \/ cause = "idp" => provider = "reported"

\* An outage of the IdP is never what ends the process, however often the IdP
\* changes and whatever it publishes.
THEOREM OutagesAreNotFatal == Spec => []OutageIsNotFatal
<1>1. Init => IdpInv
    BY DEF Init, IdpInv
<1>2. TypeOK /\ IdpInv /\ [Next]_vars => IdpInv'
    <2> SUFFICES ASSUME TypeOK, IdpInv, [Next]_vars PROVE IdpInv'
        OBVIOUS
    <2> USE DEF TypeOK, IdpInv, Faulty, Unsound, vars, idpVars, providerVars, serverVars,
            mainVars, requestVars
    <2>1. ASSUME NEW m \in Metadata, Publish(m) PROVE IdpInv'
        BY <2>1 DEF Publish
    <2>2. CASE FetchOpenID
        BY <2>2 DEF FetchOpenID, Garbage
    <2>3. CASE FetchAuthorizationServer
        BY <2>3 DEF FetchAuthorizationServer, Garbage, checkMetadata, Mismatch
    <2>4. CASE Wait
        BY <2>4 DEF Wait
    <2>5. CASE Report
        BY <2>5 DEF Report
    <2>6. CASE Signal
        BY <2>6 DEF Signal
    <2>7. ASSUME NEW l \in Names, ListenAndServeFails(l) PROVE IdpInv'
        BY <2>7 DEF ListenAndServeFails
    <2>8. ASSUME NEW l \in Names, SendServeErr(l) PROVE IdpInv'
        BY <2>8 DEF SendServeErr
    <2>9. ASSUME NEW r \in Requests, NEW l \in Names, Accept(r, l) PROVE IdpInv'
        BY <2>9 DEF Accept
    <2>10. ASSUME NEW r \in Requests, CallBack(r) PROVE IdpInv'
        BY <2>10 DEF CallBack
    <2>11. ASSUME NEW r \in Requests, Return(r) PROVE IdpInv'
        BY <2>11 DEF Return
    <2>12. ASSUME NEW r \in Requests, Finish(r) PROVE IdpInv'
        BY <2>12 DEF Finish
    <2>13. CASE Select
        BY <2>13 DEF Select
    <2>14. CASE CloseListener
        BY <2>14 DEF CloseListener
    <2>15. CASE Drain
        BY <2>15 DEF Drain
    <2>16. CASE Expire
        BY <2>16 DEF Expire
    <2>17. CASE UNCHANGED vars
        BY <2>17
    <2> QED BY <2>1, <2>2, <2>3, <2>4, <2>5, <2>6, <2>7, <2>8, <2>9, <2>10, <2>11, <2>12,
               <2>13, <2>14, <2>15, <2>16, <2>17 DEF Next, Run, Main
<1>3. IdpInv => OutageIsNotFatal
    BY DEF IdpInv, Faulty, OutageIsNotFatal
<1> QED BY <1>1, <1>2, <1>3, TypeCorrect, PTL DEF Spec

-----------------------------------------------------------------------------
(* serveErr.  Each goroutine sends once.                                   *)

Ended(l) == IF l \in Names /\ serving[l] = "ended" THEN 1 ELSE 0

SendInv ==
    /\ serveErr <= Ended("public") + Ended("internal")
    /\ \A l \in Names : server[l] = "listening" => serving[l] = "serving"

\* No goroutine of a listener ever blocks on its channel, whether or not run
\* still reads it.
THEOREM SendersNeverBlock == Spec => []SendsNeverBlock
<1>1. Init => SendInv
    BY DEF Init, SendInv, Ended
<1>2. TypeOK /\ SendInv /\ [Next]_vars => SendInv'
    <2> SUFFICES ASSUME TypeOK, SendInv, [Next]_vars PROVE SendInv'
        OBVIOUS
    <2> USE ListenerFacts DEF TypeOK, SendInv, Ended, vars, idpVars, providerVars,
                          serverVars, mainVars, requestVars
    <2>1. ASSUME NEW m \in Metadata, Publish(m) PROVE SendInv'
        BY <2>1 DEF Publish
    <2>2. CASE FetchOpenID
        BY <2>2 DEF FetchOpenID
    <2>3. CASE FetchAuthorizationServer
        BY <2>3 DEF FetchAuthorizationServer
    <2>4. CASE Wait
        BY <2>4 DEF Wait
    <2>5. CASE Report
        BY <2>5 DEF Report
    <2>6. CASE Signal
        BY <2>6 DEF Signal
    <2>7. ASSUME NEW l \in Names, ListenAndServeFails(l) PROVE SendInv'
        BY <2>7 DEF ListenAndServeFails
    <2>8. ASSUME NEW l \in Names, SendServeErr(l) PROVE SendInv'
        BY <2>8 DEF SendServeErr
    <2>9. ASSUME NEW r \in Requests, NEW l \in Names, Accept(r, l) PROVE SendInv'
        BY <2>9 DEF Accept
    <2>10. ASSUME NEW r \in Requests, CallBack(r) PROVE SendInv'
        BY <2>10 DEF CallBack
    <2>11. ASSUME NEW r \in Requests, Return(r) PROVE SendInv'
        BY <2>11 DEF Return
    <2>12. ASSUME NEW r \in Requests, Finish(r) PROVE SendInv'
        BY <2>12 DEF Finish
    <2>13. CASE Select
        BY <2>13 DEF Select
    <2>14. CASE CloseListener
        BY <2>14 DEF CloseListener
    <2>15. CASE Drain
        BY <2>15 DEF Drain
    <2>16. CASE Expire
        BY <2>16 DEF Expire
    <2>17. CASE UNCHANGED vars
        BY <2>17
    <2> QED BY <2>1, <2>2, <2>3, <2>4, <2>5, <2>6, <2>7, <2>8, <2>9, <2>10, <2>11, <2>12,
               <2>13, <2>14, <2>15, <2>16, <2>17 DEF Next, Run, Main
<1>3. TypeOK /\ SendInv => SendsNeverBlock
    BY ListenerFacts DEF TypeOK, SendInv, Ended, SendsNeverBlock, ServeErrCapacity
<1> QED BY <1>1, <1>2, <1>3, TypeCorrect, PTL DEF Spec

-----------------------------------------------------------------------------
(* shutdown.  The servers are closed in their order, and one is left only  *)
(* when it is idle or the deadline has passed; closed, it stays idle.      *)

Idle(l) == \A r \in Requests : req[r] # l /\ (l = "internal" => nested[r] # "running")

LEMMA IdleFacts == \A l : Idle(l) <=> InFlight(l) = {}
BY DEF Idle, InFlight

ShutdownInv ==
    /\ main = "select" => step = 1
    /\ main = "returned" => step = Len(Listeners) + 1
    /\ \A i \in DOMAIN Listeners :
        IF i < step
        THEN /\ server[Listeners[i]] = "closed"
             /\ deadline = "expired" \/ Idle(Listeners[i])
        ELSE server[Listeners[i]] = "closed" <=> i = step /\ main = "drain"

LEMMA ShutdownInvariant == Spec => [](TypeOK /\ ShutdownInv)
<1>1. Init => ShutdownInv
    BY ListenerFacts DEF Init, ShutdownInv
<1>2. TypeOK /\ ShutdownInv /\ [Next]_vars => ShutdownInv'
    <2> SUFFICES ASSUME TypeOK, ShutdownInv, [Next]_vars PROVE ShutdownInv'
        OBVIOUS
    <2> USE ListenerFacts DEF TypeOK, ShutdownInv, Idle, vars, idpVars, providerVars,
                          serverVars, mainVars, requestVars
    <2>1. ASSUME NEW m \in Metadata, Publish(m) PROVE ShutdownInv'
        BY <2>1 DEF Publish
    <2>2. CASE FetchOpenID
        BY <2>2 DEF FetchOpenID
    <2>3. CASE FetchAuthorizationServer
        BY <2>3 DEF FetchAuthorizationServer
    <2>4. CASE Wait
        BY <2>4 DEF Wait
    <2>5. CASE Report
        BY <2>5 DEF Report
    <2>6. CASE Signal
        BY <2>6 DEF Signal
    <2>7. ASSUME NEW l \in Names, ListenAndServeFails(l) PROVE ShutdownInv'
        BY <2>7 DEF ListenAndServeFails
    <2>8. ASSUME NEW l \in Names, SendServeErr(l) PROVE ShutdownInv'
        BY <2>8 DEF SendServeErr
    <2>9. ASSUME NEW r \in Requests, NEW l \in Names, Accept(r, l) PROVE ShutdownInv'
        BY <2>9 DEF Accept
    <2>10. ASSUME NEW r \in Requests, CallBack(r) PROVE ShutdownInv'
        BY <2>10 DEF CallBack
    <2>11. ASSUME NEW r \in Requests, Return(r) PROVE ShutdownInv'
        BY <2>11 DEF Return
    <2>12. ASSUME NEW r \in Requests, Finish(r) PROVE ShutdownInv'
        BY <2>12 DEF Finish
    <2>13. CASE Select
        BY <2>13 DEF Select
    <2>14. CASE CloseListener
        BY <2>14 DEF CloseListener
    <2>15. CASE Drain
        BY <2>15 DEF Drain, InFlight
    <2>16. CASE Expire
        BY <2>16 DEF Expire
    <2>17. CASE UNCHANGED vars
        BY <2>17
    <2> QED BY <2>1, <2>2, <2>3, <2>4, <2>5, <2>6, <2>7, <2>8, <2>9, <2>10, <2>11, <2>12,
               <2>13, <2>14, <2>15, <2>16, <2>17 DEF Next, Run, Main
<1> QED BY <1>1, <1>2, TypeCorrect, PTL DEF Spec

\* run returns only when all requests have been answered, those that were called
\* back for included, or the deadline has passed.
THEOREM ProcessDrains == Spec => []DrainedOrExpired
<1>1. TypeOK /\ ShutdownInv => DrainedOrExpired
    BY ListenerFacts, IdleFacts DEF TypeOK, ShutdownInv, DrainedOrExpired
<1> QED BY <1>1, ShutdownInvariant, PTL

\* A call back is refused only after the deadline, or when the internal listener has
\* failed by itself.
THEOREM CallsBackAreServed == Spec => CallBacksAreServed
<1> DEFINE A == \A r \in Requests :
                    nested[r] # "refused" /\ nested'[r] = "refused" =>
                        deadline = "expired" \/ server["internal"] = "failed"
<1>1. TypeOK /\ ShutdownInv /\ [Next]_vars => [A]_vars
    <2> SUFFICES ASSUME TypeOK, ShutdownInv, [Next]_vars,
                        NEW r \in Requests, nested[r] # "refused", nested'[r] = "refused"
                 PROVE  deadline = "expired" \/ server["internal"] = "failed"
        OBVIOUS
    <2>1. CallBack(r)
        BY DEF Next, TypeOK, Run, Main, Publish, FetchOpenID, FetchAuthorizationServer, Wait,
               Report, Signal, ListenAndServeFails, SendServeErr, Accept, CallBack, Return,
               Finish, Select, CloseListener, Drain, Expire, vars, idpVars, providerVars,
               serverVars, mainVars, requestVars
    <2>2. req[r] = "public" /\ server["internal"] # "listening" /\ "internal" \in Names
        BY <2>1 DEF CallBack, TypeOK
    <2>3. Listeners = <<"public", "internal">>
        BY <2>2, ListenerFacts DEF TypeOK
    <2>4. CASE server["internal"] = "closed"
        BY <2>2, <2>3, <2>4 DEF ShutdownInv, Idle, TypeOK
    <2> QED BY <2>2, <2>4 DEF TypeOK
<1> QED BY <1>1, ShutdownInvariant, PTL DEF Spec, CallBacksAreServed
=============================================================================

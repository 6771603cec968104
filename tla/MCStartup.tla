----------------------------- MODULE MCStartup -----------------------------
(* Startup on small instances. *)
EXTENDS Startup

Numbers == [t \in {"8080", "08080", "9090", "0", "65535", "65536", "1", "2", "16", "17", "-1", "x"} |->
    CASE t = "8080" -> 8080 [] t = "08080" -> 8080 [] t = "9090" -> 9090 [] t = "0" -> 0
      [] t = "65535" -> 65535 [] t = "65536" -> 65536 [] t = "1" -> 1 [] t = "2" -> 2
      [] t = "16" -> 16 [] t = "17" -> 17 [] t = "-1" -> -1 [] OTHER -> NotANumber]

Texts == [n \in {8080, 9090, 65535, 1, 2, 16, 17} |->
    CHOOSE t \in DOMAIN Numbers \ {"08080"} : Numbers[t] = n]

url(scheme, host, rest) == [scheme |-> scheme, host |-> host, rest |-> rest]

Issuers == [t \in {"gateway", "https://idp", "https://user@idp", "https://idp?q", "idp:opaque"} |->
    CASE t = "gateway" -> url(Unset, Unset, {})
      [] t = "https://idp" -> url("https", "idp", {})
      [] t = "https://user@idp" -> url("https", "idp", {"user"})
      [] t = "https://idp?q" -> url("https", "idp", {"query"})
      [] t = "idp:opaque" -> url("idp", Unset, {"opaque"})]

SecretFiles == [t \in {"good", "blank", "missing"} |->
    CASE t = "good" -> <<"s", "LF", "s", "CR", "LF">>
      [] t = "blank" -> <<"LF">>
      [] t = "missing" -> Unreadable]

entry(separated, kid, path) == [separated |-> separated, kid |-> kid, path |-> path]

PublishedLists ==
    {<<>>, <<entry(TRUE, "next", "f")>>, <<entry(TRUE, "k", "f")>>,
     <<entry(TRUE, "next", "f"), entry(TRUE, "old", "f")>>,
     <<entry(TRUE, "next", "f"), entry(TRUE, "next", "g")>>,
     <<entry(TRUE, "next", "f"), entry(FALSE, "old", Unset)>>,
     <<entry(TRUE, Unset, "f")>>, <<entry(TRUE, "old", Unset)>>}

Sound ==
    [mode |-> "split", publicPort |-> "8080", internalPort |-> "9090", port |-> Unset,
     retired |-> Unset, issuerID |-> "gateway", signingKeyFile |-> "f", signingKeyID |-> "k",
     publishedKeyFiles |-> <<>>, destinationsFile |-> "d", hops |-> Unset,
     idpIssuer |-> "https://idp", idpAudience |-> "a", idpAlgorithms |-> <<>>,
     introspection |-> Unset, clientID |-> "c", secretFile |-> "good", legacy |-> Unset,
     logLevel |-> Unset]

Ports == {Unset, "8080", "08080", "9090", "0", "65536", "x"}

\* The listeners' variables in every combination, the rest sound.
ListenerEnvironments ==
    {[Sound EXCEPT !.mode = m, !.publicPort = p, !.internalPort = i, !.port = q, !.retired = r] :
        m \in {Unset, "split", "public", "internal", "Split"}, p \in Ports, i \in Ports,
        q \in {Unset, "8080", "65535", "65536"}, r \in {Unset, "set"}}

\* The keys' variables in every combination.
KeyEnvironments ==
    {[Sound EXCEPT !.issuerID = s, !.signingKeyFile = f, !.signingKeyID = k,
                   !.publishedKeyFiles = l, !.destinationsFile = d] :
        s \in {Unset, "gateway", "https://idp"}, f \in {Unset, "f"}, k \in {Unset, "k"},
        l \in PublishedLists, d \in {Unset, "d"}}

\* The IdP's variables in every combination.
IDPEnvironments ==
    {[Sound EXCEPT !.idpIssuer = s, !.idpAudience = a, !.idpAlgorithms = g,
                   !.introspection = i, !.clientID = c, !.secretFile = f, !.legacy = l] :
        s \in {Unset} \cup DOMAIN Issuers, a \in {Unset, "a"},
        g \in {<<>>, <<"RS256">>, <<"ES256", "RS256">>, <<"RS256", "RS256">>, <<"none">>},
        i \in {Unset, "required", "disabled", "Disabled"}, c \in {Unset, "c"},
        f \in {Unset, "good", "blank", "missing"}, l \in {Unset, "enabled", "true"}}

ProcessEnvironments ==
    {[Sound EXCEPT !.hops = h, !.logLevel = l] :
        h \in {Unset, "0", "1", "2", "16", "17", "-1", "x"}, l \in {Unset, "info", "loud"}}

AllEnvironments ==
    ListenerEnvironments \cup KeyEnvironments \cup IDPEnvironments \cup ProcessEnvironments

\* What a client may have put into X-Forwarded-For.
ClientHeaders ==
    {<<>>, <<<<"forged">>>>, <<<<"text">>>>, <<<<"forged", "text">>>>,
     <<<<"text">>, <<"forged", "forged">>>>}

ProxyChain == <<"proxy1", "proxy2">>
=============================================================================

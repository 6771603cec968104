----------------------------- MODULE MCGateway -----------------------------
(* Gateway with one procedure under every kind of policy, called by every  *)
(* kind of client.                                                         *)
EXTENDS Gateway

MCPolicies ==
    [level : {"public", "internal", "authenticated", "unspecified"},
     tokenUses : {<<>>, <<"service">>, <<"event_access">>, <<"event_access", "service">>,
                  <<"event_access", "event_access">>, <<"guest">>},
     scopes : {{}, {"events.manage"}}]

MCEdge(uses, origins) ==
    [caller |-> "b", procedure |-> "p", tokenUses |-> uses, origins |-> origins]

MCEdgeLists ==
    {<<>>, <<MCEdge(<<"event_access">>, {"machine_chain"})>>,
     <<MCEdge(<<"service">>, {})>>, <<MCEdge(<<>>, {"new_machine"})>>}

MCSwitches ==
    {[idp |-> "yes", introspection |-> "yes", legacyScope |-> "no"],
     [idp |-> "yes", introspection |-> "no", legacyScope |-> "no"],
     [idp |-> "yes", introspection |-> "yes", legacyScope |-> "yes"],
     [idp |-> "no", introspection |-> "no", legacyScope |-> "no"]}

\* One binding, with or without a method that has no policy, or that streams.
MCBinding(policy, extra, streaming) ==
    [service |-> "A", destination |-> "a", policies |-> [p |-> policy],
     methods |-> {"p"} \cup extra, streaming |-> streaming]

MCDeployment(bindings, overrides, destinations, edges, s) ==
    [bindings |-> bindings, overrides |-> overrides, destinations |-> destinations,
     mounts |-> <<"A">>, edges |-> edges, idp |-> s.idp,
     introspection |-> s.introspection, legacyScope |-> s.legacyScope]

MCDeployments ==
    {MCDeployment(<<MCBinding(policy, {}, {})>>, overrides, {"a"}, edges, s) :
        policy \in MCPolicies, overrides \in {<<>>, <<"p">>, <<"p", "p">>},
        edges \in MCEdgeLists, s \in MCSwitches}
    \cup {MCDeployment(<<MCBinding(policy, extra, streaming)>>, <<>>, destinations, <<>>, s) :
            policy \in MCPolicies, extra \in {{}, {"q"}}, streaming \in {{}, {"p"}},
            destinations \in {{}, {"a", "c"}}, s \in MCSwitches}

External == [kind |-> "bearer", signer |-> "idp", life |-> "live", use |-> "event_access",
    aud |-> "gateway", originSub |-> "", scopes |-> {"events.manage"},
    wellFormed |-> "yes", bound |-> "no", active |-> "yes"]

Context == [External EXCEPT !.signer = "gateway", !.aud = "b", !.scopes = {}]

MCBearers ==
    {External,
     [External EXCEPT !.scopes = {"events.write"}],
     [External EXCEPT !.wellFormed = "no"],
     [External EXCEPT !.wellFormed = "no", !.scopes = {}],
     [External EXCEPT !.active = "no"],
     [External EXCEPT !.bound = "yes"],
     [External EXCEPT !.life = "skewed"],
     [External EXCEPT !.life = "expired"],
     [External EXCEPT !.aud = "other"],
     [External EXCEPT !.use = "service"],
     [External EXCEPT !.use = "tenant_access"],
     [External EXCEPT !.signer = "other"],
     Context,
     [Context EXCEPT !.use = "service"],
     [Context EXCEPT !.use = "service", !.originSub = "user"],
     [Context EXCEPT !.life = "skewed"],
     [Context EXCEPT !.life = "expired"],
     [Context EXCEPT !.aud = ""],
     [Context EXCEPT !.signer = "other"]}

\* One credential each, then the combinations that are refused.
MCHeaders ==
    {[NoHeader EXCEPT !.authorization = b] : b \in MCBearers \cup {NoBearer, Malformed}}
    \cup {[NoHeader EXCEPT !.caller = c] : c \in {BadCaller, "b", "c"}}
    \cup {[NoHeader EXCEPT !.authorization = b, !.caller = "b"] : b \in {External, Context}}
    \cup {[NoHeader EXCEPT !.authorization = b, !.dpop = "yes"] : b \in {External, Context}}
    \cup {[NoHeader EXCEPT !.workload = "yes"],
          [NoHeader EXCEPT !.caller = "b", !.dpop = "yes"],
          [NoHeader EXCEPT !.authorization = External, !.workload = "yes"]}
=============================================================================

--------------------------- MODULE MCServiceChain ---------------------------
(* ServiceChain with two services that may call each other, under every    *)
(* kind of edge, and with the catalogue.                                   *)
EXTENDS ServiceChain, TLC

Symmetry == Permutations(Users) \cup Permutations(Grants)

Catalogue == INSTANCE Catalog

\* Two services with a procedure for everyone each; a third procedure takes
\* external tokens only.
TwoEntries == [
    pa |-> [destination |-> "a", subjects |-> {"event_access", "service"}],
    pb |-> [destination |-> "b", subjects |-> {"tenant_access", "service"}],
    pc |-> [destination |-> "b", subjects |-> {"event_access"}]]

\* Lists that declare a call in both directions, a call of a service to itself,
\* a call to a procedure that takes no service, or the same call twice.
TwoEdgeLists ==
    LET Kind == [tokenUses : {<<>>, <<"event_access">>, <<"event_access", "service">>,
                              <<"service", "service">>},
                 origins : {{}, {"machine_chain", "new_machine"}}]
        Edge(c, p, k) == [caller |-> c, procedure |-> p,
                          tokenUses |-> k.tokenUses, origins |-> k.origins]
    IN  {<<Edge("a", "pb", k), Edge(c, p, l)>> :
            k \in Kind, l \in Kind, c \in {"a", "b"}, p \in {"pa", "pb", "pc"}}

\* An entry token of somebody else, addressed to each service.
TwoForgeries ==
    {[jti |-> -1, use |-> "event_access", aud |-> s, sub |-> "mallory", originSub |-> "",
      grant |-> "g", txn |-> 1, srcJti |-> 0, exp |-> 9, root |-> 1, parent |-> 0,
      hops |-> 0, srcExp |-> 9] : s \in {"a", "b"}}

CatalogueEdgeLists == {Catalogue!Edges}

CatalogueEntries == Catalogue!Bindings
=============================================================================

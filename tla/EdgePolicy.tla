----------------------------- MODULE EdgePolicy -----------------------------
(***************************************************************************)
(* Which service may call which procedure (edgepolicy), and what the       *)
(* Reissuer makes of one call (reissue).                                   *)
(*                                                                         *)
(* A registry entry has a destination and the set of subjects that it      *)
(* accepts: "anonymous", the external token uses, and "service".  An edge  *)
(* has a caller, a procedure, the list of the token uses it accepts from a *)
(* user-origin context, and the machine origins it accepts.                *)
(***************************************************************************)
EXTENDS Integers, Sequences

CONSTANT
    Entries      \* the registry, a function from procedures to entries

UserTokenUses == {"tenant_access", "event_access", "registration"}
TokenUses == UserTokenUses \cup {"service"}

NoName == ""     \* the empty string of the code
NoContext == [jti |-> 0]

-----------------------------------------------------------------------------
(* edgepolicy.                                                             *)

checkTokenUses(edge) ==
    \A i \in DOMAIN edge.tokenUses :
        /\ edge.tokenUses[i] \in TokenUses
        /\ \A j \in DOMAIN edge.tokenUses :
            edge.tokenUses[i] = edge.tokenUses[j] => i = j

\* Mutant: a service may call itself.
checkEdge_Self(edges, i) ==
    LET edge == edges[i]
    IN  /\ edge.caller # NoName
        /\ edge.procedure # NoName
        /\ \A j \in DOMAIN edges :
            j < i => edges[j].caller # edge.caller \/ edges[j].procedure # edge.procedure
        /\ edge.procedure \in DOMAIN Entries
        /\ "service" \in Entries[edge.procedure].subjects
        /\ checkTokenUses(edge)
        /\ edge.tokenUses # <<>> \/ edge.origins # {}

\* The i-th edge of a list can be added to the ones before it.
checkEdge(edges, i) ==
    LET edge == edges[i]
    IN  /\ edge.caller # NoName
        /\ edge.procedure # NoName
        /\ \A j \in DOMAIN edges :
            j < i => edges[j].caller # edge.caller \/ edges[j].procedure # edge.procedure
        /\ edge.procedure \in DOMAIN Entries
        /\ "service" \in Entries[edge.procedure].subjects
        /\ edge.caller # Entries[edge.procedure].destination
        /\ checkTokenUses(edge)
        /\ edge.tokenUses # <<>> \/ edge.origins # {}

\* The process starts only with a list of edges that is sound.
Build(edges) == \A i \in DOMAIN edges : checkEdge(edges, i)

\* The places of the list that hold the edge: one, or none.
Lookup(edges, caller, procedure) ==
    {i \in DOMAIN edges : edges[i].caller = caller /\ edges[i].procedure = procedure}

-----------------------------------------------------------------------------
(* reissue.                                                                *)

\* Mutant: only an entry token speaks for a user.
isUserOrigin_EntryOnly(context) == context.use \in UserTokenUses

isUserOrigin(context) ==
    \/ context.use \in UserTokenUses
    \/ context.use = "service" /\ context.originSub # NoName

\* What an edge makes of a verified context, or of none: an origin to issue a
\* token for, or the reason of the refusal.
Origin(edge, context) ==
    IF context = NoContext
    THEN IF "new_machine" \in edge.origins THEN "new_machine" ELSE "context_required"
    ELSE IF isUserOrigin(context)
    THEN IF \E i \in DOMAIN edge.tokenUses : edge.tokenUses[i] = context.use
         THEN "user" ELSE "edge_not_allowed"
    ELSE IF context.use = "service"
    THEN IF "machine_chain" \in edge.origins THEN "machine_chain" ELSE "edge_not_allowed"
    ELSE "invalid_context"

\* Reissue before it asks the issuer: the context is looked at first, whatever
\* the edge says, and an invalid one is never taken for a missing one.
Reissue(edges, caller, procedure, context, valid) ==
    IF context # NoContext /\ ~valid THEN "invalid_context"
    ELSE IF Lookup(edges, caller, procedure) = {} THEN "edge_not_allowed"
    ELSE IF procedure \notin DOMAIN Entries THEN "issue_failed"
    ELSE Origin(edges[CHOOSE i \in Lookup(edges, caller, procedure) : TRUE], context)
=============================================================================

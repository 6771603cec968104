------------------------------ MODULE Registry ------------------------------
(***************************************************************************)
(* The table of procedures the gateway forwards (registry).                *)
(*                                                                         *)
(* A binding names a service, its destination and the policy each of its   *)
(* procedures declares; methods and streaming are what the descriptor of   *)
(* the service says.  Build derives from the policies whom each procedure  *)
(* accepts; a policy it cannot make sense of keeps the process from        *)
(* starting.                                                               *)
(***************************************************************************)
EXTENDS Naturals, Sequences, FiniteSets

KnownTokenUses == {"tenant_access", "event_access", "registration", "service"}

Elements(s) == {s[i] : i \in DOMAIN s}

Distinct(s) == Cardinality(Elements(s)) = Len(s)

-----------------------------------------------------------------------------
(* Whom a policy accepts: a set of subjects, empty for an invalid policy.  *)

isServiceOnly(tokenUses) == tokenUses = <<>> \/ tokenUses = <<"service">>

authenticatedSubjects(tokenUses) ==
    IF /\ Elements(tokenUses) \subseteq KnownTokenUses
       /\ Distinct(tokenUses)
       /\ Elements(tokenUses) \ {"service"} # {}
    THEN Elements(tokenUses)
    ELSE {}

deriveSubjects(policy) ==
    CASE policy.level = "public" ->
            IF policy.tokenUses = <<>> /\ policy.scopes = {} THEN {"anonymous"} ELSE {}
      [] policy.level = "internal" ->
            IF isServiceOnly(policy.tokenUses) THEN {"service"} ELSE {}
      [] policy.level = "authenticated" -> authenticatedSubjects(policy.tokenUses)
      [] OTHER -> {}

-----------------------------------------------------------------------------
(* Build, for the bindings and overrides of a deployment d.                *)

Procedures(binding) == DOMAIN binding.policies

\* The i-th binding names its service and destination, declares policies and
\* is the only one of its service.
checkBinding(d, i) ==
    /\ d.bindings[i].service # "" /\ d.bindings[i].destination # ""
    /\ Procedures(d.bindings[i]) # {}
    /\ \A j \in DOMAIN d.bindings : d.bindings[j].service = d.bindings[i].service => j = i

\* The policies are those of the descriptor's methods, none of which streams.
checkDescriptor(binding) ==
    binding.methods = Procedures(binding) /\ binding.streaming = {}

\* No procedure is bound twice and every policy is valid.
addBinding(d, i) ==
    \A p \in Procedures(d.bindings[i]) :
        /\ \A j \in DOMAIN d.bindings : p \in Procedures(d.bindings[j]) => j = i
        /\ deriveSubjects(d.bindings[i].policies[p]) # {}

Bound(d) == UNION {Procedures(d.bindings[i]) : i \in DOMAIN d.bindings}

BindingOf(d, p) ==
    d.bindings[CHOOSE i \in DOMAIN d.bindings : p \in Procedures(d.bindings[i])]

PolicyOf(d, p) == BindingOf(d, p).policies[p]

\* The external token uses of a set of subjects.
ExternalTokenUses(subjects) == subjects \ {"anonymous", "service"}

\* An override names a bound procedure that takes external tokens, once.
applyOverrides(d) ==
    /\ Distinct(d.overrides)
    /\ \A p \in Elements(d.overrides) :
        p \in Bound(d) /\ ExternalTokenUses(deriveSubjects(PolicyOf(d, p))) # {}

deriveEntry(d, p) ==
    [destination |-> BindingOf(d, p).destination,
     subjects |-> deriveSubjects(PolicyOf(d, p)),
     scopes |-> PolicyOf(d, p).scopes,
     introspection |-> IF p \in Elements(d.overrides) THEN "yes" ELSE "no"]

EntriesOf(d) == [p \in Bound(d) |-> deriveEntry(d, p)]

BuildRegistry(d) ==
    /\ \A i \in DOMAIN d.bindings :
        checkBinding(d, i) /\ checkDescriptor(d.bindings[i]) /\ addBinding(d, i)
    /\ applyOverrides(d)

-----------------------------------------------------------------------------
(* What the table is checked against at the start.                         *)

\* The destinations file names at least one destination, and each of them.  What
\* makes the file or a URL in it unreadable is left out: like an empty name, it
\* keeps the process from starting.
LoadDestinations(d) == d.destinations # {} /\ "" \notin d.destinations

\* The file configures the destinations that are bound, and no other.
CheckDestinations(d) ==
    d.destinations = {d.bindings[i].destination : i \in DOMAIN d.bindings}

\* There is one forwarder for each bound service, and no other.
checkCoverage(d) ==
    /\ Distinct(d.mounts)
    /\ Elements(d.mounts) = {d.bindings[i].service : i \in DOMAIN d.bindings}
=============================================================================

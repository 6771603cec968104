------------------------------ MODULE SourceIP ------------------------------
(***************************************************************************)
(* sourceip.go: the address a request is recorded with.  A header is the   *)
(* sequence of its values, a value the sequence of its elements.           *)
(***************************************************************************)
EXTENDS Integers, Sequences, SequencesExt

CONSTANT Addresses  \* the texts netip.ParseAddr accepts

\* Mutant: the last value only.
forwardedFor_LastValue(header, hops, otherwise) ==
    LET addresses == IF header = <<>> THEN <<>> ELSE Last(header)
        n == Len(addresses) - hops + 1
    IN  IF n >= 1 /\ addresses[n] \in Addresses THEN addresses[n] ELSE otherwise

\* The hops-th element from the right over all values, if it is an address.
forwardedFor(header, hops, otherwise) ==
    LET addresses == FlattenSeq(header)
        n == Len(addresses) - hops + 1
    IN  IF n >= 1 /\ addresses[n] \in Addresses THEN addresses[n] ELSE otherwise

sourceIP(request, hops) ==
    IF hops > 0 THEN forwardedFor(request.header, hops, request.peer) ELSE request.peer
=============================================================================

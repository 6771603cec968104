------------------------------ MODULE Catalog ------------------------------
(***************************************************************************)
(* The edges the gateway is deployed with (catalog.Edges), and the         *)
(* registry entries they and the public listener refer to.                 *)
(***************************************************************************)
EXTENDS Sequences

Entry(destination, subjects) == [destination |-> destination, subjects |-> subjects]

\* The destinations of catalog.Bindings, with the procedures that accept a
\* service and, for each destination, one that accepts each kind of external
\* token.  The subjects are what the registry derives from the generated
\* policies of the services (testdata/registry.golden).
Bindings == [
    Greet |-> Entry("tolo-testbackend", {"tenant_access"}),
    ListEvents |-> Entry("tolo-tenant-management", {"tenant_access"}),
    ClaimTenantOwnership |-> Entry("tolo-tenant-management", {"registration"}),
    GetEvent |-> Entry("tolo-tenant-management", {"service"}),
    AddTenantMember |-> Entry("tolo-tenant-management", {"service"}),
    GetGraph |-> Entry("tolo-graph-authoring", {"event_access"}),
    GetCurrentRevision |-> Entry("tolo-graph-authoring", {"service"}),
    GetObservationPointMappings |-> Entry("tolo-graph-authoring", {"service"}),
    GetQrLocations |-> Entry("tolo-graph-authoring", {"service"}),
    GetDisplayNames |-> Entry("tolo-graph-authoring", {"service"}),
    GetGatePoints |-> Entry("tolo-graph-authoring", {"service"}),
    GetGuideMapLayout |-> Entry("tolo-graph-authoring", {"service"}),
    ReportMeasurements |-> Entry("tolo-observation", {"event_access", "service"}),
    GetGuestSnapshot |-> Entry("tolo-observation", {"service"}),
    ListStaffMessages |-> Entry("tolo-operation", {"event_access", "service"}),
    RequestProposalDelivery |-> Entry("tolo-operation", {"service"}),
    RecordFeedbackValues |-> Entry("tolo-operation", {"service"}),
    OpenGuestPage |-> Entry("tolo-guest", {"anonymous"}),
    GetGuestSettings |-> Entry("tolo-guest", {"event_access"}),
    FetchDeliveries |-> Entry("tolo-realtime", {"event_access"})]

Edge(caller, procedure, tokenUses, origins) ==
    [caller |-> caller, procedure |-> procedure, tokenUses |-> tokenUses, origins |-> origins]

fromObservation(procedure) ==
    Edge("tolo-observation", procedure, <<"event_access">>, {"machine_chain"})

fromGuest(procedure) == Edge("tolo-guest", procedure, <<>>, {"new_machine"})

\* Mutant: the first edge takes the tokens of services that go on for a user.
Edges_Relay == <<
    Edge("tolo-graph-authoring", "GetEvent", <<"event_access", "service">>, {}),
    fromObservation("GetCurrentRevision")>>

Edges == <<
    Edge("tolo-graph-authoring", "GetEvent", <<"event_access">>, {}),
    fromObservation("GetCurrentRevision"),
    fromObservation("GetObservationPointMappings"),
    fromObservation("GetQrLocations"),
    fromObservation("RequestProposalDelivery"),
    fromObservation("RecordFeedbackValues"),
    fromGuest("ListStaffMessages"),
    fromGuest("GetDisplayNames"),
    fromGuest("GetQrLocations"),
    fromGuest("GetGuideMapLayout"),
    fromGuest("GetGuestSnapshot"),
    fromGuest("ReportMeasurements")>>
=============================================================================

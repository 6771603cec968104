\* Every kind of policy, override, edge and switch against every credential.
CONSTANTS
    Deployments <- MCDeployments
    Bearers <- MCBearers
    Headers <- MCHeaders
    Audience = "gateway"
SPECIFICATION FairSpec
CHECK_DEADLOCK FALSE
INVARIANTS
    UpstreamOnlyAdmitted
    RefusalsAreDeserved
    AuditTellsTheAnswer
    AuditNamesTheActors
    ClientIsNotBlamed
PROPERTIES
    EveryRequestEnds

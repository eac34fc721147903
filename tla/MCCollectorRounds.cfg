SPECIFICATION FairSpec
CONSTANTS
    MaxSignIns = 2
    MaxGrants = 3
    MaxFaults = 3
INVARIANTS
    ReconnectIsTheGrants
PROPERTIES
    RotatesTheGrant
    Reconnects

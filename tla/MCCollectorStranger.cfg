SPECIFICATION Spec
CONSTANTS
    MaxSignIns = 1
    MaxGrants = 3
    MaxFaults = 4
INVARIANTS
    NothingFromAStranger

\* Two attempts of the imaging job before the one that succeeds.
SPECIFICATION Spec
CONSTANTS
    MaxBuilds = 3
    MaxFaults = 2
INVARIANTS TypeOK OfferedIsWhole OkIsInChannel
PROPERTY FailsOverLeftovers

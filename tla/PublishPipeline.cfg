\* Three builds on top of three releases, one of them protected.
SPECIFICATION Spec
CONSTANTS
    Pipelines = {4, 5, 6}
    Released = {1, 2, 3}
    Protected = {1}
    Keep = 3
    MaxFaults = 2
INVARIANTS TypeOK Updatable 
PROPERTIES OnlyOutdatedGoes FinishedIsCurrent ImplementsChunkStore

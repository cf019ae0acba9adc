\* An app of the hard-coded list, one with a remote of its own, an addon.
SPECIFICATION FairSpec
CONSTANTS
    LastApp = 3
    FirstAddon = 3
    HardCoded = {1}
    Special = {2}
    MaxFaults = 1
INVARIANT GivenOnce
INVARIANT ListedWasThere
PROPERTY EventuallyGiven

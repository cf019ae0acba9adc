\* Three updates onto two slots besides the running one; any may be broken.
SPECIFICATION FairSpec
CONSTANTS
    Newest = 4
    InstancesMax = 3
    FirstTries = 3
    UpdateTries = 2
    Reaches = {"initrd", "basic"}
    MaxFaults = 1
INVARIANT GoodIsEarned
INVARIANT HiddenAfterGood
INVARIANT Fallback
PROPERTY AlwaysComesUp

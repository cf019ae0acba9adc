\* An update whose boots never get to a session is marked good, with no fault.
SPECIFICATION Spec
CONSTANTS
    Newest = 2
    InstancesMax = 2
    FirstTries = 3
    UpdateTries = 2
    Reaches = {"initrd", "basic", "desktop"}
    MaxFaults = 0
INVARIANT GoodMeansSession

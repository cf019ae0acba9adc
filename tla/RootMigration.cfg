\* A v1 system used between attempts, from its first boot with v2 to v3.
SPECIFICATION RootSpec
CONSTANTS
    Homes = {alice, bob}
    Nesting = {alice}
    Files = {swapfile}
    Oddities = {}
    MaxFaults = 4
    MaxSessions = 2
    StatFaults = FALSE
    Detours = {}
    Roots = {1, 2}
    Husks = {3}
    Predating = {"containers", "docker"}
    Concerned = TRUE
INVARIANT SystemIsWhole
PROPERTY ImplementsDurableAcross
PROPERTY EventuallyOnV3

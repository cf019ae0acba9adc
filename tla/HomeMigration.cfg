\* Every boot goes through the migrator; four faults of any kind anywhere.
SPECIFICATION FairSpec
CONSTANTS
    Homes = {alice, bob}
    Nesting = {bob}
    Files = {swapfile}
    Oddities = {socket}
    MaxFaults = 4
    MaxSessions = 2
    StatFaults = TRUE
    Detours = {}
INVARIANTS TypeOK DataSafe BootedIntact Coexist
PROPERTIES EventuallyMigrated ImplementsDurableHome

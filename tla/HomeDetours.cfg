\* Some boots go around the migrator, and any stat may fail.
SPECIFICATION Spec
CONSTANTS
    Homes = {alice, bob}
    Nesting = {bob}
    Files = {swapfile}
    Oddities = {socket}
    MaxFaults = 4
    MaxSessions = 2
    StatFaults = TRUE
    Detours = {"olderImage", "continue"}
PROPERTY LossOnlyByMisread

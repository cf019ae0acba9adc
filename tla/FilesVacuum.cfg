\* Two builds on top of three releases: a legacy one and the newest are protected.
SPECIFICATION Spec
CONSTANTS
    Pipelines = {4, 5}
    Released = {1, 2, 3}
    Protected = {1, 3}
    Legacy = {1}
    Keep = 2
    MaxTries = 2
    MaxFaults = 1
INVARIANT TypeOK
INVARIANT NamedLines
INVARIANT WrongSumsHeal
PROPERTY ListMatchesSite
PROPERTY TwiceOnlyProtected
PROPERTY EndsOrWaits

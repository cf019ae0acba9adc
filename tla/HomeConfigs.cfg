\* Two accounts and two uids: reuse of a uid, of a name and of a home.
SPECIFICATION FairSpec
CONSTANTS
    Names = {alice, bob}
    Uids = {u1, u2}
    Nobody = nobody
    MaxFaults = 1
INVARIANT ListedHasFile
PROPERTY EventuallyCollected

\* Channels of one slot, fewer slots than files: every send can block.
SPECIFICATION FairSpec
CONSTANTS
    Objects = {iso, erofs, caibx, efi}
    Workers = {w1, w2}
    Capacity = 1
    WalkMayFail = TRUE
    IOMayFail = TRUE
INVARIANTS TypeOK NoSendOnClosed OkMeansStored
PROPERTIES EventuallyExits ImplementsUploadService

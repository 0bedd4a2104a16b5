SPECIFICATION FairSpec
CONSTANTS
    Threads = {t1, t2}
INVARIANTS
    SigpipeInv
    SdkSignalContained
    HostSignalKept
    MaskRestored
    ErrnoPreserved
PROPERTIES
    GuardLeaves

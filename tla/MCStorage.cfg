SPECIFICATION Spec
CONSTANTS
    AddrLen = 1
    IdLen = 2
    CredLen = 1
    Web = {w1, w2}
    Configs <- TwoConfigs
    Formatted = TRUE
    MaxLedCmds = 2
    MaxSaves = 2
    MaxResets = 1
    MaxErrs = 1
INVARIANTS
    TypeOK
    CacheCoherent
    LedInv
    LedsOldOrNew
    RestoredWasCommanded
    BootConfigUsable
    SavedDurable
PROPERTIES
    ImplementsRegister
SYMMETRY Symmetry

SPECIFICATION UpdateSpec
CONSTANTS
    AddrLen = 1
    IdLen = 2
    CredLen = 1
    DecodeCap = 3
    AttrCap = 12
    TokenCap = 5
    Web = {w1}
    Configs = {}
    Formatted = TRUE
    Edits <- AddressEdit
    Words <- TypedWords
    MaxLedCmds = 0
    MaxSaves = 1
    MaxResets = 0
    MaxErrs = 0
    CutAt = {1}
    MaxCuts = 1
INVARIANTS
    NewAddressTaken

SPECIFICATION UpdateSpec
CONSTANTS
    AddrLen = 1
    IdLen = 2
    CredLen = 1
    DecodeCap = 3
    AttrCap = 12
    TokenCap = 5
    Web = {w1, w2}
    Configs = {}
    Formatted = TRUE
    Edits <- AllEdits
    Words <- TypedWords
    MaxLedCmds = 1
    MaxSaves = 2
    MaxResets = 0
    MaxErrs = 1
    CutAt = {1, 9}
    MaxCuts = 1
INVARIANTS
    SavedAsTyped
    ValidFormsAccepted
    LoginExact
PROPERTIES
    SavesFinish

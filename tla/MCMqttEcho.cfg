SPECIFICATION Spec
CONSTANTS
    PulseTicks = 1
    MaxLag = 0
    Inputs <- PulseInputs
    MaxCmds = 2
    MaxLoss = 0
PROPERTIES
    CancelledByUser

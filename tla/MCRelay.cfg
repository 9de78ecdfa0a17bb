SPECIFICATION Spec
CONSTANTS
    PulseTicks = 4
    MaxLag = 2
INVARIANTS
    TypeOK
    PulseBounded
    IInv
PROPERTIES
    NoEarlyDrop
    ImplementsMonostable
    ComesToRest

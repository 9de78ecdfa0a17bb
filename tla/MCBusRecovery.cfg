SPECIFICATION BusSpec
CONSTANTS
    Width = 4
INVARIANTS
    TypeOK
    ReasonTrue
    BusFreed
    NinePulses
PROPERTIES
    WedgeEnds

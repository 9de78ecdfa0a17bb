SPECIFICATION BusSpec
CONSTANTS
    Width = 8
INVARIANTS
    BusUnstuck

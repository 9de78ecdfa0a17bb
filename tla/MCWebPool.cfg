SPECIFICATION Spec
CONSTANTS
    Free = Free
    States = {0, 1}
    Sockets = {sA, sB}
    Tabs = {t1, t2}
INVARIANTS
    TypeOK
    StreamInSync
PROPERTIES
    RequestsServed
    ClosedStreamEnds
    LiveView

SPECIFICATION Spec
CONSTANTS
    Free = Free
    States = {0, 1}
    Sockets = {sA}
    Tabs = {t1}
PROPERTIES
    DeadPeerDetected

CONSTANTS
    lamp = lamp
    fan = fan
    x = x
    y = y
    Home <- MCHome
    Devices = {lamp, fan}
    Addresses = {x, y}
    Names = {n, m}
    Pollers = {p}
    Controllers = {c}
    MaxMoves = 2
    MaxFaults = 1
    MaxEdits = 1
    Edited = {lamp}
SPECIFICATION Spec
INVARIANTS TypeOK ScanIsShared UserEditsKept OneEffect
PROPERTIES AddressesSettle
CHECK_DEADLOCK FALSE

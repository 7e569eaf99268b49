SPECIFICATION LeaseSpec
CONSTANTS
    Runtime = {r1, r2}
    Slot = {c1}
    Command = {"artifact"}
    MaxLease = 2
    MaxRemoval = 1
PROPERTIES OperatesUnderLease
CHECK_DEADLOCK FALSE

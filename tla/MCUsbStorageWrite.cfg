CONSTANTS
    Devs = {u1}
    NULL = NULL
    MAX_USB_INDEX = 4
    Blocks = 2
    fix_capacity = FALSE
    Garbage = {0, 2}
    Requests <- MCRequests
    QueueLen = 1
SPECIFICATION Spec
INVARIANT WriteMoved
CHECK_DEADLOCK FALSE

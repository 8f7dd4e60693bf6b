\* Keyboard focus when keyboards are unplugged and plugged in.
CONSTANTS
    Toplevel = {t1, t2, t3}
    Keyboard = {k1}
    BootKeyboards = {k1}
    HotUnplug = TRUE
    NULL = NULL
    Watched = t1
    MaxRequests <- MCMaxRequests
    MaxPending = 2
SPECIFICATION WindowSpec
CHECK_DEADLOCK FALSE
INVARIANTS
    KeyboardFollowsFocus

\* Three windows: enough for a focus transfer that has a choice.  Two keyboards,
\* one attached before the first client, that come and go.  An assertion of
\* wlroots may abort the compositor.
CONSTANTS
    Toplevel = {t1, t2, t3}
    Keyboard = {k1, k2}
    BootKeyboards = {k1}
    HotUnplug = TRUE
    NULL = NULL
    Watched = t1
    MaxRequests <- MCMaxRequests
    MaxPending = 2
SPECIFICATION WindowSpec
SYMMETRY Symmetry
CHECK_DEADLOCK FALSE
INVARIANTS
    WindowTypeOK
    SurfaceStates
    FocusIsFirstMapped
    StackFollowsMru
    NoDanglingPointer
    SeatKeyboardAttached
    OnlyFocusedActivated
    PatientClientServed
    FillsItsOutput
PROPERTIES
    ConfigureOnlyInitialized
    FocusPartsOnlyWithoutKeyboard
    ImplementsFocusPolicy

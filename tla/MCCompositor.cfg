CONSTANTS
    Toplevel = {t1, t2}
    Keyboard = {k1}
    BootKeyboards = {}
    HotUnplug = FALSE
    NULL = NULL
    Char = {"a"}
    PassMax = 1
    Secret <- MCSecret
    HavePam = TRUE
    IdleTicks = 1
    MaxFailures = 0
    Off = Off
    NoTimer = NoTimer
    Key = {"a", "Return"}
    Modifiers = {"none", "Super"}
    Bindings <- MCBindings
SPECIFICATION Spec
INVARIANTS
    TypeOK
    ClientKeysAccountedFor
PROPERTIES
    LockedKeysStay

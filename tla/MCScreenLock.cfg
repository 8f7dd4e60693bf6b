\* A field one character longer than the password, so that text may be too long
\* and be edited back; one allocation may fail; two entries of the file, two
\* calls, or one of each.  logind has a stand-in on the bus of the user, so
\* that its signal arrives.  The system stops after zen_lock_destroy.
CONSTANTS
    Char = {"a"}
    PassMax = 2
    Secret <- MCSecret
    HavePam = TRUE
    IdleTicks = 1
    MaxFailures = 1
    Off = Off
    NoTimer = NoTimer
    Entry <- MCEntry
    MaxEntries = 2
    Press <- MCPress
    Call <- MCCall
    MaxCalls = 2
    MaxEvents = 2
    LogindBus = "user"
SPECIFICATION ServicesSpec
CHECK_DEADLOCK FALSE
INVARIANTS
    ServicesTypeOK
    LockedIffShown
    NoLeftovers
    FieldIsTyped
    UnlockedIsTimed
    CallsInOrder
    FileTakesEffect
PROPERTIES
    UnlockOnlyWithSecret
    IdleSessionLocks
    CallsAnswered

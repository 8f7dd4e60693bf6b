\* The idle timeout against the key activity of the user.
CONSTANTS
    Char = {"a"}
    PassMax = 2
    Secret <- MCSecret
    HavePam = TRUE
    IdleTicks = 2
    MaxFailures = 1
    Off = Off
    NoTimer = NoTimer
    Entry <- MCEntry
    MaxEntries = 0
    Press <- MCPress
    Call <- MCCall
    MaxCalls = 0
    MaxEvents = 0
    LogindBus = "user"
SPECIFICATION ServicesSpec
CHECK_DEADLOCK FALSE
PROPERTIES
    LocksOnlyWhenIdle

\* Two entries of the file: one for the keys of a default, one without a list.
CONSTANTS
    Char = {"a"}
    PassMax = 2
    Secret <- MCSecret
    HavePam = TRUE
    IdleTicks = 1
    MaxFailures = 1
    Off = Off
    NoTimer = NoTimer
    Entry <- MCEntry
    MaxEntries = 2
    Press <- MCPress
    Call <- MCCall
    MaxCalls = 0
    MaxEvents = 2
    LogindBus = "user"
SPECIFICATION ServicesSpec
CHECK_DEADLOCK FALSE
INVARIANTS
    FileIsHeeded

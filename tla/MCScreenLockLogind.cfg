\* logind on the system bus, as session.c finds it; nothing else on the bus.
CONSTANTS
    Char = {"a"}
    PassMax = 2
    Secret <- MCSecret
    HavePam = TRUE
    IdleTicks = 1
    MaxFailures = 1
    Off = Off
    NoTimer = NoTimer
    Entry <- MCEntry
    MaxEntries = 0
    Press <- MCPress
    Call <- MCCall
    MaxCalls = 0
    MaxEvents = 0
    LogindBus = "system"
SPECIFICATION ServicesSpec
CHECK_DEADLOCK FALSE
PROPERTIES
    LogindIsHeard

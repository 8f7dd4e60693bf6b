\* A gate with one command of each kind, two attempts to reach the agent, and
\* a machine that an earlier command may have left in any state.
CONSTANTS
    Setup = 1
    Test = 1
    TestLoop = 0
    ExecAsserts = 1
    MaxProbes = 2
    MaxCommands = 2
    MaxFailures = 1
SPECIFICATION Spec
CHECK_DEADLOCK FALSE
INVARIANTS
    TypeOK
    MachineFindable
    NothingLeftBehind
    LogIsOfThisBoot
    MixupOnlyAfterTimeout
PROPERTIES
    EveryCommandEnds

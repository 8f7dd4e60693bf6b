\* A gate with one asserted command.
CONSTANTS
    Setup = 0
    Test = 0
    TestLoop = 0
    ExecAsserts = 1
    MaxProbes = 2
    MaxCommands = 1
    MaxFailures = 0
SPECIFICATION Spec
CHECK_DEADLOCK FALSE
INVARIANTS
    PassedIsProved

\* Two outputs, one of which may be unplugged and announced again; two failures,
\* so that one optional part may be missing when a later step fails; one restart
\* of zen-session after it has given up or was killed.
CONSTANTS
    Output = {o1, o2}
    MaxHotplugs = 2
    MaxFailures = 2
    HavePam = TRUE
    MaxAttempts = 2
    MaxRestarts = 1
SPECIFICATION SessionSpec
CHECK_DEADLOCK FALSE
INVARIANTS
    SessionTypeOK
    DependenciesOutlive
    AllReleased
    BootSignalIsTrue
    DesktopOnlyAfterLogin
    EchoRestored
    SessionReleased
PROPERTIES
    LoginIsAnswered

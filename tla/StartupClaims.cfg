\* One output that is there while the backend starts, one that comes later; the
\* socket may fail.
CONSTANTS
    Output = {o1, o2}
    MaxHotplugs = 2
    MaxFailures = 1
SPECIFICATION Spec
CHECK_DEADLOCK FALSE
PROPERTIES
    SomeClaimKept

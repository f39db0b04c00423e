\* The same instance, for the comment of cleanupDevices.
CONSTANTS
    Serials = {d1}
    Publishers = {monitor}
    MaxJobs = 2
    Lingering = {"wake", "launch"}
    Nil = Nil
SPECIFICATION Spec
INVARIANT AppsClosedOnExit
CHECK_DEADLOCK FALSE

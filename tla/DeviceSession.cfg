\* One device, the DPMS monitor, two goroutines at a time.
CONSTANTS
    Serials = {d1}
    Publishers = {monitor}
    MaxJobs = 2
    Lingering = {"wake", "launch"}
    Nil = Nil
SPECIFICATION Spec
INVARIANTS RegisteredHaveTunnel CleanupCloses ScreenControlled
CHECK_DEADLOCK FALSE

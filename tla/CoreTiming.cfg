\* Two cores with a thread each and one kernel timer.  A slice is 2 ticks, so that an event
\* of 1 tick falls inside one; the JIT overshoots by at most a tick, as long as the interval,
\* and the cores come to differ by more than the tick that RunLoop tolerates.  Host events
\* come after two slices, give or take one for the racy read of the ticks.
SPECIFICATION FairSpec
CONSTANTS
    NumCores = 2
    MAX_SLICE_LENGTH = 2
    MinDelay = 1
    MaxOvershoot = 1
    Timers = {t1}
    Delays = {1}
    MaxSkew = 1
INVARIANTS
    LateByOvershoot
    TimersOnSchedule
    OneWakeup
    StopIsFinal
    DesyncBounded
PROPERTIES
    SleepersWake
\* An exception out of a callback ends the emulation.
CHECK_DEADLOCK FALSE

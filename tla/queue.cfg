CONSTANTS
    Threads = {t1, t2}
    NoThread = NoThread
    Privates = {p1, p2, p3}
    Delays = {1, 2, 4}
    Resolution = 1
    Off = Off
    MaxTime = 9
    MaxDue = 6
    MaxDrift = 2
    PendedRemovals = TRUE
    PendedAdds = TRUE
    BareRemovals = TRUE
SPECIFICATION FairSpec
INVARIANTS MapMatchesQueue Sorted TimerForHead WakeupOrDropped
PROPERTIES  EventuallyTriggered ServiceSpec

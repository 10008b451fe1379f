\* A thread, two callbacks and rmmod.  The blob serialises its calls on t1; on t2
\* the thread and the callbacks call as they please.
SPECIFICATION FairSpec
CONSTANTS
    Timers = {t1, t2}
    Threads = {th1}
    Maps = {m1, m2}
    None = None
    Serialised = {t1}
    InitOnce = TRUE
    CrossExit = FALSE
    MaxAdds = 3
INVARIANTS
    PendingBacked
    NoUseAfterFree
PROPERTIES
    InitQuiesces
    PendingResolves
    ExitCompletes

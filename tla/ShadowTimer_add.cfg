\* A thread and a callback arm one timer at once.
SPECIFICATION FairSpec
CONSTANTS
    Timers = {t1}
    Threads = {th1}
    Maps = {m1}
    None = None
    Serialised = {}
    InitOnce = TRUE
    CrossExit = FALSE
    MaxAdds = 3
INVARIANT NoDoubleAdd

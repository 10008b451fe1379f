\* A callback that outlives the blob arms another timer.
SPECIFICATION FairSpec
CONSTANTS
    Timers = {t1, t2}
    Threads = {th1}
    Maps = {m1, m2}
    None = None
    Serialised = {t1, t2}
    InitOnce = TRUE
    CrossExit = TRUE
    MaxAdds = 3
INVARIANT NoUseAfterFree

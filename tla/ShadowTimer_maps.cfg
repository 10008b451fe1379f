\* Two threads initialise one timer at once.
SPECIFICATION FairSpec
CONSTANTS
    Timers = {t1}
    Threads = {th1, th2}
    Maps = {m1, m2}
    None = None
    Serialised = {}
    InitOnce = FALSE
    CrossExit = FALSE
    MaxAdds = 3
INVARIANT OneMapPerTimer

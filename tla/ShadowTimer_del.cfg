SPECIFICATION FairSpec
CONSTANTS
    Timers = {t1}
    Threads = {th1}
    Maps = {m1}
    None = None
    Serialised = {t1}
    InitOnce = TRUE
    CrossExit = FALSE
    MaxAdds = 3
PROPERTY DelReturnsDequeued

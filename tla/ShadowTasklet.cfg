SPECIFICATION FairSpec
CONSTANTS
    Tasklets = {t1}
    Threads = {th1, th2}
    Maps = {m1, m2}
    Rmmod = rmmod
    None = None
INVARIANTS
    NoUseAfterFree
    SchedBacked
PROPERTIES
    RunFollows
    KillReturns

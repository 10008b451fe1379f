SPECIFICATION FairSpec
CONSTANTS
    Devs = {d1}
    Threads = {c1, c2}
    NoDev = NoDev
    Serialised = TRUE
INVARIANTS
    ReadinessMirrored
    XoffMirrored
    MulticastAdmitted
PROPERTIES
    NamesAgree
    WakeReaches

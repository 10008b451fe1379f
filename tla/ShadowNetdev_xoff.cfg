SPECIFICATION DevSpec
CONSTANTS
    Devs = {d1}
    Threads = {c1, c2}
    NoDev = NoDev
    Serialised = FALSE
INVARIANT XoffMirrored

SPECIFICATION Spec
CONSTANTS
    Skbs = {r1, r2}
    Bufs = {b1, b2}
    Shadows = {s1, s2}
    None = None
    BufLen = 2
    Headroom = 1
    MaxRefused = 1
INVARIANT SharedBitHonest

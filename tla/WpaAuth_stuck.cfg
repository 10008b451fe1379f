SPECIFICATION Spec
CONSTANTS
    Stas = {s1}
    Modes = {"WPA"}
    WPA_RETRY = 1
    MaxNonce = 1
    MaxGtk = 1
    MaxCm = 0
    LinkEvents = FALSE
CHECK_DEADLOCK FALSE
INVARIANT AwaitedIsTimed

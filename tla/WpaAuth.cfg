SPECIFICATION FairSpec
CONSTANTS
    Stas = {s1}
    Modes = {"WPA", "WPA2"}
    WPA_RETRY = 2
    MaxNonce = 2
    MaxGtk = 2
    MaxCm = 1
    LinkEvents = TRUE
CHECK_DEADLOCK FALSE
INVARIANTS KeysAgree FreshReplay CmKeepsTkipOut
PROPERTY HandshakeEnds
VIEW WithoutStale

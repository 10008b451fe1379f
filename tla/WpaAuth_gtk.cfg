SPECIFICATION Spec
CONSTANTS
    Stas = {s1, s2}
    Modes = {"WPA2"}
    WPA_RETRY = 1
    MaxNonce = 2
    MaxGtk = 2
    MaxCm = 0
    LinkEvents = FALSE
CHECK_DEADLOCK FALSE
INVARIANT GtkDelivered

CONSTANTS
  s1 = s1
  s2 = s2
  Stas = {s1, s2}
  Kinds <- MCKinds
  NasMode = {"WPA2", "PSK"}
  Wep = TRUE
  NoSta = NoSta
  MaxSta = 1
  ReauthMax = 2
  TxPeriod = 1
  AuthWhile = 1
  QuietWhile = 2
  SsnTo = 2
  MaxReq = 3
  MaxClock = 2
SPECIFICATION Spec
INVARIANTS PortTracked

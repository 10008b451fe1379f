CONSTANTS
  Ifs = {"wl0", "wl0.1"}
  Psta = {}
  EapolIfs = {"wl0"}
  AppsUp = {"nas", "wps", "ses"}
  s1 = s1
  s2 = s2
  s3 = s3
  NoIf = NoIf
  Stas = {s1, s2, s3}
  Hash <- MCHash
  MaxSta = 2
  MaxClock = 2
SYMMETRY Symmetry
SPECIFICATION Spec
INVARIANTS SessionStaysPut
PROPERTIES ImplementsCache
VIEW WithoutSent

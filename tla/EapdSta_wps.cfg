\* Two stations and one place.
CONSTANTS
  Ifs = {"wl0", "wl0.1"}
  Psta = {}
  EapolIfs = {"wl0"}
  AppsUp = {"nas", "wps", "ses"}
  s1 = s1
  s2 = s2
  s3 = s3
  NoIf = NoIf
  Stas = {s1, s2}
  Hash <- MCHash
  MaxSta = 1
  MaxClock = 2
SPECIFICATION Spec
PROPERTY AgeOutSparesWps
VIEW WithoutSent

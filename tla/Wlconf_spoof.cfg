\* A radio that spoofs its address and then becomes an access point.
CONSTANTS
  Configs <- MCSpoof
  Chosen <- MCChosen
  NewCore = FALSE
  HwChains = 3
  Refusable = {"wpa_auth", "chanspec", "link", "bss"}
  MaxRefused = 0
  MaxUps = 2
  MAX_BSS_UP_RETRIES = 2
  NotSet = NotSet
SPECIFICATION Spec
INVARIANT SpoofForgotten

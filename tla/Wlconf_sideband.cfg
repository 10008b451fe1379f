\* A 40 MHz access point without a side band in nvram.
CONSTANTS
  Configs <- MCNoSideband
  Chosen <- MCChosen
  NewCore = FALSE
  HwChains = 3
  Refusable = {"wpa_auth", "chanspec", "link", "bss"}
  MaxRefused = 0
  MaxUps = 2
  MAX_BSS_UP_RETRIES = 2
  NotSet = NotSet
SPECIFICATION Spec
INVARIANT ChannelCentred

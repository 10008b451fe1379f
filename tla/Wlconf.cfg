\* The radio between thirteen configurations on five cards, an older core.
CONSTANTS
  Configs <- MCConfigs
  Chosen <- MCChosen
  NewCore = FALSE
  HwChains = 3
  Refusable = {"wpa_auth", "chanspec", "link", "bss"}
  MaxRefused = 1
  MaxUps = 2
  MAX_BSS_UP_RETRIES = 2
  NotSet = NotSet
SPECIFICATION Spec
INVARIANTS
    BssSecured
    AggregationExclusive
    ChannelKept
    ChspecRoundTrip

CONSTANTS
  Ifs <- MCIfs
  Mac <- MCMac
  Settings <- MCSettings
  MaxNwcb = 1
SPECIFICATION NasSpec
PROPERTIES TermStops

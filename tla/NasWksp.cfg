CONSTANTS
  Ifs <- MCIfs
  Mac <- MCMac
  Settings <- MCSettings
  MaxNwcb = 2
SPECIFICATION NasSpec
INVARIANTS
    SocketsAccounted
    MessagesAddOnce
    GroupKeySane

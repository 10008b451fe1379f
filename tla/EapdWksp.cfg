CONSTANTS
  Ifs <- MCIfs
  DynIfs <- MCDynIfs
  Psta <- MCPsta
  Lan <- MCLan
  Unit <- MCUnit
  Primary <- MCPrimary
  NvName <- MCNvName
  OsName <- MCOsName
  Confs <- MCConfs
  MaxBrcm = 3
SPECIFICATION Spec
INVARIANT SocketsCounted
INVARIANT EventsCover
PROPERTY ShutdownCompletes

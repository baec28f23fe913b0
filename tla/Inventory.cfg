SPECIFICATION MCSpec
CONSTANTS
  FileRouters = {"f","g"}
  DbRouters = {"a"}
  NameOrder <- MCOrder
  Hosts <- MCHosts
  FileHost <- MCFileHost
  FileWrite <- MCFileWrite
  Managed = {"a","g"}
  Loops = {"inventory","topology","subscribers"}
  People = {"ui"}
  Setup = "setup"
  None = "none"
  MaxMoves = 1
PROPERTIES UntouchedKept ShutStaysShut Converges SetupEnds

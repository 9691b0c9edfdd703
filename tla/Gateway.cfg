SPECIFICATION GSpec
CONSTANTS
  Keys = {"k1", "k2"}
  Pages = {p1, p2}
  Configs <- TwoConfigs
  Hosts = {"h1", "h2"}
  MaxBoot = 1
  MaxTries = 2
  MaxFaults = 1
  MaxIds = 3
SYMMETRY Interchangeable
INVARIANTS
  
  OnePerBootstrap
  RepliedRegistered
  UpgradeFindsBackend
CHECK_DEADLOCK FALSE

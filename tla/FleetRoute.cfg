SPECIFICATION FSpec
CONSTANTS
  Keys = {"k1", "k2", "k3"}
  Hosts = {"h1", "h2", "h3", "proxy"}
  Files <- MCFiles
  Envs <- MCEnvs
  Clis <- MCClis
  Descriptions <- MCSmall
  FileName <- MCFileName
  Fresh <- MCFresh
  Short = {"k1", "k2"}
  MaxCount = 2
  FirstPort = 3
  MaxPort = 8
INVARIANTS
  KeyReachesItsPort
CHECK_DEADLOCK FALSE

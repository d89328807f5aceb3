SPECIFICATION FairSpec
CONSTANTS
  Clients = {k1, k2, k3}
  Jobs = {j1, j2}
  Nobody = Nobody
  MaxConnections = 3
  MaxSessions = 2
INVARIANTS
  TypeOK
  PermitsConserved
  OneDaemonWorks
PROPERTY
  ShutdownEnds
CHECK_DEADLOCK FALSE

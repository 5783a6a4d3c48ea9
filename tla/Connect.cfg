SPECIFICATION Spec
CHECK_DEADLOCK FALSE
CONSTANTS
  Users = {u1, u2}
  Logins = {s1, s2}
  Requests = {r1, r2}
  QR_SESSION_TTL = 1
  MaxRefreshes = 1
  MaxRestarts = 1
  Nobody = Nobody
  Sockets = {k1, k2}
  Callers = {c1, c2}
  Main = Main
  SyncLoops = {l1}
  MAX_RECONNECT_ATTEMPTS = 1
  MAX_ATTEMPTS = 2
  NoSocket = NoSocket
  Clients = {n1, n2}
  Handlers = {h1, h2}
  SyncTasks = {t1, t2}
  SYNC_ATTEMPTS = 2
  NoClient = NoClient
INVARIANTS OneAccountPerScan WaitingIsWatched ReadyHasGroups SyncingIsRun
PROPERTIES ScanIsKept WaitEnds

\* A worker may be reaped between the lookup and the connection.
CONSTANTS
  Worker = {w1, w2}
  Sid = {s1, s2}
  Thread = {t1, t2}
  App = {a}
  Port <- OnePort
  None = None
  IdleTimeout = 1
  DisconnectGrace = 0
  StartTimeout = 1
  SchedDelay = 0
  AdminScope = "none"
  EarlyClients = FALSE
  SidCollisions = FALSE
  PromptExit = TRUE
  Crashes = FALSE
SPECIFICATION ProxySpec
SYMMETRY Symmetric
INVARIANT OwnBackend

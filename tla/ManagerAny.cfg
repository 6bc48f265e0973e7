\* No assumption on the admin, the sids, the clients or the processes.
CONSTANTS
  Worker = {w1, w2}
  Sid = {s1}
  Thread = {t1, t2}
  App = {a, b}
  Port <- OnePort
  None = None
  IdleTimeout = 1
  DisconnectGrace = 0
  StartTimeout = 1
  SchedDelay = 0
  AdminScope = "any"
  EarlyClients = TRUE
  SidCollisions = TRUE
  PromptExit = FALSE
  Crashes = TRUE
SPECIFICATION Spec
SYMMETRY Symmetric
VIEW View
INVARIANT TypeOK
PROPERTY GraceSparesConnections

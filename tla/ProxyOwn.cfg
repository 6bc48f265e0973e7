\* The regime of the theorems: the admin acts on sessions that are up.
CONSTANTS
  Worker = {w1, w2}
  Sid = {s1, s2}
  Thread = {t1, t2}
  App = {a}
  Port <- TwoPorts
  None = None
  IdleTimeout = 1
  DisconnectGrace = 0
  StartTimeout = 1
  SchedDelay = 0
  AdminScope = "ready"
  EarlyClients = FALSE
  SidCollisions = FALSE
  PromptExit = TRUE
  Crashes = TRUE
SPECIFICATION ProxySpec
VIEW View
SYMMETRY Symmetric
INVARIANT CurrentBackend
INVARIANT PrivatePort
INVARIANT NoPortLeak
INVARIANT NoOrphan
PROPERTY ImplementsPorts

\* The admin may act on a session that is still starting.
CONSTANTS
  Worker = {w1, w2}
  Sid = {s1, s2}
  Thread = {t1, t2}
  App = {a}
  Port <- TwoPorts
  None = None
  IdleTimeout = 1
  DisconnectGrace = 0
  StartTimeout = 1
  SchedDelay = 0
  AdminScope = "any"
  EarlyClients = FALSE
  SidCollisions = FALSE
  PromptExit = TRUE
  Crashes = TRUE
SPECIFICATION Spec
SYMMETRY Symmetric
INVARIANT PrivatePort

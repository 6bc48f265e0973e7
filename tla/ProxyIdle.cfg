\* A browser that works on one connection only.
CONSTANTS
  Worker = {w1, w2}
  Sid = {s1}
  Thread = {t1}
  App = {a}
  Port <- OnePort
  None = None
  IdleTimeout = 1
  DisconnectGrace = 0
  StartTimeout = 1
  SchedDelay = 0
  AdminScope = "none"
  EarlyClients = FALSE
  SidCollisions = FALSE
  PromptExit = TRUE
  Crashes = FALSE
SPECIFICATION ProxySpec
PROPERTY ActiveIsSpared

\* Liveness; no symmetry, no view.  The admin may act on any session, and a
\* signalled process may go on for a while.
CONSTANTS
  Worker = {w1, w2}
  Sid = {s1}
  Thread = {t1}
  App = {a}
  Port <- OnePort
  None = None
  IdleTimeout = 1
  DisconnectGrace = 0
  StartTimeout = 1
  SchedDelay = 0
  AdminScope = "any"
  EarlyClients = FALSE
  SidCollisions = FALSE
  PromptExit = FALSE
  Crashes = TRUE
SPECIFICATION ProxyFairSpec
PROPERTY DeadIsReaped
PROPERTY StartResolves
PROPERTY IdleReaped
PROPERTY StopReturns

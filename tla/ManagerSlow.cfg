\* Late threads, and processes that go on for a while after SIGTERM: a start may
\* take longer than its timeout, and be answered by the process it replaces.
CONSTANTS
  Worker = {w1, w2}
  Sid = {s1, s2}
  Thread = {t1, t2}
  App = {a}
  Port <- TwoPorts
  None = None
  IdleTimeout = 3
  DisconnectGrace = 0
  StartTimeout = 1
  SchedDelay = 1
  AdminScope = "ready"
  EarlyClients = FALSE
  SidCollisions = FALSE
  PromptExit = FALSE
  Crashes = TRUE
SPECIFICATION Spec
VIEW View
SYMMETRY Symmetric
INVARIANT NoDyingSession
INVARIANT StartKeepsEntry
INVARIANT OwnListener

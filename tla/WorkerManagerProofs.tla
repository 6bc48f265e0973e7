------------------------- MODULE WorkerManagerProofs -------------------------
(***************************************************************************)
(* Theorems about WorkerManager, for every value of its constants.         *)
(***************************************************************************)
EXTENDS WorkerManagerInv, FiniteSetTheorems, TLAPS

USE ConstantsOK DEF ConstantsOK

(* Killing workers keeps the types of what kill_worker() writes.           *)
LEMMA KillType ==
  ASSUME TypeOK, NEW W \in SUBSET Worker, KillWorkers(W)
  PROVE  /\ sessions' \in [Sid -> Worker \cup {None}]
         /\ portsInUse' \subseteq Port
         /\ proc' \in [Worker -> ProcState]
         /\ termed' \subseteq Worker
BY DEF TypeOK, KillWorkers, Terminate, PortsLeft, SessionsLeft, ProcState

LEMMA TerminateType ==
  ASSUME TypeOK, NEW W \in SUBSET Worker, Terminate(W)
  PROVE  /\ proc' \in [Worker -> ProcState]
         /\ termed' \subseteq Worker
BY DEF TypeOK, Terminate, ProcState

LEMMA NewWorkerType ==
  ASSUME NEW s \in Sid \cup {None}, NEW a \in App \cup {None}, NEW p \in Port \cup {None}
  PROVE  NewWorker(s, a, p) \in WorkerRecord
BY DEF NewWorker, WorkerRecord

LEMMA IdleType == Idle \in ThreadRecord /\ Idle.pc = "idle"
BY DEF Idle, ThreadRecord, ThreadState

LEMMA ZeroAge == 0 \in 0 .. IdleTimeout + 1 /\ 0 \in 0 .. DisconnectGrace + 1
OBVIOUS

(* The records after set pid, conn_opened(), conn_closed() and a second.   *)
LEMMA PidType ==
  ASSUME NEW r \in WorkerRecord
  PROVE  [r EXCEPT !.pid = TRUE] \in WorkerRecord
BY DEF WorkerRecord

LEMMA OpenedType ==
  ASSUME NEW r \in WorkerRecord, NEW c \in Nat, NEW b \in BOOLEAN
  PROVE  [r EXCEPT !.conns = c, !.idle = 0, !.ws = b] \in WorkerRecord
BY ZeroAge DEF WorkerRecord

LEMMA ClosedType ==
  ASSUME NEW r \in WorkerRecord, NEW c \in Nat, NEW d \in 0 .. DisconnectGrace + 1
  PROVE  [r EXCEPT !.conns = c, !.idle = 0, !.down = d] \in WorkerRecord
BY ZeroAge DEF WorkerRecord

LEMMA AgedType ==
  ASSUME NEW r \in WorkerRecord, NEW i \in 0 .. IdleTimeout + 1,
         NEW d \in 0 .. DisconnectGrace + 1
  PROVE  [r EXCEPT !.idle = i, !.down = d] \in WorkerRecord
BY DEF WorkerRecord

LEMMA SpawnType ==
  ASSUME NEW r \in ThreadRecord, NEW w \in Worker
  PROVE  [r EXCEPT !.pc = "fork", !.w = w, !.clock = 0] \in ThreadRecord
BY DEF ThreadRecord, ThreadState

LEMMA WaitType ==
  ASSUME NEW r \in ThreadRecord
  PROVE  [r EXCEPT !.pc = "wait", !.clock = 0] \in ThreadRecord
BY DEF ThreadRecord, ThreadState

LEMMA TypeCorrectInit == Init => TypeOK
<1> SUFFICES ASSUME Init PROVE TypeOK
  OBVIOUS
<1>1. worker \in [Worker -> WorkerRecord]
  BY NewWorkerType DEF Init
<1>2. thread \in [Thread -> ThreadRecord] /\ \A t \in Thread : thread[t].pc = "idle"
  BY IdleType DEF Init
<1> QED
  BY <1>1, <1>2 DEF Init, TypeOK, ProcState, Busy, Starting

LEMMA TypeCorrectStep ==
  ASSUME TypeOK, [Next]_vars
  PROVE  TypeOK'
<1> USE DEF TypeOK, Busy, Starting
<1>1. ASSUME NEW t \in Thread, Proceed(t) PROVE TypeOK'
  <2> USE DEF ThreadRecord, ThreadState
  <2>1. CASE EnsureExisting(t)
    BY <2>1 DEF EnsureExisting, Returned, Idle, mapVars, procVars, lifeVars
  <2>2. CASE EnsureCreate(t)
    <3> Stale(t) \in SUBSET Worker
      BY DEF Stale
    <3>1. PICK p \in Port, w \in Worker :
            /\ portsInUse' = PortsLeft(Stale(t)) \cup {p}
            /\ sessions' = [sessions EXCEPT ![thread[t].sid] = w]
            /\ worker' = [worker EXCEPT
                            ![w] = NewWorker(thread[t].sid, thread[t].app, p)]
            /\ thread' = [thread EXCEPT ![t] = [@ EXCEPT !.pc = "fork", !.w = w, !.clock = 0]]
      BY <2>2 DEF EnsureCreate
    <3>2. Terminate(Stale(t)) /\ UNCHANGED lifeVars
      BY <2>2 DEF EnsureCreate
    <3>3. worker' \in [Worker -> WorkerRecord]
      BY <3>1, NewWorkerType
    <3>4. thread' \in [Thread -> ThreadRecord]
      <4>1. [thread[t] EXCEPT !.pc = "fork", !.w = w, !.clock = 0] \in ThreadRecord
        BY SpawnType
      <4> HIDE DEF ThreadRecord
      <4> QED
        BY <3>1, <4>1
    <3>5. portsInUse' \subseteq Port
      BY <3>1 DEF PortsLeft
    <3>6. \A u \in Thread : u # t => thread'[u] = thread[u]
      BY <3>1
    <3>7. thread'[t].sid \in Sid /\ thread'[t].w = w
      BY <2>2, <3>1 DEF EnsureCreate, MustSpawn
    <3>8. /\ sessions' \in [Sid -> Worker \cup {None}]
          /\ proc' \in [Worker -> ProcState] /\ termed' \subseteq Worker
      BY <3>1, <3>2, TerminateType
    <3> HIDE DEF ThreadRecord
    <3> QED
      BY <3>2, <3>3, <3>4, <3>5, <3>6, <3>7, <3>8 DEF lifeVars
  <2>3. CASE EnsureExhausted(t)
    <3> Stale(t) \in SUBSET Worker
      BY DEF Stale
    <3> QED
      BY <2>3, KillType DEF EnsureExhausted, Idle, lifeVars
  <2>4. CASE Fork(t)
    BY <2>4 DEF Fork, ProcState, mapVars, lifeVars
  <2>5. CASE ForkFail(t)
    BY <2>5 DEF ForkFail, Idle, procVars, lifeVars
  <2>6. CASE SetPid(t)
    <3>1. worker' \in [Worker -> WorkerRecord]
      BY <2>6, PidType DEF SetPid
    <3>2. thread' = [thread EXCEPT ![t] = [@ EXCEPT !.pc = "wait", !.clock = 0]]
      BY <2>6 DEF SetPid
    <3>3. thread' \in [Thread -> ThreadRecord]
      BY <3>2, WaitType
    <3> HIDE DEF ThreadRecord
    <3> QED
      BY <2>6, <3>1, <3>2, <3>3 DEF SetPid, mapVars, procVars, lifeVars
  <2>7. CASE WaitOk(t)
    BY <2>7 DEF WaitOk, Returned, Idle, mapVars, procVars, lifeVars
  <2>8. CASE WaitTimeout(t)
    <3> thread[t].w \in Worker
      BY <2>8 DEF WaitTimeout
    <3> QED
      BY <2>8, KillType DEF WaitTimeout, Idle, lifeVars
  <2> QED
    BY <1>1, <2>1, <2>2, <2>3, <2>4, <2>5, <2>6, <2>7, <2>8 DEF Proceed
<1>2. ASSUME NEW t \in Thread, Request(t) PROVE TypeOK'
  <2> USE DEF ThreadRecord, ThreadState
  <2>1. ASSUME NEW s \in Sid, NEW a \in App, PageLoad(t, s, a) PROVE TypeOK'
    BY <2>1 DEF PageLoad, Idle, mapVars, procVars, lifeVars
  <2>2. ASSUME NEW s \in Sid, GetSession(t, s) PROVE TypeOK'
    BY <2>2 DEF GetSession, Idle, mapVars, procVars, lifeVars
  <2>3. ASSUME NEW s \in Sid, RestartSession(t, s) PROVE TypeOK'
    <3> sessions[s] \in Worker
      BY <2>3 DEF RestartSession, AdminMayTarget
    <3>1. worker[sessions[s]].app \in App \cup {None}
      BY DEF WorkerRecord
    <3> QED
      BY <2>3, <3>1, KillType DEF RestartSession, Idle, lifeVars
  <2>4. ASSUME NEW isWs \in BOOLEAN, ConnOpened(t, isWs) PROVE TypeOK'
    <3> DEFINE w == thread[t].w
    <3>1. worker[w].conns + 1 \in Nat /\ (worker[w].ws \/ isWs) \in BOOLEAN
      BY <2>4 DEF ConnOpened, WorkerRecord
    <3>2. worker' \in [Worker -> WorkerRecord]
      BY <2>4, <3>1, OpenedType DEF ConnOpened
    <3> QED
      BY <2>4, <3>2 DEF ConnOpened, mapVars, procVars, lifeVars
  <2>5. CASE ConnClosed(t)
    <3> DEFINE w == thread[t].w
               left == IF worker[w].conns > 0 THEN worker[w].conns - 1 ELSE 0
    <3>1. /\ left \in Nat
          /\ (IF left = 0 THEN 0 ELSE worker[w].down) \in 0 .. DisconnectGrace + 1
      BY <2>5, ZeroAge DEF ConnClosed, WorkerRecord
    <3>2. worker' \in [Worker -> WorkerRecord]
      BY <2>5, <3>1, ClosedType DEF ConnClosed
    <3> QED
      BY <2>5, <3>2 DEF ConnClosed, Idle, mapVars, procVars, lifeVars
  <2>6. CASE Drop(t)
    BY <2>6 DEF Drop, Idle, mapVars, procVars, lifeVars
  <2> QED
    BY <1>2, <2>1, <2>2, <2>3, <2>4, <2>5, <2>6 DEF Request
<1>3. ASSUME NEW s \in Sid, KillSession(s) PROVE TypeOK'
  <2> sessions[s] \in Worker
    BY <1>3 DEF KillSession, AdminMayTarget
  <2> QED
    BY <1>3, KillType DEF KillSession, lifeVars
<1>4. CASE ReaperExit
  BY <1>4 DEF ReaperExit, mapVars, procVars
<1>5. CASE ReaperCollect
  BY <1>5 DEF ReaperCollect, mapVars, ProcState
<1>6. CASE ReaperSweep
  BY <1>6, KillType DEF ReaperSweep
<1>7. CASE Joined
  BY <1>7 DEF Joined, Idle, mapVars, procVars, ThreadRecord, ThreadState
<1>8. CASE Stop
  BY <1>8, TerminateType DEF Stop
<1>9. ASSUME NEW w \in Worker, Bind(w) \/ Exit(w) PROVE TypeOK'
  BY <1>9 DEF Bind, Exit, mapVars, lifeVars, ProcState
<1>10. CASE Tick
  <2>1. ASSUME NEW w \in Worker PROVE Aged(w) \in WorkerRecord
    <3>1. /\ worker[w].idle \in 0 .. IdleTimeout + 1
          /\ worker[w].down \in 0 .. DisconnectGrace + 1
      BY DEF WorkerRecord
    <3>2. /\ Older(worker[w].idle, IdleTimeout) \in 0 .. IdleTimeout + 1
          /\ Older(worker[w].down, DisconnectGrace) \in 0 .. DisconnectGrace + 1
      BY <3>1 DEF Older
    <3> QED
      BY <3>1, <3>2, AgedType DEF Aged
  <2>2. ASSUME NEW w \in Worker
        PROVE NewWorker(None, None, IF Alive(w) THEN worker[w].port ELSE None)
                \in WorkerRecord
    BY NewWorkerType DEF WorkerRecord
  <2>3. worker' \in [Worker -> WorkerRecord]
    BY <1>10, <2>1, <2>2 DEF Tick
  <2>4. thread' \in [Thread -> ThreadRecord]
    BY <1>10 DEF Tick, ThreadRecord
  <2>5. \A t \in Thread : thread'[t].pc = thread[t].pc /\ thread'[t].w = thread[t].w
    BY <1>10 DEF Tick, ThreadRecord
  <2> QED
    BY <1>10, <2>3, <2>4, <2>5 DEF Tick, mapVars, procVars, lifeVars
<1>11. CASE UNCHANGED vars
  BY <1>11 DEF vars, mapVars, procVars, lifeVars
<1> QED
  BY <1>1, <1>2, <1>3, <1>4, <1>5, <1>6, <1>7, <1>8, <1>9, <1>10, <1>11
  DEF Next, Supervise

(* Every variable has its type, and no thread follows a null worker.       *)
THEOREM TypeCorrect == Spec => []TypeOK
<1>1. TypeOK /\ [Next]_vars => TypeOK'
  BY TypeCorrectStep
<1> QED
  BY <1>1, TypeCorrectInit, PTL DEF Spec

-----------------------------------------------------------------------------
(* In the calm regime a start never meets an entry of its session, so the  *)
(* paths of ensure_session() that return or kill one are not taken.        *)

LEMMA ExistingNever ==
  ASSUME IInv, NEW t \in Thread, EnsureExisting(t)
  PROVE  FALSE
BY DEF IInv, KeyInv, TypeOK, EnsureExisting

LEMMA StaleEmpty ==
  ASSUME IInv, NEW t \in Thread, thread[t].pc = "ensure"
  PROVE  Stale(t) = {} /\ sessions[thread[t].sid] = None
BY DEF IInv, KeyInv, Stale

LEMMA SpawnEffect ==
  ASSUME IInv, NEW t \in Thread, EnsureCreate(t)
  PROVE  /\ thread[t].pc = "ensure" /\ sessions[thread[t].sid] = None
         /\ UNCHANGED <<procVars, lifeVars>>
         /\ \E p \in Port \ portsInUse, w \in Worker :
              /\ Unused(w)
              /\ portsInUse' = portsInUse \cup {p}
              /\ sessions' = [sessions EXCEPT ![thread[t].sid] = w]
              /\ worker' = [worker EXCEPT
                              ![w] = NewWorker(thread[t].sid, thread[t].app, p)]
              /\ thread' = [thread EXCEPT ![t] = [@ EXCEPT !.pc = "fork", !.w = w, !.clock = 0]]
<1>1. thread[t].pc = "ensure"
  BY DEF EnsureCreate, MustSpawn
<1>2. Stale(t) = {} /\ sessions[thread[t].sid] = None
  BY <1>1, StaleEmpty
<1>3. PortsLeft(Stale(t)) = portsInUse
  BY <1>2 DEF PortsLeft
<1>4. UNCHANGED procVars
  BY <1>2 DEF EnsureCreate, Terminate, procVars, IInv, TypeOK
<1> QED
  BY <1>1, <1>2, <1>3, <1>4 DEF EnsureCreate, Allocates

LEMMA ExhaustedEffect ==
  ASSUME IInv, NEW t \in Thread, EnsureExhausted(t)
  PROVE  /\ UNCHANGED <<mapVars, worker, procVars, lifeVars>>
         /\ thread' = [thread EXCEPT ![t] = Idle]
<1>1. Stale(t) = {}
  BY StaleEmpty DEF EnsureExhausted, MustSpawn
<1>2. UNCHANGED <<mapVars, procVars>>
  BY <1>1 DEF EnsureExhausted, KillWorkers, Terminate, PortsLeft, SessionsLeft,
              mapVars, procVars, IInv, TypeOK
<1> QED
  BY <1>2 DEF EnsureExhausted

(* What may be killed: workers whose pid is known and whose entry nobody   *)
(* else has taken.                                                         *)
Target(w) ==
  /\ Listed(w) \/ InStart(w)
  /\ worker[w].pid
  /\ worker[w].sid \in Sid
  /\ sessions[worker[w].sid] \in {w, None}

(* Then kill_worker() erases the entries of these workers and no other.    *)
LEMMA KillErases ==
  ASSUME IInv, NEW W \in SUBSET Worker, \A w \in W : Target(w), KillWorkers(W)
  PROVE  \A s \in Sid : sessions'[s] = IF sessions[s] \in W THEN None ELSE sessions[s]
BY DEF IInv, TypeOK, KeyInv, Target, KillWorkers, SessionsLeft

LEMMA KillSignals ==
  ASSUME IInv, NEW W \in SUBSET Worker, \A w \in W : Target(w), KillWorkers(W)
  PROVE  /\ \A w \in Worker : Alive(w)' => Alive(w)
         /\ \A w \in W : Alive(w)' => ~PromptExit /\ w \in termed'
         /\ termed \subseteq termed'
         /\ PromptExit => termed' = termed
BY DEF IInv, TypeOK, Target, KillWorkers, Terminate, Alive

(* The invariant survives the death of any set W of targets that no start  *)
(* is working on, when the threads but one are left where they are.        *)
LEMMA KillKeeps ==
  ASSUME Calm, IInv, TypeOK', main # "stopped",
         NEW W \in SUBSET Worker, \A w \in W : Target(w),
         KillWorkers(W), UNCHANGED <<worker, running, main>>,
         reaper' = "exited" <=> reaper = "exited",
         \A t \in Thread : Starting(t)' => /\ thread'[t] = thread[t]
                                           /\ thread[t].w \notin W,
         \A t \in Thread : Starting(t) => Starting(t)' \/ thread[t].w \in W,
         \A t \in Thread : thread'[t].w \in {thread[t].w, None}
  PROVE  /\ \A s \in Sid : sessions'[s] # None => worker'[sessions'[s]].sid = s
         /\ \A t \in Thread : Starting(t)' =>
              /\ worker'[thread'[t].w].sid = thread'[t].sid
              /\ sessions'[thread'[t].sid] \in {thread'[t].w, None}
         /\ StartKeepsEntry'
         /\ StartInv'
         /\ LifeInv'
         /\ PidInv'
         /\ PortInv'
         /\ NoPortLeak'
         /\ NoOrphan'
<1>1. \A s \in Sid : sessions'[s] = IF sessions[s] \in W THEN None ELSE sessions[s]
  BY KillErases
<1>2. portsInUse' = portsInUse \ {worker[w].port : w \in W}
  BY DEF KillWorkers, PortsLeft
<1>3. \A w \in Worker : Listed(w)' <=> Listed(w) /\ w \notin W
  BY <1>1 DEF IInv, TypeOK, Listed
<1>4. \A w \in Worker : InStart(w)' => InStart(w) /\ w \notin W
  BY DEF InStart, Starting
<1>5. \A w \in Worker : InStart(w) => InStart(w)' \/ w \in W
  BY DEF InStart, Starting
<1>6. \A s \in Sid : sessions'[s] # None => worker'[sessions'[s]].sid = s
  BY <1>1 DEF IInv, KeyInv
<1>7. \A t \in Thread : Starting(t)' =>
        /\ worker'[thread'[t].w].sid = thread'[t].sid
        /\ sessions'[thread'[t].sid] \in {thread'[t].w, None}
  BY <1>1 DEF IInv, TypeOK, KeyInv, Starting, Busy
<1>8. StartKeepsEntry'
  BY <1>1 DEF IInv, TypeOK, StartKeepsEntry, Starting, Busy
<1>9. StartInv'
  <2> SUFFICES ASSUME NEW t \in Thread, Starting(t)'
               PROVE  /\ AgeBound(t)' <= LongestStart
                      /\ thread'[t].pc # "wait" => thread'[t].clock <= SchedDelay
                      /\ worker'[thread'[t].w].idle <= AgeBound(t)'
                      /\ worker'[thread'[t].w].down <= AgeBound(t)'
                      /\ ~EarlyClients => /\ ~worker'[thread'[t].w].ws
                                          /\ \A u \in Thread \ {t} : thread'[u].w # thread'[t].w
    BY DEF StartInv
  <2>1. thread'[t] = thread[t] /\ Starting(t) /\ thread[t].w \in Worker
    BY DEF Starting, IInv, TypeOK
  <2>2. AgeBound(t)' = AgeBound(t)
    BY <2>1 DEF AgeBound
  <2> QED
    BY <2>1, <2>2 DEF IInv, StartInv
<1>10. LifeInv'
  BY DEF IInv, LifeInv
<1>11. \A w \in Worker : Alive(w)' => Alive(w) /\ (w \in W => ~PromptExit /\ w \in termed')
  BY KillSignals
<1>12. PidInv'
  BY <1>3, <1>5, <1>11 DEF IInv, PidInv, Starting, TypeOK
<1>13. \A w \in Worker : Owner(w)' => Owner(w) /\ w \notin W
  BY <1>3, <1>4, <1>11, KillSignals DEF Owner
<1>14. PortInv'
  <2>1. ASSUME NEW w \in Worker, Owner(w)' PROVE worker'[w].port \in portsInUse'
    <3>1. Owner(w) /\ w \notin W
      BY <2>1, <1>13
    <3>2. \A v \in W : worker[v].port # worker[w].port
      BY <3>1 DEF IInv, PortInv, Target, Owner
    <3> QED
      BY <3>1, <3>2, <1>2 DEF IInv, PortInv
  <2> QED
    BY <2>1, <1>13, KillSignals DEF IInv, PortInv
<1>15. NoPortLeak'
  BY <1>2, <1>3 DEF IInv, NoPortLeak
<1>16. NoOrphan'
  BY <1>3, <1>11, KillSignals DEF IInv, NoOrphan
<1> QED
  BY <1>6, <1>7, <1>8, <1>9, <1>10, <1>12, <1>14, <1>15, <1>16

(* The invariant survives a step of threads alone that ends starts only    *)
(* after their wait, and begins them only for sids that nobody has.        *)
LEMMA ThreadKeeps ==
  ASSUME IInv, TypeOK', UNCHANGED <<mapVars, worker, procVars, lifeVars>>,
         \A t \in Thread : Starting(t)' => thread'[t] = thread[t],
         \A t \in Thread : Starting(t) => Starting(t)' \/ thread[t].pc = "wait",
         \A t \in Thread : Busy(t)' =>
           \/ thread'[t] = thread[t]
           \/ /\ thread'[t].pc = "ensure"
              /\ sessions[thread'[t].sid] = None
              /\ \A u \in Thread \ {t} : /\ thread'[u] = thread[u]
                                         /\ Busy(u) => thread[u].sid # thread'[t].sid,
         \A t \in Thread : \/ thread'[t].w \in {thread[t].w, None}
                           \/ ~EarlyClients => ~InStart(thread'[t].w)
  PROVE  IInv'
<1> USE DEF mapVars, procVars, lifeVars
<1>1. \A t \in Thread : Starting(t)' => thread'[t] = thread[t] /\ Starting(t) /\ thread[t].w \in Worker
  BY DEF Starting, IInv, TypeOK
<1>2. \A w \in Worker : InStart(w)' => InStart(w)
  BY <1>1 DEF InStart
<1>3. \A w \in Worker : Owner(w)' => Owner(w)
  BY <1>2 DEF Owner, Listed, Alive
<1>4. KeyInv'
  <2>1. \A t \in Thread : thread'[t].pc = "ensure" => sessions'[thread'[t].sid] = None
    BY DEF IInv, KeyInv, Busy
  <2>2. \A t, u \in Thread : Busy(t)' /\ Busy(u)' /\ t # u => thread'[t].sid # thread'[u].sid
    BY DEF IInv, KeyInv, Busy, Starting
  <2> QED
    BY <1>1, <2>1, <2>2 DEF IInv, KeyInv
<1>5. StartKeepsEntry'
  BY <1>1 DEF IInv, StartKeepsEntry
<1>6. StartInv'
  <2> SUFFICES ASSUME NEW t \in Thread, Starting(t)'
               PROVE  /\ AgeBound(t)' <= LongestStart
                      /\ thread'[t].pc # "wait" => thread'[t].clock <= SchedDelay
                      /\ worker'[thread'[t].w].idle <= AgeBound(t)'
                      /\ worker'[thread'[t].w].down <= AgeBound(t)'
                      /\ ~EarlyClients => /\ ~worker'[thread'[t].w].ws
                                          /\ \A u \in Thread \ {t} : thread'[u].w # thread'[t].w
    BY DEF StartInv
  <2>1. thread'[t] = thread[t] /\ Starting(t) /\ thread[t].w \in Worker
    BY <1>1
  <2>2. AgeBound(t)' = AgeBound(t)
    BY <2>1 DEF AgeBound
  <2>3. InStart(thread[t].w)
    BY <2>1 DEF InStart
  <2>4. ASSUME ~EarlyClients, NEW u \in Thread \ {t} PROVE thread'[u].w # thread'[t].w
    BY <2>1, <2>3, <2>4 DEF IInv, StartInv
  <2> QED
    BY <2>1, <2>2, <2>4 DEF IInv, StartInv
<1>7. LifeInv'
  BY DEF IInv, LifeInv
<1>8. PidInv'
  <2>1. \A t \in Thread : /\ thread'[t].pc = "wait" => worker'[thread'[t].w].pid
                          /\ (thread[t].pc = "fork" => ~Alive(thread[t].w))'
    BY <1>1 DEF IInv, PidInv, Starting, Alive
  <2>2. ASSUME NEW w \in Worker, main' # "stopped", Listed(w)', ~InStart(w)'
        PROVE  worker'[w].pid
    <3>1. CASE InStart(w)
      BY <2>2, <3>1 DEF InStart, IInv, PidInv
    <3>2. CASE ~InStart(w)
      BY <2>2, <3>2 DEF Listed, IInv, PidInv
    <3> QED
      BY <3>1, <3>2
  <2> QED
    BY <2>1, <2>2 DEF PidInv
<1>9. PortInv'
  BY <1>3 DEF IInv, PortInv
<1>10. NoPortLeak'
  BY DEF IInv, NoPortLeak, Listed
<1>11. NoOrphan'
  BY DEF IInv, NoOrphan, Alive, Listed
<1> QED
  BY <1>4, <1>5, <1>6, <1>7, <1>8, <1>9, <1>10, <1>11 DEF IInv

LEMMA PageLoadKeeps ==
  ASSUME Calm, IInv, TypeOK', NEW t \in Thread, NEW s \in Sid, NEW a \in App,
         PageLoad(t, s, a)
  PROVE  IInv'
<1>1. /\ thread[t].pc = "idle" /\ sessions[s] = None
      /\ \A u \in Thread : thread[u].sid # s
  BY DEF PageLoad, Calm
<1>2. /\ thread'[t] = [Idle EXCEPT !.pc = "ensure", !.sid = s, !.app = a]
      /\ \A u \in Thread \ {t} : thread'[u] = thread[u]
  BY DEF PageLoad, IInv, TypeOK
<1>3. thread'[t].pc = "ensure" /\ thread'[t].sid = s /\ thread'[t].w = None
  BY <1>2 DEF Idle
<1>4. \A u \in Thread : Starting(u)' => thread'[u] = thread[u]
  BY <1>2, <1>3 DEF Starting
<1>5. \A u \in Thread : Starting(u) => Starting(u)'
  BY <1>1, <1>2 DEF Starting
<1>6. UNCHANGED <<mapVars, worker, procVars, lifeVars>>
  BY DEF PageLoad
<1> QED
  BY <1>1, <1>2, <1>3, <1>4, <1>5, <1>6, ThreadKeeps

LEMMA LeaveKeeps ==
  ASSUME Calm, IInv, TypeOK', NEW t \in Thread,
         UNCHANGED <<mapVars, worker, procVars, lifeVars>>,
         thread[t].pc \notin {"fork", "setpid"},
         \A u \in Thread \ {t} : thread'[u] = thread[u],
         thread'[t].pc \in {"idle", "held"},
         \/ thread'[t].w \in {thread[t].w, None}
         \/ ~EarlyClients => ~InStart(thread'[t].w)
  PROVE  IInv'
<1>1. \A u \in Thread : Busy(u)' => thread'[u] = thread[u] /\ u # t
  BY DEF Busy, Starting
<1>2. \A u \in Thread : Starting(u) => Starting(u)' \/ thread[u].pc = "wait"
  BY DEF Starting
<1>3. \A u \in Thread : Starting(u)' => Busy(u)'
  BY DEF Busy
<1> QED
  BY <1>1, <1>2, <1>3, ThreadKeeps

(* The same of a killing step: the thread part of KillKeeps.               *)
LEMMA KillSessionKeeps ==
  ASSUME Calm, IInv, TypeOK', main # "stopped", NEW s \in Sid, KillSession(s)
  PROVE  IInv'
<1> DEFINE w == sessions[s]
<1>1. w \in Worker /\ Listed(w) /\ ~InStart(w)
  BY DEF KillSession, AdminMayTarget, Calm, IInv, TypeOK, Listed
<1>2. Target(w)
  BY <1>1 DEF Target, IInv, PidInv, KeyInv
<1>3. \A t \in Thread : Starting(t) => thread[t].w # w
  BY <1>1 DEF InStart
<1>4. UNCHANGED <<worker, thread, running, main, reaper>> /\ KillWorkers({w})
  BY DEF KillSession, lifeVars
<1>5. \A t \in Thread : Starting(t)' = Starting(t) /\ Busy(t)' = Busy(t)
  BY <1>4 DEF Starting, Busy
<1>6. KeyInv'
  BY <1>1, <1>2, <1>3, <1>4, <1>5, KillKeeps, KillErases DEF KeyInv, IInv, TypeOK, Busy
<1> QED
  BY <1>1, <1>2, <1>3, <1>4, <1>5, <1>6, KillKeeps DEF IInv

LEMMA RestartKeeps ==
  ASSUME Calm, IInv, TypeOK', main # "stopped", NEW t \in Thread, NEW s \in Sid,
         RestartSession(t, s)
  PROVE  IInv'
<1> DEFINE w == sessions[s]
<1>1. w \in Worker /\ Listed(w) /\ ~InStart(w)
  BY DEF RestartSession, AdminMayTarget, Calm, IInv, TypeOK, Listed
<1>2. Target(w)
  BY <1>1 DEF Target, IInv, PidInv, KeyInv
<1>3. \A u \in Thread : Starting(u) => thread[u].w # w
  BY <1>1 DEF InStart
<1>4. UNCHANGED <<worker, running, main, reaper>> /\ KillWorkers({w})
  BY DEF RestartSession, lifeVars
<1>5. /\ thread[t].pc = "idle"
      /\ thread'[t].pc = "ensure" /\ thread'[t].sid = s /\ thread'[t].w = None
      /\ \A u \in Thread \ {t} : thread'[u] = thread[u]
  BY DEF RestartSession, Idle, IInv, TypeOK
<1>6. \A u \in Thread : /\ Starting(u)' = Starting(u)
                        /\ Busy(u)' <=> u = t \/ Busy(u)
  BY <1>5 DEF Starting, Busy
<1>7. \A u \in Thread : Starting(u) => u # t
  BY <1>5 DEF Starting
<1>8. \A u \in Thread : Busy(u) => thread[u].sid # s
  <2>1. ASSUME NEW u \in Thread, Busy(u), thread[u].sid = s PROVE FALSE
    <3>1. thread[u].pc # "ensure"
      BY <2>1, <1>1 DEF IInv, KeyInv
    <3>2. Starting(u)
      BY <2>1, <3>1 DEF Busy
    <3>3. w = thread[u].w
      BY <2>1, <3>2, <1>1 DEF IInv, KeyInv
    <3> QED
      BY <3>2, <3>3, <1>3
  <2> QED
    BY <2>1
<1>9. \A r \in Sid : sessions'[r] = IF sessions[r] = w THEN None ELSE sessions[r]
  BY <1>1, <1>2, <1>4, KillErases
<1>10. /\ \A r \in Sid : sessions'[r] # None => worker'[sessions'[r]].sid = r
       /\ \A u \in Thread : Starting(u)' =>
            /\ worker'[thread'[u].w].sid = thread'[u].sid
            /\ sessions'[thread'[u].sid] \in {thread'[u].w, None}
       /\ StartKeepsEntry' /\ StartInv' /\ LifeInv' /\ PidInv' /\ PortInv'
       /\ NoPortLeak' /\ NoOrphan'
  BY <1>1, <1>2, <1>3, <1>4, <1>5, <1>6, <1>7, KillKeeps
<1>11. \A u \in Thread : thread'[u].pc = "ensure" => sessions'[thread'[u].sid] = None
  <2>1. ASSUME NEW u \in Thread \ {t}, thread'[u].pc = "ensure"
        PROVE  thread[u].sid \in Sid /\ sessions[thread[u].sid] = None
    BY <2>1, <1>5 DEF IInv, KeyInv, TypeOK, Busy
  <2> QED
    BY <2>1, <1>5, <1>9
<1>12. \A u, v \in Thread : Busy(u)' /\ Busy(v)' /\ u # v => thread'[u].sid # thread'[v].sid
  BY <1>5, <1>6, <1>8 DEF IInv, KeyInv
<1> QED
  BY <1>10, <1>11, <1>12 DEF IInv, KeyInv

LEMMA SweepKeeps ==
  ASSUME Calm, IInv, TypeOK', ReaperSweep
  PROVE  IInv'
<1> DEFINE W == {w \in Worker : Listed(w) /\ Expired(w)}
<1>1. \A t \in Thread : Starting(t) => ~Expired(thread[t].w)
  <2> SUFFICES ASSUME NEW t \in Thread, Starting(t) PROVE ~Expired(thread[t].w)
    OBVIOUS
  <2>1. thread[t].w \in Worker
    BY DEF Starting, IInv, TypeOK
  <2>2. /\ worker[thread[t].w].idle \in Nat /\ worker[thread[t].w].down \in Nat
        /\ thread[t].clock \in Nat
    BY <2>1 DEF IInv, TypeOK, WorkerRecord, ThreadRecord
  <2>3. worker[thread[t].w].idle <= LongestStart /\ worker[thread[t].w].down <= LongestStart
    BY <2>2 DEF IInv, StartInv, AgeBound, LongestStart
  <2> QED
    BY <2>2, <2>3 DEF Expired, Deserted, Calm, IInv, StartInv, LongestStart
<1>2. \A w \in W : ~InStart(w)
  BY <1>1 DEF InStart
<1>3. main # "stopped"
  BY DEF ReaperSweep, IInv, LifeInv
<1>4. \A w \in W : Target(w)
  BY <1>2, <1>3 DEF Target, IInv, PidInv, KeyInv, Listed
<1>5. UNCHANGED <<worker, thread, running, main>> /\ KillWorkers(W) /\ reaper' = "sleep" /\ reaper = "sweep"
  BY DEF ReaperSweep
<1>6. \A t \in Thread : Starting(t)' = Starting(t) /\ Busy(t)' = Busy(t)
  BY <1>5 DEF Starting, Busy
<1>7. \A t \in Thread : Starting(t) => thread[t].w \notin W
  BY <1>1
<1>8. W \in SUBSET Worker
  OBVIOUS
<1>9. KeyInv' /\ StartKeepsEntry' /\ StartInv' /\ LifeInv' /\ PidInv' /\ PortInv' /\ NoPortLeak' /\ NoOrphan'
  <2> HIDE DEF W
  <2>1. \A s \in Sid : sessions'[s] = IF sessions[s] \in W THEN None ELSE sessions[s]
    BY <1>4, <1>5, <1>8, KillErases
  <2>2. /\ \A s \in Sid : sessions'[s] # None => worker'[sessions'[s]].sid = s
        /\ \A u \in Thread : Starting(u)' =>
             /\ worker'[thread'[u].w].sid = thread'[u].sid
             /\ sessions'[thread'[u].sid] \in {thread'[u].w, None}
        /\ StartKeepsEntry' /\ StartInv' /\ LifeInv' /\ PidInv' /\ PortInv'
        /\ NoPortLeak' /\ NoOrphan'
    BY <1>3, <1>4, <1>5, <1>6, <1>7, <1>8, KillKeeps
  <2>3. KeyInv'
    BY <2>1, <2>2, <1>5, <1>6 DEF KeyInv, IInv, TypeOK, Busy
  <2> QED
    BY <2>2, <2>3
<1> QED
  BY <1>9 DEF IInv

LEMMA TimeoutKeeps ==
  ASSUME Calm, IInv, TypeOK', main # "stopped", NEW t \in Thread, WaitTimeout(t)
  PROVE  IInv'
<1> DEFINE w == thread[t].w
<1>1. /\ thread[t].pc = "wait" /\ Starting(t) /\ w \in Worker
      /\ KillWorkers({w}) /\ UNCHANGED <<worker, running, main, reaper>>
  BY DEF WaitTimeout, Starting, IInv, TypeOK, lifeVars
<1>2. /\ thread'[t].pc = "idle" /\ thread'[t].w = None
      /\ \A u \in Thread \ {t} : thread'[u] = thread[u]
  BY DEF WaitTimeout, Idle, IInv, TypeOK
<1>3. thread[t].sid \in Sid /\ worker[w].sid = thread[t].sid
  BY <1>1 DEF IInv, TypeOK, KeyInv, Busy
<1>4. Target(w)
  BY <1>1, <1>3 DEF Target, IInv, KeyInv, PidInv, InStart
<1>5. \A u \in Thread \ {t} : Starting(u) => thread[u].w # w
  BY <1>1, <1>3 DEF IInv, KeyInv, Busy
<1>6. \A u \in Thread : /\ Starting(u)' <=> Starting(u) /\ u # t
                        /\ Busy(u)' <=> Busy(u) /\ u # t
  BY <1>1, <1>2 DEF Starting, Busy
<1>7. \A s \in Sid : sessions'[s] = IF sessions[s] = w THEN None ELSE sessions[s]
  BY <1>1, <1>4, KillErases
<1>8. /\ \A s \in Sid : sessions'[s] # None => worker'[sessions'[s]].sid = s
      /\ \A u \in Thread : Starting(u)' =>
           /\ worker'[thread'[u].w].sid = thread'[u].sid
           /\ sessions'[thread'[u].sid] \in {thread'[u].w, None}
      /\ StartKeepsEntry' /\ StartInv' /\ LifeInv' /\ PidInv' /\ PortInv'
      /\ NoPortLeak' /\ NoOrphan'
  BY <1>1, <1>2, <1>4, <1>5, <1>6, KillKeeps
<1>9. \A u \in Thread : thread'[u].pc = "ensure" => sessions'[thread'[u].sid] = None
  <2>1. ASSUME NEW u \in Thread \ {t}, thread'[u].pc = "ensure"
        PROVE  thread[u].sid \in Sid /\ sessions[thread[u].sid] = None
    BY <2>1, <1>2 DEF IInv, KeyInv, TypeOK, Busy
  <2> QED
    BY <2>1, <1>2, <1>7
<1>10. \A u, v \in Thread : Busy(u)' /\ Busy(v)' /\ u # v => thread'[u].sid # thread'[v].sid
  BY <1>2, <1>6 DEF IInv, KeyInv
<1> QED
  BY <1>8, <1>9, <1>10 DEF IInv, KeyInv

LEMMA SpawnKeeps ==
  ASSUME Calm, IInv, TypeOK', main # "stopped", NEW t \in Thread, EnsureCreate(t)
  PROVE  IInv'
<1>1. PICK p \in Port \ portsInUse, w \in Worker :
        /\ Unused(w)
        /\ portsInUse' = portsInUse \cup {p}
        /\ sessions' = [sessions EXCEPT ![thread[t].sid] = w]
        /\ worker' = [worker EXCEPT ![w] = NewWorker(thread[t].sid, thread[t].app, p)]
        /\ thread' = [thread EXCEPT ![t] = [@ EXCEPT !.pc = "fork", !.w = w, !.clock = 0]]
  BY SpawnEffect
<1>2. /\ thread[t].pc = "ensure" /\ sessions[thread[t].sid] = None
      /\ UNCHANGED <<proc, termed, running, main, reaper>>
  BY SpawnEffect DEF procVars, lifeVars
<1> DEFINE s == thread[t].sid
<1>3. s \in Sid /\ Busy(t)
  BY <1>2 DEF IInv, TypeOK, Busy
<1>4. ~Listed(w) /\ ~InStart(w) /\ ~Alive(w) /\ \A u \in Thread : thread[u].w # w
  BY <1>1 DEF Unused, Referred, InStart, Alive
<1>5. /\ sessions'[s] = w
      /\ \A r \in Sid \ {s} : sessions'[r] = sessions[r] /\ sessions[r] # w
  BY <1>1, <1>3, <1>4 DEF IInv, TypeOK, Listed
<1>6. /\ worker'[w].sid = s /\ worker'[w].port = p /\ worker'[w].idle = 0
      /\ worker'[w].down = 0 /\ worker'[w].ws = FALSE
      /\ \A v \in Worker \ {w} : worker'[v] = worker[v]
  BY <1>1 DEF IInv, TypeOK, NewWorker
<1>7. /\ thread'[t].pc = "fork" /\ thread'[t].w = w /\ thread'[t].sid = s
      /\ thread'[t].clock = 0
      /\ \A u \in Thread \ {t} : thread'[u] = thread[u]
  BY <1>1 DEF IInv, TypeOK, ThreadRecord
<1>8. \A u \in Thread : /\ Starting(u)' <=> u = t \/ Starting(u)
                        /\ Busy(u)' <=> Busy(u)
                        /\ Starting(u) => u # t /\ thread[u].w \in Worker \ {w}
  BY <1>2, <1>3, <1>4, <1>7 DEF Starting, Busy, IInv, TypeOK
<1>9. \A v \in Worker \ {w} : /\ Listed(v)' <=> Listed(v)
                              /\ InStart(v)' <=> InStart(v)
  <2>1. \A v \in Worker \ {w} : Listed(v)' <=> Listed(v)
    BY <1>2, <1>3, <1>5 DEF Listed, ConstantsOK
  <2>2. \A v \in Worker \ {w} : InStart(v)' <=> InStart(v)
    BY <1>7, <1>8 DEF InStart
  <2> QED
    BY <2>1, <2>2
<1>10. Listed(w)'
  BY <1>3, <1>5 DEF Listed
<1>11. \A v \in Worker : Alive(v)' <=> Alive(v)
  BY <1>2 DEF Alive
<1>12. KeyInv'
  <2>1. \A r \in Sid : sessions'[r] # None => worker'[sessions'[r]].sid = r
    BY <1>3, <1>5, <1>6 DEF IInv, TypeOK, KeyInv
  <2>2. \A u \in Thread : thread'[u].pc = "ensure" => sessions'[thread'[u].sid] = None
    BY <1>3, <1>5, <1>7 DEF IInv, TypeOK, KeyInv, Busy
  <2>3. ASSUME NEW u \in Thread, Starting(u)'
        PROVE  /\ worker'[thread'[u].w].sid = thread'[u].sid
               /\ sessions'[thread'[u].sid] \in {thread'[u].w, None}
    <3>1. CASE u = t
      BY <3>1, <1>5, <1>6, <1>7
    <3>2. CASE u # t
      <4>1. Starting(u) /\ Busy(u) /\ thread[u].sid \in Sid \ {s}
        BY <2>3, <3>2, <1>3, <1>8 DEF IInv, TypeOK, KeyInv, Busy
      <4> QED
        BY <4>1, <3>2, <1>5, <1>6, <1>7, <1>8 DEF IInv, KeyInv
    <3> QED
      BY <3>1, <3>2
  <2>4. \A u, v \in Thread : Busy(u)' /\ Busy(v)' /\ u # v => thread'[u].sid # thread'[v].sid
    BY <1>7, <1>8 DEF IInv, KeyInv
  <2> QED
    BY <2>1, <2>2, <2>3, <2>4 DEF KeyInv
<1>13. StartKeepsEntry'
  <2> SUFFICES ASSUME running', NEW u \in Thread, Starting(u)'
               PROVE  sessions'[thread'[u].sid] = thread'[u].w
    BY DEF StartKeepsEntry
  <2>1. CASE u = t
    BY <2>1, <1>5, <1>7
  <2>2. CASE u # t
    <3>1. Starting(u) /\ Busy(u) /\ thread[u].sid \in Sid \ {s}
      BY <2>2, <1>3, <1>8 DEF IInv, TypeOK, KeyInv, Busy
    <3> QED
      BY <3>1, <2>2, <1>2, <1>5, <1>7 DEF IInv, StartKeepsEntry
  <2> QED
    BY <2>1, <2>2
<1>14. StartInv'
  <2> SUFFICES ASSUME NEW u \in Thread, Starting(u)'
               PROVE  /\ AgeBound(u)' <= LongestStart
                      /\ thread'[u].pc # "wait" => thread'[u].clock <= SchedDelay
                      /\ worker'[thread'[u].w].idle <= AgeBound(u)'
                      /\ worker'[thread'[u].w].down <= AgeBound(u)'
                      /\ ~EarlyClients => /\ ~worker'[thread'[u].w].ws
                                          /\ \A v \in Thread \ {u} : thread'[v].w # thread'[u].w
    BY DEF StartInv
  <2>1. CASE u = t
    <3>1. AgeBound(u)' = 0
      BY <2>1, <1>7 DEF AgeBound
    <3>2. 0 <= LongestStart /\ 0 <= SchedDelay
      BY DEF LongestStart
    <3> QED
      BY <2>1, <3>1, <3>2, <1>4, <1>6, <1>7
  <2>2. CASE u # t
    <3>1. Starting(u) /\ thread'[u] = thread[u] /\ thread[u].w \in Worker \ {w}
      BY <2>2, <1>7, <1>8
    <3>2. AgeBound(u)' = AgeBound(u)
      BY <3>1 DEF AgeBound
    <3>3. ~EarlyClients => \A v \in Thread \ {u} : thread'[v].w # thread[u].w
      BY <3>1, <1>7 DEF IInv, StartInv
    <3> QED
      BY <3>1, <3>2, <3>3, <1>6 DEF IInv, StartInv
  <2> QED
    BY <2>1, <2>2
<1>15. LifeInv'
  BY <1>2 DEF IInv, LifeInv
<1>16. PidInv'
  <2>1. ASSUME NEW u \in Thread
        PROVE  /\ thread'[u].pc = "wait" => worker'[thread'[u].w].pid
               /\ (thread[u].pc = "fork" => ~Alive(thread[u].w))'
    <3>1. CASE u = t
      BY <3>1, <1>2, <1>4, <1>7 DEF Alive
    <3>2. CASE u # t
      BY <3>2, <1>2, <1>6, <1>7, <1>8 DEF IInv, PidInv, Starting, Alive
    <3> QED
      BY <3>1, <3>2
  <2>2. InStart(w)'
    BY <1>7, <1>8 DEF InStart
  <2>3. main' # "stopped" => \A v \in Worker : Listed(v)' /\ ~InStart(v)' => worker'[v].pid
    BY <2>2, <1>2, <1>6, <1>9 DEF IInv, PidInv
  <2> QED
    BY <2>1, <2>3 DEF PidInv
<1>17. \A v \in Worker \ {w} : Owner(v)' => Owner(v) /\ worker'[v].port = worker[v].port
  BY <1>2, <1>6, <1>9, <1>11 DEF Owner
<1>18. PortInv'
  <2>1. \A v \in Worker \ {w} : Owner(v)' => worker'[v].port \in portsInUse /\ worker'[v].port # p
    BY <1>17 DEF IInv, PortInv
  <2>2. \A v \in Worker : Owner(v)' => worker'[v].port \in portsInUse'
    BY <2>1, <1>1, <1>6
  <2>3. \A v, x \in Worker : Owner(v)' /\ Owner(x)' /\ v # x => worker'[v].port # worker'[x].port
    BY <2>1, <1>6, <1>17 DEF IInv, PortInv
  <2> QED
    BY <2>2, <2>3, <1>2 DEF IInv, PortInv
<1>19. NoPortLeak'
  BY <1>1, <1>2, <1>4, <1>6, <1>9, <1>10 DEF IInv, NoPortLeak
<1>20. NoOrphan'
  BY <1>2, <1>9, <1>10, <1>11 DEF IInv, NoOrphan
<1> QED
  BY <1>12, <1>13, <1>14, <1>15, <1>16, <1>18, <1>19, <1>20 DEF IInv

LEMMA ForkKeeps ==
  ASSUME Calm, IInv, TypeOK', NEW t \in Thread, Fork(t)
  PROVE  IInv'
<1> DEFINE w == thread[t].w
<1>1. /\ thread[t].pc = "fork" /\ Starting(t) /\ Busy(t) /\ w \in Worker
      /\ thread[t].sid \in Sid
      /\ UNCHANGED <<sessions, portsInUse, worker, termed, running, main, reaper>>
  BY DEF Fork, Starting, Busy, IInv, TypeOK, mapVars, lifeVars
<1>2. /\ thread'[t] = [thread[t] EXCEPT !.pc = "setpid"]
      /\ \A u \in Thread \ {t} : thread'[u] = thread[u]
  BY DEF Fork, IInv, TypeOK
<1>3. \A u \in Thread : /\ thread'[u].w = thread[u].w /\ thread'[u].sid = thread[u].sid
                        /\ thread'[u].clock = thread[u].clock
                        /\ thread'[u].pc = IF u = t THEN "setpid" ELSE thread[u].pc
  BY <1>2 DEF IInv, TypeOK, ThreadRecord
<1>4. \A u \in Thread : Starting(u)' = Starting(u) /\ Busy(u)' = Busy(u) /\ AgeBound(u)' = AgeBound(u)
  BY <1>1, <1>3 DEF Starting, Busy, AgeBound
<1>5. /\ \A v \in Worker : Listed(v)' = Listed(v)
      /\ \A v \in Worker : InStart(v)' = InStart(v)
      /\ \A v \in Worker \ {w} : Alive(v)' = Alive(v)
      /\ InStart(w)
  BY <1>1, <1>3, <1>4 DEF Listed, InStart, Alive, Fork, IInv, TypeOK
<1>6. KeyInv'
  BY <1>1, <1>3, <1>4 DEF IInv, KeyInv
<1>7. StartKeepsEntry' /\ LifeInv'
  BY <1>1, <1>3, <1>4 DEF IInv, StartKeepsEntry, LifeInv
<1>8. StartInv'
  BY <1>1, <1>3, <1>4 DEF IInv, StartInv
<1>9. PidInv'
  <2>1. \A u \in Thread \ {t} : Starting(u) => thread[u].w # w
    BY <1>1 DEF IInv, KeyInv, Busy
  <2>2. \A u \in Thread : (thread[u].pc = "fork" => ~Alive(thread[u].w))'
    BY <2>1, <1>1, <1>3, <1>5 DEF IInv, TypeOK, PidInv, Starting
  <2> QED
    BY <2>2, <1>1, <1>3, <1>5 DEF IInv, PidInv
<1>10. \A v \in Worker : Owner(v)' => Owner(v)
  BY <1>1, <1>5 DEF Owner
<1>11. PortInv'
  BY <1>1, <1>10 DEF IInv, PortInv
<1>12. NoPortLeak'
  BY <1>1, <1>5 DEF IInv, NoPortLeak
<1>13. NoOrphan'
  <2>1. running => Listed(w)
    BY <1>1 DEF IInv, StartKeepsEntry, Listed
  <2> QED
    BY <2>1, <1>1, <1>5 DEF IInv, NoOrphan
<1> QED
  BY <1>6, <1>7, <1>8, <1>9, <1>11, <1>12, <1>13 DEF IInv

LEMMA ForkFailKeeps ==
  ASSUME Calm, IInv, TypeOK', NEW t \in Thread, ForkFail(t)
  PROVE  IInv'
<1> DEFINE w == thread[t].w
           s == thread[t].sid
<1>1. /\ thread[t].pc = "fork" /\ Starting(t) /\ Busy(t) /\ w \in Worker /\ s \in Sid
      /\ ~Alive(w) /\ worker[w].sid = s /\ sessions[s] \in {w, None}
      /\ portsInUse' = portsInUse \ {worker[w].port}
      /\ UNCHANGED <<worker, proc, termed, running, main, reaper>>
  BY DEF ForkFail, Starting, Busy, IInv, TypeOK, PidInv, KeyInv, procVars, lifeVars
<1>2. /\ thread'[t].pc = "idle" /\ thread'[t].w = None
      /\ \A u \in Thread \ {t} : thread'[u] = thread[u]
  BY DEF ForkFail, Idle, IInv, TypeOK
<1>3. \A u \in Thread : /\ Starting(u)' <=> Starting(u) /\ u # t
                        /\ Busy(u)' <=> Busy(u) /\ u # t
  BY <1>1, <1>2 DEF Starting, Busy
<1>4. \A r \in Sid : sessions'[r] = IF r = s THEN None ELSE sessions[r]
  BY <1>1 DEF ForkFail, IInv, TypeOK
<1>5. \A r \in Sid : sessions[r] = w => r = s
  BY <1>1 DEF IInv, KeyInv, TypeOK
<1>6. \A v \in Worker : /\ Listed(v)' <=> Listed(v) /\ v # w
                        /\ Alive(v)' = Alive(v)
  BY <1>1, <1>4, <1>5 DEF Listed, Alive, IInv, TypeOK
<1>7. \A u \in Thread \ {t} : Starting(u) => thread[u].w # w /\ thread[u].sid \in Sid \ {s}
  BY <1>1 DEF IInv, KeyInv, TypeOK, Busy
<1>8. \A v \in Worker : InStart(v)' <=> InStart(v) /\ v # w
  BY <1>1, <1>2, <1>3, <1>7 DEF InStart
<1>9. KeyInv'
  <2>1. \A r \in Sid : sessions'[r] # None => worker'[sessions'[r]].sid = r
    BY <1>1, <1>4 DEF IInv, KeyInv
  <2>2. \A u \in Thread : thread'[u].pc = "ensure" => sessions'[thread'[u].sid] = None
    BY <1>2, <1>4 DEF IInv, KeyInv, TypeOK, Busy
  <2>3. \A u \in Thread : Starting(u)' =>
          /\ worker'[thread'[u].w].sid = thread'[u].sid
          /\ sessions'[thread'[u].sid] \in {thread'[u].w, None}
    BY <1>1, <1>2, <1>3, <1>4, <1>7 DEF IInv, KeyInv
  <2>4. \A u, v \in Thread : Busy(u)' /\ Busy(v)' /\ u # v => thread'[u].sid # thread'[v].sid
    BY <1>2, <1>3 DEF IInv, KeyInv
  <2> QED
    BY <2>1, <2>2, <2>3, <2>4 DEF KeyInv
<1>10. StartKeepsEntry' /\ LifeInv'
  BY <1>1, <1>2, <1>3, <1>4, <1>7 DEF IInv, StartKeepsEntry, LifeInv
<1>11. StartInv'
  <2> SUFFICES ASSUME NEW u \in Thread, Starting(u)'
               PROVE  /\ AgeBound(u)' <= LongestStart
                      /\ thread'[u].pc # "wait" => thread'[u].clock <= SchedDelay
                      /\ worker'[thread'[u].w].idle <= AgeBound(u)'
                      /\ worker'[thread'[u].w].down <= AgeBound(u)'
                      /\ ~EarlyClients => /\ ~worker'[thread'[u].w].ws
                                          /\ \A v \in Thread \ {u} : thread'[v].w # thread'[u].w
    BY DEF StartInv
  <2>1. u # t /\ Starting(u) /\ thread'[u] = thread[u] /\ thread[u].w \in Worker
    BY <1>2, <1>3 DEF IInv, TypeOK, Starting
  <2>2. AgeBound(u)' = AgeBound(u)
    BY <2>1 DEF AgeBound
  <2>3. ~EarlyClients => \A v \in Thread \ {u} : thread'[v].w # thread'[u].w
    BY <2>1, <1>2 DEF IInv, StartInv
  <2> QED
    BY <2>1, <2>2, <2>3, <1>1 DEF IInv, StartInv
<1>12. PidInv'
  <2>1. \A u \in Thread : /\ thread'[u].pc = "wait" => worker'[thread'[u].w].pid
                          /\ (thread[u].pc = "fork" => ~Alive(thread[u].w))'
    BY <1>1, <1>2, <1>6 DEF IInv, PidInv, Alive
  <2> QED
    BY <2>1, <1>1, <1>6, <1>8 DEF IInv, PidInv
<1>13. \A v \in Worker : Owner(v)' => Owner(v) /\ v # w
  BY <1>1, <1>6, <1>8 DEF Owner
<1>14. Owner(w)
  BY <1>1 DEF Owner, InStart
<1>15. PortInv'
  BY <1>1, <1>13, <1>14 DEF IInv, PortInv
<1>16. NoPortLeak'
  BY <1>1, <1>6 DEF IInv, NoPortLeak
<1>17. NoOrphan'
  BY <1>1, <1>6 DEF IInv, NoOrphan
<1> QED
  BY <1>9, <1>10, <1>11, <1>12, <1>15, <1>16, <1>17 DEF IInv

LEMMA SetPidKeeps ==
  ASSUME Calm, IInv, TypeOK', NEW t \in Thread, SetPid(t)
  PROVE  IInv'
<1> DEFINE w == thread[t].w
<1>1. /\ thread[t].pc = "setpid" /\ Starting(t) /\ w \in Worker
      /\ UNCHANGED <<sessions, portsInUse, proc, termed, running, main, reaper>>
  BY DEF SetPid, Starting, IInv, TypeOK, mapVars, procVars, lifeVars
<1>2. /\ thread'[t] = [thread[t] EXCEPT !.pc = "wait", !.clock = 0]
      /\ \A u \in Thread \ {t} : thread'[u] = thread[u]
  BY DEF SetPid, IInv, TypeOK
<1>3. \A u \in Thread : /\ thread'[u].w = thread[u].w /\ thread'[u].sid = thread[u].sid
                        /\ thread'[u].clock = IF u = t THEN 0 ELSE thread[u].clock
                        /\ thread'[u].pc = IF u = t THEN "wait" ELSE thread[u].pc
  <2>1. /\ thread'[t].w = thread[t].w /\ thread'[t].sid = thread[t].sid
        /\ thread'[t].clock = 0 /\ thread'[t].pc = "wait"
    <3>1. thread[t] \in ThreadRecord
      BY DEF IInv, TypeOK
    <3> QED
      BY <1>2, <3>1 DEF ThreadRecord
  <2> QED
    BY <1>2, <2>1
<1>4. /\ worker'[w] = [worker[w] EXCEPT !.pid = TRUE]
      /\ \A v \in Worker \ {w} : worker'[v] = worker[v]
  BY <1>1 DEF SetPid, IInv, TypeOK
<1>5. /\ worker'[w].pid
      /\ \A v \in Worker : /\ worker[v].pid => worker'[v].pid
                           /\ worker'[v].sid = worker[v].sid /\ worker'[v].port = worker[v].port
                           /\ worker'[v].idle = worker[v].idle /\ worker'[v].down = worker[v].down
                           /\ worker'[v].ws = worker[v].ws
  BY <1>1, <1>4 DEF IInv, TypeOK, WorkerRecord
<1>6. \A u \in Thread : Starting(u)' = Starting(u) /\ Busy(u)' = Busy(u)
  BY <1>1, <1>3 DEF Starting, Busy
<1>7. \A v \in Worker : Listed(v)' = Listed(v) /\ InStart(v)' = InStart(v) /\ Alive(v)' = Alive(v)
  BY <1>1, <1>3, <1>6 DEF Listed, InStart, Alive
<1>8. KeyInv'
  <2>1. \A u \in Thread : Starting(u) => thread[u].w \in Worker
    BY DEF Starting, IInv, TypeOK
  <2>2. \A s \in Sid : sessions'[s] # None => worker'[sessions'[s]].sid = s
    BY <1>1, <1>5 DEF IInv, KeyInv, TypeOK
  <2>3. \A u \in Thread : thread'[u].pc = "ensure" => sessions'[thread'[u].sid] = None
    BY <1>1, <1>3 DEF IInv, KeyInv
  <2>4. \A u \in Thread : Starting(u)' =>
          /\ worker'[thread'[u].w].sid = thread'[u].sid
          /\ sessions'[thread'[u].sid] \in {thread'[u].w, None}
    BY <2>1, <1>1, <1>3, <1>5, <1>6 DEF IInv, KeyInv
  <2>5. \A u, v \in Thread : Busy(u)' /\ Busy(v)' /\ u # v => thread'[u].sid # thread'[v].sid
    BY <1>3, <1>6 DEF IInv, KeyInv
  <2> QED
    BY <2>2, <2>3, <2>4, <2>5 DEF KeyInv
<1>9. StartKeepsEntry' /\ LifeInv'
  BY <1>1, <1>3, <1>6 DEF IInv, StartKeepsEntry, LifeInv
<1>10. StartInv'
  <2> SUFFICES ASSUME NEW u \in Thread, Starting(u)'
               PROVE  /\ AgeBound(u)' <= LongestStart
                      /\ thread'[u].pc # "wait" => thread'[u].clock <= SchedDelay
                      /\ worker'[thread'[u].w].idle <= AgeBound(u)'
                      /\ worker'[thread'[u].w].down <= AgeBound(u)'
                      /\ ~EarlyClients => /\ ~worker'[thread'[u].w].ws
                                          /\ \A v \in Thread \ {u} : thread'[v].w # thread'[u].w
    BY DEF StartInv
  <2>1. Starting(u) /\ thread[u].w \in Worker
    BY <1>6 DEF Starting, IInv, TypeOK
  <2>2. /\ worker[thread[u].w].idle \in Nat /\ worker[thread[u].w].down \in Nat
        /\ thread[u].clock \in Nat
    BY <2>1 DEF IInv, TypeOK, WorkerRecord, ThreadRecord
  <2>3. /\ AgeBound(u)' <= LongestStart
        /\ worker[thread[u].w].idle <= AgeBound(u)'
        /\ worker[thread[u].w].down <= AgeBound(u)'
    <3>1. CASE u = t
      BY <3>1, <2>1, <2>2, <1>1, <1>3 DEF IInv, StartInv, AgeBound, LongestStart
    <3>2. CASE u # t
      BY <3>2, <2>1, <1>3 DEF IInv, StartInv, AgeBound
    <3> QED
      BY <3>1, <3>2
  <2> QED
    BY <2>1, <2>3, <1>3, <1>5 DEF IInv, StartInv
<1>11. PidInv'
  <2>1. \A u \in Thread : Starting(u) => thread[u].w \in Worker
    BY DEF Starting, IInv, TypeOK
  <2>2. \A u \in Thread : (thread[u].pc = "fork" => ~Alive(thread[u].w))'
    BY <2>1, <1>3, <1>7 DEF IInv, PidInv, Starting
  <2>3. \A u \in Thread : thread'[u].pc = "wait" => worker'[thread'[u].w].pid
    BY <2>1, <1>3, <1>5 DEF IInv, PidInv, Starting
  <2> QED
    BY <2>2, <2>3, <1>1, <1>5, <1>7 DEF IInv, PidInv
<1>12. \A v \in Worker : Owner(v)' = Owner(v)
  BY <1>1, <1>7 DEF Owner
<1>13. PortInv'
  BY <1>1, <1>5, <1>12 DEF IInv, PortInv
<1>14. NoPortLeak' /\ NoOrphan'
  BY <1>1, <1>5, <1>7 DEF IInv, NoPortLeak, NoOrphan
<1> QED
  BY <1>8, <1>9, <1>10, <1>11, <1>13, <1>14 DEF IInv

(* conn_opened() and conn_closed() stamp and count, no more.               *)
LEMMA CountKeeps ==
  ASSUME Calm, IInv, TypeOK', NEW t \in Thread,
         UNCHANGED <<mapVars, procVars, lifeVars>>,
         thread[t].pc \in {"held", "open"}, thread'[t].pc \in {"open", "idle"},
         thread'[t].w \in {thread[t].w, None},
         \A u \in Thread \ {t} : thread'[u] = thread[u],
         \A v \in Worker : /\ worker'[v].pid = worker[v].pid
                           /\ worker'[v].sid = worker[v].sid
                           /\ worker'[v].port = worker[v].port
                           /\ worker'[v].idle \in {0, worker[v].idle}
                           /\ worker'[v].down \in {0, worker[v].down}
                           /\ v # thread[t].w => worker'[v].ws = worker[v].ws
  PROVE  IInv'
<1>1. UNCHANGED <<sessions, portsInUse, proc, termed, running, main, reaper>>
  BY DEF mapVars, procVars, lifeVars
<1>2. \A u \in Thread : Starting(u)' = Starting(u) /\ Busy(u)' = Busy(u) /\ (Busy(u) => u # t)
  BY DEF Starting, Busy
<1>3. \A u \in Thread : Starting(u) => thread[u].w \in Worker /\ Busy(u)
  BY DEF Starting, Busy, IInv, TypeOK
<1>4. \A v \in Worker : Listed(v)' = Listed(v) /\ InStart(v)' = InStart(v) /\ Alive(v)' = Alive(v)
  BY <1>1, <1>2, <1>3 DEF Listed, InStart, Alive
<1>5. KeyInv'
  <2>1. \A s \in Sid : sessions'[s] # None => worker'[sessions'[s]].sid = s
    BY <1>1 DEF IInv, KeyInv, TypeOK
  <2>2. \A u \in Thread : thread'[u].pc = "ensure" => sessions'[thread'[u].sid] = None
    BY <1>1, <1>2 DEF IInv, KeyInv, Busy
  <2>3. \A u \in Thread : Starting(u)' =>
          /\ worker'[thread'[u].w].sid = thread'[u].sid
          /\ sessions'[thread'[u].sid] \in {thread'[u].w, None}
    BY <1>1, <1>2, <1>3 DEF IInv, KeyInv
  <2>4. \A u, v \in Thread : Busy(u)' /\ Busy(v)' /\ u # v => thread'[u].sid # thread'[v].sid
    BY <1>2 DEF IInv, KeyInv
  <2> QED
    BY <2>1, <2>2, <2>3, <2>4 DEF KeyInv
<1>6. StartKeepsEntry' /\ LifeInv'
  BY <1>1, <1>2, <1>3 DEF IInv, StartKeepsEntry, LifeInv
<1>7. StartInv'
  <2> SUFFICES ASSUME NEW u \in Thread, Starting(u)'
               PROVE  /\ AgeBound(u)' <= LongestStart
                      /\ thread'[u].pc # "wait" => thread'[u].clock <= SchedDelay
                      /\ worker'[thread'[u].w].idle <= AgeBound(u)'
                      /\ worker'[thread'[u].w].down <= AgeBound(u)'
                      /\ ~EarlyClients => /\ ~worker'[thread'[u].w].ws
                                          /\ \A v \in Thread \ {u} : thread'[v].w # thread'[u].w
    BY DEF StartInv
  <2>1. Starting(u) /\ u # t /\ thread'[u] = thread[u] /\ thread[u].w \in Worker
    BY <1>2, <1>3
  <2>2. AgeBound(u)' = AgeBound(u)
    BY <2>1 DEF AgeBound
  <2>3. 0 <= AgeBound(u)
    BY DEF AgeBound, IInv, TypeOK, ThreadRecord
  <2>4. worker'[thread[u].w].idle <= AgeBound(u) /\ worker'[thread[u].w].down <= AgeBound(u)
    BY <2>1, <2>3 DEF IInv, StartInv
  <2>5. ~EarlyClients => /\ ~worker'[thread[u].w].ws
                         /\ \A v \in Thread \ {u} : thread'[v].w # thread[u].w
    BY <2>1 DEF IInv, StartInv
  <2> QED
    BY <2>1, <2>2, <2>4, <2>5 DEF IInv, StartInv
<1>8. PidInv'
  <2>1. \A u \in Thread : (thread[u].pc = "fork" => ~Alive(thread[u].w))'
    BY <1>1 DEF IInv, PidInv, Alive
  <2>2. \A u \in Thread : thread'[u].pc = "wait" => worker'[thread'[u].w].pid
    BY <1>3 DEF IInv, PidInv, Starting
  <2> QED
    BY <2>1, <2>2, <1>1, <1>4 DEF IInv, PidInv
<1>9. PortInv'
  BY <1>1, <1>4 DEF IInv, PortInv, Owner
<1>10. NoPortLeak' /\ NoOrphan'
  BY <1>1, <1>4 DEF IInv, NoPortLeak, NoOrphan
<1> QED
  BY <1>5, <1>6, <1>7, <1>8, <1>9, <1>10 DEF IInv

LEMMA OpenedKeeps ==
  ASSUME Calm, IInv, TypeOK', NEW t \in Thread, NEW isWs \in BOOLEAN, ConnOpened(t, isWs)
  PROVE  IInv'
<1> DEFINE w == thread[t].w
<1>1. thread[t].pc = "held" /\ w \in Worker /\ worker[w] \in WorkerRecord
  BY DEF ConnOpened, IInv, TypeOK
<1>2. /\ thread'[t].pc = "open" /\ thread'[t].w = thread[t].w
      /\ \A u \in Thread \ {t} : thread'[u] = thread[u]
  BY DEF ConnOpened, IInv, TypeOK, ThreadRecord
<1>3. \A v \in Worker \ {w} : worker'[v] = worker[v]
  BY <1>1 DEF ConnOpened, IInv, TypeOK
<1>4. worker'[w] = [worker[w] EXCEPT !.conns = @ + 1, !.idle = 0, !.ws = @ \/ isWs]
  BY <1>1 DEF ConnOpened, IInv, TypeOK
<1>5. /\ worker'[w].pid = worker[w].pid /\ worker'[w].sid = worker[w].sid
      /\ worker'[w].port = worker[w].port /\ worker'[w].idle = 0
      /\ worker'[w].down = worker[w].down
  BY <1>1, <1>4 DEF WorkerRecord
<1>6. UNCHANGED <<mapVars, procVars, lifeVars>>
  BY DEF ConnOpened
<1> QED
  BY <1>1, <1>2, <1>3, <1>5, <1>6, CountKeeps

LEMMA ClosedKeeps ==
  ASSUME Calm, IInv, TypeOK', NEW t \in Thread, ConnClosed(t)
  PROVE  IInv'
<1> DEFINE w == thread[t].w
           left == IF worker[w].conns > 0 THEN worker[w].conns - 1 ELSE 0
<1>1. thread[t].pc = "open" /\ w \in Worker /\ worker[w] \in WorkerRecord
  BY DEF ConnClosed, IInv, TypeOK
<1>2. /\ thread'[t].pc = "idle" /\ thread'[t].w = None
      /\ \A u \in Thread \ {t} : thread'[u] = thread[u]
  BY DEF ConnClosed, IInv, TypeOK, Idle
<1>3. \A v \in Worker \ {w} : worker'[v] = worker[v]
  BY <1>1 DEF ConnClosed, IInv, TypeOK
<1>4. worker'[w] = [worker[w] EXCEPT !.conns = left, !.idle = 0,
                                     !.down = IF left = 0 THEN 0 ELSE @]
  BY <1>1 DEF ConnClosed, IInv, TypeOK
<1>5. /\ worker'[w].pid = worker[w].pid /\ worker'[w].sid = worker[w].sid
      /\ worker'[w].port = worker[w].port /\ worker'[w].idle = 0
      /\ worker'[w].down \in {0, worker[w].down}
  BY <1>1, <1>4 DEF WorkerRecord
<1>6. UNCHANGED <<mapVars, procVars, lifeVars>>
  BY DEF ConnClosed
<1> QED
  BY <1>1, <1>2, <1>3, <1>5, <1>6, CountKeeps

(* A process that starts to listen, ends or is collected.                  *)
LEMMA ProcKeeps ==
  ASSUME IInv, TypeOK', UNCHANGED <<mapVars, worker, thread, running, main>>,
         reaper = "exited" => reaper' = "exited",
         \A v \in Worker : Alive(v)' => Alive(v),
         \A v \in Worker : Alive(v)' /\ v \notin termed' => v \notin termed,
         termed' \subseteq termed
  PROVE  IInv'
<1> USE DEF mapVars
<1>1. \A u \in Thread : Starting(u)' = Starting(u) /\ Busy(u)' = Busy(u) /\ AgeBound(u)' = AgeBound(u)
  BY DEF Starting, Busy, AgeBound
<1>2. \A v \in Worker : Listed(v)' = Listed(v) /\ InStart(v)' = InStart(v)
  BY <1>1 DEF Listed, InStart
<1>3. KeyInv' /\ StartKeepsEntry' /\ LifeInv'
  BY <1>1 DEF IInv, KeyInv, StartKeepsEntry, LifeInv
<1>4. StartInv'
  BY <1>1 DEF IInv, StartInv
<1>5. PidInv'
  <2>1. \A u \in Thread : thread[u].pc = "fork" => thread[u].w \in Worker
    BY DEF IInv, TypeOK
  <2> QED
    BY <2>1, <1>2 DEF IInv, PidInv
<1>6. PortInv'
  BY <1>2 DEF IInv, PortInv, Owner
<1>7. NoPortLeak' /\ NoOrphan'
  BY <1>2 DEF IInv, NoPortLeak, NoOrphan
<1> QED
  BY <1>3, <1>4, <1>5, <1>6, <1>7 DEF IInv

LEMMA JoinedKeeps ==
  ASSUME IInv, TypeOK', Joined
  PROVE  IInv'
<1>1. /\ main' = "stopped" /\ reaper' = "exited" /\ ~running /\ ~running'
      /\ UNCHANGED <<sessions, portsInUse, worker, proc, termed>>
  BY DEF Joined, mapVars, procVars, IInv, LifeInv
<1>2. \A u \in Thread : thread'[u].pc = "idle"
  BY DEF Joined, Idle
<1>3. \A u \in Thread : ~Starting(u)' /\ ~Busy(u)'
  BY <1>2 DEF Starting, Busy
<1>4. \A v \in Worker : Owner(v)' => Owner(v)
  BY <1>1, <1>3 DEF Owner, Listed, InStart, Alive
<1>5. KeyInv' /\ StartKeepsEntry' /\ LifeInv' /\ StartInv'
  BY <1>1, <1>2, <1>3 DEF IInv, KeyInv, StartKeepsEntry, LifeInv, StartInv
<1>6. PidInv' /\ NoPortLeak' /\ NoOrphan'
  BY <1>1, <1>2 DEF PidInv, NoPortLeak, NoOrphan
<1>7. PortInv'
  BY <1>1, <1>4 DEF IInv, PortInv
<1> QED
  BY <1>5, <1>6, <1>7 DEF IInv

LEMMA StopKeeps ==
  ASSUME IInv, TypeOK', Stop
  PROVE  IInv'
<1>1. /\ running /\ ~running' /\ main' = "joining"
      /\ UNCHANGED <<portsInUse, worker, thread, reaper>>
  BY DEF Stop, IInv, TypeOK
<1>2. \A s \in Sid : sessions'[s] = None
  BY DEF Stop
<1>3. \A v \in Worker : ~Listed(v)'
  BY <1>2 DEF Listed, ConstantsOK
<1>4. /\ \A v \in Worker : Alive(v)' => Alive(v)
      /\ PromptExit => termed' = termed
      /\ termed \subseteq termed'
  BY DEF Stop, Terminate, Alive, IInv, TypeOK
<1>5. \A u \in Thread : Starting(u)' = Starting(u) /\ Busy(u)' = Busy(u) /\ AgeBound(u)' = AgeBound(u)
  BY <1>1 DEF Starting, Busy, AgeBound
<1>6. \A v \in Worker : InStart(v)' = InStart(v)
  BY <1>1, <1>5 DEF InStart
<1>7. KeyInv'
  BY <1>1, <1>2, <1>5 DEF IInv, KeyInv, TypeOK, Busy
<1>8. StartKeepsEntry' /\ LifeInv' /\ StartInv'
  BY <1>1, <1>5 DEF IInv, StartKeepsEntry, LifeInv, StartInv
<1>9. PidInv'
  <2>1. \A u \in Thread : thread[u].pc = "fork" => thread[u].w \in Worker
    BY DEF IInv, TypeOK
  <2> QED
    BY <2>1, <1>1, <1>3, <1>4 DEF IInv, PidInv
<1>10. PortInv'
  BY <1>1, <1>3, <1>4, <1>6 DEF IInv, PortInv, Owner
<1>11. NoPortLeak' /\ NoOrphan'
  BY <1>1 DEF NoPortLeak, NoOrphan
<1> QED
  BY <1>7, <1>8, <1>9, <1>10, <1>11 DEF IInv

LEMMA OlderBound ==
  ASSUME NEW a \in Nat, NEW b \in Nat, NEW limit \in Nat, a <= b
  PROVE  a <= b + 1 /\ Older(a, limit) <= b + 1
BY DEF Older

LEMMA TickKeeps ==
  ASSUME Calm, IInv, TypeOK', Tick
  PROVE  IInv'
<1>1. UNCHANGED <<sessions, portsInUse, proc, termed, running, main, reaper>>
  BY DEF Tick, mapVars, procVars, lifeVars
<1>2. \A u \in Thread :
        /\ thread'[u].pc = thread[u].pc /\ thread'[u].sid = thread[u].sid
        /\ thread'[u].w = thread[u].w
        /\ thread'[u].clock = IF Starting(u) THEN thread[u].clock + 1 ELSE thread[u].clock
  BY DEF Tick, IInv, TypeOK, ThreadRecord
<1>3. \A u \in Thread : Starting(u)' = Starting(u) /\ Busy(u)' = Busy(u)
  BY <1>2 DEF Starting, Busy
<1>4. \A v \in Worker : InStart(v)' = InStart(v)
  BY <1>2, <1>3 DEF InStart
<1>5. \A v \in Worker : (Listed(v)' <=> Listed(v)) /\ (Alive(v)' <=> Alive(v))
  BY <1>1 DEF Listed, Alive
<1>6. \A v \in Worker : Listed(v) => worker'[v] = Aged(v)
  BY DEF Tick, Referred
<1>7. \A v \in Worker : ~Listed(v) /\ Referred(v) => worker'[v] = worker[v]
  BY DEF Tick
<1>8. \A v \in Worker : ~Listed(v) /\ ~Referred(v) /\ Alive(v) => worker'[v].port = worker[v].port
  BY DEF Tick, NewWorker
<1>9. \A v \in Worker : Referred(v) =>
        /\ worker'[v].sid = worker[v].sid /\ worker'[v].port = worker[v].port
        /\ worker'[v].pid = worker[v].pid /\ worker'[v].ws = worker[v].ws
        /\ worker'[v].idle \in {worker[v].idle, Older(worker[v].idle, IdleTimeout)}
        /\ worker'[v].down \in {worker[v].down, Older(worker[v].down, DisconnectGrace)}
  <2> SUFFICES ASSUME NEW v \in Worker, Referred(v)
               PROVE  /\ worker'[v].sid = worker[v].sid /\ worker'[v].port = worker[v].port
                      /\ worker'[v].pid = worker[v].pid /\ worker'[v].ws = worker[v].ws
                      /\ worker'[v].idle \in {worker[v].idle, Older(worker[v].idle, IdleTimeout)}
                      /\ worker'[v].down \in {worker[v].down, Older(worker[v].down, DisconnectGrace)}
    OBVIOUS
  <2>1. CASE Listed(v)
    <3>1. worker[v] \in WorkerRecord /\ worker'[v] = Aged(v)
      BY <2>1, <1>6 DEF IInv, TypeOK
    <3> QED
      BY <3>1 DEF Aged, WorkerRecord
  <2>2. CASE ~Listed(v)
    BY <2>2, <1>7
  <2> QED
    BY <2>1, <2>2
<1>10. \A v \in Worker : Listed(v) \/ InStart(v) => Referred(v)
  BY DEF Referred, InStart
<1>11. \A u \in Thread : Starting(u) => thread[u].w \in Worker /\ Referred(thread[u].w)
  BY DEF Starting, Referred, IInv, TypeOK
<1>12. KeyInv'
  <2>1. \A s \in Sid : sessions[s] # None => sessions[s] \in Worker /\ Referred(sessions[s])
    BY DEF IInv, TypeOK, Referred, Listed
  <2> QED
    BY <2>1, <1>1, <1>2, <1>3, <1>9, <1>11 DEF IInv, KeyInv
<1>13. StartKeepsEntry' /\ LifeInv'
  BY <1>1, <1>2, <1>3 DEF IInv, StartKeepsEntry, LifeInv
<1>14. StartInv'
  <2> SUFFICES ASSUME NEW u \in Thread, Starting(u)'
               PROVE  /\ AgeBound(u)' <= LongestStart
                      /\ thread'[u].pc # "wait" => thread'[u].clock <= SchedDelay
                      /\ worker'[thread'[u].w].idle <= AgeBound(u)'
                      /\ worker'[thread'[u].w].down <= AgeBound(u)'
                      /\ ~EarlyClients => /\ ~worker'[thread'[u].w].ws
                                          /\ \A v \in Thread \ {u} : thread'[v].w # thread'[u].w
    BY DEF StartInv
  <2> DEFINE w == thread[u].w
  <2>1. Starting(u) /\ w \in Worker /\ Referred(w)
    BY <1>3, <1>11
  <2>2. worker[w].idle \in Nat /\ worker[w].down \in Nat /\ thread[u].clock \in Nat
    BY <2>1 DEF IInv, TypeOK, WorkerRecord, ThreadRecord
  <2>3. OnTime(u)
    BY DEF Tick
  <2>4. /\ thread'[u].pc # "wait" => thread'[u].clock <= SchedDelay
        /\ thread'[u].pc = "wait" => thread'[u].clock <= StartTimeout + SchedDelay
    BY <2>1, <2>2, <2>3, <1>2 DEF OnTime, Starting
  <2>5. AgeBound(u) \in Nat /\ AgeBound(u)' = AgeBound(u) + 1
    BY <2>1, <2>2, <1>2 DEF AgeBound
  <2>6. AgeBound(u)' <= LongestStart
    BY <2>1, <2>2, <2>4, <1>2 DEF AgeBound, LongestStart
  <2>7. worker[w].idle <= AgeBound(u) /\ worker[w].down <= AgeBound(u)
    BY <2>1 DEF IInv, StartInv
  <2>8. worker'[w].idle <= AgeBound(u)' /\ worker'[w].down <= AgeBound(u)'
    BY <2>1, <2>2, <2>5, <2>7, <1>9, OlderBound
  <2> QED
    BY <2>1, <2>4, <2>6, <2>8, <1>2, <1>9 DEF IInv, StartInv
<1>15. PidInv'
  <2>1. \A u \in Thread : thread'[u].pc = "wait" => worker'[thread'[u].w].pid
    BY <1>2, <1>9, <1>11 DEF IInv, PidInv, Starting
  <2>2. \A u \in Thread : (thread[u].pc = "fork" => ~Alive(thread[u].w))'
    BY <1>2, <1>4, <1>5, <1>11 DEF IInv, PidInv, Starting
  <2> QED
    BY <2>1, <2>2, <1>1, <1>4, <1>5, <1>9, <1>10 DEF IInv, PidInv
<1>16. \A v \in Worker : Owner(v)' => Owner(v) /\ worker'[v].port = worker[v].port
  BY <1>1, <1>4, <1>5, <1>8, <1>9, <1>10 DEF Owner
<1>17. PortInv'
  BY <1>1, <1>16 DEF IInv, PortInv
<1>18. NoPortLeak' /\ NoOrphan'
  BY <1>1, <1>4, <1>5, <1>9, <1>10 DEF IInv, NoPortLeak, NoOrphan
<1> QED
  BY <1>12, <1>13, <1>14, <1>15, <1>17, <1>18 DEF IInv

-----------------------------------------------------------------------------

LEMMA InitInv == Init => IInv
<1> SUFFICES ASSUME Init PROVE IInv
  OBVIOUS
<1>1. TypeOK
  BY TypeCorrectInit
<1>2. \A t \in Thread : ~Starting(t) /\ ~Busy(t) /\ thread[t].pc = "idle"
  BY DEF Init, Idle, Starting, Busy
<1>3. \A w \in Worker : ~Listed(w) /\ ~InStart(w) /\ ~Alive(w)
  BY <1>2 DEF Init, Listed, InStart, Alive, ConstantsOK
<1> QED
  BY <1>1, <1>2, <1>3 DEF Init, IInv, KeyInv, StartKeepsEntry, StartInv, LifeInv, PidInv,
                          PortInv, Owner, NoPortLeak, NoOrphan

LEMMA StepInv ==
  ASSUME Calm, IInv, [Next]_vars
  PROVE  IInv'
<1>1. TypeOK'
  BY TypeCorrectStep DEF IInv
<1>2. ASSUME main # "stopped", NEW t \in Thread, Proceed(t)
      PROVE  IInv'
  <2>1. CASE EnsureExhausted(t)
    <3>1. thread[t].pc = "ensure"
      BY <2>1 DEF EnsureExhausted, MustSpawn
    <3>2. /\ thread'[t].pc = "idle" /\ thread'[t].w = None
          /\ \A u \in Thread \ {t} : thread'[u] = thread[u]
      BY <2>1, ExhaustedEffect DEF Idle, IInv, TypeOK
    <3> QED
      BY <2>1, <3>1, <3>2, <1>1, ExhaustedEffect, LeaveKeeps
  <2>2. CASE WaitOk(t)
    <3>1. thread[t].pc = "wait" /\ UNCHANGED <<mapVars, worker, procVars, lifeVars>>
      BY <2>2 DEF WaitOk
    <3>2. /\ thread'[t].pc \in {"idle", "held"} /\ thread'[t].w \in {thread[t].w, None}
          /\ \A u \in Thread \ {t} : thread'[u] = thread[u]
      BY <2>2 DEF WaitOk, Returned, Idle, IInv, TypeOK
    <3> QED
      BY <3>1, <3>2, <1>1, LeaveKeeps
  <2> QED
    BY <1>1, <1>2, <2>1, <2>2, ExistingNever, SpawnKeeps, ForkKeeps, ForkFailKeeps,
       SetPidKeeps, TimeoutKeeps DEF Proceed
<1>3. ASSUME main # "stopped", NEW t \in Thread, Request(t)
      PROVE  IInv'
  <2>1. ASSUME NEW s \in Sid, GetSession(t, s)
        PROVE  IInv'
    <3>1. thread[t].pc = "idle" /\ UNCHANGED <<mapVars, worker, procVars, lifeVars>>
      BY <2>1 DEF GetSession
    <3>2. /\ thread'[t].pc = "held" /\ thread'[t].w = sessions[s]
          /\ \A u \in Thread \ {t} : thread'[u] = thread[u]
      BY <2>1 DEF GetSession, Idle, IInv, TypeOK
    <3>3. ~EarlyClients => ~InStart(thread'[t].w)
      BY <2>1, <3>2 DEF GetSession
    <3> QED
      BY <3>1, <3>2, <3>3, <1>1, LeaveKeeps
  <2>2. CASE Drop(t)
    <3>1. thread[t].pc = "held" /\ UNCHANGED <<mapVars, worker, procVars, lifeVars>>
      BY <2>2 DEF Drop
    <3>2. /\ thread'[t].pc = "idle" /\ thread'[t].w = None
          /\ \A u \in Thread \ {t} : thread'[u] = thread[u]
      BY <2>2 DEF Drop, Idle, IInv, TypeOK
    <3> QED
      BY <3>1, <3>2, <1>1, LeaveKeeps
  <2> QED
    BY <1>1, <1>3, <2>1, <2>2, PageLoadKeeps, RestartKeeps, OpenedKeeps, ClosedKeeps
    DEF Request
<1>4. ASSUME main # "stopped", NEW s \in Sid, KillSession(s)
      PROVE  IInv'
  BY <1>1, <1>4, KillSessionKeeps
<1>5. CASE ReaperExit
  BY <1>1, <1>5, ProcKeeps DEF ReaperExit, procVars, Alive
<1>6. CASE ReaperCollect
  BY <1>1, <1>6, ProcKeeps DEF ReaperCollect, Alive, IInv, TypeOK
<1>7. ASSUME NEW w \in Worker, Bind(w)
      PROVE  IInv'
  BY <1>1, <1>7, ProcKeeps DEF Bind, Alive, lifeVars, IInv, TypeOK
<1>8. ASSUME NEW w \in Worker, Exit(w)
      PROVE  IInv'
  <2>1. /\ UNCHANGED <<mapVars, worker, thread, running, main, reaper>>
        /\ proc' = [proc EXCEPT ![w] = "zombie"] /\ termed' = termed \ {w}
    BY <1>8 DEF Exit, lifeVars
  <2>2. \A v \in Worker : Alive(v)' => Alive(v) /\ v # w
    BY <2>1 DEF Alive, IInv, TypeOK
  <2> QED
    BY <2>1, <2>2, <1>1, ProcKeeps
<1>9. CASE UNCHANGED vars
  BY <1>1, <1>9, ProcKeeps DEF vars, mapVars, procVars, lifeVars, Alive
<1> QED
  BY <1>1, <1>2, <1>3, <1>4, <1>5, <1>6, <1>7, <1>8, <1>9, SweepKeeps, JoinedKeeps,
     StopKeeps, TickKeeps DEF Next, Supervise

(* In the calm regime the strengthened invariant holds throughout.         *)
THEOREM Inductive == Calm => (Spec => []IInv)
<1> SUFFICES ASSUME Calm PROVE Spec => []IInv
  OBVIOUS
<1>1. IInv /\ [Next]_vars => IInv'
  BY StepInv
<1> QED
  BY <1>1, InitInv, PTL DEF Spec

(* No two sessions ever share a port, for any number of sessions, ports,   *)
(* threads and workers and any timeouts of the calm regime.                *)
THEOREM PortsArePrivate == Calm => (Spec => []PrivatePort)
<1> SUFFICES ASSUME Calm PROVE Spec => []PrivatePort
  OBVIOUS
<1>1. IInv => PrivatePort
  BY DEF IInv, PortInv, Owner, PrivatePort
<1> QED
  BY <1>1, Inductive, PTL

(* The ports in use are exactly those of sessions until stop().            *)
THEOREM PortsAreReturned == Calm => (Spec => []NoPortLeak)
<1> SUFFICES ASSUME Calm PROVE Spec => []NoPortLeak
  OBVIOUS
<1>1. IInv => NoPortLeak
  BY DEF IInv
<1> QED
  BY <1>1, Inductive, PTL

(* Until stop(), every process that has not been signalled belongs to a    *)
(* session of the map.                                                     *)
THEOREM ProcessesAreReachable == Calm => (Spec => []NoOrphan)
<1> SUFFICES ASSUME Calm PROVE Spec => []NoOrphan
  OBVIOUS
<1>1. IInv => NoOrphan
  BY DEF IInv
<1> QED
  BY <1>1, Inductive, PTL

(* Nobody but stop() ends a session that is still starting.                *)
THEOREM StartsAreLeftAlone == Calm => (Spec => []StartKeepsEntry)
<1> SUFFICES ASSUME Calm PROVE Spec => []StartKeepsEntry
  OBVIOUS
<1>1. IInv => StartKeepsEntry
  BY DEF IInv
<1> QED
  BY <1>1, Inductive, PTL

(* A starting thread takes no process on the port for its own worker but   *)
(* one that was told to end.                                               *)
THEOREM StartsMeetTheirOwn == Calm => (Spec => []OwnListener)
<1> SUFFICES ASSUME Calm PROVE Spec => []OwnListener
  OBVIOUS
<1>1. IInv => OwnListener
  <2> SUFFICES ASSUME IInv, NEW t \in Thread, NEW q \in Worker, thread[t].pc = "wait",
                      Answers(q, worker[thread[t].w].port), q \notin termed
               PROVE  q = thread[t].w
    BY DEF OwnListener
  <2>1. thread[t].w \in Worker /\ InStart(thread[t].w)
    BY DEF IInv, TypeOK, InStart, Starting
  <2>2. Owner(q) /\ Owner(thread[t].w) /\ worker[q].port = worker[thread[t].w].port
    BY <2>1 DEF Answers, Alive, Owner
  <2> QED
    BY <2>1, <2>2 DEF IInv, PortInv
<1> QED
  BY <1>1, Inductive, PTL

-----------------------------------------------------------------------------
(* The refinement of SessionPorts: a start grants, kills end, and nothing  *)
(* else changes a lease.                                                   *)

(* Entries that go, and workers that keep their port, are an End.          *)
LEMMA EndsLeases ==
  ASSUME IInv,
         \A s \in Sid : sessions'[s] \in {sessions[s], None},
         \A v \in Worker : Listed(v) => worker'[v].port = worker[v].port
  PROVE  Ports!Next
<1> DEFINE S == {s \in Sid : sessions'[s] = None}
<1>1. ASSUME NEW s \in Sid
      PROVE  LeaseOf'[s] = IF s \in S THEN None ELSE LeaseOf[s]
  <2>1. sessions[s] # None => sessions[s] \in Worker /\ Listed(sessions[s])
    BY DEF IInv, TypeOK, Listed
  <2> QED
    BY <2>1 DEF LeaseOf
<1>2. Ports!End(S)
  BY <1>1 DEF Ports!End, LeaseOf
<1> QED
  BY <1>2 DEF Ports!Next

LEMMA SpawnGrants ==
  ASSUME IInv, NEW t \in Thread, EnsureCreate(t)
  PROVE  Ports!Next
<1>1. PICK p \in Port \ portsInUse, w \in Worker :
        /\ Unused(w)
        /\ sessions' = [sessions EXCEPT ![thread[t].sid] = w]
        /\ worker' = [worker EXCEPT ![w] = NewWorker(thread[t].sid, thread[t].app, p)]
  BY SpawnEffect
<1> DEFINE s == thread[t].sid
<1>2. s \in Sid /\ sessions[s] = None
  BY SpawnEffect DEF IInv, TypeOK, Busy
<1>3. ~Listed(w)
  BY <1>1 DEF Unused, Referred
<1>4. LeaseOf[s] = None
  BY <1>2 DEF LeaseOf
<1>5. \A r \in Sid : LeaseOf[r] # p
  <2> SUFFICES ASSUME NEW r \in Sid PROVE LeaseOf[r] # p
    OBVIOUS
  <2>1. CASE sessions[r] = None
    BY <2>1 DEF LeaseOf, ConstantsOK
  <2>2. CASE sessions[r] # None
    <3>1. sessions[r] \in Worker /\ Owner(sessions[r])
      BY <2>2 DEF IInv, TypeOK, Owner, Listed
    <3> QED
      BY <2>2, <3>1 DEF LeaseOf, IInv, PortInv
  <2> QED
    BY <2>1, <2>2
<1>6. ASSUME NEW r \in Sid
      PROVE  LeaseOf'[r] = IF r = s THEN p ELSE LeaseOf[r]
  <2>1. CASE r = s
    <3>1. sessions'[r] = w /\ worker'[w].port = p
      BY <2>1, <1>1, <1>2 DEF IInv, TypeOK, NewWorker
    <3> QED
      BY <2>1, <3>1 DEF LeaseOf, ConstantsOK
  <2>2. CASE r # s
    <3>1. sessions'[r] = sessions[r] /\ sessions[r] # w
      BY <2>2, <1>1, <1>2, <1>3 DEF IInv, TypeOK, Listed
    <3>2. sessions[r] # None => worker'[sessions[r]] = worker[sessions[r]]
      BY <3>1, <1>1 DEF IInv, TypeOK
    <3> QED
      BY <2>2, <3>1, <3>2 DEF LeaseOf
  <2> QED
    BY <2>1, <2>2
<1>7. LeaseOf' = [LeaseOf EXCEPT ![s] = p]
  BY <1>2, <1>6 DEF LeaseOf
<1>8. Ports!Grant(s, p)
  BY <1>4, <1>5, <1>7 DEF Ports!Grant
<1> QED
  BY <1>2, <1>8 DEF Ports!Next

LEMMA KillEnds ==
  ASSUME NEW W \in SUBSET Worker, IInv, KillWorkers(W), worker' = worker
  PROVE  Ports!Next
<1>1. \A s \in Sid : sessions'[s] \in {sessions[s], None}
  BY DEF KillWorkers, SessionsLeft
<1> QED
  BY <1>1, EndsLeases

LEMMA StepLease ==
  ASSUME Calm, IInv, [Next]_vars
  PROVE  [Ports!Next]_LeaseOf
<1>1. CASE UNCHANGED <<sessions, worker>>
  BY <1>1 DEF LeaseOf
<1>2. ASSUME NEW t \in Thread, Proceed(t)
      PROVE  [Ports!Next]_LeaseOf
  <2>1. CASE EnsureExhausted(t)
    BY <2>1, <1>1, ExhaustedEffect DEF mapVars
  <2>2. CASE ForkFail(t)
    <3>1. \A s \in Sid : sessions'[s] \in {sessions[s], None}
      BY <2>2 DEF ForkFail, IInv, TypeOK
    <3> QED
      BY <2>2, <3>1, EndsLeases DEF ForkFail
  <2>3. CASE SetPid(t)
    <3>1. \A v \in Worker : worker'[v].port = worker[v].port
      BY <2>3 DEF SetPid, IInv, TypeOK, WorkerRecord
    <3>2. sessions' = sessions
      BY <2>3 DEF SetPid, mapVars
    <3> QED
      BY <3>1, <3>2, EndsLeases
  <2>4. CASE WaitTimeout(t)
    <3>1. {thread[t].w} \in SUBSET Worker
      BY <2>4 DEF WaitTimeout, IInv, TypeOK
    <3> QED
      BY <2>4, <3>1, KillEnds DEF WaitTimeout
  <2>5. CASE Fork(t) \/ WaitOk(t) \/ EnsureExisting(t)
    BY <2>5, <1>1 DEF Fork, WaitOk, EnsureExisting, mapVars
  <2> QED
    BY <1>2, <2>1, <2>2, <2>3, <2>4, <2>5, SpawnGrants DEF Proceed
<1>3. ASSUME NEW t \in Thread, Request(t)
      PROVE  [Ports!Next]_LeaseOf
  <2>1. ASSUME NEW s \in Sid, RestartSession(t, s)
        PROVE  [Ports!Next]_LeaseOf
    <3>1. {sessions[s]} \in SUBSET Worker
      BY <2>1 DEF RestartSession, AdminMayTarget, IInv, TypeOK
    <3> QED
      BY <2>1, <3>1, KillEnds DEF RestartSession
  <2>2. ASSUME \/ \E isWs \in BOOLEAN : ConnOpened(t, isWs)
               \/ ConnClosed(t)
        PROVE  [Ports!Next]_LeaseOf
    <3>1. sessions' = sessions
      BY <2>2 DEF ConnOpened, ConnClosed, mapVars
    <3> DEFINE w == thread[t].w
    <3>2. w \in Worker /\ worker[w] \in WorkerRecord /\ DOMAIN worker = Worker
      BY <2>2 DEF ConnOpened, ConnClosed, IInv, TypeOK
    <3>3. /\ \A v \in Worker : v # w => worker'[v] = worker[v]
          /\ worker'[w].port = worker[w].port
      <4>1. ASSUME NEW isWs \in BOOLEAN, ConnOpened(t, isWs)
            PROVE  \E n \in Nat, f \in BOOLEAN :
                     worker' = [worker EXCEPT ![w] = [@ EXCEPT !.conns = n, !.idle = 0, !.ws = f]]
        <5>1. worker[w].conns + 1 \in Nat /\ (worker[w].ws \/ isWs) \in BOOLEAN
          BY <3>2 DEF WorkerRecord
        <5> QED
          BY <4>1, <5>1 DEF ConnOpened
      <4>2. CASE ConnClosed(t)
        BY <4>2, <3>2 DEF ConnClosed, WorkerRecord
      <4>3. CASE \E isWs \in BOOLEAN : ConnOpened(t, isWs)
        BY <4>1, <4>3, <3>2 DEF WorkerRecord
      <4> QED
        BY <2>2, <4>2, <4>3
    <3> QED
      BY <3>1, <3>2, <3>3, EndsLeases
  <2>3. CASE \/ \E s \in Sid, a \in App : PageLoad(t, s, a)
             \/ \E s \in Sid : GetSession(t, s)
             \/ Drop(t)
    BY <2>3, <1>1 DEF PageLoad, GetSession, Drop, mapVars
  <2> QED
    BY <1>3, <2>1, <2>2, <2>3 DEF Request
<1>4. ASSUME NEW s \in Sid, KillSession(s)
      PROVE  [Ports!Next]_LeaseOf
  <2>1. {sessions[s]} \in SUBSET Worker
    BY <1>4 DEF KillSession, AdminMayTarget, IInv, TypeOK
  <2> QED
    BY <1>4, <2>1, KillEnds DEF KillSession
<1>5. CASE ReaperSweep
  BY <1>5, KillEnds DEF ReaperSweep
<1>6. CASE Stop
  <2>1. \A s \in Sid : sessions'[s] = None
    BY <1>6 DEF Stop
  <2> QED
    BY <1>6, <2>1, EndsLeases DEF Stop
<1>7. CASE ReaperExit \/ ReaperCollect \/ Joined \/ \E w \in Worker : Bind(w) \/ Exit(w)
  BY <1>7, <1>1 DEF ReaperExit, ReaperCollect, Joined, Bind, Exit, mapVars
<1>8. CASE Tick
  <2>1. \A v \in Worker : Listed(v) => worker'[v].port = worker[v].port
    <3> SUFFICES ASSUME NEW v \in Worker, Listed(v) PROVE worker'[v].port = worker[v].port
      OBVIOUS
    <3>1. worker'[v] = Aged(v) /\ worker[v] \in WorkerRecord
      BY <1>8 DEF Tick, Referred, IInv, TypeOK
    <3> QED
      BY <3>1 DEF Aged, WorkerRecord
  <2>2. sessions' = sessions
    BY <1>8 DEF Tick, mapVars
  <2> QED
    BY <2>1, <2>2, EndsLeases
<1>9. CASE UNCHANGED vars
  BY <1>9, <1>1 DEF vars, mapVars
<1> QED
  BY <1>2, <1>3, <1>4, <1>5, <1>6, <1>7, <1>8, <1>9 DEF Next, Supervise

(* In the calm regime the manager implements SessionPorts.                 *)
THEOREM PortsRefined == Calm => (Spec => ImplementsPorts)
<1> SUFFICES ASSUME Calm PROVE Spec => ImplementsPorts
  OBVIOUS
<1>1. Init => Ports!Init
  BY DEF Init, Ports!Init, LeaseOf
<1>2. IInv /\ [Next]_vars => [Ports!Next]_LeaseOf
  BY StepLease
<1> QED
  BY <1>1, <1>2, Inductive, PTL DEF Spec, Ports!Spec, ImplementsPorts

-----------------------------------------------------------------------------
(* What conn_opened(), conn_closed() and a second change, in any regime.   *)
LEMMA OpenedEffect ==
  ASSUME TypeOK, NEW t \in Thread, NEW isWs \in BOOLEAN, ConnOpened(t, isWs)
  PROVE  /\ thread[t].pc = "held" /\ thread[t].w \in Worker
         /\ thread'[t].pc = "open" /\ thread'[t].w = thread[t].w
         /\ \A u \in Thread \ {t} : thread'[u] = thread[u]
         /\ \A v \in Worker \ {thread[t].w} : worker'[v] = worker[v]
         /\ worker'[thread[t].w].pid = worker[thread[t].w].pid
         /\ worker'[thread[t].w].sid = worker[thread[t].w].sid
         /\ worker'[thread[t].w].conns = worker[thread[t].w].conns + 1
<1> DEFINE w == thread[t].w
<1>1. thread[t].pc = "held" /\ w \in Worker /\ worker[w] \in WorkerRecord
  BY DEF ConnOpened, TypeOK
<1>2. /\ thread'[t].pc = "open" /\ thread'[t].w = thread[t].w
      /\ \A u \in Thread \ {t} : thread'[u] = thread[u]
  BY DEF ConnOpened, TypeOK, ThreadRecord
<1>3. \A v \in Worker \ {w} : worker'[v] = worker[v]
  BY <1>1 DEF ConnOpened, TypeOK
<1>4. worker'[w] = [worker[w] EXCEPT !.conns = @ + 1, !.idle = 0, !.ws = @ \/ isWs]
  BY <1>1 DEF ConnOpened, TypeOK
<1>5. /\ worker'[w].pid = worker[w].pid /\ worker'[w].sid = worker[w].sid
      /\ worker'[w].conns = worker[w].conns + 1
  BY <1>1, <1>4 DEF WorkerRecord
<1> QED
  BY <1>1, <1>2, <1>3, <1>5

LEMMA ClosedEffect ==
  ASSUME TypeOK, NEW t \in Thread, ConnClosed(t)
  PROVE  /\ thread[t].pc = "open" /\ thread[t].w \in Worker
         /\ thread'[t] = Idle
         /\ \A u \in Thread \ {t} : thread'[u] = thread[u]
         /\ \A v \in Worker \ {thread[t].w} : worker'[v] = worker[v]
         /\ worker'[thread[t].w].pid = worker[thread[t].w].pid
         /\ worker'[thread[t].w].sid = worker[thread[t].w].sid
         /\ worker[thread[t].w].conns > 0 =>
              worker'[thread[t].w].conns = worker[thread[t].w].conns - 1
<1> DEFINE w == thread[t].w
           left == IF worker[w].conns > 0 THEN worker[w].conns - 1 ELSE 0
<1>1. thread[t].pc = "open" /\ w \in Worker /\ worker[w] \in WorkerRecord
  BY DEF ConnClosed, TypeOK
<1>2. /\ thread'[t] = Idle
      /\ \A u \in Thread \ {t} : thread'[u] = thread[u]
  BY DEF ConnClosed, TypeOK
<1>3. \A v \in Worker \ {w} : worker'[v] = worker[v]
  BY <1>1 DEF ConnClosed, TypeOK
<1>4. worker'[w] = [worker[w] EXCEPT !.conns = left, !.idle = 0,
                                     !.down = IF left = 0 THEN 0 ELSE @]
  BY <1>1 DEF ConnClosed, TypeOK
<1>5. /\ worker'[w].pid = worker[w].pid /\ worker'[w].sid = worker[w].sid
      /\ worker'[w].conns = left
  BY <1>1, <1>4 DEF WorkerRecord
<1> QED
  BY <1>1, <1>2, <1>3, <1>5

LEMMA TickEffect ==
  ASSUME TypeOK, Tick
  PROVE  /\ \A t \in Thread : thread'[t].pc = thread[t].pc /\ thread'[t].w = thread[t].w
         /\ \A v \in Worker : Referred(v) =>
              /\ worker'[v].pid = worker[v].pid /\ worker'[v].sid = worker[v].sid
              /\ worker'[v].conns = worker[v].conns
         /\ \A v \in Worker : ~Referred(v) => worker'[v].conns = 0
<1>1. \A t \in Thread : thread'[t].pc = thread[t].pc /\ thread'[t].w = thread[t].w
  BY DEF Tick, TypeOK, ThreadRecord
<1>2. ASSUME NEW v \in Worker, Referred(v)
      PROVE  /\ worker'[v].pid = worker[v].pid /\ worker'[v].sid = worker[v].sid
             /\ worker'[v].conns = worker[v].conns
  <2>1. CASE Listed(v)
    <3>1. worker'[v] = Aged(v)
      BY <2>1 DEF Tick, Referred
    <3>2. worker[v] \in WorkerRecord
      BY DEF TypeOK
    <3> QED
      BY <3>1, <3>2 DEF Aged, WorkerRecord
  <2>2. CASE ~Listed(v)
    BY <1>2, <2>2 DEF Tick
  <2> QED
    BY <2>1, <2>2
<1>3. ASSUME NEW v \in Worker, ~Referred(v)
      PROVE  worker'[v].conns = 0
  <2>1. ~Listed(v)
    BY <1>3 DEF Referred
  <2>2. worker'[v] = NewWorker(None, None, IF Alive(v) THEN worker[v].port ELSE None)
    BY <1>3, <2>1 DEF Tick
  <2> QED
    BY <2>2 DEF NewWorker
<1> QED
  BY <1>1, <1>2, <1>3

-----------------------------------------------------------------------------
(* Whoever is told to end has left the map, whether a signal ends a        *)
(* process at once or not.                                                 *)

LEMMA StartsDoNotExpire ==
  ASSUME Calm, IInv, NEW t \in Thread, Starting(t)
  PROVE  ~Expired(thread[t].w)
<1>1. thread[t].w \in Worker
  BY DEF Starting, IInv, TypeOK
<1>2. /\ worker[thread[t].w].idle \in Nat /\ worker[thread[t].w].down \in Nat
      /\ thread[t].clock \in Nat
  BY <1>1 DEF IInv, TypeOK, WorkerRecord, ThreadRecord
<1>3. worker[thread[t].w].idle <= LongestStart /\ worker[thread[t].w].down <= LongestStart
  BY <1>2 DEF IInv, StartInv, AgeBound, LongestStart
<1> QED
  BY <1>2, <1>3 DEF Expired, Deserted, Calm, IInv, StartInv, LongestStart

(* A kill of targets that no remaining start works on, by anyone.          *)
LEMMA KillSpares ==
  ASSUME IInv, DyingInv, NEW W \in SUBSET Worker, \A w \in W : Target(w), KillWorkers(W),
         UNCHANGED <<worker, running>>,
         \A t \in Thread : Starting(t)' => /\ thread'[t] = thread[t]
                                           /\ thread[t].w \notin W
  PROVE  DyingInv'
<1>1. \A s \in Sid : sessions'[s] = IF sessions[s] \in W THEN None ELSE sessions[s]
  BY KillErases
<1>2. \A w \in Worker : (Listed(w) \/ InStart(w))' => w \notin W /\ (Listed(w) \/ InStart(w))
  BY <1>1 DEF Listed, InStart, Starting, IInv, TypeOK
<1>3. \A w \in termed' : w \in termed \/ w \in W
  BY DEF KillWorkers, Terminate
<1>4. \A w \in termed' : Alive(w)'
  <2>1. CASE PromptExit
    <3>1. termed = {} /\ termed' = termed
      BY <2>1, KillSignals DEF IInv, PortInv
    <3> QED
      BY <3>1
  <2>2. CASE ~PromptExit
    BY <2>2 DEF KillWorkers, Terminate, DyingInv, Alive, IInv, TypeOK
  <2> QED
    BY <2>1, <2>2
<1> QED
  BY <1>2, <1>3, <1>4 DEF DyingInv, NoDyingSession, IInv, TypeOK

(* Steps that tell nobody to end and start nothing.                        *)
LEMMA QuietSpares ==
  ASSUME IInv, DyingInv, UNCHANGED running, termed' \subseteq termed,
         \A w \in Worker : w \in termed' /\ Alive(w) => Alive(w)',
         \A w \in Worker : (Listed(w) \/ InStart(w))' => Listed(w) \/ InStart(w)
  PROVE  DyingInv'
<1>1. termed \subseteq Worker
  BY DEF IInv, TypeOK
<1> QED
  BY <1>1 DEF DyingInv, NoDyingSession

(* The same of steps of threads.                                           *)
LEMMA ThreadSpares ==
  ASSUME IInv, DyingInv, UNCHANGED <<procVars, running, sessions>>,
         \A t \in Thread : Starting(t)' => Starting(t) /\ thread'[t].w = thread[t].w
  PROVE  DyingInv'
<1>1. \A w \in Worker : (Listed(w) \/ InStart(w))' => Listed(w) \/ InStart(w)
  BY DEF Listed, InStart
<1> QED
  BY <1>1, QuietSpares DEF procVars, Alive

LEMMA ProceedSpares ==
  ASSUME Calm, IInv, DyingInv, NEW t \in Thread, Proceed(t)
  PROVE  DyingInv'
<1> USE DEF mapVars, procVars, lifeVars
<1>1. CASE EnsureExisting(t)
  BY <1>1, ExistingNever
<1>2. CASE EnsureCreate(t)
  <2>1. PICK p \in Port \ portsInUse, w \in Worker :
          /\ Unused(w)
          /\ portsInUse' = portsInUse \cup {p}
          /\ sessions' = [sessions EXCEPT ![thread[t].sid] = w]
          /\ worker' = [worker EXCEPT ![w] = NewWorker(thread[t].sid, thread[t].app, p)]
          /\ thread' = [thread EXCEPT ![t] = [@ EXCEPT !.pc = "fork", !.w = w, !.clock = 0]]
    BY <1>2, SpawnEffect
  <2>2. UNCHANGED <<proc, termed, running>>
    BY <1>2, SpawnEffect
  <2>3. thread'[t].w = w /\ \A u \in Thread \ {t} : thread'[u] = thread[u]
    BY <2>1 DEF IInv, TypeOK, ThreadRecord
  <2>4. w \notin termed
    BY <2>1 DEF Unused, DyingInv, Alive
  <2>5. \A v \in Worker \ {w} : (Listed(v) \/ InStart(v))' => Listed(v) \/ InStart(v)
    BY <2>1, <2>3 DEF Listed, InStart, Starting, IInv, TypeOK
  <2> QED
    BY <2>2, <2>4, <2>5 DEF DyingInv, NoDyingSession, Alive
<1>3. CASE EnsureExhausted(t)
  <2>1. UNCHANGED <<procVars, running, sessions>> /\ thread' = [thread EXCEPT ![t] = Idle]
    BY <1>3, ExhaustedEffect
  <2>2. \A u \in Thread : Starting(u)' => thread'[u] = thread[u]
    BY <2>1 DEF Starting, Idle, IInv, TypeOK
  <2> QED
    BY <2>1, <2>2, ThreadSpares DEF Starting
<1>4. CASE Fork(t)
  <2>1. /\ UNCHANGED <<sessions, termed, running>> /\ thread[t].pc = "fork"
        /\ \A v \in Worker : Alive(v) => Alive(v)'
    BY <1>4 DEF Fork, Alive, IInv, TypeOK
  <2>2. \A u \in Thread : thread'[u].w = thread[u].w /\ (u # t => thread'[u] = thread[u])
    BY <1>4 DEF Fork, IInv, TypeOK, ThreadRecord
  <2>3. \A v \in Worker : (Listed(v) \/ InStart(v))' => Listed(v) \/ InStart(v)
    BY <2>1, <2>2 DEF Listed, InStart, Starting
  <2> QED
    BY <2>1, <2>3, QuietSpares
<1>5. CASE ForkFail(t)
  <2>1. /\ UNCHANGED <<procVars, running>> /\ thread' = [thread EXCEPT ![t] = Idle]
        /\ \A s \in Sid : sessions'[s] \in {sessions[s], None}
    BY <1>5 DEF ForkFail, IInv, TypeOK
  <2>2. \A u \in Thread : Starting(u)' => thread'[u] = thread[u]
    BY <2>1 DEF Starting, Idle, IInv, TypeOK
  <2>3. \A w \in Worker : (Listed(w) \/ InStart(w))' => Listed(w) \/ InStart(w)
    BY <2>1, <2>2, ConstantsOK DEF Listed, InStart, Starting, ConstantsOK
  <2> QED
    BY <2>1, <2>3, QuietSpares DEF Alive
<1>6. CASE SetPid(t)
  <2>1. UNCHANGED <<sessions, procVars, running>> /\ thread[t].pc = "setpid"
    BY <1>6 DEF SetPid
  <2>2. \A u \in Thread : thread'[u].w = thread[u].w /\ (u # t => thread'[u] = thread[u])
    BY <1>6 DEF SetPid, IInv, TypeOK, ThreadRecord
  <2>3. \A u \in Thread : Starting(u)' => Starting(u) /\ thread'[u].w = thread[u].w
    BY <2>1, <2>2 DEF Starting
  <2> QED
    BY <2>1, <2>3, ThreadSpares
<1>7. CASE WaitOk(t)
  <2>1. UNCHANGED <<procVars, running, sessions>>
    BY <1>7 DEF WaitOk
  <2>2. \A u \in Thread : Starting(u)' => thread'[u] = thread[u]
    BY <1>7 DEF WaitOk, Returned, Starting, Idle, IInv, TypeOK
  <2> QED
    BY <2>1, <2>2, ThreadSpares DEF Starting
<1>8. CASE WaitTimeout(t)
  <2> DEFINE w == thread[t].w
  <2>1. /\ thread[t].pc = "wait" /\ Starting(t) /\ w \in Worker
        /\ KillWorkers({w}) /\ UNCHANGED <<worker, running>>
    BY <1>8 DEF WaitTimeout, Starting, IInv, TypeOK
  <2>2. \A u \in Thread : u # t /\ Starting(u) => thread[u].w # w
    BY <2>1 DEF IInv, KeyInv, Busy
  <2>3. Target(w)
    BY <2>1 DEF Target, IInv, TypeOK, Busy, KeyInv, PidInv, InStart
  <2>4. \A u \in Thread : Starting(u)' => thread'[u] = thread[u] /\ thread[u].w # w
    BY <1>8, <2>2 DEF WaitTimeout, Starting, Idle, IInv, TypeOK
  <2> QED
    BY <2>1, <2>3, <2>4, KillSpares
<1> QED
  BY <1>1, <1>2, <1>3, <1>4, <1>5, <1>6, <1>7, <1>8 DEF Proceed

LEMMA RequestSpares ==
  ASSUME Calm, IInv, DyingInv, main # "stopped", NEW t \in Thread, Request(t)
  PROVE  DyingInv'
<1> USE DEF mapVars, procVars, lifeVars
<1>1. ASSUME NEW s \in Sid, RestartSession(t, s) PROVE DyingInv'
  <2> DEFINE w == sessions[s]
  <2>1. w \in Worker /\ Listed(w) /\ ~InStart(w)
    BY <1>1 DEF RestartSession, AdminMayTarget, Calm, IInv, TypeOK, Listed
  <2>2. Target(w)
    BY <2>1 DEF Target, IInv, PidInv, KeyInv
  <2>3. UNCHANGED <<worker, running>> /\ KillWorkers({w})
    BY <1>1 DEF RestartSession
  <2>4. \A u \in Thread : Starting(u)' => thread'[u] = thread[u] /\ thread[u].w # w
    BY <1>1, <2>1 DEF RestartSession, Starting, InStart, Idle, IInv, TypeOK
  <2> QED
    BY <2>1, <2>2, <2>3, <2>4, KillSpares
<1>2. ASSUME \/ \E isWs \in BOOLEAN : ConnOpened(t, isWs)
             \/ ConnClosed(t)
      PROVE  DyingInv'
  <2>1. UNCHANGED <<sessions, procVars, running>>
    BY <1>2 DEF ConnOpened, ConnClosed
  <2>2. \A u \in Thread : Starting(u)' => thread'[u] = thread[u]
    BY <1>2, OpenedEffect, ClosedEffect DEF Starting, Idle, IInv
  <2> QED
    BY <2>1, <2>2, ThreadSpares DEF Starting
<1>3. CASE \/ \E s \in Sid, a \in App : PageLoad(t, s, a)
           \/ \E s \in Sid : GetSession(t, s)
           \/ Drop(t)
  <2>1. UNCHANGED <<procVars, running, sessions>>
    BY <1>3 DEF PageLoad, GetSession, Drop
  <2>2. /\ \A u \in Thread \ {t} : thread'[u] = thread[u]
        /\ thread'[t].pc \in {"ensure", "held", "idle"}
    <3>1. \A s \in Sid, a \in App :
            PageLoad(t, s, a) => \E r : r.pc = "ensure" /\ thread' = [thread EXCEPT ![t] = r]
      BY DEF PageLoad, Idle
    <3>2. \A s \in Sid :
            GetSession(t, s) => \E r : r.pc = "held" /\ thread' = [thread EXCEPT ![t] = r]
      BY DEF GetSession, Idle
    <3>3. Drop(t) => \E r : r.pc = "idle" /\ thread' = [thread EXCEPT ![t] = r]
      BY DEF Drop, Idle
    <3> QED
      BY <1>3, <3>1, <3>2, <3>3 DEF IInv, TypeOK
  <2>3. \A u \in Thread : Starting(u)' => thread'[u] = thread[u]
    BY <2>2 DEF Starting
  <2> QED
    BY <2>1, <2>3, ThreadSpares DEF Starting
<1> QED
  BY <1>1, <1>2, <1>3 DEF Request

LEMMA StepSpares ==
  ASSUME Calm, IInv, DyingInv, [Next]_vars
  PROVE  DyingInv'
<1> USE DEF mapVars, procVars, lifeVars
<1>1. ASSUME NEW s \in Sid, KillSession(s), main # "stopped" PROVE DyingInv'
  <2> DEFINE w == sessions[s]
  <2>1. w \in Worker /\ Listed(w) /\ ~InStart(w)
    BY <1>1 DEF KillSession, AdminMayTarget, Calm, IInv, TypeOK, Listed
  <2>2. Target(w)
    BY <1>1, <2>1 DEF Target, IInv, PidInv, KeyInv
  <2>3. UNCHANGED <<worker, thread, running>> /\ KillWorkers({w})
    BY <1>1 DEF KillSession
  <2>4. \A u \in Thread : Starting(u)' => thread'[u] = thread[u] /\ thread[u].w # w
    BY <2>1, <2>3 DEF Starting, InStart
  <2> QED
    BY <2>1, <2>2, <2>3, <2>4, KillSpares
<1>2. CASE ReaperSweep
  <2> DEFINE W == {w \in Worker : Listed(w) /\ Expired(w)}
  <2>1. \A w \in W : ~InStart(w)
    BY StartsDoNotExpire DEF InStart
  <2>2. \A w \in W : Target(w)
    BY <1>2, <2>1 DEF Target, ReaperSweep, IInv, LifeInv, PidInv, KeyInv, Listed
  <2>3. UNCHANGED <<worker, thread, running>> /\ KillWorkers(W) /\ W \in SUBSET Worker
    BY <1>2 DEF ReaperSweep
  <2>4. \A u \in Thread : Starting(u)' => thread'[u] = thread[u] /\ thread[u].w \notin W
    BY <2>1, <2>3 DEF Starting, InStart
  <2> HIDE DEF W
  <2> QED
    BY <2>2, <2>3, <2>4, KillSpares
<1>3. CASE ReaperExit \/ Joined
  <2>1. /\ UNCHANGED <<procVars, running, sessions>>
        /\ \A u \in Thread : Starting(u)' => thread'[u] = thread[u]
    BY <1>3 DEF ReaperExit, Joined, Starting, Idle, IInv, TypeOK
  <2> QED
    BY <2>1, ThreadSpares DEF Starting
<1>4. CASE ReaperCollect
  <2>1. UNCHANGED <<sessions, termed, thread, running>>
    BY <1>4 DEF ReaperCollect
  <2>2. \A w \in Worker : /\ Alive(w) => Alive(w)'
                          /\ (Listed(w) \/ InStart(w))' => Listed(w) \/ InStart(w)
    BY <1>4, <2>1 DEF ReaperCollect, Alive, Listed, InStart, Starting
  <2> QED
    BY <2>1, <2>2, QuietSpares
<1>5. CASE Stop
  <2>1. ~running'
    BY <1>5 DEF Stop
  <2>2. \A w \in termed' : Alive(w)'
    <3>1. CASE PromptExit
      BY <1>5, <3>1 DEF Stop, Terminate, IInv, PortInv
    <3>2. CASE ~PromptExit
      BY <1>5, <3>2 DEF Stop, Terminate, DyingInv, Alive, IInv, TypeOK
    <3> QED
      BY <3>1, <3>2
  <2> QED
    BY <2>1, <2>2 DEF DyingInv, NoDyingSession
<1>6. ASSUME NEW w \in Worker, Bind(w) PROVE DyingInv'
  <2>1. UNCHANGED <<sessions, termed, thread, running>> /\ proc' = [proc EXCEPT ![w] = "listening"]
    BY <1>6 DEF Bind
  <2>2. \A v \in Worker : /\ (Listed(v) \/ InStart(v))' => Listed(v) \/ InStart(v)
                          /\ Alive(v) => Alive(v)'
    BY <2>1 DEF Listed, InStart, Starting, Alive, IInv, TypeOK
  <2> QED
    BY <2>1, <2>2, QuietSpares
<1>7. ASSUME NEW w \in Worker, Exit(w) PROVE DyingInv'
  <2>1. /\ UNCHANGED <<sessions, thread, running>> /\ termed' = termed \ {w}
        /\ proc' = [proc EXCEPT ![w] = "zombie"]
    BY <1>7 DEF Exit
  <2>2. \A v \in Worker : /\ (Listed(v) \/ InStart(v))' => Listed(v) \/ InStart(v)
                          /\ v \in termed' /\ Alive(v) => Alive(v)'
    BY <2>1 DEF Listed, InStart, Starting, Alive, IInv, TypeOK
  <2> QED
    BY <2>1, <2>2, QuietSpares
<1>8. CASE Tick
  <2>1. UNCHANGED <<sessions, procVars, running>>
    BY <1>8 DEF Tick
  <2>2. \A t \in Thread : thread'[t].pc = thread[t].pc /\ thread'[t].w = thread[t].w
    BY <1>8, TickEffect DEF IInv
  <2> QED
    BY <2>1, <2>2, ThreadSpares DEF Starting
<1>9. CASE UNCHANGED vars
  BY <1>9, ThreadSpares DEF vars, Starting
<1> QED
  BY <1>1, <1>2, <1>3, <1>4, <1>5, <1>6, <1>7, <1>8, <1>9, ProceedSpares, RequestSpares
  DEF Next, Supervise

(* In the calm regime a session that browsers can reach, or that is        *)
(* starting, never runs on a process that was told to end, however long    *)
(* such processes live and however many workers crash.                     *)
THEOREM SessionsAreNotDying == Calm => (Spec => []NoDyingSession)
<1> SUFFICES ASSUME Calm PROVE Spec => []NoDyingSession
  OBVIOUS
<1>1. Init => DyingInv
  BY DEF Init, DyingInv, NoDyingSession
<1>2. IInv /\ DyingInv /\ [Next]_vars => DyingInv'
  BY StepSpares
<1>3. DyingInv => NoDyingSession
  BY DEF DyingInv
<1> QED
  BY <1>1, <1>2, <1>3, Inductive, PTL DEF Spec

-----------------------------------------------------------------------------
(* active_conns counts the relaying threads, in every regime.              *)

LEMMA RelayingFinite ==
  ASSUME NEW w
  PROVE  IsFiniteSet(Relaying(w)) /\ IsFiniteSet(Relaying(w)')
BY FS_Subset DEF Relaying

(* Steps that open and close no connection.                                *)
LEMMA QuietCounts ==
  ASSUME Counted, Keyed, TypeOK,
         \A t \in Thread : thread'[t].pc = "open" <=> thread[t].pc = "open",
         \A t \in Thread : thread[t].pc = "open" => thread'[t].w = thread[t].w,
         \A w \in Worker : worker'[w].conns = worker[w].conns,
         \A w \in Worker : Listed(w) => worker'[w].sid = worker[w].sid,
         \A s \in Sid : sessions'[s] \in {sessions[s], None}
  PROVE  Counted' /\ Keyed'
<1>1. \A w \in Worker : Relaying(w)' = Relaying(w)
  BY DEF Relaying
<1>2. Keyed'
  BY DEF Keyed, Listed, TypeOK
<1> QED
  BY <1>1, <1>2 DEF Counted

LEMMA KillLeavesEntries ==
  ASSUME NEW W, KillWorkers(W)
  PROVE  \A s \in Sid : sessions'[s] \in {sessions[s], None}
BY DEF KillWorkers, SessionsLeft

(* The steps of a thread that leave the Worker objects alone.              *)
LEMMA ThreadCounts ==
  ASSUME Counted, Keyed, TypeOK, NEW t \in Thread, NEW r,
         thread' = [thread EXCEPT ![t] = r], thread[t].pc # "open", r.pc # "open",
         worker' = worker,
         \A s \in Sid : sessions'[s] \in {sessions[s], None}
  PROVE  Counted' /\ Keyed'
<1>1. \A u \in Thread : /\ thread'[u].pc = "open" <=> thread[u].pc = "open"
                        /\ thread[u].pc = "open" => thread'[u].w = thread[u].w
  BY DEF TypeOK
<1> QED
  BY <1>1, QuietCounts

LEMMA SpawnCounts ==
  ASSUME Counted, Keyed, TypeOK, NEW t \in Thread, EnsureCreate(t)
  PROVE  Counted' /\ Keyed'
<1> DEFINE s == thread[t].sid
<1>1. PICK p \in Port, w \in Worker :
        /\ Unused(w)
        /\ portsInUse' = PortsLeft(Stale(t)) \cup {p}
        /\ sessions' = [sessions EXCEPT ![thread[t].sid] = w]
        /\ worker' = [worker EXCEPT ![w] = NewWorker(thread[t].sid, thread[t].app, p)]
        /\ thread' = [thread EXCEPT ![t] = [@ EXCEPT !.pc = "fork", !.w = w, !.clock = 0]]
  BY DEF EnsureCreate
<1>2. thread[t].pc = "ensure" /\ s \in Sid
  BY DEF EnsureCreate, MustSpawn, TypeOK, Busy
<1>3. /\ thread'[t].pc = "fork"
      /\ \A u \in Thread \ {t} : thread'[u] = thread[u]
  BY <1>1 DEF TypeOK, ThreadRecord
<1>4. ~Listed(w) /\ \A u \in Thread : thread[u].w # w
  BY <1>1 DEF Unused, Referred
<1>5. /\ worker'[w].sid = s /\ worker'[w].conns = 0
      /\ \A v \in Worker \ {w} : worker'[v] = worker[v]
  BY <1>1 DEF TypeOK, NewWorker
<1>6. \A v \in Worker : Relaying(v)' = Relaying(v)
  BY <1>2, <1>3 DEF Relaying
<1>7. Relaying(w) = {}
  BY <1>4 DEF Relaying
<1>8. Counted'
  BY <1>5, <1>6, <1>7, FS_EmptySet DEF Counted
<1>9. ASSUME NEW r \in Sid, sessions'[r] # None PROVE worker'[sessions'[r]].sid = r
  <2>1. CASE r = s
    BY <2>1, <1>1, <1>2, <1>5 DEF TypeOK
  <2>2. CASE r # s
    <3>1. sessions'[r] = sessions[r] /\ sessions[r] \in Worker \ {w}
      BY <2>2, <1>1, <1>4, <1>9 DEF TypeOK, Listed
    <3> QED
      BY <3>1, <1>5, <1>9 DEF Keyed
  <2> QED
    BY <2>1, <2>2
<1> QED
  BY <1>8, <1>9 DEF Keyed

LEMMA OpenedCounts ==
  ASSUME Counted, Keyed, TypeOK, NEW t \in Thread, NEW isWs \in BOOLEAN, ConnOpened(t, isWs)
  PROVE  Counted' /\ Keyed'
<1> PICK w \in Worker : w = thread[t].w
  BY OpenedEffect
<1>1. Relaying(w)' = Relaying(w) \cup {t} /\ t \notin Relaying(w)
  BY OpenedEffect DEF Relaying
<1>2. Cardinality(Relaying(w)') = Cardinality(Relaying(w)) + 1
  BY <1>1, RelayingFinite, FS_AddElement
<1>3. \A v \in Worker \ {w} : Relaying(v)' = Relaying(v)
  BY OpenedEffect DEF Relaying
<1>4. Counted'
  BY <1>2, <1>3, OpenedEffect DEF Counted
<1>5. sessions' = sessions
  BY DEF ConnOpened, mapVars
<1>6. Keyed'
  BY <1>5, OpenedEffect DEF Keyed, TypeOK
<1> QED
  BY <1>4, <1>6

LEMMA ClosedCounts ==
  ASSUME Counted, Keyed, TypeOK, NEW t \in Thread, ConnClosed(t)
  PROVE  Counted' /\ Keyed'
<1> PICK w \in Worker : w = thread[t].w
  BY ClosedEffect
<1>1. /\ thread[t].pc = "open" /\ thread'[t].pc = "idle"
      /\ \A u \in Thread \ {t} : thread'[u] = thread[u]
  BY ClosedEffect DEF Idle
<1>2. Relaying(w)' = Relaying(w) \ {t} /\ t \in Relaying(w)
  BY <1>1 DEF Relaying
<1>3. /\ Cardinality(Relaying(w)') = Cardinality(Relaying(w)) - 1
      /\ Cardinality(Relaying(w)') \in Nat /\ Cardinality(Relaying(w)) \in Nat
  BY <1>2, RelayingFinite, FS_RemoveElement, FS_CardinalityType
<1>4. worker[w].conns = Cardinality(Relaying(w)) /\ worker[w].conns > 0
  BY <1>1, <1>3 DEF Counted
<1>5. \A v \in Worker \ {w} : Relaying(v)' = Relaying(v)
  BY <1>1 DEF Relaying
<1>6. Counted'
  <2>1. worker'[w].conns = worker[w].conns - 1
    BY <1>4, ClosedEffect
  <2>2. \A v \in Worker \ {w} : worker'[v] = worker[v]
    BY ClosedEffect
  <2> QED
    BY <1>3, <1>4, <1>5, <2>1, <2>2 DEF Counted
<1>7. sessions' = sessions
  BY DEF ConnClosed, mapVars
<1>8. Keyed'
  BY <1>7, ClosedEffect DEF Keyed, TypeOK
<1> QED
  BY <1>6, <1>8

LEMMA TickCounts ==
  ASSUME Counted, Keyed, TypeOK, Tick
  PROVE  Counted' /\ Keyed'
<1>1. \A v \in Worker : Relaying(v)' = Relaying(v)
  BY TickEffect DEF Relaying
<1>2. \A v \in Worker : ~Referred(v) => Relaying(v) = {}
  BY DEF Referred, Relaying
<1>3. Counted'
  BY <1>1, <1>2, TickEffect, FS_EmptySet DEF Counted
<1>4. sessions' = sessions
  BY DEF Tick, mapVars
<1>5. Keyed'
  BY <1>4, TickEffect DEF Keyed, TypeOK, Referred, Listed
<1> QED
  BY <1>3, <1>5

(* The step of CountInv.  Once main() has returned nothing is counted.     *)
LEMMA StepCounts ==
  ASSUME TypeOK, CountInv, [Next]_vars
  PROVE  CountInv'
<1> USE DEF mapVars, procVars, lifeVars
<1> USE DEF CountInv
<1>3. ASSUME main # "stopped", NEW t \in Thread, Proceed(t) PROVE CountInv'
  <2>1. UNCHANGED <<running, main, reaper>>
    BY <1>3 DEF Proceed, EnsureExisting, EnsureCreate, EnsureExhausted, Fork, ForkFail,
                SetPid, WaitOk, WaitTimeout
  <2>2. CASE EnsureCreate(t)
    BY <1>3, <2>1, <2>2, SpawnCounts
  <2>3. CASE Fork(t) \/ SetPid(t)
    <3>1. thread[t].pc \in {"fork", "setpid"} /\ sessions' = sessions
      BY <2>3 DEF Fork, SetPid
    <3>2. \A u \in Thread : /\ thread'[u].w = thread[u].w
                            /\ thread'[u].pc = "open" <=> thread[u].pc = "open"
      BY <2>3, <3>1 DEF Fork, SetPid, TypeOK, ThreadRecord
    <3>3. \A v \in Worker : worker'[v].conns = worker[v].conns /\ worker'[v].sid = worker[v].sid
      BY <2>3 DEF Fork, SetPid, TypeOK, WorkerRecord
    <3> QED
      BY <1>3, <2>1, <3>1, <3>2, <3>3, QuietCounts
  <2>4. CASE \/ EnsureExisting(t) \/ EnsureExhausted(t) \/ ForkFail(t)
             \/ WaitOk(t) \/ WaitTimeout(t)
    <3>1. /\ thread[t].pc # "open" /\ worker' = worker
          /\ \E r : thread' = [thread EXCEPT ![t] = r] /\ r.pc # "open"
      <4>1. Idle.pc # "open" /\ \A w : Returned(t, w).pc # "open"
        BY DEF Idle, Returned
      <4> QED
        BY <2>4, <4>1 DEF EnsureExisting, EnsureExhausted, MustSpawn, ForkFail, WaitOk, WaitTimeout
    <3>2. \A s \in Sid : sessions'[s] \in {sessions[s], None}
      <4>1. CASE EnsureExhausted(t) \/ WaitTimeout(t)
        BY <4>1, KillLeavesEntries DEF EnsureExhausted, WaitTimeout
      <4>2. CASE ForkFail(t)
        BY <4>2 DEF ForkFail, TypeOK
      <4>3. CASE EnsureExisting(t) \/ WaitOk(t)
        BY <4>3 DEF EnsureExisting, WaitOk
      <4> QED
        BY <2>4, <4>1, <4>2, <4>3
    <3> QED
      BY <1>3, <2>1, <3>1, <3>2, ThreadCounts
  <2> QED
    BY <1>3, <2>2, <2>3, <2>4 DEF Proceed
<1>4. ASSUME main # "stopped", NEW t \in Thread, Request(t) PROVE CountInv'
  <2>1. UNCHANGED <<running, main, reaper>>
    BY <1>4 DEF Request, PageLoad, GetSession, RestartSession, ConnOpened, ConnClosed, Drop
  <2>2. ASSUME NEW isWs \in BOOLEAN, ConnOpened(t, isWs) PROVE CountInv'
    BY <1>4, <2>1, <2>2, OpenedCounts
  <2>3. CASE ConnClosed(t)
    BY <1>4, <2>1, <2>3, ClosedCounts
  <2>4. CASE \/ \E s \in Sid, a \in App : PageLoad(t, s, a)
             \/ \E s \in Sid : GetSession(t, s) \/ RestartSession(t, s)
             \/ Drop(t)
    <3>1. /\ thread[t].pc # "open" /\ worker' = worker
          /\ \E r : thread' = [thread EXCEPT ![t] = r] /\ r.pc # "open"
      <4>0. /\ \A s, a : [Idle EXCEPT !.pc = "ensure", !.sid = s, !.app = a].pc # "open"
            /\ \A w : [Idle EXCEPT !.pc = "held", !.w = w].pc # "open"
            /\ \A s, a : [Idle EXCEPT !.pc = "ensure", !.sid = s, !.app = a,
                                      !.admin = TRUE].pc # "open"
            /\ Idle.pc # "open"
        BY DEF Idle
      <4>1. ASSUME NEW s \in Sid, NEW a \in App, PageLoad(t, s, a)
            PROVE  /\ thread[t].pc # "open" /\ worker' = worker
                   /\ \E r : thread' = [thread EXCEPT ![t] = r] /\ r.pc # "open"
        BY <4>0, <4>1 DEF PageLoad
      <4>2. ASSUME NEW s \in Sid, GetSession(t, s) \/ RestartSession(t, s)
            PROVE  /\ thread[t].pc # "open" /\ worker' = worker
                   /\ \E r : thread' = [thread EXCEPT ![t] = r] /\ r.pc # "open"
        <5>1. CASE GetSession(t, s)
          BY <4>0, <5>1 DEF GetSession
        <5>2. CASE RestartSession(t, s)
          BY <4>0, <5>2 DEF RestartSession
        <5> QED
          BY <4>2, <5>1, <5>2
      <4>3. CASE Drop(t)
        BY <4>0, <4>3 DEF Drop
      <4> QED
        BY <2>4, <4>1, <4>2, <4>3
    <3>2. \A s \in Sid : sessions'[s] \in {sessions[s], None}
      BY <2>4, KillLeavesEntries DEF PageLoad, GetSession, RestartSession, Drop
    <3> QED
      BY <1>4, <2>1, <3>1, <3>2, ThreadCounts
  <2> QED
    BY <1>4, <2>2, <2>3, <2>4 DEF Request
<1>5. CASE \/ \E s \in Sid : KillSession(s)
           \/ ReaperExit \/ ReaperCollect \/ ReaperSweep \/ Stop
           \/ \E w \in Worker : Bind(w) \/ Exit(w)
           \/ UNCHANGED vars
  <2>1. UNCHANGED <<worker, thread>>
    BY <1>5 DEF KillSession, ReaperExit, ReaperCollect, ReaperSweep, Stop, Bind, Exit, vars
  <2>2. \A s \in Sid : sessions'[s] \in {sessions[s], None}
    <3>1. CASE (\E s \in Sid : KillSession(s)) \/ ReaperSweep
      BY <3>1, KillLeavesEntries DEF KillSession, ReaperSweep
    <3>2. CASE Stop
      BY <3>2 DEF Stop
    <3> QED
      BY <1>5, <3>1, <3>2 DEF ReaperExit, ReaperCollect, Bind, Exit, vars
  <2>3. /\ running' => running /\ main' = main
        /\ main' = "stopped" => main = "stopped"
        /\ main = "stopped" /\ reaper = "exited" => reaper' = "exited"
    <3>1. CASE Stop
      BY <3>1 DEF Stop
    <3>2. CASE ReaperExit \/ ReaperCollect \/ ReaperSweep
      BY <3>2 DEF ReaperExit, ReaperCollect, ReaperSweep
    <3>3. CASE UNCHANGED lifeVars
      BY <3>3
    <3>4. CASE \/ \E s \in Sid : KillSession(s)
               \/ \E w \in Worker : Bind(w) \/ Exit(w)
               \/ UNCHANGED vars
      BY <3>3, <3>4 DEF KillSession, Bind, Exit, vars
    <3> QED
      BY <1>5, <3>1, <3>2, <3>4
  <2>4. main' # "stopped" => main # "stopped"
    BY <1>5 DEF KillSession, ReaperExit, ReaperCollect, ReaperSweep, Stop, Bind, Exit, vars
  <2>5. Keyed'
    BY <2>1, <2>2 DEF Keyed
  <2>6. main' # "stopped" => Counted'
    BY <2>1, <2>4 DEF Counted, Relaying
  <2> QED
    BY <2>3, <2>5, <2>6
<1>6. CASE Joined
  <2>1. /\ UNCHANGED <<sessions, worker, running>> /\ main' = "stopped"
        /\ main = "joining" /\ reaper' = "exited"
    BY <1>6 DEF Joined
  <2> QED
    BY <2>1 DEF Keyed
<1>7. CASE Tick
  <2>1. UNCHANGED <<running, main, reaper, sessions>>
    BY <1>7 DEF Tick
  <2>2. Keyed'
    BY <1>7, <2>1, TickEffect DEF Keyed, TypeOK, Referred, Listed
  <2> QED
    BY <1>7, <2>1, <2>2, TickCounts
<1> QED
  BY <1>3, <1>4, <1>5, <1>6, <1>7 DEF Next, Supervise

(* In every regime - whatever the admin does, whatever ids random_sid()    *)
(* repeats and whichever processes die - active_conns is the number of     *)
(* threads that relay for the worker, until main() returns.                *)
THEOREM ConnectionsAreCounted == Spec => []CountInv
<1>1. Init => CountInv
  <2> SUFFICES ASSUME Init PROVE CountInv
    OBVIOUS
  <2>1. \A w \in Worker : Relaying(w) = {} /\ worker[w].conns = 0
    BY DEF Init, Relaying, Idle, NewWorker
  <2> QED
    BY <2>1, FS_EmptySet DEF Init, CountInv, Keyed, Counted
<1>2. TypeOK /\ CountInv /\ [Next]_vars => CountInv'
  BY StepCounts
<1> QED
  BY <1>1, <1>2, TypeCorrect, PTL DEF Spec

(* So a worker that the reaper ends on disconnect_grace has nobody         *)
(* connected.                                                              *)
THEOREM GraceIsSafe == Spec => GraceSparesConnections
<1>1. TypeOK /\ CountInv /\ [Next]_vars =>
        [\A w \in Worker :
           ReaperSweep /\ Listed(w) /\ ~Listed(w)' /\ worker[w].idle <= IdleTimeout
           => \A t \in Thread : ~(thread[t].pc = "open" /\ thread[t].w = w)]_vars
  <2> SUFFICES ASSUME TypeOK, CountInv, NEW w \in Worker,
                      ReaperSweep, Listed(w), ~Listed(w)', worker[w].idle <= IdleTimeout
               PROVE  \A t \in Thread : ~(thread[t].pc = "open" /\ thread[t].w = w)
    OBVIOUS
  <2>1. PICK s \in Sid : sessions[s] = w
    BY DEF Listed
  <2>2. sessions'[s] # w /\ w # None
    BY DEF Listed, ConstantsOK
  <2>3. sessions' = SessionsLeft({v \in Worker : Listed(v) /\ Expired(v)})
    BY DEF ReaperSweep, KillWorkers
  <2>4. PICK v \in Worker : Listed(v) /\ Expired(v) /\ worker[v].sid = s
    BY <2>1, <2>2, <2>3 DEF SessionsLeft
  <2>5. v = w
    BY <2>1, <2>4 DEF Listed, CountInv, Keyed, ConstantsOK
  <2>6. worker[w].idle \in Nat
    BY DEF TypeOK, WorkerRecord
  <2>7. worker[w].conns = 0
    BY <2>4, <2>5, <2>6 DEF Expired, Deserted
  <2>8. main # "stopped"
    BY DEF ReaperSweep, CountInv
  <2>9. Relaying(w) = {}
    BY <2>7, <2>8, RelayingFinite, FS_EmptySet DEF CountInv, Counted
  <2> QED
    BY <2>9 DEF Relaying
<1> QED
  BY <1>1, ConnectionsAreCounted, TypeCorrect, PTL DEF Spec, GraceSparesConnections

=============================================================================

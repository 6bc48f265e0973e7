--------------------------- MODULE WorkerManager ---------------------------
(***************************************************************************)
(* The worker supervisor of tabler-server (src/src/worker.hpp and          *)
(* worker.cpp): the session map, the pool of loopback ports, the R worker  *)
(* processes, the reaper thread, and the threads that call the manager -   *)
(* one per browser connection (proxy.cpp) or admin request (admin.cpp).    *)
(*                                                                         *)
(* The mutex of the manager is not a variable: a critical section is one   *)
(* action, and whatever the code does with the mutex released - fork(),    *)
(* the wait for the port, the gap inside restart_session - lies between    *)
(* two actions.                                                            *)
(*                                                                         *)
(* Time is counted in whole seconds (Tick).  The code compares elapsed     *)
(* times only, so a worker carries the ages of its last_active and         *)
(* disconnected_at stamps; an age stops growing just past the timeout it   *)
(* is compared with.                                                       *)
(***************************************************************************)
EXTENDS Naturals, FiniteSets

CONSTANTS
  Sid,              \* session ids (the tabler_sid cookie)
  App,              \* apps found under apps_dir
  Port,             \* worker_port_base .. base + count - 1, no wrap past 65535
  Worker,           \* Worker objects, each with the one process it forks
  Thread,           \* connection and admin threads alive at the same time
  None,             \* no session, no worker, no port
  IdleTimeout,      \* idle_timeout
  DisconnectGrace,  \* disconnect_grace
  StartTimeout,     \* worker_start_timeout
  SchedDelay,       \* seconds by which a runnable thread may be late
  AdminScope,       \* sessions the admin acts on: "none", "ready" or "any"
  EarlyClients,     \* may requests name a session that is still starting?
  SidCollisions,    \* may random_sid() return an id that is in use?
  PromptExit,       \* does SIGTERM end a worker process at once?
  Crashes           \* may a worker process end of its own accord?

ASSUME ConstantsOK ==
  /\ Port \subseteq Nat
  /\ None \notin Sid \cup Worker \cup Port \cup App
  /\ IsFiniteSet(Thread)
  /\ IdleTimeout \in Nat /\ DisconnectGrace \in Nat
  /\ StartTimeout \in Nat /\ SchedDelay \in Nat
  /\ AdminScope \in {"none", "ready", "any"}
  /\ {EarlyClients, SidCollisions, PromptExit, Crashes} \subseteq BOOLEAN

VARIABLES
  sessions,    \* sessions_: sid -> worker, None where the map has no entry
  portsInUse,  \* ports_in_use_: the ports mapped to true
  worker,      \* the fields of the Worker objects
  proc,        \* the operating system's view of each worker's process
  termed,      \* the living processes that were sent SIGTERM
  thread,      \* where each thread is, and its local variables
  reaper,      \* where the reaper thread is
  running,     \* running_
  main         \* main(): serving, joining the reaper in stop(), stopped

procVars == <<proc, termed>>
mapVars  == <<sessions, portsInUse>>
lifeVars == <<reaper, running, main>>
vars == <<mapVars, worker, procVars, thread, lifeVars>>

-----------------------------------------------------------------------------
(* Worker objects, processes and threads.                                  *)

ProcState == {"none", "booting", "listening", "zombie", "reaped"}
Alive(w) == proc[w] \in {"booting", "listening"}

WorkerRecord ==
  [sid: Sid \cup {None}, app: App \cup {None}, port: Port \cup {None},
   pid: BOOLEAN,                       \* is the field pid set, that is > 0?
   conns: Nat, ws: BOOLEAN,            \* active_conns, ws_seen
   idle: 0 .. IdleTimeout + 1,         \* age of last_active
   down: 0 .. DisconnectGrace + 1]     \* age of disconnected_at

NewWorker(s, a, p) ==
  [sid |-> s, app |-> a, port |-> p, pid |-> FALSE,
   conns |-> 0, ws |-> FALSE, idle |-> 0, down |-> 0]

(* A thread is idle between two requests; "ensure" is about to enter       *)
(* ensure_session; "fork", "setpid" and "wait" are the three stretches of  *)
(* it outside the lock; "held" has a worker to proxy to and "open" has     *)
(* counted its connection.                                                 *)
ThreadState == {"idle", "ensure", "fork", "setpid", "wait", "held", "open"}

ThreadRecord ==
  [pc: ThreadState, sid: Sid \cup {None}, app: App \cup {None},
   w: Worker \cup {None}, clock: Nat, admin: BOOLEAN]

Idle == [pc |-> "idle", sid |-> None, app |-> None, w |-> None,
         clock |-> 0, admin |-> FALSE]

Starting(t) == thread[t].pc \in {"fork", "setpid", "wait"}
Busy(t) == thread[t].pc = "ensure" \/ Starting(t)
Listed(w) == \E s \in Sid : sessions[s] = w
InStart(w) == \E t \in Thread : Starting(t) /\ thread[t].w = w

Referred(w) == Listed(w) \/ \E t \in Thread : thread[t].w = w

(* Neither an owner of the object nor its process is left.                 *)
Unused(w) == ~Referred(w) /\ proc[w] \in {"none", "reaped"}

-----------------------------------------------------------------------------
(* The private helpers of WorkerManager.                                   *)

(* Faulty: the first port, in use or not.                                  *)
AllocatesUsed(p, used) == p \in Port /\ \A q \in Port : p <= q

(* allocate_port(): the first port of the range that is not in use.        *)
Allocates(p, used) ==
  /\ p \in Port \ used
  /\ \A q \in Port \ used : p <= q

(* kill(-pid, SIGTERM) and kill(pid, SIGTERM) for the workers of W whose   *)
(* pid is known.                                                           *)
Terminate(W) ==
  LET hit == {w \in W : worker[w].pid /\ Alive(w)}
  IN IF PromptExit
     THEN /\ proc' = [w \in Worker |-> IF w \in hit THEN "zombie" ELSE proc[w]]
          /\ UNCHANGED termed
     ELSE /\ termed' = termed \cup hit
          /\ UNCHANGED proc

(* kill_worker() returns the port and erases the entry of the sid, whoever *)
(* they belong to by then.                                                 *)
PortsLeft(W) == portsInUse \ {worker[w].port : w \in W}

(* Faulty: the entry stays.                                                *)
SessionsKept(W) == sessions

SessionsLeft(W) ==
  [s \in Sid |-> IF \E w \in W : worker[w].sid = s THEN None ELSE sessions[s]]

KillWorkers(W) ==
  /\ Terminate(W)
  /\ portsInUse' = PortsLeft(W)
  /\ sessions' = SessionsLeft(W)

-----------------------------------------------------------------------------
(* Requests.                                                               *)

(* proxy.cpp, page load: a fresh sid and a call of ensure_session.         *)
PageLoad(t, s, a) ==
  /\ thread[t].pc = "idle"
  /\ \/ SidCollisions
     \/ sessions[s] = None /\ \A u \in Thread : thread[u].sid # s
  /\ thread' = [thread EXCEPT ![t] = [Idle EXCEPT !.pc = "ensure",
                                                  !.sid = s, !.app = a]]
  /\ UNCHANGED <<mapVars, worker, procVars, lifeVars>>

(* Faulty: the result of find() is not compared with end().                *)
GetSessionUnchecked(t, s) ==
  /\ thread[t].pc = "idle"
  /\ thread' = [thread EXCEPT ![t] = [Idle EXCEPT !.pc = "held", !.w = sessions[s]]]
  /\ UNCHANGED <<mapVars, worker, procVars, lifeVars>>

(* proxy.cpp, any other request: get_session() finds the worker of the     *)
(* cookie.  (Not finding it is answered 404 and changes nothing.)          *)
GetSession(t, s) ==
  /\ thread[t].pc = "idle"
  /\ sessions[s] # None
  /\ EarlyClients \/ ~InStart(sessions[s])
  /\ thread' = [thread EXCEPT ![t] = [Idle EXCEPT !.pc = "held",
                                                  !.w = sessions[s]]]
  /\ UNCHANGED <<mapVars, worker, procVars, lifeVars>>

(* Where a thread goes when ensure_session returns worker w: a connection  *)
(* thread proxies to it, an admin thread answers and ends.                 *)
Returned(t, w) ==
  IF thread[t].admin THEN Idle
  ELSE [Idle EXCEPT !.pc = "held", !.w = w]

(* ensure_session, first critical section: the session exists.             *)
EnsureExisting(t) ==
  LET old == sessions[thread[t].sid]
  IN /\ thread[t].pc = "ensure"
     /\ old # None /\ worker[old].app = thread[t].app
     /\ thread' = [thread EXCEPT ![t] = Returned(t, old)]
     /\ UNCHANGED <<mapVars, worker, procVars, lifeVars>>

(* The session to reap first: one of the same sid for a different app.     *)
Stale(t) ==
  {w \in Worker : w = sessions[thread[t].sid] /\ worker[w].app # thread[t].app}

MustSpawn(t) ==
  /\ thread[t].pc = "ensure"
  /\ sessions[thread[t].sid] = None \/ Stale(t) # {}

EnsureCreate(t) ==
  /\ MustSpawn(t)
  /\ Terminate(Stale(t))
  /\ \E p \in Port, w \in Worker :
       /\ Allocates(p, PortsLeft(Stale(t)))
       /\ Unused(w)
       /\ portsInUse' = PortsLeft(Stale(t)) \cup {p}
       /\ sessions' = [sessions EXCEPT ![thread[t].sid] = w]
       /\ worker' = [worker EXCEPT
                       ![w] = NewWorker(thread[t].sid, thread[t].app, p)]
       /\ thread' = [thread EXCEPT
                       ![t] = [@ EXCEPT !.pc = "fork", !.w = w, !.clock = 0]]
  /\ UNCHANGED lifeVars

(* No port is free: nullptr, after the stale worker was killed.            *)
EnsureExhausted(t) ==
  /\ MustSpawn(t)
  /\ Port \subseteq PortsLeft(Stale(t))
  /\ KillWorkers(Stale(t))
  /\ thread' = [thread EXCEPT ![t] = Idle]
  /\ UNCHANGED <<worker, lifeVars>>

Fork(t) ==
  LET w == thread[t].w
  IN /\ thread[t].pc = "fork"
     /\ proc' = [proc EXCEPT ![w] = "booting"]
     /\ thread' = [thread EXCEPT ![t].pc = "setpid"]
     /\ UNCHANGED <<mapVars, worker, termed, lifeVars>>

(* Faulty: the port is not given back.                                     *)
ForkFailKeepsPort(t) ==
  /\ thread[t].pc = "fork"
  /\ sessions' = [sessions EXCEPT ![thread[t].sid] = None]
  /\ thread' = [thread EXCEPT ![t] = Idle]
  /\ UNCHANGED <<portsInUse, worker, procVars, lifeVars>>

ForkFail(t) ==
  LET w == thread[t].w
  IN /\ thread[t].pc = "fork"
     /\ portsInUse' = portsInUse \ {worker[w].port}
     /\ sessions' = [sessions EXCEPT ![thread[t].sid] = None]
     /\ thread' = [thread EXCEPT ![t] = Idle]
     /\ UNCHANGED <<worker, procVars, lifeVars>>

(* Faulty: fork()'s result stays in the local variable.                    *)
SetPidLost(t) ==
  /\ thread[t].pc = "setpid"
  /\ thread' = [thread EXCEPT ![t].pc = "wait", ![t].clock = 0]
  /\ UNCHANGED <<mapVars, worker, procVars, lifeVars>>

SetPid(t) ==
  /\ thread[t].pc = "setpid"
  /\ worker' = [worker EXCEPT ![thread[t].w].pid = TRUE]
  /\ thread' = [thread EXCEPT ![t].pc = "wait", ![t].clock = 0]
  /\ UNCHANGED <<mapVars, procVars, lifeVars>>

(* The process, any process, that accepts connections on a port.           *)
Answers(q, p) == proc[q] = "listening" /\ worker[q].port = p

WaitOk(t) ==
  LET w == thread[t].w
  IN /\ thread[t].pc = "wait"
     /\ \E q \in Worker : Answers(q, worker[w].port)
     /\ thread' = [thread EXCEPT ![t] = Returned(t, w)]
     /\ UNCHANGED <<mapVars, worker, procVars, lifeVars>>

(* Faulty: the session is dropped and its process is left running.         *)
WaitTimeoutNoSignal(t) ==
  /\ thread[t].pc = "wait"
  /\ thread[t].clock >= StartTimeout
  /\ portsInUse' = PortsLeft({thread[t].w})
  /\ sessions' = SessionsLeft({thread[t].w})
  /\ thread' = [thread EXCEPT ![t] = Idle]
  /\ UNCHANGED <<worker, procVars, lifeVars>>

(* Faulty: gives up on dead processes only, not on one that hangs.         *)
WaitTimeoutDead(t) ==
  /\ thread[t].pc = "wait"
  /\ thread[t].clock >= StartTimeout
  /\ ~Alive(thread[t].w)
  /\ KillWorkers({thread[t].w})
  /\ thread' = [thread EXCEPT ![t] = Idle]
  /\ UNCHANGED <<worker, lifeVars>>

WaitTimeout(t) ==
  /\ thread[t].pc = "wait"
  /\ thread[t].clock >= StartTimeout
  /\ KillWorkers({thread[t].w})
  /\ thread' = [thread EXCEPT ![t] = Idle]
  /\ UNCHANGED <<worker, lifeVars>>

(* conn_opened() and conn_closed(), called by the proxy around a relayed   *)
(* connection; Drop is a request whose backend refused the connection.     *)
ConnOpened(t, isWs) ==
  LET w == thread[t].w
  IN /\ thread[t].pc = "held"
     /\ worker' = [worker EXCEPT ![w].conns = @ + 1, ![w].idle = 0,
                                 ![w].ws = @ \/ isWs]
     /\ thread' = [thread EXCEPT ![t].pc = "open"]
     /\ UNCHANGED <<mapVars, procVars, lifeVars>>

ConnClosed(t) ==
  LET w == thread[t].w
      left == IF worker[w].conns > 0 THEN worker[w].conns - 1 ELSE 0
  IN /\ thread[t].pc = "open"
     /\ worker' = [worker EXCEPT ![w].conns = left, ![w].idle = 0,
                                 ![w].down = IF left = 0 THEN 0 ELSE @]
     /\ thread' = [thread EXCEPT ![t] = Idle]
     /\ UNCHANGED <<mapVars, procVars, lifeVars>>

Drop(t) ==
  /\ thread[t].pc = "held"
  /\ thread' = [thread EXCEPT ![t] = Idle]
  /\ UNCHANGED <<mapVars, worker, procVars, lifeVars>>

-----------------------------------------------------------------------------
(* The admin dashboard's actions on a session.                             *)

AdminMayTarget(s) ==
  /\ sessions[s] # None
  /\ \/ AdminScope = "any"
     \/ AdminScope = "ready" /\ ~InStart(sessions[s])

KillSession(s) ==
  /\ AdminMayTarget(s)
  /\ KillWorkers({sessions[s]})
  /\ UNCHANGED <<worker, thread, lifeVars>>

(* restart_session: kill under the lock, then ensure_session without it.   *)
RestartSession(t, s) ==
  /\ thread[t].pc = "idle"
  /\ AdminMayTarget(s)
  /\ KillWorkers({sessions[s]})
  /\ thread' = [thread EXCEPT ![t] =
                  [Idle EXCEPT !.pc = "ensure", !.sid = s,
                               !.app = worker[sessions[s]].app,
                               !.admin = TRUE]]
  /\ UNCHANGED <<worker, lifeVars>>

-----------------------------------------------------------------------------
(* The reaper thread: sleep while running_, collect zombies, sweep.        *)

(* Faulty: active_conns is not looked at.                                  *)
DesertedOnce(w) == worker[w].ws

(* A WebSocket has connected and nobody is left.  disconnected_at is read  *)
(* of such a worker only, and was stamped when it became one.              *)
Deserted(w) == worker[w].conns = 0 /\ worker[w].ws

(* Faulty: a session that never had a WebSocket does not expire.           *)
ExpiredByGrace(w) == Deserted(w) /\ worker[w].down > DisconnectGrace

(* Faulty: expires a second early.                                         *)
ExpiredEarly(w) ==
  \/ worker[w].idle >= IdleTimeout
  \/ Deserted(w) /\ worker[w].down > DisconnectGrace

Expired(w) ==
  \/ worker[w].idle > IdleTimeout
  \/ Deserted(w) /\ worker[w].down > DisconnectGrace

(* Faulty: the reaper leaves once the map is empty.                        *)
ReaperExitDrained ==
  /\ reaper = "sleep"
  /\ ~running
  /\ \A s \in Sid : sessions[s] = None
  /\ reaper' = "exited"
  /\ UNCHANGED <<mapVars, worker, procVars, thread, running, main>>

(* The loop leaves when running_ is false, else it calls waitpid() before  *)
(* it takes the mutex again.                                               *)
ReaperExit ==
  /\ reaper = "sleep"
  /\ ~running
  /\ reaper' = "exited"
  /\ UNCHANGED <<mapVars, worker, procVars, thread, running, main>>

ReaperCollect ==
  /\ reaper = "sleep"
  /\ running
  /\ reaper' = "sweep"
  /\ proc' = [w \in Worker |-> IF proc[w] = "zombie" THEN "reaped" ELSE proc[w]]
  /\ UNCHANGED <<mapVars, worker, termed, thread, running, main>>

ReaperSweep ==
  /\ reaper = "sweep"
  /\ reaper' = "sleep"
  /\ KillWorkers({w \in Worker : Listed(w) /\ Expired(w)})
  /\ UNCHANGED <<worker, thread, running, main>>

(* stop(): signal every listed worker, forget them all, join the reaper.   *)
Stop ==
  /\ running
  /\ running' = FALSE
  /\ main' = "joining"
  /\ Terminate({w \in Worker : Listed(w)})
  /\ sessions' = [s \in Sid |-> None]
  /\ UNCHANGED <<portsInUse, worker, thread, reaper>>

(* stop() returns, and so does main(): the detached threads end with it.   *)
Joined ==
  /\ main = "joining"
  /\ reaper = "exited"
  /\ main' = "stopped"
  /\ thread' = [t \in Thread |-> Idle]
  /\ UNCHANGED <<mapVars, worker, procVars, reaper, running>>

-----------------------------------------------------------------------------
(* The worker processes (R/worker.R) and the passage of time.              *)

(* tablerApp() binds the assigned port unless another process has it.      *)
PortTaken(w) == \E q \in Worker : Answers(q, worker[w].port)

Bind(w) ==
  /\ proc[w] = "booting"
  /\ ~PortTaken(w)
  /\ proc' = [proc EXCEPT ![w] = "listening"]
  /\ UNCHANGED <<mapVars, worker, termed, thread, lifeVars>>

(* A process ends: its port is taken, it was signalled, or it crashes.     *)
Exit(w) ==
  /\ Alive(w)
  /\ \/ proc[w] = "booting" /\ PortTaken(w)
     \/ w \in termed
     \/ Crashes
  /\ proc' = [proc EXCEPT ![w] = "zombie"]
  /\ termed' = termed \ {w}
  /\ UNCHANGED <<mapVars, worker, thread, lifeVars>>

(* A second passes.  SchedDelay bounds how many of them a thread may spend *)
(* between two system calls that do not block.                             *)
OnTime(t) ==
  /\ thread[t].pc \in {"fork", "setpid"} => thread[t].clock < SchedDelay
  /\ thread[t].pc = "wait" => thread[t].clock < StartTimeout + SchedDelay

Older(age, limit) == IF age <= limit THEN age + 1 ELSE age

Aged(w) ==
  [worker[w] EXCEPT
     !.idle = Older(@, IdleTimeout),
     !.down = IF Deserted(w) THEN Older(@, DisconnectGrace) ELSE @]

(* A Worker object that nothing refers to any more is destroyed; all that  *)
(* may be left is a process that has its port.                             *)
Tick ==
  /\ \A t \in Thread : OnTime(t)
  /\ worker' = [w \in Worker |->
       CASE Listed(w)    -> Aged(w)
         [] ~Referred(w) -> NewWorker(None, None, IF Alive(w) THEN worker[w].port ELSE None)
         [] OTHER        -> worker[w]]
  /\ thread' = [t \in Thread |->
       IF Starting(t) THEN [thread[t] EXCEPT !.clock = @ + 1] ELSE thread[t]]
  /\ UNCHANGED <<mapVars, procVars, lifeVars>>

-----------------------------------------------------------------------------

Init ==
  /\ sessions = [s \in Sid |-> None]
  /\ portsInUse = {}
  /\ worker = [w \in Worker |-> NewWorker(None, None, None)]
  /\ proc = [w \in Worker |-> "none"]
  /\ termed = {}
  /\ thread = [t \in Thread |-> Idle]
  /\ reaper = "sleep"
  /\ running = TRUE
  /\ main = "serving"

(* The steps a thread takes once it has begun a request.                   *)
Proceed(t) ==
  \/ EnsureExisting(t) \/ EnsureCreate(t) \/ EnsureExhausted(t)
  \/ Fork(t) \/ ForkFail(t) \/ SetPid(t)
  \/ WaitOk(t) \/ WaitTimeout(t)

Request(t) ==
  \/ \E s \in Sid, a \in App : PageLoad(t, s, a)
  \/ \E s \in Sid : GetSession(t, s) \/ RestartSession(t, s)
  \/ \E isWs \in BOOLEAN : ConnOpened(t, isWs)
  \/ ConnClosed(t)
  \/ Drop(t)

Supervise == ReaperExit \/ ReaperCollect \/ ReaperSweep \/ Joined

Next ==
  \/ /\ main # "stopped"
     /\ \/ \E t \in Thread : Proceed(t) \/ Request(t)
        \/ \E s \in Sid : KillSession(s)
  \/ Supervise
  \/ Stop
  \/ \E w \in Worker : Bind(w) \/ Exit(w)
  \/ Tick

Spec == Init /\ [][Next]_vars

(* Threads keep going, clients and processes owe nothing.  Time passes: no *)
(* sequence of steps, however busy, fits into one second for ever (strong  *)
(* fairness, as Tick waits for late threads).                              *)
FairSpec ==
  /\ Spec
  /\ SF_vars(Tick)
  /\ WF_vars(Supervise)
  /\ \A t \in Thread : WF_vars(Proceed(t))

-----------------------------------------------------------------------------
(* The types of the state.  A thread in ensure_session has a session id,   *)
(* and one past its first critical section, or past get_session, has a     *)
(* worker: nullptr is never followed.                                      *)
TypeOK ==
  /\ sessions \in [Sid -> Worker \cup {None}]
  /\ portsInUse \subseteq Port
  /\ worker \in [Worker -> WorkerRecord]
  /\ proc \in [Worker -> ProcState]
  /\ termed \subseteq Worker
  /\ thread \in [Thread -> ThreadRecord]
  /\ \A t \in Thread :
       /\ Busy(t) => thread[t].sid \in Sid
       /\ thread[t].pc \notin {"idle", "ensure"} => thread[t].w \in Worker
  /\ reaper \in {"sleep", "sweep", "exited"}
  /\ running \in BOOLEAN
  /\ main \in {"serving", "joining", "stopped"}

(* README.md:94: "tabler-server assigns a private loopback port to each    *)
(* worker".  Two workers of the session map never share a port, and the    *)
(* pool knows every port they have as taken.                               *)
PrivatePort ==
  \A v, w \in Worker :
    Listed(v) /\ Listed(w) =>
      /\ worker[w].port \in portsInUse
      /\ (v # w => worker[v].port # worker[w].port)

(* No path through a start, a failed start, a kill or a restart keeps a    *)
(* port: the ports in use are those of the sessions, so the pool is        *)
(* exhausted only by as many live sessions as there are ports.             *)
NoPortLeak ==
  running => portsInUse \subseteq {worker[w].port : w \in {v \in Worker : Listed(v)}}

(* worker.hpp:74: "Terminate the worker for a session, if any."  A process *)
(* that was never signalled is reachable through the map, so that the      *)
(* reaper or stop() can still end it.                                      *)
NoOrphan ==
  running => \A w \in Worker : Alive(w) /\ w \notin termed => Listed(w)

(* What a waiting thread can connect to on its worker's port is that       *)
(* worker's own process or one that was told to end.  worker.hpp:63 says   *)
(* more, "waits until it accepts connections"; but kill() only asks: the   *)
(* process it was sent to listens for a while, its port is free at once,   *)
(* and restart_session() gives that port to the very next start, which may *)
(* be answered by the process it replaces.                                 *)
OwnListener ==
  \A t \in Thread, q \in Worker :
    thread[t].pc = "wait" /\ Answers(q, worker[thread[t].w].port) =>
      q = thread[t].w \/ q \in termed

(* A process that was told to end is not the one of a session that browsers *)
(* can still reach, nor of one that is starting: whoever signals a worker   *)
(* takes its own entry out of the map, and out of no start under way.       *)
NoDyingSession ==
  running => \A w \in Worker : Listed(w) \/ InStart(w) => w \notin termed

(* A sweep may end a session early, on disconnect_grace, only if nobody is *)
(* connected to it: the counter active_conns that the reaper reads agrees  *)
(* with the threads that are relaying at that moment.                      *)
GraceSparesConnections ==
  [][\A w \in Worker :
       ReaperSweep /\ Listed(w) /\ ~Listed(w)' /\ worker[w].idle <= IdleTimeout
       => \A t \in Thread : ~(thread[t].pc = "open" /\ thread[t].w = w)]_vars

(* ensure_session() returns within worker_start_timeout, whatever the R    *)
(* process, the administrator and stop() do meanwhile.                     *)
StartResolves == \A t \in Thread : Starting(t) ~> ~Starting(t)

(* README.md:115: a worker is "killed after idle_timeout seconds of        *)
(* inactivity": none stays in the map for ever without a connection that   *)
(* opens or closes, even if its own process died long ago.                 *)
IdleReaped ==
  \A w \in Worker : []<>(~running \/ ~Listed(w) \/ worker[w].idle = 0)

(* stop() returns: the reaper leaves its loop although it sleeps, collects *)
(* or waits for the mutex while stop() runs.                               *)
StopReturns == ~running ~> main = "stopped"

-----------------------------------------------------------------------------
(* The map as the rest of the server sees it.                              *)
LeaseOf == [s \in Sid |-> IF sessions[s] = None THEN None ELSE worker[sessions[s]].port]

Ports == INSTANCE SessionPorts WITH lease <- LeaseOf

(* The manager implements SessionPorts: whatever starts, fails, is killed, *)
(* restarted or reaped, a session's port never changes under it, and a     *)
(* port is given only to a session that had none, while no other has it.   *)
ImplementsPorts == Ports!Spec

=============================================================================

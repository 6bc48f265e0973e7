-------------------------- MODULE WorkerManagerInv --------------------------
(***************************************************************************)
(* The inductive invariant behind the safety properties of WorkerManager,  *)
(* and the regime it holds in.                                             *)
(***************************************************************************)
EXTENDS WorkerManager

(* The regime.  The admin leaves sessions alone that are still starting,   *)
(* random_sid() repeats no live id, and a start - late as its thread may   *)
(* be - is over before the reaper could count it as idle.  If browsers can *)
(* reach a session that is starting, it must not look deserted either.     *)
LongestStart == StartTimeout + 2 * SchedDelay

Calm ==
  /\ AdminScope # "any"
  /\ ~SidCollisions
  /\ LongestStart <= IdleTimeout
  /\ EarlyClients => LongestStart <= DisconnectGrace

-----------------------------------------------------------------------------

(* The map is keyed by the sid of its workers; two threads never start the *)
(* same session; and while one starts it, no other worker takes its entry. *)
KeyInv ==
  /\ \A s \in Sid : sessions[s] # None => worker[sessions[s]].sid = s
  /\ \A t \in Thread : thread[t].pc = "ensure" => sessions[thread[t].sid] = None
  /\ \A t \in Thread : Starting(t) =>
       /\ worker[thread[t].w].sid = thread[t].sid
       /\ sessions[thread[t].sid] \in {thread[t].w, None}
  /\ \A t, u \in Thread : Busy(t) /\ Busy(u) /\ t # u => thread[t].sid # thread[u].sid

(* Nobody ends a session that is still starting, except stop(): its entry  *)
(* stays, so that kill_worker() after a start timeout (worker.cpp:189)     *)
(* gives back the port and the entry of its own session and of no other.   *)
StartKeepsEntry ==
  running => \A t \in Thread : Starting(t) => sessions[thread[t].sid] = thread[t].w

(* The age that a starting worker can have by now.                         *)
AgeBound(t) ==
  IF thread[t].pc = "wait" THEN SchedDelay + thread[t].clock ELSE thread[t].clock

StartInv ==
  \A t \in Thread : Starting(t) =>
    /\ AgeBound(t) <= LongestStart
    /\ thread[t].pc # "wait" => thread[t].clock <= SchedDelay
    /\ worker[thread[t].w].idle <= AgeBound(t)
    /\ worker[thread[t].w].down <= AgeBound(t)
    /\ ~EarlyClients => /\ ~worker[thread[t].w].ws
                        /\ \A u \in Thread \ {t} : thread[u].w # thread[t].w

(* Nobody is killed once main() has returned.                              *)
LifeInv ==
  /\ running => main = "serving"
  /\ main = "stopped" => reaper = "exited"

(* The pid is unknown exactly while the worker is being forked, so whoever *)
(* may be killed can be signalled.                                         *)
PidInv ==
  /\ \A t \in Thread :
       /\ thread[t].pc = "wait" => worker[thread[t].w].pid
       /\ thread[t].pc = "fork" => ~Alive(thread[t].w)
  /\ main # "stopped" => \A w \in Worker : Listed(w) /\ ~InStart(w) => worker[w].pid

(* Workers that use their port: sessions, starts, and any process that is  *)
(* alive and was not told to end.                                          *)
Owner(w) == Listed(w) \/ InStart(w) \/ (Alive(w) /\ w \notin termed)

PortInv ==
  /\ \A w \in Worker : Owner(w) => worker[w].port \in portsInUse
  /\ \A v, w \in Worker : Owner(v) /\ Owner(w) /\ v # w => worker[v].port # worker[w].port
  /\ PromptExit => termed = {}

IInv ==
  /\ TypeOK
  /\ KeyInv
  /\ StartKeepsEntry
  /\ StartInv
  /\ LifeInv
  /\ PidInv
  /\ PortInv
  /\ NoPortLeak
  /\ NoOrphan

-----------------------------------------------------------------------------
(* A process that was told to end and still lives has left the map, and no *)
(* start is waiting for it.                                                *)
DyingInv ==
  /\ \A w \in termed : Alive(w)
  /\ NoDyingSession

(* In every regime: the map is keyed by the sids of its workers, and       *)
(* active_conns counts the threads that relay, until main() has returned   *)
(* and ended them; nobody is swept after that.                             *)
Relaying(w) == {t \in Thread : thread[t].pc = "open" /\ thread[t].w = w}

Keyed == \A s \in Sid : sessions[s] # None => worker[sessions[s]].sid = s
Counted == \A w \in Worker : worker[w].conns = Cardinality(Relaying(w))

CountInv ==
  /\ Keyed
  /\ main # "stopped" => Counted
  /\ running => main = "serving"
  /\ main = "stopped" => reaper = "exited"

=============================================================================

------------------------------- MODULE Proxy -------------------------------
(***************************************************************************)
(* The connection threads of tabler-server (src/src/proxy.cpp) on top of   *)
(* the worker manager: where a relayed connection really ends, and what    *)
(* traffic it carries.                                                     *)
(*                                                                         *)
(* handle_connection keeps a shared_ptr<Worker> from get_session() or      *)
(* ensure_session() and connects to the port it finds there, without the   *)
(* mutex; only then does it count the connection.  "held" in the manager   *)
(* is the stretch from the lookup to conn_opened(); a thread in it has a   *)
(* backend once connect() has succeeded.                                   *)
(***************************************************************************)
EXTENDS WorkerManagerInv

VARIABLES
  backend,   \* the process at the other end of a thread's backend socket
  quiet      \* seconds since a thread relayed a byte, in either direction

relayVars == <<backend, quiet>>
proxyVars == <<vars, relayVars>>

-----------------------------------------------------------------------------

(* connect_loopback(worker->port): any process that listens there accepts. *)
Connect(t) ==
  /\ thread[t].pc = "held"
  /\ backend[t] = None
  /\ \E q \in Worker :
       /\ Answers(q, worker[thread[t].w].port)
       /\ backend' = [backend EXCEPT ![t] = q]
  /\ UNCHANGED <<vars, quiet>>

(* Faulty: a request counts as activity before its connection is made.     *)
RefusedTouches(t) ==
  /\ backend[t] = None
  /\ thread[t].pc = "held"
  /\ worker' = [worker EXCEPT ![thread[t].w].idle = 0]
  /\ thread' = [thread EXCEPT ![t] = Idle]
  /\ UNCHANGED <<mapVars, procVars, lifeVars, relayVars>>

(* 502: nobody listens, or there is no descriptor for the socket.          *)
Refused(t) ==
  /\ backend[t] = None
  /\ Drop(t)
  /\ UNCHANGED relayVars

(* conn_opened(), then the heads and the splice.                           *)
Count(t, isWs) ==
  /\ backend[t] # None
  /\ ConnOpened(t, isWs)
  /\ quiet' = [quiet EXCEPT ![t] = 0]
  /\ UNCHANGED backend

(* The splice moves bytes; the manager is not told.                        *)
Relay(t) ==
  /\ thread[t].pc = "open"
  /\ Alive(backend[t])
  /\ quiet' = [quiet EXCEPT ![t] = 0]
  /\ UNCHANGED <<vars, backend>>

(* Either side ends, or a send or the worker's response head fails.        *)
HangUp(t) ==
  /\ ConnClosed(t)
  /\ backend' = [backend EXCEPT ![t] = None]
  /\ quiet' = [quiet EXCEPT ![t] = 0]

(* Requests, and admin requests, up to the worker they get.                *)
Route(t) ==
  /\ \/ Proceed(t)
     \/ \E s \in Sid, a \in App : PageLoad(t, s, a)
     \/ \E s \in Sid : GetSession(t, s) \/ RestartSession(t, s)
  /\ UNCHANGED relayVars

Serve(t) ==
  \/ Route(t)
  \/ Connect(t) \/ Refused(t)
  \/ \E isWs \in BOOLEAN : Count(t, isWs)
  \/ Relay(t)
  \/ HangUp(t)

(* main() ends: the threads go, and their sockets with them.               *)
EndOfMain ==
  /\ Joined
  /\ backend' = [t \in Thread |-> None]
  /\ quiet' = [t \in Thread |-> 0]

Second ==
  /\ Tick
  /\ quiet' = [t \in Thread |->
                 IF thread[t].pc = "open" THEN Older(quiet[t], IdleTimeout) ELSE 0]
  /\ UNCHANGED backend

(* What the manager and the processes do on their own.                     *)
Background ==
  /\ \/ ReaperExit \/ ReaperCollect \/ ReaperSweep \/ Stop
     \/ \E w \in Worker : Bind(w) \/ Exit(w)
  /\ UNCHANGED relayVars

ProxyInit ==
  /\ Init
  /\ backend = [t \in Thread |-> None]
  /\ quiet = [t \in Thread |-> 0]

ProxyNext ==
  \/ /\ main # "stopped"
     /\ \/ \E t \in Thread : Serve(t)
        \/ \E s \in Sid : KillSession(s) /\ UNCHANGED relayVars
  \/ Background
  \/ EndOfMain
  \/ Second

ProxySpec == ProxyInit /\ [][ProxyNext]_proxyVars

(* As for the manager: time, the reaper and the threads that start a       *)
(* session go on; a relayed connection may last for ever.                  *)
ProxyFairSpec ==
  /\ ProxySpec
  /\ SF_proxyVars(Second)
  /\ WF_proxyVars(Background /\ Supervise)
  /\ WF_proxyVars(EndOfMain)
  /\ \A t \in Thread : WF_proxyVars(Route(t) /\ Proceed(t))

-----------------------------------------------------------------------------
(* README.md:14: tabler-server "gives every browser session its own        *)
(* private R worker process".  A connection always ends at the process of  *)
(* the worker it was routed to.                                            *)
OwnBackend == \A t \in Thread : backend[t] \in {None, thread[t].w}

(* While a session is in the map, the connections that were routed to it   *)
(* end at its own process - also those that were made with a pointer from  *)
(* before a restart or a kill of another session.                          *)
CurrentBackend ==
  \A t \in Thread :
    backend[t] # None /\ Listed(thread[t].w) => backend[t] = thread[t].w

(* README.md:115: "Any worker is killed after idle_timeout seconds of      *)
(* inactivity".  The reaper ends a session only if each of its open        *)
(* connections has been without traffic for idle_timeout.                  *)
ActiveIsSpared ==
  [][\A w \in Worker :
       ReaperSweep /\ Listed(w) /\ ~Listed(w)' =>
         \A t \in Thread : thread[t].pc = "open" /\ thread[t].w = w
                           => quiet[t] > IdleTimeout]_proxyVars

(* A session whose process has died leaves the map, however often a        *)
(* browser that does not know retries its requests: a refused request is   *)
(* not activity.  (Unless another process has taken its port and answers   *)
(* in its place; and after stop() there is no reaper any more.)            *)
Impersonated(w) == \E q \in Worker \ {w} : Answers(q, worker[w].port)

DeadIsReaped ==
  \A w \in Worker :
    Listed(w) /\ worker[w].pid /\ ~Alive(w) ~> ~Listed(w) \/ Impersonated(w) \/ ~running

=============================================================================

------------------------------ MODULE Shutdown ------------------------------
(***************************************************************************)
(* Start and end of tabler-server: main() (src/src/main.cpp), its signal   *)
(* handler, and the accept loops of the proxy, the admin dashboard and the *)
(* docs servers, which are the same code three times (listen_and_serve and *)
(* stop in proxy.cpp, admin.cpp and docs.cpp).                             *)
(*                                                                         *)
(* stop() runs on any thread, also inside a signal handler, at any moment  *)
(* of the life of the listener it stops: it clears running_, then looks at *)
(* listen_fd_ and shuts that socket down if there is one.  A handler that  *)
(* interrupts the very thread it stops is one of the interleavings below.  *)
(***************************************************************************)
EXTENDS Naturals, Sequences

CONSTANTS
  Front,     \* the proxy, which main() runs itself
  Sides,     \* the other enabled listeners, in the order main() starts them
  Handler    \* deliveries of SIGINT or SIGTERM

ASSUME SidesOK ==
  /\ Sides \in Seq({Sides[i] : i \in 1 .. Len(Sides)})
  /\ Len(Sides) \in Nat
  /\ \A i, j \in 1 .. Len(Sides) : Sides[i] # Front /\ (Sides[i] = Sides[j] => i = j)

VARIABLES
  running,   \* running_ of each listener
  socket,    \* its socket: "none" (listen_fd_ is -1), "fresh", "listening", "shut"
  loop,      \* where the thread of the listener is in listen_and_serve
  known,     \* the listeners whose g_ pointer is set
  main,      \* where main() is, and at which of Sides
  handler    \* where each run of on_signal is, and at which listener

vars == <<running, socket, loop, known, main, handler>>

All == <<Front>> \o Sides
Listener == {Front} \cup {Sides[i] : i \in 1 .. Len(Sides)}

LoopState == {"off", "socket", "bind", "listen", "check", "accept", "close", "done", "failed"}
MainState == {"start", "launch", "serve", "mark", "cut", "join", "manager", "returned"}

Left(l) == loop[l] \in {"off", "done", "failed"}

-----------------------------------------------------------------------------
(* stop(), in two steps.                                                   *)

(* Faulty: running_ is left as it is.                                      *)
MarkForgotten(l) == UNCHANGED <<running, socket>>

Mark(l) ==
  /\ running' = [running EXCEPT ![l] = FALSE]
  /\ UNCHANGED socket

(* shutdown() ends accept() on a listening socket, for good; on a socket   *)
(* that does not listen yet it fails.                                      *)
Cut(l) ==
  /\ socket' = [socket EXCEPT ![l] = IF @ = "listening" THEN "shut" ELSE @]
  /\ UNCHANGED running

-----------------------------------------------------------------------------
(* listen_and_serve().                                                     *)

Go(l, pc) == loop' = [loop EXCEPT ![l] = pc]

(* socket(), which sets listen_fd_, bind() and listen() may each fail.     *)
OpenSocket(l) ==
  /\ loop[l] = "socket"
  /\ \/ /\ socket' = [socket EXCEPT ![l] = "fresh"]
        /\ Go(l, "bind")
     \/ Go(l, "failed") /\ UNCHANGED socket
  /\ UNCHANGED <<running, known, main, handler>>

Bind(l) ==
  /\ loop[l] = "bind"
  /\ Go(l, "listen") \/ Go(l, "failed")
  /\ UNCHANGED <<running, socket, known, main, handler>>

Listen(l) ==
  /\ loop[l] = "listen"
  /\ \/ /\ socket' = [socket EXCEPT ![l] = "listening"]
        /\ Go(l, "check")
     \/ Go(l, "failed") /\ UNCHANGED socket
  /\ UNCHANGED <<running, known, main, handler>>

Check(l) ==
  /\ loop[l] = "check"
  /\ Go(l, IF running[l] THEN "accept" ELSE "close")
  /\ UNCHANGED <<running, socket, known, main, handler>>

(* accept() returns a client, who gets a thread, or fails.                 *)
Accept(l) ==
  /\ loop[l] = "accept"
  /\ socket[l] = "listening"
  /\ Go(l, "check")
  /\ UNCHANGED <<running, socket, known, main, handler>>

AcceptShut(l) ==
  /\ loop[l] = "accept"
  /\ socket[l] = "shut"
  /\ Go(l, IF running[l] THEN "check" ELSE "close")
  /\ UNCHANGED <<running, socket, known, main, handler>>

Close(l) ==
  /\ loop[l] = "close"
  /\ socket' = [socket EXCEPT ![l] = "none"]
  /\ Go(l, "done")
  /\ UNCHANGED <<running, known, main, handler>>

(* The steps of a listener that do not wait for a client.                  *)
Serve(l) ==
  OpenSocket(l) \/ Bind(l) \/ Listen(l) \/ Check(l) \/ AcceptShut(l) \/ Close(l)

-----------------------------------------------------------------------------
(* main().                                                                 *)

At(pc) == main.at = pc
To(pc, i) == main' = [at |-> pc, side |-> i]

(* signal() is done; now g_proxy is set.                                   *)
SetFront ==
  /\ At("start")
  /\ known' = known \cup {Front}
  /\ To("launch", 1)
  /\ UNCHANGED <<running, socket, loop, handler>>

(* The g_ pointer, then the thread of the next listener.                   *)
LaunchSide ==
  /\ At("launch")
  /\ main.side <= Len(Sides)
  /\ known' = known \cup {Sides[main.side]}
  /\ Go(Sides[main.side], "socket")
  /\ To("launch", main.side + 1)
  /\ UNCHANGED <<running, socket, handler>>

LaunchFront ==
  /\ At("launch")
  /\ main.side > Len(Sides)
  /\ Go(Front, "socket")
  /\ To("serve", 1)
  /\ UNCHANGED <<running, socket, known, handler>>

FrontReturns ==
  /\ At("serve")
  /\ Left(Front)
  /\ To("mark", 1)
  /\ UNCHANGED <<running, socket, loop, known, handler>>

StopSide ==
  /\ main.side <= Len(Sides)
  /\ \/ At("mark") /\ Mark(Sides[main.side]) /\ To("cut", main.side)
     \/ At("cut") /\ Cut(Sides[main.side]) /\ To("join", main.side)
  /\ UNCHANGED <<loop, known, handler>>

(* Faulty: the thread is detached.                                         *)
JoinNobody ==
  /\ At("join")
  /\ To("mark", main.side + 1)
  /\ UNCHANGED <<running, socket, loop, known, handler>>

JoinSide ==
  /\ At("join")
  /\ Left(Sides[main.side])
  /\ To("mark", main.side + 1)
  /\ UNCHANGED <<running, socket, loop, known, handler>>

(* workers.stop(), module WorkerManager.                                   *)
StopManager ==
  /\ \/ At("mark") /\ main.side > Len(Sides) /\ To("manager", 1)
     \/ At("manager") /\ To("returned", 1)
  /\ UNCHANGED <<running, socket, loop, known, handler>>

Main ==
  SetFront \/ LaunchSide \/ LaunchFront \/ FrontReturns \/ StopSide \/ JoinSide \/ StopManager

-----------------------------------------------------------------------------
(* on_signal(): stop() for every listener whose pointer is set.            *)

Deliver(h) ==
  /\ handler[h].at = "pending"
  /\ handler' = [handler EXCEPT ![h].at = "test"]
  /\ UNCHANGED <<running, socket, loop, known, main>>

HandlerTest(h) ==
  LET i == handler[h].i
  IN /\ handler[h].at = "test"
     /\ handler' = [handler EXCEPT ![h] =
          IF i > Len(All) THEN [at |-> "done", i |-> 1]
          ELSE IF All[i] \in known THEN [at |-> "mark", i |-> i]
          ELSE [at |-> "test", i |-> i + 1]]
     /\ UNCHANGED <<running, socket, loop, known, main>>

HandlerStop(h) ==
  LET i == handler[h].i
  IN /\ \/ /\ handler[h].at = "mark"
           /\ Mark(All[i])
           /\ handler' = [handler EXCEPT ![h].at = "cut"]
        \/ /\ handler[h].at = "cut"
           /\ Cut(All[i])
           /\ handler' = [handler EXCEPT ![h] = [at |-> "test", i |-> i + 1]]
     /\ UNCHANGED <<loop, known, main>>

OnSignal(h) == HandlerTest(h) \/ HandlerStop(h)

-----------------------------------------------------------------------------

Init ==
  /\ running = [l \in Listener |-> TRUE]
  /\ socket = [l \in Listener |-> "none"]
  /\ loop = [l \in Listener |-> "off"]
  /\ known = {}
  /\ main = [at |-> "start", side |-> 1]
  /\ handler = [h \in Handler |-> [at |-> "pending", i |-> 1]]

(* The process ends when main() returns.                                   *)
Next ==
  \/ /\ ~At("returned")
     /\ \/ Main
        \/ \E l \in Listener : Serve(l) \/ Accept(l)
        \/ \E h \in Handler : Deliver(h) \/ OnSignal(h)
  \/ At("returned") /\ UNCHANGED vars

(* Threads and handlers keep running until the process ends; clients and   *)
(* signals need not come.                                                  *)
FairSpec ==
  /\ Init /\ [][Next]_vars
  /\ WF_vars(Main)
  /\ \A l \in Listener : WF_vars(~At("returned") /\ Serve(l))
  /\ \A h \in Handler : WF_vars(~At("returned") /\ OnSignal(h))

-----------------------------------------------------------------------------
(* The types of the state; and listen_fd_ is -1 whenever its thread is not *)
(* between socket() and close(), so stop() finds no descriptor of old.     *)
TypeOK ==
  /\ running \in [Listener -> BOOLEAN]
  /\ socket \in [Listener -> {"none", "fresh", "listening", "shut"}]
  /\ loop \in [Listener -> LoopState]
  /\ known \subseteq Listener
  /\ main \in [at: MainState, side: 1 .. Len(Sides) + 1]
  /\ handler \in [Handler -> [at: {"pending", "test", "mark", "cut", "done"},
                              i: 1 .. Len(All) + 1]]
  /\ \A l \in Listener : loop[l] \in {"off", "socket", "done"} => socket[l] = "none"

(* main.cpp:119-135: the manager is stopped after every accept loop has    *)
(* been left, so no client is accepted for a manager that is stopping, and *)
(* no listener is destroyed under its thread.                              *)
ManagerStopsLast ==
  main.at \in {"manager", "returned"} => \A l \in Listener : Left(l)

(* proxy.hpp:21: "Ask the accept loop to stop (call from a signal handler  *)
(* / another thread)."  A signal that finds g_proxy set ends the program,  *)
(* wherever main() and the listeners are in starting or stopping.          *)
SignalEnds ==
  \A h \in Handler :
    handler[h] = [at |-> "test", i |-> 1] /\ Front \in known ~> At("returned")

(* A proxy that cannot listen ends the program (main.cpp:119): main()      *)
(* stops and joins listeners whose threads may not even have opened their  *)
(* sockets.                                                                *)
FailureEnds == loop[Front] = "failed" ~> At("returned")

(* Neither way to end the program gets stuck in a stop() or a join().      *)
ProgramEnds == SignalEnds /\ FailureEnds

=============================================================================

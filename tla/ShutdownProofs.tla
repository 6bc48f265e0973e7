--------------------------- MODULE ShutdownProofs ---------------------------
(***************************************************************************)
(* The order of the shutdown, for any listeners and any number of signals. *)
(***************************************************************************)
EXTENDS Shutdown, TLAPS

Joining == main.at \in {"mark", "cut", "join"}

(* main() has seen the proxy, and each listener before the one it is at,   *)
(* leave; and a listener that has left stays away, once all are launched.  *)
JoinInv ==
  /\ loop \in [Listener -> LoopState]
  /\ main \in [at: MainState, side: Nat]
  /\ Joining => /\ Left(Front)
                /\ \A i \in 1 .. Len(Sides) : i < main.side => Left(Sides[i])
  /\ ManagerStopsLast

LEMMA SideIsListener == Front \in Listener /\ \A i \in 1 .. Len(Sides) : Sides[i] \in Listener
BY DEF Listener

(* A thread that has left, or was never started, makes no step.            *)
LEMMA LeftStays ==
  ASSUME JoinInv, NEW l \in Listener, Serve(l) \/ Accept(l)
  PROVE  /\ main' = main
         /\ loop' \in [Listener -> LoopState]
         /\ \A k \in Listener : Left(k) => Left(k)'
<1>1. PICK pc \in LoopState : Go(l, pc)
  BY DEF Serve, OpenSocket, Bind, Listen, Check, Accept, AcceptShut, Close, LoopState
<1>2. ~Left(l) /\ main' = main
  BY DEF Serve, OpenSocket, Bind, Listen, Check, Accept, AcceptShut, Close, Left
<1> QED
  BY <1>1, <1>2 DEF Go, Left, JoinInv

LEMMA JoinStep ==
  ASSUME JoinInv, [Next]_vars
  PROVE  JoinInv'
<1> USE SidesOK, SideIsListener DEF SidesOK
<1>1. ASSUME UNCHANGED <<loop, main>>
      PROVE  JoinInv'
  BY <1>1 DEF JoinInv, Joining, ManagerStopsLast, Left
<1>2. ASSUME NEW l \in Listener, Serve(l) \/ Accept(l)
      PROVE  JoinInv'
  BY <1>2, LeftStays DEF JoinInv, Joining, ManagerStopsLast
<1>3. CASE SetFront \/ LaunchSide \/ LaunchFront
  <2>1. loop' \in [Listener -> LoopState] /\ main' \in [at: {"launch", "serve"}, side: Nat]
    BY <1>3 DEF SetFront, LaunchSide, LaunchFront, Go, At, To, JoinInv, LoopState
  <2> QED
    BY <2>1 DEF JoinInv, Joining, ManagerStopsLast, MainState
<1>4. CASE FrontReturns
  BY <1>4 DEF FrontReturns, At, To, JoinInv, Joining, ManagerStopsLast, MainState, Left
<1>5. CASE StopSide
  <2>1. loop' = loop /\ Joining /\ main' \in [at: {"cut", "join"}, side: {main.side}]
    BY <1>5 DEF StopSide, At, To, Joining
  <2> QED
    BY <2>1 DEF JoinInv, Joining, ManagerStopsLast, MainState, Left
<1>6. CASE JoinSide
  <2>1. /\ loop' = loop /\ Joining /\ Left(Sides[main.side])
        /\ main' = [at |-> "mark", side |-> main.side + 1]
    BY <1>6 DEF JoinSide, At, To, Joining
  <2>2. \A i \in 1 .. Len(Sides) : i < main.side + 1 => Left(Sides[i])
    BY <2>1 DEF JoinInv
  <2> QED
    BY <2>1, <2>2 DEF JoinInv, Joining, ManagerStopsLast, MainState, Left
<1>7. CASE StopManager
  <2>1. loop' = loop /\ main' \in [at: {"manager", "returned"}, side: {1}]
    BY <1>7 DEF StopManager, At, To
  <2>2. \A l \in Listener : Left(l)
    <3>1. CASE At("manager")
      BY <3>1 DEF At, JoinInv, ManagerStopsLast
    <3>2. CASE At("mark") /\ main.side > Len(Sides)
      BY <3>2 DEF At, JoinInv, Joining, Listener
    <3> QED
      BY <1>7, <3>1, <3>2 DEF StopManager
  <2> QED
    BY <2>1, <2>2 DEF JoinInv, Joining, ManagerStopsLast, MainState, Left
<1>8. ASSUME NEW h \in Handler, Deliver(h) \/ OnSignal(h)
      PROVE  JoinInv'
  BY <1>1, <1>8 DEF Deliver, OnSignal, HandlerTest, HandlerStop
<1> QED
  BY <1>1, <1>2, <1>3, <1>4, <1>5, <1>6, <1>7, <1>8 DEF Next, Main, vars

(* main.cpp:119-135: whatever the signals and the failures, workers.stop() *)
(* runs after every accept loop has been left.                             *)
THEOREM ShutdownOrder == Init /\ [][Next]_vars => []ManagerStopsLast
<1>1. Init => JoinInv
  BY DEF Init, JoinInv, Joining, ManagerStopsLast, LoopState, MainState
<1>2. JoinInv => ManagerStopsLast
  BY DEF JoinInv
<1> QED
  BY <1>1, <1>2, JoinStep, PTL

-----------------------------------------------------------------------------
(* The types: main() and the handlers stay within their lists while they   *)
(* are at a listener, and a listener that is not launched yet is off.      *)
TInv ==
  /\ TypeOK
  /\ main.at \in {"cut", "join"} => main.side <= Len(Sides)
  /\ \A h \in Handler : handler[h].at \in {"mark", "cut"} => handler[h].i <= Len(All)
  /\ main.at \in {"start", "launch"} => loop[Front] = "off"
  /\ main.at = "start" => \A i \in 1 .. Len(Sides) : loop[Sides[i]] = "off"
  /\ main.at = "launch" =>
       \A i \in 1 .. Len(Sides) : main.side <= i => loop[Sides[i]] = "off"

(* main() launches the listeners in their order, each one once.            *)
LEMMA TypeLaunch ==
  ASSUME TInv, SetFront \/ LaunchSide \/ LaunchFront
  PROVE  TInv'
<1> USE SidesOK, SideIsListener DEF SidesOK
<1>1. CASE SetFront
  BY <1>1 DEF SetFront, At, To, TInv, TypeOK, MainState, Left, All
<1>2. CASE LaunchSide
  <2> DEFINE i == main.side
  <2>1. /\ i \in 1 .. Len(Sides) /\ loop[Sides[i]] = "off"
        /\ loop' = [loop EXCEPT ![Sides[i]] = "socket"]
        /\ main' = [at |-> "launch", side |-> i + 1]
        /\ known' = known \cup {Sides[i]}
        /\ UNCHANGED <<running, socket, handler>>
    BY <1>2 DEF LaunchSide, At, To, Go, TInv, TypeOK
  <2>2. loop' \in [Listener -> LoopState] /\ loop'[Front] = "off" /\ loop'[Sides[i]] = "socket"
    BY <2>1, <1>2 DEF TInv, TypeOK, LoopState, LaunchSide, At
  <2>3. \A k \in 1 .. Len(Sides) : i + 1 <= k => loop'[Sides[k]] = "off"
    BY <2>1, <1>2 DEF TInv, TypeOK, LaunchSide, At
  <2>4. \A l \in Listener : loop'[l] \in {"off", "socket", "done"} => socket'[l] = "none"
    BY <2>1 DEF TInv, TypeOK
  <2>5. running' \in [Listener -> BOOLEAN] /\ known' \subseteq Listener /\ UNCHANGED <<socket, handler>>
    BY <2>1 DEF TInv, TypeOK
  <2>6. main' \in [at : MainState, side : 1 .. Len(Sides) + 1]
    BY <2>1 DEF MainState
  <2>7. TypeOK'
    BY <2>2, <2>4, <2>5, <2>6 DEF TInv, TypeOK
  <2>8. main'.at = "launch" /\ main'.side = i + 1
    BY <2>1
  <2> HIDE DEF i
  <2> QED
    BY <2>2, <2>3, <2>5, <2>7, <2>8 DEF TInv
<1>3. CASE LaunchFront
  <2>1. loop' = [loop EXCEPT ![Front] = "socket"] /\ loop[Front] = "off"
    BY <1>3 DEF LaunchFront, At, Go, TInv
  <2>2. \A l \in Listener : loop'[l] \in {"off", "socket", "done"} => socket'[l] = "none"
    BY <2>1, <1>3 DEF TInv, TypeOK, LaunchFront
  <2> QED
    BY <2>1, <2>2, <1>3 DEF LaunchFront, At, To, TInv, TypeOK, MainState, LoopState
<1> QED
  BY <1>1, <1>2, <1>3

(* main() goes through the listeners a second time to stop them.           *)
LEMMA TypeStop ==
  ASSUME TInv, FrontReturns \/ StopSide \/ JoinSide \/ StopManager
  PROVE  TInv'
<1> USE SidesOK, SideIsListener DEF SidesOK
<1>1. CASE FrontReturns
  BY <1>1 DEF FrontReturns, At, To, TInv, TypeOK, MainState
<1>2. CASE StopSide
  <2>1. \A l \in Listener : socket[l] = "none" => socket'[l] = "none"
    BY <1>2 DEF StopSide, Mark, Cut, TInv, TypeOK
  <2>2. socket' \in [Listener -> {"none", "fresh", "listening", "shut"}]
    BY <1>2 DEF StopSide, Mark, Cut, TInv, TypeOK
  <2>3. running' \in [Listener -> BOOLEAN]
    BY <1>2 DEF StopSide, Mark, Cut, TInv, TypeOK
  <2> QED
    BY <2>1, <2>2, <2>3, <1>2 DEF StopSide, At, To, TInv, TypeOK, MainState
<1>3. CASE JoinSide
  BY <1>3 DEF JoinSide, At, To, TInv, TypeOK, MainState
<1>4. CASE StopManager
  BY <1>4 DEF StopManager, At, To, TInv, TypeOK, MainState
<1> QED
  BY <1>1, <1>2, <1>3, <1>4

(* A listener that is launched goes on by itself.                          *)
LEMMA TypeServe ==
  ASSUME TInv, NEW l \in Listener, Serve(l) \/ Accept(l)
  PROVE  TInv'
<1>1. PICK pc \in LoopState : loop' = [loop EXCEPT ![l] = pc]
  BY DEF Serve, OpenSocket, Bind, Listen, Check, Accept, AcceptShut, Close, LoopState, Go
<1>2. loop[l] # "off" /\ UNCHANGED <<running, known, main, handler>>
  BY DEF Serve, OpenSocket, Bind, Listen, Check, Accept, AcceptShut, Close
<1>3. socket' \in [Listener -> {"none", "fresh", "listening", "shut"}]
  BY DEF Serve, OpenSocket, Bind, Listen, Check, Accept, AcceptShut, Close, TInv, TypeOK
<1>4. loop'[l] \in {"off", "socket", "done"} => socket'[l] = "none"
  BY <1>1 DEF Serve, OpenSocket, Bind, Listen, Check, Accept, AcceptShut, Close, TInv, TypeOK, Go
<1>5. \A k \in Listener : k # l => loop'[k] = loop[k] /\ socket'[k] = socket[k]
  BY <1>1 DEF Serve, OpenSocket, Bind, Listen, Check, Accept, AcceptShut, Close, TInv, TypeOK
<1>6. \A k \in Listener : loop[k] = "off" => loop'[k] = "off"
  BY <1>2, <1>5
<1> QED
  BY <1>1, <1>2, <1>3, <1>4, <1>5, <1>6, SideIsListener DEF TInv, TypeOK

(* The handler's list is the proxy and the other listeners.                *)
LEMMA AllAreListeners == Len(All) = Len(Sides) + 1 /\ \A i \in 1 .. Len(All) : All[i] \in Listener
<1>1. Sides \in Seq(Listener) /\ <<Front>> \in Seq(Listener)
  BY SidesOK, SideIsListener DEF SidesOK
<1>2. All \in Seq(Listener) /\ Len(All) = Len(<<Front>>) + Len(Sides)
  BY <1>1 DEF All
<1> QED
  BY <1>1, <1>2

(* A handler stops the listeners it knows.                                 *)
LEMMA TypeSignal ==
  ASSUME TInv, NEW h \in Handler, Deliver(h) \/ OnSignal(h)
  PROVE  TInv'
<1> USE SidesOK, AllAreListeners DEF SidesOK
<1> DEFINE i == handler[h].i
           Places == [at: {"pending", "test", "mark", "cut", "done"}, i: 1 .. Len(All) + 1]
<1>1. UNCHANGED <<loop, known, main>>
  BY DEF Deliver, OnSignal, HandlerTest, HandlerStop
<1>2. i \in 1 .. Len(All) + 1 /\ handler \in [Handler -> Places] /\ Len(All) \in Nat
  BY DEF TInv, TypeOK
<1>3. /\ handler' \in [Handler -> Places]
      /\ handler'[h].at \in {"mark", "cut"} => handler'[h].i <= Len(All)
      /\ \A g \in Handler : g # h => handler'[g] = handler[g]
  <2>1. CASE Deliver(h)
    BY <2>1, <1>2 DEF Deliver
  <2>2. CASE HandlerTest(h)
    BY <2>2, <1>2 DEF HandlerTest
  <2>3. CASE HandlerStop(h)
    <3>1. i <= Len(All)
      BY <2>3 DEF HandlerStop, TInv
    <3>2. \/ handler' = [handler EXCEPT ![h].at = "cut"]
          \/ handler' = [handler EXCEPT ![h] = [at |-> "test", i |-> i + 1]]
      BY <2>3 DEF HandlerStop
    <3>3. i + 1 \in 1 .. Len(All) + 1
      BY <1>2, <3>1
    <3>4. handler[h] \in Places
      BY <1>2
    <3>5. [at |-> "test", i |-> i + 1] \in Places
      BY <3>3
    <3>6. /\ [handler[h] EXCEPT !.at = "cut"] \in Places
          /\ [handler[h] EXCEPT !.at = "cut"].i = i
      BY <3>4
    <3>7. CASE handler' = [handler EXCEPT ![h].at = "cut"]
      <4>1. handler' = [handler EXCEPT ![h] = [handler[h] EXCEPT !.at = "cut"]]
        BY <3>7
      <4> QED
        BY <1>2, <3>1, <3>6, <4>1
    <3>8. CASE handler' = [handler EXCEPT ![h] = [at |-> "test", i |-> i + 1]]
      BY <1>2, <3>5, <3>8
    <3> QED
      BY <3>2, <3>7, <3>8
  <2> QED
    BY <2>1, <2>2, <2>3 DEF OnSignal
<1>4. /\ running' \in [Listener -> BOOLEAN]
      /\ socket' \in [Listener -> {"none", "fresh", "listening", "shut"}]
      /\ \A l \in Listener : socket[l] = "none" => socket'[l] = "none"
  <2>1. CASE Deliver(h) \/ HandlerTest(h)
    BY <2>1 DEF Deliver, HandlerTest, TInv, TypeOK
  <2>2. CASE HandlerStop(h)
    <3>1. i \in 1 .. Len(All)
      BY <2>2, <1>2 DEF HandlerStop, TInv
    <3>2. All[i] \in Listener /\ (Mark(All[i]) \/ Cut(All[i]))
      BY <2>2, <3>1 DEF HandlerStop
    <3> QED
      BY <3>2 DEF Mark, Cut, TInv, TypeOK
  <2> QED
    BY <2>1, <2>2 DEF OnSignal
<1> QED
  BY <1>1, <1>3, <1>4 DEF TInv, TypeOK

LEMMA TypeStep == ASSUME TInv, [Next]_vars PROVE TInv'
<1>1. ASSUME UNCHANGED vars PROVE TInv'
  BY <1>1 DEF vars, TInv, TypeOK, Left
<1> QED
  BY <1>1, TypeLaunch, TypeStop, TypeServe, TypeSignal DEF Next, Main

(* main.cpp:84-136: every step is at a listener there is, and listen_fd_   *)
(* is -1 whenever its thread is not between socket() and close().          *)
THEOREM ShutdownTypeOK == Init /\ [][Next]_vars => []TypeOK
<1>1. Init => TInv
  BY SidesOK, SideIsListener, AllAreListeners DEF SidesOK, Init, TInv, TypeOK, LoopState, MainState
<1>2. TInv => TypeOK
  BY DEF TInv
<1> QED
  BY <1>1, <1>2, TypeStep, PTL

=============================================================================

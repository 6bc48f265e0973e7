---------------------------- MODULE ProxyProofs ----------------------------
(***************************************************************************)
(* A relayed connection ends at the process of its session, for every      *)
(* value of the constants in the calm regime of the manager.               *)
(***************************************************************************)
EXTENDS Proxy, WorkerManagerProofs

(* A thread has a backend only while it relays, or is about to.            *)
BackendOK ==
  /\ backend \in [Thread -> Worker \cup {None}]
  /\ \A t \in Thread : backend[t] # None => thread[t].pc \in {"held", "open"}

ProxyInv == BackendOK /\ CurrentBackend

(* The manager does not notice that it is used by the proxy.               *)
LEMMA ManagerStep ==
  ASSUME [ProxyNext]_proxyVars
  PROVE  [Next]_vars
<1>1. ASSUME NEW t \in Thread, Serve(t), main # "stopped"
      PROVE  [Next]_vars
  BY <1>1 DEF Serve, Route, Connect, Refused, Count, Relay, HangUp, Next, Request
<1>2. ASSUME NEW s \in Sid, KillSession(s), main # "stopped"
      PROVE  [Next]_vars
  BY <1>2 DEF Next
<1>3. CASE Background \/ EndOfMain \/ Second
  BY <1>3 DEF Background, EndOfMain, Second, Next, Supervise
<1>4. CASE UNCHANGED proxyVars
  BY <1>4 DEF proxyVars
<1> QED
  BY <1>1, <1>2, <1>3, <1>4 DEF ProxyNext

(* Only a start enters a worker into the map.                              *)
LEMMA OnlyStartsList ==
  ASSUME IInv, [Next]_vars, \A u \in Thread : ~EnsureCreate(u)
  PROVE  \A s \in Sid : sessions'[s] \in {sessions[s], None}
<1>1. ASSUME NEW W, KillWorkers(W)
      PROVE  \A s \in Sid : sessions'[s] \in {sessions[s], None}
  BY <1>1 DEF KillWorkers, SessionsLeft
<1>2. ASSUME NEW t \in Thread, Proceed(t)
      PROVE  \A s \in Sid : sessions'[s] \in {sessions[s], None}
  <2>1. CASE EnsureExhausted(t) \/ WaitTimeout(t)
    BY <2>1, <1>1 DEF EnsureExhausted, WaitTimeout
  <2>2. CASE ForkFail(t)
    BY <2>2 DEF ForkFail, IInv, TypeOK
  <2>3. CASE EnsureExisting(t) \/ Fork(t) \/ SetPid(t) \/ WaitOk(t)
    BY <2>3 DEF EnsureExisting, Fork, SetPid, WaitOk, mapVars
  <2> QED
    BY <1>2, <2>1, <2>2, <2>3 DEF Proceed
<1>3. ASSUME NEW t \in Thread, Request(t)
      PROVE  \A s \in Sid : sessions'[s] \in {sessions[s], None}
  <2>1. CASE \E s \in Sid : RestartSession(t, s)
    BY <2>1, <1>1 DEF RestartSession
  <2>2. CASE \/ \E s \in Sid, a \in App : PageLoad(t, s, a)
             \/ \E s \in Sid : GetSession(t, s)
             \/ \E isWs \in BOOLEAN : ConnOpened(t, isWs)
             \/ ConnClosed(t) \/ Drop(t)
    BY <2>2 DEF PageLoad, GetSession, ConnOpened, ConnClosed, Drop, mapVars
  <2> QED
    BY <1>3, <2>1, <2>2 DEF Request
<1>4. CASE \E s \in Sid : KillSession(s)
  BY <1>4, <1>1 DEF KillSession
<1>5. CASE ReaperSweep
  BY <1>5, <1>1 DEF ReaperSweep
<1>6. CASE Stop
  BY <1>6 DEF Stop
<1>7. CASE ReaperExit \/ ReaperCollect \/ Joined \/ Tick \/ \E w \in Worker : Bind(w) \/ Exit(w)
  BY <1>7 DEF ReaperExit, ReaperCollect, Joined, Tick, Bind, Exit, mapVars
<1>8. CASE UNCHANGED vars
  BY <1>8 DEF vars, mapVars
<1> QED
  BY <1>2, <1>3, <1>4, <1>5, <1>6, <1>7, <1>8 DEF Next, Supervise

(* So a worker that a thread refers to is never entered anew.              *)
LEMMA NeverRelisted ==
  ASSUME IInv, [Next]_vars, NEW t \in Thread, NEW w \in Worker,
         thread[t].w = w, Listed(w)'
  PROVE  Listed(w)
<1>1. PICK s \in Sid : sessions'[s] = w
  BY DEF Listed
<1>2. w # None
  BY ConstantsOK DEF ConstantsOK
<1>3. CASE \A u \in Thread : ~EnsureCreate(u)
  BY <1>1, <1>2, <1>3, OnlyStartsList DEF Listed
<1>4. ASSUME NEW u \in Thread, EnsureCreate(u)
      PROVE  Listed(w)
  <2>1. PICK v \in Worker :
          /\ Unused(v)
          /\ sessions' = [sessions EXCEPT ![thread[u].sid] = v]
    BY <1>4, SpawnEffect
  <2>2. v # w
    BY <2>1 DEF Unused, Referred
  <2> QED
    BY <1>1, <2>1, <2>2 DEF Listed, IInv, TypeOK
<1> QED
  BY <1>3, <1>4

(* A thread that has a backend keeps it, and its worker, until it hangs    *)
(* up.                                                                     *)
LEMMA RelayStep ==
  ASSUME IInv, BackendOK, [ProxyNext]_proxyVars, NEW t \in Thread, backend[t] # None
  PROVE  \/ backend'[t] = None
         \/ /\ backend'[t] = backend[t]
            /\ thread'[t].w = thread[t].w
            /\ thread'[t].pc \in {"held", "open"}
<1> USE DEF BackendOK
<1>0. thread[t].pc \in {"held", "open"} /\ thread[t] \in ThreadRecord
  BY DEF IInv, TypeOK
<1>1. ASSUME NEW u \in Thread, Route(u)
      PROVE  backend' = backend /\ thread'[t] = thread[t]
  <2>1. backend' = backend
    BY <1>1 DEF Route, relayVars
  <2>2. ASSUME Proceed(u)
        PROVE  thread'[t] = thread[t]
    <3>1. thread[u].pc \in {"ensure", "fork", "setpid", "wait"}
      BY <2>2 DEF Proceed, EnsureExisting, EnsureCreate, EnsureExhausted, MustSpawn, Fork,
                  ForkFail, SetPid, WaitOk, WaitTimeout
    <3>2. \E r : thread' = [thread EXCEPT ![u] = r]
      <4>1. CASE EnsureCreate(u)
        BY <4>1, SpawnEffect
      <4>2. CASE Fork(u) \/ SetPid(u)
        BY <4>2 DEF Fork, SetPid
      <4>3. CASE EnsureExisting(u) \/ EnsureExhausted(u) \/ ForkFail(u) \/ WaitOk(u) \/ WaitTimeout(u)
        BY <4>3 DEF EnsureExisting, EnsureExhausted, ForkFail, WaitOk, WaitTimeout
      <4> QED
        BY <2>2, <4>1, <4>2, <4>3 DEF Proceed
    <3> QED
      BY <1>0, <3>1, <3>2 DEF IInv, TypeOK
  <2>3. ASSUME ~Proceed(u)
        PROVE  thread'[t] = thread[t]
    <3>1. thread[u].pc = "idle" /\ \E r : thread' = [thread EXCEPT ![u] = r]
      BY <1>1, <2>3 DEF Route, PageLoad, GetSession, RestartSession
    <3> QED
      BY <1>0, <3>1 DEF IInv, TypeOK
  <2> QED
    BY <2>1, <2>2, <2>3
<1>2. ASSUME NEW u \in Thread, Connect(u)
      PROVE  thread' = thread /\ backend'[t] = backend[t]
  BY <1>2 DEF Connect, vars
<1>3. ASSUME NEW u \in Thread, Refused(u)
      PROVE  thread'[t] = thread[t] /\ backend' = backend
  BY <1>3 DEF Refused, Drop, relayVars, IInv, TypeOK
<1>4. ASSUME NEW u \in Thread, NEW isWs \in BOOLEAN, Count(u, isWs)
      PROVE  /\ thread'[t].w = thread[t].w /\ thread'[t].pc \in {"held", "open"}
             /\ backend' = backend
  BY <1>0, <1>4 DEF Count, ConnOpened, IInv, TypeOK, ThreadRecord
<1>5. ASSUME NEW u \in Thread, Relay(u)
      PROVE  thread' = thread /\ backend' = backend
  BY <1>5 DEF Relay, vars
<1>6. ASSUME NEW u \in Thread, HangUp(u)
      PROVE  backend'[t] = None \/ (backend'[t] = backend[t] /\ thread'[t] = thread[t])
  BY <1>6 DEF HangUp, ConnClosed, IInv, TypeOK
<1>7. CASE (\E s \in Sid : KillSession(s) /\ UNCHANGED relayVars) \/ Background
  BY <1>0, <1>7 DEF KillSession, Background, ReaperExit, ReaperCollect, ReaperSweep, Stop, Bind,
                    Exit, relayVars
<1>8. CASE EndOfMain
  BY <1>8 DEF EndOfMain
<1>9. CASE Second
  BY <1>0, <1>9 DEF Second, Tick, Starting
<1>10. CASE UNCHANGED proxyVars
  BY <1>0, <1>10 DEF proxyVars, relayVars, vars
<1> QED
  BY <1>0, <1>1, <1>2, <1>3, <1>4, <1>5, <1>6, <1>7, <1>8, <1>9, <1>10 DEF ProxyNext, Serve

(* What a thread connects to while its session is in the map: the port has *)
(* no other owner.                                                         *)
LEMMA ConnectsToOwn ==
  ASSUME IInv, PromptExit, NEW w \in Worker, NEW q \in Worker, Listed(w),
         Answers(q, worker[w].port)
  PROVE  q = w
BY DEF Answers, Alive, Owner, IInv, PortInv

LEMMA ProxyStep ==
  ASSUME Calm, PromptExit, IInv, ProxyInv, [ProxyNext]_proxyVars
  PROVE  ProxyInv'
<1> USE DEF ProxyInv
<1>1. ASSUME NEW t \in Thread, Connect(t)
      PROVE  ProxyInv'
  <2>1. PICK q \in Worker :
          /\ Answers(q, worker[thread[t].w].port)
          /\ backend' = [backend EXCEPT ![t] = q]
    BY <1>1 DEF Connect
  <2>2. UNCHANGED <<thread, sessions, worker>> /\ thread[t].pc = "held" /\ thread[t].w \in Worker
    BY <1>1 DEF Connect, vars, mapVars, IInv, TypeOK
  <2>3. Listed(thread[t].w) => q = thread[t].w
    BY <2>1, <2>2, ConnectsToOwn
  <2> QED
    BY <2>1, <2>2, <2>3 DEF BackendOK, CurrentBackend, Listed
<1>2. ASSUME \A t \in Thread : ~Connect(t)
      PROVE  ProxyInv'
  <2>1. backend' \in [Thread -> Worker \cup {None}] /\ \A t \in Thread : backend'[t] \in {backend[t], None}
    BY <1>2 DEF ProxyNext, Serve, Route, Refused, Count, Relay, HangUp, EndOfMain, Second, Background,
                relayVars, proxyVars, BackendOK
  <2>2. ASSUME NEW t \in Thread, backend'[t] # None
        PROVE  /\ thread'[t].pc \in {"held", "open"}
               /\ Listed(thread[t].w)' => backend'[t] = thread'[t].w
    <3>1. /\ backend[t] # None /\ backend'[t] = backend[t]
          /\ thread'[t].w = thread[t].w /\ thread'[t].pc \in {"held", "open"}
      BY <2>1, <2>2, RelayStep
    <3>2. thread[t].w \in Worker
      BY <3>1 DEF BackendOK, IInv, TypeOK
    <3>3. Listed(thread[t].w)' => Listed(thread[t].w)
      BY <3>1, <3>2, ManagerStep, NeverRelisted DEF Listed
    <3> QED
      BY <3>1, <3>3 DEF CurrentBackend
  <2> QED
    BY <2>1, <2>2 DEF BackendOK, CurrentBackend, Listed
<1> QED
  BY <1>1, <1>2

(* README.md:14: "gives every browser session its own private R worker     *)
(* process".  While a session is in the map its connections end at its own *)
(* process, if a signalled process ends at once.                           *)
THEOREM SessionsArePrivate == Calm /\ PromptExit => (ProxySpec => []CurrentBackend)
<1> SUFFICES ASSUME Calm, PromptExit PROVE ProxySpec => []CurrentBackend
  OBVIOUS
<1>1. ProxyInit => IInv /\ ProxyInv
  BY InitInv DEF ProxyInit, ProxyInv, BackendOK, CurrentBackend
<1>2. IInv /\ ProxyInv /\ [ProxyNext]_proxyVars => (IInv /\ ProxyInv)'
  BY StepInv, ManagerStep, ProxyStep
<1>3. ProxyInv => CurrentBackend
  BY DEF ProxyInv
<1> QED
  BY <1>1, <1>2, <1>3, PTL DEF ProxySpec

=============================================================================

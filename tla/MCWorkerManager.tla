-------------------------- MODULE MCWorkerManager --------------------------
(***************************************************************************)
(* WorkerManager on small instances, for TLC.                              *)
(***************************************************************************)
EXTENDS WorkerManagerInv, TLC

(* The pool, in the order allocate_port() tries it.                        *)
OnePort == 1 .. 1
TwoPorts == 1 .. 2

(* Workers, sids and threads are interchangeable; ports are ordered.       *)
Symmetric == Permutations(Worker) \cup Permutations(Sid) \cup Permutations(Thread)

(* Of a worker that no session and no thread refers to, only the process   *)
(* is left.                                                                *)
Rest(w) ==
  CASE Referred(w) -> <<worker[w], proc[w], w \in termed>>
    [] Alive(w)    -> <<worker[w].port, proc[w], w \in termed>>
    [] OTHER       -> <<proc[w] = "zombie">>
View == <<sessions, portsInUse, [w \in Worker |-> Rest(w)], thread, lifeVars>>

=============================================================================

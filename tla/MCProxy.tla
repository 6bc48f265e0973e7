------------------------------ MODULE MCProxy ------------------------------
(***************************************************************************)
(* Proxy on small instances, for TLC.                                      *)
(***************************************************************************)
EXTENDS Proxy, TLC

OnePort == 1 .. 1
TwoPorts == 1 .. 2

(* As in MCWorkerManager; `quiet` is not read by any guard.                *)
Rest(w) ==
  CASE Referred(w) -> <<worker[w], proc[w], w \in termed>>
    [] Alive(w)    -> <<worker[w].port, proc[w], w \in termed>>
    [] OTHER       -> <<proc[w] = "zombie">>
View == <<sessions, portsInUse, [w \in Worker |-> Rest(w)], thread, lifeVars, backend>>

Symmetric == Permutations(Worker) \cup Permutations(Sid) \cup Permutations(Thread)

=============================================================================

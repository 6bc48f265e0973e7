---------------------------- MODULE SessionPorts ----------------------------
(***************************************************************************)
(* What the worker manager promises about ports (README.md: "tabler-server *)
(* assigns a private loopback port to each worker"): a session is granted  *)
(* a port no other session has, keeps that port for as long as it lives,   *)
(* and ends together with any number of other sessions.                    *)
(***************************************************************************)
CONSTANTS Sid, Port, None

VARIABLE lease   \* the port of each session, None where there is no session

Init == lease = [s \in Sid |-> None]

Grant(s, p) ==
  /\ lease[s] = None
  /\ \A r \in Sid : lease[r] # p
  /\ lease' = [lease EXCEPT ![s] = p]

End(S) == lease' = [s \in Sid |-> IF s \in S THEN None ELSE lease[s]]

Next ==
  \/ \E s \in Sid, p \in Port : Grant(s, p)
  \/ \E S \in SUBSET Sid : End(S)

Spec == Init /\ [][Next]_lease

=============================================================================

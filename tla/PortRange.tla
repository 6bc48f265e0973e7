----------------------------- MODULE PortRange -----------------------------
(***************************************************************************)
(* The range of worker ports (src/worker.cpp, allocate_port, release_port) *)
(* with the width of its integers: a port number is cut to its bits, and 0 *)
(* stands for a range that is used up.  WorkerManager takes the range for  *)
(* a set; this module says when that is right.  Each call is made under    *)
(* the manager's mutex.                                                    *)
(***************************************************************************)
EXTENDS Integers, FiniteSetsExt

CONSTANTS
    PortModulus,  \* 2^16
    Base,         \* worker_port_base
    Count         \* worker_port_count

ASSUME PortRangeOK ==
    /\ PortModulus \in Nat \ {0} /\ Base \in 0 .. PortModulus - 1 /\ Count \in 0 .. PortModulus - 1

VARIABLES
    inUse,      \* ports_in_use_, the ports marked there
    sessionsAt, \* how many sessions have each port
    returned    \* what the last call of allocate_port returned

portVars == <<inUse, sessionsAt, returned>>

Exhausted == 0
NoCall    == -1
Numbers   == 0 .. PortModulus - 1

PortTypeOK ==
    /\ inUse \subseteq Numbers /\ sessionsAt \in [Numbers -> Nat]
    /\ returned \in Numbers \cup {NoCall}
    /\ \A p \in Numbers : sessionsAt[p] > 0 => p \in inUse

PortInit == inUse = {} /\ sessionsAt = [p \in Numbers |-> 0] /\ returned = NoCall

\* The i-th port of the range.
Port(i) == (Base + i) % PortModulus

\* Faulty: the last port of the range is forgotten.
OffsetsShort == {i \in 0 .. Count - 2 : Port(i) \notin inUse}

\* The places in the range whose ports are not marked.
Offsets == {i \in 0 .. Count - 1 : Port(i) \notin inUse}

\* Faulty: the port is not marked.
NotMarked(p) == inUse

\* The marked ports, once p is handed out.
Marked(p) == inUse \cup {p}

\* allocate_port(): ensure_session takes the port unless it is 0.
Allocate ==
    \/ /\ Offsets # {}
       /\ LET p == Port(Min(Offsets))
          IN /\ inUse' = Marked(p) /\ returned' = p
             /\ sessionsAt' = IF p = Exhausted THEN sessionsAt
                            ELSE [sessionsAt EXCEPT ![p] = @ + 1]
    \/ /\ Offsets = {}
       /\ returned' = Exhausted
       /\ UNCHANGED <<inUse, sessionsAt>>

\* The marked ports, once p is released.
Unmarked(p) == inUse \ {p}

Release(p) ==
    /\ sessionsAt[p] > 0
    /\ sessionsAt' = [sessionsAt EXCEPT ![p] = @ - 1] /\ inUse' = Unmarked(p)
    /\ returned' = NoCall

PortNext == Allocate \/ \E p \in Numbers : Release(p)
PortSpec == PortInit /\ [][PortNext]_portVars

\* No two sessions have the same port, whatever the order of starts and ends.
PortIsOwn == \A p \in Numbers : sessionsAt[p] <= 1

\* "no worker ports available (increase worker_port_count)" (worker.cpp:119):
\* a session is refused only when every port of the range has a session.
ExhaustedMeansFull ==
    returned = Exhausted => \A i \in 0 .. Count - 1 : sessionsAt[Port(i)] > 0
=============================================================================

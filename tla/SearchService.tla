--------------------------- MODULE SearchService ---------------------------
(***************************************************************************)
(* What the search client of the documentation site promises to those who  *)
(* search: everybody who waits for a query gets the same outcome together; *)
(* an answer is kept and given at once from then on; a failure is not kept *)
(* and concerns only those who waited.                                     *)
(***************************************************************************)
EXTENDS Integers

CONSTANTS Searches, Queries

VARIABLES
    outcome,  \* of each search: "idle", "waiting", "answered" or "failed"
    subject,  \* the query of each search
    answers   \* the queries whose answer is kept

Outcomes == {"idle", "waiting", "answered", "failed"}

ServiceTypeOK ==
    /\ outcome \in [Searches -> Outcomes]
    /\ subject \in [Searches -> Queries]
    /\ answers \subseteq Queries

ServiceInit ==
    /\ outcome = [s \in Searches |-> "idle"]
    /\ subject \in [Searches -> Queries]
    /\ answers = {}

\* The searches that wait for q get outcome o.
Settled(q, o) ==
    [s \in Searches |-> IF outcome[s] = "waiting" /\ subject[s] = q THEN o ELSE outcome[s]]

Ask(s, q) ==
    /\ outcome[s] = "idle"
    /\ subject' = [subject EXCEPT ![s] = q]
    /\ outcome' = [outcome EXCEPT ![s] = IF q \in answers THEN "answered" ELSE "waiting"]
    /\ UNCHANGED answers

Waited(q) == \E s \in Searches : outcome[s] = "waiting" /\ subject[s] = q

Reply(q) ==
    /\ Waited(q)
    /\ outcome' = Settled(q, "answered")
    /\ answers' = answers \cup {q}
    /\ UNCHANGED subject

Refuse(q) ==
    /\ Waited(q)
    /\ outcome' = Settled(q, "failed")
    /\ UNCHANGED <<subject, answers>>

ServiceNext ==
    \/ \E s \in Searches, q \in Queries : Ask(s, q)
    \/ \E q \in Queries : Reply(q) \/ Refuse(q)

ServiceSpec == ServiceInit /\ [][ServiceNext]_<<outcome, subject, answers>>
=============================================================================

---------------------------- MODULE Transporter ----------------------------
(***************************************************************************)
(* The search client of the documentation site (docs/js/docs.js): its two  *)
(* caches, the chain of hosts it tries and the two timers of a request.    *)
(*                                                                         *)
(* A search that finds nothing in the caches starts a chain; a search for  *)
(* the same query meanwhile waits for the promise of that chain.  A timer, *)
(* an event of the network or a call with the promise callbacks it sets    *)
(* off is one action.                                                      *)
(***************************************************************************)
EXTENDS Integers, FiniteSets, FiniteSetsExt

CONSTANTS
    Searches,        \* the calls of search()
    Queries,
    HostCount,       \* the hosts that may be read, tried in this order
    ConnectTimeout,  \* timeouts.connect and timeouts.read
    ReadTimeout,
    None

ASSUME TransporterOK ==
    /\ HostCount \in Nat \ {0}
    /\ ConnectTimeout \in Nat \ {0} /\ ReadTimeout \in Nat \ {0}
    /\ None \notin Searches

VARIABLES
    search,     \* of each call: its query and its outcome
    waits,      \* the search whose chain a call waits for
    chain,      \* the chain a search has started
    requests,   \* requestsCache: the search whose promise is kept for a query
    responses,  \* responsesCache: the queries whose answer is kept
    notes,      \* hostsCache: the status that is kept under each key
    waited      \* the time a call has waited

vars == <<search, waits, chain, requests, responses, notes, waited>>

Hosts  == 1 .. HostCount
Status == {"up", "down", "timed out"}

(***************************************************************************)
(* A status is kept under the host as it was tried, with status and date;  *)
(* it is looked up by the host as it was configured.                       *)
(***************************************************************************)
Keys == [host : Hosts, stateful : BOOLEAN]

ReadKey(h)  == [host |-> h, stateful |-> FALSE]

\* Faulty: one key for both, under which the status loses its date.
SameKey(h) == [host |-> h, stateful |-> FALSE]

WriteKey(h) == [host |-> h, stateful |-> TRUE]

SearchRecord == [query : Queries,
                 state : {"idle", "waiting", "answered", "rejected", "unreachable"}]
ChainRecord  == [phase : {"off", "connect", "read"}, host : Hosts, tried : SUBSET Hosts,
                 slow : 0 .. HostCount - 1, age : Nat]
Off == [phase |-> "off", host |-> 1, tried |-> {}, slow |-> 0, age |-> 0]

TypeOK ==
    /\ search \in [Searches -> SearchRecord]
    /\ waits \in [Searches -> Searches \cup {None}]
    /\ chain \in [Searches -> ChainRecord]
    /\ requests \in [Queries -> Searches \cup {None}]
    /\ responses \subseteq Queries
    /\ notes \in [Keys -> Status]
    /\ waited \in [Searches -> Nat]

Init ==
    /\ search \in [Searches -> {r \in SearchRecord : r.state = "idle"}]
    /\ waits = [s \in Searches |-> None]
    /\ chain = [s \in Searches |-> Off]
    /\ requests = [q \in Queries |-> None]
    /\ responses = {}
    /\ notes = [k \in Keys |-> "up"]
    /\ waited = [s \in Searches |-> 0]

-----------------------------------------------------------------------------
(***************************************************************************)
(* The hosts.  The code looks their statuses up once, before the chain     *)
(* starts; here they are looked up at each host, which makes no difference *)
(* as long as no status that was stored is ever found (see ReadKey).       *)
(***************************************************************************)
UpHosts   == {h \in Hosts : notes[ReadKey(h)] = "up"}
SlowHosts == {h \in Hosts : notes[ReadKey(h)] = "timed out"}
Usable    == IF UpHosts \cup SlowHosts = {} THEN Hosts ELSE UpHosts \cup SlowHosts

\* The next host: those that are up first, in their order.
NextHost(tried) ==
    LET up == UpHosts \ tried
    IN IF up # {} THEN Min(up) ELSE Min(Usable \ tried)

\* Faulty: the first timeout is as long as if hosts were slow.
TimeoutLong(slow, t) == (Cardinality(SlowHosts) + 3 + slow) * t

\* getTimeout: it grows with the time-outs the chain has met.
Timeout(slow, t) ==
    IF slow = 0 /\ SlowHosts = {} THEN t ELSE (Cardinality(SlowHosts) + 3 + slow) * t

Limit(c) ==
    IF c.phase = "connect" THEN Timeout(c.slow, ConnectTimeout) ELSE Timeout(c.slow, ReadTimeout)

Running(s) == chain[s].phase # "off"

-----------------------------------------------------------------------------
(***************************************************************************)
(* The calls and the ends of a chain.                                      *)
(***************************************************************************)

\* Faulty: the promise of a chain is not found again.
PromisedNever(q) == None

\* The chain whose promise is kept for q.
Promised(q) == requests[q]

\* A call of search(): the answer that is kept, the promise that is kept, or a chain.
Search(s, q) ==
    /\ search[s].state = "idle"
    /\ \/ /\ q \in responses
          /\ search' = [search EXCEPT ![s] = [query |-> q, state |-> "answered"]]
          /\ UNCHANGED <<waits, chain, requests>>
       \/ /\ q \notin responses /\ Promised(q) # None
          /\ search' = [search EXCEPT ![s] = [query |-> q, state |-> "waiting"]]
          /\ waits' = [waits EXCEPT ![s] = Promised(q)]
          /\ UNCHANGED <<chain, requests>>
       \/ /\ q \notin responses /\ Promised(q) = None
          /\ search' = [search EXCEPT ![s] = [query |-> q, state |-> "waiting"]]
          /\ waits' = [waits EXCEPT ![s] = s]
          /\ requests' = [requests EXCEPT ![q] = s]
          /\ chain' = [chain EXCEPT ![s] =
                 [phase |-> "connect", host |-> NextHost({}), tried |-> {NextHost({})},
                  slow |-> 0, age |-> 0]]
    /\ UNCHANGED <<responses, notes, waited>>

\* The requests cache keeps a promise no longer than it is pending.
Forget(q) == requests' = [requests EXCEPT ![q] = None]

\* All who wait for the chain of s get its outcome.
End(s, o) ==
    /\ search' = [d \in Searches |->
           IF waits[d] = s THEN [search[d] EXCEPT !.state = o] ELSE search[d]]
    /\ waits' = [d \in Searches |-> IF waits[d] = s THEN None ELSE waits[d]]
    /\ chain' = [chain EXCEPT ![s] = Off]
    /\ waited' = [d \in Searches |-> IF waits[d] = s THEN 0 ELSE waited[d]]
    /\ Forget(search[s].query)

\* Where the status of a host is kept.
Note(h, status) == notes' = [notes EXCEPT ![WriteKey(h)] = status]

\* A failure of one host: the next one is tried, if any is left.
Retry(s, status, slow) ==
    LET c == chain[s]
    IN /\ Note(c.host, status)
       /\ \/ /\ Usable \subseteq c.tried
             /\ End(s, "unreachable")
          \/ /\ ~(Usable \subseteq c.tried)
             /\ chain' = [chain EXCEPT ![s] =
                    [phase |-> "connect", host |-> NextHost(c.tried),
                     tried |-> c.tried \cup {NextHost(c.tried)}, slow |-> slow, age |-> 0]]
             /\ UNCHANGED <<search, waits, requests, waited>>
       /\ UNCHANGED responses

-----------------------------------------------------------------------------
(***************************************************************************)
(* The network and the timers.                                             *)
(***************************************************************************)

\* The head of the response: the second timer replaces the first.
Head(s) ==
    /\ chain[s].phase = "connect"
    /\ chain' = [chain EXCEPT ![s].phase = "read", ![s].age = 0]
    /\ UNCHANGED <<search, waits, requests, responses, notes, waited>>

\* A response of 2xx that can be read.
Answer(s) ==
    /\ chain[s].phase = "read"
    /\ responses' = responses \cup {search[s].query}
    /\ End(s, "answered")
    /\ UNCHANGED notes

\* One of 4xx, or one that cannot be read: no other host is asked.
Reject(s) ==
    /\ chain[s].phase = "read"
    /\ End(s, "rejected")
    /\ UNCHANGED <<responses, notes>>

\* Any other response, or a network error before or after its head.
Break(s) ==
    /\ Running(s)
    /\ Retry(s, "down", chain[s].slow)

\* Faulty: the head of the response clears the one timer and sets no other.
DueConnect(s) == chain[s].phase = "connect" /\ chain[s].age = Limit(chain[s])

Due(s) == Running(s) /\ chain[s].age = Limit(chain[s])

Expire(s) ==
    /\ Due(s)
    /\ Retry(s, "timed out", chain[s].slow + 1)

\* Time passes; a timer that is due fires before it does.
Tick ==
    /\ \E s \in Searches : Running(s)
    /\ \A s \in Searches : Running(s) => chain[s].age < Limit(chain[s])
    /\ chain' = [s \in Searches |->
           IF Running(s) THEN [chain[s] EXCEPT !.age = @ + 1] ELSE chain[s]]
    /\ waited' = [s \in Searches |->
           IF search[s].state = "waiting" THEN waited[s] + 1 ELSE waited[s]]
    /\ UNCHANGED <<search, waits, requests, responses, notes>>

Next ==
    \/ \E s \in Searches, q \in Queries : Search(s, q)
    \/ \E s \in Searches : Head(s) \/ Answer(s) \/ Reject(s) \/ Break(s) \/ Expire(s)
    \/ Tick

Spec     == Init /\ [][Next]_vars
FairSpec == Spec /\ WF_vars(Tick) /\ \A s \in Searches : WF_vars(Expire(s))

-----------------------------------------------------------------------------
(***************************************************************************)
(* Properties.                                                             *)
(***************************************************************************)

\* Two chains for one query never run at a time, and none for a query whose
\* answer is kept: a dialog does not ask the service twice.
AskedOnce ==
    \A s \in Searches : Running(s) =>
        /\ search[s].query \notin responses
        /\ \A d \in Searches : Running(d) /\ search[d].query = search[s].query => d = s

\* A search waits for a promise that is pending, and for its own query: no search
\* gets a failure that is older than itself.
PromiseIsPending ==
    \A s \in Searches : search[s].state = "waiting" =>
        waits[s] # None /\ Running(waits[s]) /\ search[waits[s]].query = search[s].query

\* The service is said to be unreachable only after every host was tried.
EveryHostTried ==
    [][\A s \in Searches : search[s].state = "waiting" /\ search'[s].state = "unreachable"
           => chain[waits[s]].tried = Hosts]_vars

\* By how much the timeouts of the n-th host of a chain are multiplied at most,
\* and the sum of the timeouts of the first n hosts.
Factor(n) == IF n = 1 THEN 1 ELSE n + 2
Within[n \in 0 .. HostCount] ==
    IF n = 0 THEN 0 ELSE Within[n - 1] + Factor(n) * (ConnectTimeout + ReadTimeout)
Patience == Within[HostCount]

\* However slow the hosts are, a search ends within the sum of their timeouts.
GivesUpInTime == \A s \in Searches : waited[s] <= Patience

\* Every search gets an answer or an error, whatever the network does.
EverySearchEnds ==
    \A s \in Searches : (search[s].state = "waiting") ~> (search[s].state # "waiting")

-----------------------------------------------------------------------------
\* The client keeps the promise of SearchService.
Outcome(s) == IF search[s].state \in {"rejected", "unreachable"} THEN "failed" ELSE search[s].state

Service == INSTANCE SearchService WITH
    outcome <- [s \in Searches |-> Outcome(s)],
    subject <- [s \in Searches |-> search[s].query],
    answers <- responses
ImplementsService == Service!ServiceSpec
=============================================================================

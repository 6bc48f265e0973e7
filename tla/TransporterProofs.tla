------------------------- MODULE TransporterProofs -------------------------
(***************************************************************************)
(* The search client keeps the promise of SearchService, for any number of *)
(* searches, queries and hosts and any timeouts.                           *)
(***************************************************************************)
EXTENDS Transporter, FiniteSetTheorems, WellFoundedInduction, TLAPS

(***************************************************************************)
(* The strengthening: a chain runs for the query whose promise is kept,    *)
(* and its own search waits for it.                                        *)
(***************************************************************************)
WaitsAreSearches ==
    \A d \in Searches : (waits[d] # None) = (search[d].state = "waiting")

KeptIsRunning ==
    \A q \in Queries : requests[q] # None =>
        q \notin responses /\ Running(requests[q]) /\ search[requests[q]].query = q

RunningIsKept ==
    \A s \in Searches : Running(s) => requests[search[s].query] = s /\ waits[s] = s

\* What is looked up is never what is kept: every host seems to be up.
AllUp == \A h \in Hosts : notes[ReadKey(h)] = "up"

\* A chain times out at most once with each host it tries.
SlowIsTried ==
    \A s \in Searches : Running(s) => chain[s].slow < Cardinality(chain[s].tried)

IInv == /\ TypeOK /\ WaitsAreSearches /\ PromiseIsPending /\ KeptIsRunning /\ RunningIsKept
        /\ AllUp /\ SlowIsTried

-----------------------------------------------------------------------------
(***************************************************************************)
(* The next host.                                                          *)
(***************************************************************************)
LEMMA LeastExists ==
  ASSUME NEW S \in SUBSET Nat, S # {}
  PROVE  \E x \in S : \A y \in S : x <= y
<1> DEFINE R == OpToRel(<, Nat)
<1>1. IsWellFoundedOn(R, Nat)
  BY NatLessThanWellFounded
<1>2. \A x, y \in Nat : y < x => <<y, x>> \in R
  BY DEF OpToRel
<1> HIDE DEF R
<1>3. PICK x \in S : \A y \in S : ~(<<y, x>> \in R)
  BY <1>1, WFMin
<1>4. x \in Nat /\ \A y \in S : y \in Nat
  OBVIOUS
<1>5. \A y \in S : ~(y < x)
  BY <1>2, <1>3, <1>4
<1>6. \A y \in S : x <= y
  BY <1>4, <1>5
<1> QED
  BY <1>6

LEMMA NextHostIsHost ==
  ASSUME AllUp, NEW tried \in SUBSET Hosts, tried # Hosts
  PROVE  NextHost(tried) \in Hosts \ tried
<1>1. UpHosts = Hosts /\ Usable = Hosts
  BY TransporterOK DEF AllUp, UpHosts, SlowHosts, Usable
<1>2. Hosts \ tried \in SUBSET Nat /\ Hosts \ tried # {}
  <2>1. Hosts \subseteq Nat
    BY TransporterOK DEF Hosts
  <2> QED
    BY <2>1
<1>3. Min(Hosts \ tried) \in Hosts \ tried
  BY <1>2, LeastExists DEF Min
<1> QED
  BY <1>1, <1>2, <1>3 DEF NextHost

LEMMA UsableIsAll ==
  ASSUME AllUp
  PROVE  Usable = Hosts
BY TransporterOK DEF AllUp, UpHosts, SlowHosts, Usable

\* Two chains at a time are for different queries.
LEMMA ChainsDiffer ==
  ASSUME IInv
  PROVE  \A s, d \in Searches :
             Running(s) /\ Running(d) /\ search[s].query = search[d].query => s = d
BY DEF IInv, RunningIsKept

-----------------------------------------------------------------------------
(***************************************************************************)
(* The steps.                                                              *)
(***************************************************************************)

\* Who waits for the chain that ends, and who does not.
LEMMA EndKeeps ==
  ASSUME IInv, NEW s \in Searches, Running(s), TypeOK', AllUp',
         NEW o \in {"answered", "rejected", "unreachable"}, End(s, o),
         responses' \in {responses, responses \cup {search[s].query}}
  PROVE  IInv'
<1>1. /\ \A d \in Searches : search[d] \in SearchRecord
      /\ \A d \in Searches : waits[d] \in Searches \cup {None}
      /\ \A q \in Queries : requests[q] \in Searches \cup {None}
      /\ search[s].query \in Queries /\ None \notin Searches
  BY TransporterOK DEF IInv, TypeOK, SearchRecord
<1>2. \A d \in Searches :
          /\ search'[d].query = search[d].query
          /\ waits[d] = s => search'[d].state = o /\ waits'[d] = None
          /\ waits[d] # s => search'[d] = search[d] /\ waits'[d] = waits[d]
  BY <1>1 DEF End, SearchRecord
<1>3. /\ \A d \in Searches : d # s => chain'[d] = chain[d]
      /\ chain'[s] = Off
  BY DEF IInv, TypeOK, End
<1>4. /\ requests'[search[s].query] = None
      /\ \A q \in Queries : q # search[s].query => requests'[q] = requests[q]
  BY <1>1 DEF End, Forget, IInv, TypeOK
<1>5. \A d \in Searches : Running(d)' = (d # s /\ Running(d))
  BY <1>3 DEF Running, Off
<1>6. WaitsAreSearches'
  BY <1>1, <1>2 DEF IInv, WaitsAreSearches
<1>7. PromiseIsPending'
  <2>1. SUFFICES ASSUME NEW d \in Searches, search'[d].state = "waiting"
                 PROVE  /\ waits'[d] # None /\ chain'[waits'[d]].phase # "off"
                        /\ search'[waits'[d]].query = search'[d].query
    BY DEF PromiseIsPending, Running
  <2>2. waits[d] # s
    BY <1>2, <2>1
  <2>3. search[d].state = "waiting" /\ waits'[d] = waits[d]
    BY <1>2, <2>1, <2>2
  <2>4. waits[d] \in Searches /\ Running(waits[d]) /\ search[waits[d]].query = search[d].query
    BY <1>1, <2>3 DEF IInv, PromiseIsPending
  <2> QED
    BY <1>1, <1>2, <1>5, <2>2, <2>3, <2>4 DEF Running
<1>8. KeptIsRunning'
  <2>1. SUFFICES ASSUME NEW q \in Queries, requests'[q] # None
                 PROVE  /\ q \notin responses' /\ chain'[requests'[q]].phase # "off"
                        /\ search'[requests'[q]].query = q
    BY DEF KeptIsRunning, Running
  <2>2. q # search[s].query /\ requests'[q] = requests[q]
    BY <1>4, <2>1
  <2>3. /\ requests[q] \in Searches /\ q \notin responses /\ Running(requests[q])
        /\ search[requests[q]].query = q
    BY <1>1, <2>1, <2>2 DEF IInv, KeptIsRunning
  <2>4. requests[q] # s
    BY <2>2, <2>3
  <2> QED
    BY <1>2, <1>5, <2>2, <2>3, <2>4 DEF Running
<1>9. RunningIsKept'
  <2>1. SUFFICES ASSUME NEW d \in Searches, Running(d), d # s
                 PROVE  requests'[search'[d].query] = d /\ waits'[d] = d
    BY <1>5 DEF RunningIsKept
  <2>2. search[d].query # search[s].query
    BY <2>1, ChainsDiffer
  <2>3. search[d].query \in Queries /\ requests[search[d].query] = d /\ waits[d] = d
    BY <1>1, <2>1 DEF IInv, RunningIsKept, SearchRecord
  <2> QED
    BY <1>2, <1>4, <2>1, <2>2, <2>3
<1>10. SlowIsTried'
  BY <1>3, <1>5 DEF IInv, SlowIsTried
<1> QED
  BY <1>6, <1>7, <1>8, <1>9, <1>10 DEF IInv

(* The types at the end of a chain.                                        *)
LEMMA EndTypes ==
  ASSUME IInv, NEW s \in Searches, NEW o \in {"answered", "rejected", "unreachable"},
         End(s, o), notes' \in [Keys -> Status],
         responses' \in {responses, responses \cup {search[s].query}}
  PROVE  TypeOK'
<1>1. search' \in [Searches -> SearchRecord]
  BY DEF IInv, TypeOK, End, SearchRecord
<1>2. Off \in ChainRecord
  BY TransporterOK DEF Off, ChainRecord, Hosts
<1>3. chain' \in [Searches -> ChainRecord]
  BY <1>2 DEF IInv, TypeOK, End
<1>4. /\ waits' \in [Searches -> Searches \cup {None}] /\ waited' \in [Searches -> Nat]
      /\ requests' \in [Queries -> Searches \cup {None}]
  BY DEF IInv, TypeOK, End, Forget
<1>5. search[s].query \in Queries
  BY DEF IInv, TypeOK, SearchRecord
<1>6. responses' \subseteq Queries
  BY <1>5 DEF IInv, TypeOK
<1> QED
  BY <1>1, <1>3, <1>4, <1>6 DEF TypeOK

(* A status is kept where nothing looks it up.                             *)
LEMMA NoteKeeps ==
  ASSUME IInv, NEW h \in Hosts, NEW status \in Status, Note(h, status)
  PROVE  notes' \in [Keys -> Status] /\ AllUp'
<1>1. WriteKey(h) \in Keys /\ \A i \in Hosts : ReadKey(i) \in Keys /\ ReadKey(i) # WriteKey(h)
  BY DEF WriteKey, ReadKey, Keys
<1> QED
  BY <1>1 DEF Note, AllUp, IInv, TypeOK

(* The timer of a chain is all that changes.                               *)
LEMMA ChainKeeps ==
  ASSUME IInv, UNCHANGED <<search, waits, requests, responses>>,
         chain' \in [Searches -> ChainRecord], notes' \in [Keys -> Status], AllUp',
         waited' \in [Searches -> Nat], SlowIsTried',
         \A d \in Searches : Running(d)' = Running(d)
  PROVE  IInv'
<1>1. TypeOK' /\ WaitsAreSearches'
  BY DEF IInv, TypeOK, WaitsAreSearches
<1>2. PromiseIsPending'
  BY DEF IInv, PromiseIsPending, TypeOK
<1>3. KeptIsRunning' /\ RunningIsKept'
  BY DEF IInv, KeptIsRunning, RunningIsKept, TypeOK
<1> QED
  BY <1>1, <1>2, <1>3 DEF IInv

(* A host more is tried.                                                   *)
LEMMA TriedGrows ==
  ASSUME NEW tried \in SUBSET Hosts, NEW h \in Hosts \ tried
  PROVE  /\ Cardinality(tried \cup {h}) = Cardinality(tried) + 1
         /\ Cardinality(tried) \in Nat
         /\ Cardinality(tried \cup {h}) <= HostCount
<1>1. IsFiniteSet(Hosts) /\ Cardinality(Hosts) = HostCount
  BY FS_Interval, TransporterOK DEF Hosts
<1>2. IsFiniteSet(tried)
  BY <1>1, FS_Subset
<1>3. Cardinality(tried \cup {h}) = Cardinality(tried) + 1 /\ Cardinality(tried) \in Nat
  BY <1>2, FS_AddElement, FS_CardinalityType
<1>4. tried \cup {h} \in SUBSET Hosts
  OBVIOUS
<1> QED
  BY <1>1, <1>3, <1>4, FS_Subset

(* A host fails: the chain goes on with a host it has not tried, or ends   *)
(* when it has tried all.                                                  *)
LEMMA RetryKeeps ==
  ASSUME IInv, NEW s \in Searches, Running(s), NEW status \in Status,
         NEW slow \in {chain[s].slow, chain[s].slow + 1},
         Retry(s, status, slow)
  PROVE  /\ IInv'
         /\ \/ End(s, "unreachable") /\ chain[s].tried = Hosts
            \/ UNCHANGED <<search, waits, requests>>
<1>1. chain[s] \in ChainRecord
  BY DEF IInv, TypeOK
<1>2. /\ chain[s].host \in Hosts /\ chain[s].tried \in SUBSET Hosts
      /\ chain[s].slow \in Nat /\ slow \in Nat /\ HostCount \in Nat
  BY <1>1, TransporterOK DEF ChainRecord
<1>3. notes' \in [Keys -> Status] /\ AllUp' /\ responses' = responses
  BY <1>2, NoteKeeps DEF Retry
<1>4. Usable = Hosts
  BY UsableIsAll DEF IInv
<1>5. CASE Usable \subseteq chain[s].tried /\ End(s, "unreachable")
  <2>1. TypeOK'
    BY <1>3, <1>5, EndTypes
  <2>2. IInv'
    BY <1>3, <1>5, <2>1, EndKeeps
  <2> QED
    BY <1>2, <1>4, <1>5, <2>2
<1>6. CASE /\ ~(Usable \subseteq chain[s].tried)
           /\ chain' = [chain EXCEPT ![s] =
                 [phase |-> "connect", host |-> NextHost(chain[s].tried),
                  tried |-> chain[s].tried \cup {NextHost(chain[s].tried)}, slow |-> slow, age |-> 0]]
           /\ UNCHANGED <<search, waits, requests, waited>>
  <2> DEFINE h == NextHost(chain[s].tried)
             tried == chain[s].tried \cup {h}
  <2>1. h \in Hosts \ chain[s].tried
    BY <1>2, <1>4, <1>6, NextHostIsHost DEF IInv
  <2>2. /\ Cardinality(tried) = Cardinality(chain[s].tried) + 1
        /\ Cardinality(chain[s].tried) \in Nat /\ Cardinality(tried) <= HostCount
    BY <1>2, <2>1, TriedGrows
  <2>3. slow < Cardinality(tried)
    BY <1>2, <2>2 DEF IInv, SlowIsTried
  <2>4. tried \in SUBSET Hosts
    BY <1>2, <2>1
  <2> HIDE DEF h, tried
  <2>5. [phase |-> "connect", host |-> h, tried |-> tried, slow |-> slow, age |-> 0] \in ChainRecord
    BY <1>2, <2>1, <2>2, <2>3, <2>4 DEF ChainRecord
  <2>6. chain' = [chain EXCEPT ![s] =
            [phase |-> "connect", host |-> h, tried |-> tried, slow |-> slow, age |-> 0]]
    BY <1>6 DEF h, tried
  <2>7. /\ chain' \in [Searches -> ChainRecord]
        /\ \A d \in Searches : d # s => chain'[d] = chain[d]
        /\ chain'[s].phase = "connect" /\ chain'[s].slow = slow /\ chain'[s].tried = tried
    BY <2>5, <2>6 DEF IInv, TypeOK
  <2>8. \A d \in Searches : Running(d)' = Running(d)
    BY <2>7 DEF Running
  <2>9. SlowIsTried'
    BY <2>3, <2>7, <2>8 DEF IInv, SlowIsTried
  <2>10. waited' \in [Searches -> Nat]
    BY <1>6 DEF IInv, TypeOK
  <2> QED
    BY <1>3, <1>6, <2>7, <2>8, <2>9, <2>10, ChainKeeps
<1> QED
  BY <1>5, <1>6 DEF Retry

(* A call, with an answer that is kept, a promise or a chain.              *)
LEMMA SearchKeeps ==
  ASSUME IInv, NEW s \in Searches, NEW q \in Queries, Search(s, q)
  PROVE  IInv'
<1>1. /\ search[s].state = "idle" /\ waits[s] = None /\ ~Running(s)
      /\ UNCHANGED <<responses, notes, waited>>
  <2>1. waits[s] = None
    BY DEF IInv, WaitsAreSearches, Search
  <2> QED
    BY <2>1, TransporterOK DEF Search, IInv, RunningIsKept
<1>2. /\ \A d \in Searches : search[d] \in SearchRecord
      /\ \A d \in Searches : waits[d] \in Searches \cup {None}
      /\ \A k \in Queries : requests[k] \in Searches \cup {None}
      /\ None \notin Searches
  BY TransporterOK DEF IInv, TypeOK
<1>3. \A d \in Searches : search[d].state = "waiting" =>
          d # s /\ waits[d] # s /\ waits[d] \in Searches
  BY <1>1, <1>2 DEF IInv, PromiseIsPending
<1>4. \A k \in Queries : requests[k] # s
  BY <1>1, <1>2 DEF IInv, KeptIsRunning
<1>5. ASSUME NEW st \in {"answered", "waiting"},
             search' = [search EXCEPT ![s] = [query |-> q, state |-> st]]
      PROVE  /\ search' \in [Searches -> SearchRecord]
             /\ search'[s].query = q /\ search'[s].state = st
             /\ \A d \in Searches : d # s => search'[d] = search[d]
  BY <1>5 DEF IInv, TypeOK, SearchRecord
<1>6. CASE /\ q \in responses
           /\ search' = [search EXCEPT ![s] = [query |-> q, state |-> "answered"]]
           /\ UNCHANGED <<waits, chain, requests>>
  <2>1. /\ search' \in [Searches -> SearchRecord]
        /\ search'[s].query = q /\ search'[s].state = "answered"
        /\ \A d \in Searches : d # s => search'[d] = search[d]
    BY <1>5, <1>6
  <2>2. TypeOK' /\ AllUp' /\ SlowIsTried'
    BY <1>1, <1>6, <2>1 DEF IInv, TypeOK, AllUp, SlowIsTried, Running
  <2>3. WaitsAreSearches' /\ PromiseIsPending'
    BY <1>1, <1>3, <1>6, <2>1 DEF IInv, WaitsAreSearches, PromiseIsPending, Running
  <2>4. KeptIsRunning' /\ RunningIsKept'
    BY <1>1, <1>2, <1>4, <1>6, <2>1 DEF IInv, KeptIsRunning, RunningIsKept, Running
  <2> QED
    BY <2>2, <2>3, <2>4 DEF IInv
<1>7. CASE /\ q \notin responses /\ Promised(q) # None
           /\ search' = [search EXCEPT ![s] = [query |-> q, state |-> "waiting"]]
           /\ waits' = [waits EXCEPT ![s] = Promised(q)]
           /\ UNCHANGED <<chain, requests>>
  <2>1. /\ search' \in [Searches -> SearchRecord]
        /\ search'[s].query = q /\ search'[s].state = "waiting"
        /\ \A d \in Searches : d # s => search'[d] = search[d]
    BY <1>5, <1>7
  <2>2. /\ requests[q] \in Searches /\ Running(requests[q])
        /\ search[requests[q]].query = q /\ requests[q] # s
    BY <1>2, <1>4, <1>7 DEF IInv, KeptIsRunning, Promised
  <2>3. /\ waits' \in [Searches -> Searches \cup {None}] /\ waits'[s] = requests[q]
        /\ \A d \in Searches : d # s => waits'[d] = waits[d]
    BY <1>7, <2>2 DEF IInv, TypeOK, Promised
  <2>4. TypeOK' /\ AllUp' /\ SlowIsTried'
    BY <1>1, <1>7, <2>1, <2>3 DEF IInv, TypeOK, AllUp, SlowIsTried, Running
  <2>5. WaitsAreSearches' /\ PromiseIsPending'
    BY <1>2, <1>3, <1>7, <2>1, <2>2, <2>3 DEF IInv, WaitsAreSearches, PromiseIsPending, Running
  <2>6. KeptIsRunning' /\ RunningIsKept'
    BY <1>1, <1>2, <1>4, <1>7, <2>1, <2>3 DEF IInv, KeptIsRunning, RunningIsKept, Running
  <2> QED
    BY <2>4, <2>5, <2>6 DEF IInv
<1>8. CASE /\ q \notin responses /\ Promised(q) = None
           /\ search' = [search EXCEPT ![s] = [query |-> q, state |-> "waiting"]]
           /\ waits' = [waits EXCEPT ![s] = s]
           /\ requests' = [requests EXCEPT ![q] = s]
           /\ chain' = [chain EXCEPT ![s] =
                 [phase |-> "connect", host |-> NextHost({}), tried |-> {NextHost({})},
                  slow |-> 0, age |-> 0]]
  <2>1. /\ search' \in [Searches -> SearchRecord]
        /\ search'[s].query = q /\ search'[s].state = "waiting"
        /\ \A d \in Searches : d # s => search'[d] = search[d]
    BY <1>5, <1>8
  <2>2. /\ waits' \in [Searches -> Searches \cup {None}] /\ waits'[s] = s
        /\ \A d \in Searches : d # s => waits'[d] = waits[d]
        /\ requests' \in [Queries -> Searches \cup {None}] /\ requests'[q] = s
        /\ \A k \in Queries : k # q => requests'[k] = requests[k]
    BY <1>8 DEF IInv, TypeOK
  <2>3. NextHost({}) \in Hosts
    <3>1. {} \in SUBSET Hosts /\ {} # Hosts
      BY TransporterOK DEF Hosts
    <3> QED
      BY <3>1, NextHostIsHost DEF IInv
  <2>4. /\ Cardinality({NextHost({})}) = 1
        /\ {NextHost({})} \in SUBSET Hosts
    BY <2>3, FS_Singleton
  <2>5. [phase |-> "connect", host |-> NextHost({}), tried |-> {NextHost({})},
         slow |-> 0, age |-> 0] \in ChainRecord
    BY <2>3, <2>4, TransporterOK DEF ChainRecord
  <2>6. /\ chain' \in [Searches -> ChainRecord]
        /\ \A d \in Searches : d # s => chain'[d] = chain[d]
        /\ chain'[s].phase = "connect" /\ chain'[s].slow = 0 /\ chain'[s].tried = {NextHost({})}
    BY <1>8, <2>5 DEF IInv, TypeOK
  <2>7. TypeOK' /\ AllUp'
    BY <1>1, <1>8, <2>1, <2>2, <2>6 DEF IInv, TypeOK, AllUp
  <2>8. SlowIsTried'
    <3>1. chain'[s].slow < Cardinality(chain'[s].tried)
      BY <2>4, <2>6
    <3>2. ASSUME NEW d \in Searches, d # s, Running(d)'
          PROVE  chain'[d].slow < Cardinality(chain'[d].tried)
      BY <2>6, <3>2 DEF IInv, SlowIsTried, Running
    <3> QED
      BY <3>1, <3>2 DEF SlowIsTried
  <2>9. WaitsAreSearches' /\ PromiseIsPending'
    BY <1>2, <1>3, <2>1, <2>2, <2>6 DEF IInv, WaitsAreSearches, PromiseIsPending, Running
  <2>10. KeptIsRunning'
    BY <1>1, <1>2, <1>4, <1>8, <2>1, <2>2, <2>6 DEF IInv, KeptIsRunning, Running
  <2>11. RunningIsKept'
    <3>1. ASSUME NEW d \in Searches, d # s, Running(d)
          PROVE  search[d].query # q /\ requests[search[d].query] = d /\ waits[d] = d
      BY <1>2, <1>8, <3>1 DEF IInv, RunningIsKept, Promised
    <3>2. \A d \in Searches : search[d].query \in Queries
      BY <1>2 DEF SearchRecord
    <3> QED
      BY <2>1, <2>2, <2>6, <3>1, <3>2 DEF RunningIsKept, Running
  <2> QED
    BY <2>7, <2>8, <2>9, <2>10, <2>11 DEF IInv
<1> QED
  BY <1>6, <1>7, <1>8 DEF Search

(* The other steps.                                                        *)
LEMMA HeadKeeps ==
  ASSUME IInv, NEW s \in Searches, Head(s)
  PROVE  IInv'
<1>1. chain[s] \in ChainRecord /\ chain[s].phase = "connect"
  BY DEF IInv, TypeOK, Head
<1>2. chain' = [chain EXCEPT ![s] = [chain[s] EXCEPT !.phase = "read", !.age = 0]]
  BY DEF Head, IInv, TypeOK
<1>3. [chain[s] EXCEPT !.phase = "read", !.age = 0] \in ChainRecord
  BY <1>1 DEF ChainRecord
<1>4. /\ chain' \in [Searches -> ChainRecord]
      /\ \A d \in Searches : d # s => chain'[d] = chain[d]
      /\ chain'[s] = [chain[s] EXCEPT !.phase = "read", !.age = 0]
  BY <1>2, <1>3 DEF IInv, TypeOK
<1>5. /\ chain'[s].phase = "read" /\ chain'[s].slow = chain[s].slow
      /\ chain'[s].tried = chain[s].tried
  BY <1>1, <1>4 DEF ChainRecord
<1>6. \A d \in Searches : Running(d)' = Running(d)
  BY <1>1, <1>4, <1>5 DEF Running
<1>7. SlowIsTried'
  <2>1. \A d \in Searches :
            chain'[d].slow = chain[d].slow /\ chain'[d].tried = chain[d].tried
    BY <1>4, <1>5
  <2> QED
    BY <1>6, <2>1 DEF IInv, SlowIsTried
<1> QED
  BY <1>4, <1>6, <1>7, ChainKeeps DEF Head, IInv, TypeOK, AllUp

LEMMA TickKeeps ==
  ASSUME IInv, Tick
  PROVE  IInv'
<1>1. \A d \in Searches :
          /\ chain'[d] \in ChainRecord /\ chain'[d].phase = chain[d].phase
          /\ chain'[d].slow = chain[d].slow /\ chain'[d].tried = chain[d].tried
  <2>1. SUFFICES ASSUME NEW d \in Searches
                 PROVE  /\ chain'[d] \in ChainRecord /\ chain'[d].phase = chain[d].phase
                        /\ chain'[d].slow = chain[d].slow /\ chain'[d].tried = chain[d].tried
    OBVIOUS
  <2>2. chain[d] \in ChainRecord
    BY DEF IInv, TypeOK
  <2>3. chain'[d] = IF Running(d) THEN [chain[d] EXCEPT !.age = @ + 1] ELSE chain[d]
    BY DEF Tick
  <2> QED
    BY <2>2, <2>3 DEF ChainRecord
<1>2. chain' \in [Searches -> ChainRecord]
  BY <1>1 DEF Tick
<1>3. waited' \in [Searches -> Nat]
  BY DEF Tick, IInv, TypeOK
<1>4. \A d \in Searches : Running(d)' = Running(d)
  BY <1>1 DEF Running
<1>5. SlowIsTried'
  BY <1>1, <1>4 DEF IInv, SlowIsTried
<1> QED
  BY <1>2, <1>3, <1>4, <1>5, ChainKeeps DEF Tick, IInv, TypeOK, AllUp

LEMMA EndsKeep ==
  ASSUME IInv, NEW s \in Searches, Answer(s) \/ Reject(s)
  PROVE  IInv'
<1>1. Running(s) /\ notes' = notes /\ notes' \in [Keys -> Status] /\ AllUp'
  BY DEF Answer, Reject, Running, IInv, TypeOK, AllUp
<1>2. PICK o \in {"answered", "rejected"} :
         End(s, o) /\ responses' \in {responses, responses \cup {search[s].query}}
  BY DEF Answer, Reject
<1>3. TypeOK'
  BY <1>1, <1>2, EndTypes
<1> QED
  BY <1>1, <1>2, <1>3, EndKeeps

(* What Break and Expire have in common.                                   *)
LEMMA FailureRetries ==
  ASSUME IInv, NEW s \in Searches, Break(s) \/ Expire(s)
  PROVE  /\ Running(s) /\ IInv'
         /\ \/ End(s, "unreachable") /\ chain[s].tried = Hosts
            \/ UNCHANGED <<search, waits, requests>>
<1>1. CASE Break(s)
  BY <1>1, RetryKeeps DEF Break, Status
<1>2. CASE Expire(s)
  BY <1>2, RetryKeeps DEF Expire, Due, Status
<1> QED
  BY <1>1, <1>2

LEMMA StepKeeps ==
  ASSUME IInv, [Next]_vars
  PROVE  IInv'
<1>1. CASE \E s \in Searches, q \in Queries : Search(s, q)
  BY <1>1, SearchKeeps
<1>2. CASE \E s \in Searches : Head(s) \/ Answer(s) \/ Reject(s) \/ Break(s) \/ Expire(s)
  BY <1>2, HeadKeeps, EndsKeep, FailureRetries
<1>3. CASE Tick
  BY <1>3, TickKeeps
<1>4. CASE UNCHANGED vars
  BY <1>4 DEF vars, IInv, TypeOK, WaitsAreSearches, PromiseIsPending, KeptIsRunning,
              RunningIsKept, AllUp, SlowIsTried, Running
<1> QED
  BY <1>1, <1>2, <1>3, <1>4 DEF Next

LEMMA InitHolds ==
  ASSUME Init
  PROVE  IInv
<1>1. Off \in ChainRecord /\ Off.phase = "off"
  BY TransporterOK DEF Off, ChainRecord, Hosts
<1>2. \A s \in Searches : ~Running(s) /\ search[s].state = "idle" /\ search[s] \in SearchRecord
  BY <1>1 DEF Init, Running
<1>3. TypeOK
  BY <1>1 DEF Init, TypeOK, Status
<1>4. AllUp
  BY DEF Init, AllUp, ReadKey, Keys
<1> QED
  BY <1>2, <1>3, <1>4
     DEF IInv, Init, WaitsAreSearches, PromiseIsPending, KeptIsRunning, RunningIsKept, SlowIsTried

LEMMA Invariance == Spec => []IInv
<1>1. IInv /\ [Next]_vars => IInv'
  BY StepKeeps
<1> QED
  BY <1>1, InitHolds, PTL DEF Spec

-----------------------------------------------------------------------------
(***************************************************************************)
(* The theorems.                                                           *)
(***************************************************************************)

(* The caches, the chains and the calls have the forms the code gives them; *)
(* among others a chain times out at most once with each host.             *)
THEOREM ClientTypeOK == Spec => []TypeOK
<1>1. IInv => TypeOK
  BY DEF IInv
<1> QED
  BY <1>1, Invariance, PTL

(* No query is asked twice at a time, or once its answer is kept.          *)
THEOREM ClientAskedOnce == Spec => []AskedOnce
<1>1. ASSUME IInv
      PROVE  AskedOnce
  <2>1. SUFFICES ASSUME NEW s \in Searches, Running(s)
                 PROVE  /\ search[s].query \notin responses
                        /\ \A d \in Searches :
                               Running(d) /\ search[d].query = search[s].query => d = s
    BY DEF AskedOnce
  <2>2. search[s].query \in Queries /\ None \notin Searches
    BY <1>1, TransporterOK DEF IInv, TypeOK, SearchRecord
  <2>3. requests[search[s].query] = s
    BY <1>1, <2>1 DEF IInv, RunningIsKept
  <2> QED
    BY <1>1, <2>1, <2>2, <2>3, ChainsDiffer DEF IInv, KeptIsRunning
<1> QED
  BY <1>1, Invariance, PTL

(* Nobody waits for a promise that has an outcome already.                 *)
THEOREM ClientPromiseIsPending == Spec => []PromiseIsPending
<1>1. IInv => PromiseIsPending
  BY DEF IInv
<1> QED
  BY <1>1, Invariance, PTL

(* Who gets the outcome of a chain.                                        *)
LEMMA WhoEnds ==
  ASSUME IInv, NEW s \in Searches, NEW o \in {"answered", "rejected", "unreachable"}, End(s, o)
  PROVE  \A d \in Searches :
             /\ search'[d].query = search[d].query
             /\ search'[d].state = IF waits[d] = s THEN o ELSE search[d].state
BY DEF End, IInv, TypeOK, SearchRecord

(* A search is told that no host can be reached once all were tried.       *)
THEOREM ClientEveryHostTried == Spec => EveryHostTried
<1>1. ASSUME IInv, Next, NEW s \in Searches,
             search[s].state = "waiting", search'[s].state = "unreachable"
      PROVE  chain[waits[s]].tried = Hosts
  <2>1. CASE \E d \in Searches, q \in Queries : Search(d, q)
    BY <1>1, <2>1 DEF Search, IInv, TypeOK
  <2>2. ASSUME NEW d \in Searches, Answer(d) \/ Reject(d)
        PROVE  FALSE
    BY <1>1, <2>2, WhoEnds DEF Answer, Reject
  <2>3. ASSUME NEW d \in Searches, Break(d) \/ Expire(d)
        PROVE  waits[s] = d /\ chain[d].tried = Hosts
    BY <1>1, <2>3, FailureRetries, WhoEnds
  <2>4. CASE Tick \/ \E d \in Searches : Head(d)
    BY <1>1, <2>4 DEF Tick, Head
  <2> QED
    BY <1>1, <2>1, <2>2, <2>3, <2>4 DEF Next
<1>2. IInv /\ [Next]_vars =>
          [\A s \in Searches : search[s].state = "waiting" /\ search'[s].state = "unreachable"
               => chain[waits[s]].tried = Hosts]_vars
  BY <1>1
<1> QED
  BY <1>2, Invariance, PTL DEF Spec, EveryHostTried

-----------------------------------------------------------------------------
(***************************************************************************)
(* The refinement.                                                         *)
(***************************************************************************)

outcomes == [s \in Searches |-> Outcome(s)]
subjects == [s \in Searches |-> search[s].query]

(* The end of a chain settles its query: all who wait for the query wait   *)
(* for this chain.                                                         *)
LEMMA EndSettles ==
  ASSUME IInv, NEW s \in Searches, Running(s),
         NEW o \in {"answered", "rejected", "unreachable"}, End(s, o)
  PROVE  /\ Service!Waited(search[s].query)
         /\ outcomes' = Service!Settled(search[s].query, IF o = "answered" THEN o ELSE "failed")
         /\ subjects' = subjects
<1>1. \A d \in Searches :
          /\ search'[d].query = search[d].query
          /\ search'[d].state = IF waits[d] = s THEN o ELSE search[d].state
  BY WhoEnds
<1>2. \A d \in Searches :
          (waits[d] = s) = (search[d].state = "waiting" /\ search[d].query = search[s].query)
  <2>1. SUFFICES ASSUME NEW d \in Searches
                 PROVE  /\ waits[d] = s =>
                               search[d].state = "waiting" /\ search[d].query = search[s].query
                        /\ search[d].state = "waiting" /\ search[d].query = search[s].query
                               => waits[d] = s
    OBVIOUS
  <2>2. None \notin Searches /\ waits[d] \in Searches \cup {None}
    BY TransporterOK DEF IInv, TypeOK
  <2>3. ASSUME waits[d] = s
        PROVE  search[d].state = "waiting" /\ search[d].query = search[s].query
    BY <2>2, <2>3 DEF IInv, WaitsAreSearches, PromiseIsPending
  <2>4. ASSUME search[d].state = "waiting", search[d].query = search[s].query
        PROVE  waits[d] = s
    BY <2>2, <2>4, ChainsDiffer DEF IInv, PromiseIsPending
  <2> QED
    BY <2>3, <2>4
<1>3. \A d \in Searches :
          (Outcome(d) = "waiting") = (search[d].state = "waiting")
  BY DEF Outcome, IInv, TypeOK, SearchRecord
<1>4. Service!Waited(search[s].query)
  BY <1>2, <1>3 DEF Service!Waited, IInv, RunningIsKept
<1>5. subjects' = subjects
  BY <1>1 DEF subjects
<1>6. \A d \in Searches :
          Outcome(d)' = IF waits[d] = s THEN IF o = "answered" THEN o ELSE "failed" ELSE Outcome(d)
  BY <1>1 DEF Outcome
<1>7. outcomes' = Service!Settled(search[s].query, IF o = "answered" THEN o ELSE "failed")
  BY <1>2, <1>3, <1>6 DEF Service!Settled, outcomes
<1> QED
  BY <1>4, <1>5, <1>7

(* A call is a call.                                                       *)
LEMMA SearchAsks ==
  ASSUME IInv, NEW s \in Searches, NEW q \in Queries, Search(s, q)
  PROVE  Service!Ask(s, q)
<1>1. search[s].state = "idle" /\ responses' = responses
  BY DEF Search
<1>2. PICK st \in {"answered", "waiting"} :
         /\ search' = [search EXCEPT ![s] = [query |-> q, state |-> st]]
         /\ st = IF q \in responses THEN "answered" ELSE "waiting"
  BY DEF Search
<1>3. /\ search'[s].query = q /\ search'[s].state = st
      /\ \A d \in Searches : d # s => search'[d] = search[d]
  BY <1>2 DEF IInv, TypeOK
<1>4. Outcome(s) = "idle" /\ Outcome(s)' = st
  BY <1>1, <1>3 DEF Outcome
<1>5. \A d \in Searches : d # s => Outcome(d)' = Outcome(d)
  BY <1>3 DEF Outcome
<1>6. outcomes' = [outcomes EXCEPT ![s] = IF q \in responses THEN "answered" ELSE "waiting"]
  BY <1>2, <1>4, <1>5 DEF outcomes
<1>7. subjects' = [subjects EXCEPT ![s] = q]
  BY <1>3 DEF subjects
<1> QED
  BY <1>1, <1>4, <1>6, <1>7 DEF Service!Ask, outcomes, subjects

LEMMA StepImplements ==
  ASSUME IInv, [Next]_vars
  PROVE  [Service!ServiceNext]_<<outcomes, subjects, responses>>
<1>1. ASSUME NEW s \in Searches, NEW q \in Queries, Search(s, q)
      PROVE  Service!ServiceNext
  BY <1>1, SearchAsks DEF Service!ServiceNext
<1>2. ASSUME NEW s \in Searches
      PROVE  search[s].query \in Queries
  BY DEF IInv, TypeOK, SearchRecord
<1>3. ASSUME NEW s \in Searches, Answer(s)
      PROVE  Service!ServiceNext
  <2>1. Running(s) /\ End(s, "answered") /\ responses' = responses \cup {search[s].query}
    BY <1>3 DEF Answer, Running
  <2>2. Service!Reply(search[s].query)
    BY <2>1, EndSettles DEF Service!Reply, outcomes, subjects
  <2> QED
    BY <1>2, <2>2 DEF Service!ServiceNext
<1>4. ASSUME NEW s \in Searches, NEW o \in {"rejected", "unreachable"}, Running(s), End(s, o),
             responses' = responses
      PROVE  Service!ServiceNext
  <2>1. Service!Refuse(search[s].query)
    BY <1>4, EndSettles DEF Service!Refuse, outcomes, subjects
  <2> QED
    BY <1>2, <2>1 DEF Service!ServiceNext
<1>5. ASSUME NEW s \in Searches, Reject(s)
      PROVE  Service!ServiceNext
  BY <1>4, <1>5 DEF Reject, Running
<1>6. ASSUME UNCHANGED <<search, responses>>
      PROVE  UNCHANGED <<outcomes, subjects, responses>>
  BY <1>6 DEF outcomes, subjects, Outcome
<1>7. ASSUME NEW s \in Searches, Break(s) \/ Expire(s)
      PROVE  Service!ServiceNext \/ UNCHANGED <<outcomes, subjects, responses>>
  <2>1. responses' = responses
    BY <1>7 DEF Break, Expire, Retry
  <2> QED
    BY <1>4, <1>6, <1>7, <2>1, FailureRetries
<1>8. CASE Tick \/ UNCHANGED vars \/ \E s \in Searches : Head(s)
  BY <1>6, <1>8 DEF Tick, Head, vars
<1> QED
  BY <1>1, <1>3, <1>5, <1>7, <1>8 DEF Next

(* The client is the service: who waits for a query gets its outcome, an   *)
(* answer is kept, and a failure concerns only those who waited.           *)
THEOREM ClientImplementsService == Spec => ImplementsService
<1>1. ASSUME Init
      PROVE  Service!ServiceInit
  <2>1. \A s \in Searches : search[s].state = "idle" /\ search[s].query \in Queries
    BY <1>1 DEF Init, SearchRecord
  <2> QED
    BY <1>1, <2>1 DEF Service!ServiceInit, Init, Outcome
<1>2. IInv /\ [Next]_vars => [Service!ServiceNext]_<<outcomes, subjects, responses>>
  BY StepImplements
<1>3. IInv /\ [Next]_vars => [Service!ServiceNext]_<<[s \in Searches |-> Outcome(s)],
                                                     [s \in Searches |-> search[s].query], responses>>
  BY <1>2 DEF outcomes, subjects
<1> QED
  BY <1>1, <1>3, Invariance, PTL DEF Spec, ImplementsService, Service!ServiceSpec

-----------------------------------------------------------------------------
(***************************************************************************)
(* The time a search takes.                                                *)
(***************************************************************************)

\* The sums of the timeouts, up to n hosts.
Sums(n, f) ==
    f[0] = 0 /\ \A k \in 1 .. n : f[k] = f[k - 1] + Factor(k) * (ConnectTimeout + ReadTimeout)

LEMMA FactorIs ==
  ASSUME NEW n \in Nat \ {0}
  PROVE  Factor(n) \in Nat \ {0} /\ (n > 1 => Factor(n) = n + 2)
BY DEF Factor

(* There are such sums, up to the first number for which there would not be. *)
LEMMA SumsExist == \E f : Sums(HostCount, f)
<1> DEFINE Bad == {n \in 0 .. HostCount : ~\E f : Sums(n, f)}
<1>1. HostCount \in Nat
  BY TransporterOK
<1> SUFFICES ASSUME Bad # {} PROVE FALSE
  BY <1>1
<1>2. Bad \in SUBSET Nat
  BY <1>1
<1>3. PICK n \in Bad : \A m \in Bad : n <= m
  BY <1>2, LeastExists
<1>4. n \in Nat /\ n \in 0 .. HostCount
  BY <1>1, <1>3
<1>5. CASE n = 0
  <2> DEFINE g == [k \in {0} |-> 0]
  <2>1. Sums(0, g)
    BY DEF Sums
  <2> QED
    BY <1>3, <1>5, <2>1
<1>6. CASE n # 0
  <2>1. n - 1 \in 0 .. HostCount /\ n - 1 \notin Bad /\ n - 1 \in Nat
    BY <1>1, <1>3, <1>4, <1>6
  <2>2. PICK f : Sums(n - 1, f)
    BY <2>1
  <2> DEFINE last == f[n - 1] + Factor(n) * (ConnectTimeout + ReadTimeout)
             g == [k \in 0 .. n |-> IF k = n THEN last ELSE f[k]]
  <2>3. g[0] = 0 /\ g[n] = last /\ \A k \in 0 .. n - 1 : g[k] = f[k]
    BY <1>4, <1>6, <2>2 DEF Sums
  <2> HIDE DEF g
  <2>4. ASSUME NEW k \in 1 .. n
        PROVE  g[k] = g[k - 1] + Factor(k) * (ConnectTimeout + ReadTimeout)
    <3>1. k - 1 \in 0 .. n - 1
      BY <1>4
    <3>2. CASE k = n
      BY <2>3, <3>1, <3>2
    <3>3. CASE k # n
      <4>1. k \in 1 .. n - 1 /\ k \in 0 .. n - 1
        BY <1>4, <3>3
      <4> QED
        BY <2>2, <2>3, <3>1, <4>1 DEF Sums
    <3> QED
      BY <3>2, <3>3
  <2>5. Sums(n, g)
    BY <2>3, <2>4 DEF Sums
  <2> QED
    BY <1>3, <2>5
<1> QED
  BY <1>5, <1>6

LEMMA WithinIs == Sums(HostCount, Within)
<1> DEFINE Is(f) ==
      f = [n \in 0 .. HostCount |->
             IF n = 0 THEN 0 ELSE f[n - 1] + Factor(n) * (ConnectTimeout + ReadTimeout)]
<1>1. HostCount \in Nat
  BY TransporterOK
<1>2. PICK f : Sums(HostCount, f)
  BY SumsExist
<1> DEFINE g == [n \in 0 .. HostCount |-> f[n]]
<1>3. \A n \in 0 .. HostCount : g[n] =
          IF n = 0 THEN 0 ELSE g[n - 1] + Factor(n) * (ConnectTimeout + ReadTimeout)
  <2> SUFFICES ASSUME NEW n \in 0 .. HostCount
               PROVE  f[n] = IF n = 0 THEN 0
                             ELSE g[n - 1] + Factor(n) * (ConnectTimeout + ReadTimeout)
    OBVIOUS
  <2>1. n # 0 => n \in 1 .. HostCount /\ n - 1 \in 0 .. HostCount
    BY <1>1
  <2>2. n # 0 => g[n - 1] = f[n - 1]
    BY <2>1
  <2> HIDE DEF g
  <2> QED
    BY <1>2, <2>1, <2>2 DEF Sums
<1>4. g = [n \in 0 .. HostCount |-> g[n]]
  OBVIOUS
<1> HIDE DEF g
<1>5. Is(g)
  BY <1>3, <1>4
<1>6. Within = CHOOSE h : Is(h)
  BY DEF Within
<1>7. Is(Within)
  BY <1>5, <1>6
<1> HIDE DEF Is
<1>8. \A n \in 0 .. HostCount : Within[n] =
          IF n = 0 THEN 0 ELSE Within[n - 1] + Factor(n) * (ConnectTimeout + ReadTimeout)
  BY <1>7, Zenon DEF Is
<1>9. 0 \in 0 .. HostCount /\ \A k \in 1 .. HostCount : k \in 0 .. HostCount /\ k # 0
  BY <1>1
<1> QED
  BY <1>8, <1>9 DEF Sums

(* The sums grow with the number of hosts.                                 *)
LEMMA WithinGrows ==
  \A n \in 0 .. HostCount : Within[n] \in Nat /\ Within[n] <= Patience
<1> DEFINE T == ConnectTimeout + ReadTimeout
<1>1. HostCount \in Nat /\ T \in Nat
  BY TransporterOK
<1> HIDE DEF T
<1>2. /\ Within[0] = 0
      /\ \A k \in 1 .. HostCount : Within[k] = Within[k - 1] + Factor(k) * T
  BY WithinIs DEF Sums, T
<1>3. \A k \in 1 .. HostCount : Factor(k) * T \in Nat
  <2> SUFFICES ASSUME NEW k \in 1 .. HostCount PROVE Factor(k) * T \in Nat
    OBVIOUS
  <2>1. Factor(k) \in Nat
    BY <1>1, FactorIs
  <2> QED
    BY <1>1, <2>1
<1>4. \A n \in 0 .. HostCount : Within[n] \in Nat
  <2> DEFINE Bad == {n \in 0 .. HostCount : Within[n] \notin Nat}
  <2> SUFFICES ASSUME Bad # {} PROVE FALSE
    OBVIOUS
  <2>1. Bad \in SUBSET Nat
    BY <1>1
  <2>2. PICK n \in Bad : \A m \in Bad : n <= m
    BY <2>1, LeastExists
  <2>3. n \in Nat /\ n \in 0 .. HostCount /\ n # 0
    BY <1>1, <1>2, <2>2
  <2>4. n - 1 \in 0 .. HostCount /\ n - 1 \notin Bad /\ n \in 1 .. HostCount
    BY <1>1, <2>2, <2>3
  <2>5. Within[n - 1] \in Nat /\ Within[n] = Within[n - 1] + Factor(n) * T
    BY <1>2, <2>4
  <2> QED
    BY <1>3, <2>2, <2>4, <2>5
<1>5. \A n \in 0 .. HostCount : Within[n] <= Within[HostCount]
  <2> DEFINE Bad == {m \in 0 .. HostCount : ~(Within[HostCount - m] <= Within[HostCount])}
  <2>1. Bad = {}
    <3> SUFFICES ASSUME Bad # {} PROVE FALSE
      OBVIOUS
    <3>1. Bad \in SUBSET Nat
      BY <1>1
    <3>2. PICK m \in Bad : \A k \in Bad : m <= k
      BY <3>1, LeastExists
    <3>3. m \in Nat /\ m \in 0 .. HostCount /\ m # 0
      <4>1. Within[HostCount] \in Nat /\ HostCount - 0 = HostCount
        BY <1>1, <1>4
      <4> QED
        BY <1>1, <3>2, <4>1
    <3> DEFINE n == HostCount - m
    <3>4. m - 1 \in 0 .. HostCount /\ m - 1 \notin Bad /\ HostCount - (m - 1) = n + 1
      BY <1>1, <3>2, <3>3
    <3>5. n \in 0 .. HostCount /\ n + 1 \in 1 .. HostCount /\ n + 1 \in 0 .. HostCount
          /\ (n + 1) - 1 = n /\ HostCount \in 0 .. HostCount
      BY <1>1, <3>3
    <3>6. Within[n + 1] <= Within[HostCount]
      BY <3>4
    <3> HIDE DEF n
    <3>7. Within[n + 1] = Within[n] + Factor(n + 1) * T
      BY <1>2, <3>5
    <3>8. /\ Within[n] \in Nat /\ Within[n + 1] \in Nat /\ Within[HostCount] \in Nat
          /\ Factor(n + 1) * T \in Nat
      BY <1>3, <1>4, <3>5
    <3>9. Within[n] <= Within[HostCount]
      BY <3>6, <3>7, <3>8
    <3> QED
      BY <3>2, <3>9 DEF n
  <2>2. ASSUME NEW n \in 0 .. HostCount
        PROVE  Within[n] <= Within[HostCount]
    <3>1. HostCount - n \in 0 .. HostCount /\ HostCount - (HostCount - n) = n
      BY <1>1
    <3>2. Within[HostCount - (HostCount - n)] <= Within[HostCount]
      BY <2>1, <3>1
    <3> QED
      BY <3>1, <3>2
  <2> QED
    BY <2>2
<1> QED
  BY <1>4, <1>5 DEF Patience

\* How many hosts a chain has tried, its timeout, and how long it can have run
\* by now.
Tried(s) == Cardinality(chain[s].tried)

Now(s) == Limit(chain[s])

Behind(s) ==
    Within[Tried(s) - 1] + chain[s].age
        + (IF chain[s].phase = "read" THEN Timeout(chain[s].slow, ConnectTimeout) ELSE 0)

(***************************************************************************)
(* No timer is overdue, and who waits for a chain has waited no longer     *)
(* than its timers have run.                                               *)
(***************************************************************************)
NoneOverdue == \A s \in Searches : Running(s) => chain[s].age <= Now(s)

WaitedIsBehind ==
    \A d \in Searches :
        /\ search[d].state # "waiting" => waited[d] = 0
        /\ \A w \in Searches :
               search[d].state = "waiting" /\ waits[d] = w => waited[d] <= Behind(w)

TimeInv == IInv /\ NoneOverdue /\ WaitedIsBehind

LEMMA TriedIs ==
  ASSUME IInv, NEW s \in Searches, Running(s)
  PROVE  /\ Tried(s) \in 1 .. HostCount /\ Tried(s) \in Nat
         /\ chain[s].slow \in Nat /\ chain[s].slow < Tried(s) /\ chain[s].age \in Nat
         /\ chain[s].phase \in {"connect", "read"}
<1>1. chain[s] \in ChainRecord
  BY DEF IInv, TypeOK
<1>2. chain[s].tried \in SUBSET Hosts /\ chain[s].slow \in Nat /\ chain[s].age \in Nat
      /\ chain[s].phase \in {"connect", "read"}
  BY <1>1, TransporterOK DEF ChainRecord, Running
<1>3. IsFiniteSet(Hosts) /\ Cardinality(Hosts) = HostCount
  BY FS_Interval, TransporterOK DEF Hosts
<1>4. Tried(s) \in Nat /\ Tried(s) <= HostCount
  BY <1>2, <1>3, FS_Subset, FS_CardinalityType DEF Tried
<1>5. chain[s].slow < Tried(s)
  BY DEF IInv, SlowIsTried, Tried
<1> QED
  BY <1>2, <1>4, <1>5, TransporterOK

LEMMA ProductGrows ==
  ASSUME NEW a \in Nat, NEW b \in Nat, NEW t \in Nat, a <= b
  PROVE  a * t \in Nat /\ b * t \in Nat /\ a * t <= b * t
OBVIOUS

(* The timeouts of a chain, with each of its hosts.                        *)
LEMMA TimeoutIs ==
  ASSUME AllUp, NEW slow \in Nat, NEW n \in Nat \ {0}, slow < n, NEW t \in Nat
  PROVE  Timeout(slow, t) \in Nat /\ Timeout(slow, t) <= Factor(n) * t /\ Factor(n) * t \in Nat
<1>1. SlowHosts = {} /\ Cardinality(SlowHosts) = 0
  <2>1. SlowHosts = {}
    BY DEF AllUp, SlowHosts
  <2> QED
    BY <2>1, FS_EmptySet
<1>2. Factor(n) \in Nat /\ Factor(n) >= 1 /\ (n > 1 => Factor(n) = n + 2)
  BY FactorIs
<1>3. CASE slow = 0
  <2>1. Timeout(slow, t) = t
    BY <1>1, <1>3 DEF Timeout
  <2>2. 1 * t <= Factor(n) * t /\ Factor(n) * t \in Nat
    BY <1>2, ProductGrows
  <2> QED
    BY <2>1, <2>2
<1>4. CASE slow # 0
  <2>1. Timeout(slow, t) = (3 + slow) * t
    BY <1>1, <1>4 DEF Timeout
  <2>2. 3 + slow \in Nat /\ 3 + slow <= Factor(n)
    BY <1>2, <1>4
  <2> QED
    BY <1>2, <2>1, <2>2, ProductGrows
<1> QED
  BY <1>3, <1>4

LEMMA TimesSum ==
  ASSUME NEW k \in Nat, NEW a \in Nat, NEW b \in Nat
  PROVE  k * (a + b) = k * a + k * b
OBVIOUS

(* With the timers of one host a chain stays within the sum of that many.  *)
LEMMA BehindIs ==
  ASSUME IInv, NoneOverdue, NEW s \in Searches, Running(s)
  PROVE  Behind(s) \in Nat /\ Within[Tried(s)] \in Nat /\ Behind(s) <= Within[Tried(s)]
<1> DEFINE n == Tried(s)
           C == Timeout(chain[s].slow, ConnectTimeout)
           R == Timeout(chain[s].slow, ReadTimeout)
           x == Factor(n) * ConnectTimeout
           y == Factor(n) * ReadTimeout
           w == Within[n - 1]
           age == chain[s].age
<1>1. /\ n \in 1 .. HostCount /\ n \in Nat \ {0} /\ chain[s].slow \in Nat /\ chain[s].slow < n
      /\ age \in Nat /\ chain[s].phase \in {"connect", "read"}
  BY TriedIs
<1>2. C \in Nat /\ C <= x /\ x \in Nat
  BY <1>1, TimeoutIs, TransporterOK DEF IInv
<1>3. R \in Nat /\ R <= y /\ y \in Nat
  BY <1>1, TimeoutIs, TransporterOK DEF IInv
<1>4. w \in Nat /\ Within[n] \in Nat
  <2>1. n - 1 \in 0 .. HostCount /\ n \in 0 .. HostCount
    BY <1>1, TransporterOK
  <2> QED
    BY <2>1, WithinGrows
<1>5. Within[n] = w + (x + y)
  <2>1. Within[n] = w + Factor(n) * (ConnectTimeout + ReadTimeout)
    BY <1>1, WithinIs DEF Sums
  <2>2. Factor(n) * (ConnectTimeout + ReadTimeout) = x + y
    BY <1>1, FactorIs, TimesSum, TransporterOK
  <2> QED
    BY <2>1, <2>2
<1>6. age <= IF chain[s].phase = "connect" THEN C ELSE R
  BY DEF NoneOverdue, Now, Limit
<1>7. Behind(s) = w + age + (IF chain[s].phase = "read" THEN C ELSE 0)
  BY DEF Behind
<1> HIDE DEF n, C, R, x, y, w, age
<1> QED
  BY <1>1, <1>2, <1>3, <1>4, <1>5, <1>6, <1>7 DEF n

LEMMA WaitsForRunning ==
  ASSUME IInv, NEW d \in Searches, search[d].state = "waiting"
  PROVE  waits[d] \in Searches /\ Running(waits[d])
BY TransporterOK DEF IInv, TypeOK, PromiseIsPending

(* Time passes for the timers and for those who wait alike.                *)
LEMMA TickInTime ==
  ASSUME TimeInv, Tick
  PROVE  NoneOverdue' /\ WaitedIsBehind'
<1>1. \A s \in Searches : Running(s) =>
          /\ chain'[s].age = chain[s].age + 1 /\ chain'[s].phase = chain[s].phase
          /\ chain'[s].slow = chain[s].slow /\ chain'[s].tried = chain[s].tried
          /\ chain[s].age \in Nat /\ chain[s].age < Now(s)
  <2> SUFFICES ASSUME NEW s \in Searches, Running(s)
               PROVE  /\ chain'[s].age = chain[s].age + 1 /\ chain'[s].phase = chain[s].phase
                      /\ chain'[s].slow = chain[s].slow /\ chain'[s].tried = chain[s].tried
                      /\ chain[s].age \in Nat /\ chain[s].age < Now(s)
    OBVIOUS
  <2>1. chain[s] \in ChainRecord /\ chain'[s] = [chain[s] EXCEPT !.age = @ + 1]
    BY DEF TimeInv, IInv, TypeOK, Tick
  <2>2. chain[s].age < Now(s)
    BY DEF Tick, Now
  <2> QED
    BY <2>1, <2>2 DEF ChainRecord
<1>2. \A s \in Searches : Running(s)' = Running(s)
  <2> SUFFICES ASSUME NEW s \in Searches PROVE Running(s)' = Running(s)
    OBVIOUS
  <2>1. ~Running(s) => chain'[s] = chain[s]
    BY DEF Tick
  <2> QED
    BY <1>1, <2>1 DEF Running
<1>3. notes' = notes /\ search' = search /\ waits' = waits
  BY DEF Tick
<1>4. \A k, t : Timeout(k, t)' = Timeout(k, t)
  BY <1>3 DEF Timeout, SlowHosts
<1>5. \A s \in Searches : Running(s) =>
          /\ Now(s)' = Now(s) /\ Now(s) \in Nat
  <2> SUFFICES ASSUME NEW s \in Searches, Running(s)
               PROVE  Now(s)' = Now(s) /\ Now(s) \in Nat
    OBVIOUS
  <2>1. /\ chain[s].slow \in Nat /\ Tried(s) \in Nat \ {0} /\ chain[s].slow < Tried(s)
    BY TriedIs DEF TimeInv
  <2>2. /\ Timeout(chain[s].slow, ConnectTimeout) \in Nat
        /\ Timeout(chain[s].slow, ReadTimeout) \in Nat
    BY <2>1, TimeoutIs, TransporterOK DEF TimeInv, IInv
  <2> QED
    BY <1>1, <1>4, <2>2 DEF Now, Limit
<1>6. NoneOverdue'
  <2> SUFFICES ASSUME NEW s \in Searches, Running(s)'
               PROVE  chain'[s].age <= Now(s)'
    BY DEF NoneOverdue
  <2> QED
    BY <1>1, <1>2, <1>5
<1>7. \A s \in Searches : Running(s) => Behind(s)' = Behind(s) + 1
  <2> SUFFICES ASSUME NEW s \in Searches, Running(s)
               PROVE  Behind(s)' = Behind(s) + 1
    OBVIOUS
  <2>1. Tried(s)' = Tried(s)
    BY <1>1 DEF Tried
  <2> DEFINE w == Within[Tried(s) - 1]
             r == IF chain[s].phase = "read" THEN Timeout(chain[s].slow, ConnectTimeout) ELSE 0
  <2>2. /\ chain[s].slow \in Nat /\ Tried(s) \in Nat \ {0} /\ chain[s].slow < Tried(s)
        /\ Tried(s) - 1 \in 0 .. HostCount
    BY TriedIs, TransporterOK DEF TimeInv
  <2>3. w \in Nat /\ r \in Nat
    BY <2>2, WithinGrows, TimeoutIs, TransporterOK DEF TimeInv, IInv
  <2>4. Behind(s)' = w + (chain[s].age + 1) + r
    BY <1>1, <1>4, <2>1 DEF Behind
  <2>5. Behind(s) = w + chain[s].age + r
    BY DEF Behind
  <2> HIDE DEF w, r
  <2> QED
    BY <1>1, <2>3, <2>4, <2>5
<1>8. WaitedIsBehind'
  <2> SUFFICES ASSUME NEW d \in Searches
               PROVE  /\ search[d].state # "waiting" => waited'[d] = 0
                      /\ \A w \in Searches :
                             search[d].state = "waiting" /\ waits[d] = w => waited'[d] <= Behind(w)'
    BY <1>3 DEF WaitedIsBehind
  <2>1. waited[d] \in Nat
        /\ waited'[d] = IF search[d].state = "waiting" THEN waited[d] + 1 ELSE waited[d]
    BY DEF Tick, TimeInv, IInv, TypeOK
  <2>2. CASE search[d].state = "waiting"
    <3>1. PICK w \in Searches : w = waits[d] /\ Running(w)
      BY <2>2, WaitsForRunning DEF TimeInv
    <3>2. Behind(w)' = Behind(w) + 1 /\ Behind(w) \in Nat
      BY <1>7, <3>1, BehindIs DEF TimeInv
    <3>3. waited[d] <= Behind(w)
      BY <2>2, <3>1 DEF TimeInv, WaitedIsBehind
    <3> QED
      BY <2>1, <2>2, <3>1, <3>2, <3>3
  <2>3. CASE search[d].state # "waiting"
    BY <2>1, <2>3 DEF TimeInv, WaitedIsBehind
  <2> QED
    BY <2>2, <2>3
<1> QED
  BY <1>6, <1>8

(* Whatever is kept of the hosts, the timeouts stay what they were.        *)
LEMMA SameTimeout ==
  ASSUME AllUp, AllUp'
  PROVE  /\ \A k, t : Timeout(k, t)' = Timeout(k, t)
         /\ \A k \in Nat, t \in Nat : Timeout(k, t) \in Nat
<1>1. SlowHosts = {} /\ SlowHosts' = {}
  BY DEF AllUp, SlowHosts, Hosts
<1>2. \A k, t : Timeout(k, t)' = Timeout(k, t)
  BY <1>1 DEF Timeout
<1>3. ASSUME NEW k \in Nat, NEW t \in Nat
      PROVE  Timeout(k, t) \in Nat
  <2>1. k + 1 \in Nat \ {0} /\ k < k + 1
    OBVIOUS
  <2> QED
    BY <2>1, TimeoutIs
<1> QED
  BY <1>2, <1>3

(* A step of one chain leaves the time of the others alone.                *)
LEMMA OthersInTime ==
  ASSUME TimeInv, AllUp', NEW s \in Searches,
         \A d \in Searches : d # s => chain'[d] = chain[d]
  PROVE  \A d \in Searches : d # s =>
             /\ Running(d)' => chain'[d].age <= Now(d)'
             /\ Behind(d)' = Behind(d)
<1> SUFFICES ASSUME NEW d \in Searches, d # s
             PROVE  /\ Running(d)' => chain'[d].age <= Now(d)'
                    /\ Behind(d)' = Behind(d)
  OBVIOUS
<1>1. chain'[d] = chain[d]
  OBVIOUS
<1>2. \A k, t : Timeout(k, t)' = Timeout(k, t)
  BY SameTimeout DEF TimeInv, IInv
<1>3. Running(d)' = Running(d) /\ Now(d)' = Now(d) /\ Tried(d)' = Tried(d)
  BY <1>1, <1>2 DEF Running, Now, Limit, Tried
<1>4. Behind(d)' = Behind(d)
  BY <1>1, <1>2, <1>3 DEF Behind
<1>5. Running(d) => chain[d].age <= Now(d)
  BY DEF TimeInv, NoneOverdue
<1> QED
  BY <1>1, <1>3, <1>4, <1>5

(* A chain that goes on with a new timer has the time of those it had.     *)
LEMMA TurnInTime ==
  ASSUME TimeInv, AllUp', NEW s \in Searches, Running(s),
         UNCHANGED <<search, waits, waited>>,
         \A d \in Searches : d # s => chain'[d] = chain[d],
         chain'[s].age = 0, chain'[s].slow \in Nat,
         Behind(s)' \in Nat, Behind(s) <= Behind(s)'
  PROVE  NoneOverdue' /\ WaitedIsBehind'
<1>1. Now(s)' \in Nat
  <2>1. /\ Timeout(chain'[s].slow, ConnectTimeout) \in Nat
        /\ Timeout(chain'[s].slow, ReadTimeout) \in Nat
        /\ \A k, t : Timeout(k, t)' = Timeout(k, t)
    BY SameTimeout, TransporterOK DEF TimeInv, IInv
  <2> QED
    BY <2>1 DEF Now, Limit
<1>2. NoneOverdue'
  <2> SUFFICES ASSUME NEW d \in Searches, Running(d)'
               PROVE  chain'[d].age <= Now(d)'
    BY DEF NoneOverdue
  <2>1. CASE d = s
    BY <1>1, <2>1
  <2>2. CASE d # s
    BY <2>2, OthersInTime
  <2> QED
    BY <2>1, <2>2
<1>3. WaitedIsBehind'
  <2> SUFFICES ASSUME NEW d \in Searches
               PROVE  /\ search[d].state # "waiting" => waited[d] = 0
                      /\ \A w \in Searches :
                             search[d].state = "waiting" /\ waits[d] = w => waited[d] <= Behind(w)'
    BY DEF WaitedIsBehind
  <2>1. CASE search[d].state = "waiting"
    <3>1. PICK w \in Searches : w = waits[d] /\ Running(w)
      BY <2>1, WaitsForRunning DEF TimeInv
    <3>2. waited[d] <= Behind(w) /\ Behind(w) \in Nat /\ waited[d] \in Nat
      BY <2>1, <3>1, BehindIs DEF TimeInv, WaitedIsBehind, IInv, TypeOK
    <3>3. Behind(w)' \in Nat /\ Behind(w) <= Behind(w)'
      <4>1. CASE w = s
        BY <4>1
      <4>2. CASE w # s
        <5>1. Behind(w)' = Behind(w)
          BY <4>2, OthersInTime
        <5> QED
          BY <3>2, <5>1
      <4> QED
        BY <4>1, <4>2
    <3> QED
      BY <2>1, <3>1, <3>2, <3>3
  <2>2. CASE search[d].state # "waiting"
    BY <2>2 DEF TimeInv, WaitedIsBehind
  <2> QED
    BY <2>1, <2>2
<1> QED
  BY <1>2, <1>3

(* The second timer of a host comes on top of the whole of the first.      *)
LEMMA HeadInTime ==
  ASSUME TimeInv, NEW s \in Searches, Head(s)
  PROVE  NoneOverdue' /\ WaitedIsBehind'
<1>1. IInv' /\ AllUp' /\ Running(s)
  BY HeadKeeps DEF TimeInv, IInv, Head, Running
<1>2. /\ chain[s] \in ChainRecord /\ chain[s].phase = "connect"
      /\ chain'[s] = [chain[s] EXCEPT !.phase = "read", !.age = 0]
      /\ \A d \in Searches : d # s => chain'[d] = chain[d]
  BY DEF TimeInv, IInv, TypeOK, Head
<1>3. /\ chain'[s].age = 0 /\ chain'[s].phase = "read" /\ chain'[s].slow = chain[s].slow
      /\ chain'[s].tried = chain[s].tried
  BY <1>2 DEF ChainRecord
<1> DEFINE C == Timeout(chain[s].slow, ConnectTimeout)
           w == Within[Tried(s) - 1]
<1>4. /\ Tried(s) - 1 \in 0 .. HostCount /\ chain[s].slow \in Nat /\ chain[s].age \in Nat
      /\ chain[s].phase # "read"
  BY <1>1, <1>2, TriedIs, TransporterOK DEF TimeInv
<1>5. C \in Nat /\ w \in Nat
  BY <1>1, <1>4, WithinGrows, SameTimeout, TransporterOK DEF TimeInv, IInv
<1>6. chain[s].age <= C
  BY <1>1, <1>2 DEF TimeInv, NoneOverdue, Now, Limit
<1>7. Behind(s) = w + chain[s].age + 0
  BY <1>4 DEF Behind
<1>8. Behind(s)' = w + 0 + C
  <2>1. Tried(s)' = Tried(s)
    BY <1>3 DEF Tried
  <2>2. \A k, t : Timeout(k, t)' = Timeout(k, t)
    BY <1>1, SameTimeout DEF TimeInv, IInv
  <2> QED
    BY <1>3, <2>1, <2>2 DEF Behind
<1> HIDE DEF C, w
<1>9. Behind(s)' \in Nat /\ Behind(s) <= Behind(s)'
  BY <1>4, <1>5, <1>6, <1>7, <1>8
<1>10. UNCHANGED <<search, waits, waited>> /\ chain'[s].slow \in Nat
  BY <1>3, <1>4 DEF Head
<1> QED
  BY <1>1, <1>2, <1>3, <1>9, <1>10, TurnInTime

(* With a chain the waiting for it ends.                                   *)
LEMMA EndInTime ==
  ASSUME TimeInv, IInv', NEW s \in Searches,
         NEW o \in {"answered", "rejected", "unreachable"}, End(s, o)
  PROVE  NoneOverdue' /\ WaitedIsBehind'
<1>1. AllUp' /\ \A d \in Searches : d # s => chain'[d] = chain[d]
  BY DEF TimeInv, IInv, TypeOK, End
<1>2. chain'[s].phase = "off"
  BY DEF TimeInv, IInv, TypeOK, End, Off
<1>3. NoneOverdue'
  <2> SUFFICES ASSUME NEW d \in Searches, Running(d)'
               PROVE  chain'[d].age <= Now(d)'
    BY DEF NoneOverdue
  <2>1. d # s
    BY <1>2 DEF Running
  <2> QED
    BY <1>1, <2>1, OthersInTime
<1>4. WaitedIsBehind'
  <2> SUFFICES ASSUME NEW d \in Searches
               PROVE  /\ search'[d].state # "waiting" => waited'[d] = 0
                      /\ \A w \in Searches :
                             search'[d].state = "waiting" /\ waits'[d] = w => waited'[d] <= Behind(w)'
    BY DEF WaitedIsBehind
  <2>1. search'[d].state = IF waits[d] = s THEN o ELSE search[d].state
    BY WhoEnds DEF TimeInv
  <2>2. CASE waits[d] = s
    <3>1. search'[d].state # "waiting" /\ waited'[d] = 0
      BY <2>1, <2>2 DEF End
    <3> QED
      BY <3>1
  <2>3. CASE waits[d] # s
    <3>1. waited'[d] = waited[d] /\ waits'[d] = waits[d] /\ search'[d].state = search[d].state
      BY <2>1, <2>3 DEF End
    <3>2. CASE search[d].state = "waiting"
      <4>1. PICK w \in Searches : w = waits[d]
        BY <3>2, WaitsForRunning DEF TimeInv
      <4>2. Behind(w)' = Behind(w)
        BY <1>1, <2>3, <4>1, OthersInTime
      <4>3. waited[d] <= Behind(w)
        BY <3>2, <4>1 DEF TimeInv, WaitedIsBehind
      <4> QED
        BY <3>1, <3>2, <4>1, <4>2, <4>3
    <3>3. CASE search[d].state # "waiting"
      BY <3>1, <3>3 DEF TimeInv, WaitedIsBehind
    <3> QED
      BY <3>2, <3>3
  <2> QED
    BY <2>2, <2>3
<1> QED
  BY <1>3, <1>4

(* The next host has one timeout more than all before it.                  *)
LEMMA RetryInTime ==
  ASSUME TimeInv, IInv', NEW s \in Searches, Running(s), NEW status \in Status,
         NEW slow \in {chain[s].slow, chain[s].slow + 1},
         Retry(s, status, slow)
  PROVE  NoneOverdue' /\ WaitedIsBehind'
<1>1. AllUp' /\ chain[s].slow \in Nat /\ slow \in Nat /\ chain[s].tried \in SUBSET Hosts
  <2>1. chain[s] \in ChainRecord
    BY DEF TimeInv, IInv, TypeOK
  <2>2. chain[s].slow \in Nat /\ chain[s].tried \in SUBSET Hosts
    BY <2>1, TransporterOK DEF ChainRecord
  <2> QED
    BY <2>2 DEF IInv
<1>2. CASE End(s, "unreachable")
  BY <1>2, EndInTime
<1>3. CASE /\ ~(Usable \subseteq chain[s].tried)
           /\ chain' = [chain EXCEPT ![s] =
                 [phase |-> "connect", host |-> NextHost(chain[s].tried),
                  tried |-> chain[s].tried \cup {NextHost(chain[s].tried)}, slow |-> slow, age |-> 0]]
           /\ UNCHANGED <<search, waits, requests, waited>>
  <2>1. Usable = Hosts
    BY UsableIsAll DEF TimeInv, IInv
  <2>2. NextHost(chain[s].tried) \in Hosts \ chain[s].tried
    BY <1>1, <1>3, <2>1, NextHostIsHost DEF TimeInv, IInv
  <2>3. /\ chain'[s].tried = chain[s].tried \cup {NextHost(chain[s].tried)}
        /\ chain'[s].phase = "connect" /\ chain'[s].slow = slow /\ chain'[s].age = 0
        /\ \A d \in Searches : d # s => chain'[d] = chain[d]
    BY <1>3 DEF TimeInv, IInv, TypeOK
  <2>4. Tried(s)' = Tried(s) + 1 /\ Tried(s) \in Nat
    BY <1>1, <2>2, <2>3, TriedGrows DEF Tried
  <2>5. Behind(s)' = Within[Tried(s)] + 0 + 0
    <3>1. Tried(s)' - 1 = Tried(s)
      BY <2>4
    <3> QED
      BY <2>3, <3>1 DEF Behind
  <2>6. Behind(s) \in Nat /\ Within[Tried(s)] \in Nat /\ Behind(s) <= Within[Tried(s)]
    BY BehindIs DEF TimeInv
  <2>7. Behind(s)' \in Nat /\ Behind(s) <= Behind(s)'
    BY <2>5, <2>6
  <2> QED
    BY <1>1, <1>3, <2>3, <2>7, TurnInTime
<1> QED
  BY <1>2, <1>3 DEF Retry

(* A call begins to wait for what has run for some time, or starts now.    *)
LEMMA SearchInTime ==
  ASSUME TimeInv, NEW s \in Searches, NEW q \in Queries, Search(s, q)
  PROVE  NoneOverdue' /\ WaitedIsBehind'
<1>1. IInv' /\ AllUp'
  BY SearchKeeps DEF TimeInv, IInv
<1>2. search[s].state = "idle" /\ waits[s] = None /\ ~Running(s) /\ waited' = waited
  BY TransporterOK DEF TimeInv, IInv, WaitsAreSearches, RunningIsKept, Search
<1>3. waited[s] = 0
  BY <1>2 DEF TimeInv, WaitedIsBehind
<1>4. \A d \in Searches : d # s => chain'[d] = chain[d] /\ waits'[d] = waits[d] /\ search'[d] = search[d]
  BY DEF TimeInv, IInv, TypeOK, Search
<1>5. Running(s)' => chain'[s].age = 0 /\ chain'[s].slow = 0 /\ chain'[s].phase = "connect"
  BY <1>2 DEF TimeInv, IInv, TypeOK, Search, Running
<1>6. NoneOverdue'
  <2> SUFFICES ASSUME NEW d \in Searches, Running(d)'
               PROVE  chain'[d].age <= Now(d)'
    BY DEF NoneOverdue
  <2>1. CASE d = s
    <3>1. /\ Timeout(0, ConnectTimeout) \in Nat
          /\ Timeout(0, ConnectTimeout)' = Timeout(0, ConnectTimeout)
      BY <1>1, SameTimeout, TransporterOK DEF TimeInv, IInv
    <3>2. Now(s)' = Timeout(0, ConnectTimeout)
      BY <1>5, <2>1, <3>1 DEF Now, Limit
    <3> QED
      BY <1>5, <2>1, <3>1, <3>2
  <2>2. CASE d # s
    BY <1>1, <1>4, <2>2, OthersInTime
  <2> QED
    BY <2>1, <2>2
<1>7. ASSUME NEW w \in Searches, Running(w), w # s
      PROVE  Behind(w)' = Behind(w) /\ Behind(w) \in Nat
  BY <1>1, <1>4, <1>7, OthersInTime, BehindIs DEF TimeInv
<1>8. WaitedIsBehind'
  <2> SUFFICES ASSUME NEW d \in Searches
               PROVE  /\ search'[d].state # "waiting" => waited[d] = 0
                      /\ \A w \in Searches :
                             search'[d].state = "waiting" /\ waits'[d] = w => waited[d] <= Behind(w)'
    BY <1>2 DEF WaitedIsBehind
  <2>1. CASE d # s
    <3>1. CASE search[d].state = "waiting"
      <4>1. PICK w \in Searches : w = waits[d] /\ Running(w)
        BY <3>1, WaitsForRunning DEF TimeInv
      <4>2. Behind(w)' = Behind(w)
        BY <1>2, <1>7, <4>1
      <4>3. waited[d] <= Behind(w)
        BY <3>1, <4>1 DEF TimeInv, WaitedIsBehind
      <4> QED
        BY <1>4, <2>1, <3>1, <4>1, <4>2, <4>3
    <3>2. CASE search[d].state # "waiting"
      BY <1>4, <2>1, <3>2 DEF TimeInv, WaitedIsBehind
    <3> QED
      BY <3>1, <3>2
  <2>2. CASE d = s /\ search'[s].state = "waiting"
    <3>1. PICK w \in Searches :
             /\ w = waits'[s]
             /\ \/ w # s /\ Running(w)
                \/ w = s /\ chain'[s] = [phase |-> "connect", host |-> NextHost({}),
                                         tried |-> {NextHost({})}, slow |-> 0, age |-> 0]
      <4>1. CASE Promised(q) # None /\ waits' = [waits EXCEPT ![s] = Promised(q)]
        <5>1. requests[q] \in Searches /\ Running(requests[q])
          BY <4>1 DEF TimeInv, IInv, TypeOK, KeptIsRunning, Promised
        <5>2. waits'[s] = requests[q]
          BY <4>1 DEF TimeInv, IInv, TypeOK, Promised
        <5> QED
          BY <1>2, <5>1, <5>2
      <4>2. CASE /\ waits' = [waits EXCEPT ![s] = s]
                 /\ chain' = [chain EXCEPT ![s] =
                       [phase |-> "connect", host |-> NextHost({}), tried |-> {NextHost({})},
                        slow |-> 0, age |-> 0]]
        BY <4>2 DEF TimeInv, IInv, TypeOK
      <4>3. CASE search' = [search EXCEPT ![s] = [query |-> q, state |-> "answered"]]
        BY <2>2, <4>3 DEF TimeInv, IInv, TypeOK
      <4> QED
        BY <4>1, <4>2, <4>3 DEF Search
    <3>2. Behind(w)' \in Nat
      <4>1. CASE w # s /\ Running(w)
        BY <1>7, <4>1
      <4>2. CASE w = s /\ chain'[s] = [phase |-> "connect", host |-> NextHost({}),
                                       tried |-> {NextHost({})}, slow |-> 0, age |-> 0]
        <5>1. Cardinality({NextHost({})}) = 1
          BY FS_Singleton
        <5>2. Tried(s)' - 1 = 0
          BY <4>2, <5>1 DEF Tried
        <5>3. Behind(s)' = Within[0] + 0 + 0
          BY <4>2, <5>2 DEF Behind
        <5>4. Within[0] = 0
          BY WithinIs DEF Sums
        <5> QED
          BY <4>2, <5>3, <5>4
      <4> QED
        BY <3>1, <4>1, <4>2
    <3> QED
      BY <1>3, <2>2, <3>1, <3>2
  <2>3. CASE d = s /\ search'[s].state # "waiting"
    BY <1>3, <2>3
  <2> QED
    BY <2>1, <2>2, <2>3
<1> QED
  BY <1>6, <1>8

LEMMA StepInTime ==
  ASSUME TimeInv, [Next]_vars
  PROVE  TimeInv'
<1>1. IInv'
  BY StepKeeps DEF TimeInv
<1> SUFFICES NoneOverdue' /\ WaitedIsBehind'
  BY <1>1 DEF TimeInv
<1>2. CASE \E s \in Searches, q \in Queries : Search(s, q)
  BY <1>2, SearchInTime
<1>3. ASSUME NEW s \in Searches, Head(s)
      PROVE  NoneOverdue' /\ WaitedIsBehind'
  BY <1>3, HeadInTime
<1>4. ASSUME NEW s \in Searches, Answer(s) \/ Reject(s)
      PROVE  NoneOverdue' /\ WaitedIsBehind'
  BY <1>1, <1>4, EndInTime DEF Answer, Reject
<1>5. ASSUME NEW s \in Searches, Break(s)
      PROVE  NoneOverdue' /\ WaitedIsBehind'
  BY <1>1, <1>5, RetryInTime DEF Break, Status
<1>6. ASSUME NEW s \in Searches, Expire(s)
      PROVE  NoneOverdue' /\ WaitedIsBehind'
  BY <1>1, <1>6, RetryInTime DEF Expire, Due, Status
<1>7. CASE Tick
  BY <1>7, TickInTime
<1>8. CASE UNCHANGED vars
  <2>1. \A s \in Searches : Running(s)' = Running(s) /\ Now(s)' = Now(s) /\ Behind(s)' = Behind(s)
    BY <1>8 DEF vars, Running, Now, Limit, Timeout, SlowHosts, Behind, Tried
  <2>2. NoneOverdue'
    BY <1>8, <2>1 DEF TimeInv, NoneOverdue, vars
  <2>4. WaitedIsBehind'
    <3> SUFFICES ASSUME NEW d \in Searches
                 PROVE  /\ search'[d].state # "waiting" => waited'[d] = 0
                        /\ \A w \in Searches :
                               search'[d].state = "waiting" /\ waits'[d] = w
                                   => waited'[d] <= Behind(w)'
      BY DEF WaitedIsBehind
    <3>1. waited' = waited /\ search' = search /\ waits' = waits
      BY <1>8 DEF vars
    <3>2. CASE search[d].state = "waiting"
      <4>1. PICK w \in Searches : w = waits[d]
        BY <3>2, WaitsForRunning DEF TimeInv
      <4>2. Behind(w)' = Behind(w)
        BY <2>1
      <4> QED
        BY <3>1, <3>2, <4>1, <4>2 DEF TimeInv, WaitedIsBehind
    <3>3. CASE search[d].state # "waiting"
      BY <3>1, <3>3 DEF TimeInv, WaitedIsBehind
    <3> QED
      BY <3>2, <3>3
  <2> QED
    BY <2>2, <2>4
<1> QED
  BY <1>2, <1>3, <1>4, <1>5, <1>6, <1>7, <1>8 DEF Next

(* No search outlasts the sum of the timeouts of all hosts, with whatever  *)
(* delays the network has, and whether it started the chain or joined it.  *)
THEOREM ClientGivesUpInTime == Spec => []GivesUpInTime
<1>1. ASSUME Init
      PROVE  TimeInv
  <2>1. IInv
    BY <1>1, InitHolds
  <2>2. NoneOverdue
    BY <1>1 DEF Init, NoneOverdue, Running, Off
  <2>3. WaitedIsBehind
    BY <1>1 DEF Init, WaitedIsBehind
  <2> QED
    BY <2>1, <2>2, <2>3 DEF TimeInv
<1>2. ASSUME TimeInv
      PROVE  GivesUpInTime
  <2> SUFFICES ASSUME NEW d \in Searches
               PROVE  waited[d] <= Patience
    BY DEF GivesUpInTime
  <2>1. waited[d] \in Nat
    BY <1>2 DEF TimeInv, IInv, TypeOK
  <2>2. Patience \in Nat
    <3>1. HostCount \in 0 .. HostCount
      BY TransporterOK
    <3> QED
      BY <3>1, WithinGrows DEF Patience
  <2>3. CASE search[d].state = "waiting"
    <3>1. PICK w \in Searches : w = waits[d] /\ Running(w)
      BY <1>2, <2>3, WaitsForRunning DEF TimeInv
    <3>2. waited[d] <= Behind(w)
      BY <1>2, <2>3, <3>1 DEF TimeInv, WaitedIsBehind
    <3>3. Behind(w) \in Nat /\ Within[Tried(w)] \in Nat /\ Behind(w) <= Within[Tried(w)]
      BY <1>2, <3>1, BehindIs DEF TimeInv
    <3>4. Tried(w) \in 0 .. HostCount
      BY <1>2, <3>1, TriedIs, TransporterOK DEF TimeInv
    <3>5. Within[Tried(w)] <= Patience
      BY <3>4, WithinGrows
    <3> QED
      BY <2>1, <2>2, <3>2, <3>3, <3>5
  <2>4. CASE search[d].state # "waiting"
    <3>1. waited[d] = 0
      BY <1>2, <2>4 DEF TimeInv, WaitedIsBehind
    <3> QED
      BY <2>1, <2>2, <3>1
  <2> QED
    BY <2>3, <2>4
<1>3. TimeInv /\ [Next]_vars => TimeInv'
  BY StepInTime
<1> QED
  BY <1>1, <1>2, <1>3, PTL DEF Spec
=============================================================================

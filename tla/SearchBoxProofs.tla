-------------------------- MODULE SearchBoxProofs --------------------------
(***************************************************************************)
(* What holds of the search dialog for any queries and any bounds.         *)
(***************************************************************************)
EXTENDS SearchBox, TLAPS

(***************************************************************************)
(* The strengthening.  Requests are numbered in the order they start, so   *)
(* those of one dialog are neighbours; `latest` is an answered one; what   *)
(* the dialog holds and shows is an answer it has not cancelled.           *)
(***************************************************************************)
Numbered ==
    /\ latest <= newest
    /\ \A r \in Requests : (r > newest) = (request[r].state = "unused")
    /\ \A r \in Requests : request[r].state \in {"done", "late"} => r <= latest
    /\ latest # 0 => request[latest].state \in {"done", "late"}

Owned ==
    /\ \A r \in Requests : request[r].inst <= inst
    /\ \A r, s \in 1 .. newest : r <= s => request[r].inst <= request[s].inst
    /\ open /\ ~mounted => \A r \in Requests : request[r].inst < inst

\* The dialog cancels all it has begun: nothing after a pending request is cancelled.
CancelsAll ==
    \A r, s \in Requests :
        r < s /\ request[r].state = "pending" /\ request[r].inst = request[s].inst
            => request[s].state \notin {"cancelled", "late"}

TimerIsNewest == timer # 0 => timer = newest /\ request[newest].state = "pending"

LoadingIsPending ==
    open /\ status # "idle" =>
        newest # 0 /\ request[newest].state = "pending" /\ request[newest].inst = inst

Held ==
    /\ collections.from <= latest
    /\ collections.from # 0 =>
           /\ open /\ request[collections.from].state = "done"
           /\ request[collections.from].inst = inst
           /\ collections.hits = request[collections.from].hits
    /\ open /\ latest # 0 /\ request[latest].state = "done" /\ request[latest].inst = inst
           => collections.from = latest

Shown ==
    /\ screen.from # 0 =>
           open /\ request[screen.from].state = "done" /\ request[screen.from].inst = inst
    /\ open /\ mounted /\ status = "idle" => screen = Screen(query, collections, active)

LastQuery ==
    open /\ newest # 0 /\ request[newest].inst = inst => query = request[newest].query

Closed == ~open => /\ ~mounted /\ collections = NoCollections /\ status = "idle"
                   /\ screen.from = 0

IInv == /\ TypeOK /\ Numbered /\ Owned /\ CancelsAll /\ TimerIsNewest
        /\ LoadingIsPending /\ Held /\ Shown /\ LastQuery /\ Closed

-----------------------------------------------------------------------------
(***************************************************************************)
(* The pieces of the handlers.                                             *)
(***************************************************************************)

(* The arrows stay on the list, or leave it when it is empty.              *)
LEMMA ItemsAreActive ==
  /\ \A n \in Hits, a \in Active, d \in {-1, 1} : NextItem(d, a, n) \in Active
  /\ \A n \in Hits, a \in Active, k \in {"none", "down", "up"} : AfterKey(k, a, n) \in Active
<1>1. ASSUME NEW n \in Hits, NEW a \in Active, NEW d \in {-1, 1}
      PROVE  NextItem(d, a, n) \in Active
  BY <1>1, SearchBoxOK DEF NextItem, Active, NoItem, Hits
<1>2. ASSUME NEW n \in Hits, NEW a \in Active, NEW k \in {"none", "down", "up"}
      PROVE  AfterKey(k, a, n) \in Active
  <2>1. NextItem(-1, a, n) \in Active
    BY <1>1, <1>2
  <2>2. 0 \in Active
    BY SearchBoxOK DEF Active, NoItem
  <2> QED
    BY <1>2, <2>1, <2>2 DEF AfterKey
<1> QED
  BY <1>1, <1>2

(* A list that is rendered is a list.                                      *)
LEMMA ScreensAreScreens ==
  \A q \in Queries \cup {Empty}, c \in CollectionsRecord, a \in Active :
      /\ Screen(q, c, a) \in ScreenRecord
      /\ Screen(q, c, a).from = c.from
BY DEF Screen, ScreenRecord, Kinds, CollectionsRecord

(* Rendering shows what the store holds.                                   *)
LEMMA RenderShows ==
  ASSUME TypeOK, Shown, Render,
         query' \in Queries \cup {Empty}, collections' \in CollectionsRecord, active' \in Active
  PROVE  /\ screen' \in ScreenRecord
         /\ screen' = screen \/ screen'.from = collections'.from
         /\ status' = "idle" => screen' = Screen(query', collections', active')
BY ScreensAreScreens DEF Render, TypeOK

LEMMA PanelIsOpenOrNot ==
  \A o \in {"auto", "open", "closed"}, n \in Hits : PanelOpen(o, n) \in BOOLEAN
<1> SUFFICES ASSUME NEW o \in {"auto", "open", "closed"}, NEW n \in Hits
             PROVE  PanelOpen(o, n) = TRUE \/ PanelOpen(o, n) = FALSE
  OBVIOUS
<1>1. CASE o = "auto" /\ n > 0
  BY <1>1 DEF PanelOpen
<1>2. CASE o = "auto" /\ ~(n > 0)
  BY <1>2 DEF PanelOpen
<1>3. CASE o = "open"
  BY <1>3 DEF PanelOpen
<1>4. CASE o = "closed"
  BY <1>4 DEF PanelOpen
<1> QED
  BY <1>1, <1>2, <1>3, <1>4

(* The numbers of requests that the state holds.                           *)
LEMMA NumbersAreNumbers ==
  ASSUME TypeOK
  PROVE  /\ newest \in 0 .. MaxRequests /\ latest \in 0 .. MaxRequests
         /\ timer \in 0 .. MaxRequests /\ inst \in Nat /\ inst >= 0
         /\ collections.from \in 0 .. MaxRequests /\ screen.from \in 0 .. MaxRequests
         /\ \A r \in Requests : request[r].inst \in Nat
BY SearchBoxOK DEF TypeOK, CollectionsRecord, ScreenRecord, RequestRecord

(* A search for nothing ends in the handler that starts it.                *)
LEMMA AtOnceKeeps ==
  ASSUME IInv, open, open', mounted', inst' = inst,
         NEW o \in {"auto", "open", "closed"}, NEW k \in {"none", "down", "up"},
         AtOnce(o, k), Render
  PROVE  IInv'
<1> USE SearchBoxOK
<1>1. PICK n \in Hits :
         /\ newest < MaxRequests
         /\ newest' = newest + 1 /\ latest' = newest + 1 /\ timer' = 0
         /\ request' = [request EXCEPT ![newest + 1] = NewRequest("done", Empty, o, k, n)]
         /\ query' = Empty /\ status' = "idle"
         /\ collections' = [from |-> newest + 1, hits |-> n]
         /\ isOpen' = PanelOpen(o, n) /\ active' = AfterKey(k, 0, n)
  BY DEF AtOnce
<1>2. newest + 1 \in Requests /\ newest' = newest + 1 /\ newest \in 0 .. MaxRequests
  BY <1>1 DEF IInv, TypeOK, Requests
<1>3. request' \in [Requests -> RequestRecord]
  BY <1>1, <1>2 DEF IInv, TypeOK, RequestRecord, NewRequest
<1>4. /\ request'[newest + 1] = NewRequest("done", Empty, o, k, n)
      /\ \A r \in Requests : r # newest + 1 => request'[r] = request[r]
  BY <1>1, <1>2 DEF IInv, TypeOK
<1>5. collections' \in CollectionsRecord /\ query' \in Queries \cup {Empty} /\ active' \in Active
  BY <1>1, <1>2, ItemsAreActive DEF CollectionsRecord, Requests, Active, NoItem
<1>6. /\ screen' \in ScreenRecord /\ screen' = Screen(query', collections', active')
      /\ screen'.from = newest + 1
  BY <1>1, <1>5, RenderShows, ScreensAreScreens DEF IInv
<1>7. TypeOK'
  <2>1. isOpen' \in BOOLEAN /\ status' \in {"idle", "loading", "stalled"}
    BY <1>1, PanelIsOpenOrNot
  <2>2. open' \in BOOLEAN /\ mounted' \in BOOLEAN
    OBVIOUS
  <2>3. newest' \in 0 .. MaxRequests /\ latest' \in 0 .. MaxRequests /\ timer' \in 0 .. MaxRequests
    BY <1>1, <1>2 DEF Requests
  <2> QED
    BY <1>3, <1>5, <1>6, <2>1, <2>2, <2>3 DEF IInv, TypeOK
<1>8. Numbered'
  BY <1>1, <1>2, <1>4 DEF IInv, TypeOK, Numbered, NewRequest, Requests
<1>9. Owned'
  BY <1>1, <1>2, <1>4 DEF IInv, TypeOK, Numbered, Owned, NewRequest, Requests, RequestRecord
<1>10. CancelsAll'
  BY <1>1, <1>2, <1>4 DEF IInv, TypeOK, Numbered, CancelsAll, NewRequest, Requests
<1>11. TimerIsNewest' /\ LoadingIsPending'
  BY <1>1 DEF TimerIsNewest, LoadingIsPending
<1>12. Held'
  BY <1>1, <1>2, <1>4 DEF Held, NewRequest, Requests
<1>13. Shown' /\ LastQuery' /\ Closed'
  BY <1>1, <1>2, <1>4, <1>6 DEF Shown, LastQuery, Closed, NewRequest
<1> QED
  BY <1>7, <1>8, <1>9, <1>10, <1>11, <1>12, <1>13 DEF IInv

(* A search for a text is pending when its handler ends.                   *)
LEMMA BeginKeeps ==
  ASSUME IInv, open, mounted, UNCHANGED dialog, isOpen' \in BOOLEAN,
         NEW q \in Queries \cup {Empty},
         NEW o \in {"auto", "open", "closed"}, NEW k \in {"none", "down", "up"},
         Begin(q, o, k), Render
  PROVE  IInv'
<1> USE SearchBoxOK
<1>1. newest + 1 \in Requests /\ newest' = newest + 1 /\ newest \in 0 .. MaxRequests
  BY DEF IInv, TypeOK, Requests, Begin
<1>2. request' \in [Requests -> RequestRecord]
  BY <1>1 DEF IInv, TypeOK, RequestRecord, NewRequest, Begin, Hits
<1>3. /\ request'[newest + 1] = NewRequest("pending", q, o, k, 0)
      /\ \A r \in Requests : r # newest + 1 => request'[r] = request[r]
  BY <1>1 DEF IInv, TypeOK, Begin
<1>4. screen' = screen /\ open' = open /\ inst' = inst /\ mounted' = mounted
  BY DEF Render, Begin, dialog
<1>5. /\ request'[newest + 1].state = "pending" /\ request'[newest + 1].inst = inst
      /\ request'[newest + 1].query = q
  BY <1>3 DEF NewRequest
<1>6. /\ newest \in Nat /\ latest \in 0 .. MaxRequests /\ latest' = latest
      /\ collections' = collections /\ collections.from \in 0 .. MaxRequests
      /\ screen.from \in 0 .. MaxRequests /\ inst \in Nat /\ MaxRequests \in Nat
      /\ \A r \in Requests : request[r].inst \in Nat
  BY NumbersAreNumbers DEF IInv, Begin
<1> HIDE SearchBoxOK
<1>7. TypeOK'
  BY <1>1, <1>2, <1>4, SearchBoxOK DEF IInv, TypeOK, Begin, Requests, Active, NoItem
<1>8. Numbered'
  BY <1>1, <1>3, <1>5, <1>6 DEF IInv, Numbered, Requests
<1>9. Owned'
  BY <1>1, <1>3, <1>4, <1>5, <1>6 DEF IInv, Owned, Requests
<1>10. CancelsAll'
  BY <1>1, <1>3, <1>5, <1>6 DEF IInv, Numbered, CancelsAll, Requests
<1>11. TimerIsNewest' /\ LoadingIsPending'
  BY <1>1, <1>4, <1>5, <1>6 DEF TimerIsNewest, LoadingIsPending, Begin
<1>12. Held'
  BY <1>1, <1>3, <1>4, <1>6 DEF IInv, Numbered, Held, Requests
<1>13. Shown' /\ LastQuery' /\ Closed'
  <2>1. screen.from # 0 => screen.from # newest + 1
    BY <1>1, <1>6 DEF IInv, Shown, Numbered, Requests
  <2> QED
    BY <1>1, <1>3, <1>4, <1>5, <1>6, <2>1 DEF IInv, Shown, LastQuery, Closed, Begin, Requests
<1> QED
  BY <1>7, <1>8, <1>9, <1>10, <1>11, <1>12, <1>13 DEF IInv

(* So are two.                                                             *)
LEMMA RefreshAndFocusKeeps ==
  ASSUME IInv, open, open', mounted', inst' = inst,
         NEW q \in Queries \cup {Empty}, RefreshAndFocus(q), Render
  PROVE  IInv'
<1> USE SearchBoxOK
<1>1. /\ newest + 1 \in Requests /\ newest + 2 \in Requests
      /\ newest' = newest + 2 /\ newest \in 0 .. MaxRequests
  BY DEF IInv, TypeOK, Requests, RefreshAndFocus
<1>2. Opening \in {"auto", "open", "closed"}
  BY DEF Opening
<1>3. request' \in [Requests -> RequestRecord]
  BY <1>1, <1>2 DEF IInv, TypeOK, RequestRecord, NewRequest, RefreshAndFocus, Hits
<1>4. /\ request'[newest + 1] = NewRequest("pending", q, Opening, "none", 0)
      /\ request'[newest + 2] = NewRequest("pending", q, "auto", "none", 0)
      /\ \A r \in Requests : r # newest + 1 /\ r # newest + 2 => request'[r] = request[r]
  BY <1>1 DEF IInv, TypeOK, RefreshAndFocus
<1>5. screen' = screen
  BY DEF Render, RefreshAndFocus
<1>6. TypeOK'
  <2>1. open' \in BOOLEAN /\ mounted' \in BOOLEAN /\ (collections.hits > 0) \in BOOLEAN
    OBVIOUS
  <2>2. isOpen' \in BOOLEAN
    BY <2>1 DEF RefreshAndFocus
  <2> QED
    BY <1>1, <1>3, <1>5, <2>1, <2>2
       DEF IInv, TypeOK, RefreshAndFocus, Requests, Active, NoItem
<1>7. /\ request'[newest + 1].state = "pending" /\ request'[newest + 1].inst = inst
      /\ request'[newest + 2].state = "pending" /\ request'[newest + 2].inst = inst
      /\ request'[newest + 2].query = q
  BY <1>4 DEF NewRequest
<1>8. /\ newest \in Nat /\ latest \in 0 .. MaxRequests /\ latest' = latest
      /\ collections' = collections /\ collections.from \in 0 .. MaxRequests
      /\ screen.from \in 0 .. MaxRequests /\ inst \in Nat /\ MaxRequests \in Nat
      /\ \A r \in Requests : request[r].inst \in Nat
  BY NumbersAreNumbers DEF IInv, RefreshAndFocus
<1> HIDE SearchBoxOK
<1>9. \A r \in Requests : r # newest + 1 /\ r # newest + 2 => request'[r] = request[r]
  BY <1>4
<1>10. Numbered'
  BY <1>1, <1>7, <1>8, <1>9 DEF IInv, Numbered, Requests
<1>11. Owned'
  BY <1>1, <1>7, <1>8, <1>9 DEF IInv, Owned, Requests
<1>12. CancelsAll'
  BY <1>1, <1>7, <1>8, <1>9 DEF IInv, Numbered, CancelsAll, Requests
<1>13. TimerIsNewest' /\ LoadingIsPending'
  BY <1>1, <1>7, <1>8 DEF TimerIsNewest, LoadingIsPending, RefreshAndFocus
<1>14. Held'
  BY <1>1, <1>8, <1>9 DEF IInv, Numbered, Held, Requests
<1>15. Shown' /\ LastQuery' /\ Closed'
  <2>1. screen.from # 0 => screen.from \in Requests /\ screen.from <= newest
    BY <1>1, <1>8 DEF IInv, Shown, Numbered, Requests
  <2>2. status' = "loading" /\ query' = q
    BY DEF RefreshAndFocus
  <2>3. Shown'
    BY <1>1, <1>5, <1>9, <2>1, <2>2 DEF IInv, Shown, Requests
  <2>4. LastQuery' /\ Closed'
    BY <1>1, <1>7, <2>2 DEF LastQuery, Closed
  <2> QED
    BY <2>3, <2>4
<1> QED
  BY <1>6, <1>10, <1>11, <1>12, <1>13, <1>14, <1>15 DEF IInv

(* Moving on the list, and closing the panel, leave the requests alone.    *)
LEMMA ListKeeps ==
  ASSUME IInv, open, UNCHANGED dialog, active' \in Active, isOpen' \in BOOLEAN,
         UNCHANGED <<query, collections, status, request, newest, latest, timer>>, Render
  PROVE  IInv'
<1>1. /\ screen' \in ScreenRecord
      /\ screen' = screen \/ screen'.from = collections'.from
      /\ status' = "idle" => screen' = Screen(query', collections', active')
  BY RenderShows DEF IInv, TypeOK
<1>2. TypeOK'
  BY <1>1 DEF IInv, TypeOK, dialog
<1>3. Numbered' /\ CancelsAll' /\ TimerIsNewest'
  BY DEF IInv, Numbered, CancelsAll, TimerIsNewest
<1>4. Owned' /\ LoadingIsPending' /\ Held' /\ LastQuery' /\ Closed'
  BY DEF IInv, Owned, LoadingIsPending, Held, LastQuery, Closed, dialog
<1>5. Shown'
  BY <1>1 DEF IInv, Shown, Held, dialog
<1> QED
  BY <1>2, <1>3, <1>4, <1>5 DEF IInv

(* What cancelling the searches of a dialog does to the requests.          *)
LEMMA CancelRequests ==
  ASSUME IInv, UNCHANGED <<inst, newest, latest>>,
         request' = [r \in Requests |->
             IF r \in Cancel THEN [request[r] EXCEPT !.state = "cancelled"] ELSE request[r]]
  PROVE  /\ request' \in [Requests -> RequestRecord]
         /\ \A r \in Requests :
                /\ request'[r].inst = request[r].inst /\ request'[r].query = request[r].query
                /\ request[r].state # "pending" => request'[r] = request[r]
         /\ Numbered' /\ CancelsAll'
         /\ Pending = {} => request' = request
<1>1. \A r \in Requests : request[r] \in RequestRecord
  BY DEF IInv, TypeOK
<1>2. \A r \in Requests :
          /\ request'[r].inst = request[r].inst /\ request'[r].query = request[r].query
          /\ request'[r].state = IF r \in Pending THEN "cancelled" ELSE request[r].state
          /\ r \notin Pending => request'[r] = request[r]
  BY <1>1 DEF Cancel, RequestRecord
<1>3. request' \in [Requests -> RequestRecord]
  BY <1>1 DEF RequestRecord
<1>4. \A r \in Requests : r \in Pending => request[r].state = "pending" /\ request[r].inst = inst
  BY DEF Pending
<1>5. Numbered'
  <2>1. latest # 0 => latest \in Requests
    BY NumbersAreNumbers, SearchBoxOK DEF IInv, Requests
  <2> QED
    BY <1>2, <1>4, <2>1 DEF IInv, Numbered
<1>6. CancelsAll'
  <2>1. SUFFICES ASSUME NEW r \in Requests, NEW s \in Requests, r < s,
                        request'[r].state = "pending", request'[r].inst = request'[s].inst
                 PROVE  request'[s].state \notin {"cancelled", "late"}
    BY DEF CancelsAll
  <2>2. r \notin Pending /\ request[r].state = "pending" /\ request[r].inst = request[s].inst
    <3>1. request'[r].state = IF r \in Pending THEN "cancelled" ELSE request[r].state
      BY <1>2
    <3>2. request'[r].inst = request[r].inst /\ request'[s].inst = request[s].inst
      BY <1>2
    <3>3. CASE r \in Pending
      BY <2>1, <3>1, <3>3
    <3>4. CASE r \notin Pending
      BY <2>1, <3>1, <3>2, <3>4
    <3> QED
      BY <3>3, <3>4
  <2>3. s \notin Pending
    BY <1>4, <2>2 DEF Pending
  <2>4. request[s].state \notin {"cancelled", "late"}
    BY <2>1, <2>2 DEF IInv, CancelsAll
  <2> QED
    BY <1>2, <2>3, <2>4
<1>7. ASSUME Pending = {}
      PROVE  request' = request
  BY <1>7 DEF Cancel, IInv, TypeOK
<1> QED
  BY <1>2, <1>3, <1>4, <1>5, <1>6, <1>7

LEMMA CancelKeeps ==
  ASSUME IInv, open, UNCHANGED dialog, CancelAll,
         UNCHANGED <<query, collections, newest, latest>>,
         isOpen' \in BOOLEAN, active' \in Active, Render
  PROVE  IInv'
<1>1. /\ request' \in [Requests -> RequestRecord]
      /\ \A r \in Requests :
             /\ request'[r].inst = request[r].inst /\ request'[r].query = request[r].query
             /\ request[r].state # "pending" => request'[r] = request[r]
      /\ Numbered' /\ CancelsAll'
      /\ Pending = {} => request' = request
  BY CancelRequests DEF CancelAll, dialog
<1>2. \/ request' = request /\ status' = status /\ timer' = timer
      \/ status' = "idle" /\ timer' = 0
  BY <1>1 DEF CancelAll
<1>3. /\ screen' \in ScreenRecord
      /\ screen' = screen \/ screen'.from = collections'.from
      /\ status' = "idle" => screen' = Screen(query', collections', active')
  BY RenderShows DEF IInv, TypeOK
<1>4. TypeOK'
  BY <1>1, <1>2, <1>3, SearchBoxOK DEF IInv, TypeOK, dialog
<1>5. /\ newest \in 0 .. MaxRequests /\ latest \in 0 .. MaxRequests
      /\ collections.from \in 0 .. MaxRequests /\ screen.from \in 0 .. MaxRequests
      /\ MaxRequests \in Nat
  BY NumbersAreNumbers, SearchBoxOK DEF IInv
<1>6. Owned'
  BY <1>1, <1>5 DEF IInv, Owned, dialog, Requests
<1>7. TimerIsNewest' /\ LoadingIsPending'
  BY <1>2 DEF IInv, TimerIsNewest, LoadingIsPending, dialog
<1>8. Held'
  <2>1. collections.from # 0 => request'[collections.from] = request[collections.from]
    BY <1>1, <1>5 DEF IInv, Held, Requests
  <2>2. latest # 0 => request'[latest] = request[latest]
    BY <1>1, <1>5 DEF IInv, Numbered, Requests
  <2> QED
    BY <2>1, <2>2 DEF IInv, Held, dialog
<1>9. Shown'
  <2>1. screen.from # 0 => request'[screen.from] = request[screen.from]
    BY <1>1, <1>5 DEF IInv, Shown, Requests
  <2>2. screen'.from # 0 =>
            open' /\ request'[screen'.from].state = "done" /\ request'[screen'.from].inst = inst'
    <3>1. CASE screen' = screen
      BY <3>1, <2>1 DEF IInv, Shown, dialog
    <3>2. CASE screen'.from = collections'.from
      BY <3>2, <1>8 DEF Held
    <3> QED
      BY <3>1, <3>2, <1>3
  <2> QED
    BY <1>3, <2>2 DEF Shown
<1>10. LastQuery' /\ Closed'
  BY <1>1, <1>5 DEF IInv, LastQuery, Closed, dialog, Requests
<1> QED
  BY <1>1, <1>4, <1>6, <1>7, <1>8, <1>9, <1>10 DEF IInv

(* A dialog that goes leaves its requests, cancelled or not.               *)
LEMMA LeaveKeeps ==
  ASSUME IInv, Leave,
         \/ UNCHANGED <<request, timer>>
         \/ /\ request' = [r \in Requests |->
                   IF r \in Cancel THEN [request[r] EXCEPT !.state = "cancelled"] ELSE request[r]]
            /\ timer' = IF Pending = {} THEN timer ELSE 0
  PROVE  IInv'
<1>1. /\ request' \in [Requests -> RequestRecord]
      /\ \A r \in Requests : request'[r].inst = request[r].inst
      /\ Numbered' /\ CancelsAll'
      /\ \/ request' = request /\ timer' = timer
         \/ timer' = 0
  <2>1. CASE UNCHANGED <<request, timer>>
    BY <2>1 DEF IInv, TypeOK, Leave, Numbered, CancelsAll
  <2>2. CASE /\ request' = [r \in Requests |->
                   IF r \in Cancel THEN [request[r] EXCEPT !.state = "cancelled"] ELSE request[r]]
             /\ timer' = IF Pending = {} THEN timer ELSE 0
    BY <2>2, CancelRequests DEF Leave
  <2> QED
    BY <2>1, <2>2
<1>2. TypeOK'
  <2>1. NoCollections \in CollectionsRecord /\ NoItem \in Active
    BY SearchBoxOK DEF NoCollections, CollectionsRecord, NoItem, Active, Hits
  <2>2. screen' \in ScreenRecord
    BY <2>1, ScreensAreScreens DEF Leave
  <2>3. timer' \in 0 .. MaxRequests
    BY <1>1, NumbersAreNumbers, SearchBoxOK DEF IInv
  <2> QED
    BY <1>1, <2>1, <2>2, <2>3 DEF IInv, TypeOK, Leave
<1>3. screen'.from = 0
  BY DEF Leave, Screen, NoCollections
<1>4. /\ newest \in 0 .. MaxRequests /\ latest \in 0 .. MaxRequests /\ MaxRequests \in Nat
  BY NumbersAreNumbers, SearchBoxOK DEF IInv
<1>5. Owned'
  BY <1>1, <1>4 DEF IInv, Owned, Leave, Requests
<1>6. TimerIsNewest'
  BY <1>1 DEF IInv, TimerIsNewest, Leave
<1>7. Held' /\ Shown' /\ LastQuery' /\ Closed' /\ LoadingIsPending'
  BY <1>3, <1>4 DEF Held, Shown, LastQuery, Closed, LoadingIsPending, Leave, NoCollections
<1> QED
  BY <1>1, <1>2, <1>5, <1>6, <1>7 DEF IInv

LEMMA OpenKeeps ==
  ASSUME IInv, NEW q \in Queries \cup {Empty}, Open(q)
  PROVE  IInv'
<1>1. /\ inst \in Nat /\ newest \in 0 .. MaxRequests /\ latest \in 0 .. MaxRequests
      /\ MaxRequests \in Nat /\ \A r \in Requests : request[r].inst \in Nat
  BY NumbersAreNumbers, SearchBoxOK DEF IInv
<1>2. TypeOK'
  BY SearchBoxOK DEF IInv, TypeOK, Open
<1>3. Numbered' /\ CancelsAll' /\ TimerIsNewest'
  BY DEF IInv, Numbered, CancelsAll, TimerIsNewest, Open
<1>4. \A r \in Requests : request'[r].inst < inst'
  BY <1>1 DEF IInv, Owned, Open
<1>5. Owned'
  BY <1>1, <1>4 DEF IInv, Owned, Open
<1>6. LoadingIsPending' /\ Held' /\ Shown' /\ LastQuery' /\ Closed'
  BY <1>1, <1>4 DEF IInv, LoadingIsPending, Held, Shown, LastQuery, Closed, Open,
                    NoCollections, Requests
<1> QED
  BY <1>2, <1>3, <1>5, <1>6 DEF IInv

-----------------------------------------------------------------------------
(***************************************************************************)
(* The ends of requests.                                                   *)
(***************************************************************************)

(* What the end of a request does to the requests.                         *)
LEMMA EndRequests ==
  ASSUME TypeOK, NEW r \in Requests, NEW n \in Hits,
         NEW st \in {"done", "failed", "late"},
         \/ request' = [request EXCEPT ![r].state = st, ![r].hits = n]
         \/ request' = [request EXCEPT ![r].state = st]
  PROVE  /\ request' \in [Requests -> RequestRecord]
         /\ request'[r].state = st
         /\ \A s \in Requests :
                request'[s].inst = request[s].inst /\ request'[s].query = request[s].query
         /\ \A s \in Requests : s # r => request'[s] = request[s]
<1>1. CASE request' = [request EXCEPT ![r].state = st, ![r].hits = n]
  <2>1. request[r] \in RequestRecord
    BY DEF TypeOK
  <2>2. request' = [request EXCEPT ![r] = [request[r] EXCEPT !.state = st, !.hits = n]]
    BY <1>1 DEF TypeOK
  <2>3. [request[r] EXCEPT !.state = st, !.hits = n] \in RequestRecord
    BY <2>1 DEF RequestRecord
  <2>4. request' \in [Requests -> RequestRecord]
    BY <2>2, <2>3 DEF TypeOK
  <2>5. request'[r] = [request[r] EXCEPT !.state = st, !.hits = n]
    BY <2>2 DEF TypeOK
  <2>6. request'[r].state = st /\ request'[r].inst = request[r].inst
        /\ request'[r].query = request[r].query
    BY <2>1, <2>5 DEF RequestRecord
  <2>7. \A s \in Requests : s # r => request'[s] = request[s]
    BY <2>2 DEF TypeOK
  <2> QED
    BY <2>4, <2>6, <2>7
<1>2. CASE request' = [request EXCEPT ![r].state = st]
  BY <1>2 DEF TypeOK, RequestRecord
<1> QED
  BY <1>1, <1>2

(* The end of a request keeps the order of the answers and of the dialogs. *)
LEMMA EndKeepsOrder ==
  ASSUME IInv, UNCHANGED dialog, newest' = newest,
         NEW r \in Requests, NEW n \in Hits, NEW st \in {"done", "failed", "late"},
         \/ request' = [request EXCEPT ![r].state = st, ![r].hits = n]
         \/ request' = [request EXCEPT ![r].state = st],
         \/ st = "failed" /\ request[r].state = "pending" /\ latest' = latest
         \/ st = "done" /\ request[r].state = "pending" /\ latest' = Winner(r)
         \/ st = "late" /\ request[r].state = "cancelled" /\ latest' = Winner(r)
  PROVE  /\ Numbered' /\ Owned' /\ CancelsAll'
         /\ latest' \in 0 .. MaxRequests /\ latest' >= latest
         /\ latest' # latest => latest' = r
<1>1. /\ request'[r].state = st
      /\ \A s \in Requests :
             request'[s].inst = request[s].inst /\ request'[s].query = request[s].query
      /\ \A s \in Requests : s # r => request'[s] = request[s]
  BY EndRequests DEF IInv
<1>2. /\ newest \in 0 .. MaxRequests /\ latest \in 0 .. MaxRequests /\ MaxRequests \in Nat
      /\ r \in 1 .. MaxRequests
  BY NumbersAreNumbers, SearchBoxOK DEF IInv, Requests
<1>3. r <= newest
  BY <1>2 DEF IInv, Numbered
<1>4. /\ latest' \in 0 .. MaxRequests /\ latest' >= latest
      /\ latest' = latest \/ latest' = r
      /\ st # "failed" => latest' >= r
  BY <1>2 DEF Winner
<1>5. Numbered'
  <2>1. latest' <= newest'
    BY <1>2, <1>3, <1>4 DEF IInv, Numbered
  <2>2. \A s \in Requests : (s > newest') = (request'[s].state = "unused")
    BY <1>1, <1>3 DEF IInv, Numbered
  <2>3. \A s \in Requests : request'[s].state \in {"done", "late"} => s <= latest'
    <3>1. SUFFICES ASSUME NEW s \in Requests, request'[s].state \in {"done", "late"}
                   PROVE  s <= latest'
      OBVIOUS
    <3>2. CASE s = r
      BY <3>1, <3>2, <1>1, <1>4
    <3>3. CASE s # r
      BY <3>1, <3>3, <1>1, <1>2, <1>4 DEF IInv, Numbered, Requests
    <3> QED
      BY <3>2, <3>3
  <2>4. latest' # 0 => request'[latest'].state \in {"done", "late"}
    <3>1. CASE latest' = latest /\ latest # r
      BY <3>1, <1>1, <1>2 DEF IInv, Numbered, Requests
    <3>2. CASE latest' = r
      <4>1. latest # r
        BY <1>2 DEF IInv, Numbered
      <4>2. st # "failed"
        BY <3>2, <4>1
      <4> QED
        BY <3>2, <4>2, <1>1
    <3> QED
      BY <3>1, <3>2, <1>4
  <2> QED
    BY <2>1, <2>2, <2>3, <2>4 DEF Numbered
<1>6. Owned'
  BY <1>1, <1>2 DEF IInv, Owned, dialog, Requests
<1>7. CancelsAll'
  BY <1>1 DEF IInv, CancelsAll
<1> QED
  BY <1>4, <1>5, <1>6, <1>7

(* An answer that reaches its dialog: what wins is an answer of this dialog. *)
LEMMA AnswerKeeps ==
  ASSUME IInv, NEW r \in Requests, NEW n \in Hits, Answer(r, n)
  PROVE  IInv' /\ collections'.from >= collections.from
<1>1. /\ request[r].state = "pending" /\ open /\ request[r].inst = inst
      /\ request' = [request EXCEPT ![r].state = "done", ![r].hits = n]
      /\ latest' = Winner(r) /\ UNCHANGED dialog /\ newest' = newest /\ query' = query
      /\ status' = "idle" /\ timer' = 0 /\ Render
      /\ collections' = [from |-> Winner(r), hits |-> request'[Winner(r)].hits]
  BY DEF Answer, Live, Settle
<1>2. /\ request' \in [Requests -> RequestRecord]
      /\ request'[r].state = "done"
      /\ \A s \in Requests :
             request'[s].inst = request[s].inst /\ request'[s].query = request[s].query
      /\ \A s \in Requests : s # r => request'[s] = request[s]
  BY <1>1, EndRequests DEF IInv
<1>3. /\ Numbered' /\ Owned' /\ CancelsAll'
      /\ latest' \in 0 .. MaxRequests /\ latest' >= latest
  BY <1>1, EndKeepsOrder
<1>4. /\ newest \in 0 .. MaxRequests /\ latest \in 0 .. MaxRequests /\ MaxRequests \in Nat
      /\ r \in 1 .. MaxRequests /\ r <= newest /\ collections.from \in 0 .. MaxRequests
      /\ inst \in Nat /\ \A s \in Requests : request[s].inst \in Nat
  BY <1>1, NumbersAreNumbers, SearchBoxOK DEF IInv, Requests, Numbered
<1>5. Winner(r) \in Requests /\ Winner(r) >= latest
  BY <1>4 DEF Winner, Requests
<1>6. request'[Winner(r)].state = "done" /\ request'[Winner(r)].inst = inst
  <2>1. CASE latest > r
    <3>1. latest \in 1 .. newest /\ r \in 1 .. newest /\ latest \in Requests
      BY <2>1, <1>4 DEF IInv, Numbered, Requests
    <3>2. request[latest].inst = inst
      BY <3>1, <2>1, <1>1, <1>4 DEF IInv, Owned
    <3>3. request[latest].state = "done"
      BY <3>1, <3>2, <2>1, <1>1 DEF IInv, Numbered, CancelsAll
    <3> QED
      BY <3>1, <3>2, <3>3, <2>1, <1>2, <1>4 DEF Winner
  <2>2. CASE ~(latest > r)
    BY <2>2, <1>1, <1>2 DEF Winner
  <2> QED
    BY <2>1, <2>2
<1>7. /\ collections' \in CollectionsRecord
      /\ isOpen' \in BOOLEAN /\ active' \in Active
  <2>1. request'[Winner(r)].hits \in Hits
    BY <1>2, <1>5 DEF RequestRecord
  <2>2. collections' \in CollectionsRecord /\ collections'.hits \in Hits
    BY <1>1, <1>5, <2>1 DEF CollectionsRecord, Requests
  <2>3. /\ request[r].opens \in {"auto", "open", "closed"}
        /\ request[r].key \in {"none", "down", "up"} /\ active \in Active
    BY DEF IInv, TypeOK, RequestRecord
  <2> QED
    BY <2>2, <2>3, ItemsAreActive, PanelIsOpenOrNot DEF Answer
<1>8. /\ screen' \in ScreenRecord /\ screen'.from = collections'.from
      /\ screen' = Screen(query', collections', active')
  BY <1>1, <1>7, RenderShows, ScreensAreScreens DEF IInv, TypeOK
<1>9. TypeOK'
  BY <1>1, <1>2, <1>3, <1>7, <1>8, SearchBoxOK DEF IInv, TypeOK, dialog
<1>10. Held'
  BY <1>1, <1>3, <1>5, <1>6 DEF Held, dialog, Requests
<1>11. Shown'
  BY <1>1, <1>6, <1>8 DEF Shown, dialog
<1>12. LastQuery' /\ Closed'
  BY <1>1, <1>2, <1>4 DEF IInv, LastQuery, Closed, dialog, Requests
<1>13. TimerIsNewest' /\ LoadingIsPending'
  BY <1>1 DEF TimerIsNewest, LoadingIsPending
<1>14. collections'.from >= collections.from
  BY <1>1, <1>4, <1>5 DEF IInv, Held, Requests
<1> QED
  BY <1>3, <1>9, <1>10, <1>11, <1>12, <1>13, <1>14 DEF IInv

(* An error is an end like another, and the list is as it was.             *)
LEMMA FailKeeps ==
  ASSUME IInv, NEW r \in Requests, Fail(r)
  PROVE  IInv'
<1>1. /\ request[r].state = "pending" /\ open /\ request[r].inst = inst
      /\ request' = [request EXCEPT ![r].state = "failed"]
      /\ UNCHANGED <<dialog, query, collections, isOpen, active, newest, latest>>
      /\ status' = "idle" /\ timer' = 0 /\ Render
  BY DEF Fail, Live, Settle
<1>2. 0 \in Hits
  BY SearchBoxOK DEF Hits
<1>3. /\ request' \in [Requests -> RequestRecord]
      /\ \A s \in Requests :
             request'[s].inst = request[s].inst /\ request'[s].query = request[s].query
      /\ \A s \in Requests : s # r => request'[s] = request[s]
  BY <1>1, <1>2, EndRequests DEF IInv
<1>4. Numbered' /\ Owned' /\ CancelsAll'
  BY <1>1, <1>2, EndKeepsOrder
<1>5. /\ newest \in 0 .. MaxRequests /\ latest \in 0 .. MaxRequests
      /\ collections.from \in 0 .. MaxRequests /\ MaxRequests \in Nat
  BY NumbersAreNumbers, SearchBoxOK DEF IInv
<1>6. /\ screen' \in ScreenRecord /\ screen'.from = collections'.from
      /\ screen' = Screen(query', collections', active')
  BY <1>1, RenderShows, ScreensAreScreens DEF IInv, TypeOK
<1>7. TypeOK'
  BY <1>1, <1>3, <1>6, SearchBoxOK DEF IInv, TypeOK, dialog
<1>8. Held'
  <2>1. collections.from # 0 => request'[collections.from] = request[collections.from]
    BY <1>1, <1>3, <1>5 DEF IInv, Held, Requests
  <2>2. latest # 0 => request'[latest] = request[latest]
    BY <1>1, <1>3, <1>5 DEF IInv, Numbered, Requests
  <2> QED
    BY <1>1, <2>1, <2>2 DEF IInv, Held, dialog
<1>9. Shown'
  BY <1>1, <1>6, <1>8 DEF Shown, Held, dialog
<1>10. LastQuery' /\ Closed'
  BY <1>1, <1>3, <1>5 DEF IInv, LastQuery, Closed, dialog, Requests
<1>11. TimerIsNewest' /\ LoadingIsPending'
  BY <1>1 DEF TimerIsNewest, LoadingIsPending
<1> QED
  BY <1>4, <1>7, <1>8, <1>9, <1>10, <1>11 DEF IInv

(* The end of a request that the dialog has no part in.                    *)
LEMMA EndElsewhereKeeps ==
  ASSUME IInv, UNCHANGED <<dialog, store, newest, screen>>,
         NEW r \in Requests, NEW n \in Hits, NEW st \in {"done", "failed", "late"},
         \/ request' = [request EXCEPT ![r].state = st, ![r].hits = n]
         \/ request' = [request EXCEPT ![r].state = st],
         \/ st = "failed" /\ request[r].state = "pending" /\ latest' = latest
         \/ st = "done" /\ request[r].state = "pending" /\ latest' = Winner(r)
         \/ st = "late" /\ request[r].state = "cancelled" /\ latest' = Winner(r),
         \/ ~Live(r) /\ timer' = 0
         \/ st = "late" /\ timer' = timer
  PROVE  IInv'
<1>1. /\ request' \in [Requests -> RequestRecord] /\ request'[r].state = st
      /\ \A s \in Requests :
             request'[s].inst = request[s].inst /\ request'[s].query = request[s].query
      /\ \A s \in Requests : s # r => request'[s] = request[s]
  BY EndRequests DEF IInv
<1>2. /\ Numbered' /\ Owned' /\ CancelsAll'
      /\ latest' \in 0 .. MaxRequests /\ latest' >= latest
      /\ latest' # latest => latest' = r
  BY EndKeepsOrder
<1>3. /\ newest \in 0 .. MaxRequests /\ latest \in 0 .. MaxRequests
      /\ collections.from \in 0 .. MaxRequests /\ screen.from \in 0 .. MaxRequests
      /\ MaxRequests \in Nat
  BY NumbersAreNumbers, SearchBoxOK DEF IInv
<1>4. /\ open' = open /\ inst' = inst /\ mounted' = mounted /\ query' = query
      /\ collections' = collections /\ active' = active /\ status' = status
      /\ isOpen' = isOpen /\ newest' = newest /\ screen' = screen
  BY DEF dialog, store
<1>5. request[r].state \in {"pending", "cancelled"}
  OBVIOUS
<1>6. TypeOK'
  BY <1>1, <1>2, <1>3, <1>4 DEF IInv, TypeOK
<1>7. Held'
  <2>1. collections.from # 0 => request'[collections.from] = request[collections.from]
    BY <1>1, <1>3, <1>5 DEF IInv, Held, Requests
  <2>2. latest # 0 => request'[latest] = request[latest]
    BY <1>1, <1>3, <1>5 DEF IInv, Numbered, Requests
  <2>3. open' /\ latest' # 0 /\ request'[latest'].state = "done" /\ request'[latest'].inst = inst'
            => latest' = latest
    <3>1. SUFFICES ASSUME open', latest' = r, request'[r].state = "done", request'[r].inst = inst'
                   PROVE  latest' = latest
      BY <1>2
    <3>2. Live(r)
      BY <3>1, <1>1, <1>4 DEF Live
    <3>3. st = "done"
      BY <3>1, <1>1
    <3> QED
      BY <3>2, <3>3
  <2>4. collections.from <= latest'
    BY <1>2, <1>3 DEF IInv, Held
  <2> QED
    BY <1>4, <2>1, <2>2, <2>3, <2>4 DEF IInv, Held
<1>8. Shown'
  BY <1>1, <1>3, <1>4, <1>5 DEF IInv, Shown, Requests
<1>9. LastQuery' /\ Closed'
  BY <1>1, <1>3, <1>4 DEF IInv, LastQuery, Closed, Requests
<1>10. TimerIsNewest' /\ LoadingIsPending'
  <2>1. CASE ~Live(r) /\ timer' = 0
    BY <2>1, <1>1, <1>3, <1>4 DEF IInv, TimerIsNewest, LoadingIsPending, Live, Requests
  <2>2. CASE st = "late" /\ timer' = timer
    <3>1. request[r].state = "cancelled"
      BY <2>2
    <3> QED
      BY <2>2, <3>1, <1>1, <1>3, <1>4 DEF IInv, TimerIsNewest, LoadingIsPending, Requests
  <2> QED
    BY <2>1, <2>2
<1> QED
  BY <1>2, <1>6, <1>7, <1>8, <1>9, <1>10 DEF IInv

(* The timer that goes off is that of the last search.                     *)
LEMMA StallKeeps ==
  ASSUME IInv, Stall
  PROVE  IInv'
<1>1. /\ UNCHANGED <<dialog, query, collections, isOpen, active, request, newest, latest>>
      /\ timer = newest /\ timer # 0 /\ timer' = 0 /\ request[newest].state = "pending"
      /\ status' = IF Live(timer) THEN "stalled" ELSE status
      /\ Render
  BY DEF IInv, TimerIsNewest, Stall
<1>2. /\ screen' \in ScreenRecord
      /\ screen' = screen \/ screen'.from = collections'.from
      /\ status' = "idle" => screen' = Screen(query', collections', active')
  BY <1>1, RenderShows DEF IInv, TypeOK
<1>3. TypeOK'
  BY <1>1, <1>2, SearchBoxOK DEF IInv, TypeOK, dialog
<1>4. Numbered' /\ CancelsAll' /\ TimerIsNewest' /\ Owned' /\ Held' /\ LastQuery'
  BY <1>1 DEF IInv, Numbered, CancelsAll, TimerIsNewest, Owned, Held, LastQuery, dialog
<1>5. LoadingIsPending' /\ Closed'
  <2>1. screen'.from = 0 \/ open
    BY <1>2, <1>1 DEF IInv, Closed, NoCollections
  <2> QED
    BY <1>1, <2>1 DEF IInv, LoadingIsPending, Closed, Live, dialog
<1>6. Shown'
  BY <1>1, <1>2 DEF IInv, Shown, Held, dialog
<1> QED
  BY <1>3, <1>4, <1>5, <1>6 DEF IInv

-----------------------------------------------------------------------------
(***************************************************************************)
(* The steps.                                                              *)
(***************************************************************************)

(* What a handler does to the hits: it keeps them, or has newer ones.      *)
Newer == collections'.from >= collections.from

LEMMA AtOnceIsNewer ==
  ASSUME IInv, NEW o, NEW k, AtOnce(o, k)
  PROVE  Newer
BY NumbersAreNumbers DEF IInv, Numbered, Held, AtOnce, Newer

LEMMA KeptIsNewer ==
  ASSUME IInv, collections' = collections
  PROVE  Newer
BY NumbersAreNumbers DEF IInv, Newer

(* The handlers of the input and of the keys that search.                  *)
LEMMA SearchesKeep ==
  ASSUME IInv,
         \/ Mount \/ Focus \/ Reset \/ Refresh
         \/ \E q \in Queries \cup {Empty} : Input(q)
         \/ \E q \in Queries : Prefill(q)
  PROVE  IInv' /\ Newer
<1>1. Opening \in {"auto", "open", "closed"}
  BY DEF Opening
<1>2. query \in Queries \cup {Empty} /\ isOpen \in BOOLEAN
  BY DEF IInv, TypeOK
<1>3. (collections.hits > 0) \in BOOLEAN
  OBVIOUS
<1>4. ASSUME Mount
      PROVE  IInv' /\ Newer
  <2>1. open /\ open' /\ mounted' /\ inst' = inst /\ Render
    BY <1>4 DEF Mount
  <2>2. CASE query = Empty
    BY <1>4, <2>1, <2>2, AtOnceKeeps, AtOnceIsNewer DEF Mount
  <2>3. CASE query # Empty
    BY <1>4, <1>2, <2>1, <2>3, RefreshAndFocusKeeps, KeptIsNewer DEF Mount, RefreshAndFocus
  <2> QED
    BY <2>2, <2>3
<1>5. ASSUME Focus
      PROVE  IInv' /\ Newer
  <2>1. open /\ mounted /\ UNCHANGED dialog /\ Render
    BY <1>5 DEF Focus, Ready
  <2>2. CASE query = Empty
    BY <1>5, <2>1, <2>2, AtOnceKeeps, AtOnceIsNewer DEF Focus, dialog
  <2>3. CASE query # Empty
    <3>1. Begin(query, "auto", "none") /\ isOpen' \in BOOLEAN
      BY <1>5, <1>3, <2>3 DEF Focus
    <3> QED
      BY <1>2, <2>1, <3>1, BeginKeeps, KeptIsNewer DEF Begin
  <2> QED
    BY <2>2, <2>3
<1>6. ASSUME Reset
      PROVE  IInv' /\ Newer
  BY <1>6, AtOnceKeeps, AtOnceIsNewer DEF Reset, Ready, dialog
<1>7. ASSUME Refresh
      PROVE  IInv' /\ Newer
  <2>1. open /\ mounted /\ UNCHANGED dialog /\ Render
    BY <1>7 DEF Refresh, Ready
  <2>2. CASE query = Empty
    BY <1>1, <1>7, <2>1, <2>2, AtOnceKeeps, AtOnceIsNewer DEF Refresh, dialog
  <2>3. CASE query # Empty
    BY <1>1, <1>2, <1>7, <2>1, <2>3, BeginKeeps, KeptIsNewer DEF Refresh, Begin
  <2> QED
    BY <2>2, <2>3
<1>8. ASSUME NEW q \in Queries \cup {Empty}, Input(q)
      PROVE  IInv' /\ Newer
  <2>1. open /\ mounted /\ UNCHANGED dialog /\ Render
    BY <1>8 DEF Input, Ready
  <2>2. CASE q = Empty
    BY <1>8, <2>1, <2>2, AtOnceKeeps, AtOnceIsNewer DEF Input, dialog
  <2>3. CASE q # Empty
    BY <1>2, <1>8, <2>1, <2>3, BeginKeeps, KeptIsNewer DEF Input, Begin
  <2> QED
    BY <2>2, <2>3
<1>9. ASSUME NEW q \in Queries, Prefill(q)
      PROVE  IInv' /\ Newer
  BY <1>9, RefreshAndFocusKeeps, KeptIsNewer DEF Prefill, Ready, dialog, RefreshAndFocus
<1> QED
  BY <1>4, <1>5, <1>6, <1>7, <1>8, <1>9

LEMMA ArrowKeeps ==
  ASSUME IInv, NEW d \in {-1, 1}, NEW k \in {"down", "up"}, Arrow(d, k)
  PROVE  IInv' /\ Newer
<1>1. open /\ mounted /\ UNCHANGED dialog /\ Render
  BY DEF Arrow, Ready
<1>2. /\ query \in Queries \cup {Empty} /\ isOpen \in BOOLEAN
      /\ collections.hits \in Hits /\ active \in Active
  BY DEF IInv, TypeOK, CollectionsRecord
<1>3. CASE /\ isOpen
           /\ active' = NextItem(d, active, collections.hits)
           /\ UNCHANGED <<query, collections, isOpen, status, request, newest, latest, timer>>
  <2>1. active' \in Active
    BY <1>2, <1>3, ItemsAreActive
  <2> QED
    BY <1>1, <1>2, <1>3, <2>1, ListKeeps, KeptIsNewer
<1>4. CASE ~isOpen /\ query = Empty /\ AtOnce("auto", k)
  BY <1>1, <1>4, AtOnceKeeps, AtOnceIsNewer DEF dialog
<1>5. CASE ~isOpen /\ query # Empty /\ Begin(query, "auto", k) /\ UNCHANGED isOpen
  BY <1>1, <1>2, <1>5, BeginKeeps, KeptIsNewer DEF Begin
<1> QED
  BY <1>3, <1>4, <1>5 DEF Arrow

(* The other handlers of the user's events.                                *)
LEMMA UserKeeps ==
  ASSUME IInv, User
  PROVE  IInv' /\ (open /\ open' => Newer)
<1>1. isOpen \in BOOLEAN /\ active \in Active /\ NoItem \in Active /\ 0 \in Active
  BY SearchBoxOK DEF IInv, TypeOK, NoItem, Active
<1>2. ASSUME NEW q \in Queries \cup {Empty}, Open(q)
      PROVE  IInv' /\ (open /\ open' => Newer)
  BY <1>2, OpenKeeps DEF Open
<1>3. CASE Escape \/ Close \/ Enter
  BY <1>3, LeaveKeeps DEF Escape, Close, Enter, Leave
<1>4. CASE EnterNothing
  BY <1>1, <1>4, CancelKeeps, KeptIsNewer DEF EnterNothing, Ready
<1>5. CASE Blur
  BY <1>1, <1>5, CancelKeeps, KeptIsNewer DEF Blur, Ready
<1>6. ASSUME NEW i \in Hits, MouseMove(i)
      PROVE  IInv' /\ Newer
  <2>1. active' \in Active
    <3>1. i \in Nat /\ i < screen.hits /\ screen.hits \in Hits /\ active' = i
      BY <1>6, SearchBoxOK DEF MouseMove, Hits, IInv, TypeOK, ScreenRecord
    <3> QED
      BY <3>1, SearchBoxOK DEF Active, NoItem, Hits
  <2> QED
    BY <1>1, <1>6, <2>1, ListKeeps, KeptIsNewer DEF MouseMove, Ready
<1>7. CASE MouseLeave
  BY <1>1, <1>7, ListKeeps, KeptIsNewer DEF MouseLeave, Ready
<1>8. CASE Arrow(1, "down") \/ Arrow(-1, "up")
  BY <1>8, ArrowKeeps
<1>9. CASE \/ Mount \/ Focus \/ Reset \/ Refresh
           \/ \E q \in Queries \cup {Empty} : Input(q)
           \/ \E q \in Queries : Prefill(q)
  BY <1>9, SearchesKeep
<1> QED
  BY <1>2, <1>3, <1>4, <1>5, <1>6, <1>7, <1>8, <1>9 DEF User

LEMMA EndsKeep ==
  ASSUME IInv, NEW r \in Requests,
         Ends(r) \/ EndUnseen(r) \/ \E n \in Hits : AnswerLate(r, n)
  PROVE  IInv' /\ Newer
<1>1. ASSUME NEW n \in Hits, Answer(r, n)
      PROVE  IInv' /\ Newer
  BY <1>1, AnswerKeeps DEF Newer
<1>2. CASE Fail(r)
  BY <1>2, FailKeeps, KeptIsNewer DEF Fail
<1>3. CASE EndUnseen(r)
  <2>1. /\ request[r].state = "pending" /\ ~Live(r) /\ timer' = 0
        /\ UNCHANGED <<dialog, store, newest, screen>> /\ collections' = collections
    BY <1>3 DEF EndUnseen, store
  <2>2. 0 \in Hits
    BY SearchBoxOK DEF Hits
  <2>3. ASSUME NEW n \in Hits, request' = [request EXCEPT ![r].state = "done", ![r].hits = n],
               latest' = Winner(r)
        PROVE  IInv'
    BY <2>1, <2>3, EndElsewhereKeeps
  <2>4. ASSUME request' = [request EXCEPT ![r].state = "failed"], latest' = latest
        PROVE  IInv'
    BY <2>1, <2>2, <2>4, EndElsewhereKeeps
  <2> QED
    BY <1>3, <2>1, <2>3, <2>4, KeptIsNewer DEF EndUnseen
<1>4. ASSUME NEW n \in Hits, AnswerLate(r, n)
      PROVE  IInv' /\ Newer
  BY <1>4, EndElsewhereKeeps, KeptIsNewer DEF AnswerLate, store
<1> QED
  BY <1>1, <1>2, <1>3, <1>4 DEF Ends

LEMMA StepKeeps ==
  ASSUME IInv, [Next]_vars
  PROVE  IInv' /\ (open /\ open' => Newer)
<1>1. CASE User
  BY <1>1, UserKeeps
<1>2. CASE \E r \in Requests : Ends(r) \/ EndUnseen(r) \/ \E n \in Hits : AnswerLate(r, n)
  BY <1>2, EndsKeep
<1>3. CASE Stall
  BY <1>3, StallKeeps, KeptIsNewer DEF Stall
<1>4. CASE UNCHANGED vars
  <2>1. IInv'
    BY <1>4 DEF vars, store, IInv, TypeOK, Numbered, Owned, CancelsAll, TimerIsNewest,
                LoadingIsPending, Held, Shown, LastQuery, Closed
  <2> QED
    BY <2>1, <1>4, KeptIsNewer DEF vars, store
<1> QED
  BY <1>1, <1>2, <1>3, <1>4 DEF Next

LEMMA InitHolds ==
  ASSUME Init
  PROVE  IInv
<1>1. NoCollections \in CollectionsRecord /\ NoItem \in Active
  BY SearchBoxOK DEF NoCollections, CollectionsRecord, NoItem, Active, Hits
<1>2. Unused \in RequestRecord /\ Unused.state = "unused" /\ Unused.inst = 0
  BY SearchBoxOK DEF Unused, RequestRecord, Hits
<1>3. screen \in ScreenRecord /\ screen.from = 0
  BY <1>1, ScreensAreScreens DEF Init, NoCollections
<1>4. TypeOK
  <2>1. request \in [Requests -> RequestRecord] /\ 0 \in 0 .. MaxRequests /\ 0 \in 0 .. MaxDialogs
    BY <1>2, SearchBoxOK DEF Init
  <2> QED
    BY <1>1, <1>3, <2>1 DEF Init, TypeOK
<1> QED
  BY <1>2, <1>3, <1>4, SearchBoxOK
     DEF Init, IInv, Numbered, Owned, CancelsAll, TimerIsNewest, LoadingIsPending, Held, Shown,
         LastQuery, Closed, NoCollections, Requests

LEMMA Invariance == Spec => []IInv
<1>1. IInv /\ [Next]_vars => IInv'
  BY StepKeeps
<1> QED
  BY <1>1, InitHolds, PTL DEF Spec

-----------------------------------------------------------------------------
(***************************************************************************)
(* The theorems.                                                           *)
(***************************************************************************)

(* The store, the requests and the list have the forms the code gives them. *)
THEOREM SearchTypeOK == Spec => []TypeOK
<1>1. IInv => TypeOK
  BY DEF IInv
<1> QED
  BY <1>1, Invariance, PTL

(* The hits in a dialog never go back to those of an older search, for any *)
(* number of searches and dialogs and any order of the answers.            *)
THEOREM SearchNewestWins == Spec => NewestWins
<1>1. IInv /\ [Next]_vars => [open /\ open' => collections'.from >= collections.from]_vars
  BY StepKeeps DEF Newer
<1> QED
  BY <1>1, Invariance, PTL DEF Spec, NewestWins

(* The answer to the last search is what the list shows.                   *)
THEOREM SearchAnsweredIsShown == Spec => []AnsweredIsShown
<1>1. ASSUME IInv
      PROVE  AnsweredIsShown
  <2>1. SUFFICES ASSUME newest > 0, open, request[newest].inst = inst,
                        request[newest].state = "done"
                 PROVE  /\ screen.from = newest /\ screen.query = request[newest].query
                        /\ (screen.kind = "noResults")
                              = (request[newest].hits = 0 /\ request[newest].query # Empty)
    BY DEF AnsweredIsShown
  <2>2. newest \in Requests /\ newest # 0 /\ latest \in 0 .. MaxRequests /\ MaxRequests \in Nat
    BY <1>1, <2>1, NumbersAreNumbers, SearchBoxOK DEF IInv, Requests
  <2>3. latest = newest
    BY <1>1, <2>1, <2>2 DEF IInv, Numbered, Requests
  <2>4. mounted
    BY <1>1, <2>1, <2>2 DEF IInv, TypeOK, Owned, RequestRecord
  <2>5. status = "idle"
    BY <1>1, <2>1 DEF IInv, LoadingIsPending
  <2>6. /\ collections.from = newest /\ collections.hits = request[newest].hits
        /\ query = request[newest].query
    BY <1>1, <2>1, <2>2, <2>3 DEF IInv, Held, LastQuery
  <2>7. screen = Screen(query, collections, active)
    BY <1>1, <2>1, <2>4, <2>5 DEF IInv, Shown
  <2>8. screen.from = collections.from /\ screen.query = query
    BY <2>7 DEF Screen
  <2>9. (screen.kind = "noResults") = (collections.hits = 0 /\ query # Empty)
    BY <2>7 DEF Screen
  <2> QED
    BY <2>6, <2>8, <2>9
<1> QED
  BY <1>1, Invariance, PTL

(* The hits of a cancelled search stay hidden.                             *)
THEOREM SearchCancelledStaysHidden == Spec => []CancelledStaysHidden
<1>1. ASSUME IInv
      PROVE  CancelledStaysHidden
  BY <1>1, SearchBoxOK DEF IInv, Held, Shown, CancelledStaysHidden, Requests
<1> QED
  BY <1>1, Invariance, PTL

(* No timer of another search says that this one stalls.                   *)
THEOREM SearchStalledIsPending == Spec => []StalledIsPending
<1>1. ASSUME IInv
      PROVE  StalledIsPending
  BY <1>1 DEF IInv, LoadingIsPending, StalledIsPending
<1> QED
  BY <1>1, Invariance, PTL
=============================================================================

------------------------------ MODULE SearchBox ------------------------------
(***************************************************************************)
(* The search dialog of the documentation site (docs/js/docs.js): the      *)
(* autocomplete store, its requests and what the dialog displays.          *)
(*                                                                         *)
(* One event handler with the promise callbacks it sets off (microtasks)   *)
(* is one action: no other handler runs in between, and the dialog is      *)
(* painted at its end.  A search for the empty query only reads the        *)
(* history and ends inside the handler that starts it; any other search    *)
(* ends when the network answers.  Requests are numbered as they start,    *)
(* by the counter that all dialogs of a page share.                        *)
(***************************************************************************)
EXTENDS Integers, FiniteSets

CONSTANTS
    Queries,      \* the texts that may be typed, besides none
    Empty,        \* no text
    MaxRequests,  \* bound on the searches of a page
    MaxDialogs,   \* bound on the number of times the dialog is opened
    MaxHits       \* bound on the hits of a search

ASSUME SearchBoxOK == /\ Empty \notin Queries
                      /\ MaxRequests \in Nat /\ MaxDialogs \in Nat /\ MaxHits \in Nat \ {0}

VARIABLES
    open, inst,   \* is the dialog open, and how often it was opened
    mounted,      \* the effects of its first rendering have run
    query, collections, isOpen, active, status,  \* the store of the dialog
    request,      \* what is known of each request of the page
    newest,       \* the number of the last request that was started
    latest,       \* the newest request that was answered, 0 before the first
    timer,        \* the request whose start set the running stall timer, or 0
    screen        \* what the list of hits displays

store == <<query, collections, isOpen, active, status>>
vars  == <<open, inst, mounted, store, request, newest, latest, timer, screen>>

Requests == 1 .. MaxRequests
Hits     == 0 .. MaxHits
NoItem   == -1   \* activeItemId = null
Active   == NoItem .. MaxHits - 1

(***************************************************************************)
(* `opens` is nextState.isOpen, "auto" where the caller gives none; `key`  *)
(* the arrow key that is applied when the request is done.                 *)
(***************************************************************************)
RequestRecord ==
    [state : {"unused", "pending", "done", "failed", "cancelled", "late"},
     query : Queries \cup {Empty}, inst : Nat,
     opens : {"auto", "open", "closed"}, key : {"none", "down", "up"}, hits : Hits]
NewRequest(st, q, o, k, n) ==
    [state |-> st, query |-> q, inst |-> inst, opens |-> o, key |-> k, hits |-> n]
Unused == [state |-> "unused", query |-> Empty, inst |-> 0,
           opens |-> "auto", key |-> "none", hits |-> 0]

CollectionsRecord == [from : 0 .. MaxRequests, hits : Hits]
NoCollections     == [from |-> 0, hits |-> 0]

Kinds        == {"start", "results", "noResults"}
ScreenRecord == [kind : Kinds, query : Queries \cup {Empty},
                 from : 0 .. MaxRequests, hits : Hits, active : Active]
Screen(q, c, a) ==
    [kind |-> IF q = Empty THEN "start" ELSE IF c.hits = 0 THEN "noResults" ELSE "results",
     query |-> q, from |-> c.from, hits |-> c.hits, active |-> a]

\* Faulty: the list is rendered again at the first of a query's answers only.
RenderOnce ==
    screen' = IF status' = "idle" /\ (screen.query # query' \/ screen.from = 0)
              THEN Screen(query', collections', active') ELSE screen

(***************************************************************************)
(* The list is not rendered again while the status is loading or stalled.  *)
(***************************************************************************)
Render ==
    screen' = IF status' = "idle" THEN Screen(query', collections', active') ELSE screen

TypeOK ==
    /\ open \in BOOLEAN /\ inst \in 0 .. MaxDialogs /\ mounted \in BOOLEAN
    /\ query \in Queries \cup {Empty} /\ collections \in CollectionsRecord
    /\ isOpen \in BOOLEAN /\ active \in Active /\ status \in {"idle", "loading", "stalled"}
    /\ request \in [Requests -> RequestRecord]
    /\ newest \in 0 .. MaxRequests /\ latest \in 0 .. MaxRequests
    /\ timer \in 0 .. MaxRequests /\ screen \in ScreenRecord

Init ==
    /\ open = FALSE /\ inst = 0 /\ mounted = FALSE
    /\ query = Empty /\ collections = NoCollections
    /\ isOpen = FALSE /\ active = NoItem /\ status = "idle"
    /\ request = [r \in Requests |-> Unused]
    /\ newest = 0 /\ latest = 0 /\ timer = 0
    /\ screen = Screen(Empty, NoCollections, NoItem)

-----------------------------------------------------------------------------
(***************************************************************************)
(* Pieces of the handlers.                                                 *)
(***************************************************************************)

\* The next item in direction d, round the end of a list of n items.
NextItem(d, a, n) ==
    IF n = 0 THEN NoItem
    ELSE IF d = -1 /\ a <= 0 THEN n - 1
    ELSE IF a + d < n THEN a + d ELSE 0

\* The panel opens if it has items, unless the caller has decided.
PanelOpen(o, n) == IF o = "auto" THEN n > 0 ELSE o = "open"

\* The active item after the arrow key a request was started by.
AfterKey(k, a, n) ==
    IF k = "down" THEN 0 ELSE IF k = "up" THEN NextItem(-1, a, n) ELSE a

Opening == IF isOpen THEN "open" ELSE "closed"

\* Faulty: every answer is taken, the last to arrive wins.
WinnerIsLast(r) == r

\* An answer older than the newest answer is replaced by that one.
Winner(r) == IF latest > r THEN latest ELSE r

\* A search for q, up to the call of the network.
Begin(q, o, k) ==
    /\ newest < MaxRequests
    /\ newest' = newest + 1 /\ timer' = newest + 1
    /\ request' = [request EXCEPT ![newest + 1] = NewRequest("pending", q, o, k, 0)]
    /\ query' = q /\ active' = 0 /\ status' = "loading"
    /\ UNCHANGED <<collections, latest>>

\* A search for the empty query: the recent and favourite searches, at once.
AtOnce(o, k) ==
    \E n \in Hits :
        /\ newest < MaxRequests
        /\ newest' = newest + 1 /\ latest' = newest + 1 /\ timer' = 0
        /\ request' = [request EXCEPT ![newest + 1] = NewRequest("done", Empty, o, k, n)]
        /\ query' = Empty /\ status' = "idle"
        /\ collections' = [from |-> newest + 1, hits |-> n]
        /\ isOpen' = PanelOpen(o, n) /\ active' = AfterKey(k, 0, n)

\* refresh(), then focus() of an input that had not the focus: two searches.
RefreshAndFocus(q) ==
    /\ newest + 2 <= MaxRequests
    /\ newest' = newest + 2 /\ timer' = newest + 2
    /\ request' = [request EXCEPT
           ![newest + 1] = NewRequest("pending", q, Opening, "none", 0),
           ![newest + 2] = NewRequest("pending", q, "auto", "none", 0)]
    /\ query' = q /\ active' = 0 /\ status' = "loading"
    /\ isOpen' = (collections.hits > 0)
    /\ UNCHANGED <<collections, latest>>

\* pendingRequests.cancelAll(): each one's last callback still runs.
Pending == {r \in Requests : request[r].state = "pending" /\ request[r].inst = inst}

\* Faulty: only the last request is cancelled.
CancelLast == Pending \cap {newest}

Cancel == Pending

CancelAll ==
    /\ request' = [r \in Requests |->
           IF r \in Cancel THEN [request[r] EXCEPT !.state = "cancelled"] ELSE request[r]]
    /\ IF Pending = {} THEN UNCHANGED <<status, timer>> ELSE status' = "idle" /\ timer' = 0

\* The dialog is taken away, and its store with it.
Leave ==
    /\ open' = FALSE /\ mounted' = FALSE
    /\ query' = Empty /\ collections' = NoCollections
    /\ isOpen' = FALSE /\ active' = NoItem /\ status' = "idle"
    /\ screen' = Screen(Empty, NoCollections, NoItem)
    /\ UNCHANGED <<inst, newest, latest>>

dialog == <<open, inst, mounted>>

-----------------------------------------------------------------------------
(***************************************************************************)
(* Opening and closing.                                                    *)
(***************************************************************************)

\* The button, Ctrl-K or "/"; or a letter, or with a text selected (q).
Open(q) ==
    /\ ~open /\ inst < MaxDialogs
    /\ open' = TRUE /\ inst' = inst + 1 /\ query' = q
    /\ UNCHANGED <<mounted, collections, isOpen, active, status,
                   request, newest, latest, timer, screen>>

\* The effects after the first rendering: focus, or search for the initial text.
Mount ==
    /\ open /\ ~mounted
    /\ mounted' = TRUE
    /\ IF query = Empty THEN AtOnce("auto", "none") ELSE RefreshAndFocus(query)
    /\ Render
    /\ UNCHANGED <<open, inst>>

\* Escape cancels the searches of the dialog before it goes.
Escape ==
    /\ open
    /\ request' = [r \in Requests |->
           IF r \in Cancel THEN [request[r] EXCEPT !.state = "cancelled"] ELSE request[r]]
    /\ timer' = IF Pending = {} THEN timer ELSE 0
    /\ Leave

\* "Cancel", a click beside the dialog, Ctrl-K, or a click on a hit.
Close ==
    /\ open
    /\ UNCHANGED <<request, timer>>
    /\ Leave

(***************************************************************************)
(* The input and the keys.  The effects give the input its focus, and they *)
(* run before any other event reaches the dialog.                          *)
(***************************************************************************)
Ready == open /\ mounted

Input(q) ==
    /\ Ready /\ q # query
    /\ IF q = Empty THEN AtOnce("auto", "none")
                    ELSE Begin(q, "auto", "none") /\ UNCHANGED isOpen
    /\ Render
    /\ UNCHANGED dialog

Focus ==
    /\ Ready
    /\ IF query = Empty THEN AtOnce("auto", "none")
                        ELSE Begin(query, "auto", "none") /\ isOpen' = (collections.hits > 0)
    /\ Render
    /\ UNCHANGED dialog

\* "Clear the query", followed by the focus of the input.
Reset ==
    /\ Ready /\ query # Empty
    /\ AtOnce("auto", "none")
    /\ Render
    /\ UNCHANGED dialog

\* In an open panel the arrows move; else they search first.
Arrow(d, k) ==
    /\ Ready
    /\ \/ /\ isOpen
          /\ active' = NextItem(d, active, collections.hits)
          /\ UNCHANGED <<query, collections, isOpen, status, request, newest, latest, timer>>
       \/ /\ ~isOpen /\ query = Empty
          /\ AtOnce("auto", k)
       \/ /\ ~isOpen /\ query # Empty
          /\ Begin(query, "auto", k) /\ UNCHANGED isOpen
    /\ Render
    /\ UNCHANGED dialog

\* Enter on an item selects it and closes; without an item it cancels.
NothingToEnter == active = NoItem \/ collections.hits = 0
Enter ==
    /\ Ready /\ ~NothingToEnter /\ active < collections.hits
    /\ UNCHANGED <<request, timer>>
    /\ Leave

EnterNothing ==
    /\ Ready /\ NothingToEnter
    /\ CancelAll
    /\ UNCHANGED <<query, collections, isOpen, active, newest, latest>>
    /\ Render
    /\ UNCHANGED dialog

\* Tab, or a touch outside of the form and the list while something goes on.
Blur ==
    /\ Ready
    /\ isOpen' = FALSE /\ active' = NoItem
    /\ CancelAll
    /\ UNCHANGED <<query, collections, newest, latest>>
    /\ Render
    /\ UNCHANGED dialog

(***************************************************************************)
(* The list.                                                               *)
(***************************************************************************)

MouseMove(i) ==
    /\ Ready /\ screen.kind # "noResults" /\ i < screen.hits /\ i # active
    /\ active' = i
    /\ UNCHANGED <<query, collections, isOpen, status, request, newest, latest, timer>>
    /\ Render
    /\ UNCHANGED dialog

MouseLeave ==
    /\ Ready /\ active # 0
    /\ active' = 0
    /\ UNCHANGED <<query, collections, isOpen, status, request, newest, latest, timer>>
    /\ Render
    /\ UNCHANGED dialog

\* "Try searching for": sets the query, refreshes and focuses the input.
Prefill(q) ==
    /\ Ready /\ screen.kind = "noResults"
    /\ RefreshAndFocus(q)
    /\ Render
    /\ UNCHANGED dialog

\* A recent or favourite search was removed or moved.
Refresh ==
    /\ Ready /\ screen.kind = "start" /\ screen.hits > 0
    /\ IF query = Empty THEN AtOnce(Opening, "none")
                        ELSE Begin(query, Opening, "none") /\ UNCHANGED isOpen
    /\ Render
    /\ UNCHANGED dialog

-----------------------------------------------------------------------------
(***************************************************************************)
(* The network and the clock.                                              *)
(***************************************************************************)

Live(r) == open /\ request[r].inst = inst

\* Faulty: the end of a request leaves the stall timer running.
SettleKeepsTimer == status' = "idle" /\ UNCHANGED timer

\* Faulty: the end of a request leaves the loading state to the newest answer.
SettleBehind ==
    timer' = 0 /\ status' = IF latest' < newest THEN status ELSE "idle"

\* What the end of any request does to its store and to the shared timer.
Settle == status' = "idle" /\ timer' = 0

\* A dialog keeps the answers: a query has one number of hits as long as it is open.
Replies(r, n) ==
    \A s \in Requests :
        /\ request[s].state \in {"done", "late"}
        /\ request[s].inst = request[r].inst /\ request[s].query = request[r].query
        => request[s].hits = n

Answer(r, n) ==
    /\ request[r].state = "pending" /\ Live(r) /\ Replies(r, n)
    /\ request' = [request EXCEPT ![r].state = "done", ![r].hits = n]
    /\ latest' = Winner(r)
    /\ collections' = [from |-> Winner(r), hits |-> request'[Winner(r)].hits]
    /\ isOpen' = PanelOpen(request[r].opens, collections'.hits)
    /\ active' = AfterKey(request[r].key, active, collections'.hits)
    /\ Settle
    /\ UNCHANGED <<query, newest>>
    /\ Render
    /\ UNCHANGED dialog

\* An error status is replaced by "idle" before anything is painted.
Fail(r) ==
    /\ request[r].state = "pending" /\ Live(r)
    /\ request' = [request EXCEPT ![r].state = "failed"]
    /\ UNCHANGED <<query, collections, isOpen, active, newest, latest>>
    /\ Settle
    /\ Render
    /\ UNCHANGED dialog

\* The end of a request whose dialog is gone.
EndUnseen(r) ==
    /\ request[r].state = "pending" /\ ~Live(r)
    /\ \/ /\ \E n \in Hits : request' = [request EXCEPT ![r].state = "done", ![r].hits = n]
          /\ latest' = Winner(r)
       \/ /\ request' = [request EXCEPT ![r].state = "failed"]
          /\ UNCHANGED latest
    /\ timer' = 0
    /\ UNCHANGED <<dialog, store, newest, screen>>

\* The answer to a cancelled request is not shown, but it is remembered.
AnswerLate(r, n) ==
    /\ request[r].state = "cancelled" /\ Replies(r, n)
    /\ request' = [request EXCEPT ![r].state = "late", ![r].hits = n]
    /\ latest' = Winner(r)
    /\ UNCHANGED <<dialog, store, newest, timer, screen>>

\* stallThreshold after the start of a request.
Stall ==
    /\ timer # 0
    /\ timer' = 0
    /\ status' = IF Live(timer) THEN "stalled" ELSE status
    /\ UNCHANGED <<dialog, query, collections, isOpen, active, request, newest, latest>>
    /\ Render

User ==
    \/ \E q \in Queries \cup {Empty} : Open(q) \/ Input(q)
    \/ \E q \in Queries : Prefill(q)
    \/ Mount \/ Escape \/ Close \/ Focus \/ Reset \/ Enter \/ EnterNothing \/ Blur
    \/ Arrow(1, "down") \/ Arrow(-1, "up")
    \/ \E i \in Hits : MouseMove(i)
    \/ MouseLeave \/ Refresh

Ends(r) == (\E n \in Hits : Answer(r, n)) \/ Fail(r)

Next ==
    \/ User
    \/ \E r \in Requests : Ends(r) \/ EndUnseen(r) \/ \E n \in Hits : AnswerLate(r, n)
    \/ Stall

Spec     == Init /\ [][Next]_vars
FairSpec == Spec /\ \A r \in Requests : WF_vars(Ends(r))

-----------------------------------------------------------------------------
(***************************************************************************)
(* Properties.                                                             *)
(***************************************************************************)

\* The hits in a dialog never go back to those of an older search, in
\* whatever order the network answers (docs.js:2608).
NewestWins ==
    [][open /\ open' => collections'.from >= collections.from]_vars

\* Once the last search is answered, the list shows its hits under its query,
\* and says that there are none only if there are none - whatever was answered,
\* cancelled or failed before and after.
AnsweredIsShown ==
    newest > 0 =>
        LET last == request[newest]
        IN open /\ last.inst = inst /\ last.state = "done" =>
            /\ screen.from = newest /\ screen.query = last.query
            /\ (screen.kind = "noResults") = (last.hits = 0 /\ last.query # Empty)

\* The hits of a cancelled search are never shown, although its answer is
\* remembered and takes part in the comparison of answers (docs.js:2121).
CancelledStaysHidden ==
    \A r \in Requests :
        open /\ request[r].inst = inst /\ request[r].state \in {"cancelled", "late"}
            => collections.from # r /\ screen.from # r

\* The dialog says that the search stalls only while its last search is under
\* way: no timer of another search, or of another dialog, is left behind.
StalledIsPending ==
    open /\ status = "stalled" =>
        request[newest].state = "pending" /\ request[newest].inst = inst

\* Every search leaves the loading state, as the network client answers each
\* request in the end, if only with an error.
LoadingEnds == (open /\ status # "idle") ~> (~open \/ status = "idle")
=============================================================================

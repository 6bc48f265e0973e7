---------------------------- MODULE BrowserTabs ----------------------------
(***************************************************************************)
(* A browser with several tabs before the proxy (src/proxy.cpp,            *)
(* handle_connection): every page load starts a session of its own, whose  *)
(* answer sets the one cookie that all tabs share, unless its worker       *)
(* cannot be reached or closes without an answer; every other request is   *)
(* routed by the cookie it carries.  Sessions may be reaped at any time    *)
(* (see Proxy and WorkerManager for when they are).                        *)
(***************************************************************************)
EXTENDS Integers, FiniteSets

CONSTANTS
    Tabs,
    MaxLoads,     \* bound on the page loads
    MaxRequests   \* bound on the other requests under way

ASSUME BrowserTabsOK == MaxLoads \in Nat /\ MaxRequests \in Nat

VARIABLES
    loads,     \* the number of page loads so far
    waits,     \* the load each tab waits for, 0 for none
    load,      \* the state of each load; its number is its session's id
    page,      \* the load whose page each tab shows, 0 for none
    cookie,    \* tabler_sid, 0 before it is set
    arrivals,  \* the number of loads whose page has arrived, with its cookie
    arrived,   \* the place of each load among them, 0 for one that has not
    sessions,  \* the sessions the proxy can route to
    mail,      \* the other requests under way
    served     \* the last of them that was served

browserVars == <<loads, waits, load, page, cookie, arrivals, arrived, sessions, mail, served>>

NoLoad    == 0
Loads     == 1 .. MaxLoads
Request   == [page : Loads, cookie : Loads]
LoadState == {"unused", "sent", "started", "refused", "failed", "ended"}
Nothing   == [page |-> NoLoad, by |-> NoLoad]

BrowserTypeOK ==
    /\ loads \in 0 .. MaxLoads /\ waits \in [Tabs -> 0 .. loads] /\ page \in [Tabs -> 0 .. loads]
    /\ load \in [Loads -> LoadState]
    /\ cookie \in 0 .. loads /\ sessions \subseteq Loads /\ mail \subseteq Request
    /\ arrivals \in Nat /\ arrived \in [Loads -> 0 .. arrivals]
    /\ served \in [page : 0 .. loads, by : 0 .. loads]
    /\ \A t \in Tabs : page[t] # NoLoad => cookie # NoLoad

BrowserInit ==
    /\ loads = 0 /\ waits = [t \in Tabs |-> NoLoad] /\ page = [t \in Tabs |-> NoLoad]
    /\ load = [n \in Loads |-> "unused"] /\ cookie = NoLoad
    /\ arrivals = 0 /\ arrived = [n \in Loads |-> 0]
    /\ sessions = {} /\ mail = {} /\ served = Nothing

-----------------------------------------------------------------------------
(***************************************************************************)
(* The browser.                                                            *)
(***************************************************************************)

\* A first load, a reload or another app; the page stays until the answer.
Load(t) ==
    /\ loads < MaxLoads
    /\ loads' = loads + 1
    /\ waits' = [waits EXCEPT ![t] = loads + 1]
    /\ load' = [load EXCEPT ![loads + 1] = "sent"]
    /\ UNCHANGED <<page, cookie, arrivals, arrived, sessions, mail, served>>

\* An asset, a plot or the WebSocket of the page a tab shows.
Ask(t) ==
    /\ page[t] # NoLoad /\ Cardinality(mail) < MaxRequests
    /\ mail' = mail \cup {[page |-> page[t], cookie |-> cookie]}
    /\ UNCHANGED <<loads, waits, load, page, cookie, arrivals, arrived, sessions, served>>

-----------------------------------------------------------------------------
(***************************************************************************)
(* The proxy.                                                              *)
(***************************************************************************)

\* A page load starts a session, or no worker can be started (503).
Start(n) ==
    /\ load[n] = "sent"
    /\ \/ load' = [load EXCEPT ![n] = "started"] /\ sessions' = sessions \cup {n}
       \/ load' = [load EXCEPT ![n] = "refused"] /\ UNCHANGED sessions
    /\ UNCHANGED <<loads, waits, page, cookie, arrivals, arrived, mail, served>>

\* The session is there but its worker cannot be reached (502), or closes before
\* the head of its response has come (no answer).
Fail(n) ==
    /\ load[n] = "started"
    /\ load' = [load EXCEPT ![n] = "failed"]
    /\ UNCHANGED <<loads, waits, page, cookie, arrivals, arrived, sessions, mail, served>>

\* Faulty: only a browser without a cookie is given one.
CookieKept(n) == IF cookie = NoLoad THEN n ELSE cookie

\* The cookie of the browser once it has the answer to load n: Path=/.
CookieOf(n) == n

\* The page reaches the tab that waits for it, with the cookie.
ShowPage(t, n) ==
    /\ load[n] = "started"
    /\ page' = [page EXCEPT ![t] = n] /\ cookie' = CookieOf(n)
    /\ arrivals' = arrivals + 1 /\ arrived' = [arrived EXCEPT ![n] = arrivals + 1]

\* An error takes the place of the page, and sets no cookie.
ShowError(t, n) ==
    /\ load[n] \in {"refused", "failed"}
    /\ page' = [page EXCEPT ![t] = NoLoad]
    /\ UNCHANGED <<cookie, arrivals, arrived>>

\* No other tab is shown an answer, and none that waits for a later load.
Answer(n) ==
    /\ \E t \in Tabs :
           /\ waits[t] = n
           /\ waits' = [waits EXCEPT ![t] = NoLoad]
           /\ ShowPage(t, n) \/ ShowError(t, n)
    /\ load' = [load EXCEPT ![n] = "ended"]
    /\ UNCHANGED <<loads, sessions, mail, served>>

\* get_session(): the session of the cookie, or none ("Session expired").
Route(m) == IF m.cookie \in sessions THEN m.cookie ELSE NoLoad

Serve(m) ==
    /\ mail' = mail \ {m}
    /\ served' = [page |-> m.page, by |-> Route(m)]
    /\ UNCHANGED <<loads, waits, load, page, cookie, arrivals, arrived, sessions>>

\* The reaper, or the dashboard's stop.
Reap(n) ==
    /\ n \in sessions
    /\ sessions' = sessions \ {n}
    /\ UNCHANGED <<loads, waits, load, page, cookie, arrivals, arrived, mail, served>>

BrowserNext ==
    \/ \E t \in Tabs : Ask(t) \/ Load(t)
    \/ \E n \in Loads : Start(n) \/ Fail(n) \/ Answer(n) \/ Reap(n)
    \/ \E m \in mail : Serve(m)

BrowserSpec == BrowserInit /\ [][BrowserNext]_browserVars

-----------------------------------------------------------------------------
\* "Reload = fresh session" (README.md:112): whatever tabs load, reload and give
\* up, a page is never served by a session from before its own - only by its own,
\* by one whose page has come to the browser since, or by none at all.
NeverAnOlderSession ==
    served.by # NoLoad => arrived[served.by] >= arrived[served.page]
=============================================================================

# A verification project for tabler-server

`tabler-server` (C++, `src/src/`, 2300 lines) gives every browser session its
own R process and relays the browser's HTTP requests and WebSockets to it. The
repository also holds two documentation sites, which the server sends, with the
scripts that run in the reader's browser (`docs/js`, `docs-r/js`). This
directory holds a TLA+ specification of both, configurations that check it with
TLC, and theorems about it with proofs for TLAPS.

## 1. The system

```
 browser ──> Proxy (one detached thread per connection)
               │ ensure_session / get_session / conn_opened / conn_closed
               ▼
 admin ───> WorkerManager ──fork/kill/waitpid──> R worker process (worker.R)
 dashboard     ▲  mutex_: sessions_, ports_in_use_,      ▲
 stop/reload   │          the fields of Worker           │ connect 127.0.0.1:port
               └ reaper thread (every ~2 s)              └ Proxy relays here
 main(): signals, listeners, shutdown; docs servers (static files)

 a page of docs/:  search dialog ── search() ──> search client ──> hosts
                      │ recent and favourite searches          (HTTP)
                      ▼
                   localStorage, shared by the tabs of the site
 a page of docs-r/: menu search (index by fetch), theme and font size (localStorage)
```

| component | state | operations | what is hard | what makes it correct |
|---|---|---|---|---|
| **WorkerManager** `worker.cpp` | `sessions_`, `ports_in_use_`, fields of each `Worker`, `running_`; the worker processes | `ensure_session`, `get_session`, `kill_session`, `restart_session`, `conn_opened`, `conn_closed`, the reaper, `stop` | the mutex is released around `fork()`, the wait for the port and inside `restart_session`; admin, reaper, `stop` and other connections run in those gaps; processes crash, hang or ignore signals; port numbers have 16 bits | a port belongs to one session; no port and no process is lost; a start finds its own process; no session runs on a process that was told to end; every start returns; unused sessions go; `stop` returns |
| **Proxy** `proxy.cpp` | the local variables of each connection thread: request, sid, a `shared_ptr<Worker>`, two sockets | `handle_connection` | the `shared_ptr` outlives the session; the port may have a new owner; the connection is counted after it is made; one cookie for all tabs | a relayed connection ends at the process of its own session; a page is not served by an older session than its own |
| **Splice relay** `proxy.cpp:175` | two sockets, bytes under way | `poll`, `recv`, blocking `send` | one thread for both directions, half-closed connections, a response head awaited in between | bytes arrive complete and in order, and are counted when sent; no deadlock with ends that read |
| **HTTP parsing** `http.cpp` | a buffer | `read_head`, `parse_http_request`, `cookie`, `path` | cut of the stream by `recv`, limit | a head within the limit is read whole, whatever the cut |
| **Config** `config.cpp` | the `Config` record | `load` | defaults, casts to 16 bits | the documented line format; the port range |
| **Admin** `admin.cpp` | `cpu_samples_` | dashboard, `stats.json`, stop, reload | concurrent polls, unsigned differences | a share is one of an interval, unless its poll was overtaken |
| **Docs servers** `docs.cpp` | none | static files | path decoding | only files below the root |
| **main** `main.cpp` | `g_*` pointers, `running_` and `listen_fd_` of four listeners | signals, shutdown | handler, listener threads and joins; detached threads | a signal ends the server, in order |
| **R worker** `R/worker.R` | outside | boots, binds the port | outside the program | - |
| **Search dialog** `docs.js:2100-3811, 4184-4510, 5368-5684` | the autocomplete store, pending requests, one stall timer and one request counter per page | typing, keys, mouse, opening and closing; answers | answers in any order, of cancelled searches and of dialogs that are gone; the list is not drawn while something loads | the newest answered search is shown, under its query; no false stall; loading ends |
| **Search client** `docs.js:4609-5363` | caches of requests, responses and host statuses | `search`, retries over hosts | two searches in one chain, growing timeouts, two timers | one chain per query; every host is tried; a search ends, in bounded time |
| **Search history** `docs.js:4245-4603, 5368-5383` | two lists in `localStorage`, copies in each dialog | open, select, save, remove | tabs that write whole lists; buttons that act after a transition | the lists keep their form; what is shown is stored |
| **R documentation scripts** `docs-r/js` | index, displayed links; theme and font size | typing, buttons | index before or after typing; several tabs | a match can be reached in the menu; sizes stay in range |

`metrics.hpp` and `log.hpp` only count and print. `apps/` and the deployment
files hold no state of the running program. The repository has no tests.

## 2. Modules

| module | what it is |
|---|---|
| `WorkerManager` | the manager, its reaper, the threads that call it, and the processes |
| `SessionPorts` | abstract specification: what the manager promises about ports |
| `WorkerManagerInv`, `WorkerManagerProofs` | the regime of the theorems (`Calm`), the inductive invariant `IInv`; the theorems |
| `Proxy`, `ProxyProofs` | the connection threads on top of the manager (EXTENDS `WorkerManagerInv`): which process a connection ends at, and its traffic |
| `Shutdown`, `ShutdownProofs` | `main()`, the signal handler and the accept loops |
| `Relay`, `RelayProofs` | the bytes of one proxied connection |
| `HttpHead` | reading a head (`read_head_impl`) |
| `PortRange` | `allocate_port` with the width of its integers |
| `CpuSampler` | the CPU shares of `build_stats_json` |
| `BrowserTabs` | tabs, the shared cookie and what the proxy routes by it |
| `ServerPartsProofs` | the theorems of the four modules above |
| `SearchBox`, `SearchBoxProofs` | the search dialog |
| `Transporter`, `TransporterProofs` | the search client |
| `SearchService` | abstract specification: what the client promises to those who search |
| `SearchHistory` | recent and favourite searches |
| `MenuSearch`, `SiteSettings` | the scripts of `docs-r/` |
| `SiteProofs` | the theorems of the three modules above, and of `MCParts` |
| `MCWorkerManager`, `MCProxy`, `MCShutdown`, `MCRelay`, `MCParts` | instances, symmetry and views for TLC |

In the modules, a definition marked *Faulty* is a variant of the one after it, with
a mistake one could make in that code; each property is violated under one of
them (PROJECT.json says which).

### WorkerManager

*State.* `sessions` and `portsInUse` are `sessions_` and `ports_in_use_`.
`worker[w]` holds the fields of one `Worker` object; `pid` only says whether the
field is set, as the number is never compared. `proc[w]` is the process that
object forks: `none`, `booting`, `listening` on its port, `zombie`, `reaped` by
`waitpid`. `termed` are living processes that were sent SIGTERM. `thread[t]` is
a connection or admin thread with its local variables: `ensure` (about to enter
`ensure_session`), `fork`, `setpid`, `wait` (the three stretches of it outside
the lock), `held` (has a worker, not yet counted), `open` (between `conn_opened`
and `conn_closed`). `reaper`, `running` and `main` are the reaper thread,
`running_`, and the end of `main()`.

*Actions.* One critical section is one action, so the mutex is not a variable.

| code | action |
|---|---|
| page load in `handle_connection` | `PageLoad`, then `EnsureExisting`, `EnsureCreate` or `EnsureExhausted` (first critical section of `ensure_session`, the kill of a stale worker included), `Fork` or `ForkFail`, `SetPid`, `WaitOk` or `WaitTimeout` |
| any other request | `GetSession` |
| around the relayed connection | `ConnOpened`, `ConnClosed`; `Drop` when the connect fails |
| admin stop, reload | `KillSession`, `RestartSession` (kills, unlocks, then goes the way of `ensure_session`) |
| `reaper_loop` | `ReaperExit`, `ReaperCollect` (`waitpid`), `ReaperSweep` |
| `stop()`, end of `main()` | `Stop`, `Joined` |
| `worker.R` | `Bind`, `Exit` |
| the clock | `Tick` |

Two merges: the test of `running_` and `waitpid()` are one step
(`ReaperCollect`), because collecting zombies commutes with `stop()` and a
sweep after `stop()` finds an empty map; and the loop of 20 naps is one state,
so the reaper may sweep at any time, which includes every 2 s.

*Time.* The code only compares elapsed times with timeouts. A worker carries
the age of `last_active` (`idle`) and of `disconnected_at` (`down`), which stop
growing just past the timeout. `down` grows only while the worker is deserted
(`active_conns == 0 && ws_seen`): the code reads `disconnected_at` of such a
worker only, and every way to become deserted stamps it. A second may not pass
while a thread that could run is late by more than `SchedDelay` seconds.

*Processes.* A worker process may boot for ever, find its port taken and end,
crash (`Crashes`), end at once when signalled or later (`PromptExit`).
When no `shared_ptr` refers to a `Worker` any more the object is destroyed
(`Tick` resets it), and when its process is gone too it may be used again.

*Regime.* Four constants say what the environment may do, so that a run can
show what a property depends on:
`AdminScope` (which sessions the admin stops or reloads: none, those that are
up, any), `EarlyClients` (may a request name a session whose start has not
returned; a browser learns a new sid only afterwards, but knows the sid of a
session the admin reloads), `SidCollisions` (`random_sid()` returns an id in
use), `SchedDelay`.

*View.* `ProxyOwn`, `ManagerAny` and `ManagerSlow` compare states up to `View`: of a
worker nobody refers to only its living process matters (its port and whether it
was signalled), because `NewWorker` overwrites everything else.

### Proxy

`handle_connection` holds a `shared_ptr<Worker>` from the lookup to
`conn_closed`; `connect_loopback(worker->port)` comes first and `conn_opened`
after it. Two variables are added to the manager's: `backend[t]`, the process
that accepted thread `t`'s connection (whoever listens on the port), and
`quiet[t]`, the seconds since `t` relayed a byte. `Connect` and `Count` are the
two steps of the manager's "held" thread, `Refused` is the 502 answer, `Relay`
moves bytes, and `HangUp` ends the connection, for whatever reason, with
`conn_closed`. `Route` is everything up to the worker. All other steps are the
manager's own actions. `quiet` is a history variable: the code has no such field,
which is finding 3.

### Shutdown

`running`, `socket` and `loop` are `running_`, `listen_fd_` with the state of its
socket, and the place in `listen_and_serve()` of each listener; `known` says
which `g_` pointers are set; `main` and `handler` are the places in `main()` and in
each run of `on_signal`. `stop()` is two steps (`Mark`: `running_ = false`;
`Cut`: look at `listen_fd_` and shut the socket down), so every interleaving
with `socket`, `listen`, the test of `running_`, `accept` and `close` is there. A
`shutdown()` on a socket that does not listen yet does nothing, and on one that
listens it lasts. The handler is a thread of its own; running it inside the
thread it stops gives a subset of these behaviours. The program's end is a
stuttering step, so deadlock stays checked. Descriptor numbers, and so the reuse of a
closed one, are left out; `volatile` accesses are taken as ordered.

### Relay

`toProxy` and `fromProxy` are the socket buffers on the two sides of the proxy,
`Capacity` bytes each; `pc` is the place of the connection's thread: sending
`held` (`Put` takes what there is room for, as a blocking `send_all`), waiting
for the response head of a page load (`ReadAnswer`, `NoAnswer`), in `poll()`
(`Poll`), receiving from the sides it reported (`Recv`), closing. The ends send,
read, shut down or leave at any moment (`Send`, `Take`, `Finish`). A head and what
was read with it are two calls of `send_all` (`held` and, after it, `rest`), and `Sent` adds
the `size` of each call to the counter of its side, as the separate additions in the code
do. The worker answers when it has read `needs` bytes of the request, which is chosen at the
start, as is whether the request is a page load. A send fails only if the other
end has left. Bytes are numbered; the rewritten heads count as the
bytes they replace, as only order, loss and place matter.

### HttpHead, PortRange, CpuSampler, BrowserTabs

`HttpHead` keeps the sizes of the buffer and of what is returned; where the blank
line and the stream end is chosen at the start, and `AppendPiece(n)` is one
`recv()` of n bytes with the tests around it. `PortRange` takes 2^16 as a
constant; a session's port is allocated and released under the manager's mutex,
one action each. It says when `WorkerManager` may take the range for a set.
`CpuSampler` has the counters of `/proc`, two critical sections
per poll and the reading of the system's counters before them; `Pollers` are the polls that may
be under way at a time, of one dashboard or of several, as a page starts one every two seconds and
after each action, whether or not the last was answered; `System` is the key 0 of `cpu_samples_`,
the system's own sample, which is no worker's pid. In `BrowserTabs` a page load is
sent, starts its session or is refused, may fail although its session was started
(`Fail`: the worker cannot be reached, or closes without an answer), and is answered to the tab that still
waits for it; the page sets the cookie, an error does not; other requests carry the cookie of the
moment they are sent, and may be served in any order. `arrivals` and `arrived` are history variables:
they number the pages as they come.

### SearchBox

One event handler with the promise callbacks it sets off is one action: browsers
run those before the next event. The store (`query`, `collections`, `isOpen`,
`active`, `status`) is that of the open dialog, `inst` its number; `request[r]` is what is
known of the r-th search of the page, by the counter all dialogs share
(`newest`); `latest` is the newest that was answered; `timer` is the search whose start set
the running stall timer - one variable for the page, as in the code; `screen` is what
the list last displayed, which is not drawn while `status` is not `idle`.
`Open`, `Mount`, `Input`, `Focus`, `Reset`, `Arrow`, `Enter`, `EnterNothing`,
`Escape`, `Close`, `Blur`, `MouseMove`, `MouseLeave`, `Prefill` and `Refresh` are the
handlers; `Answer`, `Fail`, `EndUnseen`, `AnswerLate` and `Stall` the network and the clock. A
search for the empty query reads the history only and ends within its handler.
Two searches of one query end as two actions although the client would answer
both together: this only adds behaviours.

### Transporter and SearchService

`search[s]` is a call and its outcome, `waits[s]` the call whose chain it waits
for, `chain[s]` the loop over hosts that a call has started: its phase (waiting for the
head or the body), host, hosts tried, time-outs met and the age of its timer.
`requests` and `responses` are the caches, `notes` the cache of host statuses with the two different
keys the code uses (`ReadKey`, `WriteKey`). `Search` is a call; `Head`, `Answer`,
`Reject`, `Break` are events of the network, `Expire` a timer, `Tick` a unit of
time, which does not pass a timer that is due. `Within[n]`, which only a property
uses, is the longest that the first n hosts of a chain can take, `Patience` that of all. The code looks the statuses of the hosts up once per
chain (`docs.js:5141-5142`), the model at each host: no status is ever found, so this cannot be told apart. `SearchService` forgets hosts, chains and timers: those who wait for a
query get one outcome together, an answer is kept, a failure is not.

### SearchHistory, MenuSearch, SiteSettings

`storage` is what all tabs share, `fav`, `recent` and `limit` are the copies of
each open dialog, `armed` the buttons whose transition has not ended. With
`TakeTurns` no dialog is opened while another tab's is open. In `MenuSearch` the
texts of the site are chosen at the start: which links contain a term and which
pages of the index do; `Inside` says which file name is part of which url. `SiteSettings` has the settings of each
tab's page and the stored ones.

### MCParts

The seven small modules (`HttpHead`, `PortRange`, `CpuSampler`, `BrowserTabs`,
`SearchHistory`, `MenuSearch`, `SiteSettings`) share no state and no action; `MCParts` checks
them in one run, in which `part` says whose behaviour it is.

## 3. Runs

| run | question | result |
|---|---|---|
| `ManagerSlow` | late threads, `StartTimeout + 2 * SchedDelay = IdleTimeout` being the tightest case of the regime, crashes, and processes that go on after SIGTERM: who answers a start, whose process is told to end | holds |
| `ManagerAny` | everything allowed: types and the accounting of connections | holds |
| `ProxyOwn` | ports, processes, where connections end, and the refinement of `SessionPorts`: 2 sids, 2 workers, 2 threads, 2 ports, crashes, timeouts, admin on sessions that are up | holds |
| `ProxyLive` | liveness with any admin, crashes, browsers that retry and processes that ignore signals; one thread | holds |
| `ManagerStopStarting` | `PrivatePort` when the admin may stop a session that is starting, and its start then fails | violated: finding 1 |
| `ProxyStale` | `OwnBackend`: no thread ever relays to a stranger | violated: finding 2 |
| `ProxyIdle` | `ActiveIsSpared`: a session with traffic is not idle | violated: finding 3 |
| `ShutdownEnds` | a signal or a failed proxy ends the program, in order; two side listeners, one signal | holds |
| `Relay` | bytes and blocking: 4 bytes each way, buffers of 2, workers that answer after 0, 2 or 4 bytes | holds |
| `SearchDialog` | what is displayed, and that loading ends: 4 searches, 2 dialogs, 2 queries, with or without hits | holds |
| `SearchClient` | caches, hosts, timeouts and the refinement of `SearchService`: 2 searches, 2 queries, 2 hosts | holds |
| `Parts` | the seven small modules; two polls, two browser tabs | holds |

*What the properties say.* Manager: `PrivatePort`, `NoPortLeak`, `NoOrphan`,
`ImplementsPorts` (the refinement), `OwnListener` (what answers a start is its own
process or one that was told to end), `NoDyingSession` (nothing in the map or in a start runs on a
process that was told to end), `StartKeepsEntry`, `GraceSparesConnections`, `StartResolves`, `IdleReaped`,
`StopReturns`. Proxy: `CurrentBackend`, `DeadIsReaped`, and the refuted
`OwnBackend` and `ActiveIsSpared`. Shutdown: `ManagerStopsLast`, `ProgramEnds`
(a signal, or a proxy that cannot listen, ends the program). Relay: `Conserved`
(nothing lost, doubled, overtaken), `WholeAnswer` (an answer ended by its worker arrives
whole), `CountedIsSent` (each byte once, and after it is sent), `EveryByteArrives`. Dialog: `NewestWins`,
`AnsweredIsShown`, `CancelledStaysHidden`, `StalledIsPending`, `LoadingEnds`.
Client: `AskedOnce`, `EveryHostTried`, `GivesUpInTime`, `EverySearchEnds`,
`ImplementsService`. Parts: `PartsTypeOK` (types, limits of the lists, range of the sizes),
`HeadIsRead`, `PortIsOwn`, `ExhaustedMeansFull`, `SharesAreSound` (which differences cannot
wrap, however polls overlap), `NeverAnOlderSession` (a page's requests reach its own session, that of a
page which came later, or none), `ShownIsStored`, `SavedIsKept`, `MenusFit`. Each has a comment at its definition.

*Bounds.* Two workers and two threads are the smallest numbers in which one
actor's stale pointer can meet another's new session: one thread starts, the
other takes its place, the reaper or the admin acts in between. Two ports let a
port be freed, taken again and missed; one port is the exhausted pool.
`IdleTimeout` and `DisconnectGrace` are 1 and 0 where only "expired or not"
matters, and 3 and 0 in `ManagerSlow`, where `IdleTimeout` is compared with the length
of a start. With two sids there, the process that one session has left can answer the start of another;
it takes two minutes. Runs on one sid make every thread meet on it. `ProxyLive` has one
thread: with two, checking liveness takes far more than five minutes; two threads'
interleavings are what the safety runs are for. Apps differ only in `ManagerAny`,
the run that reaches the stale-session branch of `ensure_session`. The longest
race in `Shutdown` involves one handler, `main()` and one listener; the second
side listener adds the order of the joins. In `Relay` four bytes fill both
buffers of a direction (2 + 2), so each send can block; a response head of 2 comes in
one piece or two, with a rest or without. Four searches are an old answer, a newer one and one under way,
some of them of an earlier dialog, and suffice to search, find nothing and follow a suggestion, which
searches twice; whether there are hits matters, not how many. Two hosts and two searches let one chain fail over
while another of the same or of another query runs; timeouts of 1 and 2 keep the two apart.
In `Parts`, pieces of up to 3 bytes cut heads of 4 to 14 around a limit of 8 in every
way; ports have 4 bits and the range ends at the last one, so its last member is
the edge (a range that wraps is left to the theorem `PortsAreOwn`); two polls overtake each other within three
ticks; two tabs with three loads are a reload and another tab's page in between; three favourites and 2 or 3 recent searches are reached and overrun with
four items. Larger counts repeat these cases.

*Fairness.* `FairSpec` of `WorkerManager` gives weak fairness to the reaper and
to each thread inside `ensure_session` (`ProxyFairSpec` likewise): these are
running threads that wait for nothing but the mutex, which every critical
section releases. Clients, the admin, the operating system's processes and
signals owe nothing. `Tick` has strong fairness: time diverges, and since it
waits for late threads it may be disabled now and then, never for good. A
relayed connection may last for ever and a signalled process may live on; no
property needs them to end. `DeadIsReaped` leaves out a dead session whose port
another process answers on (`Impersonated`): its clients are relayed there, and it
lives as long as they come.
In `Shutdown`, `main()`, the handler and each accept
loop go on, except that `accept()` on an open socket may wait for ever. In
`Relay` the thread runs, both ends read what arrives, and the worker sends its
head once it has read what it needs; nobody has to send more or to leave. In `SearchBox` each
request of an open dialog ends, with an answer or an error, because that is
what `Transporter` shows of the client (`EverySearchEnds`); the stall timer owes
nothing. In `Transporter` time passes and a timer that is due fires; hosts owe nothing.

*Deadlock* is checked except where the system may stop: `Relay` (the connection
ends), `SearchDialog` and `SearchClient` (the searches and dialogs are
bounded), `Parts` (a head is read once; loads and ticks are bounded).

### Findings

1. *A session's port freed by someone else's failed start* (`worker.cpp:136-141`,
   run `ManagerStopStarting`). When `fork()` fails, the start releases its port and erases its sid without
   looking whether the map still holds its worker. The trace: a page load is given a port (`PageLoad`,
   `EnsureCreate`), the admin stops that session, which frees the port (`KillSession`), a second page load is
   given it (`PageLoad`, `EnsureCreate`), and the first one's `ForkFail` frees it again under the second. A start
   that times out instead (`worker.cpp:190`) releases the port in the same way; that takes more steps, so it is
   not the trace TLC shows. Needs an admin stop of a session that is starting.
2. *A request relayed to another session's process* (`proxy.cpp:333`,
   `ProxyStale`). The lookup and the connect are not one step; the session may be
   reaped and its port be given away in between. The window is short - a thread
   must be delayed for the start of an R process - but nothing closes it.
3. *A session in use is idle* (`worker.cpp:278`, `ProxyIdle`): `touch()` has no caller.

Seen while modelling, without a run of their own:

- a kill while `pid` is still -1 erases the entry and signals nothing: with
  `AdminScope = "any"`, `NoOrphan` does not hold (`worker.cpp:240`);
- a port is free once SIGTERM is sent, and `restart_session` gives it to the very next start: the wait for the
  port may connect to the process that is still shutting down, and the start returns before its own process
  listens, which `worker.hpp:63` ("waits until it accepts connections") does not say. `OwnListener` therefore
  admits that process, and no other;
- `waitpid()` collects the process of a session that has crashed while the session is still in the map, for up to two
  seconds before a sweep, or for as long as the session lives; a kill of that session then signals a pid the manager no
  longer owns (`worker.cpp:265`, `worker.cpp:241`). That this never happens cannot be a property: one crash breaks it;
- a range that wraps past the highest port contains port 0, which stands for "exhausted"
  and is marked for good (`worker.cpp:43`): `ExhaustedMeansFull` needs a
  range that does not;
- polls overlap, those of one dashboard too (`admin.cpp:328`, `admin.cpp:446`), and one that is overtaken computes
  differences of the system's counters that wrap (`admin.cpp:466`, 472, 504), against the comment of
  `admin.cpp:464`; the ticks of a worker that vanished between the list and the reading wrap as well. With two
  polls, "the system's share is one of its interval" is violated; `SharesAreSound` says what remains;
- `README.md:120-121` says that two tabs of one app "currently share one
  worker/session"; each page load starts a session of its own, and what they share is the cookie:
  the first tab's later requests go to the second tab's session (`proxy.cpp:304`). With two tabs, "a page is served by
  its own session" is violated; `NeverAnOlderSession` says what remains;
- the dialog can say "No results for" a query that was never answered: after the search is
  cancelled, or fails, the query is new and the collections are those of
  an older one (`docs.js:4190`, `docs.js:4503`);
- while a search is under way Enter takes the active item of a list that is not drawn
  as it is (`docs.js:4503`), and on an active item beyond the end of a list that
  got shorter it throws (`docs.js:3629`);
- the status of a failed host is stored under a key with its date, which is never
  looked up again: the next search tries the failed host first, and the entries pile up
  in `localStorage` (`docs.js:5034`, `docs.js:5117`, `docs.js:4650`);
- with dialogs open in two tabs the later write drops a favourite that the other
  saved (`docs.js:4588`): `SavedIsKept` and `ShownIsStored` need `TakeTurns`;
- an index that arrives after a term was typed is not applied to it (`search.js:18`), and a
  page matches every link whose file name is part of its url
  (`search.js:57`): `p.html` matches `tablerApp.html`.

## 4. Theorems

All are proved for every value of the constants, from the assumptions the modules
name (`ConstantsOK`, `SearchBoxOK` ...). Every safety property that a passing run checks is one of
them. Those marked C also assume `Calm`: the admin leaves starting
sessions alone, no sid collides, and a start, with its thread's delay, does not
outlast `idle_timeout` - nor `disconnect_grace` if clients can reach a session
that is starting. Other hypotheses are named beside the theorem; each is met by the
run that checks the property.

| theorem | states |
|---|---|
| `TypeCorrect` | `[]TypeOK` of the manager |
| `Inductive` C | `[]IInv` |
| `PortsArePrivate` C | `[]PrivatePort` |
| `PortsAreReturned` C | `[]NoPortLeak` |
| `ProcessesAreReachable` C | `[]NoOrphan` |
| `StartsAreLeftAlone` C | `[]StartKeepsEntry` |
| `StartsMeetTheirOwn` C | `[]OwnListener` |
| `SessionsAreNotDying` C | `[]NoDyingSession` |
| `ConnectionsAreCounted` | `[]CountInv`: `active_conns` is the number of threads that relay |
| `GraceIsSafe` | `GraceSparesConnections` |
| `PortsRefined` C | `Spec => Ports!Spec` |
| `SessionsArePrivate` C, `PromptExit` | `ProxySpec => []CurrentBackend` |
| `ShutdownOrder`, `ShutdownTypeOK` | `[]ManagerStopsLast` and the types of `Shutdown`, for any listeners and signals |
| `RelayTypes`, `RelayInductive` | `[]TypeOK` and `[]RInv` of the relay |
| `BytesAreConserved`, `AnswersAreWhole`, `CountsAreOfSentBytes` | `[]Conserved`, `[]WholeAnswer`, `[]CountedIsSent`, for any heads, buffers and answers |
| `SearchTypeOK`, `SearchNewestWins`, `SearchAnsweredIsShown`, `SearchCancelledStaysHidden`, `SearchStalledIsPending` | the types and safety properties of the dialog |
| `ClientTypeOK`, `ClientAskedOnce`, `ClientPromiseIsPending`, `ClientEveryHostTried` | the types and safety properties of the client |
| `ClientGivesUpInTime` | `[]GivesUpInTime`, for any hosts and timeouts |
| `ClientImplementsService` | `Spec => Service!ServiceSpec` |
| `HeadTypeHolds`, `HeadReadWhole` | the types of the reader, `[]HeadIsRead` |
| `PortTypeHolds`, `PortsAreOwn` | the types of the range, `[]PortIsOwn`, whatever wraps |
| `PortsExhaustedMeansFull`, if `NoWrap` | `[]ExhaustedMeansFull` |
| `BrowserTypeHolds` | the types of the tabs, for any number of them |
| `BrowserNeverOlder` | `[]NeverAnOlderSession`, for any number of tabs |
| `CpuTypeHolds`, `CpuSharesAreSound` | the types of the counters and `SharesAreSound`, for any number of polls under way |
| `HistoryTypeHolds` | the types of the lists, for any tabs |
| `ListsHold`, `HistoryShownIsStored`, `HistorySavedIsKept`, if `TakeTurns` | `[]ListsOK`, `[]ShownIsStored`, `SavedIsKept` |
| `MenuFits`, `SettingsTypeHolds` | `[]MenusFit`; theme and size keep their range |
| `PartsAreParts` | `PartsSpec` implies the specification of each small module |
| `PartsTypes`, if `TakeTurns` | `[]PartsTypeOK` |

*Manager.* `PrivatePort` is not inductive: `kill_worker` frees the port its
`Worker` remembers, so one must know that whoever calls it holds a worker that
is still the one in the map. `KeyInv` says the map is keyed by the workers' own
sids and that no two threads start the same sid; `StartKeepsEntry` that a
session that is starting keeps its entry. The reaper is the only one that could
take it, so `StartInv` bounds the age of a starting worker by the time its
thread has spent, and that by `LongestStart`. `PidInv` says a worker that can be
killed can be signalled, which with the rest gives `NoOrphan`. `PortInv` makes
ports private among sessions, starts and the
living processes that were not told to end. `Init => IInv`, one lemma per action (or per part of the
invariant and action), and PTL give `Inductive`.

`OwnListener` is then one step: two workers that own a port do not share it. `NoDyingSession` does
not follow from `IInv`, which says nothing of who is signalled; `DyingInv` adds that those told to end still live.
Its step goes by action: whoever signals a worker takes that worker's entry out of the map (`KillSpares`), and
`KeyInv` with `StartKeepsEntry` says that it is no other thread's start. Neither theorem assumes anything of how soon a
process ends or whether it crashes. `CountInv` needs no regime: it equates `active_conns` with the number of threads
that relay (`Counted`), through restarts and kills, until the end of `main()` ends the threads;
with it `GraceSparesConnections` is about one step.

With the default configuration (`idle_timeout` 300, `worker_start_timeout` 20,
`disconnect_grace` 15) the second half of `Calm` holds as long as no client
reaches a session that is starting; after an admin reload the browser's open tab
does know the sid, and 15 < 20.

*Proxy.* Every step of the proxy is a step of the manager or leaves
it alone, so `IInv` holds; a thread that refers to a worker keeps that object
from being entered into the map again (`NeverRelisted`), and as long as the
worker is listed `PortInv` makes it the only owner of its port.

*Shutdown.* `ShutdownOrder` follows from `JoinInv`: the listeners before the one
`main()` is at have left, and a thread that has left makes no step.
`ShutdownTypeOK` needs `TInv`: a listener that is not launched yet has no socket, and the
places of `main()` and the handlers stay within their lists.

*Relay.* `Flowing` lays the bytes of each direction in a row, from the reader back to the
sender; a step moves a byte or a piece along the row, and lemmas on concatenation say that
the row stays the same. `ThreadInv` says when the thread holds bytes at all.
`WholeAnswer` is about the end, where `Conserved` says nothing any more, so `EndInv` remembers
why the thread left the loop: with the client there and silent, only the end of
the worker's bytes does that. `CountInv` says by how much the count of the direction that is being sent on
lags behind: what `send_all` has sent of its `size` bytes so far. When all is sent, the addition makes up for exactly that.

*Dialog.* None of its properties is inductive. `IInv` adds that requests are numbered
as they start (`Numbered`) and belong to the dialogs of their time (`Owned`), that a
cancellation hits all of them (`CancelsAll`), that the timer belongs to the last
request while that is under way (`TimerIsNewest`), that the status is loading or stalled only then
(`LoadingIsPending`), that the collections are those of the newest answered request of this dialog (`Held`), and
what the list shows of them (`Shown`, `LastQuery`); a closed dialog holds nothing (`Closed`).

*Client.* `IInv` says that a promise is in the cache exactly while its chain runs
(`KeptIsRunning`, `RunningIsKept`), that those who wait, wait for one
(`PromiseIsPending`), that no status is ever found again, so all hosts count as up
(`AllUp`, the deviation named in section 3), and that a
chain has met at most as many time-outs as it tried hosts before (`SlowIsTried`). With
it each step is a step of `SearchService` or stutters. For `GivesUpInTime`, `Behind(s)` is what a
chain can have taken so far: the whole timeouts of the hosts it has given up, and of the present
host the timer that runs and the one before it. `TimeInv` says that no timer
is overdue (`NoneOverdue`) and that whoever waits for a chain has waited no longer than that
(`WaitedIsBehind`), also one who joined it late; a chain that goes on or turns to
the body only adds to it, and it stays below `Within` of the hosts tried (`BehindIs`).

*Small parts.* `HInv` and `PInv` are the properties with the types; `NoWrap` adds
that only the ports of sessions are marked. `CookieIsLast` says that the cookie is that of the last page to arrive, so that a request carries one which is no
older than its page. `SamplesAreOld` says that what is
kept of a worker's ticks was read before what is read next, and that idle time and ticks grow no
faster than the clock: then no difference of a worker's ticks wraps, as they are read and replaced under one lock; one of
the system's counters does not if the poll was not overtaken. `TurnsInv` says that there is one open dialog and that its lists are the
stored ones, distinct and disjoint (`StoredOK`); lemmas say what `Add`, `Without` and `Slice` do to
such lists. `SizesInv` holds the even sizes from 12 to 24, which the tests of the two
buttons keep within the range. `PartsAreParts` ties the joint run of these modules to their own
specifications.

*Definitions by recursion.* `Within` and `Without` are recursive functions. What the
proofs need of them (that they exist, their equations, and that the sums grow) is shown by the least number for which it would fail, which exists because `<` on
the naturals is well-founded (`LeastExists`, `LeastNumber`); no induction theorem is used.

*Only model-checked:* liveness, because TLAPS has no rules for fairness: `StartResolves`,
`IdleReaped`, `StopReturns`, `DeadIsReaped`, `ProgramEnds`, `EveryByteArrives`, `LoadingEnds`,
`EverySearchEnds`. The three findings are counterexamples and stay with TLC, too.

## 5. Not modelled

- Descriptors: `fork()` without CLOEXEC (`worker.cpp:135`), exhaustion at
  `accept()` (`proxy.cpp:257`), `shutdown()` on a number that another thread has reused
  (`main.cpp:127`). What goes wrong there depends on the kernel's choice of
  numbers and on processes outside the program; no line of the repository says what
  should happen.
- Text: the line grammar of `config.cpp`, `parse_http_request`, cookies and the rewriting of heads
  (`http.cpp`), `decode_path` and `safe_join` (`docs.cpp`), the dashboard's HTML, logging, the
  content of responses. They keep no state; their subject is characters, of which
  TLC would see a few short examples.
- In `docs.js`: Preact and its hooks, polyfills, the wire format of requests, the insights
  plugin (not configured on this site), labels and scrolling, and the screen for errors, which is not
  reached because a failed search ends in the idle state with its old hits.
  `footer.js` shows one fetched text; `tex-svg.js` is MathJax.
- Deployment files, example apps, style sheets, generated pages.
- Memory errors in detached threads after the end of `main()`, which are outside TLA+.
- `kill_worker()` may be passed a reference into the map node that it erases (`worker.cpp:115`, `worker.cpp:200`,
  `worker.cpp:211`) and uses it afterwards for its log line (`worker.cpp:246`). Between `fork()` and `exec` the child has the
  parent's signal handlers.
- The start of a session is not bounded from below: an R process may listen at once,
  which only adds behaviours.

What could come next: a restart that waits for the old process before it gives the port away, and the strict
form of `OwnListener` for it; the safety halves of the liveness properties, as a bound on the time of
a start or on the age of a session that is not used; `BrowserTabs` with
the manager's timeouts in place of its free `Reap`.

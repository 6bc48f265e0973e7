------------------------------- MODULE Relay -------------------------------
(***************************************************************************)
(* The bytes of one proxied connection (src/proxy.cpp): the request head   *)
(* and what was read beyond it, the wait for the response head of a page   *)
(* load, and the loop that splices both directions in one thread with      *)
(* blocking sends over bounded socket buffers.                             *)
(*                                                                         *)
(* The bytes an end sends are numbered from 1.  A head that is rewritten   *)
(* on its way counts as the bytes it replaces.                             *)
(***************************************************************************)
EXTENDS Integers, Sequences

CONSTANTS
    Needs,     \* how much a worker may read of a request before it answers
    ReqLen,    \* the request's head
    Lead,      \* the request's head and the bytes read with it
    HeadLen,   \* the response's head
    Total,     \* bound on the bytes each end sends
    Capacity,  \* of the buffers toward the proxy and away from it
    Chunk      \* the buffer of one recv()

Sides == {"client", "worker"}

ASSUME RelayOK ==
    /\ Lead \in Nat /\ ReqLen \in 1 .. Lead /\ Needs \subseteq Nat
    /\ HeadLen \in Nat \ {0} /\ Capacity \in Nat \ {0} /\ Chunk \in Nat \ {0}
    /\ Total \in [Sides -> Nat] /\ Lead <= Total["client"]

VARIABLES
    pageLoad,   \* is the request the page load of an app
    needs,      \* what its worker reads of it before it answers
    end,        \* of each side: "open", "shut" for writing, or "gone"
    sent,       \* the number of bytes it has sent
    toProxy,    \* what the proxy has not received of them yet
    fromProxy,  \* what the proxy has sent to it and it has not read yet
    got,        \* what it has read
    pc,         \* where the thread of the connection is
    ready,      \* the sides poll() has reported and that are still to be read
    from, held, \* the bytes send_all has still to send, and whose they are
    size,       \* how many it was called with
    rest,       \* the bytes to be sent on after them, with a call of their own
    answer,     \* what was read of the response while its head was awaited
    counted     \* bytes_in and bytes_out

ends  == <<end, sent, got>>
piece == <<from, held, size, rest>>
proxy == <<pc, ready, piece, answer, counted>>
kind  == <<pageLoad, needs>>
vars  == <<kind, ends, toProxy, fromProxy, proxy>>

Other(x)  == IF x = "client" THEN "worker" ELSE "client"
Bytes(n)  == [i \in 1 .. n |-> i]

\* A head of n bytes, and what was read with it.
HeadOf(s, n) == SubSeq(s, 1, n)
Beyond(s, n) == SubSeq(s, n + 1, Len(s))

Locations == {"send", "answer", "poll", "recv", "closing", "closed"}

\* The thread receives only from a side that poll() has reported.
TypeOK ==
    /\ pageLoad \in BOOLEAN /\ needs \in Needs
    /\ end \in [Sides -> {"open", "shut", "gone"}]
    /\ sent \in [Sides -> Nat]
    /\ toProxy \in [Sides -> Seq(Nat)] /\ fromProxy \in [Sides -> Seq(Nat)]
    /\ got \in [Sides -> Seq(Nat)]
    /\ pc \in Locations /\ ready \subseteq Sides
    /\ pc = "recv" => ready # {}
    /\ from \in Sides /\ held \in Seq(Nat) /\ size \in Nat /\ rest \in Seq(Nat)
    /\ answer \in Seq(Nat)
    /\ counted \in [Sides -> Nat]

\* The connection to the worker stands, and the request's head has been read.
Init ==
    /\ pageLoad \in BOOLEAN /\ needs \in Needs
    /\ end = [x \in Sides |-> "open"]
    /\ sent = [x \in Sides |-> IF x = "client" THEN Lead ELSE 0]
    /\ toProxy = [x \in Sides |-> <<>>] /\ fromProxy = [x \in Sides |-> <<>>]
    /\ got = [x \in Sides |-> <<>>]
    /\ pc = "send" /\ ready = {} /\ from = "client" /\ size = ReqLen
    /\ held = HeadOf(Bytes(Lead), ReqLen) /\ rest = Beyond(Bytes(Lead), ReqLen)
    /\ answer = <<>>
    /\ counted = [x \in Sides |-> 0]

-----------------------------------------------------------------------------
(***************************************************************************)
(* The ends.                                                               *)
(***************************************************************************)
Send(x) ==
    /\ end[x] = "open" /\ pc # "closed"
    /\ sent[x] < Total[x] /\ Len(toProxy[x]) < Capacity
    /\ x = "worker" => Len(got[x]) >= needs
    /\ sent' = [sent EXCEPT ![x] = @ + 1]
    /\ toProxy' = [toProxy EXCEPT ![x] = Append(@, sent[x] + 1)]
    /\ UNCHANGED <<kind, end, got, fromProxy, proxy>>

Take(x) ==
    /\ end[x] # "gone" /\ fromProxy[x] # <<>>
    /\ got' = [got EXCEPT ![x] = Append(@, Head(fromProxy[x]))]
    /\ fromProxy' = [fromProxy EXCEPT ![x] = Tail(@)]
    /\ UNCHANGED <<kind, end, sent, toProxy, proxy>>

\* An end that is gone reads no more.
Finish(x) ==
    /\ \/ end[x] = "open" /\ end' = [end EXCEPT ![x] = "shut"]
       \/ end[x] # "gone" /\ end' = [end EXCEPT ![x] = "gone"]
    /\ UNCHANGED <<kind, sent, got, toProxy, fromProxy, proxy>>

-----------------------------------------------------------------------------
(***************************************************************************)
(* The thread of the connection.                                           *)
(***************************************************************************)
AtEnd(x) == toProxy[x] = <<>> /\ end[x] # "open"

\* What one recv() returns of the bytes of x.
Received(x) ==
    SubSeq(toProxy[x], 1, IF Len(toProxy[x]) < Chunk THEN Len(toProxy[x]) ELSE Chunk)

Rest(x) == SubSeq(toProxy[x], Len(Received(x)) + 1, Len(toProxy[x]))

\* send_all: as much as there is room for, until all is sent.
Put ==
    LET y == Other(from)
    IN /\ pc = "send" /\ held # <<>>
       /\ Len(fromProxy[y]) < Capacity
       /\ fromProxy' = [fromProxy EXCEPT ![y] = Append(@, Head(held))]
       /\ held' = Tail(held)
       /\ UNCHANGED <<kind, ends, toProxy, pc, ready, from, size, rest, answer, counted>>

\* send() fails, sooner or later, once the other end is gone.
PutFails ==
    /\ pc = "send" /\ held # <<>> /\ end[Other(from)] = "gone"
    /\ pc' = "closing"
    /\ UNCHANGED <<kind, ends, toProxy, fromProxy, ready, piece, answer, counted>>

\* Faulty: only the last of a head and what was read with it is counted.
CountLast(x) == IF rest = <<>> THEN counted[x] + size ELSE counted[x]

\* The counter of the side x after a send_all that has sent everything.
Count(x) == counted[x] + size

\* Faulty: the other side is read although poll() did not report it.
ThenRecv == "recv"

\* After the request, a page load waits for the head of the response.
Then == IF pageLoad /\ answer = <<>> THEN "answer"
        ELSE IF ready # {} THEN "recv" ELSE "poll"

\* All is sent: it is counted, and what was read with a head follows it.
Sent ==
    /\ pc = "send" /\ held = <<>>
    /\ counted' = [counted EXCEPT ![from] = Count(from)]
    /\ \/ /\ rest # <<>>
          /\ held' = rest /\ size' = Len(rest) /\ rest' = <<>>
          /\ UNCHANGED pc
       \/ /\ rest = <<>>
          /\ size' = 0 /\ pc' = Then
          /\ UNCHANGED <<held, rest>>
    /\ UNCHANGED <<kind, ends, toProxy, fromProxy, ready, from, answer>>

\* Faulty: what was read beyond the head is forgotten.
Forgotten(a) == <<>>

\* What is sent after the head of the response.
Leftover(a) == Beyond(a, HeadLen)

\* The response head, with the cookie added to it, and what was read with it.
ReadAnswer ==
    /\ pc = "answer" /\ toProxy["worker"] # <<>>
    /\ answer' = answer \o Received("worker")
    /\ toProxy' = [toProxy EXCEPT !["worker"] = Rest("worker")]
    /\ IF Len(answer') < HeadLen THEN UNCHANGED <<pc, piece>>
       ELSE /\ pc' = "send" /\ from' = "worker" /\ size' = HeadLen
            /\ held' = HeadOf(answer', HeadLen) /\ rest' = Leftover(answer')
    /\ UNCHANGED <<kind, ends, fromProxy, ready, counted>>

NoAnswer ==
    /\ pc = "answer" /\ AtEnd("worker")
    /\ pc' = "closing"
    /\ UNCHANGED <<kind, ends, toProxy, fromProxy, ready, piece, answer, counted>>

\* Faulty: only the client is watched.
ReportedClient == {x \in {"client"} : toProxy[x] # <<>> \/ end[x] # "open"}

Reported == {x \in Sides : toProxy[x] # <<>> \/ end[x] # "open"}

Poll ==
    /\ pc = "poll" /\ Reported # {}
    /\ ready' = Reported /\ pc' = "recv"
    /\ UNCHANGED <<kind, ends, toProxy, fromProxy, piece, answer, counted>>

\* Faulty: a side that has hung up is not read any more.
EndsAtHangup(x) == end[x] # "open"

\* recv() says that the bytes of x have ended.
EndsAt(x) == AtEnd(x)

\* The client's bytes are read first; the first end of file ends both ways.
Recv ==
    LET x == IF "client" \in ready THEN "client" ELSE "worker"
    IN /\ pc = "recv"
       /\ ready' = ready \ {x}
       /\ \/ /\ EndsAt(x)
             /\ pc' = "closing"
             /\ UNCHANGED <<toProxy, from, held, size>>
          \/ /\ ~EndsAt(x)
             /\ held' = Received(x) /\ size' = Len(Received(x)) /\ from' = x
             /\ pc' = "send"
             /\ toProxy' = [toProxy EXCEPT ![x] = Rest(x)]
       /\ UNCHANGED <<kind, ends, fromProxy, rest, answer, counted>>

\* close() with bytes unread resets the connection: what that end has not read
\* yet may be lost.
Close ==
    /\ pc = "closing"
    /\ pc' = "closed"
    /\ \E kept \in [Sides -> 0 .. Capacity] :
           /\ \A x \in Sides : kept[x] <= Len(fromProxy[x])
           /\ \A x \in Sides : toProxy[x] = <<>> => kept[x] = Len(fromProxy[x])
           /\ fromProxy' = [x \in Sides |-> SubSeq(fromProxy[x], 1, kept[x])]
    /\ UNCHANGED <<kind, ends, toProxy, ready, piece, answer, counted>>

Thread == Put \/ PutFails \/ Sent \/ ReadAnswer \/ NoAnswer \/ Poll \/ Recv \/ Close

Next == Thread \/ \E x \in Sides : Send(x) \/ Take(x) \/ Finish(x)
Spec == Init /\ [][Next]_vars

\* The ends read what arrives, and the worker answers a page load.
FairSpec ==
    /\ Spec /\ WF_vars(Thread)
    /\ \A x \in Sides : WF_vars(Take(x))
    /\ WF_vars(sent["worker"] < HeadLen /\ Send("worker"))

-----------------------------------------------------------------------------
(***************************************************************************)
(* Properties.                                                             *)
(***************************************************************************)

\* What was sent by x and is on its way, from the eldest byte on.
Underway(x) ==
    fromProxy[Other(x)] \o (IF from = x THEN held \o rest ELSE <<>>)
    \o (IF x = "worker" /\ pc = "answer" THEN answer ELSE <<>>) \o toProxy[x]

\* No byte is lost, doubled or overtaken, in either direction: what was read and
\* what is on its way are what was sent, until the connection ends.
Conserved ==
    pc \notin {"closing", "closed"} => \A x \in Sides : got[Other(x)] \o Underway(x) = Bytes(sent[x])

\* If the worker is the one to end the connection, nothing of its answer is
\* lost, unless the client was still sending.
WholeAnswer ==
    /\ pc = "closed" /\ end["client"] = "open"
    /\ toProxy["client"] = <<>> /\ end["worker"] # "open" /\ held = <<>>
    /\ (pageLoad => Len(answer) >= HeadLen)
    => got["client"] \o fromProxy["client"] = Bytes(sent["worker"])

\* The bytes x has got through the proxy so far.
Forwarded(x) == Len(got[Other(x)]) + Len(fromProxy[Other(x)])

\* The statistics count a byte no sooner than it is sent on; and whenever the
\* thread is back at poll(), or leaves with nothing unsent, they have counted each
\* byte once, whether it came through the splice, in a head or along with one.
CountedIsSent ==
    \A x \in Sides :
        /\ pc # "closed" => counted[x] <= Forwarded(x)
        /\ pc = "poll" \/ (pc = "closing" /\ held = <<>>) => counted[x] = Forwarded(x)

\* As long as both ends read, neither blocks the thread for good: every byte
\* arrives, or the connection is closed.  Of a page load the worker must not wait
\* for more than was read with the head: the thread waits for its answer first.
EveryByteArrives ==
    \A x \in Sides : \A i \in 1 .. Total[x] :
        (pageLoad => needs <= Lead) /\ sent[x] >= i ~>
            Len(got[Other(x)]) >= i \/ pc = "closed"
=============================================================================

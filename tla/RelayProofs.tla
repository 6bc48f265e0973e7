---------------------------- MODULE RelayProofs ----------------------------
(***************************************************************************)
(* Theorems about Relay: no byte of a connection is lost, doubled or       *)
(* overtaken, for heads, buffers and answers of any size.                  *)
(***************************************************************************)
EXTENDS Relay, SequenceTheorems, TLAPS

USE RelayOK DEF RelayOK

-----------------------------------------------------------------------------
(***************************************************************************)
(* Sequences.                                                              *)
(***************************************************************************)

LEMMA BytesType ==
  ASSUME NEW n \in Nat
  PROVE  /\ Bytes(n) \in Seq(Nat) /\ Len(Bytes(n)) = n
         /\ \A i \in 1 .. n : Bytes(n)[i] = i
BY DEF Bytes

LEMMA OneMoreByte ==
  ASSUME NEW n \in Nat
  PROVE  Bytes(n + 1) = Append(Bytes(n), n + 1)
<1>0. n + 1 \in Nat /\ Bytes(n) \in Seq(Nat) /\ Len(Bytes(n)) = n
      /\ \A i \in 1 .. n : Bytes(n)[i] = i
  <2>1. n + 1 \in Nat
    OBVIOUS
  <2> QED
    BY <2>1, BytesType
<1>1. /\ Append(Bytes(n), n + 1) \in Seq(Nat)
      /\ Len(Append(Bytes(n), n + 1)) = n + 1
      /\ \A i \in 1 .. n : Append(Bytes(n), n + 1)[i] = i
      /\ Append(Bytes(n), n + 1)[n + 1] = n + 1
  BY <1>0, AppendProperties
<1>2. /\ Bytes(n + 1) \in Seq(Nat) /\ Len(Bytes(n + 1)) = n + 1
      /\ \A i \in 1 .. n + 1 : Bytes(n + 1)[i] = i
  BY <1>0, BytesType
<1>3. \A i \in 1 .. n + 1 : Append(Bytes(n), n + 1)[i] = Bytes(n + 1)[i]
  BY <1>1, <1>2
<1> QED
  BY <1>1, <1>2, <1>3, SeqEqual

\* A byte that moves from the head of h to the end of f.
LEMMA MovedByte ==
  ASSUME NEW f \in Seq(Nat), NEW h \in Seq(Nat), h # <<>>
  PROVE  /\ Head(h) \in Nat /\ Tail(h) \in Seq(Nat)
         /\ Append(f, Head(h)) \in Seq(Nat)
         /\ Len(Append(f, Head(h))) = Len(f) + 1
         /\ Len(Tail(h)) = Len(h) - 1
         /\ Append(f, Head(h)) \o Tail(h) = f \o h
<1>1. Head(h) \in Nat /\ Tail(h) \in Seq(Nat) /\ Len(Tail(h)) = Len(h) - 1
  BY HeadTailProperties
<1>2. Len(h) \in Nat \ {0}
  BY EmptySeq
<1>3. h = <<h[1]>> \o SubSeq(h, 2, Len(h))
  BY <1>2, SubSeqRecursiveFirst, SubSeqFull
<1>4. Head(h) = h[1] /\ Tail(h) = SubSeq(h, 2, Len(h))
  BY <1>2, TailIsSubSeq
<1>5. h = <<Head(h)>> \o Tail(h)
  BY <1>3, <1>4
<1>6. /\ Append(f, Head(h)) = f \o <<Head(h)>> /\ <<Head(h)>> \in Seq(Nat)
      /\ Append(f, Head(h)) \in Seq(Nat) /\ Len(Append(f, Head(h))) = Len(f) + 1
  BY <1>1, AppendIsConcat, AppendProperties
<1>7. (f \o <<Head(h)>>) \o Tail(h) = f \o (<<Head(h)>> \o Tail(h))
  BY <1>1, <1>6, ConcatAssociative
<1> QED
  BY <1>1, <1>5, <1>6, <1>7

LEMMA ThreeInARow ==
  \A s, t, u \in Seq(Nat) : (s \o t) \o u = s \o (t \o u)
<1> SUFFICES ASSUME NEW s \in Seq(Nat), NEW t \in Seq(Nat), NEW u \in Seq(Nat)
             PROVE  (s \o t) \o u = s \o (t \o u)
  OBVIOUS
<1> QED
  BY ConcatAssociative, SMTT(30)

LEMMA MovedThrough ==
  ASSUME NEW f \in Seq(Nat), NEW h \in Seq(Nat), NEW u \in Seq(Nat), h # <<>>
  PROVE  Append(f, Head(h)) \o (Tail(h) \o u) = f \o (h \o u)
<1> DEFINE a == Append(f, Head(h))
           b == Tail(h)
<1>1. a \in Seq(Nat) /\ b \in Seq(Nat) /\ a \o b = f \o h
  BY MovedByte
<1> HIDE DEF a, b
<1>2. (a \o b) \o u = a \o (b \o u)
  BY <1>1, ThreeInARow
<1>3. (f \o h) \o u = f \o (h \o u)
  BY ThreeInARow
<1>4. a \o (b \o u) = f \o (h \o u)
  BY <1>1, <1>2, <1>3
<1> QED
  BY <1>4 DEF a, b

\* The same with two sequences in hand.
LEMMA PutThrough ==
  ASSUME held \in Seq(Nat), rest \in Seq(Nat), held # <<>>,
         NEW f \in Seq(Nat), NEW e \in Seq(Nat)
  PROVE  Append(f, Head(held)) \o ((Tail(held) \o rest) \o e) = f \o ((held \o rest) \o e)
<1> DEFINE a == Append(f, Head(held))
           t == Tail(held)
           u == rest \o e
           v == held \o rest
           w == t \o rest
<1>1. t \in Seq(Nat)
  BY MovedByte
<1>2. u \in Seq(Nat)
  BY ConcatProperties
<1>3. v \o e = held \o u
  BY ThreeInARow
<1>4. w \o e = t \o u
  <2> HIDE DEF t
  <2> QED
    BY <1>1, ThreeInARow
<1>5. a \o (t \o u) = f \o (held \o u)
  <2> HIDE DEF u
  <2> QED
    BY <1>2, MovedThrough
<1> HIDE DEF a, t, u, v, w
<1>6. a \o (w \o e) = f \o (v \o e)
  BY <1>3, <1>4, <1>5
<1> QED
  BY <1>6 DEF a, t, v, w

LEMMA AppendThrough ==
  ASSUME NEW s \in Seq(Nat), NEW t \in Seq(Nat), NEW e \in Nat
  PROVE  s \o Append(t, e) = Append(s \o t, e)
<1>1. <<e>> \in Seq(Nat) /\ s \o t \in Seq(Nat)
  BY ConcatProperties
<1> QED
  BY <1>1, AppendIsConcat, ConcatAssociative

LEMMA NotEmptied ==
  \A s \in Seq(Nat), e \in Nat : Append(s, e) # <<>>
<1> SUFFICES ASSUME NEW s \in Seq(Nat), NEW e \in Nat PROVE Append(s, e) # <<>>
  OBVIOUS
<1> QED
  BY AppendProperties

\* A sequence is its first n elements and what lies beyond them.
LEMMA HeadAndBeyond ==
  ASSUME NEW s \in Seq(Nat), NEW n \in 0 .. Len(s)
  PROVE  /\ HeadOf(s, n) \in Seq(Nat) /\ Len(HeadOf(s, n)) = n
         /\ Beyond(s, n) \in Seq(Nat)
         /\ HeadOf(s, n) \o Beyond(s, n) = s
<1>1. Len(s) \in Nat
  BY LenProperties
<1>2. \A i \in 1 .. Len(s) : s[i] \in Nat
  BY ElementOfSeq
<1>3. /\ SubSeq(s, 1, n) \in Seq(Nat) /\ Len(SubSeq(s, 1, n)) = n
      /\ SubSeq(s, n + 1, Len(s)) \in Seq(Nat)
  BY <1>1, <1>2, SubSeqProperties
<1>4. 1 \in 1 .. Len(s) + 1 /\ n \in 1 - 1 .. Len(s) /\ Len(s) \in n .. Len(s)
  BY <1>1
<1>5. SubSeq(s, 1, n) \o SubSeq(s, n + 1, Len(s)) = SubSeq(s, 1, Len(s))
  BY <1>4, ConcatAdjacentSubSeq
<1> QED
  BY <1>3, <1>5, SubSeqFull DEF HeadOf, Beyond

\* One recv() takes a prefix.
LEMMA ReceivedPrefix ==
  ASSUME NEW x \in Sides, toProxy[x] \in Seq(Nat)
  PROVE  /\ Received(x) \in Seq(Nat) /\ Rest(x) \in Seq(Nat)
         /\ Received(x) \o Rest(x) = toProxy[x]
<1> DEFINE s == toProxy[x]
           k == IF Len(s) < Chunk THEN Len(s) ELSE Chunk
<1>1. Len(s) \in Nat /\ k \in 0 .. Len(s)
  BY LenProperties
<1>2. /\ HeadOf(s, k) \in Seq(Nat) /\ Len(HeadOf(s, k)) = k
      /\ Beyond(s, k) \in Seq(Nat) /\ HeadOf(s, k) \o Beyond(s, k) = s
  BY <1>1, HeadAndBeyond
<1>3. Received(x) = HeadOf(s, k) /\ Rest(x) = Beyond(s, k)
  BY <1>2 DEF Received, Rest, HeadOf, Beyond
<1> QED
  BY <1>2, <1>3

-----------------------------------------------------------------------------
(***************************************************************************)
(* Types.                                                                  *)
(***************************************************************************)

LEMMA OtherSide == \A x \in Sides : Other(x) \in Sides /\ Other(x) # x /\ Other(Other(x)) = x
BY DEF Sides, Other

LEMMA ForwardedType ==
  ASSUME TypeOK, NEW x \in Sides
  PROVE  Forwarded(x) \in Nat
BY OtherSide DEF TypeOK, Forwarded

\* The request's head, and what was read with it.
LEMMA Request ==
  /\ HeadOf(Bytes(Lead), ReqLen) \in Seq(Nat) /\ Beyond(Bytes(Lead), ReqLen) \in Seq(Nat)
  /\ Len(HeadOf(Bytes(Lead), ReqLen)) = ReqLen
  /\ HeadOf(Bytes(Lead), ReqLen) \o Beyond(Bytes(Lead), ReqLen) = Bytes(Lead)
<1>1. Bytes(Lead) \in Seq(Nat) /\ ReqLen \in 0 .. Len(Bytes(Lead))
  BY BytesType
<1> QED
  BY <1>1, HeadAndBeyond

LEMMA TypeInit == Init => TypeOK
BY Request, EmptySeq DEF Init, TypeOK, Sides, Locations

LEMMA TypeStep ==
  ASSUME TypeOK, [Next]_vars
  PROVE  TypeOK'
<1> USE DEF vars, ends, proxy, piece, kind
<1>1. ASSUME NEW x \in Sides, Send(x) PROVE TypeOK'
  <2>1. Append(toProxy[x], sent[x] + 1) \in Seq(Nat)
    <3>1. sent[x] \in Nat /\ toProxy[x] \in Seq(Nat)
      BY DEF TypeOK
    <3>2. sent[x] + 1 \in Nat
      BY <3>1
    <3> QED
      BY <3>1, <3>2, AppendProperties
  <2>2. UNCHANGED <<pageLoad, needs, end, got, fromProxy, pc, ready, piece, answer, counted>>
    BY <1>1 DEF Send
  <2>3. sent' \in [Sides -> Nat]
    <3>1. sent \in [Sides -> Nat] /\ sent' = [sent EXCEPT ![x] = sent[x] + 1]
      BY <1>1 DEF Send, TypeOK
    <3> QED
      BY <3>1
  <2>4. toProxy' \in [Sides -> Seq(Nat)]
    BY <1>1, <2>1 DEF Send, TypeOK
  <2> QED
    BY <2>2, <2>3, <2>4 DEF TypeOK
<1>2. ASSUME NEW x \in Sides, Take(x) PROVE TypeOK'
  <2>1. /\ fromProxy[x] \in Seq(Nat) /\ fromProxy[x] # <<>> /\ got[x] \in Seq(Nat)
    BY <1>2 DEF Take, TypeOK
  <2>2. Append(got[x], Head(fromProxy[x])) \in Seq(Nat) /\ Tail(fromProxy[x]) \in Seq(Nat)
    BY <2>1, MovedByte
  <2> QED
    BY <1>2, <2>2 DEF Take, TypeOK
<1>3. ASSUME NEW x \in Sides, Finish(x) PROVE TypeOK'
  BY <1>3 DEF Finish, TypeOK
<1>4. CASE Put
  <2>1. /\ Other(from) \in Sides /\ held \in Seq(Nat) /\ held # <<>>
        /\ fromProxy[Other(from)] \in Seq(Nat)
    BY <1>4, OtherSide DEF Put, TypeOK
  <2>2. Append(fromProxy[Other(from)], Head(held)) \in Seq(Nat) /\ Tail(held) \in Seq(Nat)
    BY <2>1, MovedByte
  <2> QED
    BY <1>4, <2>1, <2>2 DEF Put, TypeOK
<1>5. CASE PutFails \/ NoAnswer
  BY <1>5 DEF PutFails, NoAnswer, TypeOK, Locations
<1>6. CASE Sent
  <2>1. Count(from) \in Nat /\ from \in Sides
    <3>1. counted[from] \in Nat /\ size \in Nat /\ from \in Sides
      BY DEF TypeOK
    <3> QED
      BY <3>1 DEF Count
  <2>2. Len(rest) \in Nat /\ rest \in Seq(Nat)
    BY LenProperties DEF TypeOK
  <2> QED
    BY <1>6, <2>1, <2>2, EmptySeq DEF Sent, Then, TypeOK, Locations
<1>7. CASE ReadAnswer
  <2>1. "worker" \in Sides /\ toProxy["worker"] \in Seq(Nat)
    BY DEF TypeOK, Sides
  <2>2. Received("worker") \in Seq(Nat) /\ Rest("worker") \in Seq(Nat)
    BY <2>1, ReceivedPrefix
  <2>3. answer' \in Seq(Nat)
    BY <1>7, <2>2, ConcatProperties DEF ReadAnswer, TypeOK
  <2> QED
    <3>1. CASE UNCHANGED <<pc, piece>>
      BY <1>7, <2>1, <2>2, <2>3, <3>1 DEF ReadAnswer, TypeOK, Locations
    <3>2. CASE Len(answer') >= HeadLen
      <4>1. HeadLen \in 0 .. Len(answer')
        BY <2>3, <3>2, LenProperties
      <4>2. HeadOf(answer', HeadLen) \in Seq(Nat) /\ Beyond(answer', HeadLen) \in Seq(Nat)
        BY <2>3, <4>1, HeadAndBeyond
      <4> QED
        BY <1>7, <2>1, <2>2, <2>3, <3>2, <4>2 DEF ReadAnswer, Leftover, TypeOK, Locations
    <3> QED
      BY <1>7, <2>3, <3>1, <3>2, LenProperties DEF ReadAnswer
<1>8. CASE Poll
  BY <1>8 DEF Poll, Reported, TypeOK, Locations
<1>9. CASE Recv
  <2> DEFINE x == IF "client" \in ready THEN "client" ELSE "worker"
  <2>1. x \in Sides /\ toProxy[x] \in Seq(Nat)
    BY DEF TypeOK, Sides
  <2>2. Received(x) \in Seq(Nat) /\ Rest(x) \in Seq(Nat)
    BY <2>1, ReceivedPrefix
  <2> HIDE DEF x
  <2>3. /\ ready' = ready \ {x} /\ UNCHANGED <<kind, ends, fromProxy, rest, answer, counted>>
        /\ \/ pc' = "closing" /\ UNCHANGED <<toProxy, from, held, size>>
           \/ /\ held' = Received(x) /\ size' = Len(Received(x)) /\ from' = x /\ pc' = "send"
              /\ toProxy' = [toProxy EXCEPT ![x] = Rest(x)]
    BY <1>9 DEF Recv, x
  <2>4. Len(Received(x)) \in Nat
    BY <2>2, LenProperties
  <2> QED
    BY <2>1, <2>2, <2>3, <2>4 DEF TypeOK, Locations
<1>10. CASE Close
  <2>1. PICK kept \in [Sides -> 0 .. Capacity] :
          /\ \A x \in Sides : kept[x] <= Len(fromProxy[x])
          /\ fromProxy' = [x \in Sides |-> SubSeq(fromProxy[x], 1, kept[x])]
    BY <1>10 DEF Close
  <2>2. ASSUME NEW x \in Sides PROVE SubSeq(fromProxy[x], 1, kept[x]) \in Seq(Nat)
    <3>1. fromProxy[x] \in Seq(Nat) /\ kept[x] \in Nat /\ kept[x] <= Len(fromProxy[x])
      BY <2>1 DEF TypeOK
    <3>2. \A i \in 1 .. kept[x] : fromProxy[x][i] \in Nat
      BY <3>1, ElementOfSeq, LenProperties
    <3> QED
      BY <3>1, <3>2, SubSeqProperties
  <2> QED
    BY <1>10, <2>1, <2>2 DEF Close, TypeOK, Locations
<1>11. CASE UNCHANGED vars
  BY <1>11 DEF TypeOK
<1> QED
  BY <1>1, <1>2, <1>3, <1>4, <1>5, <1>6, <1>7, <1>8, <1>9, <1>10, <1>11 DEF Next, Thread

\* Every variable has its type, and recv() is called only when poll() has
\* reported a side.
THEOREM RelayTypes == Spec => []TypeOK
<1>1. TypeOK /\ [Next]_vars => TypeOK'
  BY TypeStep
<1> QED
  BY <1>1, TypeInit, PTL DEF Spec

-----------------------------------------------------------------------------
(***************************************************************************)
(* The inductive invariant.                                                *)
(***************************************************************************)

InHand(x) == IF from = x THEN held \o rest ELSE <<>>
Early(x)  == IF x = "worker" /\ pc = "answer" THEN answer ELSE <<>>

\* What x has sent, as it lies from its reader to itself.
Whole(x) ==
    got[Other(x)] \o (fromProxy[Other(x)] \o (InHand(x) \o (Early(x) \o toProxy[x])))

Flowing ==
    pc \notin {"closing", "closed"} => \A x \in Sides : Whole(x) = Bytes(sent[x])

\* The thread holds bytes only while it sends, no more than send_all was called
\* with, and awaits a head only of a page load and until it has it.
ThreadInv ==
    /\ pc \in {"answer", "poll", "recv"} => held = <<>> /\ rest = <<>>
    /\ pc = "send" => Len(held) <= size
    /\ pc = "answer" => pageLoad /\ Len(answer) < HeadLen

\* The count of the direction that is being sent on lacks what send_all has sent
\* of its bytes; a count is behind for good only if send_all has failed.
CountInv ==
    \A x \in Sides :
        /\ pc # "closed" => counted[x] <= Forwarded(x)
        /\ pc \in {"answer", "poll", "recv"} => counted[x] = Forwarded(x)
        /\ pc = "send" /\ from # x => counted[x] = Forwarded(x)
        /\ pc = "send" /\ from = x => counted[x] + size = Forwarded(x) + Len(held)
        /\ pc = "closing" /\ held = <<>> => counted[x] = Forwarded(x)

\* With the client there, nothing of it unread and nothing in hand, only the end
\* of the worker's bytes ends the connection, and they have all been sent on.
EndInv ==
    /\ pc \in {"closing", "closed"} /\ end["client"] = "open"
    /\ toProxy["client"] = <<>> /\ held = <<>>
    /\ (pageLoad => Len(answer) >= HeadLen)
    => /\ end["worker"] # "open" /\ toProxy["worker"] = <<>>
       /\ got["client"] \o fromProxy["client"] = Bytes(sent["worker"])

RInv == TypeOK /\ ThreadInv /\ CountInv /\ Flowing /\ EndInv

LEMMA PartTypes ==
  ASSUME TypeOK, NEW x \in Sides
  PROVE  /\ got[Other(x)] \in Seq(Nat) /\ fromProxy[Other(x)] \in Seq(Nat)
         /\ InHand(x) \in Seq(Nat) /\ Early(x) \in Seq(Nat) /\ toProxy[x] \in Seq(Nat)
         /\ Early(x) \o toProxy[x] \in Seq(Nat)
         /\ InHand(x) \o (Early(x) \o toProxy[x]) \in Seq(Nat)
         /\ fromProxy[Other(x)] \o (InHand(x) \o (Early(x) \o toProxy[x])) \in Seq(Nat)
<1>1. /\ got[Other(x)] \in Seq(Nat) /\ fromProxy[Other(x)] \in Seq(Nat)
      /\ InHand(x) \in Seq(Nat) /\ Early(x) \in Seq(Nat) /\ toProxy[x] \in Seq(Nat)
  BY OtherSide, EmptySeq, ConcatProperties DEF TypeOK, InHand, Early
<1>2. Early(x) \o toProxy[x] \in Seq(Nat)
  BY <1>1, ConcatProperties
<1>3. InHand(x) \o (Early(x) \o toProxy[x]) \in Seq(Nat)
  BY <1>1, <1>2, ConcatProperties
<1> QED
  BY <1>1, <1>2, <1>3, ConcatProperties

LEMMA NothingBefore == \A s \in Seq(Nat) : <<>> \o s = s /\ s \o <<>> = s
BY ConcatEmptySeq

\* Conserved speaks of the same row of bytes.
LEMMA WholeIsUnderway ==
  ASSUME TypeOK, NEW x \in Sides
  PROVE  got[Other(x)] \o Underway(x) = Whole(x)
<1> DEFINE f == fromProxy[Other(x)]
           h == InHand(x)
           e == Early(x)
           t == toProxy[x]
<1>1. f \in Seq(Nat) /\ h \in Seq(Nat) /\ e \in Seq(Nat) /\ t \in Seq(Nat)
      /\ e \o t \in Seq(Nat)
  BY PartTypes
<1>2. Underway(x) = ((f \o h) \o e) \o t
  BY DEF Underway, InHand, Early
<1>3. Whole(x) = got[Other(x)] \o (f \o (h \o (e \o t)))
  BY DEF Whole
<1> HIDE DEF f, h, e, t
<1>4. f \o h \in Seq(Nat)
  BY <1>1, ConcatProperties
<1>5. ((f \o h) \o e) \o t = (f \o h) \o (e \o t)
  BY <1>1, <1>4, ThreeInARow
<1>6. (f \o h) \o (e \o t) = f \o (h \o (e \o t))
  BY <1>1, ThreeInARow
<1> QED
  BY <1>2, <1>3, <1>5, <1>6

\* The row is the same if the bytes in hand and beyond it are.
LEMMA SameRow ==
  ASSUME NEW x \in Sides,
         got'[Other(x)] = got[Other(x)], fromProxy'[Other(x)] = fromProxy[Other(x)],
         InHand(x)' \o (Early(x)' \o toProxy'[x]) = InHand(x) \o (Early(x) \o toProxy[x])
  PROVE  Whole(x)' = Whole(x)
BY DEF Whole

LEMMA ThreadInvStep ==
  ASSUME RInv, TypeOK', [Next]_vars
  PROVE  ThreadInv'
<1> USE DEF vars, ends, proxy, piece, kind, ThreadInv
<1>0. TypeOK
  BY DEF RInv
<1>1. CASE Sent
  <2>1. Len(rest) \in Nat
    BY <1>0, LenProperties DEF TypeOK
  <2> QED
    BY <1>1, <2>1, EmptySeq DEF Sent, Then, RInv
<1>2. CASE ReadAnswer
  <2>1. CASE UNCHANGED <<pc, piece>>
    BY <1>2, <2>1 DEF ReadAnswer, RInv
  <2>2. CASE Len(answer') >= HeadLen
    <3>1. answer' \in Seq(Nat)
      BY DEF TypeOK
    <3>2. HeadLen \in 0 .. Len(answer')
      BY <2>2, <3>1, LenProperties
    <3>3. Len(HeadOf(answer', HeadLen)) = HeadLen
      BY <3>1, <3>2, HeadAndBeyond
    <3> QED
      BY <1>2, <2>2, <3>3 DEF ReadAnswer, RInv
  <2> QED
    BY <1>2, <2>1, <2>2, LenProperties DEF ReadAnswer, TypeOK
<1>3. CASE \E x \in Sides : Send(x) \/ Take(x) \/ Finish(x)
  BY <1>3 DEF Send, Take, Finish, RInv
<1>4. CASE Put
  <2>1. held \in Seq(Nat) /\ held # <<>> /\ size \in Nat /\ size' = size
        /\ held' = Tail(held) /\ pc = "send" /\ pc' = pc
    BY <1>0, <1>4 DEF Put, TypeOK
  <2>2. Len(Tail(held)) = Len(held) - 1 /\ Len(held) \in Nat /\ Len(held) <= size
    BY <2>1, HeadTailProperties, LenProperties DEF RInv
  <2>3. Len(held') = Len(held) - 1
    BY <2>1, <2>2
  <2>4. Len(held') <= size'
    <3>1. size' = size /\ size \in Nat
      BY <2>1
    <3> QED
      BY <2>2, <2>3, <3>1
  <2> QED
    BY <2>1, <2>4
<1>5. CASE PutFails \/ NoAnswer \/ Poll \/ Close
  BY <1>5 DEF PutFails, NoAnswer, Poll, Close, RInv
<1>6. CASE Recv
  <2>1. \/ pc' = "closing"
        \/ pc' = "send" /\ size' = Len(held')
    BY <1>6 DEF Recv
  <2>2. held' \in Seq(Nat)
    BY DEF TypeOK
  <2>3. Len(held') \in Nat
    BY <2>2, LenProperties
  <2> QED
    BY <2>1, <2>3
<1>7. CASE UNCHANGED vars
  BY <1>7 DEF RInv
<1> QED
  BY <1>1, <1>2, <1>3, <1>4, <1>5, <1>6, <1>7 DEF Next, Thread

LEMMA OneTaken ==
  ASSUME NEW a \in Seq(Nat), NEW b \in Seq(Nat), NEW c \in Seq(Nat), NEW d \in Seq(Nat),
         Len(c) = Len(a) + 1, Len(d) = Len(b) - 1
  PROVE  Len(c) + Len(d) = Len(a) + Len(b)
OBVIOUS

LEMMA OnePut ==
  ASSUME NEW a \in Seq(Nat), NEW b \in Seq(Nat), NEW d \in Seq(Nat), Len(d) = Len(b) + 1
  PROVE  Len(a) + Len(d) = Len(a) + Len(b) + 1
OBVIOUS

LEMMA CountInvStep ==
  ASSUME RInv, TypeOK', [Next]_vars
  PROVE  CountInv'
<1> USE DEF vars, ends, proxy, piece, kind
<1>0. \A x \in Sides : Forwarded(x) \in Nat /\ counted[x] \in Nat
  BY ForwardedType DEF RInv, TypeOK
<1>1. CASE \/ \E x \in Sides : Send(x) \/ Finish(x)
           \/ PutFails \/ NoAnswer \/ Poll \/ ReadAnswer \/ Recv \/ UNCHANGED vars
  <2>1. UNCHANGED <<got, fromProxy, counted>>
    BY <1>1 DEF Send, Finish, PutFails, NoAnswer, Poll, ReadAnswer, Recv
  <2>2. \A x \in Sides : Forwarded(x)' = Forwarded(x)
    BY <2>1 DEF Forwarded
  <2>3. CASE (\E x \in Sides : Send(x) \/ Finish(x)) \/ UNCHANGED vars
    <3>1. UNCHANGED <<pc, from, held, size>>
      BY <2>3 DEF Send, Finish
    <3> QED
      BY <2>1, <2>2, <3>1 DEF CountInv, RInv
  <2>4. CASE PutFails
    <3>1. pc = "send" /\ pc' = "closing" /\ held' # <<>>
      BY <2>4 DEF PutFails
    <3> QED
      BY <2>1, <2>2, <3>1 DEF CountInv, RInv
  <2>5. CASE Poll \/ NoAnswer
    <3>1. pc \in {"answer", "poll"} /\ pc' \in {"recv", "closing"}
      BY <2>5 DEF Poll, NoAnswer
    <3> QED
      BY <1>0, <2>1, <2>2, <3>1 DEF CountInv, RInv
  <2>6. CASE ReadAnswer \/ Recv
    <3>1. pc \in {"answer", "recv"} /\ pc' \in {"answer", "closing", "send"}
      <4>1. ReadAnswer => pc = "answer" /\ pc' \in {"answer", "send"}
        BY DEF ReadAnswer
      <4>2. Recv => pc = "recv" /\ pc' \in {"closing", "send"}
        BY DEF Recv
      <4> QED
        BY <2>6, <4>1, <4>2
    <3>2. pc' = "send" => size' = Len(held')
      <4>1. CASE Recv
        BY <4>1 DEF Recv
      <4>2. CASE ReadAnswer
        <5>1. answer' \in Seq(Nat)
          BY DEF TypeOK
        <5>2. pc' = "send" => HeadLen \in 0 .. Len(answer')
          BY <4>2, <5>1, LenProperties DEF ReadAnswer
        <5>3. pc' = "send" => Len(HeadOf(answer', HeadLen)) = HeadLen
          BY <5>1, <5>2, HeadAndBeyond
        <5> QED
          BY <4>2, <5>3 DEF ReadAnswer
      <4> QED
        BY <2>6, <4>1, <4>2
    <3> QED
      BY <1>0, <2>1, <2>2, <3>1, <3>2 DEF CountInv, RInv
  <2> QED
    BY <1>1, <2>3, <2>4, <2>5, <2>6
<1>2. ASSUME NEW x \in Sides, Take(x) PROVE CountInv'
  <2>1. /\ fromProxy[x] \in Seq(Nat) /\ fromProxy[x] # <<>> /\ got[x] \in Seq(Nat)
        /\ got'[x] = Append(got[x], Head(fromProxy[x]))
        /\ fromProxy'[x] = Tail(fromProxy[x])
        /\ \A y \in Sides \ {x} : got'[y] = got[y] /\ fromProxy'[y] = fromProxy[y]
    BY <1>2 DEF Take, RInv, TypeOK
  <2>2. Len(got'[x]) = Len(got[x]) + 1 /\ Len(fromProxy'[x]) = Len(fromProxy[x]) - 1
    BY <2>1, MovedByte
  <2>3. got'[x] \in Seq(Nat) /\ fromProxy'[x] \in Seq(Nat)
    BY DEF TypeOK
  <2>4. ASSUME NEW y \in Sides PROVE Forwarded(y)' = Forwarded(y)
    <3>1. CASE Other(y) = x
      <4>1. /\ Forwarded(y) = Len(got[x]) + Len(fromProxy[x])
            /\ Forwarded(y)' = Len(got'[x]) + Len(fromProxy'[x])
        BY <3>1 DEF Forwarded
      <4>2. Len(got'[x]) + Len(fromProxy'[x]) = Len(got[x]) + Len(fromProxy[x])
        <5>1. got[x] \in Seq(Nat) /\ fromProxy[x] \in Seq(Nat)
          BY <2>1
        <5> QED
          BY <5>1, <2>2, <2>3, OneTaken
      <4> QED
        BY <4>1, <4>2
    <3>2. CASE Other(y) # x
      BY <3>2, <2>1, OtherSide DEF Forwarded
    <3> QED
      BY <3>1, <3>2
  <2> QED
    BY <1>2, <2>4 DEF Take, CountInv, RInv
<1>3. CASE Put
  <2>1. PICK x \in Sides : x = from
    BY DEF RInv, TypeOK
  <2> DEFINE y == Other(x)
  <2>2. /\ y \in Sides /\ held \in Seq(Nat) /\ held # <<>>
        /\ fromProxy[y] \in Seq(Nat) /\ got[y] \in Seq(Nat)
        /\ fromProxy'[y] = Append(fromProxy[y], Head(held))
        /\ \A z \in Sides \ {y} : fromProxy'[z] = fromProxy[z]
        /\ UNCHANGED <<got, from, counted, pc>> /\ pc = "send"
    BY <1>3, <2>1, OtherSide DEF Put, RInv, TypeOK
  <2>3. Len(fromProxy'[y]) = Len(fromProxy[y]) + 1
    BY <2>2, MovedByte
  <2>4. fromProxy'[y] \in Seq(Nat)
    BY <2>2 DEF TypeOK
  <2>5. Forwarded(x)' = Forwarded(x) + 1
    <3>1. /\ Forwarded(x) = Len(got[y]) + Len(fromProxy[y])
          /\ Forwarded(x)' = Len(got'[y]) + Len(fromProxy'[y])
      BY DEF Forwarded
    <3>2. got'[y] = got[y]
      BY <2>2
    <3>3. Len(got'[y]) + Len(fromProxy'[y]) = Len(got[y]) + Len(fromProxy[y]) + 1
      BY <3>2, <2>2, <2>3, <2>4, OnePut
    <3> QED
      BY <3>1, <3>3
  <2>6. ASSUME NEW z \in Sides \ {x} PROVE Forwarded(z)' = Forwarded(z)
    <3>1. Other(z) \in Sides \ {y}
      BY DEF Sides, Other
    <3> QED
      BY <2>2, <3>1 DEF Forwarded
  <2>7. /\ held' = Tail(held) /\ size' = size /\ size \in Nat /\ Len(held) <= size
        /\ Len(held) \in Nat /\ Len(Tail(held)) = Len(held) - 1
    BY <1>3, <2>2, MovedByte, LenProperties DEF Put, RInv, TypeOK, ThreadInv
  <2> HIDE DEF y
  <2>8. counted[x] + size = Forwarded(x) + Len(held)
    BY <2>1, <2>2 DEF CountInv, RInv
  <2>9. counted[x] <= Forwarded(x)' /\ counted[x] + size = Forwarded(x)' + Len(held')
    <3> DEFINE c == counted[x]
               g == Forwarded(x)
    <3>1. Len(held') = Len(held) - 1 /\ Forwarded(x)' = g + 1
      BY <2>5, <2>7
    <3>2. c \in Nat /\ g \in Nat /\ c + size = g + Len(held)
      BY <1>0, <2>8
    <3>3. Len(held) \in Nat /\ size \in Nat /\ Len(held) <= size
      BY <2>7
    <3> HIDE DEF c, g
    <3>4. c <= g + 1 /\ c + size = (g + 1) + (Len(held) - 1)
      BY <3>2, <3>3
    <3> QED
      BY <3>1, <3>4 DEF c
  <2>10. \A z \in Sides \ {x} : counted[z] = Forwarded(z)' /\ Forwarded(z)' \in Nat
    BY <1>0, <2>1, <2>2, <2>6 DEF CountInv, RInv
  <2>11. counted' = counted /\ from' = x /\ pc' = "send" /\ size' = size
    BY <2>1, <2>2, <2>7
  <2> QED
    BY <2>9, <2>10, <2>11 DEF CountInv
<1>4. CASE Sent
  <2>1. /\ UNCHANGED <<got, fromProxy, from>> /\ pc = "send" /\ from \in Sides
        /\ counted'[from] = counted[from] + size
        /\ \A y \in Sides \ {from} : counted'[y] = counted[y]
        /\ held = <<>> /\ size \in Nat
    BY <1>4 DEF Sent, Count, RInv, TypeOK
  <2>2. Len(held) = 0
    BY <2>1, EmptySeq
  <2>3. counted[from] + size = Forwarded(from)
    <3>1. counted[from] + size = Forwarded(from) + Len(held)
      BY <2>1 DEF CountInv, RInv
    <3> QED
      BY <1>0, <2>1, <2>2, <3>1
  <2>4. \A x \in Sides : Forwarded(x)' = Forwarded(x) /\ counted'[x] = Forwarded(x)
    BY <2>1, <2>3 DEF Forwarded, CountInv, RInv
  <2>5. pc' = "send" => size' = Len(held')
    BY <1>4 DEF Sent, Then
  <2> QED
    BY <1>0, <2>4, <2>5 DEF CountInv
<1>5. CASE Close
  BY <1>5 DEF Close, CountInv
<1> QED
  BY <1>1, <1>2, <1>3, <1>4, <1>5 DEF Next, Thread
LEMMA FlowingStep ==
  ASSUME RInv, TypeOK', ThreadInv', [Next]_vars
  PROVE  Flowing'
<1> USE DEF vars, ends, proxy, piece, kind
<1> SUFFICES ASSUME pc' \notin {"closing", "closed"}, NEW x \in Sides
             PROVE  Whole(x)' = Bytes(sent'[x])
  BY DEF Flowing
<1> DEFINE o == Other(x)
<1>0. ASSUME pc \notin {"closing", "closed"}
      PROVE  Whole(x) = Bytes(sent[x])
  BY <1>0 DEF RInv, Flowing
<1>1. ASSUME NEW y \in Sides, Send(y) PROVE Whole(x)' = Bytes(sent'[x])
  <2>1. /\ UNCHANGED <<got, fromProxy, pc, from, held, rest, answer>>
        /\ \A z \in Sides \ {y} : toProxy'[z] = toProxy[z] /\ sent'[z] = sent[z]
        /\ toProxy'[y] = Append(toProxy[y], sent[y] + 1) /\ sent'[y] = sent[y] + 1
    BY <1>1 DEF Send, RInv, TypeOK
  <2>2. InHand(x)' = InHand(x) /\ Early(x)' = Early(x)
    BY <2>1 DEF InHand, Early
  <2>3. CASE x # y
    <3>1. Whole(x)' = Whole(x)
      BY <2>1, <2>2, <2>3, SameRow
    <3> QED
      BY <1>0, <2>1, <2>3, <3>1
  <2>4. CASE x = y
    <3> DEFINE n == sent[x] + 1
               p1 == Early(x) \o toProxy[x]
               p2 == InHand(x) \o p1
               p3 == fromProxy[o] \o p2
    <3>1. sent[x] \in Nat /\ n \in Nat
      <4>1. sent[x] \in Nat
        BY DEF RInv, TypeOK
      <4> QED
        BY <4>1
    <3>2. /\ got[o] \in Seq(Nat) /\ fromProxy[o] \in Seq(Nat) /\ InHand(x) \in Seq(Nat)
          /\ Early(x) \in Seq(Nat) /\ toProxy[x] \in Seq(Nat)
          /\ p1 \in Seq(Nat) /\ p2 \in Seq(Nat) /\ p3 \in Seq(Nat)
      BY PartTypes DEF RInv
    <3>3. Early(x) \o Append(toProxy[x], n) = Append(p1, n)
      BY <3>1, <3>2, AppendThrough
    <3>4. InHand(x) \o Append(p1, n) = Append(p2, n)
      BY <3>1, <3>2, AppendThrough
    <3>5. fromProxy[o] \o Append(p2, n) = Append(p3, n)
      BY <3>1, <3>2, AppendThrough
    <3>6. got[o] \o Append(p3, n) = Append(Whole(x), n)
      BY <3>1, <3>2, AppendThrough DEF Whole
    <3>7. Whole(x)' = Append(Whole(x), n)
      BY <2>1, <2>2, <2>4, <3>3, <3>4, <3>5, <3>6 DEF Whole
    <3>8. Bytes(n) = Append(Bytes(sent[x]), n)
      BY <3>1, OneMoreByte
    <3> QED
      BY <1>0, <2>1, <2>4, <3>7, <3>8
  <2> QED
    BY <2>3, <2>4
<1>2. ASSUME NEW y \in Sides, Take(y) PROVE Whole(x)' = Bytes(sent'[x])
  <2>1. /\ UNCHANGED <<sent, toProxy, pc, from, held, rest, answer>>
        /\ fromProxy[y] # <<>>
        /\ got'[y] = Append(got[y], Head(fromProxy[y]))
        /\ fromProxy'[y] = Tail(fromProxy[y])
        /\ \A z \in Sides \ {y} : got'[z] = got[z] /\ fromProxy'[z] = fromProxy[z]
    BY <1>2 DEF Take, RInv, TypeOK
  <2>2. InHand(x)' = InHand(x) /\ Early(x)' = Early(x) /\ toProxy'[x] = toProxy[x]
    BY <2>1 DEF InHand, Early
  <2>3. CASE o # y
    <3>1. o \in Sides \ {y}
      BY <2>3, OtherSide
    <3>2. Whole(x)' = Whole(x)
      BY <2>1, <2>2, <3>1, SameRow
    <3> QED
      BY <1>0, <2>1, <3>2
  <2>4. CASE o = y
    <3> DEFINE u == InHand(x) \o (Early(x) \o toProxy[x])
    <3>1. got[o] \in Seq(Nat) /\ fromProxy[o] \in Seq(Nat) /\ u \in Seq(Nat)
      BY PartTypes DEF RInv
    <3>2. Append(got[o], Head(fromProxy[o])) \o (Tail(fromProxy[o]) \o u)
            = got[o] \o (fromProxy[o] \o u)
      BY <2>1, <2>4, <3>1, MovedThrough
    <3>3. Whole(x)' = Whole(x)
      BY <2>1, <2>2, <2>4, <3>2 DEF Whole
    <3> QED
      BY <1>0, <2>1, <3>3
  <2> QED
    BY <2>3, <2>4
<1>3. CASE Put
  <2>1. PICK y \in Sides : y = from
    BY DEF RInv, TypeOK
  <2>2. /\ UNCHANGED <<got, sent, toProxy, pc, from, rest, answer>>
        /\ pc = "send" /\ held # <<>> /\ held' = Tail(held)
        /\ fromProxy'[Other(y)] = Append(fromProxy[Other(y)], Head(held))
        /\ \A z \in Sides \ {Other(y)} : fromProxy'[z] = fromProxy[z]
    BY <1>3, <2>1, OtherSide DEF Put, RInv, TypeOK
  <2>3. CASE x = y
    <3> DEFINE after == Early(x) \o toProxy[x]
               before == fromProxy[o]
    <3>1. InHand(x) = held \o rest /\ InHand(x)' = Tail(held) \o rest
      BY <2>1, <2>2, <2>3 DEF InHand
    <3>2. Early(x)' = Early(x) /\ toProxy'[x] = toProxy[x]
      BY <2>2 DEF Early
    <3>3. /\ before \in Seq(Nat) /\ held \in Seq(Nat) /\ rest \in Seq(Nat)
          /\ after \in Seq(Nat) /\ held # <<>>
      BY <2>2, PartTypes DEF RInv, TypeOK
    <3>4. Whole(x) = got[o] \o (before \o ((held \o rest) \o after))
      BY <3>1 DEF Whole
    <3>5. Whole(x)' = got[o] \o (Append(before, Head(held))
                                     \o ((Tail(held) \o rest) \o after))
      BY <2>2, <2>3, <3>1, <3>2 DEF Whole
    <3> HIDE DEF after, before
    <3>6. Append(before, Head(held)) \o ((Tail(held) \o rest) \o after)
            = before \o ((held \o rest) \o after)
      BY <3>3, PutThrough
    <3>7. Whole(x)' = Whole(x)
      BY <3>4, <3>5, <3>6
    <3> QED
      BY <1>0, <2>2, <3>7
  <2>4. CASE x # y
    <3>1. InHand(x) = <<>> /\ InHand(x)' = <<>> /\ Early(x)' = Early(x)
      BY <2>1, <2>2, <2>4 DEF InHand, Early
    <3>2. o \in Sides \ {Other(y)}
      BY <2>4 DEF Sides, Other
    <3>3. Whole(x)' = Whole(x)
      BY <2>2, <3>1, <3>2, SameRow
    <3> QED
      BY <1>0, <2>2, <3>3
  <2> QED
    BY <2>3, <2>4
<1>4. CASE Sent
  <2>1. /\ UNCHANGED <<got, sent, fromProxy, toProxy, from, answer>>
        /\ pc = "send" /\ pc' \in {"send", Then} /\ held = <<>>
        /\ \/ held' = rest /\ rest' = <<>>
           \/ UNCHANGED <<held, rest>>
    BY <1>4 DEF Sent
  <2>2. InHand(x)' = InHand(x)
    <3>1. rest \o <<>> = rest /\ <<>> \o rest = rest
      BY NothingBefore DEF RInv, TypeOK
    <3> QED
      BY <2>1, <3>1 DEF InHand
  <2>4. Early(x)' = <<>> /\ Early(x) = <<>>
    BY <2>1, EmptySeq DEF Early, Then
  <2>3. Whole(x)' = Whole(x)
    BY <2>1, <2>2, <2>4, SameRow
  <2> QED
    BY <1>0, <2>1, <2>3
<1>5. CASE ReadAnswer
  <2>1. /\ UNCHANGED <<got, sent, fromProxy>> /\ pc = "answer" /\ held = <<>> /\ rest = <<>>
        /\ toProxy'["worker"] = Rest("worker") /\ toProxy'["client"] = toProxy["client"]
        /\ answer' = answer \o Received("worker")
    BY <1>5 DEF ReadAnswer, RInv, ThreadInv, TypeOK, Sides
  <2>2. \/ UNCHANGED <<pc, from, held, rest>>
        \/ pc' = "send" /\ from' = "worker" /\ held' \o rest' = answer'
    <3>1. CASE Len(answer') >= HeadLen
      <4>1. answer' \in Seq(Nat)
        BY DEF TypeOK
      <4>2. HeadLen \in 0 .. Len(answer')
        BY <3>1, <4>1, LenProperties
      <4>3. HeadOf(answer', HeadLen) \o Beyond(answer', HeadLen) = answer'
        BY <4>1, <4>2, HeadAndBeyond
      <4> QED
        BY <1>5, <4>3 DEF ReadAnswer, Leftover
    <3>2. CASE ~(Len(answer') >= HeadLen)
      <4>1. Len(answer') \in Nat
        BY LenProperties DEF TypeOK
      <4>2. Len(answer') < HeadLen
        BY <3>2, <4>1
      <4> QED
        BY <1>5, <4>2 DEF ReadAnswer
    <3> QED
      BY <3>1, <3>2
  <2>3. /\ answer \in Seq(Nat) /\ toProxy["worker"] \in Seq(Nat) /\ toProxy["client"] \in Seq(Nat)
        /\ "worker" \in Sides
    BY DEF RInv, TypeOK, Sides
  <2>4. /\ Received("worker") \in Seq(Nat) /\ Rest("worker") \in Seq(Nat)
        /\ Received("worker") \o Rest("worker") = toProxy["worker"]
    BY <2>3, ReceivedPrefix
  <2>5. answer' \o Rest("worker") = answer \o toProxy["worker"]
    <3>1. (answer \o Received("worker")) \o Rest("worker")
            = answer \o (Received("worker") \o Rest("worker"))
      BY <2>3, <2>4, ThreeInARow
    <3> QED
      BY <2>1, <2>4, <3>1
  <2>6. /\ answer' \in Seq(Nat) /\ answer' \o Rest("worker") \in Seq(Nat)
        /\ <<>> \o Rest("worker") = Rest("worker")
        /\ <<>> \o (answer' \o Rest("worker")) = answer' \o Rest("worker")
    BY <2>1, <2>3, <2>4, ConcatProperties, NothingBefore
  <2>7. InHand(x) = <<>> /\ Early(x) = IF x = "worker" THEN answer ELSE <<>>
    BY <2>1, NothingBefore, EmptySeq DEF InHand, Early
  <2>8. Whole(x)' = Whole(x)
    <3>1. CASE x = "client"
      <4>1. InHand(x)' = <<>> /\ Early(x)' = <<>> /\ Early(x) = <<>>
        BY <2>1, <2>2, <3>1, NothingBefore, EmptySeq DEF InHand, Early
      <4> QED
        BY <2>1, <2>7, <3>1, <4>1, SameRow
    <3>2. CASE x = "worker"
      <4>1. InHand(x)' \o (Early(x)' \o toProxy'[x]) = answer' \o Rest("worker")
        <5>1. CASE UNCHANGED <<pc, from, held, rest>>
          <6>1. InHand(x)' = <<>> /\ Early(x)' = answer'
            BY <2>1, <3>2, <5>1, NothingBefore, EmptySeq DEF InHand, Early
          <6> QED
            BY <2>1, <2>6, <3>2, <6>1
        <5>2. CASE pc' = "send" /\ from' = "worker" /\ held' \o rest' = answer'
          <6>1. InHand(x)' = answer' /\ Early(x)' = <<>>
            BY <3>2, <5>2 DEF InHand, Early
          <6> QED
            BY <2>1, <2>6, <3>2, <6>1
        <5> QED
          BY <2>2, <5>1, <5>2
      <4>2. InHand(x) \o (Early(x) \o toProxy[x]) = answer \o toProxy["worker"]
        <5>1. answer \o toProxy["worker"] \in Seq(Nat)
          BY <2>3, ConcatProperties
        <5> QED
          BY <2>7, <3>2, <5>1, NothingBefore
      <4> QED
        BY <2>1, <2>5, <4>1, <4>2, SameRow
    <3> QED
      BY <3>1, <3>2 DEF Sides
  <2> QED
    BY <1>0, <2>1, <2>8
<1>6. CASE Recv
  <2>1. PICK y \in Sides : /\ held' = Received(y) /\ from' = y /\ pc' = "send"
                           /\ toProxy' = [toProxy EXCEPT ![y] = Rest(y)]
    BY <1>6 DEF Recv, Sides
  <2>2. /\ UNCHANGED <<got, sent, fromProxy, rest, answer>> /\ pc = "recv" /\ held = <<>>
        /\ rest = <<>> /\ <<>> \o <<>> = <<>>
    BY <1>6, NothingBefore, EmptySeq DEF Recv, RInv, ThreadInv
  <2>3. /\ toProxy'[y] = Rest(y) /\ \A z \in Sides \ {y} : toProxy'[z] = toProxy[z]
        /\ toProxy[y] \in Seq(Nat)
    BY <2>1 DEF RInv, TypeOK
  <2>4. /\ Received(y) \in Seq(Nat) /\ Rest(y) \in Seq(Nat)
        /\ Received(y) \o Rest(y) = toProxy[y]
    BY <2>3, ReceivedPrefix
  <2>5. InHand(x) = <<>> /\ Early(x) = <<>> /\ Early(x)' = <<>>
    BY <2>1, <2>2 DEF InHand, Early
  <2>6. CASE x = y
    <3>1. InHand(x)' = Received(y)
      BY <2>1, <2>2, <2>4, <2>6, NothingBefore DEF InHand
    <3>2. <<>> \o Rest(y) = Rest(y) /\ <<>> \o toProxy[y] = toProxy[y]
      BY <2>3, <2>4, NothingBefore
    <3>3. Whole(x)' = Whole(x)
      BY <2>2, <2>3, <2>4, <2>5, <2>6, <3>1, <3>2, SameRow
    <3> QED
      BY <1>0, <2>2, <3>3
  <2>7. CASE x # y
    <3>1. InHand(x)' = <<>>
      BY <2>1, <2>7 DEF InHand
    <3>2. Whole(x)' = Whole(x)
      BY <2>2, <2>3, <2>5, <2>7, <3>1, SameRow
    <3> QED
      BY <1>0, <2>2, <3>2
  <2> QED
    BY <2>6, <2>7
<1>7. CASE (\E y \in Sides : Finish(y)) \/ Poll \/ UNCHANGED vars
  <2>1. UNCHANGED <<got, sent, fromProxy, toProxy, from, held, rest, answer>>
    BY <1>7 DEF Finish, Poll
  <2>2. pc' = pc \/ (pc = "poll" /\ pc' = "recv")
    BY <1>7 DEF Finish, Poll
  <2>3. InHand(x)' = InHand(x) /\ Early(x)' = Early(x)
    BY <2>1, <2>2 DEF InHand, Early
  <2>4. Whole(x)' = Whole(x)
    BY <2>1, <2>3, SameRow
  <2> QED
    BY <1>0, <2>1, <2>2, <2>4
<1>8. CASE PutFails \/ NoAnswer \/ Close
  BY <1>8 DEF PutFails, NoAnswer, Close
<1> QED
  BY <1>1, <1>2, <1>3, <1>4, <1>5, <1>6, <1>7, <1>8 DEF Next, Thread
\* While the connection ends, what is read moves to what has been read.
LEMMA EndInvStep ==
  ASSUME RInv, TypeOK', [Next]_vars
  PROVE  EndInv'
<1> USE DEF vars, ends, proxy, piece, kind
<1> SUFFICES ASSUME pc' \in {"closing", "closed"}, end'["client"] = "open",
                    toProxy'["client"] = <<>>, held' = <<>>,
                    pageLoad' => Len(answer') >= HeadLen
             PROVE  /\ end'["worker"] # "open" /\ toProxy'["worker"] = <<>>
                    /\ got'["client"] \o fromProxy'["client"] = Bytes(sent'["worker"])
  BY DEF EndInv
<1> DEFINE Ended == /\ end["worker"] # "open" /\ toProxy["worker"] = <<>>
                    /\ got["client"] \o fromProxy["client"] = Bytes(sent["worker"])
<1>0. ASSUME pc \in {"closing", "closed"}, end["client"] = "open",
             toProxy["client"] = <<>>, UNCHANGED <<held, pageLoad, answer>>
      PROVE  Ended
  BY <1>0 DEF RInv, EndInv
<1>1. ASSUME NEW x \in Sides, Send(x) PROVE FALSE
  <2>1. /\ UNCHANGED <<pc, end, held, pageLoad, answer>> /\ pc # "closed" /\ end[x] = "open"
        /\ toProxy'[x] = Append(toProxy[x], sent[x] + 1)
        /\ \A z \in Sides \ {x} : toProxy'[z] = toProxy[z]
    BY <1>1 DEF Send, RInv, TypeOK
  <2>2. toProxy'[x] # <<>>
    <3>1. sent[x] \in Nat /\ toProxy[x] \in Seq(Nat)
      BY DEF RInv, TypeOK
    <3>2. sent[x] + 1 \in Nat
      BY <3>1
    <3>3. Append(toProxy[x], sent[x] + 1) # <<>>
      BY <3>1, <3>2, NotEmptied
    <3> QED
      BY <2>1, <3>3
  <2>3. x = "worker" /\ toProxy["client"] = <<>>
    BY <2>1, <2>2 DEF Sides
  <2> QED
    BY <1>0, <2>1, <2>3
<1>2. ASSUME NEW x \in Sides, Take(x)
      PROVE  /\ end'["worker"] # "open" /\ toProxy'["worker"] = <<>>
             /\ got'["client"] \o fromProxy'["client"] = Bytes(sent'["worker"])
  <2>1. /\ UNCHANGED <<pc, end, sent, toProxy, held, pageLoad, answer>>
        /\ fromProxy[x] # <<>>
        /\ got'[x] = Append(got[x], Head(fromProxy[x]))
        /\ fromProxy'[x] = Tail(fromProxy[x])
        /\ \A z \in Sides \ {x} : got'[z] = got[z] /\ fromProxy'[z] = fromProxy[z]
    BY <1>2 DEF Take, RInv, TypeOK
  <2>2. Ended
    BY <1>0, <2>1
  <2>3. got'["client"] \o fromProxy'["client"] = got["client"] \o fromProxy["client"]
    <3>1. CASE x = "client"
      <4>1. got["client"] \in Seq(Nat) /\ fromProxy["client"] \in Seq(Nat)
        BY DEF RInv, TypeOK, Sides
      <4> QED
        BY <2>1, <3>1, <4>1, MovedByte
    <3>2. CASE x # "client"
      BY <2>1, <3>2 DEF Sides
    <3> QED
      BY <3>1, <3>2
  <2> QED
    BY <2>1, <2>2, <2>3
<1>3. ASSUME NEW x \in Sides, Finish(x)
      PROVE  /\ end'["worker"] # "open" /\ toProxy'["worker"] = <<>>
             /\ got'["client"] \o fromProxy'["client"] = Bytes(sent'["worker"])
  <2>1. /\ UNCHANGED <<pc, sent, got, fromProxy, toProxy, held, pageLoad, answer>>
        /\ end'[x] # "open" /\ \A z \in Sides \ {x} : end'[z] = end[z]
    BY <1>3 DEF Finish, RInv, TypeOK
  <2>2. x = "worker" /\ end["client"] = "open"
    BY <2>1 DEF Sides
  <2> QED
    BY <1>0, <2>1, <2>2
<1>4. CASE Put \/ PutFails \/ Sent \/ ReadAnswer \/ NoAnswer \/ Poll
  <2>1. CASE PutFails
    BY <2>1 DEF PutFails
  <2>2. CASE NoAnswer
    <3>1. pc = "answer" /\ UNCHANGED <<pageLoad, answer>>
      BY <2>2 DEF NoAnswer
    <3>2. pageLoad /\ Len(answer) < HeadLen /\ answer \in Seq(Nat)
      BY <3>1 DEF RInv, ThreadInv, TypeOK
    <3>3. Len(answer) \in Nat
      BY <3>2, LenProperties
    <3> QED
      BY <3>1, <3>2, <3>3
  <2>3. CASE Put \/ Sent \/ ReadAnswer \/ Poll
    BY <2>3 DEF Put, Sent, Then, ReadAnswer, Poll
  <2> QED
    BY <1>4, <2>1, <2>2, <2>3
<1>5. CASE Recv
  <2>1. PICK x \in Sides : EndsAt(x) /\ UNCHANGED <<toProxy, from, held>>
    BY <1>5 DEF Recv, Sides
  <2>2. /\ UNCHANGED <<end, sent, got, fromProxy>> /\ pc = "recv" /\ held = <<>>
    BY <1>5 DEF Recv, RInv, ThreadInv
  <2>3. x = "worker"
    BY <2>1, <2>2 DEF EndsAt, AtEnd, Sides
  <2>4. toProxy["worker"] = <<>> /\ end["worker"] # "open"
    BY <2>1, <2>3 DEF EndsAt, AtEnd
  <2>5. Whole("worker") = Bytes(sent["worker"])
    BY <2>2 DEF RInv, Flowing, Sides
  <2>8. rest = <<>> /\ <<>> \o <<>> = <<>>
    BY <2>2, NothingBefore, EmptySeq DEF RInv, ThreadInv
  <2>6. Whole("worker") = got["client"] \o (fromProxy["client"] \o (<<>> \o (<<>> \o <<>>)))
    BY <2>2, <2>4, <2>8 DEF Whole, InHand, Early, Other
  <2>7. /\ <<>> \o <<>> = <<>>
        /\ fromProxy["client"] \o <<>> = fromProxy["client"]
    BY NothingBefore, EmptySeq DEF RInv, TypeOK, Sides
  <2> QED
    BY <2>1, <2>2, <2>4, <2>5, <2>6, <2>7
<1>6. CASE Close
  <2>1. /\ UNCHANGED <<end, sent, got, toProxy, held, pageLoad, answer>> /\ pc = "closing"
    BY <1>6 DEF Close
  <2>2. Ended
    BY <1>0, <2>1
  <2>3. fromProxy'["client"] = SubSeq(fromProxy["client"], 1, Len(fromProxy["client"]))
    BY <1>6, <2>1 DEF Close, Sides
  <2>4. fromProxy'["client"] = fromProxy["client"]
    BY <2>3, SubSeqFull DEF RInv, TypeOK, Sides
  <2> QED
    BY <2>1, <2>2, <2>4
<1>7. CASE UNCHANGED vars
  BY <1>0, <1>7
<1> QED
  BY <1>1, <1>2, <1>3, <1>4, <1>5, <1>6, <1>7 DEF Next, Thread

LEMMA InvInit == Init => RInv
<1> SUFFICES ASSUME Init PROVE RInv
  OBVIOUS
<1>1. TypeOK
  BY TypeInit
<1>2. CountInv
  <2>1. \A x \in Sides : counted[x] = 0 /\ Forwarded(x) = 0
    BY EmptySeq, OtherSide DEF Init, Forwarded
  <2>2. pc = "send" /\ size = ReqLen /\ Len(held) = ReqLen
    BY Request DEF Init
  <2> QED
    BY <2>1, <2>2 DEF CountInv
<1>3. ASSUME NEW x \in Sides PROVE Whole(x) = Bytes(sent[x])
  <2>1. Bytes(0) = <<>>
    BY BytesType, EmptySeq
  <2>2. Bytes(Lead) \in Seq(Nat) /\ <<>> \in Seq(Nat)
    BY BytesType, EmptySeq
  <2>3. /\ <<>> \o <<>> = <<>> /\ Bytes(Lead) \o <<>> = Bytes(Lead)
        /\ <<>> \o Bytes(Lead) = Bytes(Lead)
    BY <2>2, NothingBefore
  <2>4. Early(x) = <<>> /\ InHand(x) = (IF x = "client" THEN Bytes(Lead) ELSE <<>>)
    BY Request DEF Init, Early, InHand
  <2>5. Whole(x) = <<>> \o (<<>> \o (InHand(x) \o (<<>> \o <<>>)))
    BY <2>4, OtherSide DEF Init, Whole
  <2>6. sent[x] = IF x = "client" THEN Lead ELSE 0
    BY DEF Init
  <2> QED
    BY <2>1, <2>3, <2>4, <2>5, <2>6
<1> QED
  BY <1>1, <1>2, <1>3, Request DEF Init, RInv, ThreadInv, Flowing, EndInv

THEOREM RelayInductive == Spec => []RInv
<1>1. RInv /\ [Next]_vars => RInv'
  <2> SUFFICES ASSUME RInv, [Next]_vars PROVE RInv'
    OBVIOUS
  <2>1. TypeOK'
    BY TypeStep DEF RInv
  <2> QED
    BY <2>1, ThreadInvStep, CountInvStep, FlowingStep, EndInvStep DEF RInv
<1> QED
  BY <1>1, InvInit, PTL DEF Spec

-----------------------------------------------------------------------------
(***************************************************************************)
(* What follows.                                                           *)
(***************************************************************************)

\* Whatever the threads, the ends and their buffers do, no byte is lost, doubled
\* or overtaken while the connection lasts, in either direction.
THEOREM BytesAreConserved == Spec => []Conserved
<1>1. RInv => Conserved
  BY WholeIsUnderway DEF RInv, Flowing, Conserved
<1> QED
  BY <1>1, RelayInductive, PTL

\* A worker that ends the connection first gets its whole answer through to a
\* client that has nothing more to say.
THEOREM AnswersAreWhole == Spec => []WholeAnswer
<1>1. RInv => WholeAnswer
  BY DEF RInv, EndInv, WholeAnswer
<1> QED
  BY <1>1, RelayInductive, PTL

\* The additions to bytes_in and bytes_out, one after each send_all, never run
\* ahead of the bytes, and add up to them whenever the thread is back at poll() or
\* leaves with nothing unsent: after a head, a leftover or a piece of the splice.
THEOREM CountsAreOfSentBytes == Spec => []CountedIsSent
<1>1. RInv => CountedIsSent
  BY DEF RInv, CountInv, CountedIsSent
<1> QED
  BY <1>1, RelayInductive, PTL

=============================================================================

------------------------- MODULE ServerPartsProofs --------------------------
(***************************************************************************)
(* The small parts of the server, for every value of their constants:      *)
(* reading a head (HttpHead), the range of worker ports (PortRange), the   *)
(* shares of the CPU (CpuSampler) and a browser's tabs (BrowserTabs).  None*)
(* shares a variable with another.                                         *)
(***************************************************************************)
EXTENDS HttpHead, PortRange, CpuSampler, BrowserTabs, WellFoundedInduction, TLAPS

-----------------------------------------------------------------------------
(***************************************************************************)
(* Reading a head, for any limit, any size of the pieces and any stream.   *)
(***************************************************************************)

(***************************************************************************)
(* The buffer is never longer than the limit before a piece is added, and  *)
(* what is handed out lies within it.                                      *)
(***************************************************************************)
HInv ==
    /\ HeadTypeOK /\ WithinIsRead /\ NothingLost /\ Bounded
    /\ result \in {"reading", "ended"} => head = 0 /\ leftover = 0
    /\ result = "reading" => size < MaxHead

LEMMA HeadStart ==
  ASSUME HeadInit
  PROVE  HInv
BY HttpHeadOK DEF HeadInit, HInv, HeadTypeOK, WithinIsRead, NothingLost, Bounded, BlankLine

LEMMA AppendKeeps ==
  ASSUME HInv, NEW n \in 1 .. Chunk, AppendPiece(n)
  PROVE  HInv'
<1>1. /\ size' = size + n /\ size < MaxHead /\ size + n <= streamEnd
      /\ headEnd' = headEnd /\ streamEnd' = streamEnd
      /\ size \in Nat /\ n \in Nat /\ n >= 1 /\ n <= Chunk
      /\ headEnd \in Nat /\ headEnd >= BlankLine /\ streamEnd \in Nat
      /\ MaxHead \in Nat /\ Chunk \in Nat /\ head = 0 /\ leftover = 0
  BY HttpHeadOK DEF HInv, HeadTypeOK, AppendPiece, Below
<1>2. CASE HasHead(n) /\ result' = "read" /\ head' = headEnd /\ leftover' = Leftover(n)
  BY <1>1, <1>2
     DEF HInv, HeadTypeOK, WithinIsRead, NothingLost, Bounded, HasHead, Leftover, BlankLine
<1>3. CASE /\ ~HasHead(n) /\ result' = IF Below(size') THEN "reading" ELSE "refused"
           /\ UNCHANGED <<head, leftover>>
  BY <1>1, <1>3 DEF HInv, HeadTypeOK, WithinIsRead, NothingLost, Bounded, HasHead, Below, BlankLine
<1> QED
  BY <1>2, <1>3 DEF AppendPiece

LEMMA HeadStep ==
  ASSUME HInv, [HeadNext]_headVars
  PROVE  HInv'
<1>1. CASE Eof
  BY <1>1 DEF Eof, HInv, HeadTypeOK, WithinIsRead, NothingLost, Bounded
<1>2. CASE \E n \in 1 .. Chunk : AppendPiece(n)
  BY <1>2, AppendKeeps
<1>3. CASE UNCHANGED headVars
  BY <1>3 DEF headVars, HInv, HeadTypeOK, WithinIsRead, NothingLost, Bounded
<1> QED
  BY <1>1, <1>2, <1>3 DEF HeadNext

LEMMA HeadInvariance == HeadSpec => []HInv
<1>1. HInv /\ [HeadNext]_headVars => HInv'
  BY HeadStep
<1> QED
  BY <1>1, HeadStart, PTL DEF HeadSpec

(* What the reader keeps lies within the stream.                           *)
THEOREM HeadTypeHolds == HeadSpec => []HeadTypeOK
<1>1. HInv => HeadTypeOK
  BY DEF HInv
<1> QED
  BY <1>1, HeadInvariance, PTL

(* A head within the limit is never refused, no byte is lost between the   *)
(* head and what follows it, and the buffer stays below the limit and one  *)
(* piece - in whatever pieces the stream comes, and however long it is.    *)
THEOREM HeadReadWhole == HeadSpec => []HeadIsRead
<1>1. HInv => HeadIsRead
  BY DEF HInv, HeadIsRead
<1> QED
  BY <1>1, HeadInvariance, PTL

-----------------------------------------------------------------------------
(***************************************************************************)
(* When the range of worker ports is a set of ports, for any width of the  *)
(* integers, any base and any count.                                       *)
(***************************************************************************)

LEMMA LeastNumber ==
  ASSUME NEW S \in SUBSET Nat, S # {}
  PROVE  \E x \in S : \A y \in S : x <= y
<1> DEFINE R == OpToRel(<, Nat)
<1>1. IsWellFoundedOn(R, Nat)
  BY NatLessThanWellFounded
<1>2. \A x, y \in Nat : y < x => <<y, x>> \in R
  BY DEF OpToRel
<1> HIDE DEF R
<1>3. PICK x \in S : \A y \in S : ~(<<y, x>> \in R)
  BY <1>1, WFMin
<1>4. \A y \in S : ~(y < x)
  BY <1>2, <1>3
<1> QED
  BY <1>4

LEMMA LeastOffset ==
  ASSUME Offsets # {}
  PROVE  Min(Offsets) \in Offsets
<1>1. Offsets \in SUBSET Nat
  BY PortRangeOK DEF Offsets
<1> QED
  BY <1>1, LeastNumber DEF Min

LEMMA PortsAreNumbers ==
  ASSUME NEW i \in 0 .. Count - 1
  PROVE  /\ Port(i) \in Numbers
         /\ Base + i < PortModulus => Port(i) = Base + i
<1>1. Base + i \in Nat /\ PortModulus \in Nat \ {0}
  BY PortRangeOK
<1>2. (Base + i) % PortModulus \in 0 .. PortModulus - 1
  BY <1>1
<1>3. Base + i < PortModulus => (Base + i) % PortModulus = Base + i
  BY <1>1
<1> QED
  BY <1>2, <1>3 DEF Port, Numbers

PInv == PortTypeOK /\ PortIsOwn

\* A port that is handed out was nobody's.
LEMMA AllocateKeeps ==
  ASSUME PInv, Allocate
  PROVE  /\ PInv'
         /\ \/ /\ Offsets = {} /\ returned' = Exhausted /\ UNCHANGED <<inUse, sessionsAt>>
            \/ \E i \in Offsets :
                   /\ returned' = Port(i) /\ inUse' = inUse \cup {Port(i)}
                   /\ Port(i) # Exhausted => sessionsAt' = [sessionsAt EXCEPT ![Port(i)] = 1]
<1>1. CASE Offsets = {} /\ returned' = Exhausted /\ UNCHANGED <<inUse, sessionsAt>>
  <2>1. Exhausted \in Numbers
    BY PortRangeOK DEF Exhausted, Numbers
  <2> QED
    BY <1>1, <2>1 DEF PInv, PortTypeOK, PortIsOwn
<1>2. CASE Offsets # {}
  <2> DEFINE i == Min(Offsets)
             p == Port(i)
  <2>1. i \in Offsets
    BY <1>2, LeastOffset
  <2>2. i \in 0 .. Count - 1 /\ p \notin inUse
    BY <2>1 DEF Offsets
  <2>3. p \in Numbers
    BY <2>2, PortsAreNumbers
  <2>4. /\ inUse' = inUse \cup {p} /\ returned' = p
        /\ sessionsAt' = IF p = Exhausted THEN sessionsAt ELSE [sessionsAt EXCEPT ![p] = @ + 1]
    BY <1>2 DEF Allocate, Marked
  <2>5. sessionsAt[p] = 0
    BY <2>2, <2>3 DEF PInv, PortTypeOK
  <2> HIDE DEF i, p
  <2>6. PInv'
    BY <2>3, <2>4, <2>5 DEF PInv, PortTypeOK, PortIsOwn
  <2>7. p # Exhausted => sessionsAt' = [sessionsAt EXCEPT ![p] = 1]
    BY <2>3, <2>4, <2>5 DEF PInv, PortTypeOK
  <2> QED
    BY <2>1, <2>4, <2>6, <2>7 DEF p
<1> QED
  BY <1>1, <1>2 DEF Allocate

LEMMA ReleaseKeeps ==
  ASSUME PInv, NEW p \in Numbers, Release(p)
  PROVE  PInv' /\ sessionsAt' = [sessionsAt EXCEPT ![p] = 0] /\ sessionsAt[p] = 1
<1>1. sessionsAt[p] \in Nat /\ sessionsAt[p] > 0 /\ sessionsAt[p] <= 1
  BY DEF PInv, PortTypeOK, PortIsOwn, Release
<1>2. sessionsAt[p] = 1 /\ sessionsAt[p] - 1 = 0
  BY <1>1
<1>3. sessionsAt' = [sessionsAt EXCEPT ![p] = sessionsAt[p] - 1]
  BY DEF Release
<1>4. sessionsAt' = [sessionsAt EXCEPT ![p] = 0]
  BY <1>2, <1>3
<1> QED
  BY <1>2, <1>4 DEF PInv, PortTypeOK, PortIsOwn, Release, Unmarked

LEMMA PortStart ==
  ASSUME PortInit
  PROVE  PInv
BY DEF PortInit, PInv, PortTypeOK, PortIsOwn

LEMMA PortStep ==
  ASSUME PInv, [PortNext]_portVars
  PROVE  PInv'
<1>1. CASE UNCHANGED portVars
  BY <1>1 DEF portVars, PInv, PortTypeOK, PortIsOwn
<1> QED
  BY <1>1, AllocateKeeps, ReleaseKeeps DEF PortNext

LEMMA PortInvariance == PortSpec => []PInv
<1>1. PInv /\ [PortNext]_portVars => PInv'
  BY PortStep
<1> QED
  BY <1>1, PortStart, PTL DEF PortSpec

(* A session's port is marked.                                             *)
THEOREM PortTypeHolds == PortSpec => []PortTypeOK
<1>1. PInv => PortTypeOK
  BY DEF PInv
<1> QED
  BY <1>1, PortInvariance, PTL

(* No two sessions have one port, even if the range wraps.                 *)
THEOREM PortsAreOwn == PortSpec => []PortIsOwn
<1>1. PInv => PortIsOwn
  BY DEF PInv
<1> QED
  BY <1>1, PortInvariance, PTL

-----------------------------------------------------------------------------
(***************************************************************************)
(* A range that does not reach the end of the port numbers.                *)
(***************************************************************************)
NoWrap == Base > 0 /\ Base + Count <= PortModulus

\* Only the ports of sessions are marked.
FInv == PInv /\ ExhaustedMeansFull /\ \A p \in inUse : sessionsAt[p] > 0

LEMMA PortsAreReal ==
  ASSUME NoWrap
  PROVE  \A i \in 0 .. Count - 1 : Port(i) \in Numbers /\ Port(i) # Exhausted
BY PortsAreNumbers, PortRangeOK DEF NoWrap, Exhausted

LEMMA FullStep ==
  ASSUME NoWrap, FInv, [PortNext]_portVars
  PROVE  FInv'
<1>1. PInv'
  BY PortStep DEF FInv
<1>2. CASE Allocate
  <2>1. CASE Offsets = {} /\ returned' = Exhausted /\ UNCHANGED <<inUse, sessionsAt>>
    <3>1. \A i \in 0 .. Count - 1 : Port(i) \in inUse
      BY <2>1 DEF Offsets
    <3>2. \A p \in inUse' : sessionsAt'[p] > 0
      BY <2>1 DEF FInv
    <3>3. ExhaustedMeansFull'
      BY <2>1, <3>1 DEF FInv, ExhaustedMeansFull
    <3> QED
      BY <1>1, <3>2, <3>3 DEF FInv
  <2>2. ASSUME NEW i \in Offsets, returned' = Port(i), inUse' = inUse \cup {Port(i)},
               Port(i) # Exhausted => sessionsAt' = [sessionsAt EXCEPT ![Port(i)] = 1]
        PROVE  FInv'
    <3>1. Port(i) \in Numbers /\ Port(i) # Exhausted
      BY PortsAreReal DEF Offsets
    <3>2. \A p \in inUse' : sessionsAt'[p] > 0
      BY <2>2, <3>1 DEF FInv, PInv, PortTypeOK
    <3>3. ExhaustedMeansFull'
      BY <2>2, <3>1 DEF ExhaustedMeansFull
    <3> QED
      BY <1>1, <3>2, <3>3 DEF FInv
  <2> QED
    BY <1>2, <2>1, <2>2, AllocateKeeps DEF FInv
<1>3. ASSUME NEW p \in Numbers, Release(p)
      PROVE  FInv'
  <2>1. sessionsAt' = [sessionsAt EXCEPT ![p] = 0] /\ inUse' = inUse \ {p} /\ returned' = NoCall
    BY <1>3, ReleaseKeeps DEF FInv, Release, Unmarked
  <2> QED
    BY <1>1, <2>1 DEF FInv, PInv, PortTypeOK, ExhaustedMeansFull, NoCall, Exhausted
<1>4. CASE UNCHANGED portVars
  BY <1>1, <1>4 DEF portVars, FInv, ExhaustedMeansFull
<1> QED
  BY <1>2, <1>3, <1>4 DEF PortNext

(* In such a range a session is refused only if every port has a session.  *)
THEOREM PortsExhaustedMeansFull == NoWrap => (PortSpec => []ExhaustedMeansFull)
<1>1. SUFFICES ASSUME NoWrap
               PROVE  PortSpec => []ExhaustedMeansFull
  OBVIOUS
<1>2. PortInit => FInv
  BY PortStart DEF PortInit, FInv, ExhaustedMeansFull, NoCall, Exhausted
<1>3. FInv /\ [PortNext]_portVars => FInv'
  BY <1>1, FullStep
<1>4. FInv => ExhaustedMeansFull
  BY DEF FInv
<1> QED
  BY <1>2, <1>3, <1>4, PTL DEF PortSpec

-----------------------------------------------------------------------------
(***************************************************************************)
(* The cookie only ever moves on to the session of a page that has arrived *)
(* later, for any number of tabs, loads, requests under way and reaped     *)
(* sessions.                                                               *)
(***************************************************************************)

\* What is asked carries numbers of loads that were begun.
MailIsKnown == \A m \in mail : m.page \in 0 .. loads /\ m.cookie \in 0 .. loads

TabsInv == BrowserTypeOK /\ MailIsKnown

LEMMA BrowserStart ==
  ASSUME BrowserInit
  PROVE  TabsInv
BY BrowserTabsOK
   DEF BrowserInit, TabsInv, BrowserTypeOK, LoadState, MailIsKnown, NoLoad, Nothing

LEMMA LoadKeeps ==
  ASSUME TabsInv, NEW t \in Tabs, Load(t)
  PROVE  TabsInv'
<1>1. loads \in Nat /\ loads' = loads + 1 /\ loads' \in 1 .. MaxLoads
  BY BrowserTabsOK DEF Load, TabsInv, BrowserTypeOK
<1>2. 0 .. loads \subseteq 0 .. loads'
  BY <1>1
<1>3. waits' \in [Tabs -> 0 .. loads']
  BY <1>1, <1>2 DEF Load, TabsInv, BrowserTypeOK
<1>4. load' \in [Loads -> LoadState]
  BY <1>1 DEF Load, LoadState, TabsInv, BrowserTypeOK, Loads
<1>5. UNCHANGED <<page, cookie, arrivals, arrived, sessions, mail, served>>
  BY DEF Load
<1> QED
  BY <1>1, <1>2, <1>3, <1>4, <1>5 DEF TabsInv, BrowserTypeOK, MailIsKnown

(* A page that is shown has set the cookie: no request goes without one.   *)
LEMMA AskKeeps ==
  ASSUME TabsInv, NEW t \in Tabs, Ask(t)
  PROVE  TabsInv'
<1>1. page[t] \in Loads /\ page[t] \in 0 .. loads /\ cookie \in Loads /\ cookie \in 0 .. loads
  BY BrowserTabsOK DEF Ask, TabsInv, BrowserTypeOK, NoLoad, Loads
<1>2. [page |-> page[t], cookie |-> cookie] \in Request
  BY <1>1 DEF Request
<1> QED
  BY <1>1, <1>2 DEF Ask, TabsInv, BrowserTypeOK, MailIsKnown

LEMMA StartKeeps ==
  ASSUME TabsInv, NEW n \in Loads, Start(n) \/ Fail(n) \/ Reap(n)
  PROVE  TabsInv'
BY DEF Start, Fail, Reap, LoadState, TabsInv, BrowserTypeOK, MailIsKnown

LEMMA AnswerKeeps ==
  ASSUME TabsInv, NEW n \in Loads, Answer(n)
  PROVE  TabsInv'
<1>1. load' \in [Loads -> LoadState]
  BY DEF Answer, LoadState, TabsInv, BrowserTypeOK
<1>2. PICK t \in Tabs : /\ waits[t] = n
                        /\ waits' = [waits EXCEPT ![t] = NoLoad]
                        /\ ShowPage(t, n) \/ ShowError(t, n)
  BY DEF Answer
<1>3. n \in 0 .. loads /\ n # NoLoad /\ NoLoad \in 0 .. loads
  BY <1>2, BrowserTabsOK DEF TabsInv, BrowserTypeOK, Loads, NoLoad
<1>4. waits' \in [Tabs -> 0 .. loads] /\ page' \in [Tabs -> 0 .. loads] /\ cookie' \in 0 .. loads
  BY <1>2, <1>3 DEF ShowPage, ShowError, TabsInv, BrowserTypeOK, CookieOf
<1>5. \A u \in Tabs : page'[u] # NoLoad => cookie' # NoLoad
  BY <1>2, <1>3 DEF ShowPage, ShowError, TabsInv, BrowserTypeOK, CookieOf
<1>6. arrivals' \in Nat /\ arrived' \in [Loads -> 0 .. arrivals']
  <2>1. CASE ShowPage(t, n)
    <3>1. /\ arrivals \in Nat /\ arrived \in [Loads -> 0 .. arrivals]
          /\ arrivals' = arrivals + 1 /\ arrived' = [arrived EXCEPT ![n] = arrivals + 1]
      BY <2>1 DEF ShowPage, TabsInv, BrowserTypeOK
    <3>2. 0 .. arrivals \subseteq 0 .. arrivals + 1 /\ arrivals + 1 \in 0 .. arrivals + 1
      BY <3>1
    <3>3. \A x \in Loads : arrived[x] \in 0 .. arrivals + 1
      BY <3>1, <3>2
    <3> QED
      BY <3>1, <3>2, <3>3
  <2>2. CASE ShowError(t, n)
    BY <2>2 DEF ShowError, TabsInv, BrowserTypeOK
  <2> QED
    BY <1>2, <2>1, <2>2
<1>7. UNCHANGED <<loads, sessions, mail, served>>
  BY DEF Answer
<1> QED
  BY <1>1, <1>4, <1>5, <1>6, <1>7 DEF TabsInv, BrowserTypeOK, MailIsKnown

LEMMA ServeKeeps ==
  ASSUME TabsInv, NEW m \in mail, Serve(m)
  PROVE  TabsInv'
<1>1. m.page \in 0 .. loads /\ m.cookie \in 0 .. loads /\ NoLoad \in 0 .. loads
  BY BrowserTabsOK DEF TabsInv, BrowserTypeOK, MailIsKnown, NoLoad
<1> QED
  BY <1>1 DEF Serve, Route, TabsInv, BrowserTypeOK, MailIsKnown

LEMMA TabsStep ==
  ASSUME TabsInv, [BrowserNext]_browserVars
  PROVE  TabsInv'
<1>1. CASE UNCHANGED browserVars
  BY <1>1 DEF browserVars, TabsInv, BrowserTypeOK, MailIsKnown
<1> QED
  BY <1>1, LoadKeeps, AskKeeps, StartKeeps, AnswerKeeps, ServeKeeps DEF BrowserNext

(* With any number of tabs, a page that is shown has set the cookie, and    *)
(* nothing is known of a load that was not begun.                          *)
THEOREM BrowserTypeHolds == BrowserSpec => []BrowserTypeOK
<1>1. TabsInv /\ [BrowserNext]_browserVars => TabsInv'
  BY TabsStep
<1>2. TabsInv => BrowserTypeOK
  BY DEF TabsInv
<1> QED
  BY <1>1, <1>2, BrowserStart, PTL DEF BrowserSpec

Here(n) == n \in Loads /\ arrived[n] # 0

\* Why a request carries the id of no older session than its page's: the cookie
\* is that of the last page that has arrived, and none arrives twice.
CookieIsLast ==
    /\ \A n \in Loads : arrived[n] # 0 => load[n] = "ended"
    /\ cookie # NoLoad => Here(cookie) /\ arrived[cookie] = arrivals
    /\ \A t \in Tabs : page[t] # NoLoad => Here(page[t])
    /\ \A m \in mail : Here(m.page) /\ Here(m.cookie) /\ arrived[m.page] <= arrived[m.cookie]
    /\ served.by # NoLoad =>
          Here(served.by) /\ Here(served.page) /\ arrived[served.page] <= arrived[served.by]

NotBegun == \A n \in Loads : n > loads => load[n] = "unused"

BInv == TabsInv /\ NotBegun /\ CookieIsLast

LEMMA NotBegunStep ==
  ASSUME TabsInv, NotBegun, [BrowserNext]_browserVars
  PROVE  NotBegun'
<1>0. load \in [Loads -> LoadState] /\ loads \in Nat /\ \A n \in Loads : n \in Nat
  BY BrowserTabsOK DEF TabsInv, BrowserTypeOK, Loads
<1>1. ASSUME NEW t \in Tabs, Load(t) PROVE NotBegun'
  <2>1. loads' = loads + 1 /\ load' = [load EXCEPT ![loads + 1] = "sent"]
    BY <1>1 DEF Load
  <2>2. \A n \in Loads : n > loads + 1 => n > loads /\ n # loads + 1
    BY <1>0
  <2> QED
    BY <1>0, <2>1, <2>2 DEF NotBegun
<1>2. ASSUME NEW n \in Loads, Start(n) \/ Fail(n) PROVE NotBegun'
  BY <1>0, <1>2 DEF Start, Fail, NotBegun
<1>3. ASSUME NEW n \in Loads, Answer(n) PROVE NotBegun'
  <2>1. load[n] # "unused" /\ load' = [load EXCEPT ![n] = "ended"] /\ loads' = loads
    BY <1>3 DEF Answer, ShowPage, ShowError
  <2> QED
    BY <1>0, <2>1 DEF NotBegun
<1>4. CASE \/ \E t \in Tabs : Ask(t)
           \/ \E n \in Loads : Reap(n)
           \/ \E m \in mail : Serve(m)
           \/ UNCHANGED browserVars
  BY <1>4 DEF Ask, Reap, Serve, browserVars, NotBegun
<1> QED
  BY <1>1, <1>2, <1>3, <1>4 DEF BrowserNext

LEMMA LastAnswered ==
  ASSUME BInv, NEW n \in Loads, Answer(n)
  PROVE  CookieIsLast'
<1>1. PICK t \in Tabs : ShowPage(t, n) \/ ShowError(t, n)
  BY DEF Answer
<1>2. load' = [load EXCEPT ![n] = "ended"] /\ UNCHANGED <<mail, served>>
  BY DEF Answer
<1>3. CASE ShowPage(t, n)
  <2>1. /\ load[n] = "started" /\ page' = [page EXCEPT ![t] = n] /\ cookie' = n
        /\ arrivals' = arrivals + 1 /\ arrived' = [arrived EXCEPT ![n] = arrivals + 1]
    BY <1>3 DEF ShowPage, CookieOf
  <2>2. arrivals \in Nat /\ arrived \in [Loads -> 0 .. arrivals] /\ arrived[n] = 0
    BY <2>1 DEF BInv, TabsInv, BrowserTypeOK, CookieIsLast
  <2>3. arrived'[n] = arrivals + 1 /\ arrivals + 1 # 0
    BY <2>1, <2>2
  <2>4. \A x \in Loads : arrived[x] # 0 => x # n /\ arrived'[x] = arrived[x]
    BY <2>1, <2>2
  <2>5. \A x \in Loads : arrived'[x] # 0 => load'[x] = "ended"
    BY <1>2, <2>1, <2>2 DEF BInv, TabsInv, BrowserTypeOK, CookieIsLast
  <2>6. \A u \in Tabs : page'[u] # NoLoad => page'[u] \in Loads /\ arrived'[page'[u]] # 0
    BY <2>1, <2>3, <2>4 DEF BInv, TabsInv, BrowserTypeOK, CookieIsLast, Here
  <2>7. \A m \in mail : Here(m.page)' /\ Here(m.cookie)' /\ arrived'[m.page] <= arrived'[m.cookie]
    BY <2>4 DEF BInv, CookieIsLast, Here
  <2>8. served.by # NoLoad => /\ Here(served.by)' /\ Here(served.page)'
                              /\ arrived'[served.page] <= arrived'[served.by]
    BY <1>2, <2>4 DEF BInv, CookieIsLast, Here
  <2>9. Here(cookie)' /\ arrived'[cookie'] = arrivals'
    BY <2>1, <2>3 DEF Here
  <2> QED
    BY <1>2, <2>5, <2>6, <2>7, <2>8, <2>9 DEF CookieIsLast, Here
<1>4. CASE ShowError(t, n)
  <2>1. page' = [page EXCEPT ![t] = NoLoad] /\ UNCHANGED <<cookie, arrivals, arrived>>
    BY <1>4 DEF ShowError
  <2>2. \A x \in Loads : arrived'[x] # 0 => load'[x] = "ended"
    BY <1>2, <2>1 DEF BInv, TabsInv, BrowserTypeOK, CookieIsLast
  <2>3. \A u \in Tabs : page'[u] # NoLoad => page'[u] = page[u]
    BY <2>1 DEF BInv, TabsInv, BrowserTypeOK
  <2> QED
    BY <1>2, <2>1, <2>2, <2>3 DEF BInv, CookieIsLast, Here
<1> QED
  BY <1>1, <1>3, <1>4

LEMMA LastStep ==
  ASSUME BInv, [BrowserNext]_browserVars
  PROVE  BInv'
<1>1. TabsInv /\ TabsInv' /\ NotBegun'
  BY TabsStep, NotBegunStep DEF BInv
<1>2. CASE \/ \E t \in Tabs : Load(t)
           \/ \E n \in Loads : Start(n) \/ Fail(n) \/ Reap(n)
  <2>1. UNCHANGED <<page, cookie, arrivals, arrived, mail, served>>
    BY <1>2 DEF Load, Start, Fail, Reap
  <2>2. \A n \in Loads : load[n] = "ended" => load'[n] = "ended"
    <3>1. load \in [Loads -> LoadState]
      BY <1>1 DEF TabsInv, BrowserTypeOK
    <3>2. ASSUME NEW t \in Tabs, Load(t)
          PROVE  \A n \in Loads : load[n] = "ended" => load'[n] = "ended"
      <4>1. load' = [load EXCEPT ![loads + 1] = "sent"] /\ waits' = [waits EXCEPT ![t] = loads + 1]
        BY <3>2 DEF Load
      <4>2. loads \in Nat /\ \A n \in Loads : n > loads => load[n] = "unused"
        BY <1>1, BrowserTabsOK DEF TabsInv, BrowserTypeOK, BInv, NotBegun
      <4>3. \A n \in Loads : load[n] = "ended" => n # loads + 1
        BY <4>2 DEF Loads
      <4> QED
        BY <3>1, <4>1, <4>3
    <3>3. ASSUME NEW n \in Loads, Start(n) \/ Fail(n) \/ Reap(n)
          PROVE  \A x \in Loads : load[x] = "ended" => load'[x] = "ended"
      BY <3>1, <3>3 DEF Start, Fail, Reap
    <3> QED
      BY <1>2, <3>2, <3>3
  <2> QED
    BY <1>1, <2>1, <2>2 DEF BInv, CookieIsLast, Here
<1>3. ASSUME NEW t \in Tabs, Ask(t)
      PROVE  BInv'
  <2>1. /\ mail' = mail \cup {[page |-> page[t], cookie |-> cookie]} /\ page[t] # NoLoad
        /\ UNCHANGED <<load, page, cookie, arrivals, arrived, served>>
    BY <1>3 DEF Ask
  <2>2. cookie # NoLoad /\ arrivals \in Nat /\ arrived \in [Loads -> 0 .. arrivals]
    BY <1>1, <2>1 DEF TabsInv, BrowserTypeOK
  <2>3. Here(page[t]) /\ Here(cookie) /\ arrived[page[t]] <= arrived[cookie]
    BY <2>1, <2>2 DEF BInv, CookieIsLast, Here
  <2> QED
    BY <1>1, <2>1, <2>3 DEF BInv, CookieIsLast, Here
<1>4. ASSUME NEW m \in mail, Serve(m)
      PROVE  BInv'
  <2>1. /\ mail' = mail \ {m} /\ served' = [page |-> m.page, by |-> Route(m)]
        /\ UNCHANGED <<load, page, cookie, arrivals, arrived>>
    BY <1>4 DEF Serve
  <2>2. served'.page = m.page /\ served'.by \in {NoLoad, m.cookie}
    BY <2>1 DEF Route
  <2> QED
    BY <1>1, <2>1, <2>2 DEF BInv, CookieIsLast, Here
<1>5. ASSUME NEW n \in Loads, Answer(n)
      PROVE  BInv'
  BY <1>1, <1>5, LastAnswered DEF BInv
<1>6. CASE UNCHANGED browserVars
  BY <1>1, <1>6 DEF browserVars, BInv, CookieIsLast, Here
<1> QED
  BY <1>2, <1>3, <1>4, <1>5, <1>6 DEF BrowserNext

(* proxy.cpp:302-331 and 366-386, a browser with any number of tabs: a      *)
(* request of a page is routed to the session of that page, to one whose   *)
(* page has come to the browser since, or to none, whatever loads fail,    *)
(* are refused or given up and whatever sessions are reaped.               *)
THEOREM BrowserNeverOlder == BrowserSpec => []NeverAnOlderSession
<1>1. BrowserInit => BInv
  BY BrowserStart DEF BrowserInit, BInv, NotBegun, CookieIsLast, Nothing
<1>2. BInv /\ [BrowserNext]_browserVars => BInv'
  BY LastStep
<1>3. BInv => NeverAnOlderSession
  <2> SUFFICES ASSUME BInv, served.by # NoLoad
               PROVE  arrived[served.by] >= arrived[served.page]
    BY DEF NeverAnOlderSession
  <2>1. /\ served.by \in Loads /\ served.page \in Loads
        /\ arrived[served.page] <= arrived[served.by]
    BY DEF BInv, CookieIsLast, Here
  <2>2. arrived[served.by] \in Nat /\ arrived[served.page] \in Nat
    BY <2>1 DEF BInv, TabsInv, BrowserTypeOK
  <2> QED
    BY <2>1, <2>2
<1> QED
  BY <1>1, <1>2, <1>3, PTL DEF BrowserSpec

-----------------------------------------------------------------------------
(***************************************************************************)
(* The shares of the CPU, for any number of workers, ticks and width of the*)
(* counters.                                                               *)
(***************************************************************************)

\* The system's counters `i` and `t` were read no later than `j` and `u`.
ReadBefore(i, t, j, u) == i <= j /\ t <= u /\ j - i <= u - t

\* Of two readings the one with the smaller total is the earlier.
InOrder(i, t, j, u) ==
    /\ t <= u => ReadBefore(i, t, j, u)
    /\ u <= t => ReadBefore(j, u, i, t)

\* Why a difference wraps only in an overtaken poll: all readings of the system
\* are readings of one clock, a sample is a reading of some poll, and the ticks
\* of a worker are read and stored under one mutex.
SamplesAreOld ==
    /\ \A p \in Pollers : ReadBefore(seen[p].idle, seen[p].total, idle, total)
    /\ \A p, q \in Pollers : InOrder(seen[p].idle, seen[p].total, seen[q].idle, seen[q].total)
    /\ samples[System] # NoSample =>
          /\ ReadBefore(samples[System].proc, samples[System].total, idle, total)
          /\ \A p \in Pollers :
                InOrder(samples[System].proc, samples[System].total, seen[p].idle, seen[p].total)
    /\ \A w \in Workers : samples[w] # NoSample =>
          samples[System] # NoSample /\ samples[w].total = samples[System].total
    /\ \A w \in alive : samples[w] # NoSample => samples[w].proc <= ticks[w]

CpuInv == CpuTypeOK /\ SamplesAreOld

LEMMA ModIsSame ==
  ASSUME NEW x \in Nat, NEW m \in Nat, x < m
  PROVE  x % m = x
OBVIOUS

LEMMA SmallDifference ==
  ASSUME NEW a \in Nat, NEW b \in Nat, NEW m \in Nat, a < m, b <= a
  PROVE  a - b \in Nat /\ a - b < m
OBVIOUS

LEMMA MinusIsDifference ==
  ASSUME NEW a \in Counter, NEW b \in Counter
  PROVE  /\ Minus(a, b) \in 0 .. CounterModulus - 1
         /\ b <= a => Minus(a, b) = a - b
<1>1. a \in Nat /\ b \in Nat /\ CounterModulus \in Nat /\ CounterModulus > 0 /\ a < CounterModulus
  BY CpuSamplerOK DEF Counter
<1>2. (a - b) % CounterModulus \in 0 .. CounterModulus - 1
  BY <1>1
<1>3. b <= a => (a - b) % CounterModulus = a - b
  BY <1>1, SmallDifference, ModIsSame
<1> QED
  BY <1>2, <1>3 DEF Minus

LEMMA ShareIsTyped ==
  ASSUME NEW part \in Counter, NEW whole \in Counter, NEW old \in Sample
  PROVE  /\ ShareOf(part, whole, old) \in Shares
         /\ old = NoSample => ShareOf(part, whole, old) = NoShare
         /\ old # NoSample =>
               /\ old.proc \in Counter /\ old.total \in Counter
               /\ old.proc <= part => ShareOf(part, whole, old).part <= part - old.proc
               /\ old.total <= whole => ShareOf(part, whole, old).whole = whole - old.total
<1>1. 0 \in 0 .. CounterModulus - 1 /\ 0 \in Counter /\ NoShare \in Shares
      /\ NoShare.part = 0 /\ NoShare.whole = 0
  BY CpuSamplerOK DEF Counter, NoShare, Shares
<1>2. CASE old = NoSample
  BY <1>1, <1>2 DEF ShareOf
<1>3. CASE old # NoSample
  <2>1. old.proc \in Counter /\ old.total \in Counter
    BY <1>3 DEF Sample
  <2>2. /\ Minus(part, old.proc) \in 0 .. CounterModulus - 1
        /\ old.proc <= part => Minus(part, old.proc) = part - old.proc
    BY <2>1, MinusIsDifference
  <2>3. /\ Minus(whole, old.total) \in 0 .. CounterModulus - 1
        /\ old.total <= whole => Minus(whole, old.total) = whole - old.total
    BY <2>1, MinusIsDifference
  <2>4. part \in Nat /\ old.proc \in Nat
    BY <2>1, CpuSamplerOK DEF Counter
  <2>5. CASE Minus(whole, old.total) = 0
    <3>1. ShareOf(part, whole, old) = NoShare
      BY <2>5 DEF ShareOf
    <3> QED
      BY <1>1, <1>3, <2>1, <2>3, <2>4, <2>5, <3>1
  <2>6. CASE Minus(whole, old.total) # 0
    <3>1. ShareOf(part, whole, old) = [part |-> Minus(part, old.proc), whole |-> Minus(whole, old.total)]
      BY <1>3, <2>6 DEF ShareOf
    <3> QED
      BY <1>3, <2>1, <2>2, <2>3, <2>4, <3>1 DEF Shares
  <2> QED
    BY <2>5, <2>6
<1> QED
  BY <1>2, <1>3

LEMMA CpuStart ==
  ASSUME CpuInit
  PROVE  CpuInv
<1>1. 0 \in Counter /\ 0 \in 0 .. CounterModulus - 1 /\ 0 \in 0 .. 0
  BY CpuSamplerOK DEF Counter
<1>2. CpuTypeOK
  BY <1>1 DEF CpuInit, CpuTypeOK, Sample, Shares, NoShare
<1> QED
  BY <1>1, <1>2 DEF CpuInit, CpuInv, SamplesAreOld, ReadBefore, InOrder

LEMMA TickKeeps ==
  ASSUME CpuInv, Tick
  PROVE  CpuInv'
<1>1. /\ total \in Nat /\ total' = total + 1 /\ total + 1 \in Counter
      /\ idle \in Nat /\ idle <= total /\ ticks \in [Workers -> 0 .. total]
  BY CpuSamplerOK DEF Tick, CpuInv, CpuTypeOK, Counter
<1>2. \A w \in Workers : ticks[w] \in Nat /\ ticks[w] <= total
  BY <1>1
<1>3. UNCHANGED <<alive, at, seen, samples, system, share>>
  BY DEF Tick
<1>4. idle' \in 0 .. total' /\ ticks' \in [Workers -> 0 .. total']
      /\ \A w \in Workers : ticks[w] <= ticks'[w]
  <2>1. CASE idle' = idle + 1 /\ UNCHANGED ticks
    BY <1>1, <1>2, <2>1
  <2>2. ASSUME NEW w \in alive, ticks' = [ticks EXCEPT ![w] = @ + 1], UNCHANGED idle
        PROVE  idle' \in 0 .. total' /\ ticks' \in [Workers -> 0 .. total']
               /\ \A v \in Workers : ticks[v] <= ticks'[v]
    <3>1. w \in Workers /\ ticks[w] + 1 \in 0 .. total'
      BY <1>1, <1>2 DEF CpuInv, CpuTypeOK
    <3>2. \A v \in Workers : ticks'[v] = IF v = w THEN ticks[w] + 1 ELSE ticks[v]
      BY <1>1, <2>2
    <3>3. \A v \in Workers : ticks'[v] \in 0 .. total'
      BY <1>1, <1>2, <3>1, <3>2
    <3>4. ticks' \in [Workers -> 0 .. total']
      BY <1>1, <2>2, <3>3
    <3> QED
      BY <1>1, <1>2, <2>2, <3>2, <3>4
  <2>3. CASE UNCHANGED <<idle, ticks>>
    BY <1>1, <1>2, <2>3
  <2> QED
    BY <2>1, <2>2, <2>3 DEF Tick
<1>5. CpuTypeOK'
  BY <1>1, <1>3, <1>4 DEF CpuInv, CpuTypeOK
<1>6. idle' = idle \/ idle' = idle + 1
  BY DEF Tick
<1>7. \A i, t \in Nat : ReadBefore(i, t, idle, total) => ReadBefore(i, t, idle', total')
  BY <1>1, <1>6 DEF ReadBefore
<1>8. /\ \A p \in Pollers : seen[p].idle \in Nat /\ seen[p].total \in Nat
      /\ samples[System] # NoSample => samples[System].proc \in Nat /\ samples[System].total \in Nat
      /\ \A w \in Workers : samples[w] # NoSample => samples[w].proc \in Nat
  BY CpuSamplerOK DEF CpuInv, CpuTypeOK, Counter, Sample
<1>9. \A w \in alive : samples[w] # NoSample => samples[w].proc <= ticks'[w]
  <2> SUFFICES ASSUME NEW w \in alive, samples[w] # NoSample
               PROVE  samples[w].proc <= ticks'[w]
    OBVIOUS
  <2>1. w \in Workers /\ samples[w].proc <= ticks[w]
    BY DEF CpuInv, CpuTypeOK, SamplesAreOld
  <2>2. samples[w].proc \in Nat /\ ticks[w] \in Nat /\ ticks'[w] \in Nat /\ ticks[w] <= ticks'[w]
    BY <1>1, <1>2, <1>4, <1>8, <2>1
  <2> QED
    BY <2>1, <2>2
<1>10. SamplesAreOld'
  BY <1>3, <1>7, <1>8, <1>9 DEF CpuInv, SamplesAreOld
<1> QED
  BY <1>5, <1>10 DEF CpuInv

LEMMA ReadKeeps ==
  ASSUME CpuInv, NEW p \in Pollers, Read(p)
  PROVE  CpuInv'
<1>1. idle \in Counter
  BY CpuSamplerOK DEF CpuInv, CpuTypeOK, Counter
<1>2. CpuTypeOK'
  BY <1>1 DEF Read, clock, CpuInv, CpuTypeOK
<1>3. \A i, t \in Nat : ReadBefore(i, t, idle, total) =>
          InOrder(i, t, idle, total) /\ InOrder(idle, total, i, t)
  BY CpuSamplerOK DEF CpuInv, CpuTypeOK, Counter, ReadBefore, InOrder
<1>4. ReadBefore(idle, total, idle, total) /\ InOrder(idle, total, idle, total)
  BY CpuSamplerOK DEF CpuInv, CpuTypeOK, Counter, ReadBefore, InOrder
<1>5. \A q \in Pollers : seen'[q] = IF q = p THEN [workers |-> alive, idle |-> idle, total |-> total]
                                   ELSE seen[q]
  BY DEF Read, CpuInv, CpuTypeOK
<1>6. /\ \A q \in Pollers : seen[q].idle \in Nat /\ seen[q].total \in Nat
      /\ samples[System] # NoSample => samples[System].proc \in Nat /\ samples[System].total \in Nat
  BY CpuSamplerOK DEF CpuInv, CpuTypeOK, Counter, Sample
<1>7. UNCHANGED <<clock, samples>>
  BY DEF Read
<1>8. \A q, r \in Pollers : InOrder(seen'[q].idle, seen'[q].total, seen'[r].idle, seen'[r].total)
  BY <1>3, <1>4, <1>5, <1>6 DEF CpuInv, SamplesAreOld
<1>9. samples[System] # NoSample => \A q \in Pollers :
          InOrder(samples[System].proc, samples[System].total, seen'[q].idle, seen'[q].total)
  BY <1>3, <1>5, <1>6 DEF CpuInv, SamplesAreOld
<1>10. \A q \in Pollers : ReadBefore(seen'[q].idle, seen'[q].total, idle, total)
  BY <1>4, <1>5 DEF CpuInv, SamplesAreOld
<1>11. SamplesAreOld'
  BY <1>7, <1>8, <1>9, <1>10 DEF clock, CpuInv, SamplesAreOld
<1> QED
  BY <1>2, <1>11 DEF CpuInv

LEMMA ShareOfSystemKeeps ==
  ASSUME CpuInv, NEW p \in Pollers, ShareOfSystem(p)
  PROVE  CpuInv'
<1>1. seen[p].idle \in Counter /\ seen[p].total \in Counter /\ samples[System] \in Sample
  BY DEF CpuInv, CpuTypeOK
<1>2. system' \in Shares
  BY <1>1, ShareIsTyped DEF ShareOfSystem
<1>3. CpuTypeOK'
  BY <1>2 DEF ShareOfSystem, clock, CpuInv, CpuTypeOK
<1> QED
  BY <1>3 DEF ShareOfSystem, clock, CpuInv, SamplesAreOld

(* The samples of a poll are its reading of the system, and ticks that are *)
(* read as they are stored.                                                *)
LEMMA ShareOfWorkersKeeps ==
  ASSUME CpuInv, NEW p \in Pollers, ShareOfWorkers(p)
  PROVE  CpuInv'
<1>1. /\ seen[p].idle \in Counter /\ seen[p].total \in Counter
      /\ seen[p].workers \subseteq Workers
      /\ \A x \in Workers \cup {System} : samples[x] \in Sample
  BY DEF CpuInv, CpuTypeOK
<1>2. \A w \in Workers : TicksOf(w) \in Counter /\ (w \in alive => TicksOf(w) = ticks[w])
  BY CpuSamplerOK DEF CpuInv, CpuTypeOK, TicksOf, Counter
<1>3. UNCHANGED <<clock, seen, system>>
  BY DEF ShareOfWorkers
<1>4. \A w \in Workers : share'[w] =
          IF w \in seen[p].workers THEN ShareOf(TicksOf(w), seen[p].total, samples[w]) ELSE NoShare
  BY DEF ShareOfWorkers
<1>5. NoShare \in Shares
  <2>1. 0 \in 0 .. CounterModulus - 1
    BY CpuSamplerOK DEF Counter
  <2> QED
    BY <2>1 DEF NoShare, Shares
<1>6. \A w \in Workers : share'[w] \in Shares
  BY <1>1, <1>2, <1>4, <1>5, ShareIsTyped
<1>7. samples' = Fresh(p) /\ Fresh(p) \in [Workers \cup {System} -> Sample]
  BY <1>1, <1>2 DEF ShareOfWorkers, Fresh, SystemSample, WorkerSample, Sample
<1>8. CpuTypeOK'
  <2>1. share' \in [Workers -> Shares]
    BY <1>6 DEF ShareOfWorkers
  <2>2. at' \in [Pollers -> {"off", "read", "half"}]
    BY DEF ShareOfWorkers, CpuInv, CpuTypeOK
  <2> QED
    BY <1>3, <1>7, <2>1, <2>2 DEF clock, CpuInv, CpuTypeOK
<1>9. samples'[System] = [proc |-> seen[p].idle, total |-> seen[p].total] /\ samples'[System] # NoSample
  <2>1. seen[p].total # -1
    BY <1>1, CpuSamplerOK DEF Counter
  <2> QED
    BY <1>7, <2>1 DEF Fresh, SystemSample, NoSample
<1>10. \A w \in Workers : samples'[w] # NoSample =>
           samples'[w] = [proc |-> TicksOf(w), total |-> seen[p].total]
  <2>1. \A w \in Workers : w # System
    BY CpuSamplerOK
  <2> QED
    BY <1>7, <2>1 DEF Fresh, WorkerSample
<1>11. \A w \in alive : samples'[w] # NoSample => samples'[w].proc <= ticks[w]
  <2> SUFFICES ASSUME NEW w \in alive, samples'[w] # NoSample
               PROVE  samples'[w].proc <= ticks[w]
    OBVIOUS
  <2>1. w \in Workers /\ TicksOf(w) = ticks[w] /\ TicksOf(w) \in Nat
    BY <1>2, CpuSamplerOK DEF CpuInv, CpuTypeOK, Counter
  <2>2. samples'[w] = [proc |-> TicksOf(w), total |-> seen[p].total]
    BY <1>10, <2>1
  <2>3. samples'[w].proc = TicksOf(w)
    BY <2>2
  <2> QED
    BY <2>1, <2>3
<1>12. \A w \in Workers : samples'[w] # NoSample =>
           samples'[System] # NoSample /\ samples'[w].total = samples'[System].total
  <2> SUFFICES ASSUME NEW w \in Workers, samples'[w] # NoSample
               PROVE  samples'[System] # NoSample /\ samples'[w].total = samples'[System].total
    OBVIOUS
  <2>1. samples'[w] = [proc |-> TicksOf(w), total |-> seen[p].total]
    BY <1>10
  <2>2. samples'[w].total = seen[p].total /\ samples'[System].total = seen[p].total
    BY <1>9, <2>1
  <2> QED
    BY <1>9, <2>2
<1>13. /\ samples'[System].proc = seen[p].idle /\ samples'[System].total = seen[p].total
       /\ UNCHANGED <<total, idle, ticks, alive, seen>>
  BY <1>3, <1>9 DEF clock
<1>14. SamplesAreOld'
  <2>1. /\ \A q \in Pollers : ReadBefore(seen'[q].idle, seen'[q].total, idle', total')
        /\ \A q, r \in Pollers : InOrder(seen'[q].idle, seen'[q].total, seen'[r].idle, seen'[r].total)
    BY <1>13 DEF CpuInv, SamplesAreOld
  <2>2. /\ ReadBefore(samples'[System].proc, samples'[System].total, idle', total')
        /\ \A q \in Pollers :
              InOrder(samples'[System].proc, samples'[System].total, seen'[q].idle, seen'[q].total)
    BY <1>13 DEF CpuInv, SamplesAreOld
  <2>3. \A w \in alive' : samples'[w] # NoSample => samples'[w].proc <= ticks'[w]
    BY <1>11, <1>13
  <2> QED
    BY <1>12, <2>1, <2>2, <2>3 DEF SamplesAreOld
<1> QED
  BY <1>8, <1>14 DEF CpuInv

LEMMA CpuStep ==
  ASSUME CpuInv, [CpuNext]_cpuVars
  PROVE  CpuInv'
<1>1. ASSUME NEW w \in Workers, Exit(w)
      PROVE  CpuInv'
  BY <1>1 DEF Exit, CpuInv, CpuTypeOK, SamplesAreOld
<1>2. CASE UNCHANGED cpuVars
  BY <1>2 DEF cpuVars, clock, CpuInv, CpuTypeOK, SamplesAreOld
<1> QED
  BY <1>1, <1>2, TickKeeps, ReadKeeps, ShareOfSystemKeeps, ShareOfWorkersKeeps DEF CpuNext

LEMMA CpuInvariance == CpuSpec => []CpuInv
<1>1. CpuInv /\ [CpuNext]_cpuVars => CpuInv'
  BY CpuStep
<1> QED
  BY <1>1, CpuStart, PTL DEF CpuSpec

(* Every share is made of two differences of the counters' width, whatever  *)
(* overlapping polls overtake.                                             *)
THEOREM CpuTypeHolds == CpuSpec => []CpuTypeOK
<1>1. CpuInv => CpuTypeOK
  BY DEF CpuInv
<1> QED
  BY <1>1, CpuInvariance, PTL

(* What a poll computes of the system, unless it is overtaken.             *)
LEMMA SystemSound ==
  ASSUME CpuInv, NEW p \in Pollers, ShareOfSystem(p), ~Overtaken(p)
  PROVE  IsShare(system)'
<1> DEFINE old == samples[System]
<1>1. /\ system' = ShareOf(seen[p].idle, seen[p].total, old) /\ total' = total
      /\ seen[p].idle \in Counter /\ seen[p].total \in Counter /\ old \in Sample
  BY DEF ShareOfSystem, clock, CpuInv, CpuTypeOK
<1>2. /\ seen[p].idle \in Nat /\ seen[p].total \in Nat /\ total \in Nat /\ idle \in Nat
      /\ seen[p].total <= total
  BY CpuSamplerOK DEF CpuInv, CpuTypeOK, Counter, SamplesAreOld, ReadBefore
<1>3. CASE old = NoSample
  BY <1>1, <1>2, <1>3, ShareIsTyped DEF NoShare, IsShare
<1>4. CASE old # NoSample
  <2>1. old.proc \in Nat /\ old.total \in Nat
    BY <1>1, <1>4, CpuSamplerOK DEF Sample, Counter
  <2>2. old.total <= seen[p].total
    BY <1>2, <1>4, <2>1 DEF Overtaken
  <2>3. ReadBefore(old.proc, old.total, seen[p].idle, seen[p].total)
    BY <1>4, <2>2 DEF CpuInv, SamplesAreOld, InOrder
  <2>4. system' \in Shares /\ system'.part <= seen[p].idle - old.proc
        /\ system'.whole = seen[p].total - old.total
    BY <1>1, <1>4, <2>2, <2>3, ShareIsTyped DEF ReadBefore
  <2>5. system'.part \in Nat /\ system'.whole \in Nat
    BY <2>4, CpuSamplerOK DEF Shares
  <2> HIDE DEF old
  <2>6. system'.part <= system'.whole /\ system'.whole <= total
    BY <1>2, <2>1, <2>3, <2>4, <2>5 DEF ReadBefore
  <2> QED
    BY <1>1, <2>6 DEF IsShare
<1> QED
  BY <1>3, <1>4

(* What it computes of the workers: the ticks never wrap.                  *)
LEMMA WorkersSound ==
  ASSUME CpuInv, NEW p \in Pollers, ShareOfWorkers(p), NEW w \in alive
  PROVE  /\ share'[w].part <= ticks[w]
         /\ ~Overtaken(p) => share'[w].whole <= total
<1> DEFINE old == samples[w]
<1>1. /\ w \in Workers /\ seen[p].total \in Counter /\ old \in Sample
      /\ TicksOf(w) = ticks[w] /\ ticks[w] \in Counter
  BY CpuSamplerOK DEF CpuInv, CpuTypeOK, TicksOf, Counter
<1>2. share'[w] = IF w \in seen[p].workers THEN ShareOf(ticks[w], seen[p].total, old) ELSE NoShare
  BY <1>1 DEF ShareOfWorkers
<1>3. /\ seen[p].total \in Nat /\ total \in Nat /\ ticks[w] \in Nat /\ seen[p].total <= total
  BY <1>1, CpuSamplerOK DEF CpuInv, CpuTypeOK, Counter, SamplesAreOld, ReadBefore
<1>4. CASE old = NoSample \/ w \notin seen[p].workers
  <2>1. share'[w] = NoShare
    BY <1>1, <1>2, <1>4, ShareIsTyped
  <2> QED
    BY <1>3, <2>1 DEF NoShare
<1>5. CASE old # NoSample /\ w \in seen[p].workers
  <2>1. old.proc <= ticks[w] /\ samples[System] # NoSample /\ old.total = samples[System].total
    BY <1>1, <1>5 DEF CpuInv, SamplesAreOld
  <2>2. old.proc \in Nat /\ old.total \in Nat
    BY <1>1, <1>5, CpuSamplerOK DEF Sample, Counter
  <2>3. share'[w] = ShareOf(ticks[w], seen[p].total, old)
    BY <1>2, <1>5
  <2> HIDE DEF old
  <2>4. share'[w] \in Shares /\ share'[w].part <= ticks[w] - old.proc
        /\ (old.total <= seen[p].total => share'[w].whole = seen[p].total - old.total)
    BY <1>1, <1>5, <2>1, <2>3, ShareIsTyped
  <2>5. share'[w].part \in Nat /\ share'[w].whole \in Nat
    BY <2>4, CpuSamplerOK DEF Shares
  <2>6. ~Overtaken(p) => old.total <= seen[p].total
    BY <1>3, <2>1, <2>2 DEF Overtaken
  <2> QED
    BY <1>3, <2>2, <2>4, <2>5, <2>6
<1> QED
  BY <1>4, <1>5

(* admin.cpp:464-508, any number of polls that overlap, of one dashboard or *)
(* of several: the system's share is one of an interval unless a poll that *)
(* read the counters later was faster, and a worker that still runs never  *)
(* has fewer ticks than its sample, since both are read under the mutex.   *)
THEOREM CpuSharesAreSound == CpuSpec => SharesAreSound
<1>1. CpuInv /\ [CpuNext]_cpuVars =>
        [\A p \in Pollers :
          /\ ShareOfSystem(p) /\ ~Overtaken(p) => IsShare(system)'
          /\ ShareOfWorkers(p) => \A w \in alive :
                /\ share'[w].part <= ticks[w]
                /\ ~Overtaken(p) => share'[w].whole <= total]_cpuVars
  BY SystemSound, WorkersSound
<1> QED
  BY <1>1, CpuInvariance, PTL DEF CpuSpec, SharesAreSound
=============================================================================

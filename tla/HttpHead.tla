------------------------------ MODULE HttpHead ------------------------------
(***************************************************************************)
(* Reading the head of a request or of a response (src/http.cpp,           *)
(* read_head_impl): chunks are appended to a buffer until it holds a blank *)
(* line or has reached a limit.  The peer's bytes may arrive in any pieces *)
(* and may end anywhere; only their numbers matter here.                   *)
(***************************************************************************)
EXTENDS Integers

CONSTANTS
    MaxHead,  \* kMaxHead, 64 KB
    Chunk,    \* the buffer of one recv(), 4 KB
    Longest   \* bound on the bytes a peer sends

BlankLine == 4    \* the bytes of "\r\n\r\n"

ASSUME HttpHeadOK ==
    /\ MaxHead \in Nat \ {0} /\ Chunk \in Nat \ {0} /\ Longest \in Nat

VARIABLES
    headEnd,   \* where the blank line of the stream ends
    streamEnd, \* where the stream ends
    size,      \* the size of the buffer
    result,    \* "reading", or what the function returned
    head, leftover  \* the sizes of what it handed out

headVars == <<headEnd, streamEnd, size, result, head, leftover>>

HeadTypeOK ==
    /\ headEnd \in Nat /\ headEnd >= BlankLine /\ streamEnd \in Nat /\ size \in 0 .. streamEnd
    /\ result \in {"reading", "read", "refused", "ended"}
    /\ head \in 0 .. streamEnd /\ leftover \in 0 .. streamEnd

HeadInit ==
    /\ headEnd \in BlankLine .. Longest /\ streamEnd \in 0 .. Longest
    /\ size = 0 /\ result = "reading" /\ head = 0 /\ leftover = 0

\* Faulty: the blank line is looked for in the last piece only.
HasHeadInPiece(n) == headEnd <= size + n /\ headEnd - BlankLine >= size

\* Is the blank line in the buffer, once n more bytes are?
HasHead(n) == headEnd <= size + n

\* What follows the head.
Leftover(n) == size + n - headEnd

\* May another piece be read?
Below(s) == s < MaxHead

AppendPiece(n) ==
    /\ result = "reading" /\ Below(size)
    /\ size + n <= streamEnd
    /\ size' = size + n
    /\ \/ /\ HasHead(n)
          /\ result' = "read" /\ head' = headEnd /\ leftover' = Leftover(n)
       \/ /\ ~HasHead(n)
          /\ result' = IF Below(size') THEN "reading" ELSE "refused"
          /\ UNCHANGED <<head, leftover>>
    /\ UNCHANGED <<headEnd, streamEnd>>

\* The peer ends, or the connection fails, before the head is complete.
Eof ==
    /\ result = "reading"
    /\ result' = "ended"
    /\ UNCHANGED <<headEnd, streamEnd, size, head, leftover>>

HeadNext == Eof \/ \E n \in 1 .. Chunk : AppendPiece(n)
HeadSpec == HeadInit /\ [][HeadNext]_headVars

\* A head within the limit is read whole, in whatever pieces it arrives.
WithinIsRead == result = "refused" => headEnd > MaxHead

\* No byte is lost between the head and what follows it.
NothingLost == result = "read" => head = headEnd /\ head + leftover = size

\* However long the peer goes on, the buffer and the head stay below the limit
\* and one piece.
Bounded == size < MaxHead + Chunk /\ head < MaxHead + Chunk

\* The three together: what read_head_impl owes its callers, however recv() cuts
\* the stream (http.cpp:35).
HeadIsRead == WithinIsRead /\ NothingLost /\ Bounded
=============================================================================

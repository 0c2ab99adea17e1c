----------------------------- MODULE RecvBuffer -----------------------------
(***************************************************************************)
(* How Client::onRead() (src/net/Client.cpp) cuts the bytes of a           *)
(* connection into lines with one fixed buffer.  The stream decides where  *)
(* its newlines are, libuv how many bytes each read brings.                *)
(*                                                                         *)
(* A byte is named by its position in the stream, so that a line shows     *)
(* which bytes it is made of.                                              *)
(***************************************************************************)
EXTENDS Naturals, Sequences, SequencesExt

CONSTANTS
  Size,      \* sizeof(m_buf), 2048 in the code
  Slack,     \* the 8 bytes that onRead() keeps free
  MaxBytes   \* bound: bytes of a connection

ASSUME RecvBufferAssumption ==
  /\ Size \in Nat /\ Slack \in 1 .. Size - 1
  /\ MaxBytes \in Nat

VARIABLES
  held,      \* the first m_recvBufPos bytes of m_buf
  open,      \* the connection has not been closed by onRead()
  \* The environment and history.
  received,  \* bytes that came on this connection
  newlines,  \* the positions of its newlines
  lines,     \* the lines that parse() was given
  largest,   \* the largest read of this connection
  overlap    \* memcpy() has been called on overlapping ranges

recvVars == <<held, open, received, newlines, lines, largest, overlap>>

Room == Size - Slack

RecvTypeOK ==
  /\ held \in Seq(1 .. MaxBytes) /\ Len(held) <= Room
  /\ open \in BOOLEAN /\ overlap \in BOOLEAN
  /\ received \in 0 .. MaxBytes /\ largest \in 0 .. Size
  /\ newlines \subseteq 1 .. received
  /\ lines \in Seq(Seq(1 .. MaxBytes))

RecvInit ==
  /\ held = <<>> /\ open = TRUE
  /\ received = 0 /\ newlines = {} /\ lines = <<>> /\ largest = 0 /\ overlap = FALSE

\* The positions in data where a line ends, in order.
Ends(data, nl) ==
  LET upTo[i \in 0 .. Len(data)] ==
        IF i = 0 THEN <<>>
        ELSE IF data[i] \in nl THEN Append(upTo[i - 1], i) ELSE upTo[i - 1]
  IN  upTo[Len(data)]

\* The while loop: parse() gets the bytes from start to the next newline.
Cut(data, ends) ==
  [k \in DOMAIN ends |-> SubSeq(data, IF k = 1 THEN 1 ELSE ends[k - 1] + 1, ends[k])]

\* memcpy(base, start, remaining) where the ranges overlap is undefined: a copy
\* in ascending order works, one in descending order reads what it has written.
Descended(data, start) ==
  LET remaining == Len(data) - start IN
  [i \in 1 .. remaining |-> data[start + i + start * ((remaining - i) \div start)]]

\* Mutant: m_recvBufPos = 0 forgotten when nothing remains.
MoveMutant(data, start) ==
  {IF start = Len(data) THEN data ELSE SubSeq(data, start + 1, Len(data))}

Move(data, start) ==
  {SubSeq(data, start + 1, Len(data))} \cup
    (IF start > 0 /\ Len(data) - start > start THEN {Descended(data, start)} ELSE {})

\* onAllocBuffer(): libuv may fill the rest of m_buf.
Fits(n) == n <= Size - Len(held) /\ received + n <= MaxBytes

\* onRead() with n bytes, nl being the newlines among them.
OnRead(n, nl) ==
  LET data == held \o [i \in 1 .. n |-> received + i]
      ends == Ends(data, newlines \cup nl)
      start == IF ends = <<>> THEN 0 ELSE Last(ends) IN
  /\ open /\ Fits(n)
  /\ received' = received + n
  /\ newlines' = newlines \cup nl
  /\ largest' = IF n > largest THEN n ELSE largest
  /\ IF n > Room - Len(held)
     THEN open' = FALSE /\ UNCHANGED <<held, lines, overlap>>
     ELSE /\ lines' = lines \o Cut(data, ends)
          /\ held' \in Move(data, start)
          /\ overlap' = (overlap \/ (start > 0 /\ Len(data) - start > start))
          /\ UNCHANGED open

\* Mutant: resolve() without m_recvBufPos = 0.
ReconnectMutant ==
  /\ open' = TRUE
  /\ received' = 0 /\ newlines' = {} /\ lines' = <<>> /\ largest' = 0 /\ overlap' = FALSE
  /\ UNCHANGED held

\* The connection ends, in the middle of a line or not, and resolve() starts
\* the next one.
Reconnect ==
  /\ held' = <<>> /\ open' = TRUE
  /\ received' = 0 /\ newlines' = {} /\ lines' = <<>> /\ largest' = 0 /\ overlap' = FALSE

RecvNext ==
  \/ \E n \in 0 .. Size : \E nl \in SUBSET (received + 1 .. received + n) : OnRead(n, nl)
  \/ Reconnect

RecvSpec == RecvInit /\ [][RecvNext]_recvVars

-----------------------------------------------------------------------------
(* Properties.                                                             *)

\* The bytes of the stream from one position to another.
Stretch(from, to) == [i \in 1 .. to - from + 1 |-> from + i - 1]

\* Where the k-th of some lines begins: behind the one before it.
From(some, k) == IF k = 1 THEN 1 ELSE Last(some[k - 1]) + 1

\* However the stream is cut into reads, parse() gets exactly its lines, each
\* of them whole, in order, and in the read that completes it: a line goes from
\* the end of the one before it to the next newline.  The buffer keeps the
\* incomplete one; nothing of an earlier connection is left.  The exception is
\* an overlapping memcpy(), once it has been executed.
LinesAreThoseOfTheStream ==
  open /\ ~overlap =>
    /\ \A k \in DOMAIN lines :
         LET from == From(lines, k)
             to == Last(lines[k])
         IN  lines[k] = Stretch(from, to) /\ (from .. to) \cap newlines = {to}
    /\ LET from == From(lines, Len(lines) + 1) IN
       held = Stretch(from, received) /\ (from .. received) \cap newlines = {}

\* The longest line so far, with its newline; the last one may be incomplete.
Lengths ==
  {r[2] - r[1] : r \in {p \in (newlines \cup {0}) \X (newlines \cup {received}) :
                          p[1] < p[2] /\ \A x \in newlines : ~(p[1] < x /\ x < p[2])}}

\* A pool whose lines and reads both fit is not dropped, however the reads cut
\* its lines: onRead() closes only if the largest read on top of the longest
\* incomplete line would leave less than Slack bytes free.
FittingPoolIsNotDropped ==
  ~overlap /\ (\A length \in Lengths : largest + length - 1 <= Room) => open

\* The buffer never holds more than onRead() may keep, and the lines are right
\* (Client.cpp, onRead, resolve).
RecvInvariant == RecvTypeOK /\ LinesAreThoseOfTheStream
=============================================================================

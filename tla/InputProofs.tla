---------------------------- MODULE InputProofs ----------------------------
(***************************************************************************)
(* Proofs about what the miner makes of its input: the receive buffer of a *)
(* connection (RecvBuffer), a job of the pool (JobData), and the command   *)
(* line with the configuration files (Options).                            *)
(*                                                                         *)
(* The three compute with recursive functions.  The first part gives the   *)
(* means to reason about them: induction in the form of a set of natural   *)
(* numbers, and the existence of a function defined by recursion.          *)
(***************************************************************************)
EXTENDS RecvBuffer, JobData, Options, WellFoundedInduction, SequenceTheorems, TLAPS

\* A set of natural numbers that is not empty has a least element.
LEMMA LeastElement ==
  ASSUME NEW T, T \subseteq Nat, T # {}
  PROVE  \E x \in T : \A y \in T : x <= y
  <1>1. PICK x \in T : \A y \in T : ~(<<y, x>> \in OpToRel(<, Nat))
    BY WFMin, NatLessThanWellFounded
  <1>2. \A y \in T : ~(y < x)
    BY <1>1 DEF OpToRel
  <1> QED
    BY <1>2

\* Induction over the natural numbers, for a set of them.
LEMMA SetInduction ==
  ASSUME NEW S, 0 \in S, \A n \in Nat : n \in S => n + 1 \in S
  PROVE  Nat \subseteq S
  <1> DEFINE T == Nat \ S
  <1> SUFFICES ASSUME T # {} PROVE FALSE
    OBVIOUS
  <1>1. PICK x \in T : \A y \in T : x <= y
    BY LeastElement
  <1>2. x # 0 /\ x \in Nat
    OBVIOUS
  <1>3. x - 1 \in Nat /\ ~(x <= x - 1) /\ (x - 1) + 1 = x
    BY <1>2
  <1>4. x - 1 \in S
    BY <1>1, <1>3
  <1> QED
    BY <1>3, <1>4

\* A function on an interval that is defined by recursion: its first value, and what it
\* makes of a value and the next argument.
Recursive(f, n, S, init, next) ==
  /\ f \in [0 .. n -> S] /\ f[0] = init
  /\ \A i \in 1 .. n : f[i] = next[<<f[i - 1], i>>]

\* There is such a function.
LEMMA Recursion ==
  ASSUME NEW S, NEW init \in S, NEW next \in [S \X Nat -> S]
  PROVE  \A n \in Nat : \E f : Recursive(f, n, S, init, next)
  <1> DEFINE Good(f, n) == Recursive(f, n, S, init, next)
             T == {n \in Nat : \E f : Good(f, n)}
  <1> USE DEF Recursive
  <1>1. 0 \in T
    <2>1. Good([i \in 0 .. 0 |-> init], 0)
      OBVIOUS
    <2> QED
      BY <2>1
  <1>2. ASSUME NEW n \in Nat, n \in T PROVE n + 1 \in T
    <2>1. PICK f : Good(f, n)
      BY <1>2
    <2>2. PICK last : last = next[<<f[n], n + 1>>]
      OBVIOUS
    <2>3. last \in S
      <3>1. f[n] \in S /\ n + 1 \in Nat
        BY <2>1
      <3> QED
        BY <2>2, <3>1
    <2> DEFINE g == [i \in 0 .. n + 1 |-> IF i = n + 1 THEN last ELSE f[i]]
    <2>4. \A i \in 0 .. n : g[i] = f[i] /\ f[i] \in S
      BY <2>1
    <2>5. g[n + 1] = last
      OBVIOUS
    <2>6. g \in [0 .. n + 1 -> S]
      BY <2>1, <2>3
    <2> HIDE DEF g
    <2>7. ASSUME NEW i \in 1 .. n + 1 PROVE g[i] = next[<<g[i - 1], i>>]
      <3>1. CASE i = n + 1
        <4>1. i - 1 = n /\ n \in 0 .. n
          BY <3>1
        <4> QED
          BY <2>2, <2>4, <2>5, <3>1, <4>1
      <3>2. CASE i # n + 1
        <4>1. i \in 1 .. n /\ i \in 0 .. n /\ i - 1 \in 0 .. n
          BY <3>2
        <4>2. f[i] = next[<<f[i - 1], i>>]
          BY <2>1, <4>1
        <4> QED
          BY <2>4, <4>1, <4>2
      <3> QED
        BY <3>1, <3>2
    <2>8. g[0] = init
      BY <2>1, <2>4
    <2>9. Good(g, n + 1)
      BY <2>6, <2>7, <2>8
    <2> QED
      BY <2>9
  <1>3. Nat \subseteq T
    BY <1>1, <1>2, SetInduction
  <1> QED
    BY <1>3

-----------------------------------------------------------------------------
\* The scan of the loop: the ends found among the first i bytes.
Scan(data, nl, f, n) ==
  f = [i \in 0 .. n |->
         IF i = 0 THEN <<>>
         ELSE IF data[i] \in nl THEN Append(f[i - 1], i) ELSE f[i - 1]]

\* There is such a function, so that the recursion of Ends defines one.
LEMMA ScanExists ==
  ASSUME NEW data, NEW nl
  PROVE  \A n \in Nat : \E f : Scan(data, nl, f, n)
  <1> DEFINE S == {n \in Nat : \E f : Scan(data, nl, f, n)}
  <1>1. 0 \in S
    <2> DEFINE f == [i \in 0 .. 0 |-> <<>>]
    <2>1. Scan(data, nl, f, 0)
      BY DEF Scan
    <2> QED
      BY <2>1
  <1>2. ASSUME NEW n \in Nat, n \in S PROVE n + 1 \in S
    <2>1. PICK f : Scan(data, nl, f, n)
      BY <1>2
    <2> DEFINE step(a, i) == IF data[i] \in nl THEN Append(a, i) ELSE a
               g == [i \in 0 .. n + 1 |-> IF i = n + 1 THEN step(f[n], n + 1) ELSE f[i]]
    <2>2. f = [i \in 0 .. n |-> IF i = 0 THEN <<>> ELSE step(f[i - 1], i)]
      BY <2>1 DEF Scan
    <2> HIDE DEF step
    <2>3. \A i \in 0 .. n : g[i] = f[i]
      OBVIOUS
    <2>4. g[n + 1] = step(f[n], n + 1)
      OBVIOUS
    <2>5. \A i \in 0 .. n + 1 : g[i] = IF i = 0 THEN <<>> ELSE step(g[i - 1], i)
      <3> SUFFICES ASSUME NEW i \in 0 .. n + 1 PROVE g[i] = IF i = 0 THEN <<>> ELSE step(g[i - 1], i)
        OBVIOUS
      <3>1. CASE i = n + 1
        <4>1. i - 1 = n /\ n \in 0 .. n
          BY <3>1
        <4> QED
          BY <2>3, <2>4, <3>1, <4>1
      <3>2. CASE i \in 1 .. n
        <4>1. i - 1 \in 0 .. n /\ i \in 0 .. n
          BY <3>2
        <4>2. f[i] = step(f[i - 1], i)
          BY <2>2, <3>2, <4>1
        <4>3. g[i] = f[i] /\ g[i - 1] = f[i - 1]
          BY <2>3, <4>1
        <4> QED
          BY <3>2, <4>2, <4>3
      <3>3. CASE i = 0
        <4>1. f[0] = <<>>
          BY <2>2
        <4> QED
          BY <2>3, <3>3, <4>1
      <3> QED
        BY <3>1, <3>2, <3>3
    <2>6. DOMAIN g = 0 .. n + 1 /\ g = [i \in 0 .. n + 1 |-> g[i]]
      OBVIOUS
    <2> HIDE DEF g
    <2>7. g = [i \in 0 .. n + 1 |-> IF i = 0 THEN <<>> ELSE step(g[i - 1], i)]
      BY <2>5, <2>6
    <2>8. Scan(data, nl, g, n + 1)
      BY <2>7 DEF Scan, step
    <2> QED
      BY <2>8
  <1>3. Nat \subseteq S
    BY <1>1, <1>2, SetInduction
  <1> QED
    BY <1>3

\* Ends is the last value of a scan.
LEMMA EndsIsScan ==
  ASSUME NEW data, NEW nl, Len(data) \in Nat
  PROVE  \E f : Scan(data, nl, f, Len(data)) /\ Ends(data, nl) = f[Len(data)]
  <1> DEFINE f == CHOOSE f : Scan(data, nl, f, Len(data))
  <1>1. Scan(data, nl, f, Len(data))
    BY ScanExists
  <1>2. Ends(data, nl) = f[Len(data)]
    BY DEF Ends, Scan
  <1> QED
    BY <1>1, <1>2

\* What a list of ends is: the positions of newlines among the first n bytes, in order.
EndsOf(e, data, nl, n) ==
  /\ e \in Seq(1 .. n)
  /\ \A j, k \in 1 .. Len(e) : j < k => e[j] < e[k]
  /\ \A k \in 1 .. Len(e) : data[e[k]] \in nl
  /\ \A i \in 1 .. n : data[i] \in nl => \E k \in 1 .. Len(e) : e[k] = i

\* One byte more.
LEMMA OneMoreByte ==
  ASSUME NEW data, NEW nl, NEW n \in Nat, NEW e, EndsOf(e, data, nl, n)
  PROVE  EndsOf(IF data[n + 1] \in nl THEN Append(e, n + 1) ELSE e, data, nl, n + 1)
  <1>0. /\ e \in Seq(1 .. n) /\ Len(e) \in Nat
        /\ \A k \in 1 .. Len(e) : e[k] \in 1 .. n /\ e[k] \in 1 .. n + 1
    BY DEF EndsOf
  <1>1. \A i \in 1 .. n + 1 : i \in 1 .. n \/ i = n + 1
    OBVIOUS
  <1>2. CASE data[n + 1] \notin nl
    <2>1. e \in Seq(1 .. n + 1)
      BY <1>0
    <2> QED
      BY <1>0, <1>1, <1>2, <2>1 DEF EndsOf
  <1>3. CASE data[n + 1] \in nl
    <2> DEFINE a == Append(e, n + 1)
               l == Len(e)
    <2>1. /\ Len(a) = l + 1 /\ a[l + 1] = n + 1 /\ \A k \in 1 .. l : a[k] = e[k]
      BY <1>0
    <2>2. a \in Seq(1 .. n + 1)
      <3>1. e \in Seq(1 .. n + 1) /\ n + 1 \in 1 .. n + 1
        BY <1>0
      <3> QED
        BY <3>1
    <2> HIDE DEF a
    <2>3. \A k \in 1 .. l + 1 : k \in 1 .. l \/ k = l + 1
      BY <1>0
    <2>4. ASSUME NEW j \in 1 .. l + 1, NEW k \in 1 .. l + 1, j < k PROVE a[j] < a[k]
      <3>1. j \in 1 .. l
        BY <1>0, <2>4
      <3>2. CASE k = l + 1
        BY <1>0, <2>1, <3>1, <3>2
      <3>3. CASE k \in 1 .. l
        BY <2>1, <2>4, <3>1, <3>3 DEF EndsOf
      <3> QED
        BY <2>3, <3>2, <3>3
    <2>5. \A k \in 1 .. l + 1 : data[a[k]] \in nl
      BY <1>3, <2>1, <2>3 DEF EndsOf
    <2>6. ASSUME NEW i \in 1 .. n + 1, data[i] \in nl PROVE \E k \in 1 .. l + 1 : a[k] = i
      <3>0. l + 1 \in 1 .. l + 1 /\ 1 .. l \subseteq 1 .. l + 1
        BY <1>0
      <3>1. CASE i = n + 1
        BY <2>1, <3>0, <3>1
      <3>2. CASE i \in 1 .. n
        <4>1. PICK k \in 1 .. l : e[k] = i
          BY <2>6, <3>2 DEF EndsOf
        <4> QED
          BY <2>1, <3>0, <4>1
      <3> QED
        BY <1>1, <3>1, <3>2
    <2>7. EndsOf(a, data, nl, n + 1)
      BY <2>1, <2>2, <2>4, <2>5, <2>6 DEF EndsOf
    <2> QED
      BY <1>3, <2>7 DEF a
  <1> QED
    BY <1>2, <1>3

\* The loop of onRead() finds every newline of the buffer, in order.
LEMMA EndsFacts ==
  ASSUME NEW data, NEW nl, Len(data) \in Nat
  PROVE  EndsOf(Ends(data, nl), data, nl, Len(data))
  <1> DEFINE N == Len(data)
  <1>1. PICK f : Scan(data, nl, f, N) /\ Ends(data, nl) = f[N]
    BY EndsIsScan
  <1> DEFINE S == {i \in Nat : i <= N => EndsOf(f[i], data, nl, i)}
  <1>2. 0 \in S
    <2>1. f[0] = <<>>
      BY <1>1 DEF Scan
    <2>2. EndsOf(<<>>, data, nl, 0)
      BY DEF EndsOf
    <2> QED
      BY <2>1, <2>2
  <1>3. ASSUME NEW n \in Nat, n \in S PROVE n + 1 \in S
    <2> SUFFICES ASSUME n + 1 <= N PROVE EndsOf(f[n + 1], data, nl, n + 1)
      OBVIOUS
    <2>1. n <= N /\ n + 1 \in 0 .. N /\ n + 1 # 0 /\ (n + 1) - 1 = n
      OBVIOUS
    <2>2. EndsOf(f[n], data, nl, n)
      BY <1>3, <2>1
    <2>3. f[n + 1] = IF data[n + 1] \in nl THEN Append(f[n], n + 1) ELSE f[n]
      BY <1>1, <2>1 DEF Scan
    <2> QED
      BY <2>2, <2>3, OneMoreByte
  <1>4. Nat \subseteq S
    BY <1>2, <1>3, SetInduction
  <1>5. EndsOf(f[N], data, nl, N)
    BY <1>4
  <1> QED
    BY <1>1, <1>5

-----------------------------------------------------------------------------
(* What the loop hands to parse() and what it keeps.                       *)

\* A line that the loop cuts is a part of the buffer.
LEMMA CutTypes ==
  ASSUME NEW S, NEW data \in Seq(S), NEW nl, NEW e, EndsOf(e, data, nl, Len(data))
  PROVE  Cut(data, e) \in Seq(Seq(S)) /\ Len(Cut(data, e)) = Len(e)
  <1>1. e \in Seq(1 .. Len(data)) /\ DOMAIN e = 1 .. Len(e) /\ Len(e) \in Nat
    BY DEF EndsOf
  <1> DEFINE piece(k) == SubSeq(data, IF k = 1 THEN 1 ELSE e[k - 1] + 1, e[k])
  <1>2. ASSUME NEW k \in 1 .. Len(e) PROVE piece(k) \in Seq(S)
    <2>1. e[k] \in 1 .. Len(data) /\ (k # 1 => e[k - 1] \in 1 .. Len(data))
      BY <1>1
    <2>2. PICK a \in 1 .. Len(data) + 1 : a = IF k = 1 THEN 1 ELSE e[k - 1] + 1
      BY <2>1
    <2>3. SubSeq(data, a, e[k]) \in Seq(S)
      BY <2>1, <2>2
    <2> QED
      BY <2>2, <2>3
  <1>3. Cut(data, e) = [k \in 1 .. Len(e) |-> piece(k)]
    BY <1>1 DEF Cut
  <1> HIDE DEF piece
  <1> QED
    BY <1>1, <1>2, <1>3

\* What remains fits where the buffer was, also if the copy goes wrong.
LEMMA MoveTypes ==
  ASSUME NEW S, NEW data \in Seq(S), NEW start \in 0 .. Len(data), NEW h \in Move(data, start)
  PROVE  h \in Seq(S) /\ Len(h) <= Len(data)
  <1>1. CASE h = SubSeq(data, start + 1, Len(data))
    BY <1>1
  <1>2. CASE start > 0 /\ h = Descended(data, start)
    <2> DEFINE r == Len(data) - start
               at(i) == start + i + start * ((r - i) \div start)
    <2>1. r \in Nat /\ start \in Nat \ {0} /\ Len(data) \in Nat
      BY <1>2
    <2>2. ASSUME NEW i \in 1 .. r PROVE at(i) \in 1 .. Len(data)
      <3>1. r - i \in Nat
        BY <2>1
      <3>2. PICK q \in Nat : q = (r - i) \div start
        BY <2>1, <3>1
      <3>3. start * q <= r - i
        BY <2>1, <3>1, <3>2
      <3>4. start * q \in Nat
        BY <2>1, <3>2
      <3>5. at(i) = start + i + start * q
        BY <3>2
      <3> QED
        BY <2>1, <3>3, <3>4, <3>5
    <2>3. h = [i \in 1 .. r |-> data[at(i)]]
      BY <1>2 DEF Descended
    <2> HIDE DEF at
    <2>4. \A i \in 1 .. r : data[at(i)] \in S
      BY <2>2
    <2>5. h \in Seq(S) /\ Len(h) = r
      BY <2>1, <2>3, <2>4
    <2> QED
      BY <2>1, <2>5
  <1> QED
    BY <1>1, <1>2 DEF Move

\* What the bytes u to v of a buffer are, if it holds a stretch.
PartIs(from, to, u, v) ==
  SubSeq(Stretch(from, to), u, v) = Stretch(from + u - 1, from + v - 1)

\* A part of a stretch of the stream is a stretch.
LEMMA PartOfStretch ==
  \A from, u \in Nat \ {0} : \A to, v \in Nat :
    from <= to + 1 /\ u <= v + 1 /\ v <= to - from + 1 => PartIs(from, to, u, v)
  <1> SUFFICES ASSUME NEW from \in Nat \ {0}, NEW u \in Nat \ {0}, NEW to \in Nat, NEW v \in Nat,
                      from <= to + 1, u <= v + 1, v <= to - from + 1
               PROVE  SubSeq(Stretch(from, to), u, v) = Stretch(from + u - 1, from + v - 1)
    BY DEF PartIs
  <1> DEFINE data == Stretch(from, to)
             s == SubSeq(data, u, v)
             t == Stretch(from + u - 1, from + v - 1)
  <1>1. \A i \in 1 .. to - from + 1 : data[i] \in Nat /\ data[i] = from + i - 1
    BY DEF Stretch
  <1>2. u \in Int /\ v \in Int /\ \A i \in u .. v : data[i] \in Nat
    BY <1>1
  <1>3. /\ s \in Seq(Nat) /\ Len(s) = (IF u <= v THEN v - u + 1 ELSE 0)
        /\ \A i \in 1 .. v - u + 1 : s[i] = data[u + i - 1]
    BY <1>2, SubSeqProperties
  <1>4. Len(s) = v - u + 1 /\ \A i \in 1 .. v - u + 1 : s[i] = from + u - 1 + i - 1
    BY <1>1, <1>3
  <1>5. t = [i \in 1 .. v - u + 1 |-> from + u - 1 + i - 1]
    BY DEF Stretch
  <1>6. s = [i \in 1 .. Len(s) |-> s[i]]
    BY <1>3
  <1> HIDE DEF s, t
  <1>7. s = t
    BY <1>4, <1>5, <1>6
  <1> QED
    BY <1>7 DEF s, t

\* Where the j-th line that is cut from a stretch begins and ends in the stream.
PieceFrom(from, e, j) == from + (IF j = 1 THEN 0 ELSE e[j - 1])
PieceTo(from, e, j) == from + e[j] - 1

\* A piece of the stream with exactly its last byte a newline.
PieceIsLine(piece, a, b, nl) ==
  a \in Nat /\ b \in Nat /\ a <= b /\ piece = Stretch(a, b) /\ (a .. b) \cap nl = {b}

\* The lines that the loop cuts from a stretch of the stream are those of the
\* stream: each goes from the one before it to the next newline.
LEMMA CutOfStretch ==
  ASSUME NEW from \in Nat \ {0}, NEW to \in Nat, from <= to + 1,
         NEW nl, NEW data, data = Stretch(from, to),
         NEW e, EndsOf(e, data, nl, Len(data)), NEW j \in 1 .. Len(e)
  PROVE  PieceIsLine(Cut(data, e)[j], PieceFrom(from, e, j), PieceTo(from, e, j), nl)
  <1>1. PICK N \in Nat : N = to - from + 1
    OBVIOUS
  <1>2. Len(data) = N /\ data = [i \in 1 .. N |-> from + i - 1]
    BY <1>1 DEF Stretch
  <1>3. /\ Len(e) \in Nat /\ DOMAIN e = 1 .. Len(e)
        /\ \A k \in 1 .. Len(e) : e[k] \in 1 .. N
    BY <1>2 DEF EndsOf
  <1>4. \A k, l \in 1 .. Len(e) : k < l => e[k] < e[l]
    BY DEF EndsOf
  <1>5. PICK p \in Nat : p = (IF j = 1 THEN 0 ELSE e[j - 1]) /\ p < e[j]
    <2>1. CASE j = 1
      BY <1>3, <2>1
    <2>2. CASE j # 1
      <3>1. j - 1 \in 1 .. Len(e) /\ j - 1 < j
        BY <1>3, <2>2
      <3>2. e[j - 1] \in Nat /\ e[j - 1] < e[j]
        BY <1>3, <1>4, <3>1
      <3> QED
        BY <2>2, <3>2
    <2> QED
      BY <2>1, <2>2
  <1>6. PICK q \in Nat : q = e[j]
    BY <1>3
  <1>7. p < q /\ q \in 1 .. N
    BY <1>3, <1>5, <1>6
  <1> DEFINE a == from + p
             b == from + q - 1
  <1>8. a \in Nat /\ b \in a .. to
    BY <1>1, <1>7
  <1>9. Cut(data, e)[j] = Stretch(a, b)
    <2>1. Cut(data, e)[j] = SubSeq(data, IF j = 1 THEN 1 ELSE e[j - 1] + 1, e[j])
      BY <1>3 DEF Cut
    <2>2. (IF j = 1 THEN 1 ELSE e[j - 1] + 1) = p + 1
      BY <1>5
    <2>3. Cut(data, e)[j] = SubSeq(data, p + 1, q)
      BY <1>6, <2>1, <2>2
    <2>4. PICK u \in Nat \ {0} : u = p + 1
      OBVIOUS
    <2>5. u <= q + 1 /\ q <= to - from + 1 /\ from + u - 1 = a
      BY <1>1, <1>7, <2>4
    <2>6. PartIs(from, to, u, q)
      BY <2>5, PartOfStretch
    <2> QED
      BY <2>3, <2>4, <2>5, <2>6 DEF PartIs
  <1>10. b \in nl
    <2>1. data[q] \in nl
      BY <1>6 DEF EndsOf
    <2> QED
      BY <1>2, <1>7, <2>1
  <1>11. ASSUME NEW x \in a .. b, x \in nl PROVE x = b
    <2>1. PICK y \in Nat : y = x - from + 1
      BY <1>8
    <2>2. y \in 1 .. N /\ p < y /\ y <= q /\ from + y - 1 = x
      BY <1>7, <1>8, <2>1
    <2>3. data[y] = x
      BY <1>2, <2>2
    <2>4. PICK m \in 1 .. Len(e) : e[m] = y
      BY <1>2, <1>11, <2>2, <2>3 DEF EndsOf
    <2>5. ~(j < m)
      BY <1>3, <1>4, <1>6, <2>2, <2>4
    <2>6. ~(m < j)
      <3> SUFFICES ASSUME m < j PROVE FALSE
        OBVIOUS
      <3>1. p = e[j - 1] /\ j - 1 \in 1 .. Len(e) /\ (m < j - 1 \/ m = j - 1)
        BY <1>3, <1>5
      <3>2. CASE m < j - 1
        <4>1. e[m] < e[j - 1]
          BY <1>4, <3>1, <3>2
        <4> QED
          BY <2>2, <2>4, <3>1, <4>1
      <3>3. CASE m = j - 1
        BY <2>2, <2>4, <3>1, <3>3
      <3> QED
        BY <3>1, <3>2, <3>3
    <2>7. m = j
      BY <1>3, <2>5, <2>6
    <2> QED
      BY <1>6, <2>2, <2>4, <2>7
  <1>12. (a .. b) \cap nl = {b}
    BY <1>8, <1>10, <1>11
  <1>13. a = PieceFrom(from, e, j) /\ b = PieceTo(from, e, j)
    BY <1>5, <1>6 DEF PieceFrom, PieceTo
  <1>14. a \in Nat /\ b \in Nat /\ a <= b
    BY <1>8
  <1> HIDE DEF a, b
  <1> QED
    BY <1>9, <1>12, <1>13, <1>14 DEF PieceIsLine

\* The buffer is a stretch of the stream with the newlines nl, and the loop found
\* its lines to end at e and its rest to begin behind start.
Reading(from, to, data, nl, e, start) ==
  /\ from \in Nat \ {0} /\ to \in Nat /\ from <= to + 1
  /\ data = Stretch(from, to)
  /\ EndsOf(e, data, nl, Len(data))
  /\ start = IF e = <<>> THEN 0 ELSE Last(e)

\* What it keeps of a stretch is the part behind the last newline.
LEMMA RestOfStretch ==
  ASSUME NEW from, NEW to, NEW nl, NEW data, NEW e, NEW start,
         Reading(from, to, data, nl, e, start)
  PROVE  /\ start \in 0 .. Len(data)
         /\ SubSeq(data, start + 1, Len(data)) = Stretch(from + start, to)
         /\ (from + start .. to) \cap nl = {}
  <1> USE DEF Reading
  <1>0. PICK N \in Nat : N = to - from + 1
    OBVIOUS
  <1>1. N \in Nat /\ Len(data) = N /\ data = [i \in 1 .. N |-> from + i - 1]
    BY <1>0 DEF Stretch
  <1>2. /\ Len(e) \in Nat /\ e \in Seq(1 .. N) /\ (e = <<>> <=> Len(e) = 0)
        /\ \A k \in 1 .. Len(e) : e[k] \in 1 .. N
    BY <1>1 DEF EndsOf
  <1>3. /\ start \in 0 .. N
        /\ \A k \in 1 .. Len(e) : e[k] <= start
    <2>1. CASE e = <<>>
      BY <1>1, <1>2, <2>1
    <2>2. CASE e # <<>>
      <3>1. start = e[Len(e)] /\ Len(e) \in 1 .. Len(e)
        BY <1>2, <2>2 DEF Last
      <3>2. \A k \in 1 .. Len(e) : k < Len(e) => e[k] < e[Len(e)]
        BY <3>1 DEF EndsOf
      <3>3. \A k \in 1 .. Len(e) : k < Len(e) \/ k = Len(e)
        BY <1>2
      <3>4. e[Len(e)] \in 1 .. N
        BY <1>2, <3>1
      <3> QED
        BY <1>2, <3>1, <3>2, <3>3, <3>4
    <2> QED
      BY <2>1, <2>2
  <1>4. SubSeq(data, start + 1, N) = Stretch(from + start, to)
    <2>1. PICK u \in Nat \ {0} : u = start + 1
      BY <1>3
    <2>2. u <= N + 1 /\ N <= to - from + 1 /\ from + u - 1 = from + start
      BY <1>0, <1>3, <2>1
    <2>3. PartIs(from, to, u, N)
      BY <2>2, PartOfStretch
    <2>4. from + N - 1 = to
      BY <1>0
    <2> QED
      BY <2>1, <2>2, <2>3, <2>4 DEF PartIs
  <1>5. ASSUME NEW x \in from + start .. to, x \in nl PROVE FALSE
    <2>1. x - from + 1 \in 1 .. N /\ x - from + 1 > start
      BY <1>0, <1>1, <1>3, <1>5
    <2>2. data[x - from + 1] = x
      BY <1>1, <2>1
    <2>3. PICK m \in 1 .. Len(e) : e[m] = x - from + 1
      BY <1>1, <1>5, <2>1, <2>2 DEF EndsOf
    <2> QED
      BY <1>2, <1>3, <2>1, <2>3
  <1> QED
    BY <1>1, <1>3, <1>4, <1>5

\* A stretch followed by the next bytes of the stream is a stretch.
LEMMA LongerStretch ==
  ASSUME NEW from \in Nat \ {0}, NEW to \in Nat, from <= to + 1, NEW n \in Nat
  PROVE  Stretch(from, to) \o [i \in 1 .. n |-> to + i] = Stretch(from, to + n)
  <1>1. PICK N \in Nat : N = to - from + 1
    OBVIOUS
  <1> DEFINE s == Stretch(from, to)
             t == [i \in 1 .. n |-> to + i]
             u == Stretch(from, to + n)
  <1>2. s = [i \in 1 .. N |-> from + i - 1] /\ s \in Seq(Nat) /\ Len(s) = N
    BY <1>1 DEF Stretch
  <1>3. t \in Seq(Nat) /\ Len(t) = n /\ \A i \in 1 .. n : t[i] = to + i
    OBVIOUS
  <1>4. u = [i \in 1 .. N + n |-> from + i - 1]
    <2>1. to + n - from + 1 = N + n
      BY <1>1
    <2> QED
      BY <2>1 DEF Stretch
  <1> HIDE DEF s, t, u
  <1>5. s \o t = [i \in 1 .. N + n |-> IF i <= N THEN s[i] ELSE t[i - N]]
    BY <1>2, <1>3
  <1>6. ASSUME NEW i \in 1 .. N + n
        PROVE  (IF i <= N THEN s[i] ELSE t[i - N]) = from + i - 1
    <2>1. CASE i <= N
      BY <1>2, <2>1
    <2>2. CASE ~(i <= N)
      <3>1. i - N \in 1 .. n
        BY <2>2
      <3>2. t[i - N] = to + (i - N)
        BY <1>3, <3>1
      <3> QED
        BY <1>1, <2>2, <3>2
    <2> QED
      BY <2>1, <2>2
  <1>7. s \o t = u
    BY <1>4, <1>5, <1>6
  <1> QED
    BY <1>7 DEF s, t, u

\* The k-th of some lines is a line of the stream.
IsLine(some, k, nl) ==
  LET from == From(some, k)
      to == Last(some[k])
  IN  some[k] = Stretch(from, to) /\ (from .. to) \cap nl = {to}

\* The last byte of a stretch.
LEMMA LastOfStretch ==
  ASSUME NEW from \in Nat, NEW to \in Nat, from <= to
  PROVE  Last(Stretch(from, to)) = to
  BY DEF Stretch, Last

\* Where the next line begins.
LEMMA NextBegins ==
  ASSUME NEW some \in Seq(Seq(Nat)), NEW got \in Nat, NEW old, old \subseteq 1 .. got,
         \A k \in 1 .. Len(some) : IsLine(some, k, old)
  PROVE  From(some, Len(some) + 1) \in Nat \ {0} /\ From(some, Len(some) + 1) <= got + 1
  <1>1. PICK l \in Nat : l = Len(some)
    OBVIOUS
  <1>2. CASE l = 0
    BY <1>1, <1>2 DEF From
  <1>3. CASE l # 0
    <2>1. IsLine(some, l, old)
      BY <1>1, <1>3
    <2>2. PICK x : x = Last(some[l])
      OBVIOUS
    <2>3. x \in old
      BY <2>1, <2>2 DEF IsLine
    <2>4. x \in 1 .. got
      BY <2>3
    <2>5. l + 1 # 1 /\ (l + 1) - 1 = l
      BY <1>3
    <2>6. From(some, l + 1) = x + 1
      BY <2>2, <2>5 DEF From
    <2>7. x + 1 \in Nat \ {0} /\ x + 1 <= got + 1
      BY <2>4
    <2> QED
      BY <1>1, <2>6, <2>7
  <1> QED
    BY <1>2, <1>3

\* m pieces that end at e are put behind l lines.
Added(l, m, some, more, e, from, all) ==
  /\ \A k \in 1 .. l : more[k] = some[k]
  /\ \A k \in 1 .. l : IsLine(some, k, all)
  /\ \A j \in 1 .. m : e[j] \in Nat
  /\ From(some, l + 1) = from
  /\ \A j \in 1 .. m :
       PieceIsLine(more[l + j], PieceFrom(from, e, j), PieceTo(from, e, j), all)

\* Lines that follow each other in the stream, put behind some lines.
LEMMA LinesAdded ==
  ASSUME NEW l \in Nat, NEW m \in Nat, NEW some, NEW more, NEW e, NEW all,
         NEW from \in Nat, Added(l, m, some, more, e, from, all)
  PROVE  /\ \A k \in 1 .. l + m : IsLine(more, k, all)
         /\ From(more, l + m + 1) = from + (IF m = 0 THEN 0 ELSE e[m])
  <1>0. /\ \A k \in 1 .. l : more[k] = some[k]
        /\ \A k \in 1 .. l : IsLine(some, k, all)
        /\ \A j \in 1 .. m : e[j] \in Nat
        /\ From(some, l + 1) = from
        /\ \A j \in 1 .. m :
             PieceIsLine(more[l + j], PieceFrom(from, e, j), PieceTo(from, e, j), all)
    BY DEF Added
  <1> USE <1>0
  <1>1. \A k \in 1 .. l : From(more, k) = From(some, k)
    <2> SUFFICES ASSUME NEW k \in 1 .. l PROVE From(more, k) = From(some, k)
      OBVIOUS
    <2>1. k # 1 => k - 1 \in 1 .. l
      OBVIOUS
    <2> QED
      BY <2>1 DEF From
  <1>2. \A k \in 1 .. l : IsLine(more, k, all)
    BY <1>1 DEF IsLine
  <1>3. From(more, l + 1) = from
    <2>1. CASE l = 0
      BY <2>1 DEF From
    <2>2. CASE l # 0
      <3>1. l \in 1 .. l /\ l + 1 # 1 /\ (l + 1) - 1 = l
        BY <2>2
      <3>2. more[l] = some[l]
        BY <3>1
      <3> QED
        BY <3>1, <3>2 DEF From
    <2> QED
      BY <2>1, <2>2
  <1>4. \A j \in 1 .. m : Last(more[l + j]) = PieceTo(from, e, j)
    <2> SUFFICES ASSUME NEW j \in 1 .. m PROVE Last(more[l + j]) = PieceTo(from, e, j)
      OBVIOUS
    <2>1. PICK a, b : a = PieceFrom(from, e, j) /\ b = PieceTo(from, e, j)
      OBVIOUS
    <2>2. PieceIsLine(more[l + j], a, b, all)
      BY <2>1
    <2>3. a \in Nat /\ b \in Nat /\ a <= b /\ more[l + j] = Stretch(a, b)
      BY <2>2 DEF PieceIsLine
    <2>4. Last(Stretch(a, b)) = b
      BY <2>3, LastOfStretch
    <2> QED
      BY <2>1, <2>3, <2>4
  <1>5. \A j \in 1 .. m : From(more, l + j + 1) = from + e[j]
    <2> SUFFICES ASSUME NEW j \in 1 .. m PROVE From(more, l + j + 1) = from + e[j]
      OBVIOUS
    <2>1. l + j + 1 # 1 /\ (l + j + 1) - 1 = l + j
      OBVIOUS
    <2>2. From(more, l + j + 1) = Last(more[l + j]) + 1
      BY <2>1 DEF From
    <2>3. PieceTo(from, e, j) + 1 = from + e[j]
      BY DEF PieceTo
    <2> QED
      BY <1>4, <2>2, <2>3
  <1>6. \A j \in 1 .. m : From(more, l + j) = PieceFrom(from, e, j)
    <2> SUFFICES ASSUME NEW j \in 1 .. m PROVE From(more, l + j) = PieceFrom(from, e, j)
      OBVIOUS
    <2>1. CASE j = 1
      BY <1>3, <2>1 DEF PieceFrom
    <2>2. CASE j # 1
      <3>1. PICK i \in 1 .. m : i = j - 1
        BY <2>2
      <3>2. l + i + 1 = l + j
        BY <3>1
      <3>3. From(more, l + j) = from + e[i]
        BY <1>5, <3>2
      <3> QED
        BY <2>2, <3>1, <3>3 DEF PieceFrom
    <2> QED
      BY <2>1, <2>2
  <1>7. ASSUME NEW j \in 1 .. m PROVE IsLine(more, l + j, all)
    BY <1>4, <1>6 DEF IsLine, PieceIsLine
  <1>8. ASSUME NEW k \in 1 .. l + m PROVE IsLine(more, k, all)
    <2>1. CASE k \in 1 .. l
      BY <1>2, <2>1
    <2>2. CASE k \notin 1 .. l
      <3>1. PICK j \in 1 .. m : k = l + j
        <4>1. k - l \in 1 .. m /\ k = l + (k - l)
          BY <2>2
        <4> QED
          BY <4>1
      <3> QED
        BY <1>7, <3>1
    <2> QED
      BY <2>1, <2>2
  <1>9. From(more, l + m + 1) = from + (IF m = 0 THEN 0 ELSE e[m])
    <2>1. CASE m = 0
      BY <1>3, <2>1
    <2>2. CASE m # 0
      BY <1>5, <2>2
    <2> QED
      BY <2>1, <2>2
  <1> QED
    BY <1>8, <1>9

\* Newlines that come later do not change a line.
LEMMA NewlinesBehind ==
  ASSUME NEW some, NEW k, NEW got \in Nat, NEW n \in Nat, NEW old, old \subseteq 1 .. got,
         NEW nl, nl \subseteq got + 1 .. got + n, IsLine(some, k, old)
  PROVE  IsLine(some, k, old \cup nl)
  <1>1. PICK f, l : f = From(some, k) /\ l = Last(some[k])
    OBVIOUS
  <1>2. some[k] = Stretch(f, l) /\ (f .. l) \cap old = {l}
    BY <1>1 DEF IsLine
  <1>3. l \in 1 .. got
    BY <1>2
  <1>4. \A x \in f .. l : x \notin nl
    BY <1>3
  <1>5. (f .. l) \cap (old \cup nl) = {l}
    BY <1>2, <1>4
  <1> QED
    BY <1>1, <1>2, <1>5 DEF IsLine

\* onRead() on a stretch of the stream: the lines it adds are those of the
\* stream, and the next one begins where the rest does.
LEMMA StretchIsCut ==
  ASSUME NEW some \in Seq(Seq(Nat)), NEW all, \A k \in 1 .. Len(some) : IsLine(some, k, all),
         NEW from, NEW to, NEW data, NEW e, NEW start,
         Reading(from, to, data, all, e, start), From(some, Len(some) + 1) = from
  PROVE  LET more == some \o Cut(data, e) IN
         /\ Len(more) = Len(some) + Len(e)
         /\ \A k \in 1 .. Len(some) + Len(e) : IsLine(more, k, all)
         /\ From(more, Len(some) + Len(e) + 1) = from + start
  <1> USE DEF Reading
  <1>1. PICK l \in Nat : l = Len(some)
    OBVIOUS
  <1>2. data \in Seq(Nat)
    BY DEF Stretch
  <1>3. e \in Seq(1 .. Len(data))
    BY DEF EndsOf
  <1>4. PICK m \in Nat : m = Len(e)
    BY <1>3
  <1>5. PICK pieces : pieces = Cut(data, e)
    OBVIOUS
  <1>6. pieces \in Seq(Seq(Nat)) /\ Len(pieces) = m
    <2>1. Cut(data, e) \in Seq(Seq(Nat)) /\ Len(Cut(data, e)) = Len(e)
      BY <1>2, CutTypes
    <2> QED
      BY <1>4, <1>5, <2>1
  <1>7. PICK more : more = some \o pieces
    OBVIOUS
  <1>8. /\ Len(more) = l + m
        /\ \A k \in 1 .. l : more[k] = some[k]
        /\ \A j \in 1 .. m : more[l + j] = pieces[j]
    <2>1. /\ Len(some \o pieces) = Len(some) + Len(pieces)
          /\ \A i \in 1 .. Len(some) + Len(pieces) :
               (some \o pieces)[i] = IF i <= Len(some) THEN some[i] ELSE pieces[i - Len(some)]
      BY <1>6, ConcatProperties
    <2>2. \A j \in 1 .. m : l + j \in 1 .. l + m /\ ~(l + j <= l) /\ (l + j) - l = j
      OBVIOUS
    <2>3. \A k \in 1 .. l : k \in 1 .. l + m /\ k <= l
      OBVIOUS
    <2> QED
      BY <1>1, <1>6, <1>7, <2>1, <2>2, <2>3
  <1>9. \A j \in 1 .. m :
          PieceIsLine(more[l + j], PieceFrom(from, e, j), PieceTo(from, e, j), all)
    <2> SUFFICES ASSUME NEW j \in 1 .. m
                 PROVE  PieceIsLine(more[l + j], PieceFrom(from, e, j), PieceTo(from, e, j), all)
      OBVIOUS
    <2>1. j \in 1 .. Len(e)
      BY <1>4
    <2>2. PieceIsLine(Cut(data, e)[j], PieceFrom(from, e, j), PieceTo(from, e, j), all)
      BY <2>1, CutOfStretch
    <2> QED
      BY <1>5, <1>8, <2>2
  <1>10. \A j \in 1 .. m : e[j] \in Nat
    BY <1>3, <1>4
  <1>11. \A k \in 1 .. l : IsLine(some, k, all)
    BY <1>1
  <1>12. From(some, l + 1) = from /\ from \in Nat
    BY <1>1
  <1>0. Added(l, m, some, more, e, from, all)
    BY <1>8, <1>9, <1>10, <1>11, <1>12 DEF Added
  <1>13. /\ \A k \in 1 .. l + m : IsLine(more, k, all)
         /\ From(more, l + m + 1) = from + (IF m = 0 THEN 0 ELSE e[m])
    BY <1>0, <1>12, LinesAdded
  <1>14. start = IF m = 0 THEN 0 ELSE e[m]
    BY <1>3, <1>4 DEF Last
  <1> QED
    BY <1>1, <1>4, <1>5, <1>7, <1>8, <1>13, <1>14

-----------------------------------------------------------------------------
(* The inductive invariant of RecvBuffer.                                  *)

\* onRead() closes only on a read that does not fit behind an incomplete line.
ClosedInv ==
  ~open /\ ~overlap => \E length \in Lengths : largest + length - 1 > Room

\* The types, the lines handed out are those of the stream, and why it was closed.
RecvInv == RecvTypeOK /\ LinesAreThoseOfTheStream /\ ClosedInv

\* What LinesAreThoseOfTheStream says, with IsLine.
LEMMA StreamParts ==
  ASSUME RecvTypeOK
  PROVE  LinesAreThoseOfTheStream <=>
           (open /\ ~overlap =>
              /\ \A k \in 1 .. Len(lines) : IsLine(lines, k, newlines)
              /\ held = Stretch(From(lines, Len(lines) + 1), received)
              /\ (From(lines, Len(lines) + 1) .. received) \cap newlines = {})
  <1>1. DOMAIN lines = 1 .. Len(lines)
    BY DEF RecvTypeOK
  <1> QED
    BY <1>1 DEF LinesAreThoseOfTheStream, IsLine

\* A connection begins with an empty buffer and no lines.
LEMMA FreshBuffer == RecvInit => RecvInv
  <1> SUFFICES ASSUME RecvInit PROVE RecvInv
    OBVIOUS
  <1> USE RecvBufferAssumption
  <1>1. /\ held = <<>> /\ open = TRUE /\ received = 0 /\ newlines = {} /\ lines = <<>>
        /\ largest = 0 /\ overlap = FALSE
    BY DEF RecvInit
  <1>2. held \in Seq(1 .. MaxBytes) /\ Len(held) = 0
    BY <1>1
  <1>3. lines \in Seq(Seq(1 .. MaxBytes)) /\ Len(lines) = 0
    BY <1>1
  <1>4. RecvTypeOK
    <2>1. Len(held) <= Room /\ received \in 0 .. MaxBytes /\ largest \in 0 .. Size
      BY <1>1, <1>2 DEF Room
    <2>2. newlines \subseteq 1 .. received /\ open \in BOOLEAN /\ overlap \in BOOLEAN
      BY <1>1
    <2> QED
      BY <1>2, <1>3, <2>1, <2>2 DEF RecvTypeOK
  <1>5. From(lines, Len(lines) + 1) = 1
    BY <1>3 DEF From
  <1>6. held = Stretch(1, received) /\ (1 .. received) \cap newlines = {}
    BY <1>1 DEF Stretch
  <1>7. \A k \in 1 .. Len(lines) : IsLine(lines, k, newlines)
    BY <1>3
  <1>8. LinesAreThoseOfTheStream
    BY <1>4, <1>5, <1>6, <1>7, StreamParts
  <1> QED
    BY <1>1, <1>4, <1>8 DEF RecvInv, ClosedInv

\* So does the next connection.
LEMMA NextConnection == RecvInit' => RecvInv'
  BY FreshBuffer, PTL

\* A read that onRead() accepts: the types.
LEMMA ReadTypes ==
  ASSUME RecvInv, NEW n \in 0 .. Size, NEW nl \in SUBSET (received + 1 .. received + n),
         OnRead(n, nl)
  PROVE  RecvTypeOK'
  <1> USE RecvBufferAssumption
  <1>1. /\ held \in Seq(1 .. MaxBytes) /\ Len(held) <= Room /\ Len(held) \in Nat
        /\ open \in BOOLEAN /\ overlap \in BOOLEAN
        /\ received \in 0 .. MaxBytes /\ largest \in 0 .. Size
        /\ newlines \subseteq 1 .. received /\ lines \in Seq(Seq(1 .. MaxBytes))
    BY DEF RecvInv, RecvTypeOK
  <1>2. /\ received' = received + n /\ received + n <= MaxBytes
        /\ newlines' = newlines \cup nl /\ largest' = (IF n > largest THEN n ELSE largest)
    BY DEF OnRead, Fits
  <1>3. received' \in 0 .. MaxBytes /\ largest' \in 0 .. Size /\ newlines' \subseteq 1 .. received'
    BY <1>1, <1>2
  <1>5. CASE n > Room - Len(held)
    <2>1. open' = FALSE /\ UNCHANGED <<held, lines, overlap>>
      BY <1>5 DEF OnRead
    <2> QED
      BY <1>1, <1>3, <2>1 DEF RecvTypeOK
  <1>6. CASE ~(n > Room - Len(held))
    <2>1. PICK new : new = [i \in 1 .. n |-> received + i]
      OBVIOUS
    <2>2. new \in Seq(1 .. MaxBytes) /\ Len(new) = n
      BY <1>1, <1>2, <2>1
    <2>3. PICK data : data = held \o new
      OBVIOUS
    <2>4. data \in Seq(1 .. MaxBytes) /\ Len(data) = Len(held) + n
      BY <1>1, <2>2, <2>3, ConcatProperties
    <2>5. PICK all, e : all = newlines \cup nl /\ e = Ends(data, all)
      OBVIOUS
    <2>6. EndsOf(e, data, all, Len(data))
      <3>1. Len(data) \in Nat
        BY <2>4
      <3> QED
        BY <2>5, <3>1, EndsFacts
    <2>7. PICK start : start = IF e = <<>> THEN 0 ELSE Last(e)
      OBVIOUS
    <2>8. start \in 0 .. Len(data)
      BY <2>4, <2>6, <2>7 DEF EndsOf, Last
    <2>9. /\ lines' = lines \o Cut(data, e) /\ held' \in Move(data, start)
          /\ overlap' \in BOOLEAN /\ open' = open
      BY <1>6, <2>1, <2>3, <2>5, <2>7 DEF OnRead
    <2>10. held' \in Seq(1 .. MaxBytes) /\ Len(held') <= Len(data)
      <3>1. PICK h : h = held'
        OBVIOUS
      <3>2. h \in Move(data, start)
        BY <2>9, <3>1
      <3>3. h \in Seq(1 .. MaxBytes) /\ Len(h) <= Len(data)
        BY <2>4, <2>8, <3>2, MoveTypes
      <3> QED
        BY <3>1, <3>3
    <2>11. Len(held') <= Room
      <3>1. Room \in Nat
        BY DEF Room
      <3>2. Len(data) <= Room
        BY <1>1, <1>6, <2>4, <3>1
      <3>3. Len(held') \in Nat
        BY <2>10
      <3> QED
        BY <2>4, <2>10, <3>1, <3>2, <3>3
    <2>12. Cut(data, e) \in Seq(Seq(1 .. MaxBytes))
      BY <2>4, <2>6, CutTypes
    <2>13. lines' \in Seq(Seq(1 .. MaxBytes))
      BY <1>1, <2>9, <2>12, ConcatProperties
    <2> QED
      BY <1>1, <1>3, <2>9, <2>10, <2>11, <2>13 DEF RecvTypeOK
  <1> QED
    BY <1>5, <1>6

\* A read that onRead() accepts: the lines.
LEMMA ReadLines ==
  ASSUME RecvInv, NEW n \in 0 .. Size, NEW nl \in SUBSET (received + 1 .. received + n),
         OnRead(n, nl)
  PROVE  LinesAreThoseOfTheStream'
  <1> USE RecvBufferAssumption
  <1>0. RecvTypeOK'
    BY ReadTypes
  <1> SUFFICES ASSUME open', ~overlap'
               PROVE  /\ \A k \in 1 .. Len(lines') : IsLine(lines', k, newlines')
                      /\ held' = Stretch(From(lines', Len(lines') + 1), received')
                      /\ (From(lines', Len(lines') + 1) .. received') \cap newlines' = {}
    <2>1. DOMAIN lines' = 1 .. Len(lines')
      BY <1>0 DEF RecvTypeOK
    <2> QED
      BY <2>1 DEF LinesAreThoseOfTheStream, IsLine
  <1>1. ~(n > Room - Len(held)) /\ n \in Nat
    BY DEF OnRead
  <1>2. PICK got \in Nat : got = received
    BY DEF RecvInv, RecvTypeOK
  <1>3. PICK old : old = newlines
    OBVIOUS
  <1>4. PICK some : some = lines
    OBVIOUS
  <1>5. PICK new : new = [i \in 1 .. n |-> got + i]
    OBVIOUS
  <1>6. PICK data : data = held \o new
    OBVIOUS
  <1>7. PICK all : all = old \cup nl
    OBVIOUS
  <1>8. PICK e : e = Ends(data, all)
    OBVIOUS
  <1>9. PICK start : start = IF e = <<>> THEN 0 ELSE Last(e)
    OBVIOUS
  <1>10. /\ received' = got + n /\ newlines' = all
         /\ lines' = some \o Cut(data, e) /\ held' \in Move(data, start)
         /\ overlap' = (overlap \/ (start > 0 /\ Len(data) - start > start))
         /\ open
    BY <1>1, <1>2, <1>3, <1>4, <1>5, <1>6, <1>7, <1>8, <1>9 DEF OnRead
  <1>11. ~overlap /\ held' = SubSeq(data, start + 1, Len(data))
    BY <1>10 DEF Move
  <1>12. PICK from : from = From(some, Len(some) + 1)
    OBVIOUS
  <1>13. /\ some \in Seq(Seq(1 .. MaxBytes)) /\ old \subseteq 1 .. got
         /\ nl \subseteq got + 1 .. got + n
    BY <1>2, <1>3, <1>4 DEF RecvInv, RecvTypeOK
  <1>14. /\ \A k \in 1 .. Len(some) : IsLine(some, k, old)
         /\ held = Stretch(from, got)
    BY <1>2, <1>3, <1>4, <1>10, <1>11, <1>12, StreamParts DEF RecvInv
  <1>15. some \in Seq(Seq(Nat))
    BY <1>13
  <1>16. from \in Nat \ {0} /\ from <= got + 1
    BY <1>12, <1>13, <1>14, <1>15, NextBegins
  <1>17. PICK to \in Nat : to = got + n
    OBVIOUS
  <1>18. data = Stretch(from, to) /\ from <= to + 1
    <2>1. Stretch(from, got) \o [i \in 1 .. n |-> got + i] = Stretch(from, got + n)
      BY <1>1, <1>16, LongerStretch
    <2>2. data = Stretch(from, to)
      BY <1>5, <1>6, <1>14, <1>17, <2>1
    <2> QED
      BY <1>1, <1>16, <1>17, <2>2
  <1>19. Len(data) \in Nat
    BY <1>16, <1>18 DEF Stretch
  <1>20. EndsOf(e, data, all, Len(data))
    BY <1>8, <1>19, EndsFacts
  <1>25. Reading(from, to, data, all, e, start)
    BY <1>9, <1>16, <1>18, <1>20 DEF Reading
  <1>21. \A k \in 1 .. Len(some) : IsLine(some, k, all)
    BY <1>1, <1>7, <1>13, <1>14, NewlinesBehind
  <1>22. /\ Len(some \o Cut(data, e)) = Len(some) + Len(e)
         /\ \A k \in 1 .. Len(some) + Len(e) : IsLine(some \o Cut(data, e), k, all)
         /\ From(some \o Cut(data, e), Len(some) + Len(e) + 1) = from + start
    BY <1>25, <1>12, <1>15, <1>21, StretchIsCut
  <1>23. /\ SubSeq(data, start + 1, Len(data)) = Stretch(from + start, to)
         /\ (from + start .. to) \cap all = {}
    BY <1>25, RestOfStretch
  <1>24. /\ Len(lines') = Len(some) + Len(e)
         /\ From(lines', Len(lines') + 1) = from + start
    BY <1>10, <1>22
  <1> QED
    BY <1>10, <1>11, <1>17, <1>22, <1>23, <1>24

\* A read that onRead() does not accept is too long for what the buffer holds.
LEMMA ReadCloses ==
  ASSUME RecvInv, NEW n \in 0 .. Size, NEW nl \in SUBSET (received + 1 .. received + n),
         OnRead(n, nl)
  PROVE  ClosedInv'
  <1> USE RecvBufferAssumption
  <1> SUFFICES ASSUME ~open', ~overlap'
               PROVE  \E length \in Lengths' : largest' + length - 1 > Room
    BY DEF ClosedInv
  <1>1. open /\ n > Room - Len(held) /\ UNCHANGED <<held, lines, overlap>>
    BY DEF OnRead
  <1>2. /\ received' = received + n /\ newlines' = newlines \cup nl
        /\ largest' = IF n > largest THEN n ELSE largest
    BY DEF OnRead
  <1>3. /\ received \in Nat /\ largest \in Nat /\ Len(held) <= Room /\ Len(held) \in Nat
        /\ lines \in Seq(Seq(Nat)) /\ newlines \subseteq 1 .. received /\ Room \in Nat
    BY DEF RecvInv, RecvTypeOK, Room
  <1>4. /\ \A k \in 1 .. Len(lines) : IsLine(lines, k, newlines)
        /\ held = Stretch(From(lines, Len(lines) + 1), received)
        /\ (From(lines, Len(lines) + 1) .. received) \cap newlines = {}
    BY <1>1, StreamParts DEF RecvInv
  <1>5. PICK from : from = From(lines, Len(lines) + 1)
    OBVIOUS
  <1>6. from \in Nat \ {0} /\ from <= received + 1
    <2>1. PICK some, got, old : some = lines /\ got = received /\ old = newlines
      OBVIOUS
    <2>2. /\ some \in Seq(Seq(Nat)) /\ got \in Nat /\ old \subseteq 1 .. got
          /\ \A k \in 1 .. Len(some) : IsLine(some, k, old)
      BY <1>3, <1>4, <2>1
    <2>3. From(some, Len(some) + 1) \in Nat \ {0} /\ From(some, Len(some) + 1) <= got + 1
      BY <2>2, NextBegins
    <2> QED
      BY <1>5, <2>1, <2>3
  <1>7. Len(held) = received - from + 1
    BY <1>3, <1>4, <1>5, <1>6 DEF Stretch
  <1>8. PICK p \in Nat : p = from - 1
    BY <1>6
  <1>9. p \in newlines \cup {0}
    <2>1. CASE Len(lines) = 0
      BY <1>5, <1>8, <2>1 DEF From
    <2>2. CASE Len(lines) # 0
      <3>1. Len(lines) \in 1 .. Len(lines) /\ from = Last(lines[Len(lines)]) + 1
        BY <1>3, <1>5, <2>2 DEF From
      <3>2. Last(lines[Len(lines)]) \in newlines
        BY <1>4, <3>1 DEF IsLine
      <3>3. PICK x \in newlines : x = Last(lines[Len(lines)])
        BY <3>2
      <3> QED
        BY <1>3, <1>8, <3>1, <3>3
    <2> QED
      BY <2>1, <2>2
  <1> DEFINE T == {x \in newlines' \cup {received'} : p < x}
  <1>10. n \in Nat /\ n > 0 /\ received' \in Nat /\ newlines' \subseteq Nat
    BY <1>1, <1>2, <1>3
  <1>11. T \subseteq Nat /\ received' \in T
    <2>1. p < received'
      BY <1>2, <1>3, <1>6, <1>8, <1>10
    <2> QED
      BY <1>10, <2>1
  <1>12. PICK q \in T : \A y \in T : q <= y
    BY <1>11, LeastElement
  <1>13. q \in Nat /\ p < q /\ q \in newlines' \cup {received'} /\ q >= received + 1
    <2>1. \A x \in newlines : p < x => x \notin newlines
      BY <1>3, <1>4, <1>5, <1>6, <1>8
    <2>2. q \in nl \/ q = received + n
      BY <1>2, <1>12, <2>1
    <2> QED
      BY <1>3, <1>10, <1>11, <1>12, <2>2
  <1>14. \A x \in newlines' : ~(p < x /\ x < q)
    BY <1>10, <1>12, <1>13
  <1>15. q - p \in Lengths'
    <2>1. /\ <<p, q>> \in (newlines' \cup {0}) \X (newlines' \cup {received'})
          /\ <<p, q>>[1] = p /\ <<p, q>>[2] = q
      BY <1>2, <1>9, <1>13
    <2> QED
      BY <1>13, <1>14, <2>1 DEF Lengths
  <1>16. largest' + (q - p) - 1 > Room
    BY <1>1, <1>2, <1>3, <1>6, <1>7, <1>8, <1>10, <1>13
  <1> QED
    BY <1>15, <1>16

\* The invariant holds in the initial state and every step keeps it.
THEOREM RecvInductive ==
  (RecvInit => RecvInv) /\ (RecvInv /\ [RecvNext]_recvVars => RecvInv')
  <1>1. RecvInit => RecvInv
    BY FreshBuffer DEF RecvInit
  <1>2. ASSUME RecvInv, RecvNext PROVE RecvInv'
    <2>1. CASE Reconnect
      <3>1. RecvInit'
        BY <2>1 DEF Reconnect, RecvInit
      <3> QED
        BY <3>1, NextConnection
    <2>2. ASSUME NEW n \in 0 .. Size, NEW nl \in SUBSET (received + 1 .. received + n),
                 OnRead(n, nl)
          PROVE  RecvInv'
      <3>1. RecvTypeOK'
        BY <1>2, <2>2, ReadTypes
      <3>2. LinesAreThoseOfTheStream'
        BY <1>2, <2>2, ReadLines
      <3>3. ClosedInv'
        BY <1>2, <2>2, ReadCloses
      <3> QED
        BY <3>1, <3>2, <3>3 DEF RecvInv
    <2> QED
      BY <1>2, <2>1, <2>2 DEF RecvNext
  <1>3. RecvInv /\ UNCHANGED recvVars => RecvInv'
    BY DEF RecvInv, RecvTypeOK, LinesAreThoseOfTheStream, ClosedInv, Lengths, recvVars
  <1> QED
    BY <1>1, <1>2, <1>3

\* However the stream is cut into reads, parse() gets its lines, and the buffer
\* never holds more than onRead() may keep (Client.cpp, onRead, resolve).
THEOREM RecvInvariantHolds == RecvSpec => []RecvInvariant
  <1>1. RecvInv => RecvInvariant
    BY DEF RecvInv, RecvInvariant
  <1> QED
    BY <1>1, RecvInductive, PTL DEF RecvSpec

\* A pool whose lines and reads both fit is not dropped (Client.cpp, onRead).
THEOREM FittingPoolIsNotDroppedHolds == RecvSpec => []FittingPoolIsNotDropped
  <1>1. RecvInv => FittingPoolIsNotDropped
    <2> SUFFICES ASSUME RecvInv, ~overlap, ~open,
                        \A length \in Lengths : largest + length - 1 <= Room
                 PROVE  FALSE
      BY DEF FittingPoolIsNotDropped
    <2>1. PICK length \in Lengths : largest + length - 1 > Room
      BY DEF RecvInv, ClosedInv
    <2>2. largest + length - 1 \in Int /\ Room \in Int
      <3>1. length \in Int
        <4>1. newlines \cup {0} \subseteq Nat /\ newlines \cup {received} \subseteq Nat
          BY DEF RecvInv, RecvTypeOK
        <4>2. \A p \in (newlines \cup {0}) \X (newlines \cup {received}) :
                p[1] \in newlines \cup {0} /\ p[2] \in newlines \cup {received}
          OBVIOUS
        <4>3. PICK p \in (newlines \cup {0}) \X (newlines \cup {received}) : length = p[2] - p[1]
          BY DEF Lengths
        <4>4. p[1] \in Nat /\ p[2] \in Nat
          BY <4>1, <4>2
        <4> QED
          BY <4>3, <4>4
      <3> QED
        BY <3>1, RecvBufferAssumption DEF RecvInv, RecvTypeOK, Room
    <2> QED
      BY <2>1, <2>2
  <1> QED
    BY <1>1, RecvInductive, PTL DEF RecvSpec

-----------------------------------------------------------------------------
(* The arithmetic of JobData, for every base and every width of a word.    *)

\* The powers up to n.
Powers(f, n) == f = [i \in 0 .. n |-> IF i = 0 THEN 1 ELSE Base * Base * f[i - 1]]

\* There is such a function, so that the recursion of Values defines one.
LEMMA PowersExist == \A n \in Nat : \E f \in [0 .. n -> Nat] : Powers(f, n)
  <1> DEFINE next == [p \in Nat \X Nat |-> Base * Base * p[1]]
  <1>1. next \in [Nat \X Nat -> Nat]
    BY WidthAssumption
  <1>2. \A a, i \in Nat : next[<<a, i>>] = Base * Base * a
    OBVIOUS
  <1> HIDE DEF next
  <1> SUFFICES ASSUME NEW n \in Nat PROVE \E f \in [0 .. n -> Nat] : Powers(f, n)
    OBVIOUS
  <1>3. PICK f : Recursive(f, n, Nat, 1, next)
    BY <1>1, Recursion
  <1>0. f \in [0 .. n -> Nat] /\ f[0] = 1 /\ \A i \in 1 .. n : f[i] = next[<<f[i - 1], i>>]
    BY <1>3 DEF Recursive
  <1>4. ASSUME NEW i \in 1 .. n PROVE f[i] = Base * Base * f[i - 1]
    <2>1. f[i - 1] \in Nat /\ i \in Nat
      BY <1>0
    <2> QED
      BY <1>0, <1>2, <2>1
  <1>5. \A i \in 0 .. n : f[i] = IF i = 0 THEN 1 ELSE Base * Base * f[i - 1]
    BY <1>0, <1>4
  <1>6. Powers(f, n)
    BY <1>0, <1>5 DEF Powers
  <1> QED
    BY <1>0, <1>6

\* What Values(n) is a value of.
LEMMA ValuesIsPower ==
  ASSUME NEW n \in Nat
  PROVE  \E f : Powers(f, n) /\ Values(n) = f[n]
  <1> DEFINE f == CHOOSE f : Powers(f, n)
  <1>1. Powers(f, n)
    BY PowersExist
  <1>2. Values(n) = f[n]
    BY DEF Values, Powers
  <1> QED
    BY <1>1, <1>2

\* However far the powers go, they are those.
LEMMA PowersAgree ==
  \A i \in Nat : \A n \in Nat : i <= n => \A f : Powers(f, n) => f[i] = Values(i)
  <1> DEFINE Agree(i, n) == i <= n => \A f : Powers(f, n) => f[i] = Values(i)
             T == {i \in Nat : \A n \in Nat : Agree(i, n)}
  <1>1. \A n \in Nat : \A f : Powers(f, n) =>
          f[0] = 1 /\ \A i \in 1 .. n : f[i] = Base * Base * f[i - 1]
    <2> SUFFICES ASSUME NEW n \in Nat, NEW f, Powers(f, n)
                 PROVE  f[0] = 1 /\ \A i \in 1 .. n : f[i] = Base * Base * f[i - 1]
      OBVIOUS
    <2>1. \A i \in 0 .. n : f[i] = IF i = 0 THEN 1 ELSE Base * Base * f[i - 1]
      BY DEF Powers
    <2>2. 0 \in 0 .. n /\ \A i \in 1 .. n : i \in 0 .. n /\ i # 0
      OBVIOUS
    <2> QED
      BY <2>1, <2>2
  <1>2. 0 \in T
    <2>1. Values(0) = 1
      BY <1>1, ValuesIsPower
    <2> QED
      BY <1>1, <2>1
  <1>3. ASSUME NEW i \in Nat, i \in T PROVE i + 1 \in T
    <2> SUFFICES ASSUME NEW n \in Nat, i + 1 <= n, NEW f, Powers(f, n) PROVE f[i + 1] = Values(i + 1)
      OBVIOUS
    <2>1. PICK g : Powers(g, i + 1) /\ Values(i + 1) = g[i + 1]
      BY ValuesIsPower
    <2>2. g[i] = Values(i) /\ f[i] = Values(i)
      BY <1>3, <2>1
    <2>3. i + 1 \in 1 .. n /\ i + 1 \in 1 .. i + 1 /\ (i + 1) - 1 = i
      OBVIOUS
    <2>4. g[i + 1] = Base * Base * g[i] /\ f[i + 1] = Base * Base * f[i]
      BY <1>1, <2>1, <2>3
    <2> QED
      BY <2>1, <2>2, <2>4
  <1>4. Nat \subseteq T
    BY <1>2, <1>3, SetInduction
  <1> QED
    BY <1>4

\* A word of n + 1 bytes has Base * Base times the values of one of n.
LEMMA ValuesFacts ==
  /\ Values(0) = 1
  /\ \A n \in Nat : Values(n + 1) = Base * Base * Values(n) /\ Values(n) \in Nat \ {0}
  <1>1. Values(0) = 1
    <2>1. PICK f : Powers(f, 0) /\ Values(0) = f[0]
      BY ValuesIsPower
    <2> QED
      BY <2>1 DEF Powers
  <1>2. \A n \in Nat : Values(n + 1) = Base * Base * Values(n)
    <2> SUFFICES ASSUME NEW n \in Nat PROVE Values(n + 1) = Base * Base * Values(n)
      OBVIOUS
    <2>1. PICK f : Powers(f, n + 1) /\ Values(n + 1) = f[n + 1]
      BY ValuesIsPower
    <2>2. f[n] = Values(n)
      BY <2>1, PowersAgree
    <2>3. n + 1 \in 0 .. n + 1 /\ n + 1 # 0 /\ (n + 1) - 1 = n
      OBVIOUS
    <2>4. f[n + 1] = Base * Base * f[n]
      BY <2>1, <2>3 DEF Powers
    <2> QED
      BY <2>1, <2>2, <2>4
  <1> DEFINE T == {n \in Nat : Values(n) \in Nat \ {0}}
  <1>3. 0 \in T
    BY <1>1
  <1>4. ASSUME NEW n \in Nat, n \in T PROVE n + 1 \in T
    <2>1. Base * Base \in Nat \ {0}
      BY WidthAssumption
    <2>2. PICK b \in Nat \ {0} : b = Base * Base
      BY <2>1
    <2>3. PICK v \in Nat \ {0} : v = Values(n)
      BY <1>4
    <2>4. b * v \in Nat \ {0}
      OBVIOUS
    <2> QED
      BY <1>2, <2>2, <2>3, <2>4
  <1>5. Nat \subseteq T
    BY <1>3, <1>4, SetInduction
  <1> QED
    BY <1>1, <1>2, <1>5

\* A word of m + n bytes is made of one of m and one of n.
LEMMA ValuesOfSum == \A m, n \in Nat : Values(m + n) = Values(m) * Values(n)
  <1> SUFFICES ASSUME NEW m \in Nat PROVE \A n \in Nat : Values(m + n) = Values(m) * Values(n)
    OBVIOUS
  <1> DEFINE T == {n \in Nat : Values(m + n) = Values(m) * Values(n)}
  <1>1. 0 \in T
    BY ValuesFacts
  <1>2. ASSUME NEW n \in Nat, n \in T PROVE n + 1 \in T
    <2>1. PICK b \in Nat : b = Base * Base
      BY WidthAssumption
    <2>2. PICK v, w \in Nat : v = Values(m) /\ w = Values(n)
      BY ValuesFacts
    <2>3. Values(m + n) = v * w
      BY <1>2, <2>2
    <2>4. m + (n + 1) = (m + n) + 1 /\ m + n \in Nat
      OBVIOUS
    <2>5. Values(m + (n + 1)) = b * (v * w) /\ Values(n + 1) = b * w
      BY <2>1, <2>2, <2>3, <2>4, ValuesFacts
    <2>6. b * (v * w) = v * (b * w)
      OBVIOUS
    <2> QED
      BY <2>2, <2>5, <2>6
  <1>3. Nat \subseteq T
    BY <1>1, <1>2, SetInduction
  <1> QED
    BY <1>3

-----------------------------------------------------------------------------
\* The sums of the first bytes of a word.
Sums(f, byte, n) ==
  f = [i \in 0 .. n |-> IF i = 0 THEN 0 ELSE f[i - 1] + byte[i] * Values(i - 1)]

\* Word() is the last of them.
LEMMA WordIsSum ==
  ASSUME NEW n \in Nat, NEW byte, \A i \in 1 .. n : byte[i] \in Nat
  PROVE  \E f : Sums(f, byte, n) /\ Word(byte, n) = f[n]
  <1> DEFINE add(a, i) == a + byte[i] * Values(i - 1)
             next == [p \in Nat \X Nat |-> IF p[2] \in 1 .. n THEN add(p[1], p[2]) ELSE 0]
  <1>1. \A a \in Nat : \A i \in 1 .. n : add(a, i) \in Nat
    <2> SUFFICES ASSUME NEW a \in Nat, NEW i \in 1 .. n PROVE add(a, i) \in Nat
      OBVIOUS
    <2>1. i - 1 \in Nat
      OBVIOUS
    <2>2. PICK b, v \in Nat : b = byte[i] /\ v = Values(i - 1)
      BY <2>1, ValuesFacts
    <2>3. a + b * v \in Nat
      OBVIOUS
    <2> QED
      BY <2>2, <2>3
  <1> HIDE DEF add
  <1>2. next \in [Nat \X Nat -> Nat]
    BY <1>1
  <1>3. \A a \in Nat : \A i \in 1 .. n : next[<<a, i>>] = add(a, i)
    OBVIOUS
  <1> HIDE DEF next
  <1>4. PICK g : Recursive(g, n, Nat, 0, next)
    BY <1>2, Recursion
  <1>5. g \in [0 .. n -> Nat] /\ g[0] = 0 /\ \A i \in 1 .. n : g[i] = next[<<g[i - 1], i>>]
    BY <1>4 DEF Recursive
  <1>6. ASSUME NEW i \in 1 .. n PROVE g[i] = add(g[i - 1], i)
    <2>1. g[i - 1] \in Nat
      BY <1>5
    <2> QED
      BY <1>3, <1>5, <2>1
  <1>7. \A i \in 0 .. n : g[i] = IF i = 0 THEN 0 ELSE add(g[i - 1], i)
    BY <1>5, <1>6
  <1>8. Sums(g, byte, n)
    BY <1>5, <1>7 DEF Sums, add
  <1> DEFINE f == CHOOSE f : Sums(f, byte, n)
  <1>9. Sums(f, byte, n)
    BY <1>8
  <1>10. Word(byte, n) = f[n]
    BY DEF Word, Sums
  <1> QED
    BY <1>9, <1>10

\* What the sums are made of.
LEMMA SumsFacts ==
  ASSUME NEW n \in Nat, NEW byte, NEW f, Sums(f, byte, n)
  PROVE  f[0] = 0 /\ \A i \in 1 .. n : f[i] = f[i - 1] + byte[i] * Values(i - 1)
  <1>1. \A i \in 0 .. n : f[i] = IF i = 0 THEN 0 ELSE f[i - 1] + byte[i] * Values(i - 1)
    BY DEF Sums
  <1>2. 0 \in 0 .. n /\ \A i \in 1 .. n : i \in 0 .. n /\ i # 0
    OBVIOUS
  <1> QED
    BY <1>1, <1>2

\* A word of n bytes is smaller than the number of its values.
LEMMA WordBound ==
  ASSUME NEW n \in Nat, NEW byte, \A i \in 1 .. n : byte[i] \in 0 .. Base * Base - 1
  PROVE  Word(byte, n) \in 0 .. Values(n) - 1
  <1>0. \A i \in 1 .. n : byte[i] \in Nat
    BY WidthAssumption
  <1>1. PICK f : Sums(f, byte, n) /\ Word(byte, n) = f[n]
    BY <1>0, WordIsSum
  <1> DEFINE T == {i \in Nat : i <= n => f[i] \in 0 .. Values(i) - 1}
  <1>2. 0 \in T
    BY <1>1, SumsFacts, ValuesFacts
  <1>3. ASSUME NEW i \in Nat, i \in T PROVE i + 1 \in T
    <2> SUFFICES ASSUME i + 1 <= n PROVE f[i + 1] \in 0 .. Values(i + 1) - 1
      OBVIOUS
    <2>1. i + 1 \in 1 .. n /\ (i + 1) - 1 = i
      OBVIOUS
    <2>2. PICK b \in Nat : b = Base * Base
      BY WidthAssumption
    <2>3. PICK v \in Nat : v = Values(i)
      BY ValuesFacts
    <2>4. PICK x \in 0 .. v - 1 : x = f[i]
      BY <1>3, <2>3
    <2>5. PICK d \in 0 .. b - 1 : d = byte[i + 1]
      BY <2>1, <2>2
    <2>6. f[i + 1] = x + d * v
      BY <1>1, <2>1, <2>3, <2>4, <2>5, SumsFacts
    <2>7. x + d * v \in 0 .. b * v - 1
      <3>1. d * v <= (b - 1) * v /\ d * v >= 0
        OBVIOUS
      <3>2. (b - 1) * v = b * v - v
        OBVIOUS
      <3>3. d * v \in Int /\ b * v \in Int
        OBVIOUS
      <3> QED
        BY <3>1, <3>2, <3>3
    <2>8. Values(i + 1) = b * v
      BY <2>2, <2>3, ValuesFacts
    <2> QED
      BY <2>6, <2>7, <2>8
  <1>4. Nat \subseteq T
    BY <1>2, <1>3, SetInduction
  <1> QED
    BY <1>1, <1>4

\* The lower digits of a number, one more.
LEMMA OneMoreDigit ==
  ASSUME NEW w \in Nat, NEW v \in Nat \ {0}, NEW b \in Nat \ {0}
  PROVE  w % (b * v) = (w % v) + ((w \div v) % b) * v
  <1>1. PICK q, x \in Nat : q = w \div v /\ x = w % v
    OBVIOUS
  <1>2. w = q * v + x /\ x < v
    BY <1>1
  <1>3. PICK p, d \in Nat : p = q \div b /\ d = q % b
    OBVIOUS
  <1>4. q = p * b + d /\ d < b
    BY <1>3
  <1>5. w = p * (b * v) + (d * v + x)
    BY <1>2, <1>4
  <1>6. PICK m \in Nat \ {0} : m = b * v
    OBVIOUS
  <1>7. PICK r \in Nat : r = d * v + x
    OBVIOUS
  <1>8. r < m
    <2>1. d * v <= (b - 1) * v
      BY <1>4
    <2>2. (b - 1) * v = b * v - v
      OBVIOUS
    <2>3. d * v \in Nat
      OBVIOUS
    <2> QED
      BY <1>2, <1>6, <1>7, <2>1, <2>2, <2>3
  <1>9. w = p * m + r
    BY <1>5, <1>6, <1>7
  <1>10. w % m = r
    BY <1>8, <1>9
  <1> QED
    BY <1>1, <1>3, <1>6, <1>7, <1>10

\* A word whose bytes are those of a number is this number.
LEMMA WordOfBytes ==
  ASSUME NEW n \in Nat, NEW w \in 0 .. Values(n) - 1, NEW byte,
         \A i \in 1 .. n : byte[i] = (w \div Values(i - 1)) % (Base * Base)
  PROVE  Word(byte, n) = w
  <1>0. w \in Nat /\ Values(n) \in Nat \ {0} /\ Base * Base \in Nat \ {0}
    BY ValuesFacts, WidthAssumption
  <1>1. \A i \in 1 .. n : byte[i] \in Nat
    <2> SUFFICES ASSUME NEW i \in 1 .. n PROVE byte[i] \in Nat
      OBVIOUS
    <2>1. i - 1 \in Nat
      OBVIOUS
    <2>2. PICK v, b \in Nat \ {0} : v = Values(i - 1) /\ b = Base * Base
      BY <1>0, <2>1, ValuesFacts
    <2>3. (w \div v) % b \in Nat
      BY <1>0
    <2> QED
      BY <2>2, <2>3
  <1>2. PICK f : Sums(f, byte, n) /\ Word(byte, n) = f[n]
    BY <1>1, WordIsSum
  <1> DEFINE T == {i \in Nat : i <= n => f[i] = w % Values(i)}
  <1>3. 0 \in T
    <2>1. w % 1 = 0
      BY <1>0
    <2> QED
      BY <1>2, <2>1, SumsFacts, ValuesFacts
  <1>4. ASSUME NEW i \in Nat, i \in T PROVE i + 1 \in T
    <2> SUFFICES ASSUME i + 1 <= n PROVE f[i + 1] = w % Values(i + 1)
      OBVIOUS
    <2>1. i + 1 \in 1 .. n /\ (i + 1) - 1 = i
      OBVIOUS
    <2>2. PICK v, b \in Nat \ {0} : v = Values(i) /\ b = Base * Base
      BY <1>0, ValuesFacts
    <2>3. f[i] = w % v
      BY <1>4, <2>2
    <2>4. byte[i + 1] = (w \div v) % b
      BY <2>1, <2>2
    <2>5. f[i + 1] = f[i] + byte[i + 1] * v
      BY <1>2, <2>1, <2>2, SumsFacts
    <2>6. w % (b * v) = (w % v) + ((w \div v) % b) * v
      BY <1>0, OneMoreDigit
    <2>7. Values(i + 1) = b * v
      BY <2>2, ValuesFacts
    <2> QED
      BY <2>3, <2>4, <2>5, <2>6, <2>7
  <1>5. Nat \subseteq T
    BY <1>3, <1>4, SetInduction
  <1>6. f[n] = w % Values(n)
    BY <1>5
  <1>7. w % Values(n) = w
    BY <1>0
  <1> QED
    BY <1>2, <1>6, <1>7

-----------------------------------------------------------------------------
\* Two digits and their byte.
LEMMA DigitsOfByte ==
  \A b \in Nat : (b \div Base) * Base + (b % Base) = b
  <1> SUFFICES ASSUME NEW b \in Nat PROVE (b \div Base) * Base + (b % Base) = b
    OBVIOUS
  <1>1. PICK c \in Nat \ {0} : c = Base
    BY WidthAssumption
  <1>2. PICK q, x \in Nat : q = b \div c /\ x = b % c
    OBVIOUS
  <1>3. b = q * c + x
    BY <1>2
  <1> QED
    BY <1>1, <1>2, <1>3

\* Job::fromHex() reads what Job::toHex() wrote.
LEMMA HexRoundTrip ==
  ASSUME NEW n \in Nat, NEW w \in 0 .. Values(n) - 1
  PROVE  Len(toHex(w, n)) = 2 * n /\ fromHex(toHex(w, n)) = w
  <1> DEFINE byte(i) == (w \div Values(i - 1)) % Values(1)
             digit(k) == IF k % 2 = 1 THEN byte((k + 1) \div 2) \div Base ELSE byte(k \div 2) % Base
  <1>1. PICK h : h = toHex(w, n)
    OBVIOUS
  <1>2. h = [k \in 1 .. 2 * n |-> digit(k)]
    BY <1>1 DEF toHex
  <1> HIDE DEF byte
  <1>3. Len(h) = 2 * n /\ \A k \in 1 .. 2 * n : h[k] = digit(k)
    BY <1>2
  <1>4. \A i \in 1 .. n : byte(i) \in Nat /\ byte(i) = (w \div Values(i - 1)) % (Base * Base)
    <2> SUFFICES ASSUME NEW i \in 1 .. n
                 PROVE  byte(i) \in Nat /\ byte(i) = (w \div Values(i - 1)) % (Base * Base)
      OBVIOUS
    <2>1. i - 1 \in Nat /\ 0 + 1 = 1
      OBVIOUS
    <2>2. Values(1) = Base * Base /\ Base * Base \in Nat \ {0} /\ w \in Nat
      BY <2>1, ValuesFacts, WidthAssumption
    <2>3. PICK v, b \in Nat \ {0} : v = Values(i - 1) /\ b = Base * Base
      BY <2>1, <2>2, ValuesFacts
    <2>4. (w \div v) % b \in Nat
      BY <2>2
    <2> QED
      BY <2>2, <2>3, <2>4 DEF byte
  <1>5. \A i \in 1 .. n : Byte(h, i) = byte(i)
    <2> SUFFICES ASSUME NEW i \in 1 .. n PROVE Byte(h, i) = byte(i)
      OBVIOUS
    <2>1. /\ 2 * i - 1 \in 1 .. 2 * n /\ 2 * i \in 1 .. 2 * n
          /\ (2 * i - 1) % 2 = 1 /\ ((2 * i - 1) + 1) \div 2 = i
          /\ (2 * i) % 2 # 1 /\ (2 * i) \div 2 = i
      OBVIOUS
    <2>2. h[2 * i - 1] = byte(i) \div Base /\ h[2 * i] = byte(i) % Base
      BY <1>3, <2>1
    <2>3. PICK b \in Nat : b = byte(i)
      BY <1>4
    <2>4. Byte(h, i) = (b \div Base) * Base + (b % Base)
      <3>1. PICK x, y : x = h[2 * i - 1] /\ y = h[2 * i]
        OBVIOUS
      <3>2. x = b \div Base /\ y = b % Base
        BY <2>2, <2>3, <3>1
      <3>3. Byte(h, i) = x * Base + y
        BY <3>1 DEF Byte
      <3> QED
        BY <3>2, <3>3
    <2> QED
      BY <2>3, <2>4, DigitsOfByte
  <1>6. PICK bytes : bytes = [i \in 1 .. n |-> Byte(h, i)]
    OBVIOUS
  <1>7. \A i \in 1 .. n : bytes[i] = (w \div Values(i - 1)) % (Base * Base)
    BY <1>4, <1>5, <1>6
  <1>8. Word(bytes, n) = w
    BY <1>7, WordOfBytes
  <1>9. Len(h) \div 2 = n
    BY <1>3
  <1> QED
    BY <1>1, <1>3, <1>6, <1>8, <1>9 DEF fromHex

\* A word that is read from digits has its width.
LEMMA HexBound ==
  ASSUME NEW n \in Nat, NEW s, Len(s) = 2 * n, \A k \in 1 .. 2 * n : s[k] \in 0 .. Base - 1
  PROVE  fromHex(s) \in 0 .. Values(n) - 1
  <1>1. Len(s) \div 2 = n
    OBVIOUS
  <1>2. PICK bytes : bytes = [i \in 1 .. n |-> Byte(s, i)]
    OBVIOUS
  <1>3. \A i \in 1 .. n : bytes[i] \in 0 .. Base * Base - 1
    <2> SUFFICES ASSUME NEW i \in 1 .. n PROVE bytes[i] \in 0 .. Base * Base - 1
      OBVIOUS
    <2>1. 2 * i - 1 \in 1 .. 2 * n /\ 2 * i \in 1 .. 2 * n
      OBVIOUS
    <2>2. PICK c, d \in 0 .. Base - 1 : c = s[2 * i - 1] /\ d = s[2 * i]
      BY <2>1
    <2>3. c * Base + d \in 0 .. Base * Base - 1
      <3>1. PICK b \in Nat \ {0, 1} : b = Base
        BY WidthAssumption
      <3>2. c \in 0 .. b - 1 /\ d \in 0 .. b - 1
        BY <3>1
      <3>3. c * b <= (b - 1) * b /\ c * b \in Nat
        BY <3>2
      <3>4. (b - 1) * b = b * b - b
        OBVIOUS
      <3> QED
        BY <3>1, <3>2, <3>3, <3>4
    <2> QED
      BY <1>2, <2>2, <2>3 DEF Byte
  <1>4. Word(bytes, n) \in 0 .. Values(n) - 1
    BY <1>3, WordBound
  <1> QED
    BY <1>1, <1>2, <1>4 DEF fromHex

-----------------------------------------------------------------------------
\* The widths.
LEMMA Widths ==
  /\ Word32 \in Nat \ {0, 1} /\ Max64 = Word32 * Word32 - 1
  /\ Word32 = Values(Bytes) /\ Max64 + 1 = Values(2 * Bytes)
  <1>1. Values(Bytes) \in Nat \ {0, 1}
    <2>1. PICK k \in Nat : Bytes = k + 1
      <3>1. Bytes - 1 \in Nat /\ Bytes = (Bytes - 1) + 1
        BY WidthAssumption
      <3> QED
        BY <3>1
    <2>2. PICK v \in Nat \ {0} : v = Values(k)
      BY ValuesFacts
    <2>3. PICK b \in Nat \ {0, 1} : b = Base
      BY WidthAssumption
    <2>4. b * b >= 4 /\ b * b \in Nat
      OBVIOUS
    <2>5. PICK c \in Nat : c = b * b
      BY <2>4
    <2>6. c * v >= 4 /\ c * v \in Nat
      BY <2>4, <2>5
    <2>7. Values(k + 1) = c * v
      BY <2>2, <2>3, <2>5, ValuesFacts
    <2> QED
      BY <2>1, <2>6, <2>7
  <1>2. Values(2 * Bytes) = Values(Bytes) * Values(Bytes)
    <2>1. 2 * Bytes = Bytes + Bytes /\ Bytes \in Nat
      BY WidthAssumption
    <2> QED
      BY <2>1, ValuesOfSum
  <1>3. PICK v \in Nat \ {0, 1} : v = Values(Bytes)
    BY <1>1
  <1>4. Values(2 * Bytes) = v * v /\ v * v \in Nat
    BY <1>2, <1>3
  <1> QED
    BY <1>3, <1>4 DEF Word32, Max64

\* A 32-bit target becomes a 64-bit one that is not zero, takes every hash that the pool
\* takes, and gives the pool's difficulty back.
LEMMA Target64Facts ==
  ASSUME NEW w \in 1 .. Word32 - 1
  PROVE  /\ Target64(w) \in 1 .. Max64 /\ Target64(w) >= w * Word32
         /\ toDiff(Target64(w)) = (Word32 - 1) \div w
  <1>1. PICK W \in Nat \ {0, 1} : W = Word32
    BY Widths
  <1>2. w \in 1 .. W - 1
    BY <1>1
  <1>3. PICK k \in Nat : k = (W - 1) \div w
    BY <1>2
  <1>4. k >= 1 /\ k <= W - 1 /\ k * w <= W - 1
    BY <1>2, <1>3
  <1>5. PICK M \in Nat : M = W * W - 1
    OBVIOUS
  <1>6. PICK t \in Nat : t = M \div k
    BY <1>4, <1>5
  <1>7. k * t <= M /\ M < k * t + k
    BY <1>4, <1>5, <1>6
  <1>8. t >= w * W
    <2>1. (k * w) * W <= (W - 1) * W
      BY <1>4
    <2>2. (W - 1) * W <= M
      BY <1>5
    <2>3. PICK y \in Nat : y = w * W
      BY <1>2
    <2>4. k * y <= M
      BY <2>1, <2>2, <2>3, <1>2
    <2>5. ASSUME t < y PROVE FALSE
      <3>1. k * (t + 1) <= k * y
        BY <2>5
      <3>2. k * (t + 1) = k * t + k
        OBVIOUS
      <3>3. k * t \in Nat /\ k * y \in Nat
        OBVIOUS
      <3> QED
        BY <1>7, <2>4, <3>1, <3>2, <3>3
    <2> QED
      BY <2>3, <2>5
  <1>9. w * W \in Nat /\ w * W >= W
    BY <1>2
  <1>10. t >= W /\ t > k
    BY <1>4, <1>8, <1>9
  <1>11. t <= M
    <2>1. k * t \in Nat /\ k * t >= t
      BY <1>4
    <2> QED
      BY <1>7, <2>1
  <1>12. M \div t = k
    <2>1. t * k <= M /\ M < t * k + t
      <3>1. k * t = t * k /\ k * t \in Nat
        OBVIOUS
      <3> QED
        BY <1>5, <1>7, <1>10, <3>1
    <2>2. t \in Nat \ {0}
      BY <1>10
    <2> QED
      BY <1>5, <2>1, <2>2
  <1>13. Max64 = M
    BY <1>1, <1>5, Widths
  <1>14. Target64(w) = t
    BY <1>1, <1>3, <1>6, <1>13 DEF Target64
  <1> QED
    BY <1>1, <1>3, <1>8, <1>10, <1>11, <1>12, <1>13, <1>14 DEF toDiff

\* A difficulty is not zero if the target is not.
LEMMA DiffFacts ==
  ASSUME NEW t \in 1 .. Max64
  PROVE  toDiff(t) \in 1 .. Max64
  <1>1. PICK M \in Nat : M = Max64
    <2>1. PICK W \in Nat \ {0, 1} : W = Word32
      BY Widths
    <2>2. W * W - 1 \in Nat
      OBVIOUS
    <2> QED
      BY <2>1, <2>2, Widths
  <1>2. t \in 1 .. M
    BY <1>1
  <1>3. M \div t \in 1 .. M
    BY <1>1, <1>2
  <1> QED
    BY <1>1, <1>3 DEF toDiff

\* Job::setTarget(): what it accepts is not zero and has 64 bits; a target that
\* Job::toHex() wrote means the number it was written for.
LEMMA TargetFacts ==
  ASSUME NEW t \in Targets, NEW stack \in Garbage, setTarget(t, stack) # 0
  PROVE  /\ setTarget(t, stack) \in 1 .. Max64
         /\ \A w \in 1 .. Word32 - 1 : t = toHex(w, Bytes) => setTarget(t, stack) = Target64(w)
         /\ \A w \in 1 .. Max64 : t = toHex(w, 2 * Bytes) => setTarget(t, stack) = w
  <1>0. /\ t \in Seq((0 .. Base - 1) \cup {NotHex}) /\ Len(t) \in Nat
        /\ stack \in [1 .. 4 * Bytes -> (0 .. Base - 1) \cup {NotHex}]
        /\ Bytes \in Nat \ {0}
    BY InputAssumption, WidthAssumption
  <1>1. PICK m \in {Bytes, 2 * Bytes} : m = IF Len(t) <= 2 * Bytes THEN Bytes ELSE 2 * Bytes
    OBVIOUS
  <1>2. m \in Nat /\ 2 * m = (IF Len(t) <= 2 * Bytes THEN 2 * Bytes ELSE 4 * Bytes) /\ 2 * m <= 4 * Bytes
    BY <1>0, <1>1
  <1>3. PICK s : s = Padded(t, 2 * m, stack)
    OBVIOUS
  <1>4. Len(s) = 2 * m /\ \A k \in 1 .. 2 * m : s[k] = IF k <= Len(t) THEN t[k] ELSE stack[k]
    BY <1>2, <1>3 DEF Padded
  <1>5. \A k \in 1 .. 2 * m : s[k] \in (0 .. Base - 1) \cup {NotHex}
    <2> SUFFICES ASSUME NEW k \in 1 .. 2 * m PROVE s[k] \in (0 .. Base - 1) \cup {NotHex}
      OBVIOUS
    <2>1. CASE k <= Len(t)
      <3>1. k \in 1 .. Len(t)
        BY <1>0, <1>2, <2>1
      <3> QED
        BY <1>0, <1>4, <2>1, <3>1
    <2>2. CASE ~(k <= Len(t))
      <3>1. k \in 1 .. 4 * Bytes
        BY <1>0, <1>2
      <3>2. stack[k] \in (0 .. Base - 1) \cup {NotHex}
        BY <1>0, <3>1
      <3> QED
        BY <1>4, <2>2, <3>2
    <2> QED
      BY <2>1, <2>2
  <1>6. PICK word : word = IF IsHex(s) THEN fromHex(s) ELSE 0
    OBVIOUS
  <1>7. setTarget(t, stack) = IF Len(t) > 4 * Bytes \/ word = 0 THEN 0
                              ELSE IF 2 * m = 2 * Bytes THEN Target64(word) ELSE word
    BY <1>2, <1>3, <1>6 DEF setTarget
  <1>8. word # 0 /\ setTarget(t, stack) = IF 2 * m = 2 * Bytes THEN Target64(word) ELSE word
    BY <1>7
  <1>9. IsHex(s) /\ word = fromHex(s)
    BY <1>6, <1>8
  <1>10. \A k \in 1 .. 2 * m : s[k] \in 0 .. Base - 1
    BY <1>4, <1>5, <1>9 DEF IsHex
  <1>11. fromHex(s) \in 0 .. Values(m) - 1
    BY <1>2, <1>4, <1>10, HexBound
  <1>12. word \in 1 .. Values(m) - 1
    <2>1. Values(m) \in Nat
      BY <1>2, ValuesFacts
    <2> QED
      BY <1>8, <1>9, <1>11, <2>1
  <1>13. setTarget(t, stack) \in 1 .. Max64
    <2>1. CASE m = Bytes
      <3>1. word \in 1 .. Word32 - 1
        BY <1>12, <2>1 DEF Word32
      <3>2. Target64(word) \in 1 .. Max64
        BY <3>1, Target64Facts
      <3> QED
        BY <1>8, <2>1, <3>2
    <2>2. CASE m = 2 * Bytes /\ m # Bytes
      <3>1. word \in 1 .. Max64
        BY <1>12, <2>2 DEF Max64
      <3>2. 2 * m # 2 * Bytes
        BY <1>0, <2>2
      <3> QED
        BY <1>8, <3>1, <3>2
    <2> QED
      BY <1>1, <2>1, <2>2
  <1>14. Len(t) = 2 * m => s = t
    <2> SUFFICES ASSUME Len(t) = 2 * m PROVE s = t
      OBVIOUS
    <2>1. s = [k \in 1 .. 2 * m |-> s[k]]
      BY <1>3 DEF Padded
    <2>2. t = [k \in 1 .. 2 * m |-> t[k]]
      BY <1>0
    <2>3. \A k \in 1 .. 2 * m : s[k] = t[k]
      BY <1>2, <1>4
    <2> QED
      BY <2>1, <2>2, <2>3
  <1>15. ASSUME NEW w \in 1 .. Word32 - 1, t = toHex(w, Bytes)
         PROVE  setTarget(t, stack) = Target64(w)
    <2>1. Bytes \in Nat /\ w \in 0 .. Values(Bytes) - 1
      BY <1>0 DEF Word32
    <2>2. Len(t) = 2 * Bytes /\ fromHex(t) = w
      BY <1>15, <2>1, HexRoundTrip
    <2>3. m = Bytes
      BY <1>0, <1>1, <2>2
    <2> QED
      BY <1>8, <1>9, <1>14, <2>2, <2>3
  <1>16. ASSUME NEW w \in 1 .. Max64, t = toHex(w, 2 * Bytes)
         PROVE  setTarget(t, stack) = w
    <2>1. PICK n \in Nat : n = 2 * Bytes
      BY <1>0
    <2>2. w \in 0 .. Values(n) - 1
      BY <2>1 DEF Max64
    <2>3. Len(toHex(w, n)) = 2 * n /\ fromHex(toHex(w, n)) = w
      BY <2>2, HexRoundTrip
    <2>4. Len(t) = 2 * n /\ fromHex(t) = w
      BY <1>16, <2>1, <2>3
    <2>5. m = n /\ 2 * m # 2 * Bytes
      BY <1>0, <1>1, <2>1, <2>4
    <2> QED
      BY <1>8, <1>9, <1>14, <2>4, <2>5
  <1> QED
    BY <1>13, <1>15, <1>16

-----------------------------------------------------------------------------
\* A job that parseJob() accepts.
LEMMA AcceptedJob ==
  ASSUME NEW p \in Params, NEW nicehash \in BOOLEAN, NEW stack \in Garbage, Code(p, stack) = 0
  PROVE  LET job == NewJob(p, nicehash, stack) IN
         /\ job \in Job
         /\ ~job.stray =>
              /\ \A w \in 1 .. Word32 - 1 : job.sent = toHex(w, Bytes) =>
                   job.target >= w * Word32 /\ job.diff = (Word32 - 1) \div w
              /\ \A w \in 1 .. Max64 : job.sent = toHex(w, 2 * Bytes) => job.target = w
  <1>1. /\ p.job_id \notin {Missing, LongId}
        /\ p.blob # Missing /\ SizeIsRight(p.blob.chars)
        /\ p.target # Missing /\ setTarget(p.target, stack) # 0
    BY DEF Code
  <1>2. /\ p.job_id \in Ids \cup {Missing} /\ p.blob \in Blobs \cup {Missing}
        /\ p.target \in Targets \cup {Missing}
    BY DEF Params
  <1>3. PICK t \in Targets : t = p.target
    BY <1>1, <1>2
  <1>4. PICK target : target = setTarget(t, stack)
    OBVIOUS
  <1>5. /\ target \in 1 .. Max64
        /\ \A w \in 1 .. Word32 - 1 : t = toHex(w, Bytes) => target = Target64(w)
        /\ \A w \in 1 .. Max64 : t = toHex(w, 2 * Bytes) => target = w
    BY <1>1, <1>3, <1>4, TargetFacts
  <1>6. PICK diff : diff = toDiff(target)
    OBVIOUS
  <1>7. diff \in 1 .. Max64
    BY <1>5, <1>6, DiffFacts
  <1>8. PICK size : size = p.blob.chars \div 2
    OBVIOUS
  <1>9. p.blob.nonce \in BOOLEAN /\ p.blob.chars \in Nat
    BY <1>1, <1>2, InputAssumption
  <1>10. size \in MinSize .. Capacity - 1
    BY <1>1, <1>8, <1>9, WidthAssumption DEF SizeIsRight
  <1>11. PICK id \in Ids \ {LongId} : id = p.job_id
    BY <1>1, <1>2
  <1>12. PICK nonce \in BOOLEAN : nonce = p.blob.nonce
    BY <1>9
  <1>13. PICK flag \in BOOLEAN : flag = (nicehash \/ nonce)
    OBVIOUS
  <1>14. PICK stray \in BOOLEAN : stray = (Len(t) \notin {2 * Bytes, 4 * Bytes})
    OBVIOUS
  <1>15. NewJob(p, nicehash, stack) =
           [id |-> id, size |-> size, nonce |-> nonce, nicehash |-> flag, target |-> target,
            diff |-> diff, sent |-> t, stray |-> stray]
    BY <1>3, <1>4, <1>6, <1>8, <1>11, <1>12, <1>13, <1>14 DEF NewJob
  <1>16. PICK job : job = NewJob(p, nicehash, stack)
    OBVIOUS
  <1>17. job \in Job
    BY <1>5, <1>7, <1>10, <1>15, <1>16 DEF Job
  <1>18. job.sent = t /\ job.target = target /\ job.diff = diff
    BY <1>15, <1>16
  <1>19. \A w \in 1 .. Word32 - 1 : job.sent = toHex(w, Bytes) =>
           job.target >= w * Word32 /\ job.diff = (Word32 - 1) \div w
    BY <1>5, <1>6, <1>18, Target64Facts
  <1> QED
    BY <1>5, <1>16, <1>17, <1>18, <1>19

\* parseJob() keeps the invariant.
LEMMA ParseKeeps ==
  ASSUME JobInvariant, NEW p \in Params, NEW nicehash \in BOOLEAN, parseJob(p, nicehash),
         m_nicehash' \in BOOLEAN
  PROVE  JobInvariant'
  <1>1. PICK stack \in Garbage :
          /\ code' = Code(p, stack)
          /\ IF Code(p, stack) # 0 \/ Same(p)
             THEN UNCHANGED <<m_job, device>>
             ELSE LET job == NewJob(p, nicehash, stack) IN m_job' = job /\ Load(job)
    BY DEF parseJob
  <1>2. code' \in 0 .. 5
    BY <1>1 DEF Code
  <1>3. CASE UNCHANGED <<m_job, device>>
    BY <1>2, <1>3 DEF JobInvariant, JobTypeOK, TargetIsThePools
  <1>4. CASE ~UNCHANGED <<m_job, device>>
    <2>1. Code(p, stack) = 0
      BY <1>1, <1>4
    <2>2. PICK job : job = NewJob(p, nicehash, stack)
      OBVIOUS
    <2>3. m_job' = job /\ Load(job)
      BY <1>1, <1>4, <2>2
    <2>4. /\ job \in Job
          /\ ~job.stray =>
               /\ \A w \in 1 .. Word32 - 1 : job.sent = toHex(w, Bytes) =>
                    job.target >= w * Word32 /\ job.diff = (Word32 - 1) \div w
               /\ \A w \in 1 .. Max64 : job.sent = toHex(w, 2 * Bytes) => job.target = w
      BY <2>1, <2>2, AcceptedJob
    <2>5. device' \in {"none", "m_job", "stale"}
      BY <2>3 DEF Load
    <2>6. TargetIsThePools'
      BY <2>3, <2>4 DEF TargetIsThePools
    <2> QED
      BY <1>2, <2>3, <2>4, <2>5, <2>6 DEF JobInvariant, JobTypeOK
  <1> QED
    BY <1>3, <1>4

\* A job that the client takes has a blob inside m_blob, a target and a difficulty that are
\* not zero, and the pool's idea of both, for any width of the words (Job.cpp, setBlob,
\* setTarget, fromHex, toDiff; Client.cpp, parseJob).
THEOREM JobInvariantHolds == JobSpec => []JobInvariant
  <1>1. ASSUME JobInit PROVE JobInvariant
    <2>1. m_job = Missing /\ device = "none" /\ code = 0
      BY <1>1 DEF JobInit
    <2>2. m_job \in Job \cup {Missing} /\ device \in {"none", "m_job", "stale"}
      BY <2>1
    <2>3. m_nicehash \in BOOLEAN /\ code \in 0 .. 5
      <3>1. m_nicehash \in BOOLEAN
        BY <1>1 DEF JobInit
      <3>2. code \in 0 .. 5
        BY <2>1
      <3> QED
        BY <3>1, <3>2
    <2>4. TargetIsThePools
      BY <2>1 DEF TargetIsThePools
    <2> QED
      BY <2>2, <2>3, <2>4 DEF JobInvariant, JobTypeOK
  <1>2. ASSUME JobInvariant, JobNext PROVE JobInvariant'
    <2>0. m_nicehash \in BOOLEAN
      BY <1>2 DEF JobInvariant, JobTypeOK
    <2>1. ASSUME NEW p \in Params, OnNotification(p) PROVE JobInvariant'
      BY <1>2, <2>0, <2>1, ParseKeeps DEF OnNotification
    <2>2. ASSUME NEW p \in Params, NEW ext \in BOOLEAN, OnLogin(p, ext) PROVE JobInvariant'
      <3>1. PICK nicehash \in BOOLEAN : nicehash = m_nicehash'
        BY <2>2, InputAssumption DEF OnLogin, parseExtensions
      <3>2. parseJob(p, nicehash)
        BY <2>2, <3>1 DEF OnLogin
      <3> QED
        BY <1>2, <3>1, <3>2, ParseKeeps
    <2>3. ASSUME OnLoginWithoutId \/ NoObject PROVE JobInvariant'
      BY <1>2, <2>3
      DEF OnLoginWithoutId, NoObject, JobInvariant, JobTypeOK, TargetIsThePools
    <2>4. ASSUME NEW ext \in BOOLEAN, OnLoginNoObject(ext) PROVE JobInvariant'
      <3>1. m_nicehash' \in BOOLEAN
        BY <2>4, InputAssumption DEF OnLoginNoObject, parseExtensions
      <3>2. m_job' = m_job /\ device' = device /\ code' \in 0 .. 5
        BY <2>4 DEF OnLoginNoObject
      <3> QED
        BY <1>2, <3>1, <3>2 DEF JobInvariant, JobTypeOK, TargetIsThePools
    <2> QED
      BY <1>2, <2>1, <2>2, <2>3, <2>4 DEF JobNext
  <1>3. JobInvariant /\ UNCHANGED jobVars => JobInvariant'
    BY DEF JobInvariant, JobTypeOK, TargetIsThePools, jobVars
  <1> QED
    BY <1>1, <1>2, <1>3, PTL DEF JobSpec

-----------------------------------------------------------------------------
(* The inductive invariant of Options.                                     *)

\* What a pool, the history of the URLs, and a thread are.
UserType == UrlArgs \cup {None, NoUrl, BuiltInUrl}
FromType == UrlArgs \cup {None, BuiltInUrl}
HostType == {None, "", "a", "b", "built-in"}
UrlType ==
  [host : HostType, port : 0 .. UInt16 - 1, user : UserType, variant : {-1, 0, 1}, from : FromType]
SeenType == [given : Seq(UrlArgs), lost : BOOLEAN, latest : UrlArgs \cup {None}]
ThreadType == [index : Nat, intensity : Nat, auto : BOOLEAN]
SelfType ==
  [pools : Seq(UrlType), port : 0 .. UInt16, intensity : Nat, platform : Int, powerLimit : Int,
   threads : Seq(ThreadType)]

\* A user belongs to its pool.
UserFits(pools, i) ==
  pools[i].user \in {None, pools[i].from} \/ (i = 1 /\ pools[i].user = NoUrl)

\* The pools while the configuration is read.
PoolState(pools, h) ==
  /\ pools \in Seq(UrlType) /\ h \in SeenType /\ Len(pools) >= 1
  /\ Len(pools) > 1 => \A i \in 1 .. Len(pools) : isValid(pools[i])
  /\ ~h.lost =>
       /\ h.given = <<>> =>
            /\ Len(pools) = 1 /\ pools[1].host = None /\ pools[1].port = kDefaultPort
            /\ pools[1].from = None /\ h.latest = None
       /\ h.given # <<>> =>
            /\ Len(pools) = Len(h.given)
            /\ \A i \in 1 .. Len(pools) : isValid(pools[i]) /\ pools[i].from = h.given[i]
            /\ h.latest = h.given[Len(h.given)]
       /\ \A i \in 1 .. Len(pools) : UserFits(pools, i)

\* The types; while the configuration is read the pools are as PoolState says, which
\* is what makes them right at the end; and no thread is of autoConf() before it ran.
OptionsInv ==
  /\ self \in SelfType /\ seen \in SeenType /\ Len(self.pools) >= 1
  /\ stage \in {"args", "ready", "started", "refused"} /\ args \in 0 .. MaxArgs
  /\ stage = "args" => PoolState(self.pools, seen)
  /\ PoolsAreTheGivenUrls /\ UsersFollowTheirUrl
  /\ stage # "started" => \A k \in 1 .. Len(self.threads) : ~self.threads[k].auto
  /\ AutoThreadsFit

-----------------------------------------------------------------------------
\* Url::parse() can split the address.
Splits(a) == ~(a.scheme = "other" \/ ((a.host = "" \/ a.v6) /\ a.port = None))

\* The port that a Url has afterwards.
PortOf(url, a) == IF a.port = None THEN url.port ELSE a.port % UInt16

\* What Url::parse() makes of a Url.
LEMMA ParseFacts ==
  ASSUME NEW url \in UrlType, NEW a \in UrlArgs
  PROVE  /\ parse(url, a) \in UrlType
         /\ parse(url, a).user = url.user /\ parse(url, a).variant = url.variant
         /\ Splits(a) => /\ parse(url, a).host = a.host /\ parse(url, a).from = a
                         /\ parse(url, a).port = PortOf(url, a)
         /\ ~Splits(a) => parse(url, a) = url
  <1>1. a.host \in {"", "a", "b"} /\ a.port \in Int \cup {None}
    BY OptionsAssumption
  <1>2. PICK host : host = a.host
    OBVIOUS
  <1>3. host \in HostType
    BY <1>1, <1>2 DEF HostType
  <1>4. PICK port : port = PortOf(url, a)
    OBVIOUS
  <1>5. port \in 0 .. UInt16 - 1
    <2>1. url.port \in 0 .. UInt16 - 1
      BY DEF UrlType
    <2>2. CASE a.port = None
      BY <1>4, <2>1, <2>2 DEF PortOf
    <2>3. CASE a.port # None
      <3>1. PICK n \in Int : n = a.port
        BY <1>1, <2>3
      <3>2. n % UInt16 \in 0 .. UInt16 - 1
        <4>1. PICK m \in Nat \ {0} : m = UInt16
          BY DEF UInt16
        <4>2. n % m \in 0 .. m - 1
          OBVIOUS
        <4> QED
          BY <4>1, <4>2
      <3> QED
        BY <1>4, <2>3, <3>1, <3>2 DEF PortOf
    <2> QED
      BY <2>2, <2>3
  <1>6. a \in FromType
    BY DEF FromType
  <1>7. CASE ~Splits(a)
    BY <1>7 DEF Splits, parse
  <1>8. CASE Splits(a)
    <2>1. parse(url, a) = [url EXCEPT !.host = host, !.from = a, !.port = port]
      BY <1>2, <1>4, <1>8 DEF Splits, parse, PortOf
    <2>2. PICK u : u = [url EXCEPT !.host = host, !.from = a, !.port = port]
      OBVIOUS
    <2>3. u \in UrlType
      BY <1>3, <1>5, <1>6, <2>2 DEF UrlType
    <2>4. /\ u.host = host /\ u.from = a /\ u.port = port /\ u.user = url.user
          /\ u.variant = url.variant
      BY <2>2 DEF UrlType
    <2> QED
      BY <1>2, <1>4, <1>8, <2>1, <2>2, <2>3, <2>4
  <1> QED
    BY <1>7, <1>8

\* An empty Url.
LEMMA BlankFacts ==
  /\ Url \in UrlType /\ Url.host = None /\ Url.port = kDefaultPort /\ Url.user = None
  /\ Url.from = None
  <1>1. None \in HostType /\ None \in UserType /\ None \in FromType
    BY DEF HostType, UserType, FromType
  <1>2. kDefaultPort \in 0 .. UInt16 - 1 /\ -1 \in {-1, 0, 1}
    <2>1. PICK m \in Nat : m = UInt16 /\ 3333 < m
      BY DEF UInt16
    <2>2. 3333 \in 0 .. m - 1
      BY <2>1
    <2> QED
      BY <2>1, <2>2 DEF kDefaultPort
  <1> QED
    BY <1>1, <1>2 DEF UrlType, Url

\* A Url without a host takes an address as an empty one does.
LEMMA BlankParses ==
  ASSUME NEW url \in UrlType, NEW a \in UrlArgs, url.host = None, url.port = kDefaultPort
  PROVE  /\ isValid(parse(url, a)) <=> isValid(parse(Url, a))
         /\ isValid(parse(url, a)) => parse(url, a).from = a
  <1>1. PICK u, v : u = parse(url, a) /\ v = parse(Url, a)
    OBVIOUS
  <1>2. /\ Splits(a) => u.host = a.host /\ u.from = a /\ u.port = PortOf(url, a)
        /\ ~Splits(a) => u = url
    BY <1>1, ParseFacts
  <1>3. /\ Splits(a) => v.host = a.host /\ v.from = a /\ v.port = PortOf(Url, a)
        /\ ~Splits(a) => v = Url
    BY <1>1, ParseFacts, BlankFacts
  <1>4. PortOf(url, a) = PortOf(Url, a)
    BY BlankFacts DEF PortOf
  <1>5. CASE Splits(a)
    BY <1>1, <1>2, <1>3, <1>4, <1>5 DEF isValid
  <1>6. CASE ~Splits(a)
    BY <1>1, <1>2, <1>3, <1>6, BlankFacts DEF isValid
  <1> QED
    BY <1>5, <1>6

\* What is remembered of a URL.
LEMMA RememberFacts ==
  ASSUME NEW h \in SeenType, NEW before, NEW a \in UrlArgs
  PROVE  LET r == Remember(h, before, a)
             after == AddUrl(before, a)
             valid == isValid(parse(Url, a))
         IN  /\ r \in SeenType /\ r.latest = a
             /\ r.given = (IF valid THEN Append(h.given, a) ELSE h.given)
             /\ ~r.lost => ~h.lost /\ valid /\ isValid(after[back(after)])
  <1>1. PICK after : after = AddUrl(before, a)
    OBVIOUS
  <1>2. PICK valid \in BOOLEAN : valid = isValid(parse(Url, a))
    BY DEF isValid
  <1>3. PICK last \in BOOLEAN : last = isValid(after[back(after)])
    BY DEF isValid
  <1>4. h.given \in Seq(UrlArgs) /\ h.lost \in BOOLEAN
    BY DEF SeenType
  <1>5. PICK given : given = IF valid THEN Append(h.given, a) ELSE h.given
    OBVIOUS
  <1>6. given \in Seq(UrlArgs)
    BY <1>4, <1>5
  <1>7. PICK lost \in BOOLEAN : lost = (h.lost \/ ~valid \/ ~last)
    OBVIOUS
  <1>8. Remember(h, before, a) = [h EXCEPT !.given = given, !.lost = lost, !.latest = a]
    BY <1>1, <1>2, <1>3, <1>5, <1>7 DEF Remember
  <1>9. PICK r : r = [h EXCEPT !.given = given, !.lost = lost, !.latest = a]
    OBVIOUS
  <1>10. r \in SeenType
    BY <1>6, <1>9 DEF SeenType
  <1>11. r.latest = a /\ r.given = given /\ r.lost = lost
    BY <1>9 DEF SeenType
  <1> QED
    BY <1>1, <1>2, <1>3, <1>4, <1>5, <1>7, <1>8, <1>9, <1>10, <1>11

-----------------------------------------------------------------------------
\* --url keeps what is known of the pools.
LEMMA AddUrlKeeps ==
  ASSUME NEW pools, NEW h, PoolState(pools, h), NEW a \in UrlArgs
  PROVE  PoolState(AddUrl(pools, a), Remember(h, pools, a))
  <1>0. /\ pools \in Seq(UrlType) /\ h \in SeenType /\ Len(pools) \in Nat /\ Len(pools) >= 1
        /\ Len(pools) > 1 => \A i \in 1 .. Len(pools) : isValid(pools[i])
    BY DEF PoolState
  <1>1. h.given \in Seq(UrlArgs)
    BY <1>0 DEF SeenType
  <1>2. PICK after, r : after = AddUrl(pools, a) /\ r = Remember(h, pools, a)
    OBVIOUS
  <1>3. PICK l \in Nat : l = Len(pools) /\ l >= 1
    BY <1>0
  <1>4. PICK new : new = parse(Url, a)
    OBVIOUS
  <1>5. new \in UrlType /\ new.user = None /\ (isValid(new) => new.from = a)
    BY <1>4, ParseFacts, BlankFacts, BlankParses
  <1>6. /\ r \in SeenType /\ r.latest = a
        /\ r.given = (IF isValid(new) THEN Append(h.given, a) ELSE h.given)
        /\ ~r.lost => ~h.lost /\ isValid(new) /\ isValid(after[Len(after)])
    BY <1>0, <1>2, <1>4, RememberFacts DEF back
  <1>7. PICK given : given = Append(h.given, a)
    OBVIOUS
  <1>8. /\ Len(given) = Len(h.given) + 1 /\ given[Len(h.given) + 1] = a /\ given # <<>>
        /\ \A i \in 1 .. Len(h.given) : given[i] = h.given[i]
        /\ Len(h.given) \in Nat /\ (h.given = <<>> <=> Len(h.given) = 0)
    BY <1>1, <1>7
  <1>9. ~r.lost => r.given = given /\ isValid(new) /\ ~h.lost /\ isValid(after[Len(after)])
    BY <1>6, <1>7
  <1>10. CASE Len(pools) > 1 \/ isValid(pools[1])
    <2>1. \A i \in 1 .. l : isValid(pools[i])
      BY <1>0, <1>3, <1>10
    <2>2. ~h.lost =>
            /\ h.given # <<>> /\ Len(h.given) = l
            /\ \A i \in 1 .. l : pools[i].from = h.given[i]
            /\ \A i \in 1 .. l : UserFits(pools, i)
      <3> SUFFICES ASSUME ~h.lost
                   PROVE  /\ h.given # <<>> /\ Len(h.given) = l
                          /\ \A i \in 1 .. l : pools[i].from = h.given[i]
                          /\ \A i \in 1 .. l : UserFits(pools, i)
        OBVIOUS
      <3>1. pools[1].host # None
        BY <1>3, <2>1 DEF isValid
      <3>2. h.given # <<>>
        BY <3>1 DEF PoolState
      <3> QED
        BY <1>3, <3>2 DEF PoolState
    <2>3. CASE ~isValid(new)
      <3>1. after = pools
        BY <1>2, <1>4, <1>10, <2>3 DEF AddUrl
      <3>2. r.lost
        BY <1>6, <2>3
      <3> QED
        BY <1>0, <1>2, <1>6, <3>1, <3>2 DEF PoolState
    <2>4. CASE isValid(new)
      <3>1. after = Append(pools, new)
        BY <1>2, <1>4, <1>10, <2>4 DEF AddUrl
      <3>2. /\ after \in Seq(UrlType) /\ Len(after) = l + 1 /\ after[l + 1] = new
            /\ \A i \in 1 .. l : after[i] = pools[i]
        BY <1>0, <1>3, <1>5, <3>1
      <3>3. \A i \in 1 .. l + 1 : i \in 1 .. l \/ i = l + 1
        OBVIOUS
      <3>4. \A i \in 1 .. l + 1 : isValid(after[i])
        BY <2>1, <2>4, <3>2, <3>3
      <3>5. ASSUME ~r.lost
            PROVE  /\ r.given # <<>> /\ Len(after) = Len(r.given)
                   /\ \A i \in 1 .. l + 1 : after[i].from = r.given[i]
                   /\ r.latest = r.given[Len(r.given)]
                   /\ \A i \in 1 .. l + 1 : UserFits(after, i)
        <4>1. r.given = given /\ ~h.lost /\ Len(h.given) = l
          BY <1>9, <2>2, <3>5
        <4>2. \A i \in 1 .. l + 1 : after[i].from = given[i]
          <5> SUFFICES ASSUME NEW i \in 1 .. l + 1 PROVE after[i].from = given[i]
            OBVIOUS
          <5>1. CASE i = l + 1
            BY <1>5, <1>8, <2>4, <3>2, <4>1, <5>1
          <5>2. CASE i \in 1 .. l
            BY <1>8, <2>2, <3>2, <4>1, <5>2
          <5> QED
            BY <3>3, <5>1, <5>2
        <4>3. \A i \in 1 .. l + 1 : UserFits(after, i)
          <5> SUFFICES ASSUME NEW i \in 1 .. l + 1 PROVE UserFits(after, i)
            OBVIOUS
          <5>1. CASE i = l + 1
            BY <1>5, <3>2, <5>1 DEF UserFits
          <5>2. CASE i \in 1 .. l
            BY <2>2, <3>2, <4>1, <5>2 DEF UserFits
          <5> QED
            BY <3>3, <5>1, <5>2
        <4> QED
          BY <1>6, <1>8, <3>2, <4>1, <4>2, <4>3
      <3>6. PoolState(after, r)
        BY <1>3, <1>6, <3>2, <3>4, <3>5 DEF PoolState
      <3> QED
        BY <1>2, <3>6
    <2> QED
      BY <2>3, <2>4
  <1>11. CASE ~(Len(pools) > 1 \/ isValid(pools[1]))
    <2>1. l = 1 /\ ~isValid(pools[1]) /\ pools[1] \in UrlType
      BY <1>0, <1>3, <1>11
    <2>2. PICK old, url : old = pools[1] /\ url = parse(pools[1], a)
      OBVIOUS
    <2>3. after = <<url>>
      BY <1>2, <1>11, <2>2 DEF AddUrl
    <2>4. url \in UrlType /\ url.user = old.user
      BY <2>1, <2>2, ParseFacts
    <2>5. after \in Seq(UrlType) /\ Len(after) = 1 /\ after[1] = url
      BY <2>3, <2>4
    <2>6. ASSUME ~r.lost
          PROVE  /\ r.given # <<>> /\ Len(r.given) = 1 /\ isValid(url) /\ url.from = r.given[1]
                 /\ r.latest = r.given[1] /\ UserFits(after, 1)
      <3>1. r.given = given /\ isValid(new) /\ ~h.lost /\ isValid(url)
        BY <1>9, <2>5, <2>6
      <3>2. h.given = <<>>
        <4>1. h.given # <<>> => isValid(pools[1])
          BY <1>3, <2>1, <3>1 DEF PoolState
        <4> QED
          BY <2>1, <4>1
      <3>3. old.host = None /\ old.port = kDefaultPort /\ old.from = None /\ UserFits(pools, 1)
        BY <1>3, <2>1, <2>2, <3>1, <3>2 DEF PoolState
      <3>4. url.from = a
        BY <2>1, <2>2, <3>1, <3>3, BlankParses
      <3>5. given[1] = a /\ Len(given) = 1
        BY <1>8, <3>2
      <3>6. UserFits(after, 1)
        <4>1. old.user \in {None, NoUrl}
          BY <2>2, <3>3 DEF UserFits
        <4> QED
          BY <2>4, <2>5, <4>1 DEF UserFits
      <3> QED
        BY <1>6, <1>8, <3>1, <3>4, <3>5, <3>6
    <2>7. PoolState(after, r)
      BY <1>6, <2>5, <2>6 DEF PoolState
    <2> QED
      BY <1>2, <2>7
  <1> QED
    BY <1>10, <1>11

\* The user that a setting gives to the last pool.
NewUser(h) == IF h.latest = None THEN NoUrl ELSE h.latest

\* A setting of the last pool that leaves its address alone, and gives it no user or
\* that of the URL written last, keeps what is known of the pools.
LEMMA LastKeeps ==
  ASSUME NEW pools, NEW h, PoolState(pools, h), NEW url \in UrlType,
         url.host = pools[Len(pools)].host, url.port = pools[Len(pools)].port,
         url.from = pools[Len(pools)].from,
         url.user \in {pools[Len(pools)].user, NewUser(h)}
  PROVE  PoolState([pools EXCEPT ![Len(pools)] = url], h)
  <1>0. /\ pools \in Seq(UrlType) /\ h \in SeenType /\ Len(pools) \in Nat /\ Len(pools) >= 1
        /\ Len(pools) > 1 => \A i \in 1 .. Len(pools) : isValid(pools[i])
    BY DEF PoolState
  <1>1. PICK l \in Nat : l = Len(pools) /\ l >= 1
    BY <1>0
  <1>2. PICK after : after = [pools EXCEPT ![l] = url]
    OBVIOUS
  <1>3. /\ after \in Seq(UrlType) /\ Len(after) = l /\ after[l] = url
        /\ \A i \in 1 .. l : i # l => after[i] = pools[i]
    BY <1>0, <1>1, <1>2
  <1>4. \A i \in 1 .. l : /\ after[i].host = pools[i].host /\ after[i].port = pools[i].port
                          /\ after[i].from = pools[i].from
    <2> SUFFICES ASSUME NEW i \in 1 .. l
                 PROVE  /\ after[i].host = pools[i].host /\ after[i].port = pools[i].port
                        /\ after[i].from = pools[i].from
      OBVIOUS
    <2>1. CASE i = l
      BY <1>1, <1>3, <2>1
    <2>2. CASE i # l
      BY <1>3, <2>2
    <2> QED
      BY <2>1, <2>2
  <1>5. \A i \in 1 .. l : isValid(after[i]) <=> isValid(pools[i])
    BY <1>4 DEF isValid
  <1>6. ~h.lost => \A i \in 1 .. l : UserFits(after, i)
    <2> SUFFICES ASSUME ~h.lost, NEW i \in 1 .. l PROVE UserFits(after, i)
      OBVIOUS
    <2>1. UserFits(pools, i)
      BY <1>1 DEF PoolState
    <2>2. CASE after[i].user = pools[i].user
      BY <1>4, <2>1, <2>2 DEF UserFits
    <2>3. CASE after[i].user # pools[i].user
      <3>1. i = l /\ after[i].user = NewUser(h)
        BY <1>1, <1>3, <2>3
      <3>2. CASE h.given = <<>>
        <4>1. l = 1 /\ h.latest = None
          BY <1>1, <3>2 DEF PoolState
        <4> QED
          BY <3>1, <4>1 DEF UserFits, NewUser
      <3>3. CASE h.given # <<>>
        <4>1. l = Len(h.given) /\ h.latest = h.given[l] /\ pools[l].from = h.given[l]
          BY <1>1, <3>3 DEF PoolState
        <4>2. h.given \in Seq(UrlArgs)
          BY <1>0 DEF SeenType
        <4>3. h.given[l] \in UrlArgs
          BY <1>1, <4>1, <4>2
        <4>4. h.latest # None
          BY <4>1, <4>3, OptionsAssumption
        <4> QED
          BY <1>4, <3>1, <4>1, <4>4 DEF UserFits, NewUser
      <3> QED
        BY <3>2, <3>3
    <2> QED
      BY <2>2, <2>3
  <1>7. ~h.lost =>
       /\ h.given = <<>> =>
            /\ l = 1 /\ after[1].host = None /\ after[1].port = kDefaultPort
            /\ after[1].from = None /\ h.latest = None
       /\ h.given # <<>> =>
            /\ l = Len(h.given)
            /\ \A i \in 1 .. l : isValid(after[i]) /\ after[i].from = h.given[i]
            /\ h.latest = h.given[Len(h.given)]
    <2> SUFFICES ASSUME ~h.lost
                 PROVE  /\ h.given = <<>> =>
                             /\ l = 1 /\ after[1].host = None /\ after[1].port = kDefaultPort
                             /\ after[1].from = None /\ h.latest = None
                        /\ h.given # <<>> =>
                             /\ l = Len(h.given)
                             /\ \A i \in 1 .. l : isValid(after[i]) /\ after[i].from = h.given[i]
                             /\ h.latest = h.given[Len(h.given)]
      OBVIOUS
    <2>1. 1 \in 1 .. l
      BY <1>1
    <2>2. CASE h.given = <<>>
      BY <1>1, <1>4, <2>1, <2>2 DEF PoolState
    <2>3. CASE h.given # <<>>
      BY <1>1, <1>4, <1>5, <2>3 DEF PoolState
    <2> QED
      BY <2>2, <2>3
  <1>8. PoolState(after, h)
    BY <1>0, <1>1, <1>3, <1>5, <1>6, <1>7 DEF PoolState
  <1> QED
    BY <1>1, <1>2, <1>8

\* A user for the last pool.
LEMMA SetUserKeeps ==
  ASSUME NEW pools, NEW h, PoolState(pools, h)
  PROVE  PoolState(SetUser(pools, h.latest), h)
  <1>0. /\ pools \in Seq(UrlType) /\ h \in SeenType /\ Len(pools) \in Nat /\ Len(pools) >= 1
    BY DEF PoolState
  <1>1. PICK old, user : old = pools[Len(pools)] /\ user = NewUser(h)
    OBVIOUS
  <1>2. old \in UrlType /\ user \in UserType
    <2>1. h.latest \in UrlArgs \cup {None}
      BY <1>0 DEF SeenType
    <2> QED
      BY <1>0, <1>1, <2>1 DEF NewUser, UserType
  <1>3. PICK url : url = [old EXCEPT !.user = user]
    OBVIOUS
  <1>4. /\ url \in UrlType /\ url.host = old.host /\ url.port = old.port
        /\ url.from = old.from /\ url.user = user
    BY <1>2, <1>3 DEF UrlType
  <1>5. SetUser(pools, h.latest) = [pools EXCEPT ![Len(pools)] = url]
    BY <1>0, <1>1, <1>3 DEF SetUser, back, NewUser
  <1>6. PoolState([pools EXCEPT ![Len(pools)] = url], h)
    BY <1>1, <1>4, LastKeeps
  <1> QED
    BY <1>5, <1>6

\* A variant for the last pool.
LEMMA SetVariantKeeps ==
  ASSUME NEW pools, NEW h, PoolState(pools, h), NEW n
  PROVE  PoolState(SetVariant(pools, n), h)
  <1>0. /\ pools \in Seq(UrlType) /\ h \in SeenType /\ Len(pools) \in Nat /\ Len(pools) >= 1
    BY DEF PoolState
  <1>1. CASE n \notin {-1, 0, 1}
    BY <1>1 DEF SetVariant
  <1>2. CASE n \in {-1, 0, 1}
    <2>1. PICK old : old = pools[Len(pools)]
      OBVIOUS
    <2>2. old \in UrlType
      BY <1>0, <2>1
    <2>3. PICK url : url = [old EXCEPT !.variant = n]
      OBVIOUS
    <2>4. /\ url \in UrlType /\ url.host = old.host /\ url.port = old.port
          /\ url.from = old.from /\ url.user = old.user
      BY <1>2, <2>2, <2>3 DEF UrlType
    <2>5. SetVariant(pools, n) = [pools EXCEPT ![Len(pools)] = url]
      BY <1>0, <1>2, <2>1, <2>3 DEF SetVariant, back
    <2>6. PoolState([pools EXCEPT ![Len(pools)] = url], h)
      BY <2>1, <2>4, LastKeeps
    <2> QED
      BY <2>5, <2>6
  <1> QED
    BY <1>1, <1>2

\* One pool of a file.
PoolEntry == [url : UrlArgs \cup {None}, user : BOOLEAN, variant : Int \cup {None}]

\* The pools and their history.
Pairs == {s \in [pools : Seq(UrlType), seen : SeenType] : PoolState(s.pools, s.seen)}

\* One pool of a file keeps what is known of the pools.
LEMMA AddPoolKeeps ==
  ASSUME NEW s \in Pairs, NEW p \in PoolEntry
  PROVE  AddPool(s, p) \in Pairs
  <1>1. PoolState(s.pools, s.seen)
    BY DEF Pairs
  <1>2. PICK pools, h : pools = s.pools /\ h = s.seen
    OBVIOUS
  <1>3. PICK has \in BOOLEAN : has = (p.url # None)
    OBVIOUS
  <1>4. has => p.url \in UrlArgs
    BY <1>3 DEF PoolEntry
  <1>5. PICK url : url = IF has THEN AddUrl(pools, p.url) ELSE pools
    OBVIOUS
  <1>6. PICK r : r = IF has THEN Remember(h, pools, p.url) ELSE h
    OBVIOUS
  <1>7. PoolState(url, r)
    <2>1. PoolState(pools, h)
      BY <1>1, <1>2
    <2>2. CASE has
      BY <1>4, <1>5, <1>6, <2>1, <2>2, AddUrlKeeps
    <2>3. CASE ~has
      BY <1>5, <1>6, <2>1, <2>3
    <2> QED
      BY <2>2, <2>3
  <1>8. PICK user : user = IF p.user THEN SetUser(url, r.latest) ELSE url
    OBVIOUS
  <1>9. PoolState(user, r)
    <2>1. PoolState(SetUser(url, r.latest), r)
      BY <1>7, SetUserKeeps
    <2> QED
      BY <1>7, <1>8, <2>1
  <1>10. PICK all : all = IF p.variant \in Nat THEN SetVariant(user, p.variant) ELSE user
    OBVIOUS
  <1>11. PoolState(all, r)
    <2>1. PoolState(SetVariant(user, p.variant), r)
      BY <1>9, SetVariantKeeps
    <2> QED
      BY <1>9, <1>10, <2>1
  <1>12. AddPool(s, p) = [pools |-> all, seen |-> r]
    BY <1>2, <1>3, <1>5, <1>6, <1>8, <1>10 DEF AddPool
  <1>13. all \in Seq(UrlType) /\ r \in SeenType
    BY <1>11 DEF PoolState
  <1>14. PICK t : t = [pools |-> all, seen |-> r]
    OBVIOUS
  <1>15. t \in [pools : Seq(UrlType), seen : SeenType] /\ t.pools = all /\ t.seen = r
    BY <1>13, <1>14
  <1>16. t \in Pairs
    BY <1>11, <1>15 DEF Pairs
  <1> QED
    BY <1>12, <1>14, <1>16

\* The pools and their history along the pools of a file.
Files(f, file) ==
  f = [i \in 0 .. Len(file) |-> IF i = 0 THEN [pools |-> self.pools, seen |-> seen]
                                ELSE AddPool(f[i - 1], file[i])]

\* The pools of a file, each of them as AddPoolKeeps says.
LEMMA AddPoolsKeeps ==
  ASSUME PoolState(self.pools, seen), NEW file \in Seq(PoolEntry)
  PROVE  AddPools(file) \in Pairs
  <1>1. PICK n \in Nat : n = Len(file)
    OBVIOUS
  <1>2. PICK init : init = [pools |-> self.pools, seen |-> seen]
    OBVIOUS
  <1>3. init \in Pairs
    <2>1. self.pools \in Seq(UrlType) /\ seen \in SeenType
      BY DEF PoolState
    <2>2. init.pools = self.pools /\ init.seen = seen
      BY <1>2
    <2>3. init \in [pools : Seq(UrlType), seen : SeenType]
      BY <1>2, <2>1
    <2> QED
      BY <2>2, <2>3 DEF Pairs
  <1> DEFINE next == [x \in Pairs \X Nat |->
                        IF x[2] \in 1 .. n THEN AddPool(x[1], file[x[2]]) ELSE x[1]]
  <1>4. next \in [Pairs \X Nat -> Pairs]
    <2> SUFFICES ASSUME NEW x \in Pairs \X Nat
                 PROVE  (IF x[2] \in 1 .. n THEN AddPool(x[1], file[x[2]]) ELSE x[1]) \in Pairs
      OBVIOUS
    <2>1. x[1] \in Pairs
      OBVIOUS
    <2>2. CASE x[2] \in 1 .. n
      <3>1. file[x[2]] \in PoolEntry
        BY <1>1, <2>2
      <3> QED
        BY <2>1, <2>2, <3>1, AddPoolKeeps
    <2> QED
      BY <2>1, <2>2
  <1>5. \A s \in Pairs : \A i \in 1 .. n : next[<<s, i>>] = AddPool(s, file[i])
    OBVIOUS
  <1> HIDE DEF next
  <1>6. PICK g : Recursive(g, n, Pairs, init, next)
    BY <1>1, <1>3, <1>4, Recursion
  <1>7. g \in [0 .. n -> Pairs] /\ g[0] = init
    BY <1>6 DEF Recursive
  <1>8. \A i \in 1 .. n : g[i] = AddPool(g[i - 1], file[i])
    <2> SUFFICES ASSUME NEW i \in 1 .. n PROVE g[i] = AddPool(g[i - 1], file[i])
      OBVIOUS
    <2>1. i - 1 \in 0 .. n
      BY <1>1
    <2>2. g[i - 1] \in Pairs
      BY <1>7, <2>1
    <2>3. g[i] = next[<<g[i - 1], i>>]
      BY <1>6 DEF Recursive
    <2> QED
      BY <1>5, <2>2, <2>3
  <1>9. Files(g, file)
    <2>1. \A i \in 0 .. n : g[i] = IF i = 0 THEN [pools |-> self.pools, seen |-> seen]
                                   ELSE AddPool(g[i - 1], file[i])
      <3> SUFFICES ASSUME NEW i \in 0 .. n
                   PROVE g[i] = IF i = 0 THEN [pools |-> self.pools, seen |-> seen]
                                ELSE AddPool(g[i - 1], file[i])
        OBVIOUS
      <3>1. CASE i = 0
        BY <1>2, <1>7, <3>1
      <3>2. CASE i # 0
        <4>1. i \in 1 .. n
          BY <3>2
        <4> QED
          BY <1>8, <3>2, <4>1
      <3> QED
        BY <3>1, <3>2
    <2> QED
      BY <1>1, <1>7, <2>1 DEF Files
  <1> DEFINE f == CHOOSE f : Files(f, file)
  <1>10. Files(f, file)
    BY <1>9
  <1>11. AddPools(file) = f[Len(file)]
    BY DEF AddPools, Files
  <1> HIDE DEF f
  <1>12. \A i \in 0 .. n : f[i] = IF i = 0 THEN init ELSE AddPool(f[i - 1], file[i])
    BY <1>1, <1>2, <1>10 DEF Files
  <1> DEFINE T == {i \in Nat : i <= n => f[i] \in Pairs}
  <1>13. 0 \in T
    BY <1>1, <1>3, <1>12
  <1>14. ASSUME NEW i \in Nat, i \in T PROVE i + 1 \in T
    <2> SUFFICES ASSUME i + 1 <= n PROVE f[i + 1] \in Pairs
      OBVIOUS
    <2>1. f[i] \in Pairs
      BY <1>14
    <2>2. i + 1 \in 0 .. n /\ i + 1 # 0 /\ (i + 1) - 1 = i /\ i + 1 \in 1 .. Len(file)
      BY <1>1
    <2>3. file[i + 1] \in PoolEntry
      BY <2>2
    <2>4. f[i + 1] = AddPool(f[i], file[i + 1])
      BY <1>12, <2>2
    <2> QED
      BY <2>1, <2>3, <2>4, AddPoolKeeps
  <1>15. Nat \subseteq T
    BY <1>13, <1>14, SetInduction
  <1>16. f[n] \in Pairs
    BY <1>1, <1>15
  <1> QED
    BY <1>1, <1>11, <1>16

-----------------------------------------------------------------------------
\* The pools of a miner that starts.
ReadyPools(pools, h) ==
  /\ pools \in Seq(UrlType) /\ h \in SeenType /\ Len(pools) >= 1
  /\ \A i \in 1 .. Len(pools) : isValid(pools[i])
  /\ ~h.lost =>
       /\ [i \in 1 .. Len(pools) |-> pools[i].from]
            = IF h.given = <<>> THEN <<BuiltInUrl>> ELSE h.given
       /\ \A i \in 1 .. Len(pools) : UserFits(pools, i)

\* The built-in pool.
LEMMA BuiltInFacts ==
  /\ BuiltIn \in UrlType /\ isValid(BuiltIn) /\ BuiltIn.from = BuiltInUrl
  /\ BuiltIn.user = BuiltInUrl
  <1>1. "built-in" \in HostType /\ BuiltInUrl \in UserType /\ BuiltInUrl \in FromType
    BY DEF HostType, UserType, FromType
  <1>2. PICK port : port = 3355
    OBVIOUS
  <1>3. port \in 0 .. UInt16 - 1 /\ port > 0
    <2>1. PICK m \in Nat : m = UInt16 /\ 3355 < m
      BY DEF UInt16
    <2> QED
      BY <1>2, <2>1
  <1>4. BuiltIn = [Url EXCEPT !.host = "built-in", !.port = port, !.user = BuiltInUrl,
                              !.from = BuiltInUrl]
    BY <1>2 DEF BuiltIn
  <1>5. PICK host : host = "built-in"
    OBVIOUS
  <1>6. PICK u : u = [Url EXCEPT !.host = host, !.port = port, !.user = BuiltInUrl,
                              !.from = BuiltInUrl]
    OBVIOUS
  <1>7. u \in UrlType
    BY <1>1, <1>3, <1>5, <1>6, BlankFacts DEF UrlType
  <1>8. u.host = host /\ u.port = port /\ u.user = BuiltInUrl /\ u.from = BuiltInUrl
    BY <1>6, BlankFacts DEF UrlType
  <1>9. host # None
    BY <1>5, OptionsAssumption
  <1> QED
    BY <1>3, <1>4, <1>5, <1>6, <1>7, <1>8, <1>9 DEF isValid

\* The built-in pool takes the place of a pool that is not valid, which is then the
\* only one.
LEMMA OrBuiltInReady ==
  ASSUME NEW pools, NEW h, PoolState(pools, h)
  PROVE  ReadyPools(OrBuiltIn(pools), h)
  <1>0. /\ pools \in Seq(UrlType) /\ h \in SeenType /\ Len(pools) \in Nat /\ Len(pools) >= 1
        /\ Len(pools) > 1 => \A i \in 1 .. Len(pools) : isValid(pools[i])
    BY DEF PoolState
  <1>1. PICK l \in Nat : l = Len(pools) /\ l >= 1
    BY <1>0
  <1>2. CASE isValid(pools[1])
    <2>1. OrBuiltIn(pools) = pools
      BY <1>2 DEF OrBuiltIn
    <2>2. \A i \in 1 .. l : isValid(pools[i])
      BY <1>0, <1>1, <1>2
    <2>3. ASSUME ~h.lost
          PROVE  /\ h.given # <<>>
                 /\ [i \in 1 .. l |-> pools[i].from] = h.given
                 /\ \A i \in 1 .. l : UserFits(pools, i)
      <3>1. pools[1].host # None
        BY <1>2 DEF isValid
      <3>2. h.given # <<>>
        BY <2>3, <3>1 DEF PoolState
      <3>3. l = Len(h.given) /\ \A i \in 1 .. l : pools[i].from = h.given[i]
        BY <1>1, <2>3, <3>2 DEF PoolState
      <3>4. h.given \in Seq(UrlArgs)
        BY <1>0 DEF SeenType
      <3>5. h.given = [i \in 1 .. l |-> h.given[i]]
        BY <3>3, <3>4
      <3>6. \A i \in 1 .. l : UserFits(pools, i)
        BY <1>1, <2>3 DEF PoolState
      <3> QED
        BY <3>2, <3>3, <3>5, <3>6
    <2>4. ReadyPools(pools, h)
      BY <1>0, <1>1, <2>2, <2>3 DEF ReadyPools
    <2> QED
      BY <2>1, <2>4
  <1>3. CASE ~isValid(pools[1])
    <2>1. l = 1
      BY <1>0, <1>1, <1>3
    <2>2. PICK after : after = [pools EXCEPT ![1] = BuiltIn]
      OBVIOUS
    <2>3. after \in Seq(UrlType) /\ Len(after) = 1 /\ after[1] = BuiltIn
      <3>1. PICK b \in UrlType : b = BuiltIn
        BY BuiltInFacts
      <3>2. pools \in [1 .. l -> UrlType] /\ 1 \in 1 .. l
        BY <1>0, <1>1
      <3>3. after = [pools EXCEPT ![1] = b]
        BY <2>2, <3>1
      <3>4. after \in [1 .. l -> UrlType] /\ after[1] = b
        BY <3>1, <3>2, <3>3
      <3>5. after \in Seq(UrlType) /\ Len(after) = l
        BY <1>1, <3>4
      <3> QED
        BY <2>1, <3>1, <3>4, <3>5
    <2>4. \A i \in 1 .. 1 : isValid(after[i]) /\ UserFits(after, i)
      BY <2>3, BuiltInFacts DEF UserFits
    <2>5. [i \in 1 .. 1 |-> after[i].from] = <<BuiltInUrl>>
      BY <2>3, BuiltInFacts
    <2>6. ~h.lost => h.given = <<>>
      <3>1. 1 \in 1 .. l
        BY <1>1
      <3> QED
        BY <1>1, <1>3, <3>1 DEF PoolState
    <2>7. ReadyPools(after, h)
      BY <1>0, <2>3, <2>4, <2>5, <2>6 DEF ReadyPools
    <2> QED
      BY <1>3, <2>2, <2>7 DEF OrBuiltIn
  <1> QED
    BY <1>2, <1>3

-----------------------------------------------------------------------------
\* What is known while the configuration is read.
Configuring ==
  /\ self \in SelfType /\ seen \in SeenType /\ PoolState(self.pools, seen)
  /\ stage = "args" /\ args \in 0 .. MaxArgs
  /\ \A k \in 1 .. Len(self.threads) : ~self.threads[k].auto

\* It follows from the invariant.
LEMMA InvReading == OptionsInv /\ stage = "args" => Configuring
  BY DEF OptionsInv, Configuring

\* A step that goes on reading, or refuses what it read.
LEMMA KeepsReading ==
  ASSUME self' \in SelfType, seen' \in SeenType, Len(self'.pools) >= 1,
         stage' \in {"args", "refused"}, args' \in 0 .. MaxArgs,
         stage' = "args" => PoolState(self'.pools, seen'),
         \A k \in 1 .. Len(self'.threads) : ~self'.threads[k].auto
  PROVE  OptionsInv'
  <1>1. stage' # "ready" /\ stage' # "started"
    OBVIOUS
  <1>2. PoolsAreTheGivenUrls' /\ UsersFollowTheirUrl' /\ AutoThreadsFit'
    BY <1>1 DEF PoolsAreTheGivenUrls, UsersFollowTheirUrl, AutoThreadsFit, Ready
  <1> QED
    BY <1>2 DEF OptionsInv

\* A step that ends with pools for a miner that starts.
LEMMA KeepsReady ==
  ASSUME self' \in SelfType, stage' = "ready", args' \in 0 .. MaxArgs,
         ReadyPools(self'.pools, seen'),
         \A k \in 1 .. Len(self'.threads) : ~self'.threads[k].auto
  PROVE  OptionsInv'
  <1>1. PICK pools, h : pools = self'.pools /\ h = seen'
    OBVIOUS
  <1>2. /\ pools \in Seq(UrlType) /\ h \in SeenType /\ Len(pools) >= 1
        /\ \A i \in 1 .. Len(pools) : isValid(pools[i])
        /\ ~h.lost =>
             /\ [i \in 1 .. Len(pools) |-> pools[i].from]
                  = IF h.given = <<>> THEN <<BuiltInUrl>> ELSE h.given
             /\ \A i \in 1 .. Len(pools) : UserFits(pools, i)
    BY <1>1 DEF ReadyPools
  <1>3. DOMAIN pools = 1 .. Len(pools)
    BY <1>2
  <1>4. PoolsAreTheGivenUrls'
    BY <1>1, <1>2, <1>3 DEF PoolsAreTheGivenUrls, isValid
  <1>5. UsersFollowTheirUrl'
    BY <1>1, <1>2, <1>3 DEF UsersFollowTheirUrl, UserFits
  <1>6. AutoThreadsFit'
    BY DEF AutoThreadsFit
  <1> QED
    BY <1>1, <1>2, <1>4, <1>5, <1>6 DEF OptionsInv

\* One more argument is within the bound.
LEMMA ReadArgs ==
  ASSUME Configuring, Read
  PROVE  args' \in 0 .. MaxArgs
  <1>1. MaxArgs \in Nat
    BY OptionsAssumption
  <1>2. args \in 0 .. MaxArgs /\ args < MaxArgs /\ args' = args + 1
    BY DEF Read, Configuring
  <1> QED
    BY <1>1, <1>2

\* A URL of the command line.
LEMMA ArgUrlKeeps ==
  ASSUME OptionsInv, NEW a \in UrlArgs, ArgUrl(a)
  PROVE  OptionsInv'
  <1>1. Configuring
    BY InvReading DEF ArgUrl, Read
  <1>2. args' \in 0 .. MaxArgs
    BY <1>1, ReadArgs DEF ArgUrl, Configuring
  <1>3. PICK pools : pools = AddUrl(self.pools, a)
    OBVIOUS
  <1>4. PoolState(pools, seen')
    BY <1>1, <1>3, AddUrlKeeps DEF ArgUrl, Configuring
  <1>5. self' = [self EXCEPT !.pools = pools]
    BY <1>3 DEF ArgUrl
  <1>6. pools \in Seq(UrlType) /\ seen' \in SeenType /\ Len(pools) >= 1
    BY <1>4 DEF PoolState
  <1>7. self' \in SelfType /\ self'.pools = pools /\ self'.threads = self.threads
    BY <1>1, <1>5, <1>6 DEF SelfType, Configuring
  <1>8. stage' \in {"args", "refused"}
    BY DEF ArgUrl
  <1> QED
    BY <1>1, <1>2, <1>4, <1>6, <1>7, <1>8, KeepsReading DEF Configuring

\* A user of the command line.
LEMMA ArgUserKeeps ==
  ASSUME OptionsInv, ArgUser
  PROVE  OptionsInv'
  <1>1. Configuring
    BY InvReading DEF ArgUser, Read
  <1>2. args' \in 0 .. MaxArgs /\ seen' = seen /\ stage' = "args"
    BY <1>1, ReadArgs DEF ArgUser, Configuring
  <1>3. PICK pools : pools = SetUser(self.pools, seen.latest)
    OBVIOUS
  <1>4. PoolState(pools, seen)
    BY <1>1, <1>3, SetUserKeeps DEF Configuring
  <1>5. self' = [self EXCEPT !.pools = pools]
    BY <1>3 DEF ArgUser
  <1>6. pools \in Seq(UrlType) /\ seen \in SeenType /\ Len(pools) >= 1
    BY <1>4 DEF PoolState
  <1>7. self' \in SelfType /\ self'.pools = pools /\ self'.threads = self.threads
    BY <1>1, <1>5, <1>6 DEF SelfType, Configuring
  <1> QED
    BY <1>1, <1>2, <1>4, <1>6, <1>7, KeepsReading DEF Configuring

\* A number of the command line, other than a port.
LEMMA ArgNumberKeeps ==
  ASSUME OptionsInv, NEW key \in {"intensity", "platform"}, NEW n \in Numbers \cap Nat,
         ArgNumber(key, n)
  PROVE  OptionsInv'
  <1>1. Configuring
    BY InvReading DEF ArgNumber, Read
  <1>2. args' \in 0 .. MaxArgs /\ seen' = seen /\ stage' = "args"
    BY <1>1, ReadArgs DEF ArgNumber, Configuring
  <1>3. CASE key = "intensity"
    <2>1. self' = [self EXCEPT !.intensity = n]
      BY <1>3 DEF ArgNumber
    <2>2. self' \in SelfType /\ self'.pools = self.pools /\ self'.threads = self.threads
      BY <1>1, <2>1 DEF SelfType, Configuring
    <2> QED
      BY <1>1, <1>2, <2>2, KeepsReading DEF Configuring, PoolState
  <1>4. CASE key = "platform"
    <2>1. self' = [self EXCEPT !.platform = n]
      BY <1>4 DEF ArgNumber
    <2>2. self' \in SelfType /\ self'.pools = self.pools /\ self'.threads = self.threads
      BY <1>1, <2>1 DEF SelfType, Configuring
    <2> QED
      BY <1>1, <1>2, <2>2, KeepsReading DEF Configuring, PoolState
  <1> QED
    BY <1>3, <1>4

\* The limit of a port is a number.
LEMMA PortLimit == UInt16 \in Nat
  BY DEF UInt16

\* A port stays within its limits.
LEMMA SetPortType ==
  ASSUME NEW port \in 0 .. UInt16, NEW n \in Int
  PROVE  SetPort(port, n) \in 0 .. UInt16
  <1>1. PICK m \in Nat : m = UInt16
    BY PortLimit
  <1> QED
    BY <1>1 DEF SetPort

\* A port of the command line.
LEMMA ArgPortKeeps ==
  ASSUME OptionsInv, NEW n \in Numbers, ArgPort(n)
  PROVE  OptionsInv'
  <1>1. Configuring
    BY InvReading DEF ArgPort, Read
  <1>2. args' \in 0 .. MaxArgs /\ seen' = seen /\ stage' = "args"
    BY <1>1, ReadArgs DEF ArgPort, Configuring
  <1>3. PICK port : port = SetPort(self.port, n)
    OBVIOUS
  <1>4. port \in 0 .. UInt16
    <2>1. self.port \in 0 .. UInt16 /\ n \in Int
      BY <1>1, OptionsAssumption DEF Configuring, SelfType
    <2> QED
      BY <1>3, <2>1, SetPortType
  <1>5. self' = [self EXCEPT !.port = port]
    BY <1>3 DEF ArgPort
  <1>6. self' \in SelfType /\ self'.pools = self.pools /\ self'.threads = self.threads
    BY <1>1, <1>4, <1>5 DEF SelfType, Configuring
  <1> QED
    BY <1>1, <1>2, <1>6, KeepsReading DEF Configuring, PoolState

\* Arguments without an effect, and those that end the program.
LEMMA IdleKeeps ==
  ASSUME OptionsInv, ArgVariant \/ ArgBadConfig \/ ArgRefused
  PROVE  OptionsInv'
  <1>1. Configuring
    BY InvReading DEF ArgVariant, ArgBadConfig, ArgRefused, Read
  <1>2. Read
    BY DEF ArgVariant, ArgBadConfig, ArgRefused
  <1>3. args' \in 0 .. MaxArgs
    BY <1>1, <1>2, ReadArgs
  <1>4. self' = self /\ seen' = seen /\ stage' \in {"args", "refused"}
    BY <1>1 DEF ArgVariant, ArgBadConfig, ArgRefused, Configuring
  <1> QED
    BY <1>1, <1>3, <1>4, KeepsReading DEF Configuring, PoolState

\* What a file leaves behind.
LEMMA LoadFacts ==
  ASSUME Configuring, NEW c \in Configs, NEW pools \in Seq(UrlType), LoadFile(c, pools)
  PROVE  /\ self' \in SelfType /\ self'.pools = pools
         /\ \A k \in 1 .. Len(self'.threads) : ~self'.threads[k].auto
         /\ seen' = AddPools(c.pools).seen
  <1>1. /\ c.port \in Int \cup {None} /\ c.power_limit \in Int
        /\ c.threads \in Seq([index : Nat, intensity : Nat, auto : {FALSE}])
    BY OptionsAssumption
  <1>2. /\ self.port \in 0 .. UInt16 /\ self.powerLimit \in Int
        /\ self.threads \in Seq(ThreadType)
    BY DEF Configuring, SelfType
  <1>3. PICK port : port = IF c.port = None THEN self.port ELSE SetPort(self.port, c.port)
    OBVIOUS
  <1>4. port \in 0 .. UInt16
    BY <1>1, <1>2, <1>3, SetPortType
  <1>5. PICK limit : limit = IF c.power_limit < 0 THEN c.power_limit ELSE self.powerLimit
    OBVIOUS
  <1>6. limit \in Int
    BY <1>1, <1>2, <1>5
  <1>7. PICK more : more = c.threads
    OBVIOUS
  <1>8. /\ more \in Seq(ThreadType)
        /\ \A k \in 1 .. Len(more) : ~more[k].auto
    <2>1. more \in Seq([index : Nat, intensity : Nat, auto : {FALSE}]) /\ Len(more) \in Nat
      BY <1>1, <1>7
    <2>2. \A k \in 1 .. Len(more) : more[k] \in [index : Nat, intensity : Nat, auto : {FALSE}]
      <3>1. PICK T : T = [index : Nat, intensity : Nat, auto : {FALSE}]
        OBVIOUS
      <3>2. more \in Seq(T)
        BY <2>1, <3>1
      <3>3. \A k \in 1 .. Len(more) : more[k] \in T
        BY <3>2
      <3> QED
        BY <3>1, <3>3
    <2>3. \A k \in 1 .. Len(more) : more[k] \in ThreadType /\ ~more[k].auto
      BY <2>2 DEF ThreadType
    <2>4. more = [k \in 1 .. Len(more) |-> more[k]]
      BY <2>1
    <2>5. more \in [1 .. Len(more) -> ThreadType]
      BY <2>3, <2>4
    <2> QED
      BY <2>1, <2>3, <2>5
  <1>9. PICK threads : threads = self.threads \o more
    OBVIOUS
  <1>10. threads \in Seq(ThreadType) /\ \A k \in 1 .. Len(threads) : ~threads[k].auto
    <2>1. PICK old : old = self.threads
      OBVIOUS
    <2>2. old \in Seq(ThreadType) /\ \A k \in 1 .. Len(old) : ~old[k].auto
      BY <1>2, <2>1 DEF Configuring
    <2>3. threads = old \o more
      BY <1>9, <2>1
    <2>4. PICK m, n \in Nat : m = Len(old) /\ n = Len(more)
      BY <1>8, <2>2
    <2>5. /\ threads \in Seq(ThreadType) /\ Len(threads) = m + n
          /\ \A k \in 1 .. m + n : threads[k] = IF k <= m THEN old[k] ELSE more[k - m]
      BY <1>8, <2>2, <2>3, <2>4
    <2>6. \A k \in 1 .. m + n : k <= m => k \in 1 .. m
      OBVIOUS
    <2>7. \A k \in 1 .. m + n : ~(k <= m) => k - m \in 1 .. n
      OBVIOUS
    <2>8. \A k \in 1 .. m + n : ~threads[k].auto
      BY <1>8, <2>2, <2>4, <2>5, <2>6, <2>7
    <2> QED
      BY <2>5, <2>8
  <1>11. self' = [self EXCEPT !.pools = pools, !.port = port, !.powerLimit = limit,
                              !.threads = threads]
    BY <1>3, <1>5, <1>7, <1>9 DEF LoadFile
  <1>12. self' \in SelfType /\ self'.pools = pools /\ self'.threads = threads
    BY <1>4, <1>6, <1>10, <1>11 DEF SelfType, Configuring
  <1>13. seen' = AddPools(c.pools).seen
    BY DEF LoadFile
  <1> QED
    BY <1>10, <1>12, <1>13

\* The pools of a file.
LEMMA FilePools ==
  ASSUME Configuring, NEW c \in Configs
  PROVE  PoolState(AddPools(c.pools).pools, AddPools(c.pools).seen)
  <1>1. c.pools \in Seq(PoolEntry)
    BY OptionsAssumption DEF PoolEntry
  <1>2. AddPools(c.pools) \in Pairs
    BY <1>1, AddPoolsKeeps DEF Configuring
  <1> QED
    BY <1>2 DEF Pairs

\* A file of the command line.
LEMMA ArgConfigKeeps ==
  ASSUME OptionsInv, NEW c \in Configs, ArgConfig(c)
  PROVE  OptionsInv'
  <1>1. Configuring
    BY InvReading DEF ArgConfig, Read
  <1>2. args' \in 0 .. MaxArgs /\ stage' = "args"
    BY <1>1, ReadArgs DEF ArgConfig, Configuring
  <1>3. PICK pools, h : pools = AddPools(c.pools).pools /\ h = AddPools(c.pools).seen
    OBVIOUS
  <1>4. PoolState(pools, h)
    BY <1>1, <1>3, FilePools
  <1>5. pools \in Seq(UrlType) /\ h \in SeenType /\ Len(pools) >= 1
    BY <1>4 DEF PoolState
  <1>6. LoadFile(c, pools)
    BY <1>3 DEF ArgConfig
  <1>7. /\ self' \in SelfType /\ self'.pools = pools /\ seen' = h
        /\ \A k \in 1 .. Len(self'.threads) : ~self'.threads[k].auto
    BY <1>1, <1>3, <1>5, <1>6, LoadFacts
  <1> QED
    BY <1>2, <1>4, <1>5, <1>7, KeepsReading

\* The end of the constructor, whichever way.
LEMMA FinishKeeps ==
  ASSUME OptionsInv,
         Finish \/ FinishWithoutDefault \/ \E c \in Configs : FinishWithDefault(c)
  PROVE  OptionsInv'
  <1>1. Configuring
    BY InvReading DEF Finish, FinishWithoutDefault, FinishWithDefault
  <1>2. args' \in 0 .. MaxArgs /\ stage' = "ready"
    BY <1>1 DEF Finish, FinishWithoutDefault, FinishWithDefault, Configuring
  <1>3. PoolState(self.pools, seen)
    BY <1>1 DEF Configuring
  <1>4. CASE Finish
    <2>1. OrBuiltIn(self.pools) = self.pools /\ self' = self /\ seen' = seen
      BY <1>4 DEF Finish, OrBuiltIn
    <2>2. ReadyPools(self'.pools, seen')
      BY <1>3, <2>1, OrBuiltInReady
    <2> QED
      BY <1>1, <1>2, <2>1, <2>2, KeepsReady DEF Configuring
  <1>5. CASE FinishWithoutDefault
    <2>1. PICK pools : pools = OrBuiltIn(self.pools)
      OBVIOUS
    <2>2. self' = [self EXCEPT !.pools = pools] /\ seen' = seen
      BY <1>5, <2>1 DEF FinishWithoutDefault
    <2>3. ReadyPools(pools, seen)
      BY <1>3, <2>1, OrBuiltInReady
    <2>4. pools \in Seq(UrlType)
      BY <2>3 DEF ReadyPools
    <2>5. self' \in SelfType /\ self'.pools = pools /\ self'.threads = self.threads
      BY <1>1, <2>2, <2>4 DEF SelfType, Configuring
    <2> QED
      BY <1>1, <1>2, <2>2, <2>3, <2>5, KeepsReady DEF Configuring
  <1>6. ASSUME NEW c \in Configs, FinishWithDefault(c) PROVE OptionsInv'
    <2>1. PICK pools, h : pools = AddPools(c.pools).pools /\ h = AddPools(c.pools).seen
      OBVIOUS
    <2>2. PoolState(pools, h)
      BY <1>1, <2>1, FilePools
    <2>3. PICK all : all = OrBuiltIn(pools)
      OBVIOUS
    <2>4. ReadyPools(all, h)
      BY <2>2, <2>3, OrBuiltInReady
    <2>5. all \in Seq(UrlType)
      BY <2>4 DEF ReadyPools
    <2>6. LoadFile(c, all)
      BY <1>6, <2>1, <2>3 DEF FinishWithDefault
    <2>7. /\ self' \in SelfType /\ self'.pools = all /\ seen' = h
          /\ \A k \in 1 .. Len(self'.threads) : ~self'.threads[k].auto
      BY <1>1, <2>1, <2>5, <2>6, LoadFacts
    <2> QED
      BY <1>2, <2>4, <2>7, KeepsReady
  <1> QED
    BY <1>4, <1>5, <1>6

-----------------------------------------------------------------------------
\* The sequences one after another.
Flattened(f, seqs) ==
  f = [i \in 1 .. Len(seqs) |-> IF i = 1 THEN seqs[i] ELSE f[i - 1] \o seqs[i]]

\* FlattenSeq() of sequences over a set is a sequence over it.
LEMMA FlattenType ==
  ASSUME NEW T, NEW seqs \in Seq(Seq(T))
  PROVE  FlattenSeq(seqs) \in Seq(T)
  <1>1. PICK n \in Nat : n = Len(seqs)
    OBVIOUS
  <1>2. CASE n = 0
    <2>1. Len(seqs) = 0
      BY <1>1, <1>2
    <2>2. FlattenSeq(seqs) = seqs
      BY <2>1 DEF FlattenSeq
    <2>3. seqs = << >>
      BY <2>1
    <2> QED
      BY <2>2, <2>3
  <1>3. CASE n # 0
    <2> DEFINE next == [x \in Seq(T) \X Nat |->
                          IF x[2] \in 1 .. n THEN x[1] \o seqs[x[2]] ELSE x[1]]
    <2>1. next \in [Seq(T) \X Nat -> Seq(T)]
      <3> SUFFICES ASSUME NEW x \in Seq(T) \X Nat
                   PROVE  (IF x[2] \in 1 .. n THEN x[1] \o seqs[x[2]] ELSE x[1]) \in Seq(T)
        OBVIOUS
      <3>1. CASE x[2] \in 1 .. n
        <4>1. PICK s, t \in Seq(T) : s = x[1] /\ t = seqs[x[2]]
          BY <1>1, <3>1
        <4>2. s \o t \in Seq(T)
          OBVIOUS
        <4> QED
          BY <3>1, <4>1, <4>2
      <3> QED
        BY <3>1
    <2>2. \A s \in Seq(T) : \A i \in 1 .. n : next[<<s, i>>] = s \o seqs[i]
      <3> SUFFICES ASSUME NEW s \in Seq(T), NEW i \in 1 .. n
                   PROVE  next[<<s, i>>] = s \o seqs[i]
        OBVIOUS
      <3>1. PICK x : x = <<s, i>>
        OBVIOUS
      <3>2. x \in Seq(T) \X Nat /\ x[1] = s /\ x[2] = i
        BY <3>1
      <3>3. next[x] = IF x[2] \in 1 .. n THEN x[1] \o seqs[x[2]] ELSE x[1]
        BY <3>2
      <3> QED
        BY <3>1, <3>2, <3>3
    <2> HIDE DEF next
    <2>3. << >> \in Seq(T)
      OBVIOUS
    <2>4. PICK g : Recursive(g, n, Seq(T), << >>, next)
      BY <2>1, <2>3, Recursion
    <2>5. g \in [0 .. n -> Seq(T)] /\ g[0] = << >>
      BY <2>4 DEF Recursive
    <2>6. \A i \in 1 .. n : g[i] = g[i - 1] \o seqs[i]
      <3> SUFFICES ASSUME NEW i \in 1 .. n PROVE g[i] = g[i - 1] \o seqs[i]
        OBVIOUS
      <3>1. g[i - 1] \in Seq(T)
        BY <2>5
      <3>2. g[i] = next[<<g[i - 1], i>>]
        BY <2>4 DEF Recursive
      <3> QED
        BY <2>2, <3>1, <3>2
    <2>7. g[1] = seqs[1]
      <3>1. 1 \in 1 .. n /\ 1 - 1 = 0
        BY <1>3
      <3>2. g[1] = << >> \o seqs[1]
        BY <2>5, <2>6, <3>1
      <3>3. PICK s \in Seq(T) : s = seqs[1]
        BY <1>1, <3>1
      <3>4. << >> \o s = s
        OBVIOUS
      <3> QED
        BY <3>2, <3>3, <3>4
    <2> DEFINE h == [i \in 1 .. n |-> g[i]]
    <2>8. Flattened(h, seqs)
      <3>1. \A i \in 1 .. n : h[i] = IF i = 1 THEN seqs[i] ELSE h[i - 1] \o seqs[i]
        <4> SUFFICES ASSUME NEW i \in 1 .. n
                     PROVE  h[i] = IF i = 1 THEN seqs[i] ELSE h[i - 1] \o seqs[i]
          OBVIOUS
        <4>1. CASE i = 1
          BY <2>7, <4>1
        <4>2. CASE i # 1
          <5>1. i - 1 \in 1 .. n
            BY <4>2
          <5>2. h[i - 1] = g[i - 1] /\ h[i] = g[i]
            BY <5>1
          <5> QED
            BY <2>6, <4>2, <5>2
        <4> QED
          BY <4>1, <4>2
      <3>2. h = [i \in 1 .. n |-> h[i]]
        OBVIOUS
      <3> HIDE DEF h
      <3> QED
        BY <1>1, <3>1, <3>2 DEF Flattened
    <2> DEFINE f == CHOOSE f : Flattened(f, seqs)
    <2>9. Flattened(f, seqs)
      BY <2>8
    <2>10. FlattenSeq(seqs) = f[Len(seqs)]
      BY <1>1, <1>3 DEF FlattenSeq, Flattened
    <2> HIDE DEF f
    <2>11. \A i \in 1 .. n : f[i] = IF i = 1 THEN seqs[i] ELSE f[i - 1] \o seqs[i]
      BY <1>1, <2>9 DEF Flattened
    <2> DEFINE S == {i \in Nat : i + 1 <= n => f[i + 1] \in Seq(T)}
    <2>12. 0 \in S
      <3>1. 0 + 1 = 1 /\ 1 \in 1 .. n
        BY <1>3
      <3>2. f[1] = seqs[1]
        BY <2>11, <3>1
      <3>3. seqs[1] \in Seq(T)
        BY <1>1, <3>1
      <3> QED
        BY <3>1, <3>2, <3>3
    <2>13. ASSUME NEW i \in Nat, i \in S PROVE i + 1 \in S
      <3> SUFFICES ASSUME (i + 1) + 1 <= n PROVE f[(i + 1) + 1] \in Seq(T)
        OBVIOUS
      <3>1. PICK j : j = (i + 1) + 1
        OBVIOUS
      <3>2. j \in 1 .. n /\ j # 1 /\ j - 1 = i + 1 /\ i + 1 <= n
        BY <3>1
      <3>3. PICK s, t \in Seq(T) : s = f[i + 1] /\ t = seqs[j]
        BY <1>1, <2>13, <3>2
      <3>4. f[j] = s \o t
        BY <2>11, <3>2, <3>3
      <3>5. s \o t \in Seq(T)
        OBVIOUS
      <3> QED
        BY <3>1, <3>4, <3>5
    <2>14. Nat \subseteq S
      BY <2>12, <2>13, SetInduction
    <2>15. n - 1 \in Nat /\ (n - 1) + 1 = n
      BY <1>3
    <2>16. f[n] \in Seq(T)
      <3>1. n - 1 \in S
        BY <2>14, <2>15
      <3>2. (n - 1) + 1 <= n => f[(n - 1) + 1] \in Seq(T)
        BY <3>1
      <3>3. n <= n
        OBVIOUS
      <3> QED
        BY <2>15, <3>2, <3>3
    <2> QED
      BY <1>1, <2>10, <2>16
  <1> QED
    BY <1>2, <1>3

\* One GPU.
DeviceType == [vega : BOOLEAN, freeMem : Nat, computeUnits : Nat \ {0}]

\* The parameters of autoConf().
LEMMA Parameters ==
  /\ Devices \in Seq(DeviceType) /\ Platform \in Int
  /\ Reserve \in Nat /\ PerThread \in Nat /\ PerThread > 0
  /\ MaxVega \in Nat /\ MaxOther \in Nat
  <1>1. Devices \in Seq(DeviceType)
    BY OptionsAssumption, Zenon DEF DeviceType
  <1>2. Platform \in Nat \cup {-1}
    BY OptionsAssumption, Zenon
  <1>3. {Reserve, PerThread, MaxVega, MaxOther} \subseteq Nat \ {0}
    BY OptionsAssumption, Zenon
  <1> QED
    BY <1>1, <1>2, <1>3

\* The intensity that autoConf() chooses fits, if the difference does not wrap around.
LEMMA IntensityFits ==
  ASSUME NEW d \in DeviceType
  PROVE  /\ RawIntensity(d) \in Nat
         /\ d.freeMem >= Reserve => RawIntensity(d) * PerThread <= d.freeMem - Reserve
  <1>1. PICK free, reserve, per, units \in Nat :
          /\ free = d.freeMem /\ reserve = Reserve /\ per = PerThread
          /\ units = d.computeUnits /\ per > 0 /\ units > 0
    BY Parameters DEF DeviceType
  <1>2. PICK most \in Nat : most = IF d.vega THEN MaxVega ELSE MaxOther
    BY Parameters
  <1>3. PICK m : m = MaxIntensity(d)
    OBVIOUS
  <1>4. m \in Nat /\ (free >= reserve => m * per <= free - reserve)
    <2>1. CASE free >= reserve
      <3>1. PICK room \in Nat : room = free - reserve
        BY <2>1
      <3>2. PICK fit : fit = room \div per
        OBVIOUS
      <3>3. fit \in Nat /\ fit * per <= room
        BY <1>1, <3>2
      <3>4. m = IF fit < most THEN fit ELSE most
        BY <1>1, <1>2, <1>3, <2>1, <3>1, <3>2 DEF MaxIntensity
      <3>5. m \in Nat /\ m <= fit
        BY <1>2, <3>3, <3>4
      <3>6. m * per <= fit * per
        BY <1>1, <3>3, <3>5
      <3>7. m * per \in Nat /\ fit * per \in Nat
        BY <1>1, <3>3, <3>5
      <3> QED
        BY <3>1, <3>3, <3>5, <3>6, <3>7
    <2>2. CASE ~(free >= reserve)
      <3>1. m = most
        BY <1>1, <1>2, <1>3, <2>2 DEF MaxIntensity
      <3> QED
        BY <1>2, <2>2, <3>1
    <2> QED
      BY <2>1, <2>2
  <1>5. PICK step \in Nat : step = 8 * units /\ step > 0
    BY <1>1
  <1>6. PICK times : times = m \div step
    OBVIOUS
  <1>7. times \in Nat /\ times * step <= m
    BY <1>4, <1>5, <1>6
  <1>8. PICK raw : raw = RawIntensity(d)
    OBVIOUS
  <1>9. raw = (times * units) * 8
    BY <1>1, <1>3, <1>5, <1>6, <1>8 DEF RawIntensity
  <1>10. raw = times * step /\ raw \in Nat
    BY <1>1, <1>5, <1>7, <1>9
  <1>11. raw <= m
    BY <1>7, <1>10
  <1>12. raw * per <= m * per /\ raw * per \in Nat /\ m * per \in Nat
    BY <1>1, <1>4, <1>10, <1>11
  <1> QED
    BY <1>1, <1>4, <1>8, <1>10, <1>12

\* A thread that autoConf() may choose.
HasRoom(t) ==
  Devices[t.index].freeMem >= Reserve =>
    t.intensity * PerThread <= Devices[t.index].freeMem - Reserve

\* Threads that fit, unless the user chose their intensity.
AutoType == {t \in ThreadType : self.intensity = 0 => HasRoom(t)}

\* The threads of one GPU are.
LEMMA GpuThreadsFit ==
  ASSUME NEW i \in 1 .. Len(Devices), self.intensity \in Nat
  PROVE  GpuThreads(i) \in Seq(AutoType)
  <1>1. Devices \in Seq(DeviceType) /\ Len(Devices) \in Nat
    BY Parameters
  <1>2. PICK d \in DeviceType : d = Devices[i]
    BY <1>1
  <1>3. PICK raw \in Nat :
          /\ raw = RawIntensity(d)
          /\ d.freeMem >= Reserve => raw * PerThread <= d.freeMem - Reserve
    BY IntensityFits
  <1>4. PICK x : x = IF self.intensity # 0 THEN self.intensity ELSE raw
    OBVIOUS
  <1>5. x \in Nat
    BY <1>4
  <1>6. PICK t : t = [index |-> i, auto |-> TRUE, intensity |-> x]
    OBVIOUS
  <1>7. t.index = i /\ t.intensity = x /\ t \in ThreadType
    <2>1. i \in Nat
      BY <1>1
    <2> QED
      BY <1>5, <1>6, <2>1 DEF ThreadType
  <1>8. t \in AutoType
    BY <1>2, <1>3, <1>4, <1>7 DEF AutoType, HasRoom
  <1>9. PICK n \in Nat : n = IF Devices[i].vega THEN 2 ELSE 1
    OBVIOUS
  <1>10. GpuThreads(i) = [k \in 1 .. n |-> t]
    BY <1>2, <1>3, <1>4, <1>6, <1>9 DEF GpuThreads
  <1>11. [k \in 1 .. n |-> t] \in Seq(AutoType)
    BY <1>8, <1>9
  <1> QED
    BY <1>10, <1>11

\* Options::oclInit() keeps the pools, and chooses threads that fit.
LEMMA OclInitKeeps ==
  ASSUME OptionsInv, OclInit
  PROVE  OptionsInv'
  <1>1. /\ stage = "ready" /\ stage' = "started" /\ args' = args /\ seen' = seen
        /\ self \in SelfType
    BY DEF OclInit, OptionsInv
  <1>2. CASE self.threads # <<>>
    <2>1. self' = self
      BY <1>2 DEF OclInit
    <2>2. AutoThreadsFit'
      <3>1. self.threads \in Seq(ThreadType)
        BY <1>1 DEF SelfType
      <3>2. \A k \in DOMAIN self.threads : ~self.threads[k].auto
        BY <1>1, <3>1 DEF OptionsInv
      <3> QED
        BY <2>1, <3>2 DEF AutoThreadsFit
    <2>3. PoolsAreTheGivenUrls' /\ UsersFollowTheirUrl'
      BY <1>1, <2>1 DEF OptionsInv, PoolsAreTheGivenUrls, UsersFollowTheirUrl, Ready, isValid
    <2> QED
      BY <1>1, <2>1, <2>2, <2>3 DEF OptionsInv
  <1>3. CASE self.threads = <<>>
    <2>1. PICK threads : threads = IF Platform = -1 THEN <<>>
                                   ELSE FlattenSeq([i \in DOMAIN Devices |-> GpuThreads(i)])
      OBVIOUS
    <2>2. threads \in Seq(AutoType)
      <3>1. self.intensity \in Nat
        BY <1>1 DEF SelfType
      <3>2. PICK n \in Nat : n = Len(Devices) /\ DOMAIN Devices = 1 .. n
        BY Parameters
      <3>3. PICK seqs : seqs = [i \in 1 .. n |-> GpuThreads(i)]
        OBVIOUS
      <3>4. seqs \in Seq(Seq(AutoType))
        BY <3>1, <3>2, <3>3, GpuThreadsFit
      <3>5. FlattenSeq(seqs) \in Seq(AutoType)
        BY <3>4, FlattenType
      <3> QED
        BY <2>1, <3>2, <3>3, <3>5
    <2>3. PICK platform \in Int : platform = Platform
      BY Parameters
    <2>4. self' = [self EXCEPT !.platform = platform, !.threads = threads]
      BY <1>3, <2>1, <2>3 DEF OclInit
    <2>5. threads \in Seq(ThreadType) /\ DOMAIN threads = 1 .. Len(threads)
      <3>1. AutoType \subseteq ThreadType
        BY DEF AutoType
      <3>2. Len(threads) \in Nat /\ \A k \in 1 .. Len(threads) : threads[k] \in ThreadType
        BY <2>2, <3>1
      <3>3. threads = [k \in 1 .. Len(threads) |-> threads[k]]
        BY <2>2
      <3> QED
        BY <3>2, <3>3
    <2>6. /\ self' \in SelfType /\ self'.pools = self.pools /\ self'.threads = threads
          /\ self'.intensity = self.intensity
      BY <1>1, <2>3, <2>4, <2>5 DEF SelfType
    <2>7. AutoThreadsFit'
      <3>1. \A k \in DOMAIN threads : self.intensity = 0 => HasRoom(threads[k])
        BY <2>2, <2>5 DEF AutoType
      <3> QED
        BY <2>6, <3>1 DEF AutoThreadsFit, HasRoom
    <2>8. PoolsAreTheGivenUrls' /\ UsersFollowTheirUrl'
      BY <1>1, <2>6 DEF OptionsInv, PoolsAreTheGivenUrls, UsersFollowTheirUrl, Ready, isValid
    <2> QED
      BY <1>1, <2>6, <2>7, <2>8 DEF OptionsInv
  <1> QED
    BY <1>2, <1>3

\* The members of Options at the start.
LEMMA OptionsStart == OptionsInit => OptionsInv
  <1> SUFFICES ASSUME OptionsInit PROVE OptionsInv
    OBVIOUS
  <1>1. PICK pools, none : pools = <<Url>> /\ none = << >>
    OBVIOUS
  <1>2. pools \in Seq(UrlType) /\ Len(pools) = 1 /\ pools[1] = Url
    BY <1>1, BlankFacts
  <1>3. none \in Seq(ThreadType) /\ none \in Seq(UrlArgs) /\ Len(none) = 0
    BY <1>1
  <1>4. 0 \in 0 .. UInt16
    BY DEF UInt16
  <1>5. self = [pools |-> pools, port |-> 0, intensity |-> 0, platform |-> 0,
                powerLimit |-> 0, threads |-> none]
    BY <1>1 DEF OptionsInit
  <1>6. self \in SelfType /\ self.pools = pools /\ self.threads = none
    BY <1>2, <1>3, <1>4, <1>5 DEF SelfType
  <1>7. seen = [given |-> none, lost |-> FALSE, latest |-> None]
    BY <1>1 DEF OptionsInit
  <1>8. seen \in SeenType /\ seen.given = none /\ seen.latest = None
    BY <1>3, <1>7 DEF SeenType
  <1>9. UserFits(pools, 1)
    BY <1>2, BlankFacts DEF UserFits
  <1>10. \A i \in 1 .. 1 : i = 1
    OBVIOUS
  <1>11. PoolState(pools, seen)
    BY <1>1, <1>2, <1>8, <1>9, <1>10, BlankFacts DEF PoolState
  <1>12. stage = "args" /\ args \in 0 .. MaxArgs
    <2>1. MaxArgs \in Nat
      BY OptionsAssumption
    <2> QED
      BY <2>1 DEF OptionsInit
  <1>13. PoolsAreTheGivenUrls /\ UsersFollowTheirUrl /\ AutoThreadsFit
    BY <1>12 DEF PoolsAreTheGivenUrls, UsersFollowTheirUrl, AutoThreadsFit, Ready
  <1>14. \A k \in 1 .. Len(self.threads) : ~self.threads[k].auto
    BY <1>3, <1>6
  <1>15. PoolState(self.pools, seen)
    BY <1>6, <1>11
  <1>16. Len(self.pools) >= 1
    BY <1>15 DEF PoolState
  <1> QED
    BY <1>6, <1>8, <1>12, <1>13, <1>14, <1>15, <1>16 DEF OptionsInv

\* Whatever argument is read, whichever way the constructor ends, and when the threads
\* are chosen, OptionsInv stays true (Options.cpp; OclCLI.cpp, autoConf).
THEOREM OptionsInductive ==
  ASSUME OptionsInv, [OptionsNext]_optionsVars
  PROVE  OptionsInv'
  <1>1. CASE UNCHANGED optionsVars
    BY <1>1 DEF optionsVars, OptionsInv, PoolsAreTheGivenUrls, UsersFollowTheirUrl,
                AutoThreadsFit, Ready, isValid, PoolState
  <1>2. CASE OptionsNext
    <2>1. CASE \E a \in UrlArgs : ArgUrl(a)
      BY <2>1, ArgUrlKeeps
    <2>2. CASE ArgUser
      BY <2>2, ArgUserKeeps
    <2>3. CASE ArgVariant \/ ArgRefused \/ ArgBadConfig
      BY <2>3, IdleKeeps
    <2>4. CASE \E key \in {"intensity", "platform"}, n \in Numbers \cap Nat : ArgNumber(key, n)
      BY <2>4, ArgNumberKeeps
    <2>5. CASE \E n \in Numbers : ArgPort(n)
      BY <2>5, ArgPortKeeps
    <2>6. CASE \E c \in Configs : ArgConfig(c)
      BY <2>6, ArgConfigKeeps
    <2>7. CASE Finish \/ FinishWithoutDefault \/ \E c \in Configs : FinishWithDefault(c)
      BY <2>7, FinishKeeps
    <2>8. CASE OclInit
      BY <2>8, OclInitKeeps
    <2> QED
      BY <1>2, <2>1, <2>2, <2>3, <2>4, <2>5, <2>6, <2>7, <2>8 DEF OptionsNext
  <1> QED
    BY <1>1, <1>2

\* What the invariant says of the types of the pools.
LEMMA OptionsTypes == OptionsInv => OptionsInvariant
  <1> SUFFICES ASSUME OptionsInv PROVE OptionsInvariant
    OBVIOUS
  <1>1. self \in SelfType /\ Len(self.pools) >= 1
    BY DEF OptionsInv
  <1>2. self.pools \in Seq(UrlType) /\ self.port \in 0 .. UInt16 /\ self.powerLimit \in Int
    BY <1>1 DEF SelfType
  <1>3. PICK pools \in Seq(UrlType) : pools = self.pools
    BY <1>2
  <1>4. \A i \in DOMAIN pools : pools[i] \in UrlType
    BY <1>3
  <1>5. \A i \in DOMAIN pools : /\ pools[i].port \in 0 .. UInt16 - 1
                                /\ pools[i].variant \in {-1, 0, 1}
                                /\ pools[i].user \in UserType
    BY <1>4 DEF UrlType
  <1>6. Len(pools) > 0
    BY <1>1, <1>3
  <1>7. OptionsTypeOK
    BY <1>2, <1>3, <1>5, <1>6 DEF OptionsInv, OptionsTypeOK, UserType
  <1> QED
    BY <1>7 DEF OptionsInv, OptionsInvariant

\* Whatever is written on the command line and in the files, a miner that starts works
\* for the valid URLs it was given in their order, or for the built-in pool, with each
\* user at its own URL, and with threads that fit into their GPU (Options.cpp;
\* OclCLI.cpp, autoConf).
THEOREM OptionsInvariantHolds == OptionsSpec => []OptionsInvariant
  <1>1. OptionsInv /\ [OptionsNext]_optionsVars => OptionsInv'
    BY OptionsInductive
  <1> QED
    BY <1>1, OptionsStart, OptionsTypes, PTL DEF OptionsSpec
=============================================================================

------------------------ MODULE RawSerialCapture_proofs ------------------------
(***************************************************************************)
(* Theorems about the line capture: its arrays are never written past      *)
(* their end, and it implements the queue of lines the adapters rely on.   *)
(*                                                                         *)
(* What LineQueue says of a stream of bytes is recursive, so the proof     *)
(* goes by induction over the stream (SetInduction of Indices): Without()  *)
(* is shown to be what its definition says, byte by byte, and so are the   *)
(* lines.                                                                  *)
(***************************************************************************)
EXTENDS RawSerialCapture, Indices

-----------------------------------------------------------------------------
(* Without(), byte by byte.                                                 *)

\* What the recursive function of Without() is.
IsFilter(f, s, x) ==
    f = [n \in 0..Len(s) |->
            IF n = 0 THEN <<>>
            ELSE IF s[n] = x THEN f[n - 1] ELSE Append(f[n - 1], s[n])]

\* There is such a function.
LEMMA FilterExists ==
    ASSUME NEW S, NEW s \in Seq(S), NEW x
    PROVE  \E f : IsFilter(f, s, x) /\ f \in [0..Len(s) -> Seq(S)]
<1> DEFINE Filters(n) ==
             {g \in [0..n -> Seq(S)] :
                 /\ g[0] = <<>>
                 /\ \A i \in 1..n : g[i] = IF s[i] = x THEN g[i - 1]
                                           ELSE Append(g[i - 1], s[i])}
           T == {k \in Nat : k <= Len(s) => Filters(k) # {}}
<1>0. Len(s) \in Nat /\ \A i \in 1..Len(s) : s[i] \in S
  OBVIOUS
<1>1. 0 \in T
  <2> DEFINE g == [i \in {0} |-> <<>>]
  <2>1. 0..0 = {0} /\ <<>> \in Seq(S) /\ 1..0 = {}
    BY EmptySeq
  <2>2. g \in [0..0 -> Seq(S)] /\ g[0] = <<>>
    BY <2>1
  <2> HIDE DEF g
  <2>3. g \in Filters(0)
    BY <2>1, <2>2
  <2> QED
    BY <2>3
<1>2. ASSUME NEW n \in T PROVE n + 1 \in T
  <2>0. n \in Nat /\ n + 1 \in Nat
    BY SMT
  <2> HIDE DEF Filters
  <2> SUFFICES ASSUME n + 1 <= Len(s) PROVE Filters(n + 1) # {}
    BY <2>0
  <2> USE DEF Filters
  <2>1. n \in Nat /\ n <= Len(s)
    BY <1>0
  <2>2. PICK g : g \in Filters(n)
    BY <2>1
  <2> DEFINE next == IF s[n + 1] = x THEN g[n] ELSE Append(g[n], s[n + 1])
             h == [i \in 0..(n + 1) |-> IF i <= n THEN g[i] ELSE next]
  <2>3. g[n] \in Seq(S) /\ s[n + 1] \in S
    BY <1>0, <2>1, <2>2
  <2>4. next \in Seq(S)
    BY <2>3
  <2>5. h \in [0..(n + 1) -> Seq(S)] /\ h[0] = <<>>
    BY <2>1, <2>2, <2>4
  <2>6. ASSUME NEW i \in 1..(n + 1)
        PROVE  h[i] = IF s[i] = x THEN h[i - 1] ELSE Append(h[i - 1], s[i])
    <3>1. h[i - 1] = g[i - 1]
      BY <2>1
    <3>2. CASE i <= n
      <4>1. i \in 1..n /\ h[i] = g[i]
        BY <2>1, <3>2
      <4>2. g[i] = IF s[i] = x THEN g[i - 1] ELSE Append(g[i - 1], s[i])
        BY <2>2, <4>1
      <4> QED
        BY <3>1, <4>1, <4>2
    <3>3. CASE i = n + 1
      <4>1. h[i] = next
        BY <2>1, <3>3
      <4> QED
        BY <2>1, <3>1, <3>3, <4>1
    <3> QED
      BY <2>1, <3>2, <3>3
  <2> QED
    BY <2>5, <2>6
<1>3. Len(s) \in T
  <2>1. T = Nat
    <3> HIDE DEF T
    <3>1. T \in SUBSET Nat
      BY DEF T
    <3> QED
      BY <1>1, <1>2, <3>1, SetInduction
  <2> QED
    BY <1>0, <2>1
<1>4. PICK g : g \in Filters(Len(s))
  BY <1>0, <1>3
<1>5. IsFilter(g, s, x)
  <2> DEFINE body == [n \in 0..Len(s) |->
                        IF n = 0 THEN <<>>
                        ELSE IF s[n] = x THEN g[n - 1] ELSE Append(g[n - 1], s[n])]
  <2>1. ASSUME NEW n \in 0..Len(s) PROVE g[n] = body[n]
    <3>1. CASE n = 0
      BY <1>0, <1>4, <3>1
    <3>2. CASE n # 0
      <4>1. n \in 1..Len(s)
        BY <1>0, <3>2
      <4>2. g[n] = IF s[n] = x THEN g[n - 1] ELSE Append(g[n - 1], s[n])
        BY <1>4, <4>1
      <4> QED
        BY <3>2, <4>2
    <3> QED
      BY <3>1, <3>2
  <2>2. DOMAIN g = 0..Len(s) /\ g = [n \in 0..Len(s) |-> g[n]]
    BY <1>4
  <2>3. g = body
    BY <2>1, <2>2
  <2> QED
    BY <2>3 DEF IsFilter
<1> QED
  BY <1>4, <1>5

\* Its value at each place,
LEMMA FilterAt ==
    ASSUME NEW s, NEW x, NEW f, IsFilter(f, s, x), NEW k \in 0..Len(s)
    PROVE  f[k] = IF k = 0 THEN <<>>
                  ELSE IF s[k] = x THEN f[k - 1] ELSE Append(f[k - 1], s[k])
BY Zenon DEF IsFilter

\* and after each byte.
LEMMA FilterStep ==
    ASSUME NEW s, NEW x, NEW f, IsFilter(f, s, x), Len(s) \in Nat,
           NEW n \in Nat, NEW k \in Nat, k = n + 1, k <= Len(s)
    PROVE  f[k] = IF s[k] = x THEN f[n] ELSE Append(f[n], s[k])
<1>1. k \in 0..Len(s) /\ k # 0 /\ k - 1 = n
  OBVIOUS
<1>2. f[k] = IF k = 0 THEN <<>>
             ELSE IF s[k] = x THEN f[k - 1] ELSE Append(f[k - 1], s[k])
  BY <1>1, FilterAt
<1> QED
  BY <1>1, <1>2

\* Two such functions agree as long as their sequences do.
LEMMA FiltersAgree ==
    ASSUME NEW S, NEW s \in Seq(S), NEW t \in Seq(S), NEW x, NEW f, NEW g,
           IsFilter(f, s, x), IsFilter(g, t, x),
           NEW m \in Nat, m <= Len(s), m <= Len(t), \A i \in 1..m : s[i] = t[i]
    PROVE  \A i \in 0..m : f[i] = g[i]
<1> DEFINE T == {n \in Nat : n <= m => f[n] = g[n]}
<1>0. Len(s) \in Nat /\ Len(t) \in Nat
  OBVIOUS
<1>1. 0 \in T
  BY <1>0 DEF IsFilter
<1>2. ASSUME NEW n \in T PROVE n + 1 \in T
  <2> SUFFICES ASSUME n + 1 <= m PROVE f[n + 1] = g[n + 1]
    OBVIOUS
  <2>1. n \in Nat /\ n + 1 \in 1..m /\ f[n] = g[n] /\ s[n + 1] = t[n + 1]
    OBVIOUS
  <2> DEFINE k == n + 1
  <2>4. k \in Nat /\ k = n + 1 /\ k <= Len(s) /\ k <= Len(t)
    BY <1>0, <2>1
  <2> HIDE DEF k
  <2>2. f[k] = IF s[k] = x THEN f[n] ELSE Append(f[n], s[k])
    BY <1>0, <2>1, <2>4, FilterStep
  <2>3. g[k] = IF t[k] = x THEN g[n] ELSE Append(g[n], t[k])
    BY <1>0, <2>1, <2>4, FilterStep
  <2> QED
    BY <2>1, <2>2, <2>3, <2>4
<1>3. T = Nat
  <2>1. T \in SUBSET Nat
    OBVIOUS
  <2> HIDE DEF T
  <2> QED
    BY <1>1, <1>2, <2>1, SetInduction
<1> QED
  BY <1>3

\* The function Without() chooses.
Filter(s, x) == CHOOSE f : IsFilter(f, s, x)

LEMMA WithoutIsFilter ==
    ASSUME NEW S, NEW s \in Seq(S), NEW x
    PROVE  /\ IsFilter(Filter(s, x), s, x)
           /\ Without(s, x) = Filter(s, x)[Len(s)]
           /\ Without(s, x) \in Seq(S)
<1>1. PICK f : IsFilter(f, s, x) /\ f \in [0..Len(s) -> Seq(S)]
  BY FilterExists
<1>2. IsFilter(Filter(s, x), s, x)
  BY <1>1 DEF Filter
<1>3. Without(s, x) = Filter(s, x)[Len(s)]
  BY DEF Without, Filter, IsFilter
<1>4. Len(s) \in Nat
  OBVIOUS
<1>5. Filter(s, x)[Len(s)] = f[Len(s)]
  BY <1>1, <1>2, <1>4, FiltersAgree
<1> QED
  BY <1>1, <1>2, <1>3, <1>4, <1>5

\* Without() of no bytes.
LEMMA WithoutNothing == ASSUME NEW x PROVE Without(<<>>, x) = <<>>
<1>1. <<>> \in Seq({}) /\ Len(<<>>) = 0
  BY EmptySeq
<1>2. IsFilter(Filter(<<>>, x), <<>>, x) /\ Without(<<>>, x) = Filter(<<>>, x)[0]
  BY <1>1, WithoutIsFilter
<1>3. 0 \in 0..Len(<<>>)
  BY <1>1
<1> HIDE DEF Filter
<1> QED
  BY <1>2, <1>3 DEF IsFilter

\* One byte more: it is kept unless it is x.
LEMMA WithoutOneMore ==
    ASSUME NEW S, NEW s \in Seq(S), NEW c \in S, NEW x
    PROVE  Without(Append(s, c), x) = IF c = x THEN Without(s, x) ELSE Append(Without(s, x), c)
<1> DEFINE t == Append(s, c)
           n == Len(s)
           f == Filter(s, x)
           g == Filter(t, x)
<1>1. /\ t \in Seq(S) /\ n \in Nat /\ Len(t) = n + 1
      /\ \A i \in 1..n : s[i] = t[i]
      /\ t[n + 1] = c
  OBVIOUS
<1> HIDE DEF t
<1>2. IsFilter(f, s, x) /\ Without(s, x) = f[n]
  BY WithoutIsFilter
<1>3. IsFilter(g, t, x) /\ Without(t, x) = g[n + 1]
  BY <1>1, WithoutIsFilter
<1> HIDE DEF f, g
<1>4. f[n] = g[n]
  <2>1. \A i \in 0..n : f[i] = g[i]
    BY <1>1, <1>2, <1>3, FiltersAgree
  <2> QED
    BY <1>1, <2>1
<1> DEFINE k == n + 1
<1>6. k \in Nat /\ k = n + 1 /\ k <= Len(t)
  BY <1>1
<1> HIDE DEF k
<1>5. g[k] = IF t[k] = x THEN g[n] ELSE Append(g[n], t[k])
  BY <1>1, <1>3, <1>6, FilterStep
<1> QED
  BY <1>1, <1>2, <1>3, <1>4, <1>5, <1>6 DEF t

-----------------------------------------------------------------------------
(* The parts of a line.                                                     *)

\* Trimming takes a piece out of the middle; what is left of a buffer with text
\* in it is not empty.
LEMMA TrimType ==
    ASSUME NEW S, NEW s \in Seq(S)
    PROVE  /\ WithoutBlanksAround(s) \in Seq(S)
           /\ Len(WithoutBlanksAround(s)) <= Len(s)
<1> DEFINE solid == {i \in DOMAIN s : s[i] # Blank}
<1>1. DOMAIN s = 1..Len(s) /\ Len(s) \in Nat
  OBVIOUS
<1>2. CASE solid = {}
  <2>1. WithoutBlanksAround(s) = <<>>
    BY <1>2 DEF WithoutBlanksAround
  <2> QED
    BY <1>1, <2>1, EmptySeq
<1>3. CASE solid # {}
  <2>1. /\ Min(solid) \in solid /\ Max(solid) \in solid
        /\ \A y \in solid : Min(solid) <= y
    <3>1. solid \in SUBSET Nat /\ \A y \in solid : y <= Len(s)
      BY <1>1
    <3> HIDE DEF solid
    <3> QED
      BY <1>1, <1>3, <3>1, MinMaxOfIndices
  <2> DEFINE a == Min(solid)
             b == Max(solid)
  <2>2. WithoutBlanksAround(s) = SubSeq(s, a, b)
    BY <1>3 DEF WithoutBlanksAround
  <2>3. a \in 1..Len(s) /\ b \in 1..Len(s) /\ a <= b
    BY <1>1, <2>1
  <2> HIDE DEF a, b, solid
  <2> QED
    BY <1>1, <2>2, <2>3, PieceType
<1> QED
  BY <1>2, <1>3

\* The lesser of two numbers.
LEMMA LesserOfTwo ==
    ASSUME NEW a \in Nat, NEW b \in Nat
    PROVE  Min({a, b}) = IF a <= b THEN a ELSE b
<1>1. Min({a, b}) \in {a, b} /\ \A y \in {a, b} : Min({a, b}) <= y
  <2> DEFINE T == {a, b}
  <2>1. T \in SUBSET Nat /\ T # {} /\ a + b \in Nat /\ \A y \in T : y <= a + b
    OBVIOUS
  <2>2. Min(T) \in T /\ \A y \in T : Min(T) <= y
    <3> HIDE DEF T
    <3> QED
      BY <2>1, MinMaxOfIndices
  <2> QED
    BY <2>2
<1> QED
  BY <1>1

\* Cutting is nothing to a sequence that fits.
LEMMA CutIs ==
    ASSUME NEW S, NEW s \in Seq(S)
    PROVE  /\ Cut(s) = IF Len(s) <= LineCapacity THEN s ELSE SubSeq(s, 1, LineCapacity)
           /\ Cut(s) \in Seq(S)
           /\ Len(Cut(s)) = IF Len(s) <= LineCapacity THEN Len(s) ELSE LineCapacity
<1>1. LineCapacity \in Nat /\ LineCapacity # 0 /\ Len(s) \in Nat
  BY LineQueueAssumption
<1>2. Cut(s) = SubSeq(s, 1, IF Len(s) <= LineCapacity THEN Len(s) ELSE LineCapacity)
  BY <1>1, LesserOfTwo DEF Cut
<1>3. SubSeq(s, 1, Len(s)) = s
  BY SubSeqFull
<1>4. CASE Len(s) <= LineCapacity
  BY <1>2, <1>3, <1>4
<1>5. CASE ~ (Len(s) <= LineCapacity)
  <2>1. LineCapacity <= Len(s) /\ 1 <= LineCapacity /\ LineCapacity \in Int
    BY <1>1, <1>5
  <2>2. /\ SubSeq(s, 1, LineCapacity) \in Seq(S)
        /\ Len(SubSeq(s, 1, LineCapacity)) = LineCapacity
    BY <1>1, <2>1, PieceType
  <2> QED
    BY <1>2, <1>5, <2>2
<1> QED
  BY <1>4, <1>5

\* A byte more is kept while it fits, which is what Store() does.
LEMMA CutOneMore ==
    ASSUME NEW S, NEW s \in Seq(S), NEW c \in S
    PROVE  Cut(Append(s, c)) = IF Len(Cut(s)) < LineCapacity THEN Append(Cut(s), c) ELSE Cut(s)
<1> DEFINE t == Append(s, c)
<1>1. LineCapacity \in Nat /\ LineCapacity # 0 /\ Len(s) \in Nat
  BY LineQueueAssumption
<1>2. t \in Seq(S) /\ Len(t) = Len(s) + 1
  BY AppendProperties
<1>3. CASE Len(s) < LineCapacity
  <2>1. Cut(s) = s /\ Len(Cut(s)) < LineCapacity
    BY <1>1, <1>3, CutIs
  <2>2. Cut(t) = t
    <3> HIDE DEF t
    <3>1. Len(t) <= LineCapacity
      BY <1>1, <1>2, <1>3
    <3> QED
      BY <1>2, <3>1, CutIs
  <2> QED
    BY <2>1, <2>2
<1>4. CASE ~ (Len(s) < LineCapacity)
  <2>1. Len(Cut(s)) = LineCapacity
    BY <1>1, <1>4, CutIs
  <2>2. Cut(t) = SubSeq(t, 1, LineCapacity)
    <3> HIDE DEF t
    <3> QED
      BY <1>1, <1>2, <1>4, CutIs
  <2>3. SubSeq(t, 1, LineCapacity) = SubSeq(s, 1, LineCapacity)
    BY <1>1, <1>4, PieceOfLonger
  <2>4. SubSeq(s, 1, LineCapacity) = Cut(s)
    <3>1. CASE Len(s) <= LineCapacity
      <4>1. Len(s) = LineCapacity /\ Cut(s) = s
        BY <1>1, <1>4, <3>1, CutIs
      <4> QED
        BY <4>1, SubSeqFull
    <3>2. CASE ~ (Len(s) <= LineCapacity)
      BY <3>2, CutIs
    <3> QED
      BY <3>1, <3>2
  <2>5. ~ (Len(Cut(s)) < LineCapacity)
    BY <1>1, <2>1
  <2>6. Cut(t) = Cut(s)
    BY <2>2, <2>3, <2>4
  <2> QED
    BY <2>5, <2>6
<1> QED
  BY <1>3, <1>4

\* A buffer that was just emptied.
LEMMA NothingLeft == Cut(Without(<<>>, Junk)) = <<>>
<1> DEFINE none == <<>>
<1>1. none \in Seq({}) /\ Len(none) <= LineCapacity
  <2>1. none \in Seq({}) /\ Len(none) = 0
    BY EmptySeq
  <2>2. LineCapacity \in Nat
    BY LineQueueAssumption
  <2> QED
    BY <2>1, <2>2
<1> HIDE DEF none
<1>2. Cut(none) = none
  BY <1>1, CutIs
<1> QED
  BY <1>2, WithoutNothing DEF none

\* A line has the bytes of what it is the line of.
LEMMA LineType == ASSUME NEW S, NEW s \in Seq(S) PROVE LineOf(s) \in Seq(S)
<1>1. Without(s, Junk) \in Seq(S)
  BY WithoutIsFilter
<1>2. Cut(Without(s, Junk)) \in Seq(S)
  BY <1>1, CutIs
<1> QED
  BY <1>2, TrimType DEF LineOf

-----------------------------------------------------------------------------
(* The lines of a stream that grows by a byte.                              *)

\* Where the line that is not ended yet begins.
OpenStart(p) == IF LineEnds(p) = {} THEN 1 ELSE Max(LineEnds(p)) + 1

OpenPart(p) == SubSeq(p, OpenStart(p), Len(p))

\* The line ends of a sequence are among its indices.
LEMMA LineEndsAreIndices ==
    ASSUME NEW p \in Seq(Bytes)
    PROVE  /\ Len(p) \in Nat
           /\ LineEnds(p) \in SUBSET Nat
           /\ \A i \in LineEnds(p) : 1 <= i /\ i <= Len(p)
           /\ OpenStart(p) \in Nat /\ 1 <= OpenStart(p) /\ OpenStart(p) <= Len(p) + 1
           /\ OpenPart(p) \in Seq(Bytes)
<1>1. /\ Len(p) \in Nat
      /\ LineEnds(p) \in SUBSET Nat
      /\ \A i \in LineEnds(p) : 1 <= i /\ i <= Len(p)
  BY DEF LineEnds
<1>2. LineEnds(p) # {} => Max(LineEnds(p)) \in LineEnds(p)
  BY <1>1, MinMaxOfIndices
<1>3. OpenStart(p) \in Nat /\ 1 <= OpenStart(p) /\ OpenStart(p) <= Len(p) + 1
  BY <1>1, <1>2 DEF OpenStart
<1>4. OpenPart(p) \in Seq(Bytes)
  BY <1>1, <1>3, PieceType DEF OpenPart
<1> QED
  BY <1>1, <1>3, <1>4

\* The line ends of the longer stream.
LEMMA LineEndsOneMore ==
    ASSUME NEW p \in Seq(Bytes), NEW c \in Bytes
    PROVE  LineEnds(Append(p, c)) =
               IF c = LineEnd THEN LineEnds(p) \cup {Len(p) + 1} ELSE LineEnds(p)
<1> DEFINE q == Append(p, c)
<1>1. /\ q \in Seq(Bytes) /\ Len(p) \in Nat /\ Len(q) = Len(p) + 1
      /\ \A i \in 1..Len(p) : q[i] = p[i]
      /\ q[Len(p) + 1] = c
  BY AppendProperties
<1>2. DOMAIN p = 1..Len(p) /\ DOMAIN q = 1..(Len(p) + 1)
  <2> HIDE DEF q
  <2> QED
    BY <1>1
<1> HIDE DEF q
<1>3. LineEnds(q) = IF c = LineEnd THEN LineEnds(p) \cup {Len(p) + 1} ELSE LineEnds(p)
  BY <1>1, <1>2 DEF LineEnds
<1> QED
  BY <1>3 DEF q

\* The unended line grows by the byte, or begins anew after a line end.
LEMMA OpenPartOneMore ==
    ASSUME NEW p \in Seq(Bytes), NEW c \in Bytes
    PROVE  OpenPart(Append(p, c)) = IF c = LineEnd THEN <<>> ELSE Append(OpenPart(p), c)
<1> DEFINE q == Append(p, c)
           k == Len(p) + 1
<1>1. q \in Seq(Bytes) /\ Len(p) \in Nat /\ Len(q) = k /\ k \in Nat /\ q[k] = c
  BY AppendProperties
<1>2. LineEnds(q) = IF c = LineEnd THEN LineEnds(p) \cup {k} ELSE LineEnds(p)
  BY LineEndsOneMore
<1>3. SubSeq(q, OpenStart(p), Len(p)) = SubSeq(p, OpenStart(p), Len(p))
  <2>1. /\ OpenStart(p) \in Nat /\ OpenStart(p) # 0
        /\ Len(p) \in Nat /\ Len(p) <= Len(p)
    BY LineEndsAreIndices
  <2> QED
    BY <2>1, PieceOfLonger
<1> HIDE DEF q
<1>4. CASE c = LineEnd
  <2>1. Max(LineEnds(q)) = k
    <3>1. /\ LineEnds(q) \in SUBSET Nat /\ LineEnds(q) # {} /\ k \in LineEnds(q)
          /\ \A y \in LineEnds(q) : y <= k
      BY <1>1, <1>2, <1>4, LineEndsAreIndices
    <3>2. /\ Max(LineEnds(q)) \in LineEnds(q)
          /\ \A y \in LineEnds(q) : y <= Max(LineEnds(q))
      <4> HIDE DEF k
      <4> QED
        BY <1>1, <3>1, MinMaxOfIndices
    <3> QED
      BY <1>1, <3>1, <3>2
  <2>2. OpenStart(q) = k + 1
    BY <1>2, <1>4, <2>1 DEF OpenStart
  <2>3. Len(q) < OpenStart(q) /\ Len(q) \in Int /\ OpenStart(q) \in Int
    BY <1>1, <2>2
  <2>4. OpenPart(q) = <<>>
    BY <2>3, SubSeqEmpty DEF OpenPart
  <2> QED
    BY <1>4, <2>4 DEF q
<1>5. CASE c # LineEnd
  <2>1. OpenStart(q) = OpenStart(p)
    BY <1>2, <1>5 DEF OpenStart
  <2>2. OpenStart(p) \in Nat /\ OpenStart(p) # 0 /\ OpenStart(p) <= k
    BY LineEndsAreIndices
  <2>3. SubSeq(q, OpenStart(p), k) = Append(SubSeq(q, OpenStart(p), Len(p)), q[k])
    <3>1. k = Len(p) + 1
      OBVIOUS
    <3> HIDE DEF k
    <3> QED
      BY <1>1, <2>2, <3>1, PieceGrows
  <2>4. OpenPart(q) = Append(OpenPart(p), c)
    BY <1>1, <1>3, <2>1, <2>3 DEF OpenPart
  <2> QED
    BY <1>5, <2>4 DEF q
<1> QED
  BY <1>4, <1>5

\* What stood between two line ends still does; a new line end ends what was open.
LEMMA BetweenOneMore ==
    ASSUME NEW p \in Seq(Bytes), NEW c \in Bytes
    PROVE  /\ \A i \in 1..Len(p) : Between(Append(p, c), i) = Between(p, i)
           /\ Between(Append(p, c), Len(p) + 1) = OpenPart(p)
<1> DEFINE q == Append(p, c)
           Earlier(s, e) == {i \in LineEnds(s) : i < e}
           Begin(s, e) == IF Earlier(s, e) = {} THEN 1 ELSE Max(Earlier(s, e)) + 1
<1>1. Len(p) \in Nat /\ LineEnds(p) \in SUBSET Nat
      /\ \A i \in LineEnds(p) : 1 <= i /\ i <= Len(p)
  BY LineEndsAreIndices
<1>2. LineEnds(q) = IF c = LineEnd THEN LineEnds(p) \cup {Len(p) + 1} ELSE LineEnds(p)
  BY LineEndsOneMore
<1>3. ASSUME NEW s, NEW e PROVE Between(s, e) = SubSeq(s, Begin(s, e), e - 1)
  BY DEF Between
<1>4. ASSUME NEW i \in 1..Len(p) PROVE Between(q, i) = Between(p, i)
  <2>1. Earlier(q, i) = Earlier(p, i)
    <3> HIDE DEF q
    <3> QED
      BY <1>1, <1>2
  <2>2. Begin(q, i) = Begin(p, i)
    <3> HIDE DEF q, Earlier
    <3> QED
      BY <2>1
  <2>3. Begin(p, i) \in Nat /\ Begin(p, i) # 0
    <3>1. Earlier(p, i) \in SUBSET Nat /\ \A y \in Earlier(p, i) : y <= Len(p)
      BY <1>1
    <3>2. Earlier(p, i) # {} => Max(Earlier(p, i)) \in Nat
      <4> HIDE DEF Earlier
      <4> QED
        BY <1>1, <3>1, MinMaxOfIndices
    <3> HIDE DEF Earlier
    <3> QED
      BY <3>2
  <2>4. i - 1 \in Nat /\ i - 1 <= Len(p)
    BY <1>1
  <2>5. SubSeq(q, Begin(p, i), i - 1) = SubSeq(p, Begin(p, i), i - 1)
    <3> DEFINE m == Begin(p, i)
               n == i - 1
    <3>1. m \in Nat /\ m # 0 /\ n \in Nat /\ n <= Len(p)
      BY <2>3, <2>4
    <3> HIDE DEF m, n
    <3>2. SubSeq(q, m, n) = SubSeq(p, m, n)
      BY <3>1, PieceOfLonger
    <3> QED
      BY <3>2 DEF m, n
  <2> HIDE DEF q, Begin
  <2> QED
    BY <1>3, <2>2, <2>5
<1>5. Between(q, Len(p) + 1) = OpenPart(p)
  <2>1. Earlier(q, Len(p) + 1) = LineEnds(p)
    <3> HIDE DEF q
    <3> QED
      BY <1>1, <1>2
  <2>2. Begin(q, Len(p) + 1) = OpenStart(p) /\ Len(p) + 1 - 1 = Len(p)
    <3>1. Begin(q, Len(p) + 1) = OpenStart(p)
      <4> HIDE DEF q, Earlier
      <4> QED
        BY <2>1 DEF OpenStart
    <3> QED
      BY <1>1, <3>1
  <2>3. SubSeq(q, OpenStart(p), Len(p)) = SubSeq(p, OpenStart(p), Len(p))
    <3>1. /\ OpenStart(p) \in Nat /\ OpenStart(p) # 0
          /\ Len(p) \in Nat /\ Len(p) <= Len(p)
      BY LineEndsAreIndices
    <3> QED
      BY <3>1, PieceOfLonger
  <2>4. Between(q, Len(p) + 1) = SubSeq(q, Begin(q, Len(p) + 1), Len(p) + 1 - 1)
    <3> DEFINE k == Len(p) + 1
    <3> HIDE DEF k, q, Begin
    <3>1. Between(q, k) = SubSeq(q, Begin(q, k), k - 1)
      BY <1>3
    <3> QED
      BY <3>1 DEF k
  <2> HIDE DEF q, Begin
  <2> QED
    BY <2>2, <2>3, <2>4 DEF OpenPart
<1> QED
  BY <1>4, <1>5

\* The line each byte of the longer stream ends.
LEMMA LineEndingAtOneMore ==
    ASSUME NEW p \in Seq(Bytes), NEW c \in Bytes
    PROVE  /\ LineEndingAt(p) \in Seq(Seq(Bytes))
           /\ LineEndingAt(Append(p, c)) =
                  Append(LineEndingAt(p), IF c = LineEnd THEN LineOf(OpenPart(p)) ELSE <<>>)
<1> DEFINE q == Append(p, c)
           last == IF c = LineEnd THEN LineOf(OpenPart(p)) ELSE <<>>
           a == LineEndingAt(q)
           b == Append(LineEndingAt(p), last)
<1>1. /\ q \in Seq(Bytes) /\ Len(p) \in Nat /\ Len(q) = Len(p) + 1
      /\ \A i \in 1..Len(p) : q[i] = p[i]
      /\ q[Len(p) + 1] = c
  BY AppendProperties
<1>2. ASSUME NEW s \in Seq(Bytes)
      PROVE  /\ LineEndingAt(s) \in Seq(Seq(Bytes)) /\ Len(LineEndingAt(s)) = Len(s)
             /\ \A i \in 1..Len(s) :
                   LineEndingAt(s)[i] = IF s[i] = LineEnd THEN LineOf(Between(s, i)) ELSE <<>>
  <2>1. Len(s) \in Nat /\ DOMAIN s = 1..Len(s)
    OBVIOUS
  <2>2. ASSUME NEW i \in 1..Len(s) PROVE LineOf(Between(s, i)) \in Seq(Bytes)
    <3> DEFINE earlier == {j \in LineEnds(s) : j < i}
               m == IF earlier = {} THEN 1 ELSE Max(earlier) + 1
    <3>1. earlier \in SUBSET Nat /\ \A y \in earlier : y <= Len(s)
      BY LineEndsAreIndices
    <3>2. m \in Nat /\ m # 0
      <4>1. earlier # {} => Max(earlier) \in Nat
        <5> HIDE DEF earlier
        <5> QED
          BY <2>1, <3>1, MinMaxOfIndices
      <4> HIDE DEF earlier
      <4> QED
        BY <4>1
    <3>3. Between(s, i) = SubSeq(s, m, i - 1)
      BY DEF Between
    <3> DEFINE n == i - 1
    <3>4. n \in Int /\ n <= Len(s)
      BY <2>1
    <3>5. SubSeq(s, m, n) \in Seq(Bytes)
      <4> HIDE DEF m, n
      <4> QED
        BY <3>2, <3>4, PieceType
    <3>6. Between(s, i) \in Seq(Bytes)
      BY <3>3, <3>5
    <3> QED
      BY <3>6, LineType
  <2>3. <<>> \in Seq(Bytes)
    BY EmptySeq
  <2>4. LineEndingAt(s) \in [1..Len(s) -> Seq(Bytes)]
    <3>1. \A i \in 1..Len(s) :
             (IF s[i] = LineEnd THEN LineOf(Between(s, i)) ELSE <<>>) \in Seq(Bytes)
      BY <2>2, <2>3
    <3> QED
      BY <2>1, <3>1 DEF LineEndingAt
  <2>5. LineEndingAt(s) \in Seq(Seq(Bytes)) /\ Len(LineEndingAt(s)) = Len(s)
    BY <2>1, <2>4, FunctionIsSeq
  <2> QED
    BY <2>1, <2>5 DEF LineEndingAt
<1>3. last \in Seq(Bytes)
  <2>1. <<>> \in Seq(Bytes)
    BY EmptySeq
  <2> QED
    BY <2>1, LineEndsAreIndices, LineType
<1> HIDE DEF q, last
<1>4. /\ a \in Seq(Seq(Bytes)) /\ Len(a) = Len(p) + 1
      /\ \A i \in 1..(Len(p) + 1) :
             a[i] = IF q[i] = LineEnd THEN LineOf(Between(q, i)) ELSE <<>>
  BY <1>1, <1>2
<1>5. /\ b \in Seq(Seq(Bytes)) /\ Len(b) = Len(p) + 1
      /\ \A i \in 1..Len(p) : b[i] = LineEndingAt(p)[i]
      /\ b[Len(p) + 1] = last
  BY <1>2, <1>3, AppendProperties
<1>6. ASSUME NEW i \in 1..Len(a) PROVE a[i] = b[i]
  <2>1. CASE i \in 1..Len(p)
    <3>1. Between(q, i) = Between(p, i)
      BY <2>1, BetweenOneMore DEF q
    <3> QED
      BY <1>1, <1>2, <1>4, <1>5, <2>1, <3>1
  <2>2. CASE i = Len(p) + 1
    <3>1. Between(q, Len(p) + 1) = OpenPart(p)
      BY BetweenOneMore DEF q
    <3>2. last = IF c = LineEnd THEN LineOf(OpenPart(p)) ELSE <<>>
      BY DEF last
    <3>3. a[i] = last
      <4>1. a[i] = IF q[i] = LineEnd THEN LineOf(Between(q, i)) ELSE <<>>
        BY <1>1, <1>4, <2>2
      <4> QED
        BY <1>1, <2>2, <3>1, <3>2, <4>1
    <3> QED
      BY <1>5, <2>2, <3>3
  <2>3. i \in 1..Len(p) \/ i = Len(p) + 1
    BY <1>1, <1>4
  <2> QED
    BY <2>1, <2>2, <2>3
<1>7. a = b
  <2> HIDE DEF a, b
  <2> QED
    BY <1>4, <1>5, <1>6, SeqEqual
<1> QED
  BY <1>2, <1>7 DEF q, last

\* The lines of the longer stream: one more when the byte ends a line with text.
LEMMA LinesOneMore ==
    ASSUME NEW p \in Seq(Bytes), NEW c \in Bytes
    PROVE  /\ LinesOf(p) \in Seq(Seq(Bytes))
           /\ LinesOf(Append(p, c)) =
                  IF c = LineEnd /\ LineOf(OpenPart(p)) # <<>>
                  THEN Append(LinesOf(p), LineOf(OpenPart(p)))
                  ELSE LinesOf(p)
<1> DEFINE ending == LineEndingAt(p)
           last == IF c = LineEnd THEN LineOf(OpenPart(p)) ELSE <<>>
<1>1. ending \in Seq(Seq(Bytes)) /\ LineEndingAt(Append(p, c)) = Append(ending, last)
  BY LineEndingAtOneMore
<1>2. last \in Seq(Bytes)
  <2>1. <<>> \in Seq(Bytes)
    BY EmptySeq
  <2> QED
    BY <2>1, LineEndsAreIndices, LineType
<1>3. LinesOf(p) \in Seq(Seq(Bytes))
  BY <1>1, WithoutIsFilter DEF LinesOf
<1>4. Without(Append(ending, last), <<>>) =
          IF last = <<>> THEN Without(ending, <<>>) ELSE Append(Without(ending, <<>>), last)
  <2> HIDE DEF ending, last
  <2> QED
    BY <1>1, <1>2, WithoutOneMore
<1>5. LinesOf(Append(p, c)) = IF last = <<>> THEN LinesOf(p) ELSE Append(LinesOf(p), last)
  BY <1>1, <1>4 DEF LinesOf
<1> QED
  BY <1>3, <1>5

\* What has been read of a stream has the first of its lines.
LEMMA LinesOfPrefix ==
    ASSUME NEW s \in Seq(Bytes), NEW n \in 0..Len(s)
    PROVE  LET early == LinesOf(SubSeq(s, 1, n))
               all == LinesOf(s)
           IN  /\ early \in Seq(Seq(Bytes)) /\ all \in Seq(Seq(Bytes))
               /\ Len(early) <= Len(all)
               /\ \A i \in 1..Len(early) : early[i] = all[i]
<1> DEFINE Lines(k) == LinesOf(SubSeq(s, 1, k))
           Extends(k) == /\ Lines(k) \in Seq(Seq(Bytes))
                         /\ Len(Lines(n)) <= Len(Lines(k))
                         /\ \A i \in 1..Len(Lines(n)) : Lines(n)[i] = Lines(k)[i]
           T == {d \in Nat : n + d <= Len(s) => Extends(n + d)}
<1>1. Len(s) \in Nat /\ n \in Nat /\ n <= Len(s)
  OBVIOUS
<1>2. ASSUME NEW k \in 0..Len(s) PROVE SubSeq(s, 1, k) \in Seq(Bytes)
  <2>1. k \in Int /\ k <= Len(s) /\ 1 \in Nat /\ 1 # 0
    BY <1>1
  <2> QED
    BY <2>1, PieceType
<1>3. ASSUME NEW p \in Seq(Bytes) PROVE LinesOf(p) \in Seq(Seq(Bytes))
  <2>1. LineEnd \in Bytes
    BY DEF Bytes
  <2> QED
    BY <2>1, LinesOneMore
<1>4. 0 \in T
  <2>1. Lines(n) \in Seq(Seq(Bytes))
    BY <1>2, <1>3
  <2>2. n + 0 = n
    BY <1>1
  <2> HIDE DEF Lines
  <2>3. Extends(n)
    BY <2>1
  <2> HIDE DEF Extends
  <2> QED
    BY <2>2, <2>3
<1>5. ASSUME NEW d \in T PROVE d + 1 \in T
  <2>0. d \in Nat /\ d + 1 \in Nat
    BY SMT
  <2> HIDE DEF Extends
  <2> SUFFICES ASSUME n + (d + 1) <= Len(s) PROVE Extends(n + (d + 1))
    BY <2>0
  <2> DEFINE j == n + d
             k == n + (d + 1)
  <2>1. /\ j \in Nat /\ k \in Nat /\ k = j + 1 /\ 1 <= k /\ k <= Len(s)
        /\ j \in 0..Len(s) /\ k \in 1..Len(s)
    BY <1>1, <2>0
  <2>2. Extends(j)
    BY <1>1, <2>0
  <2> HIDE DEF j, k, T
  <2> DEFINE p == SubSeq(s, 1, j)
             c == s[k]
  <2>3. p \in Seq(Bytes) /\ c \in Bytes
    BY <1>2, <2>1
  <2>4. SubSeq(s, 1, k) = Append(p, c)
    BY <2>1, PieceGrows
  <2> HIDE DEF p, c
  <2>5. /\ LinesOf(p) \in Seq(Seq(Bytes))
        /\ \/ LinesOf(Append(p, c)) = LinesOf(p)
           \/ LinesOf(Append(p, c)) = Append(LinesOf(p), LineOf(OpenPart(p)))
    BY <2>3, LinesOneMore
  <2>6. LineOf(OpenPart(p)) \in Seq(Bytes)
    BY <2>3, LineEndsAreIndices, LineType
  <2>7. Lines(j) = LinesOf(p) /\ Lines(k) = LinesOf(Append(p, c))
    BY <2>4 DEF p
  <2>8. Len(Lines(n)) \in Nat
    BY <1>2, <1>3
  <2> DEFINE last == LineOf(OpenPart(p))
  <2> HIDE DEF Lines, last
  <2>9. Extends(k)
    <3>1. CASE Lines(k) = Lines(j)
      BY <2>2, <3>1 DEF Extends
    <3>2. CASE Lines(k) = Append(Lines(j), last)
      <4>1. Lines(j) \in Seq(Seq(Bytes)) /\ last \in Seq(Bytes)
        BY <2>5, <2>6, <2>7 DEF last
      <4>2. /\ Lines(k) \in Seq(Seq(Bytes)) /\ Len(Lines(k)) = Len(Lines(j)) + 1
            /\ \A i \in 1..Len(Lines(j)) : Lines(k)[i] = Lines(j)[i]
            /\ Len(Lines(j)) \in Nat
        BY <3>2, <4>1, AppendProperties
      <4> QED
        BY <2>2, <2>8, <4>2 DEF Extends
    <3> QED
      BY <2>5, <2>7, <3>1, <3>2 DEF last
  <2> QED
    BY <2>9 DEF k
<1>6. T = Nat
  <2>1. T \in SUBSET Nat
    OBVIOUS
  <2> HIDE DEF T
  <2> QED
    BY <1>4, <1>5, <2>1, SetInduction
<1>7. Extends(Len(s))
  <2> DEFINE d == Len(s) - n
  <2>1. d \in T /\ n + d = Len(s)
    <3>1. d \in Nat /\ n + d = Len(s)
      BY <1>1
    <3> HIDE DEF T
    <3> QED
      BY <1>6, <3>1
  <2> HIDE DEF d, Extends
  <2> QED
    BY <1>1, <2>1
<1>8. SubSeq(s, 1, Len(s)) = s
  BY SubSeqFull
<1>9. LinesOf(SubSeq(s, 1, n)) \in Seq(Seq(Bytes))
  BY <1>2, <1>3
<1> QED
  BY <1>7, <1>8, <1>9

-----------------------------------------------------------------------------
(* The arrays of the capture.                                               *)

Text == Letters \cup {Blank}

\* What CommitLine() leaves.
LEMMA CommitLineType ==
    ASSUME CaptureTypeOK
    PROVE  /\ CommitLine(capture) \in [ready: BOOLEAN, buffer: Seq(Text), line: Seq(Text)]
           /\ CommitLine(capture).buffer = <<>>
           /\ CommitLine(capture).ready =
                  (IF Trimmed(capture.buffer) = <<>> THEN capture.ready ELSE TRUE)
           /\ CommitLine(capture).line =
                  IF Trimmed(capture.buffer) = <<>> THEN capture.line ELSE Trimmed(capture.buffer)
           /\ Len(Trimmed(capture.buffer)) <= LineCapacity
<1> DEFINE text == Trimmed(capture.buffer)
<1>1. /\ capture.buffer \in Seq(Text) /\ Len(capture.buffer) <= LineCapacity
      /\ capture \in [ready: BOOLEAN, buffer: Seq(Text), line: Seq(Text)]
  BY DEF CaptureTypeOK, Text
<1>2. text = WithoutBlanksAround(capture.buffer)
  BY DEF Trimmed, WithoutBlanksAround
<1>3. text \in Seq(Text) /\ Len(text) <= Len(capture.buffer)
  <2> HIDE DEF text
  <2> QED
    BY <1>1, <1>2, TrimType
<1>4. Len(text) <= LineCapacity
  <2> HIDE DEF text
  <2>1. Len(text) \in Nat /\ Len(capture.buffer) \in Nat /\ LineCapacity \in Nat
    BY <1>1, <1>3, LineQueueAssumption
  <2> QED
    BY <1>1, <1>3, <2>1
<1>5. <<>> \in Seq(Text)
  BY EmptySeq
<1> HIDE DEF text
<1>6. CommitLine(capture) = IF text = <<>> THEN [capture EXCEPT !.buffer = <<>>]
                            ELSE [ready |-> TRUE, buffer |-> <<>>, line |-> text]
  BY DEF CommitLine, text
<1>7. /\ CommitLine(capture) \in [ready: BOOLEAN, buffer: Seq(Text), line: Seq(Text)]
      /\ CommitLine(capture).buffer = <<>>
      /\ CommitLine(capture).ready = IF text = <<>> THEN capture.ready ELSE TRUE
      /\ CommitLine(capture).line = IF text = <<>> THEN capture.line ELSE text
  <2>1. CASE text = <<>>
    BY <1>1, <1>5, <1>6, <2>1
  <2>2. CASE text # <<>>
    BY <1>3, <1>5, <1>6, <2>2
  <2> QED
    BY <2>1, <2>2
<1> QED
  BY <1>4, <1>7 DEF text

\* What Store() leaves.
LEMMA StoreType ==
    ASSUME CaptureTypeOK, NEW c \in Text
    PROVE  /\ Store(capture, c) \in [ready: BOOLEAN, buffer: Seq(Text), line: Seq(Text)]
           /\ Len(Store(capture, c).buffer) <= LineCapacity
           /\ Store(capture, c).ready = capture.ready
           /\ Store(capture, c).line = capture.line
           /\ Store(capture, c).buffer =
                  IF Len(capture.buffer) < LineCapacity THEN Append(capture.buffer, c)
                  ELSE capture.buffer
<1> DEFINE longer == Append(capture.buffer, c)
<1>1. /\ capture.buffer \in Seq(Text) /\ Len(capture.buffer) <= LineCapacity
      /\ capture \in [ready: BOOLEAN, buffer: Seq(Text), line: Seq(Text)]
  BY DEF CaptureTypeOK, Text
<1>2. longer \in Seq(Text) /\ Len(longer) = Len(capture.buffer) + 1
  BY <1>1, AppendProperties
<1>3. Len(capture.buffer) \in Nat /\ LineCapacity \in Nat
  BY <1>1, LineQueueAssumption
<1> HIDE DEF longer
<1>4. Store(capture, c) = IF Len(capture.buffer) < LineCapacity
                          THEN [capture EXCEPT !.buffer = longer] ELSE capture
  BY DEF Store, longer
<1>5. CASE Len(capture.buffer) < LineCapacity
  <2>1. Store(capture, c) = [capture EXCEPT !.buffer = longer]
    BY <1>4, <1>5
  <2>2. /\ Store(capture, c) \in [ready: BOOLEAN, buffer: Seq(Text), line: Seq(Text)]
        /\ Store(capture, c).buffer = longer
        /\ Store(capture, c).ready = capture.ready
        /\ Store(capture, c).line = capture.line
    BY <1>1, <1>2, <2>1
  <2>3. Len(longer) <= LineCapacity
    BY <1>2, <1>3, <1>5
  <2> QED
    BY <1>5, <2>2, <2>3 DEF longer
<1>6. CASE ~ (Len(capture.buffer) < LineCapacity)
  BY <1>1, <1>4, <1>6
<1> QED
  BY <1>5, <1>6

\* The stream before the byte is appended is still there after.
LEMMA ReadPart ==
    ASSUME CaptureTypeOK
    PROVE  /\ sent \in Seq(Bytes) /\ Len(sent) \in Nat
           /\ input \in Nat /\ input <= Len(sent)
           /\ SubSeq(sent, 1, input) \in Seq(Bytes)
<1>1. sent \in Seq(Bytes) /\ Len(sent) \in Nat /\ input \in Nat /\ input <= Len(sent)
  BY DEF CaptureTypeOK
<1>2. 1 \in Nat /\ 1 # 0 /\ input \in Int
  BY <1>1
<1> QED
  BY <1>1, <1>2, PieceType

\* CaptureTypeOK of the initial state.
LEMMA CaptureInitType == CaptureInit => CaptureTypeOK
<1> SUFFICES ASSUME CaptureInit PROVE CaptureTypeOK
  OBVIOUS
<1>1. <<>> \in Seq(Bytes) /\ <<>> \in Seq(Text) /\ Len(<<>>) = 0 /\ LineCapacity \in Nat
  BY EmptySeq, LineQueueAssumption
<1> QED
  BY <1>1 DEF CaptureInit, LineQueueInit, EmptyCapture, CaptureTypeOK, Text

\* Every step of the stream and of its reader keeps the types.
LEMMA CaptureStepType ==
    ASSUME CaptureTypeOK, [CaptureNext]_captureVars
    PROVE  CaptureTypeOK'
<1> USE DEF Text
<1>1. CASE ByteArrives
  <2>1. PICK c \in Bytes : sent' = Append(sent, c)
    BY <1>1 DEF ByteArrives, Send
  <2>2. sent' \in Seq(Bytes) /\ Len(sent') = Len(sent) + 1
    BY <2>1, ReadPart, AppendProperties
  <2>3. input' \in 0..Len(sent')
    BY <1>1, <2>2, ReadPart DEF ByteArrives
  <2> QED
    BY <1>1, <2>2, <2>3 DEF ByteArrives, CaptureTypeOK
<1>2. CASE BeginPoll
  BY <1>2 DEF BeginPoll, CaptureTypeOK
<1>3. CASE ReadByte
  <2>1. input' = input + 1 /\ sent' = sent /\ input' \in 0..Len(sent')
    BY <1>3, ReadPart DEF ReadByte, Available
  <2>2. caller' \in {"idle", "reading", "polled"}
    BY <1>3 DEF ReadByte, AfterByte
  <2>3. /\ capture' \in [ready: BOOLEAN, buffer: Seq(Text), line: Seq(Text)]
        /\ Len(capture'.buffer) <= LineCapacity
        /\ Len(capture'.line) <= LineCapacity
        /\ capture'.ready => capture'.line # <<>>
    <3>1. CASE capture' = CommitLine(capture)
      <4>1. Len(<<>>) = 0 /\ LineCapacity \in Nat
        BY LineQueueAssumption
      <4>2. CASE Trimmed(capture.buffer) = <<>>
        <5>1. /\ capture'.buffer = <<>> /\ capture'.line = capture.line
              /\ capture'.ready = capture.ready
          BY <3>1, <4>2, CommitLineType
        <5>2. capture' \in [ready: BOOLEAN, buffer: Seq(Text), line: Seq(Text)]
          BY <3>1, CommitLineType
        <5>3. Len(capture'.buffer) <= LineCapacity
          BY <4>1, <5>1
        <5>4. Len(capture'.line) <= LineCapacity /\ (capture'.ready => capture'.line # <<>>)
          BY <5>1 DEF CaptureTypeOK
        <5> QED
          BY <5>2, <5>3, <5>4
      <4>3. CASE Trimmed(capture.buffer) # <<>>
        <5>1. capture'.buffer = <<>> /\ capture'.line = Trimmed(capture.buffer)
          BY <3>1, <4>3, CommitLineType
        <5> QED
          BY <3>1, <4>1, <4>3, <5>1, CommitLineType
      <4> QED
        BY <4>2, <4>3
    <3>2. CASE capture' = capture
      BY <3>2 DEF CaptureTypeOK
    <3>3. CASE \E c \in Text : capture' = Store(capture, c)
      <4>1. PICK c \in Text : capture' = Store(capture, c)
        BY <3>3
      <4>2. capture'.line = capture.line /\ capture'.ready = capture.ready
        BY <4>1, StoreType
      <4> QED
        BY <4>1, <4>2, StoreType DEF CaptureTypeOK
    <3> QED
      BY <1>3, <3>1, <3>2, <3>3 DEF ReadByte
  <2> QED
    BY <2>1, <2>2, <2>3 DEF CaptureTypeOK
<1>4. CASE StreamIsEmpty
  BY <1>4 DEF StreamIsEmpty, CaptureTypeOK
<1>5. CASE GetLine
  BY <1>5 DEF GetLine, CaptureTypeOK
<1>6. CASE UNCHANGED captureVars
  BY <1>6 DEF captureVars, CaptureTypeOK
<1> QED
  BY <1>1, <1>2, <1>3, <1>4, <1>5, <1>6 DEF CaptureNext, Poll

\* RawSerialCapture.h never writes past the end of _buffer or _line, however long
\* a line is, and what it calls a line has text in it.
THEOREM CaptureTypeCorrect == CaptureSpec => []CaptureTypeOK
<1>1. CaptureInit => CaptureTypeOK
  BY CaptureInitType
<1>2. CaptureTypeOK /\ [CaptureNext]_captureVars => CaptureTypeOK'
  BY CaptureStepType
<1> QED
  BY <1>1, <1>2, PTL DEF CaptureSpec

-----------------------------------------------------------------------------
(* The queue of lines.                                                      *)

Read == SubSeq(sent, 1, input)

\* The buffer holds what has been read of the line that is not ended, as far as
\* it fits.
BufferIsTheOpenLine == capture.buffer = Cut(Without(OpenPart(Read), Junk))

\* The lines of what has been read are delivered, but for the one that is ready,
\* and while one is ready nothing is read.
LinesAreTaken ==
    /\ delivered \in Seq(Seq(Bytes))
    /\ caller \in {"idle", "reading"} => ~capture.ready
    /\ LinesOf(Read) = IF capture.ready THEN Append(delivered, capture.line) ELSE delivered

CaptureInvariant == CaptureTypeOK /\ BufferIsTheOpenLine /\ LinesAreTaken

\* Nothing has been sent, read or delivered.
LEMMA CaptureInitInvariant == CaptureInit => CaptureInvariant
<1> SUFFICES ASSUME CaptureInit PROVE CaptureInvariant
  OBVIOUS
<1>1. CaptureTypeOK
  BY CaptureInitType
<1>2. sent = <<>> /\ input = 0 /\ delivered = <<>> /\ capture = EmptyCapture /\ caller = "idle"
  BY DEF CaptureInit, LineQueueInit
<1>3. Read = <<>>
  BY <1>2, SubSeqEmpty DEF Read
<1>4. <<>> \in Seq(Bytes) /\ <<>> \in Seq(Seq(Bytes)) /\ Len(<<>>) = 0 /\ DOMAIN <<>> = {}
  BY EmptySeq
<1>5. LineEnds(<<>>) = {}
  BY <1>4 DEF LineEnds
<1>6. OpenPart(<<>>) = <<>>
  BY <1>4, <1>5, SubSeqEmpty DEF OpenPart, OpenStart
<1>7. Cut(Without(<<>>, Junk)) = <<>>
  BY NothingLeft
<1>8. LinesOf(<<>>) = <<>>
  <2>1. LineEndingAt(<<>>) = <<>>
    BY <1>4 DEF LineEndingAt
  <2> QED
    BY <2>1, WithoutNothing DEF LinesOf
<1>9. BufferIsTheOpenLine
  BY <1>2, <1>3, <1>6, <1>7 DEF BufferIsTheOpenLine, EmptyCapture
<1>10. LinesAreTaken
  BY <1>2, <1>3, <1>4, <1>8 DEF LinesAreTaken, EmptyCapture
<1> QED
  BY <1>1, <1>9, <1>10 DEF CaptureInvariant

\* A byte that has been read.
LEMMA ReadByteInvariant ==
    ASSUME CaptureInvariant, ReadByte
    PROVE  BufferIsTheOpenLine' /\ LinesAreTaken'
<1> DEFINE p == Read
           c == sent[input + 1]
           open == OpenPart(Read)
           text == Without(open, Junk)
           line == LineOf(open)
<1>0. CaptureTypeOK /\ BufferIsTheOpenLine /\ LinesAreTaken
  BY DEF CaptureInvariant
<1>1. /\ sent \in Seq(Bytes) /\ Len(sent) \in Nat /\ input \in Nat
      /\ p \in Seq(Bytes) /\ input + 1 <= Len(sent) /\ input + 1 \in Nat /\ c \in Bytes
  BY <1>0, ReadPart DEF ReadByte, Available, Read
<1>2. ~capture.ready /\ LinesOf(p) = delivered
  BY <1>0 DEF LinesAreTaken, ReadByte
<1>3. sent' = sent /\ input' = input + 1 /\ delivered' = delivered
  BY DEF ReadByte
<1>4. Read' = Append(p, c)
  <2> DEFINE k == input + 1
  <2>1. k \in Nat /\ k = input + 1 /\ 1 <= k /\ k <= Len(sent)
    BY <1>1
  <2>2. Read' = SubSeq(sent, 1, k)
    BY <1>3 DEF Read
  <2> HIDE DEF k
  <2>3. SubSeq(sent, 1, k) = Append(SubSeq(sent, 1, input), sent[k])
    BY <1>1, <2>1, PieceGrows
  <2> QED
    BY <2>2, <2>3 DEF k, Read
<1>5. OpenPart(Read') = IF c = LineEnd THEN <<>> ELSE Append(open, c)
  <2> HIDE DEF p, c
  <2>1. OpenPart(Append(p, c)) = IF c = LineEnd THEN <<>> ELSE Append(OpenPart(p), c)
    BY <1>1, OpenPartOneMore
  <2> QED
    BY <1>4, <2>1 DEF p
<1>6. LinesOf(Read') = IF c = LineEnd /\ line # <<>> THEN Append(delivered, line) ELSE delivered
  <2> HIDE DEF p, c
  <2>1. LinesOf(Append(p, c)) = IF c = LineEnd /\ LineOf(OpenPart(p)) # <<>>
                                THEN Append(LinesOf(p), LineOf(OpenPart(p)))
                                ELSE LinesOf(p)
    BY <1>1, LinesOneMore
  <2> QED
    BY <1>2, <1>4, <2>1 DEF p
<1>7. open \in Seq(Bytes) /\ text \in Seq(Bytes)
  <2>1. open \in Seq(Bytes)
    BY <1>1, LineEndsAreIndices
  <2> HIDE DEF open
  <2> QED
    BY <2>1, WithoutIsFilter
<1>8. capture.buffer = Cut(text) /\ Trimmed(capture.buffer) = line
  BY <1>0 DEF BufferIsTheOpenLine, Trimmed, LineOf, WithoutBlanksAround
<1>9. /\ LineEnd # Junk /\ LineEnd \notin Text /\ Junk \notin Text
  BY LineQueueAssumption DEF Text
<1>10. delivered' \in Seq(Seq(Bytes))
  BY <1>0, <1>3 DEF LinesAreTaken
<1> HIDE DEF p, c, open, text, line
<1>11. CASE c = LineEnd
  <2>1. capture' = CommitLine(capture)
    BY <1>9, <1>11 DEF ReadByte, Text, c
  <2>2. /\ capture'.buffer = <<>>
        /\ capture'.ready = (line # <<>>)
        /\ line # <<>> => capture'.line = line
    BY <1>0, <1>2, <1>8, <2>1, CommitLineType
  <2>3. BufferIsTheOpenLine'
    <3>1. Cut(Without(<<>>, Junk)) = <<>>
      BY NothingLeft
    <3>2. OpenPart(Read') = <<>>
      BY <1>5, <1>11
    <3> QED
      BY <2>2, <3>1, <3>2 DEF BufferIsTheOpenLine
  <2>4. caller' \in {"idle", "reading"} => ~capture'.ready
    BY DEF ReadByte, AfterByte
  <2>5. LinesOf(Read') = IF capture'.ready THEN Append(delivered', capture'.line) ELSE delivered'
    BY <1>3, <1>6, <1>11, <2>2
  <2> QED
    BY <1>10, <2>3, <2>4, <2>5 DEF LinesAreTaken
<1>12. CASE c = Junk
  <2>1. capture' = capture
    BY <1>9, <1>12 DEF ReadByte, Text, c
  <2>2. Without(Append(open, c), Junk) = text
    BY <1>1, <1>7, <1>12, WithoutOneMore DEF text
  <2>3. OpenPart(Read') = Append(open, c)
    BY <1>5, <1>9, <1>12
  <2>4. BufferIsTheOpenLine'
    BY <1>8, <2>1, <2>2, <2>3 DEF BufferIsTheOpenLine
  <2>5. LinesOf(Read') = delivered'
    BY <1>3, <1>6, <1>9, <1>12
  <2> QED
    BY <1>2, <1>10, <2>1, <2>4, <2>5 DEF LinesAreTaken
<1>13. CASE c \in Text
  <2>1. capture' = Store(capture, c)
    BY <1>9, <1>13 DEF ReadByte, Text, c
  <2>2. /\ capture'.ready = capture.ready
        /\ capture'.buffer = IF Len(capture.buffer) < LineCapacity
                             THEN Append(capture.buffer, c) ELSE capture.buffer
    BY <1>0, <1>13, <2>1, StoreType
  <2>3. Without(Append(open, c), Junk) = Append(text, c)
    <3>1. c # Junk
      BY <1>9, <1>13
    <3> QED
      BY <1>1, <1>7, <3>1, WithoutOneMore DEF text
  <2>4. Cut(Append(text, c)) = IF Len(Cut(text)) < LineCapacity THEN Append(Cut(text), c)
                               ELSE Cut(text)
    BY <1>1, <1>7, CutOneMore
  <2>5. OpenPart(Read') = Append(open, c)
    BY <1>5, <1>9, <1>13
  <2>6. BufferIsTheOpenLine'
    BY <1>8, <2>2, <2>3, <2>4, <2>5 DEF BufferIsTheOpenLine
  <2>7. LinesOf(Read') = delivered'
    BY <1>3, <1>6, <1>9, <1>13
  <2> QED
    BY <1>2, <1>10, <2>2, <2>6, <2>7 DEF LinesAreTaken
<1>14. c \in Text \/ c = LineEnd \/ c = Junk
  BY <1>1 DEF Bytes, Text
<1> QED
  BY <1>11, <1>12, <1>13, <1>14

\* A line that is taken was ready.
LEMMA GetLineInvariant ==
    ASSUME CaptureInvariant, GetLine
    PROVE  BufferIsTheOpenLine' /\ LinesAreTaken'
<1>0. CaptureTypeOK /\ BufferIsTheOpenLine /\ LinesAreTaken
  BY DEF CaptureInvariant
<1>1. Read' = Read
  BY DEF GetLine, Read
<1>2. LinesOf(Read) \in Seq(Seq(Bytes))
  <2>1. Read \in Seq(Bytes) /\ LineEnd \in Bytes
    BY <1>0, ReadPart DEF Read, Bytes
  <2> QED
    BY <2>1, LinesOneMore
<1>3. CASE capture.ready
  <2>1. delivered' = Append(delivered, capture.line) /\ capture' = [capture EXCEPT !.ready = FALSE]
    BY <1>3 DEF GetLine
  <2>2. capture'.ready = FALSE /\ capture'.buffer = capture.buffer
    BY <1>0, <2>1 DEF CaptureTypeOK
  <2>3. LinesOf(Read') = delivered'
    BY <1>0, <1>1, <1>3, <2>1 DEF LinesAreTaken
  <2> QED
    BY <1>0, <1>1, <1>2, <2>2, <2>3 DEF LinesAreTaken, BufferIsTheOpenLine
<1>4. CASE ~capture.ready
  <2>1. delivered' = delivered /\ capture' = capture
    BY <1>4 DEF GetLine
  <2> QED
    BY <1>0, <1>1, <1>4, <2>1 DEF LinesAreTaken, BufferIsTheOpenLine
<1> QED
  BY <1>3, <1>4

\* Bytes that arrive while poll() reads change nothing of what it has read.
LEMMA CaptureStepInvariant ==
    ASSUME CaptureInvariant, [CaptureNext]_captureVars
    PROVE  CaptureInvariant'
<1>0. CaptureTypeOK /\ BufferIsTheOpenLine /\ LinesAreTaken
  BY DEF CaptureInvariant
<1>1. CaptureTypeOK'
  BY <1>0, CaptureStepType
<1>2. BufferIsTheOpenLine' /\ LinesAreTaken'
  <2>1. CASE ByteArrives
    <3>1. PICK c \in Bytes : sent' = Append(sent, c)
      BY <2>1 DEF ByteArrives, Send
    <3>2. SubSeq(Append(sent, c), 1, input) = SubSeq(sent, 1, input)
      BY <1>0, ReadPart, PieceOfLonger
    <3>3. Read' = Read /\ capture' = capture /\ delivered' = delivered /\ caller' = caller
      BY <2>1, <3>1, <3>2 DEF ByteArrives, Send, Read
    <3> QED
      BY <1>0, <3>3 DEF BufferIsTheOpenLine, LinesAreTaken
  <2>2. CASE BeginPoll
    <3>1. /\ Read' = Read /\ capture' = capture /\ delivered' = delivered
          /\ ~capture.ready
      BY <1>0, <2>2 DEF BeginPoll, Read, LinesAreTaken
    <3> QED
      BY <1>0, <3>1 DEF BufferIsTheOpenLine, LinesAreTaken
  <2>3. CASE ReadByte
    BY <2>3, ReadByteInvariant
  <2>4. CASE StreamIsEmpty
    <3>1. /\ Read' = Read /\ capture' = capture /\ delivered' = delivered
          /\ ~capture.ready
      BY <1>0, <2>4 DEF StreamIsEmpty, Read, LinesAreTaken
    <3> QED
      BY <1>0, <3>1 DEF BufferIsTheOpenLine, LinesAreTaken
  <2>5. CASE GetLine
    BY <2>5, GetLineInvariant
  <2>6. CASE UNCHANGED captureVars
    <3>1. Read' = Read /\ capture' = capture /\ delivered' = delivered /\ caller' = caller
      BY <2>6 DEF captureVars, Read
    <3> QED
      BY <1>0, <3>1 DEF BufferIsTheOpenLine, LinesAreTaken
  <2> QED
    BY <2>1, <2>2, <2>3, <2>4, <2>5, <2>6 DEF CaptureNext, Poll
<1> QED
  BY <1>1, <1>2 DEF CaptureInvariant

\* A step of the capture is a step of the queue, or none.
LEMMA CaptureStepIsAQueueStep ==
    ASSUME CaptureInvariant, [CaptureNext]_captureVars
    PROVE  [Send \/ Deliver]_<<sent, delivered>>
<1>0. CaptureTypeOK /\ LinesAreTaken
  BY DEF CaptureInvariant
<1>1. CASE ByteArrives
  BY <1>1 DEF ByteArrives
<1>2. CASE GetLine /\ capture.ready
  <2> DEFINE early == LinesOf(Read)
             all == LinesOf(sent)
  <2>1. delivered' = Append(delivered, capture.line) /\ sent' = sent
    BY <1>2 DEF GetLine
  <2>2. early = Append(delivered, capture.line) /\ delivered \in Seq(Seq(Bytes))
    BY <1>0, <1>2 DEF LinesAreTaken
  <2>3. /\ early \in Seq(Seq(Bytes)) /\ all \in Seq(Seq(Bytes))
        /\ Len(early) <= Len(all)
        /\ \A i \in 1..Len(early) : early[i] = all[i]
    <3>1. sent \in Seq(Bytes) /\ input \in 0..Len(sent)
      BY <1>0, ReadPart
    <3> QED
      BY <3>1, LinesOfPrefix DEF Read
  <2> HIDE DEF early, all
  <2>4. capture.line \in Seq(Bytes)
    BY <1>0, SeqMonotonic DEF CaptureTypeOK, Bytes
  <2>5. Len(early) = Len(delivered) + 1 /\ early[Len(delivered) + 1] = capture.line
    BY <2>2, <2>4, AppendProperties
  <2>6. Len(delivered) < Len(all) /\ all[Len(delivered) + 1] = capture.line
    <3>1. Len(delivered) \in Nat /\ Len(all) \in Nat
      BY <2>2, <2>3
    <3>2. Len(delivered) + 1 \in 1..Len(early)
      BY <2>5, <3>1
    <3> QED
      BY <2>3, <2>5, <3>1, <3>2
  <2>7. Deliver
    BY <2>1, <2>6 DEF Deliver, all
  <2> QED
    BY <2>7
<1>3. CASE UNCHANGED <<sent, delivered>>
  BY <1>3
<1> QED
  BY <1>1, <1>2, <1>3
     DEF CaptureNext, Poll, BeginPoll, ReadByte, StreamIsEmpty, GetLine, captureVars

\* What the adapters rely on, its safety half: poll(), hasLine() and getLine()
\* deliver the lines of the stream, each once, in their order, whole up to what
\* the buffer holds and without blanks around them.  It holds for every
\* alphabet, buffer size and length of the stream, and whenever its bytes come.
THEOREM CaptureImplementsQueue == CaptureSpec => LineQueueSafety
<1>1. CaptureInit => CaptureInvariant
  BY CaptureInitInvariant
<1>2. CaptureInvariant /\ [CaptureNext]_captureVars => CaptureInvariant'
  BY CaptureStepInvariant
<1>3. CaptureInvariant /\ [CaptureNext]_captureVars => [Send \/ Deliver]_<<sent, delivered>>
  BY CaptureStepIsAQueueStep
<1>4. CaptureInit => LineQueueInit
  BY DEF CaptureInit
<1> QED
  BY <1>1, <1>2, <1>3, <1>4, PTL DEF CaptureSpec, LineQueueSafety
=============================================================================

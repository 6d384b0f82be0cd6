------------------------- MODULE AlertPipeline_proofs -------------------------
(***************************************************************************)
(* Theorems about the way of an alert from the detector to the radio, for  *)
(* every line a detector may write, every storage and every moment.        *)
(***************************************************************************)
EXTENDS AlertPipeline, Indices, FiniteSetTheorems

-----------------------------------------------------------------------------
(* Total() of a sequence of numbers.                                        *)

\* What the recursive function of Total() is.
IsTotal(f, s) ==
    f = [n \in 0..Len(s) |-> IF n = 0 THEN 0 ELSE f[n - 1] + s[n]]

\* There is such a function, and its values are numbers.
LEMMA TotalExists ==
    ASSUME NEW s \in Seq(Nat)
    PROVE  \E f : IsTotal(f, s) /\ f \in [0..Len(s) -> Nat]
<1> DEFINE Totals(n) ==
             {g \in [0..n -> Nat] : g[0] = 0 /\ \A i \in 1..n : g[i] = g[i - 1] + s[i]}
           T == {k \in Nat : k <= Len(s) => Totals(k) # {}}
<1>0. Len(s) \in Nat /\ \A i \in 1..Len(s) : s[i] \in Nat
  OBVIOUS
<1>1. 0 \in T
  <2> DEFINE g == [i \in {0} |-> 0]
  <2>1. 0..0 = {0} /\ 1..0 = {}
    OBVIOUS
  <2>2. g \in [0..0 -> Nat] /\ g[0] = 0
    BY <2>1
  <2> HIDE DEF g
  <2>3. g \in Totals(0)
    BY <2>1, <2>2
  <2> QED
    BY <2>3
<1>2. ASSUME NEW n \in T PROVE n + 1 \in T
  <2>0. n \in Nat /\ n + 1 \in Nat
    BY SMT
  <2> HIDE DEF Totals
  <2> SUFFICES ASSUME n + 1 <= Len(s) PROVE Totals(n + 1) # {}
    BY <2>0
  <2> USE DEF Totals
  <2>1. n \in Nat /\ n <= Len(s)
    BY <1>0
  <2>2. PICK g : g \in Totals(n)
    BY <2>1
  <2> DEFINE next == g[n] + s[n + 1]
             h == [i \in 0..(n + 1) |-> IF i <= n THEN g[i] ELSE next]
  <2>3. g[n] \in Nat /\ s[n + 1] \in Nat
    BY <1>0, <2>1, <2>2
  <2>4. next \in Nat
    BY <2>3
  <2>5. h \in [0..(n + 1) -> Nat] /\ h[0] = 0
    BY <2>1, <2>2, <2>4
  <2>6. ASSUME NEW i \in 1..(n + 1)
        PROVE  h[i] = h[i - 1] + s[i]
    <3>1. h[i - 1] = g[i - 1]
      BY <2>1
    <3>2. CASE i <= n
      <4>1. i \in 1..n /\ h[i] = g[i]
        BY <2>1, <3>2
      <4>2. g[i] = g[i - 1] + s[i]
        BY <2>2, <4>1
      <4> QED
        BY <3>1, <4>1, <4>2
    <3>3. CASE i = n + 1
      <4>1. h[i] = next
        BY <2>1, <3>3
      <4> QED
        BY <2>1, <3>1, <3>3, <4>1
    <3> QED
      BY <2>1, <3>2, <3>3
  <2> QED
    BY <2>5, <2>6
<1>3. Len(s) \in T
  <2>1. T = Nat
    <3> HIDE DEF T
    <3>1. T \in SUBSET Nat
      BY DEF T
    <3> QED
      BY <1>1, <1>2, <3>1, SetInduction
  <2> QED
    BY <1>0, <2>1
<1>4. PICK g : g \in Totals(Len(s))
  BY <1>0, <1>3
<1>5. IsTotal(g, s)
  <2> DEFINE body == [n \in 0..Len(s) |-> IF n = 0 THEN 0 ELSE g[n - 1] + s[n]]
  <2>1. ASSUME NEW n \in 0..Len(s) PROVE g[n] = body[n]
    <3>1. CASE n = 0
      BY <1>0, <1>4, <3>1
    <3>2. CASE n # 0
      <4>1. n \in 1..Len(s)
        BY <1>0, <3>2
      <4>2. g[n] = g[n - 1] + s[n]
        BY <1>4, <4>1
      <4> QED
        BY <3>2, <4>2
    <3> QED
      BY <3>1, <3>2
  <2>2. DOMAIN g = 0..Len(s) /\ g = [n \in 0..Len(s) |-> g[n]]
    BY <1>4
  <2>3. g = body
    BY <2>1, <2>2
  <2> QED
    BY <2>3 DEF IsTotal
<1> QED
  BY <1>4, <1>5

\* Its value at each place,
LEMMA TotalAt ==
    ASSUME NEW s, NEW f, IsTotal(f, s), NEW k \in 0..Len(s)
    PROVE  f[k] = IF k = 0 THEN 0 ELSE f[k - 1] + s[k]
BY Zenon DEF IsTotal

\* and after each number.
LEMMA TotalStep ==
    ASSUME NEW s, NEW f, IsTotal(f, s), Len(s) \in Nat,
           NEW n \in Nat, NEW k \in Nat, k = n + 1, k <= Len(s)
    PROVE  f[k] = f[n] + s[k]
<1>1. k \in 0..Len(s) /\ k # 0 /\ k - 1 = n
  OBVIOUS
<1>2. f[k] = IF k = 0 THEN 0 ELSE f[k - 1] + s[k]
  BY <1>1, TotalAt
<1> QED
  BY <1>1, <1>2

\* Two such functions agree as long as their sequences do.
LEMMA TotalsAgree ==
    ASSUME NEW s \in Seq(Nat), NEW t \in Seq(Nat), NEW f, NEW g, IsTotal(f, s), IsTotal(g, t),
           NEW m \in Nat, m <= Len(s), m <= Len(t), \A i \in 1..m : s[i] = t[i]
    PROVE  \A i \in 0..m : f[i] = g[i]
<1> DEFINE T == {n \in Nat : n <= m => f[n] = g[n]}
<1>0. Len(s) \in Nat /\ Len(t) \in Nat
  OBVIOUS
<1>1. 0 \in T
  BY <1>0 DEF IsTotal
<1>2. ASSUME NEW n \in T PROVE n + 1 \in T
  <2> SUFFICES ASSUME n + 1 <= m PROVE f[n + 1] = g[n + 1]
    OBVIOUS
  <2>1. n \in Nat /\ n + 1 \in 1..m /\ f[n] = g[n] /\ s[n + 1] = t[n + 1]
    OBVIOUS
  <2> DEFINE k == n + 1
  <2>2. k \in Nat /\ k = n + 1 /\ k <= Len(s) /\ k <= Len(t)
    BY <1>0, <2>1
  <2> HIDE DEF k
  <2>3. f[k] = f[n] + s[k]
    BY <1>0, <2>1, <2>2, TotalStep
  <2>4. g[k] = g[n] + t[k]
    BY <1>0, <2>1, <2>2, TotalStep
  <2> QED
    BY <2>1, <2>2, <2>3, <2>4
<1>3. T = Nat
  <2>1. T \in SUBSET Nat
    OBVIOUS
  <2> HIDE DEF T
  <2> QED
    BY <1>1, <1>2, <2>1, SetInduction
<1> QED
  BY <1>3

\* The function Total() chooses.
Totalled(s) == CHOOSE f : IsTotal(f, s)

LEMMA TotalIs ==
    ASSUME NEW s \in Seq(Nat)
    PROVE  /\ IsTotal(Totalled(s), s)
           /\ Total(s) = Totalled(s)[Len(s)]
           /\ Total(s) \in Nat
<1>1. PICK f : IsTotal(f, s) /\ f \in [0..Len(s) -> Nat]
  BY TotalExists
<1>2. IsTotal(Totalled(s), s)
  BY <1>1 DEF Totalled
<1>3. Total(s) = Totalled(s)[Len(s)]
  BY DEF Total, Totalled, IsTotal
<1>4. Len(s) \in Nat
  OBVIOUS
<1>5. Totalled(s)[Len(s)] = f[Len(s)]
  BY <1>1, <1>2, <1>4, TotalsAgree
<1> QED
  BY <1>1, <1>2, <1>3, <1>4, <1>5

\* The total of nothing.
LEMMA TotalOfNothing == Total(<<>>) = 0
<1>1. <<>> \in Seq(Nat) /\ Len(<<>>) = 0
  BY EmptySeq
<1>2. IsTotal(Totalled(<<>>), <<>>) /\ Total(<<>>) = Totalled(<<>>)[0]
  BY <1>1, TotalIs
<1>3. 0 \in 0..Len(<<>>)
  BY <1>1
<1> HIDE DEF Totalled
<1> QED
  BY <1>2, <1>3 DEF IsTotal

\* One number more.
LEMMA TotalOneMore ==
    ASSUME NEW s \in Seq(Nat), NEW c \in Nat
    PROVE  Total(Append(s, c)) = Total(s) + c
<1> DEFINE t == Append(s, c)
           n == Len(s)
           f == Totalled(s)
           g == Totalled(t)
           k == n + 1
<1>1. /\ t \in Seq(Nat) /\ n \in Nat /\ Len(t) = n + 1
      /\ \A i \in 1..n : s[i] = t[i]
      /\ t[n + 1] = c
  OBVIOUS
<1> HIDE DEF t
<1>2. IsTotal(f, s) /\ Total(s) = f[n]
  BY TotalIs
<1>3. IsTotal(g, t) /\ Total(t) = g[n + 1]
  BY <1>1, TotalIs
<1> HIDE DEF f, g
<1>4. f[n] = g[n]
  <2>1. /\ t \in Seq(Nat) /\ n \in Nat /\ n <= Len(s) /\ n <= Len(t)
        /\ \A i \in 1..n : s[i] = t[i]
        /\ IsTotal(f, s) /\ IsTotal(g, t)
    BY <1>1, <1>2, <1>3
  <2>2. \A i \in 0..n : f[i] = g[i]
    <3> HIDE DEF n, k
    <3> QED
      BY <2>1, TotalsAgree, SMTT(60)
  <2> QED
    BY <1>1, <2>2
<1>5. k \in Nat /\ k = n + 1 /\ k <= Len(t)
  BY <1>1
<1> HIDE DEF k
<1>6. g[k] = g[n] + t[k]
  <2>1. Len(t) \in Nat
    BY <1>1
  <2> HIDE DEF n
  <2> QED
    BY <1>1, <1>3, <1>5, <2>1, TotalStep
<1> QED
  BY <1>1, <1>2, <1>3, <1>4, <1>5, <1>6 DEF t

\* The total of one sequence and then another.
LEMMA TotalOfBoth ==
    ASSUME NEW s \in Seq(Nat), NEW t \in Seq(Nat)
    PROVE  Total(s \o t) = Total(s) + Total(t)
<1> DEFINE Upto(k) == SubSeq(t, 1, k)
           T == {k \in Nat : k <= Len(t) => Total(s \o Upto(k)) = Total(s) + Total(Upto(k))}
<1>0. Len(t) \in Nat
  OBVIOUS
<1>1. 0 \in T
  <2>1. Upto(0) = <<>>
    BY SubSeqEmpty
  <2>2. s \o <<>> = s
    BY ConcatEmptySeq
  <2>3. Total(s) \in Nat /\ Total(<<>>) = 0
    BY TotalIs, TotalOfNothing
  <2>4. Total(s \o Upto(0)) = Total(s) + Total(Upto(0))
    <3> HIDE DEF Upto
    <3>1. Total(s \o Upto(0)) = Total(s) /\ Total(Upto(0)) = 0
      BY <2>1, <2>2, <2>3
    <3> QED
      BY <2>3, <3>1
  <2> HIDE DEF Upto
  <2> QED
    BY <2>4
<1>2. ASSUME NEW n \in T PROVE n + 1 \in T
  <2>0. n \in Nat /\ n + 1 \in Nat
    BY SMT
  <2> DEFINE k == n + 1
  <2> SUFFICES ASSUME k <= Len(t) PROVE Total(s \o Upto(k)) = Total(s) + Total(Upto(k))
    BY <2>0
  <2>1. n \in Nat /\ k \in Nat /\ k = n + 1 /\ 1 <= k /\ n <= Len(t) /\ t[k] \in Nat
    BY <1>0, <2>0
  <2>2. Total(s \o Upto(n)) = Total(s) + Total(Upto(n))
    BY <2>1
  <2> DEFINE early == Upto(n)
             both == s \o early
             c == t[k]
  <2>3. early \in Seq(Nat)
    BY <2>1, PieceType
  <2> HIDE DEF k
  <2>4. Upto(k) = Append(early, c)
    BY <1>0, <2>1, PieceGrows
  <2> HIDE DEF Upto, T, early, c
  <2>5. both \in Seq(Nat)
    BY <2>3, ConcatProperties
  <2>6. s \o Append(early, c) = Append(both, c)
    <3>1. Append(early, c) = early \o <<c>> /\ Append(both, c) = both \o <<c>>
      BY <2>1, <2>3, <2>5, AppendIsConcat DEF c
    <3>2. <<c>> \in Seq(Nat)
      BY <2>1 DEF c
    <3>3. (s \o early) \o <<c>> = s \o (early \o <<c>>)
      <4> DEFINE last == <<c>>
      <4>1. last \in Seq(Nat)
        BY <3>2
      <4> HIDE DEF last, both
      <4>2. (s \o early) \o last = s \o (early \o last)
        BY <2>3, <4>1, ConcatAssociative
      <4> QED
        BY <4>2 DEF last
    <3> QED
      BY <3>1, <3>3
  <2> HIDE DEF both
  <2>7. Total(Append(both, c)) = Total(both) + c /\ Total(Append(early, c)) = Total(early) + c
    BY <2>1, <2>3, <2>5, TotalOneMore DEF c
  <2>8. Total(s) \in Nat /\ Total(early) \in Nat /\ c \in Nat
    BY <2>1, <2>3, TotalIs DEF c
  <2> QED
    BY <2>2, <2>4, <2>6, <2>7, <2>8 DEF early, both
<1>3. T = Nat
  <2>1. T \in SUBSET Nat
    OBVIOUS
  <2> HIDE DEF T
  <2> QED
    BY <1>1, <1>2, <2>1, SetInduction
<1>4. Upto(Len(t)) = t
  BY SubSeqFull
<1>5. Len(t) \in T
  BY <1>0, <1>3
<1>6. Total(s \o Upto(Len(t))) = Total(s) + Total(Upto(Len(t)))
  <2> HIDE DEF Upto
  <2> QED
    BY <1>0, <1>5
<1> QED
  BY <1>4, <1>6

-----------------------------------------------------------------------------
(* The bytes of a packet.                                                   *)

\* The bytes of each item of a packet are numbers.
LEMMA BytesOfItems ==
    ASSUME NEW S, \A x \in S : x.got \in Nat, NEW p \in Seq(S)
    PROVE  /\ [i \in DOMAIN p |-> p[i].got] \in Seq(Nat)
           /\ Len([i \in DOMAIN p |-> p[i].got]) = Len(p)
           /\ PacketBytes(p) \in Nat
<1> DEFINE g == [i \in DOMAIN p |-> p[i].got]
<1>1. Len(p) \in Nat /\ DOMAIN p = 1..Len(p) /\ \A i \in 1..Len(p) : p[i] \in S
  OBVIOUS
<1>2. g \in [1..Len(p) -> Nat]
  BY <1>1
<1>3. g \in Seq(Nat) /\ Len(g) = Len(p)
  BY <1>1, <1>2, FunctionIsSeq
<1>4. PacketBytes(p) = Total(g)
  BY DEF PacketBytes
<1> HIDE DEF g
<1>5. Total(g) \in Nat
  BY <1>3, TotalIs
<1> QED
  BY <1>3, <1>4, <1>5 DEF g

\* A packet and then another take the bytes of both.
LEMMA BytesOfBoth ==
    ASSUME NEW S, \A x \in S : x.got \in Nat, NEW p \in Seq(S), NEW q \in Seq(S)
    PROVE  PacketBytes(p \o q) = PacketBytes(p) + PacketBytes(q)
<1> DEFINE r == p \o q
           gp == [i \in DOMAIN p |-> p[i].got]
           gq == [i \in DOMAIN q |-> q[i].got]
           gr == [i \in DOMAIN r |-> r[i].got]
           both == gp \o gq
<1>1. /\ r \in Seq(S) /\ Len(r) = Len(p) + Len(q)
      /\ \A i \in 1..(Len(p) + Len(q)) : r[i] = IF i <= Len(p) THEN p[i] ELSE q[i - Len(p)]
  BY ConcatProperties
<1>2. /\ Len(p) \in Nat /\ Len(q) \in Nat
      /\ DOMAIN p = 1..Len(p) /\ DOMAIN q = 1..Len(q)
  OBVIOUS
<1> HIDE DEF r
<1>3. DOMAIN r = 1..(Len(p) + Len(q))
  BY <1>1
<1>4. gp \in Seq(Nat) /\ Len(gp) = Len(p) /\ gq \in Seq(Nat) /\ Len(gq) = Len(q)
  BY BytesOfItems
<1>5. gr \in Seq(Nat) /\ Len(gr) = Len(r)
  BY <1>1, BytesOfItems
<1>6. /\ \A i \in 1..Len(p) : gp[i] = p[i].got
      /\ \A i \in 1..Len(q) : gq[i] = q[i].got
      /\ \A i \in 1..(Len(p) + Len(q)) : gr[i] = r[i].got
  BY <1>2, <1>3
<1>7. PacketBytes(p) = Total(gp) /\ PacketBytes(q) = Total(gq) /\ PacketBytes(r) = Total(gr)
  BY DEF PacketBytes
<1> HIDE DEF gp, gq, gr
<1>8. /\ both \in Seq(Nat) /\ Len(both) = Len(p) + Len(q)
      /\ \A i \in 1..(Len(p) + Len(q)) : both[i] = IF i <= Len(p) THEN gp[i] ELSE gq[i - Len(p)]
  BY <1>4, ConcatProperties
<1>9. Total(both) = Total(gp) + Total(gq)
  BY <1>4, TotalOfBoth
<1> HIDE DEF both
<1>10. ASSUME NEW i \in 1..Len(gr) PROVE gr[i] = both[i]
  <2>1. i \in 1..(Len(p) + Len(q))
    BY <1>1, <1>5
  <2>2. CASE i <= Len(p)
    <3>1. i \in 1..Len(p)
      BY <1>2, <2>1, <2>2
    <3> QED
      BY <1>1, <1>6, <1>8, <2>1, <2>2, <3>1
  <2>3. CASE ~ (i <= Len(p))
    <3>1. i - Len(p) \in 1..Len(q)
      BY <1>2, <2>1, <2>3
    <3> QED
      BY <1>1, <1>6, <1>8, <2>1, <2>3, <3>1
  <2> QED
    BY <2>2, <2>3
<1>11. gr = both
  BY <1>1, <1>5, <1>8, <1>10, SeqEqual
<1> QED
  BY <1>7, <1>9, <1>11 DEF r

\* The bytes of one item.
LEMMA BytesOfOne == ASSUME NEW x, x.got \in Nat PROVE PacketBytes(<<x>>) = x.got
<1>1. [i \in DOMAIN <<x>> |-> <<x>>[i].got] = Append(<<>>, x.got)
  OBVIOUS
<1>2. Total(Append(<<>>, x.got)) = Total(<<>>) + x.got
  <2>1. <<>> \in Seq(Nat)
    BY EmptySeq
  <2> QED
    BY <2>1, TotalOneMore
<1> QED
  BY <1>1, <1>2, TotalOfNothing DEF PacketBytes

\* The bytes of no item.
LEMMA BytesOfNone == PacketBytes(<<>>) = 0
<1>1. [i \in DOMAIN <<>> |-> <<>>[i].got] = <<>>
  OBVIOUS
<1> QED
  BY <1>1, TotalOfNothing DEF PacketBytes

-----------------------------------------------------------------------------
(* The sizes of what the encoder writes.                                    *)

\* Items with one of these texts.
Majors == {"uint", "null", "text", "array", "map"}

ItemsWith(texts) == [major: Majors, arg: Nat, text: texts, got: Nat]

\* A part of a packet of at most n bytes.
Within(p, texts, n) == p \in Seq(ItemsWith(texts)) /\ PacketBytes(p) <= n

LEMMA BytesOfItem == ASSUME NEW texts PROVE \A x \in ItemsWith(texts) : x.got \in Nat
BY DEF ItemsWith

LEMMA WithinBoth ==
    ASSUME NEW texts, NEW p, NEW q, NEW m \in Nat, NEW n \in Nat, NEW k \in Nat, k = m + n,
           Within(p, texts, m), Within(q, texts, n)
    PROVE  Within(p \o q, texts, k)
<1> DEFINE S == ItemsWith(texts)
<1>1. p \in Seq(S) /\ q \in Seq(S) /\ PacketBytes(p) <= m /\ PacketBytes(q) <= n
  BY DEF Within
<1>2. \A x \in S : x.got \in Nat
  BY BytesOfItem
<1> HIDE DEF S
<1>3. PacketBytes(p) \in Nat /\ PacketBytes(q) \in Nat
  BY <1>1, <1>2, BytesOfItems
<1>4. PacketBytes(p \o q) = PacketBytes(p) + PacketBytes(q)
  BY <1>1, <1>2, BytesOfBoth
<1>5. p \o q \in Seq(S)
  BY <1>1, ConcatProperties
<1> QED
  BY <1>1, <1>3, <1>4, <1>5 DEF Within, S

LEMMA WithinOne ==
    ASSUME NEW texts, NEW x \in ItemsWith(texts), NEW n \in Nat, x.got <= n
    PROVE  Within(<<x>>, texts, n)
<1>1. x.got \in Nat
  BY BytesOfItem
<1>2. PacketBytes(<<x>>) = x.got
  BY <1>1, BytesOfOne
<1>3. <<x>> \in Seq(ItemsWith(texts))
  OBVIOUS
<1> QED
  BY <1>2, <1>3 DEF Within

LEMMA WithinNone == ASSUME NEW texts, NEW n \in Nat PROVE Within(<<>>, texts, n)
BY BytesOfNone, EmptySeq DEF Within

\* What an argument takes.
LEMMA ArgumentIs ==
    ASSUME NEW n \in Nat
    PROVE  /\ ArgumentBytes(n) \in 0..8
           /\ n < 24 => ArgumentBytes(n) = 0
           /\ n <= 255 => ArgumentBytes(n) <= 1
           /\ n <= 65535 => ArgumentBytes(n) <= 2
           /\ n < WordLimit => ArgumentBytes(n) <= 4
BY WordAssumption DEF ArgumentBytes

\* What an item takes.
LEMMA ItemIs ==
    ASSUME NEW texts, NEW major \in Majors, NEW n \in Nat, NEW text \in texts
    PROVE  /\ Item(major, n, text) \in ItemsWith(texts)
           /\ major = "null" => Item(major, n, text).got = 1
           /\ major = "text" => Item(major, n, text).got = (1 + ArgumentBytes(n)) + n
           /\ major # "null" /\ major # "text" =>
                 Item(major, n, text).got = 1 + ArgumentBytes(n)
<1> DEFINE bytes == (IF major = "null" THEN 1 ELSE 1 + ArgumentBytes(n))
                        + (IF major = "text" THEN n ELSE 0)
<1>1. ArgumentBytes(n) \in Nat /\ bytes \in Nat
  BY ArgumentIs
<1>2. Item(major, n, text) = [major |-> major, arg |-> n, text |-> text, got |-> bytes]
  BY DEF Item, ItemBytes, HeadBytes
<1>3. /\ major = "null" => bytes = 1
      /\ major = "text" => bytes = (1 + ArgumentBytes(n)) + n
      /\ major # "null" /\ major # "text" => bytes = 1 + ArgumentBytes(n)
  BY <1>1
<1> HIDE DEF bytes
<1>4. Item(major, n, text) \in ItemsWith(texts) /\ Item(major, n, text).got = bytes
  BY <1>1, <1>2 DEF ItemsWith
<1> QED
  BY <1>3, <1>4

\* A number as an item.
LEMMA UintIs ==
    ASSUME NEW texts, EmptyText \in texts, NEW n \in Nat
    PROVE  /\ Uint(n) \in ItemsWith(texts)
           /\ Uint(n).got = 1 + ArgumentBytes(n)
<1> DEFINE kind == "uint"
<1>1. kind \in Majors /\ kind # "null" /\ kind # "text"
  BY DEF Majors
<1> HIDE DEF kind
<1>2. /\ Item(kind, n, EmptyText) \in ItemsWith(texts)
      /\ Item(kind, n, EmptyText).got = 1 + ArgumentBytes(n)
  BY <1>1, ItemIs
<1> QED
  BY <1>2 DEF kind, Uint

LEMMA WithinUint ==
    ASSUME NEW texts, EmptyText \in texts, NEW n \in Nat
    PROVE  /\ n < WordLimit => Within(<<Uint(n)>>, texts, 5)
           /\ n <= 65535 => Within(<<Uint(n)>>, texts, 3)
           /\ n <= 255 => Within(<<Uint(n)>>, texts, 2)
           /\ n < 24 => Within(<<Uint(n)>>, texts, 1)
<1>1. Uint(n) \in ItemsWith(texts) /\ Uint(n).got = 1 + ArgumentBytes(n)
  BY UintIs
<1>2. /\ ArgumentBytes(n) \in 0..8
      /\ n < 24 => ArgumentBytes(n) = 0
      /\ n <= 255 => ArgumentBytes(n) <= 1
      /\ n <= 65535 => ArgumentBytes(n) <= 2
      /\ n < WordLimit => ArgumentBytes(n) <= 4
  BY ArgumentIs
<1>3. /\ n < WordLimit => Uint(n).got <= 5
      /\ n <= 65535 => Uint(n).got <= 3
      /\ n <= 255 => Uint(n).got <= 2
      /\ n < 24 => Uint(n).got <= 1
  BY <1>1, <1>2
<1> QED
  BY <1>1, <1>3, WithinOne

\* No value takes one byte.
LEMMA WithinNull ==
    ASSUME NEW texts, EmptyText \in texts
    PROVE  Within(<<Null>>, texts, 2)
<1> DEFINE kind == "null"
<1>1. kind \in Majors /\ kind = "null"
  BY DEF Majors
<1> HIDE DEF kind
<1>2. Item(kind, 0, EmptyText) \in ItemsWith(texts) /\ Item(kind, 0, EmptyText).got = 1
  BY <1>1, ItemIs
<1>3. Null \in ItemsWith(texts) /\ Null.got <= 2
  BY <1>2 DEF Null, kind
<1> QED
  BY <1>3, WithinOne

\* A text takes its bytes and one or two before them.
LEMMA WithinText ==
    ASSUME NEW texts, NEW text \in texts, NEW n \in Nat, NEW k \in Nat,
           text.length \in Nat, text.length <= n, n <= 255,
           k = IF n < 24 THEN n + 1 ELSE n + 2
    PROVE  Within(<<TextString(text)>>, texts, k)
<1>1. /\ TextString(text) \in ItemsWith(texts)
      /\ TextString(text).got = (1 + ArgumentBytes(text.length)) + text.length
  <2> DEFINE size == text.length
  <2>1. size \in Nat
    OBVIOUS
  <2> HIDE DEF size
  <2>2. /\ Item("text", size, text) \in ItemsWith(texts)
        /\ Item("text", size, text).got = (1 + ArgumentBytes(size)) + size
    <3> DEFINE kind == "text"
    <3>1. kind \in Majors /\ kind = "text"
      BY DEF Majors
    <3> HIDE DEF kind
    <3>2. /\ Item(kind, size, text) \in ItemsWith(texts)
          /\ Item(kind, size, text).got = (1 + ArgumentBytes(size)) + size
      BY <2>1, <3>1, ItemIs
    <3> QED
      BY <3>2 DEF kind
  <2> QED
    BY <2>2 DEF TextString, size
<1>2. /\ ArgumentBytes(text.length) \in 0..8
      /\ text.length < 24 => ArgumentBytes(text.length) = 0
      /\ text.length <= 255 => ArgumentBytes(text.length) <= 1
  BY ArgumentIs
<1>3. TextString(text).got <= k
  BY <1>1, <1>2
<1> QED
  BY <1>1, <1>3, WithinOne

\* A key takes one byte.
LEMMA WithinEntry ==
    ASSUME NEW texts, EmptyText \in texts, NEW key \in 0..23, NEW items,
           NEW n \in Nat, NEW k \in Nat, k = n + 1, Within(items, texts, n)
    PROVE  Within(Entry(key, items), texts, k)
<1>1. Within(<<Uint(key)>>, texts, 1)
  BY WithinUint
<1> QED
  BY <1>1, WithinBoth DEF Entry

LEMMA WithinOptional ==
    ASSUME NEW texts, EmptyText \in texts, NEW key \in 0..23, NEW field, NEW items,
           NEW n \in Nat, NEW k \in Nat, k = n + 1,
           field # Absent => Within(items, texts, n)
    PROVE  Within(Optional(key, field, items), texts, k)
<1>1. CASE field = Absent
  BY <1>1, WithinNone DEF Optional
<1>2. CASE field # Absent
  BY <1>2, WithinEntry DEF Optional
<1> QED
  BY <1>1, <1>2

\* The wire value of a name is its place in the table.
LEMMA WireValueIs ==
    ASSUME NEW S, NEW enum \in Seq(S), NEW name \in Names(enum)
    PROVE  /\ WireValue(enum, name) \in Nat
           /\ WireValue(enum, name) < Len(enum)
           /\ enum[WireValue(enum, name) + 1] = name
<1>1. \E i \in DOMAIN enum : enum[i] = name
  BY DEF Names
<1> DEFINE i == CHOOSE i \in DOMAIN enum : enum[i] = name
<1>2. i \in DOMAIN enum /\ enum[i] = name
  BY <1>1
<1>3. WireValue(enum, name) = i - 1
  BY DEF WireValue
<1> HIDE DEF i
<1> QED
  BY <1>2, <1>3

\* An enum takes one byte.
LEMMA WithinEnum ==
    ASSUME NEW texts, EmptyText \in texts, NEW S, NEW enum \in Seq(S), Len(enum) <= 24,
           NEW name \in Names(enum)
    PROVE  Within(<<Uint(WireValue(enum, name))>>, texts, 1)
<1> DEFINE n == WireValue(enum, name)
<1>1. n \in Nat /\ n < 24
  BY WireValueIs
<1> HIDE DEF n
<1>2. Within(<<Uint(n)>>, texts, 1)
  BY <1>1, WithinUint
<1> QED
  BY <1>2 DEF n

-----------------------------------------------------------------------------
(* The size of the packet of an alert.                                      *)

\* A key in front of what an entry holds takes one more byte.
LEMMA WithinEntries ==
    ASSUME NEW texts, EmptyText \in texts, NEW key \in 0..23, NEW items
    PROVE  /\ Within(items, texts, 1) => Within(Entry(key, items), texts, 2)
           /\ Within(items, texts, 2) => Within(Entry(key, items), texts, 3)
           /\ Within(items, texts, 5) => Within(Entry(key, items), texts, 6)
<1> DEFINE Longer(m, k) == Within(items, texts, m) => Within(Entry(key, items), texts, k)
<1>1. \A m, k \in Nat : k = m + 1 => Longer(m, k)
  BY WithinEntry
<1> HIDE DEF Longer
<1>2. Longer(1, 2) /\ Longer(2, 3) /\ Longer(5, 6)
  BY <1>1
<1> QED
  BY <1>2 DEF Longer

\* What the encoder always writes.
LEMMA WithinRequired ==
    ASSUME NEW texts, EmptyText \in texts, NEW a, IsAlert(a)
    PROVE  Within(RequiredEntries(a), texts, 29)
<1> DEFINE e1 == Entry(Keys.protocolVersion, <<Uint(PROTOCOL_VERSION)>>)
           e2 == Entry(Keys.timestampMs, <<Uint(a.timestampMs)>>)
           e3 == Entry(Keys.sequence, <<Uint(a.sequence)>>)
           e4 == Entry(Keys.sensorType, <<Uint(WireValue(SensorType, a.sensorType))>>)
           e5 == Entry(Keys.alertKind, <<Uint(WireValue(AlertKind, a.alertKind))>>)
           e6 == Entry(Keys.threat, <<Uint(WireValue(Threat, a.threat))>>)
           e7 == Entry(Keys.severity, <<Uint(WireValue(Severity, a.severity))>>)
           e8 == Entry(Keys.band, <<Uint(WireValue(Band, a.band))>>)
           e9 == Entry(Keys.distance, <<Uint(WireValue(Distance, a.distance))>>)
           e10 == Entry(Keys.confidence, <<ConfidenceItem(a.confidence)>>)
           p2 == e1 \o e2
           p3 == p2 \o e3
           p4 == p3 \o e4
           p5 == p4 \o e5
           p6 == p5 \o e6
           p7 == p6 \o e7
           p8 == p7 \o e8
           p9 == p8 \o e9
           p10 == p9 \o e10
<1>2. Keys.protocolVersion \in 0..23 /\ Within(<<Uint(PROTOCOL_VERSION)>>, texts, 1)
  BY WithinUint DEF PROTOCOL_VERSION, Keys
<1>3. Keys.timestampMs \in 0..23 /\ Within(<<Uint(a.timestampMs)>>, texts, 5)
  BY WithinUint, WordAssumption DEF IsAlert, Keys
<1>4. Keys.sequence \in 0..23 /\ Within(<<Uint(a.sequence)>>, texts, 5)
  BY WithinUint, WordAssumption DEF IsAlert, Keys
<1>5. Keys.sensorType \in 0..23 /\ Within(<<Uint(WireValue(SensorType, a.sensorType))>>, texts, 1)
  <2>1. SensorType \in Seq(Names(SensorType)) /\ Len(SensorType) <= 24 /\ a.sensorType \in Names(SensorType)
    BY DEF IsAlert, SensorType, Names
  <2> QED
    BY <2>1, WithinEnum DEF Keys
<1>6. Keys.alertKind \in 0..23 /\ Within(<<Uint(WireValue(AlertKind, a.alertKind))>>, texts, 1)
  <2>1. AlertKind \in Seq(Names(AlertKind)) /\ Len(AlertKind) <= 24 /\ a.alertKind \in Names(AlertKind)
    BY DEF IsAlert, AlertKind, Names
  <2> QED
    BY <2>1, WithinEnum DEF Keys
<1>7. Keys.threat \in 0..23 /\ Within(<<Uint(WireValue(Threat, a.threat))>>, texts, 1)
  <2>1. Threat \in Seq(Names(Threat)) /\ Len(Threat) <= 24 /\ a.threat \in Names(Threat)
    BY DEF IsAlert, Threat, Names
  <2> QED
    BY <2>1, WithinEnum DEF Keys
<1>8. Keys.severity \in 0..23 /\ Within(<<Uint(WireValue(Severity, a.severity))>>, texts, 1)
  <2>1. Severity \in Seq(Names(Severity)) /\ Len(Severity) <= 24 /\ a.severity \in Names(Severity)
    BY DEF IsAlert, Severity, Names
  <2> QED
    BY <2>1, WithinEnum DEF Keys
<1>9. Keys.band \in 0..23 /\ Within(<<Uint(WireValue(Band, a.band))>>, texts, 1)
  <2>1. Band \in Seq(Names(Band)) /\ Len(Band) <= 24 /\ a.band \in Names(Band)
    BY DEF IsAlert, Band, Names
  <2> QED
    BY <2>1, WithinEnum DEF Keys
<1>10. Keys.distance \in 0..23 /\ Within(<<Uint(WireValue(Distance, a.distance))>>, texts, 1)
  <2>1. Distance \in Seq(Names(Distance)) /\ Len(Distance) <= 24 /\ a.distance \in Names(Distance)
    BY DEF IsAlert, Distance, Names
  <2> QED
    BY <2>1, WithinEnum DEF Keys
<1>11. Keys.confidence \in 0..23 /\ Within(<<ConfidenceItem(a.confidence)>>, texts, 2)
  <2>1. CASE a.confidence = Absent
    BY <2>1, WithinNull DEF ConfidenceItem, Keys
  <2>2. CASE a.confidence # Absent
    <3>1. a.confidence \in Nat /\ a.confidence <= 255
      BY <2>2 DEF IsAlert
    <3> QED
      BY <2>2, <3>1, WithinUint DEF ConfidenceItem, Keys
  <2> QED
    BY <2>1, <2>2
<1>12. /\ Within(e1, texts, 2)
      /\ Within(e2, texts, 6)
      /\ Within(e3, texts, 6)
      /\ Within(e4, texts, 2)
      /\ Within(e5, texts, 2)
      /\ Within(e6, texts, 2)
      /\ Within(e7, texts, 2)
      /\ Within(e8, texts, 2)
      /\ Within(e9, texts, 2)
      /\ Within(e10, texts, 3)
  <2>1. Within(e1, texts, 2)
    BY <1>2, WithinEntries, Zenon
  <2>2. Within(e2, texts, 6)
    BY <1>3, WithinEntries, Zenon
  <2>3. Within(e3, texts, 6)
    BY <1>4, WithinEntries, Zenon
  <2>4. Within(e4, texts, 2)
    BY <1>5, WithinEntries, Zenon
  <2>5. Within(e5, texts, 2)
    BY <1>6, WithinEntries, Zenon
  <2>6. Within(e6, texts, 2)
    BY <1>7, WithinEntries, Zenon
  <2>7. Within(e7, texts, 2)
    BY <1>8, WithinEntries, Zenon
  <2>8. Within(e8, texts, 2)
    BY <1>9, WithinEntries, Zenon
  <2>9. Within(e9, texts, 2)
    BY <1>10, WithinEntries, Zenon
  <2>10. Within(e10, texts, 3)
    BY <1>11, WithinEntries, Zenon
  <2> HIDE DEF e1, e2, e3, e4, e5, e6, e7, e8, e9, e10
  <2> QED
    BY <2>1, <2>2, <2>3, <2>4, <2>5, <2>6, <2>7, <2>8, <2>9, <2>10
<1>13. RequiredEntries(a) = p10
  BY DEF RequiredEntries
<1> HIDE DEF e1, e2, e3, e4, e5, e6, e7, e8, e9, e10
<1>14. Within(p2, texts, 8)
  BY <1>12, WithinBoth
<1> HIDE DEF p2
<1>15. Within(p3, texts, 14)
  BY <1>12, <1>14, WithinBoth
<1> HIDE DEF p3
<1>16. Within(p4, texts, 16)
  BY <1>12, <1>15, WithinBoth
<1> HIDE DEF p4
<1>17. Within(p5, texts, 18)
  BY <1>12, <1>16, WithinBoth
<1> HIDE DEF p5
<1>18. Within(p6, texts, 20)
  BY <1>12, <1>17, WithinBoth
<1> HIDE DEF p6
<1>19. Within(p7, texts, 22)
  BY <1>12, <1>18, WithinBoth
<1> HIDE DEF p7
<1>20. Within(p8, texts, 24)
  BY <1>12, <1>19, WithinBoth
<1> HIDE DEF p8
<1>21. Within(p9, texts, 26)
  BY <1>12, <1>20, WithinBoth
<1> HIDE DEF p9
<1>22. Within(p10, texts, 29)
  BY <1>12, <1>21, WithinBoth
<1> HIDE DEF p10
<1> QED
  BY <1>13, <1>22

\* Four items of one byte, and the header of their array.
LEMMA WithinBands ==
    ASSUME NEW texts, EmptyText \in texts, NEW bands \in [1..4 -> Names(BandStrength)]
    PROVE  Within(Bands(bands), texts, 5)
<1> DEFINE x(i) == Uint(WireValue(BandStrength, bands[i]))
           S == ItemsWith(texts)
           levels == [i \in 1..4 |-> x(i)]
<1>1. ASSUME NEW i \in 1..4 PROVE Within(<<x(i)>>, texts, 1) /\ x(i) \in S
  <2> DEFINE n == WireValue(BandStrength, bands[i])
  <2>1. BandStrength \in Seq(Names(BandStrength)) /\ Len(BandStrength) <= 24
    BY DEF BandStrength, Names
  <2>2. bands[i] \in Names(BandStrength)
    OBVIOUS
  <2>3. Within(<<x(i)>>, texts, 1)
    BY <2>1, <2>2, WithinEnum
  <2>4. n \in Nat
    BY <2>1, <2>2, WireValueIs
  <2> HIDE DEF n
  <2>5. Uint(n) \in S
    BY <2>4, UintIs
  <2> QED
    BY <2>3, <2>5 DEF n
<1> HIDE DEF x, S
<1>2. levels \in [1..4 -> S] /\ \A i \in 1..4 : levels[i] = x(i)
  BY <1>1
<1> HIDE DEF levels
<1>3. levels \in Seq(S) /\ Len(levels) = 4
  <2> DEFINE n == 4
  <2>1. n \in Nat /\ levels \in [1..n -> S]
    BY <1>2
  <2> HIDE DEF n
  <2>2. levels \in Seq(S) /\ Len(levels) = n
    BY <2>1, FunctionIsSeq
  <2> QED
    BY <2>2 DEF n
<1> DEFINE x1 == x(1)
           x2 == x(2)
           x3 == x(3)
           x4 == x(4)
<1>4. x1 \in S /\ x2 \in S /\ x3 \in S /\ x4 \in S
  BY <1>1
<1>5. levels[1] = x1 /\ levels[2] = x2 /\ levels[3] = x3 /\ levels[4] = x4
  BY <1>2
<1>6. Within(<<x1>>, texts, 1) /\ Within(<<x2>>, texts, 1) /\ Within(<<x3>>, texts, 1)
        /\ Within(<<x4>>, texts, 1)
  BY <1>1
<1> HIDE DEF x1, x2, x3, x4
<1> DEFINE p == <<x1>> \o <<x2>>
           q == <<x3>> \o <<x4>>
           r == p \o q
<1>7. p \in Seq(S) /\ q \in Seq(S) /\ Len(p) = 2 /\ Len(q) = 2
        /\ p[1] = x1 /\ p[2] = x2 /\ q[1] = x3 /\ q[2] = x4
  BY <1>4
<1>8. Within(p, texts, 2) /\ Within(q, texts, 2)
  BY <1>6, WithinBoth
<1> HIDE DEF p, q
<1>9. Within(r, texts, 4)
  BY <1>8, WithinBoth
<1>10. r = levels
  <2>1. r \in Seq(S) /\ Len(r) = 4 /\ r[1] = x1 /\ r[2] = x2 /\ r[3] = x3 /\ r[4] = x4
    <3>1. /\ r \in Seq(S) /\ Len(r) = Len(p) + Len(q)
          /\ \A i \in 1..(Len(p) + Len(q)) : r[i] = IF i <= Len(p) THEN p[i] ELSE q[i - Len(p)]
      BY <1>7, ConcatProperties
    <3> HIDE DEF r
    <3>2. Len(r) = 4 /\ r[1] = p[1] /\ r[2] = p[2] /\ r[3] = q[1] /\ r[4] = q[2]
      BY <1>7, <3>1
    <3> QED
      BY <1>7, <3>1, <3>2
  <2> HIDE DEF r
  <2>2. ASSUME NEW i \in 1..Len(r) PROVE r[i] = levels[i]
    BY <1>5, <2>1
  <2> QED
    BY <1>3, <2>1, <2>2, SeqEqual
<1>11. Within(levels, texts, 4)
  BY <1>9, <1>10
<1>12. Within(<<ArrayHeader(4)>>, texts, 1)
  <2> DEFINE kind == "array"
  <2>1. kind \in Majors /\ kind # "null" /\ kind # "text"
    BY DEF Majors
  <2> HIDE DEF kind
  <2>2. Item(kind, 4, EmptyText) \in S /\ Item(kind, 4, EmptyText).got = 1 + ArgumentBytes(4)
    BY <2>1, ItemIs DEF S
  <2>3. ArgumentBytes(4) = 0
    BY ArgumentIs
  <2>4. ArrayHeader(4) \in S /\ ArrayHeader(4).got <= 1
    BY <2>2, <2>3 DEF ArrayHeader, kind
  <2> QED
    BY <2>4, WithinOne DEF S
<1>13. Within(<<ArrayHeader(4)>> \o levels, texts, 5)
  BY <1>11, <1>12, WithinBoth
<1> QED
  BY <1>13 DEF Bands, levels, x

\* What the encoder writes if it is there.
LEMMA WithinOptionals ==
    ASSUME NEW texts, EmptyText \in texts, NEW a, IsAlert(a),
           a.droneClass # Absent => a.droneClass \in texts,
           a.source # Absent => a.source \in texts
    PROVE  Within(OptionalEntries(a), texts, 101)
<1> DEFINE e1 == Optional(Keys.droneClass, a.droneClass, <<TextString(a.droneClass)>>)
           e2 == Optional(Keys.detectorLatencyMs, a.detectorLatencyMs,
                          <<Uint(a.detectorLatencyMs)>>)
           e3 == Optional(Keys.bands, a.bands, Bands(a.bands))
           e4 == Optional(Keys.direction, a.direction,
                          <<Uint(WireValue(Direction, a.direction))>>)
           e5 == Optional(Keys.source, a.source, <<TextString(a.source)>>)
           e6 == Optional(Keys.detectorTypeCode, a.detectorTypeCode,
                          <<Uint(a.detectorTypeCode)>>)
           p2 == e1 \o e2
           p3 == p2 \o e3
           p4 == p3 \o e4
           p5 == p4 \o e5
           p6 == p5 \o e6
<1>1. /\ Keys.droneClass \in 0..23
      /\ a.droneClass # Absent => Within(<<TextString(a.droneClass)>>, texts, 65)
  <2>1. ASSUME a.droneClass # Absent PROVE Within(<<TextString(a.droneClass)>>, texts, 65)
    <3>1. a.droneClass.length \in 1..63
      BY <2>1 DEF IsAlert, DRONE_CLASS_CAPACITY
    <3> QED
      BY <2>1, <3>1, WithinText
  <2> QED
    BY <2>1 DEF Keys
<1>2. /\ Keys.detectorLatencyMs \in 0..23
      /\ a.detectorLatencyMs # Absent => Within(<<Uint(a.detectorLatencyMs)>>, texts, 5)
  <2>1. ASSUME a.detectorLatencyMs # Absent PROVE Within(<<Uint(a.detectorLatencyMs)>>, texts, 5)
    <3>1. a.detectorLatencyMs \in Nat /\ a.detectorLatencyMs < WordLimit
      BY <2>1, WordAssumption DEF IsAlert
    <3> QED
      BY <3>1, WithinUint
  <2> QED
    BY <2>1 DEF Keys
<1>3. Keys.bands \in 0..23 /\ (a.bands # Absent => Within(Bands(a.bands), texts, 5))
  BY WithinBands DEF IsAlert, Keys
<1>4. /\ Keys.direction \in 0..23
      /\ a.direction # Absent => Within(<<Uint(WireValue(Direction, a.direction))>>, texts, 1)
  <2>1. ASSUME a.direction # Absent
        PROVE  Within(<<Uint(WireValue(Direction, a.direction))>>, texts, 1)
    <3>1. a.direction \in Names(Direction)
      BY <2>1 DEF IsAlert
    <3>2. Direction \in Seq(Names(Direction)) /\ Len(Direction) <= 24
      BY DEF Direction, Names
    <3> QED
      BY <3>1, <3>2, WithinEnum
  <2> QED
    BY <2>1 DEF Keys
<1>5. /\ Keys.source \in 0..23
      /\ a.source # Absent => Within(<<TextString(a.source)>>, texts, 16)
  <2>1. ASSUME a.source # Absent PROVE Within(<<TextString(a.source)>>, texts, 16)
    <3>1. a.source.length \in 1..15
      BY <2>1 DEF IsAlert, SOURCE_CAPACITY
    <3> QED
      BY <2>1, <3>1, WithinText
  <2> QED
    BY <2>1 DEF Keys
<1>6. /\ Keys.detectorTypeCode \in 0..23
      /\ a.detectorTypeCode # Absent => Within(<<Uint(a.detectorTypeCode)>>, texts, 3)
  <2>1. ASSUME a.detectorTypeCode # Absent PROVE Within(<<Uint(a.detectorTypeCode)>>, texts, 3)
    <3>1. a.detectorTypeCode \in Nat /\ a.detectorTypeCode <= 65535
      BY <2>1 DEF IsAlert, TypeCodes
    <3> QED
      BY <3>1, WithinUint
  <2> QED
    BY <2>1 DEF Keys
<1> DEFINE Fits(m, k) == \A key \in 0..23 : \A field, items :
               (field # Absent => Within(items, texts, m))
                  => Within(Optional(key, field, items), texts, k)
<1>7. \A m, k \in Nat : k = m + 1 => Fits(m, k)
  BY WithinOptional
<1> HIDE DEF Fits
<1>8. Fits(65, 66) /\ Fits(5, 6) /\ Fits(1, 2) /\ Fits(16, 17) /\ Fits(3, 4)
  <2>1. Fits(1, 2) /\ Fits(3, 4)
    BY <1>7
  <2>2. Fits(5, 6)
    BY <1>7
  <2>3. Fits(16, 17)
    BY <1>7
  <2>4. Fits(65, 66)
    BY <1>7
  <2> QED
    BY <2>1, <2>2, <2>3, <2>4
<1> USE DEF Fits
<1>9. /\ Within(e1, texts, 66)
      /\ Within(e2, texts, 6)
      /\ Within(e3, texts, 6)
      /\ Within(e4, texts, 2)
      /\ Within(e5, texts, 17)
      /\ Within(e6, texts, 4)
  <2>1. Within(e1, texts, 66)
    BY <1>1, <1>8, Zenon
  <2>2. Within(e2, texts, 6)
    BY <1>2, <1>8, Zenon
  <2>3. Within(e3, texts, 6)
    BY <1>3, <1>8, Zenon
  <2>4. Within(e4, texts, 2)
    BY <1>4, <1>8, Zenon
  <2>5. Within(e5, texts, 17)
    BY <1>5, <1>8, Zenon
  <2>6. Within(e6, texts, 4)
    BY <1>6, <1>8, Zenon
  <2> HIDE DEF e1, e2, e3, e4, e5, e6, Fits
  <2> QED
    BY <2>1, <2>2, <2>3, <2>4, <2>5, <2>6
<1>10. OptionalEntries(a) = p6
  BY DEF OptionalEntries
<1> HIDE DEF e1, e2, e3, e4, e5, e6, Fits
<1>11. Within(p2, texts, 72)
  BY <1>9, WithinBoth
<1> HIDE DEF p2
<1>12. Within(p3, texts, 78)
  BY <1>9, <1>11, WithinBoth
<1> HIDE DEF p3
<1>13. Within(p4, texts, 80)
  BY <1>9, <1>12, WithinBoth
<1> HIDE DEF p4
<1>14. Within(p5, texts, 97)
  BY <1>9, <1>13, WithinBoth
<1> HIDE DEF p5
<1>15. Within(p6, texts, 101)
  BY <1>9, <1>14, WithinBoth
<1> HIDE DEF p6
<1> QED
  BY <1>10, <1>15

\* How many entries there are is a number.
LEMMA EntriesAreCounted == ASSUME NEW a PROVE EntryCount(a) \in Nat
<1>1. IsFiniteSet(OptionalFields)
  <2>1. OptionalFields = (({"droneClass"} \cup {"detectorLatencyMs"}) \cup ({"bands"} \cup {"direction"}))
                            \cup ({"source"} \cup {"detectorTypeCode"})
    BY DEF OptionalFields
  <2>2. \A x : IsFiniteSet({x})
    BY FS_Singleton
  <2> QED
    BY <2>1, <2>2, FS_Union
<1> DEFINE present == {f \in OptionalFields : a[f] # Absent}
<1>2. present \subseteq OptionalFields
  OBVIOUS
<1> HIDE DEF present
<1>3. IsFiniteSet(present)
  BY <1>1, <1>2, FS_Subset
<1>4. Cardinality(present) \in Nat
  BY <1>3, FS_CardinalityType
<1> QED
  BY <1>4 DEF EntryCount, present

\* An alert is never too long for the buffer: fewer than 140 bytes of 180.
LEMMA AlertFits ==
    ASSUME NEW a, IsAlert(a)
    PROVE  /\ encodeAlert(a, MAX_PAYLOAD_BYTES) # <<>>
           /\ PacketBytes(encodeAlert(a, MAX_PAYLOAD_BYTES)) \in 0..MAX_PAYLOAD_BYTES
<1> DEFINE texts == {EmptyText, a.droneClass, a.source}
           header == <<MapHeader(EntryCount(a))>>
           required == RequiredEntries(a)
           optional == OptionalEntries(a)
           begun == header \o required
           whole == begun \o optional
<1>1. EmptyText \in texts /\ a.droneClass \in texts /\ a.source \in texts
  OBVIOUS
<1> HIDE DEF texts
<1>2. Within(header, texts, 9) /\ Len(header) = 1
  <2> DEFINE kind == "map"
             n == EntryCount(a)
  <2>1. kind \in Majors /\ kind # "null" /\ kind # "text"
    BY DEF Majors
  <2>2. n \in Nat
    BY EntriesAreCounted
  <2> HIDE DEF kind, n
  <2>3. /\ Item(kind, n, EmptyText) \in ItemsWith(texts)
        /\ Item(kind, n, EmptyText).got = 1 + ArgumentBytes(n)
    BY <1>1, <2>1, <2>2, ItemIs
  <2>4. ArgumentBytes(n) \in 0..8
    BY <2>2, ArgumentIs
  <2>5. MapHeader(n) \in ItemsWith(texts) /\ MapHeader(n).got <= 9
    BY <2>3, <2>4 DEF MapHeader, kind
  <2>6. Within(<<MapHeader(n)>>, texts, 9)
    BY <2>5, WithinOne
  <2> QED
    BY <2>6 DEF n
<1>3. Within(required, texts, 29)
  BY <1>1, WithinRequired
<1>4. Within(optional, texts, 101)
  BY <1>1, WithinOptionals
<1> HIDE DEF header, required, optional
<1>5. Within(begun, texts, 38)
  BY <1>2, <1>3, WithinBoth
<1>6. Len(begun) # 0
  BY <1>2, <1>3 DEF Within
<1> HIDE DEF begun
<1>7. Within(whole, texts, 139)
  BY <1>4, <1>5, WithinBoth
<1>8. Len(whole) # 0
  BY <1>4, <1>5, <1>6 DEF Within
<1>9. whole # <<>>
  BY <1>8
<1>10. PacketBytes(whole) \in Nat /\ PacketBytes(whole) <= 139
  <2>1. \A x \in ItemsWith(texts) : x.got \in Nat
    BY BytesOfItem
  <2> HIDE DEF whole
  <2> QED
    BY <1>7, <2>1, BytesOfItems DEF Within
<1>11. encodeAlert(a, MAX_PAYLOAD_BYTES) =
          IF PacketBytes(whole) > MAX_PAYLOAD_BYTES \/ PacketBytes(whole) > MAX_PAYLOAD_BYTES
          THEN <<>> ELSE whole
  BY DEF encodeAlert, whole, begun, header, required, optional
<1> HIDE DEF whole
<1>12. encodeAlert(a, MAX_PAYLOAD_BYTES) = whole
  BY <1>10, <1>11 DEF MAX_PAYLOAD_BYTES
<1>13. PacketBytes(whole) \in 0..MAX_PAYLOAD_BYTES
  BY <1>10 DEF MAX_PAYLOAD_BYTES
<1> QED
  BY <1>9, <1>12, <1>13

-----------------------------------------------------------------------------
(* The alerts the adapters build.                                           *)

AlertFields == DOMAIN EmptyAlert

\* An alert with all its fields.
WholeAlert(a) == DOMAIN a = AlertFields /\ IsAlert(a)

Instants == 0..(WordLimit - 1)

LEMMA EmptyIsWhole == WholeAlert(EmptyAlert)
<1>1. 0 \in 0..(WordLimit - 1)
  BY WordAssumption
<1>2. /\ "rf" \in Names(SensorType) /\ "classified" \in Names(AlertKind)
      /\ "UNKNOWN" \in Names(Threat) /\ "LOW" \in Names(Severity)
      /\ "UNKNOWN" \in Names(Band) /\ "UNKNOWN" \in Names(Distance)
  BY DEF Names, SensorType, AlertKind, Threat, Severity, Band, Distance
<1> QED
  BY <1>1, <1>2 DEF WholeAlert, AlertFields, IsAlert, EmptyAlert

\* The two texts are set within their buffers, and nothing else changes.
LEMMA ClassIsSet ==
    ASSUME NEW a, WholeAlert(a), NEW text, text.length \in Nat
    PROVE  /\ WholeAlert(alertSetDroneClass(a, text))
           /\ \A f \in AlertFields \ {"droneClass"} : alertSetDroneClass(a, text)[f] = a[f]
           /\ alertSetDroneClass(a, text).droneClass
                 = setBoundedField(text, DRONE_CLASS_CAPACITY)
<1> DEFINE value == setBoundedField(text, DRONE_CLASS_CAPACITY)
           b == [a EXCEPT !.droneClass = value]
<1>1. value # Absent => value.length \in 1..(DRONE_CLASS_CAPACITY - 1)
  BY DEF setBoundedField, TooLarge, DRONE_CLASS_CAPACITY
<1> HIDE DEF value
<1>2. /\ DOMAIN b = AlertFields /\ b.droneClass = value
      /\ \A f \in AlertFields \ {"droneClass"} : b[f] = a[f]
  BY DEF WholeAlert, AlertFields, EmptyAlert
<1> HIDE DEF b
<1>3. WholeAlert(b)
  BY <1>1, <1>2 DEF WholeAlert, IsAlert, AlertFields, EmptyAlert
<1> QED
  BY <1>2, <1>3 DEF alertSetDroneClass, b, value

LEMMA SourceIsSet ==
    ASSUME NEW a, WholeAlert(a), NEW text, text.length \in Nat
    PROVE  /\ WholeAlert(alertSetSource(a, text))
           /\ \A f \in AlertFields \ {"source"} : alertSetSource(a, text)[f] = a[f]
<1> DEFINE value == setBoundedField(text, SOURCE_CAPACITY)
           b == [a EXCEPT !.source = value]
<1>1. value # Absent => value.length \in 1..(SOURCE_CAPACITY - 1)
  BY DEF setBoundedField, TooLarge, SOURCE_CAPACITY
<1> HIDE DEF value
<1>2. /\ DOMAIN b = AlertFields /\ b.source = value
      /\ \A f \in AlertFields \ {"source"} : b[f] = a[f]
  BY DEF WholeAlert, AlertFields, EmptyAlert
<1> HIDE DEF b
<1>3. WholeAlert(b)
  BY <1>1, <1>2 DEF WholeAlert, IsAlert, AlertFields, EmptyAlert
<1> QED
  BY <1>2, <1>3 DEF alertSetSource, b, value

LEMMA TextIs == ASSUME NEW of, NEW n \in Nat PROVE Text(of, n).length \in Nat
BY DEF Text

\* What the tables give is a name of the protocol.
LEMMA TablesAreNames ==
    ASSUME NEW n
    PROVE  /\ bandFromFrequency(n) \in Names(Band)
           /\ distanceFromSignal(n) \in Names(Distance)
           /\ \A d : severityFromDistance(d) \in Names(Severity)
           /\ \A t, b : kindOf(t, b) \in Names(AlertKind)
           /\ ttskw07ThreatFromCode(n) \in Names(Threat)
           /\ dw01ThreatFromCode(n) \in Names(Threat)
<1>1. bandFromFrequency(n) \in Names(Band)
  BY DEF bandFromFrequency, Band, Names
<1>2. distanceFromSignal(n) \in Names(Distance)
  BY DEF distanceFromSignal, Distance, Names
<1>3. ASSUME NEW d PROVE severityFromDistance(d) \in Names(Severity)
  BY DEF severityFromDistance, Severity, Names
<1>4. ASSUME NEW t, NEW b PROVE kindOf(t, b) \in Names(AlertKind)
  BY DEF kindOf, AlertKind, Names
<1>5. ttskw07ThreatFromCode(n) \in Names(Threat)
  BY DEF ttskw07ThreatFromCode, Threat, Names
<1>6. dw01ThreatFromCode(n) \in Names(Threat)
  BY DEF dw01ThreatFromCode, Threat, Names
<1> QED
  BY <1>1, <1>2, <1>3, <1>4, <1>5, <1>6

\* The fields both detectors fill in.
DetectorFields(initial, now, sequence, frequency, signal, typeCode, threat) ==
    [initial EXCEPT
        !.timestampMs = now, !.sequence = sequence, !.sensorType = "rf",
        !.threat = threat, !.detectorTypeCode = typeCode,
        !.band = bandFromFrequency(frequency),
        !.distance = distanceFromSignal(signal),
        !.severity = severityFromDistance(distanceFromSignal(signal)),
        !.confidence = Absent,
        !.alertKind = kindOf(threat, bandFromFrequency(frequency))]

LEMMA DetectorFieldsAreWhole ==
    ASSUME NEW a, WholeAlert(a), NEW now \in Instants, NEW sequence \in Instants,
           NEW frequency, NEW signal, NEW typeCode \in TypeCodes, NEW threat \in Names(Threat)
    PROVE  /\ WholeAlert(DetectorFields(a, now, sequence, frequency, signal, typeCode, threat))
           /\ DetectorFields(a, now, sequence, frequency, signal, typeCode, threat).threat = threat
<1> DEFINE band == bandFromFrequency(frequency)
           distance == distanceFromSignal(signal)
           severity == severityFromDistance(distance)
           kind == kindOf(threat, band)
           b == [a EXCEPT
                    !.timestampMs = now, !.sequence = sequence, !.sensorType = "rf",
                    !.threat = threat, !.detectorTypeCode = typeCode, !.band = band,
                    !.distance = distance, !.severity = severity, !.confidence = Absent,
                    !.alertKind = kind]
<1>1. /\ band \in Names(Band) /\ distance \in Names(Distance)
      /\ severity \in Names(Severity) /\ kind \in Names(AlertKind)
  BY TablesAreNames
<1>2. "rf" \in Names(SensorType)
  BY DEF SensorType, Names
<1>3. DetectorFields(a, now, sequence, frequency, signal, typeCode, threat) = b
  BY DEF DetectorFields
<1> HIDE DEF band, distance, severity, kind
<1>4. /\ DOMAIN b = AlertFields
      /\ b.timestampMs = now /\ b.sequence = sequence /\ b.sensorType = "rf"
      /\ b.threat = threat /\ b.detectorTypeCode = typeCode /\ b.band = band
      /\ b.distance = distance /\ b.severity = severity /\ b.confidence = Absent
      /\ b.alertKind = kind /\ b.droneClass = a.droneClass
      /\ b.detectorLatencyMs = a.detectorLatencyMs /\ b.bands = a.bands
      /\ b.direction = a.direction /\ b.source = a.source
  BY DEF WholeAlert, AlertFields, EmptyAlert
<1> HIDE DEF b
<1>5. WholeAlert(b)
  BY <1>1, <1>2, <1>4 DEF WholeAlert, IsAlert, Instants
<1> QED
  BY <1>3, <1>4, <1>5

-----------------------------------------------------------------------------
(* The parser of the TTSKW07's lines.                                       *)

LEMMA TokensAre == \A token \in Tokens : token.n \in Nat /\ token.length \in Nat
BY DEF Tokens

\* A label is found, and a token that is not blank, at a place of the line or
\* just past it.
LEMMA LabelIsAPlace ==
    ASSUME NEW line \in Seq(Tokens), NEW from \in Nat \ {0}, NEW label
    PROVE  findLabel(line, from, label) \in Nat \ {0}
<1> DEFINE found == {i \in from..Len(line) : line[i].is = label}
<1>1. Len(line) \in Nat /\ found \in SUBSET Nat /\ \A y \in found : y <= Len(line)
  OBVIOUS
<1>2. findLabel(line, from, label) = IF found = {} THEN Len(line) + 1 ELSE Min(found) + 1
  BY DEF findLabel
<1>3. CASE found = {}
  BY <1>1, <1>2, <1>3
<1>4. CASE found # {}
  <2> HIDE DEF found
  <2>1. Min(found) \in found
    BY <1>1, <1>4, MinMaxOfIndices
  <2> DEFINE first == Min(found)
  <2>2. first \in Nat
    BY <1>1, <2>1
  <2>3. findLabel(line, from, label) = first + 1
    BY <1>2, <1>4
  <2> HIDE DEF first
  <2> QED
    BY <2>2, <2>3
<1> QED
  BY <1>3, <1>4

LEMMA SolidIsAPlace ==
    ASSUME NEW line \in Seq(Tokens), NEW from \in Nat \ {0}
    PROVE  skipSpaces(line, from) \in Nat \ {0}
<1> DEFINE solid == {i \in from..Len(line) : line[i].is # "blank"}
<1>1. Len(line) \in Nat /\ solid \in SUBSET (Nat \ {0}) /\ \A y \in solid : y <= Len(line)
  OBVIOUS
<1>2. skipSpaces(line, from) = IF solid = {} THEN Len(line) + 1 ELSE Min(solid)
  BY DEF skipSpaces
<1>3. CASE solid = {}
  BY <1>1, <1>2, <1>3
<1>4. CASE solid # {}
  <2> HIDE DEF solid
  <2>1. Min(solid) \in solid
    BY <1>1, <1>4, MinMaxOfIndices
  <2> QED
    BY <1>1, <1>2, <1>4, <2>1
<1> QED
  BY <1>3, <1>4

\* A number that is read is a number, and it ends at a place.
LEMMA UnsignedIs ==
    ASSUME NEW line \in Seq(Tokens), NEW from \in Nat \ {0}
    PROVE  /\ readUnsignedAt(line, from).value \in Nat \cup {Absent}
           /\ readUnsignedAt(line, from).end \in Nat \ {0}
<1> DEFINE i == skipSpaces(line, from)
           there == i <= Len(line) /\ line[i].is = "digits" /\ line[i].n <= 1000000
<1>1. i \in Nat \ {0}
  BY SolidIsAPlace
<1>2. readUnsignedAt(line, from) = IF there THEN [value |-> line[i].n, end |-> i + 1]
                                   ELSE [value |-> Absent, end |-> from]
  BY DEF readUnsignedAt
<1> HIDE DEF i
<1>3. CASE there
  <2>1. line[i] \in Tokens
    BY <1>1, <1>3
  <2> QED
    BY <1>1, <1>2, <1>3, <2>1, TokensAre
<1>4. CASE ~ there
  BY <1>2, <1>4
<1> QED
  BY <1>3, <1>4

\* The bytes of a piece of a line are a number.
LEMMA TokenBytesAre == ASSUME NEW line \in Seq(Tokens) PROVE TokenBytes(line) \in Nat
<1> DEFINE g == [i \in DOMAIN line |-> line[i].length]
<1>1. Len(line) \in Nat /\ DOMAIN line = 1..Len(line) /\ \A i \in 1..Len(line) : line[i] \in Tokens
  OBVIOUS
<1>2. g \in [1..Len(line) -> Nat]
  BY <1>1, TokensAre
<1>3. g \in Seq(Nat)
  BY <1>1, <1>2, FunctionIsSeq
<1>4. TokenBytes(line) = Total(g)
  BY DEF TokenBytes
<1> HIDE DEF g
<1>5. Total(g) \in Nat
  BY <1>3, TotalIs
<1> QED
  BY <1>4, <1>5

LEMMA TrimmedIs ==
    ASSUME NEW line \in Seq(Tokens), NEW begin \in Nat \ {0}
    PROVE  copyTrimmed(line, begin, DRONE_CLASS_CAPACITY).length \in Nat
<1> DEFINE solid == {i \in begin..Len(line) : line[i].is # "blank"}
           tokens == IF solid = {} THEN <<>> ELSE SubSeq(line, Min(solid), Max(solid))
           bytes == TokenBytes(tokens)
<1>1. Len(line) \in Nat /\ solid \in SUBSET (Nat \ {0}) /\ \A y \in solid : y <= Len(line)
  OBVIOUS
<1>2. copyTrimmed(line, begin, DRONE_CLASS_CAPACITY).length
         = Min({bytes, DRONE_CLASS_CAPACITY - 1})
  BY DEF copyTrimmed, Text
<1> HIDE DEF solid
<1>3. tokens \in Seq(Tokens)
  <2>1. CASE solid = {}
    BY <2>1, EmptySeq
  <2>2. CASE solid # {}
    <3>1. Min(solid) \in solid /\ Max(solid) \in solid
      BY <1>1, <2>2, MinMaxOfIndices
    <3> DEFINE first == Min(solid)
               last == Max(solid)
    <3>2. first \in solid /\ last \in solid
      BY <3>1
    <3> HIDE DEF first, last
    <3>3. first \in Nat /\ first # 0 /\ last \in Int /\ last <= Len(line)
      BY <1>1, <3>2
    <3>4. SubSeq(line, first, last) \in Seq(Tokens)
      BY <3>3, PieceType
    <3> QED
      BY <2>2, <3>4 DEF first, last
  <2> QED
    BY <2>1, <2>2
<1> HIDE DEF tokens
<1>4. bytes \in Nat
  BY <1>3, TokenBytesAre
<1> HIDE DEF bytes
<1> DEFINE both == {bytes, DRONE_CLASS_CAPACITY - 1}
           bound == bytes + DRONE_CLASS_CAPACITY
<1>5. both \in SUBSET Nat /\ both # {} /\ bound \in Nat /\ \A y \in both : y <= bound
  BY <1>4 DEF DRONE_CLASS_CAPACITY
<1> HIDE DEF both, bound
<1>6. Min(both) \in both
  BY <1>5, MinMaxOfIndices
<1> QED
  BY <1>2, <1>5, <1>6 DEF both

\* Whatever the line, the parser leaves a whole alert.
LEMMA ParsedLineIsWhole ==
    ASSUME NEW line \in Seq(Tokens), NEW now \in Instants, NEW sequence \in Instants, NEW storage
    PROVE  WholeAlert(ttskw07ParseLine(line, now, sequence, storage).alert)
<1> DEFINE missing == Len(line) + 1
           afterF == findLabel(line, 1, "F:")
           afterR == findLabel(line, afterF, "R:")
           afterT == IF afterR < missing THEN findLabel(line, afterR, "T:") ELSE missing
           frequency == readUnsignedAt(line, afterF)
           signal == readUnsignedAt(line, afterR)
           typeCode == readUnsignedAt(line, afterT)
           description == copyTrimmed(line, typeCode.end, DRONE_CLASS_CAPACITY)
           isDetection == TokenBytes(line) <= TTSKW07_MAX_LINE /\ afterF # missing
           isUsable ==
              /\ missing \notin {afterR, afterT}
              /\ Absent \notin {frequency.value, signal.value, typeCode.value}
              /\ typeCode.value <= 65535
           built == ttskw07Alert(EmptyAlert, now, sequence, frequency.value, signal.value,
                                 typeCode.value, description)
<1>1. ttskw07ParseLine(line, now, sequence, storage).alert
         = IF isDetection /\ isUsable THEN built ELSE EmptyAlert
  <2> HIDE DEF isDetection, isUsable, built
  <2>1. ttskw07ParseLine(line, now, sequence, storage)
           = IF ~ isDetection THEN Parsed("NOT_A_DETECTION", EmptyAlert)
             ELSE IF ~ isUsable THEN Parsed("MALFORMED", EmptyAlert)
             ELSE Parsed("OK", built)
    BY DEF ttskw07ParseLine, alertInit, isDetection, isUsable, built
  <2> QED
    BY <2>1 DEF Parsed
<1>2. afterF \in Nat \ {0}
  BY LabelIsAPlace
<1> HIDE DEF afterF
<1>3. afterR \in Nat \ {0}
  BY <1>2, LabelIsAPlace
<1> HIDE DEF afterR
<1>4. afterT \in Nat \ {0}
  <2>1. Len(line) \in Nat /\ findLabel(line, afterR, "T:") \in Nat \ {0}
    BY <1>3, LabelIsAPlace
  <2> QED
    BY <2>1
<1> HIDE DEF afterT
<1>5. typeCode.value \in Nat \cup {Absent} /\ typeCode.end \in Nat \ {0}
  BY <1>4, UnsignedIs
<1> HIDE DEF typeCode
<1>6. description.length \in Nat
  <2> DEFINE begin == typeCode.end
  <2>1. begin \in Nat \ {0}
    BY <1>5
  <2> HIDE DEF begin
  <2>2. copyTrimmed(line, begin, DRONE_CLASS_CAPACITY).length \in Nat
    BY <2>1, TrimmedIs
  <2> QED
    BY <2>2 DEF begin
<1> HIDE DEF description, frequency, signal, missing
<1>7. CASE isDetection /\ isUsable
  <2> DEFINE code == typeCode.value
             threat == ttskw07ThreatFromCode(code)
             fields == DetectorFields(EmptyAlert, now, sequence, frequency.value, signal.value,
                                      code, threat)
             named == alertSetDroneClass(fields, description)
             name == Text(<<"TTSKW07">>, 7)
  <2>1. code \in TypeCodes
    BY <1>5, <1>7 DEF TypeCodes
  <2>2. threat \in Names(Threat)
    BY TablesAreNames
  <2>3. built = alertSetSource(named, name)
    BY DEF ttskw07Alert, DetectorFields
  <2> HIDE DEF code, threat, built
  <2>4. WholeAlert(fields)
    BY <2>1, <2>2, EmptyIsWhole, DetectorFieldsAreWhole
  <2> HIDE DEF fields
  <2>5. WholeAlert(named)
    BY <1>6, <2>4, ClassIsSet
  <2>6. name.length \in Nat
    BY TextIs
  <2> HIDE DEF named, name
  <2>7. WholeAlert(built)
    BY <2>3, <2>5, <2>6, SourceIsSet
  <2> QED
    BY <1>1, <1>7, <2>7
<1>8. CASE ~ (isDetection /\ isUsable)
  BY <1>1, <1>8, EmptyIsWhole
<1> QED
  BY <1>7, <1>8

-----------------------------------------------------------------------------
(* The parser of the DW01's records.                                        *)

\* Two hexadecimal digits are a byte.
LEMMA HexPairIs ==
    ASSUME NEW record, NEW from
    PROVE  readHexPairAt(record, from).value \in 0..255 \cup {Absent}
<1> DEFINE high == record[from]
           low == record[from + 1]
           there == from + 1 <= Len(record) /\ {high, low} \subseteq Names(Hexadecimals)
           S == Names(Decimals) \cup {"A", "B", "C", "D", "E", "F"}
           tail == <<"A", "B", "C", "D", "E", "F">>
<1>1. Hexadecimals \in Seq(S) /\ Len(Hexadecimals) = 16
  <2>1. Decimals \in Seq(S) /\ Len(Decimals) = 10
    BY DEF Decimals, Names
  <2>2. tail \in Seq(S) /\ Len(tail) = 6
    OBVIOUS
  <2>3. Hexadecimals = Decimals \o tail
    BY DEF Hexadecimals
  <2> HIDE DEF S, tail
  <2>4. Decimals \o tail \in Seq(S) /\ Len(Decimals \o tail) = Len(Decimals) + Len(tail)
    BY <2>1, <2>2, ConcatProperties
  <2> QED
    BY <2>1, <2>2, <2>3, <2>4
<1> HIDE DEF S
<1>2. ASSUME NEW char \in Names(Hexadecimals)
      PROVE  DigitValue(char) \in 0..15
  <2>1. WireValue(Hexadecimals, char) \in Nat /\ WireValue(Hexadecimals, char) < 16
    BY <1>1, WireValueIs
  <2> QED
    BY <2>1 DEF DigitValue
<1>3. readHexPairAt(record, from).value
         = IF there THEN 16 * DigitValue(high) + DigitValue(low) ELSE Absent
  <2>1. readHexPairAt(record, from)
           = IF there THEN [value |-> 16 * DigitValue(high) + DigitValue(low), end |-> from + 2]
             ELSE [value |-> Absent, end |-> from]
    BY DEF readHexPairAt
  <2> HIDE DEF there, high, low
  <2> QED
    BY <2>1
<1>4. CASE there
  <2>1. DigitValue(high) \in 0..15 /\ DigitValue(low) \in 0..15
    <3>1. high \in Names(Hexadecimals) /\ low \in Names(Hexadecimals)
      BY <1>4
    <3> QED
      BY <1>2, <3>1
  <2> HIDE DEF high, low
  <2>2. 16 * DigitValue(high) + DigitValue(low) \in 0..255
    BY <2>1
  <2> QED
    BY <1>3, <1>4, <2>2
<1>5. CASE ~ there
  BY <1>3, <1>5
<1> QED
  BY <1>4, <1>5

\* The two tables agree: what a model text begins with is the vendor.
TextMatches(text, threat) ==
    /\ text # Absent
    /\ text.length \in 0..63
    /\ threat \in {"DJI", "AUTEL"} => text.length # 0 /\ Head(text.of) = threat
    /\ threat = "FPV" => text.length # 0 /\ Head(text.of) = "FM"
    /\ threat = "UNKNOWN" =>
          text.length = 0 \/ Head(text.of) \notin {"DJI", "AUTEL", "FM"}

TextBegins(text, vendor) == text.length \in 1..63 /\ Head(text.of) = vendor

LEMMA BeginningsMatch ==
    ASSUME NEW text, text # Absent
    PROVE  /\ TextBegins(text, "DJI") => TextMatches(text, "DJI")
           /\ TextBegins(text, "AUTEL") => TextMatches(text, "AUTEL")
           /\ TextBegins(text, "FM") => TextMatches(text, "FPV")
           /\ TextBegins(text, "WiFi") => TextMatches(text, "UNKNOWN")
           /\ TextBegins(text, "Unrecognized") => TextMatches(text, "UNKNOWN")
           /\ text.length = 0 => TextMatches(text, "UNKNOWN")
BY DEF TextBegins, TextMatches

LEMMA TablesAgree ==
    ASSUME NEW code \in 0..255
    PROVE  TextMatches(dw01ModelTextFromCode(code), dw01ThreatFromCode(code))
<1>1. dw01ModelTextFromCode(code) # Absent
  BY ModelTextAssumption
<1>2. CASE code \in 1..7
  <2>1. dw01ThreatFromCode(code) = "DJI"
    BY <1>2 DEF dw01ThreatFromCode
  <2>2. dw01ModelTextFromCode(code) \in {Text(<<"DJI", "LB">>, 56),
           Text(<<"DJI", "OCU">>, 62),
           Text(<<"DJI", "Special", "Phantom">>, 26),
           Text(<<"DJI", "Special", "MINI">>, 19),
           Text(<<"DJI", "O3+">>, 30),
           Text(<<"DJI", "O3">>, 41),
           Text(<<"DJI", "O4">>, 29)}
    BY <1>2 DEF dw01ModelTextFromCode
  <2>3. TextBegins(dw01ModelTextFromCode(code), "DJI")
    BY <2>2 DEF TextBegins, Text
  <2> QED
    BY <1>1, <2>1, <2>3, BeginningsMatch
<1>3. CASE code \in 16..18
  <2>1. dw01ThreatFromCode(code) = "AUTEL"
    BY <1>3 DEF dw01ThreatFromCode
  <2>2. dw01ModelTextFromCode(code) \in {Text(<<"AUTEL", "EVO", "2">>, 20),
           Text(<<"AUTEL", "LITE/NANO">>, 24),
           Text(<<"AUTEL", "EVO", "2", "PRO">>, 24)}
    BY <1>3 DEF dw01ModelTextFromCode
  <2>3. TextBegins(dw01ModelTextFromCode(code), "AUTEL")
    BY <2>2 DEF TextBegins, Text
  <2> QED
    BY <1>1, <2>1, <2>3, BeginningsMatch
<1>4. CASE code = 32
  <2>1. dw01ThreatFromCode(code) = "FPV"
    BY <1>4 DEF dw01ThreatFromCode
  <2>2. dw01ModelTextFromCode(code) \in {Text(<<"FM", "Analog">>, 34)}
    BY <1>4 DEF dw01ModelTextFromCode
  <2>3. TextBegins(dw01ModelTextFromCode(code), "FM")
    BY <2>2 DEF TextBegins, Text
  <2> QED
    BY <1>1, <2>1, <2>3, BeginningsMatch
<1>5. CASE code \notin 1..7 /\ code \notin 16..18 /\ code # 32
  <2>1. dw01ThreatFromCode(code) = "UNKNOWN"
    BY <1>5 DEF dw01ThreatFromCode
  <2>2. dw01ModelTextFromCode(code) \in {Text(<<"WiFi">>, 45), Text(<<"Unrecognized">>, 12), EmptyText}
    BY <1>5 DEF dw01ModelTextFromCode
  <2>3. \/ TextBegins(dw01ModelTextFromCode(code), "WiFi")
        \/ TextBegins(dw01ModelTextFromCode(code), "Unrecognized")
        \/ dw01ModelTextFromCode(code).length = 0
    BY <2>2 DEF TextBegins, Text, EmptyText
  <2> QED
    BY <1>1, <2>1, <2>3, BeginningsMatch
<1> QED
  BY <1>2, <1>3, <1>4, <1>5

\* What is said of the model text, of an alert.
ModelMatches(a) ==
    LET vendor == IF a.droneClass = Absent THEN "none" ELSE Head(a.droneClass.of)
    IN  /\ vendor \in {"DJI", "AUTEL"} => a.threat = vendor
        /\ a.threat \in {"DJI", "AUTEL"} => vendor = a.threat
        /\ a.threat = "FPV" <=> vendor = "FM"

\* Whatever the record, the parser leaves a whole alert, and one whose class
\* matches its threat if it is a detection.
LEMMA ParsedRecordIsWhole ==
    ASSUME NEW record, NEW now \in Instants, NEW sequence \in Instants, NEW storage
    PROVE  /\ WholeAlert(dw01ParseLine(record, now, sequence, storage).alert)
           /\ dw01ParseLine(record, now, sequence, storage).result = "OK" =>
                 ModelMatches(dw01ParseLine(record, now, sequence, storage).alert)
<1> DEFINE frequency == readBoundedUnsignedAt(record, 2, 4)
           signal == readBoundedUnsignedAt(record, frequency.end + 1, 3)
           typeCode == readHexPairAt(record, signal.end + 1)
           isRecord == Len(record) <= DW01_MAX_LINE /\ CharAt(record, 1) = "F"
           isUsable ==
              /\ frequency.value # Absent /\ CharAt(record, frequency.end) = "R"
              /\ signal.value # Absent /\ CharAt(record, signal.end) = "T"
              /\ typeCode.value # Absent
           built == dw01Alert(EmptyAlert, now, sequence, frequency.value, signal.value,
                              typeCode.value)
           parsed == dw01ParseLine(record, now, sequence, storage)
<1>1. IF isRecord /\ isUsable THEN parsed.alert = built
      ELSE parsed.alert = EmptyAlert /\ parsed.result # "OK"
  <2> HIDE DEF isRecord, isUsable, built
  <2>1. parsed = IF ~ isRecord THEN Parsed("NOT_A_DETECTION", EmptyAlert)
                 ELSE IF ~ isUsable THEN Parsed("MALFORMED", EmptyAlert)
                 ELSE Parsed("OK", built)
    BY DEF dw01ParseLine, alertInit, isRecord, isUsable, built
  <2> QED
    BY <2>1 DEF Parsed
<1>2. typeCode.value \in 0..255 \cup {Absent}
  <2> DEFINE from == signal.end + 1
  <2> HIDE DEF from
  <2>1. readHexPairAt(record, from).value \in 0..255 \cup {Absent}
    BY HexPairIs
  <2> QED
    BY <2>1 DEF from
<1> HIDE DEF typeCode, frequency, signal, parsed
<1>3. CASE isRecord /\ isUsable
  <2> DEFINE code == typeCode.value
             threat == dw01ThreatFromCode(code)
             text == dw01ModelTextFromCode(code)
             fields == DetectorFields(EmptyAlert, now, sequence, frequency.value, signal.value,
                                      code, threat)
             named == alertSetDroneClass(fields, text)
             name == Text(<<"DW01">>, 4)
  <2>1. code \in 0..255
    BY <1>2, <1>3
  <2>2. code \in TypeCodes
    BY <2>1 DEF TypeCodes
  <2>3. threat \in Names(Threat)
    BY TablesAreNames
  <2>4. built = alertSetSource(named, name)
    BY DEF dw01Alert, DetectorFields
  <2> HIDE DEF code
  <2>5. TextMatches(text, threat)
    BY <2>1, TablesAgree
  <2> HIDE DEF threat, text, built
  <2>6. WholeAlert(fields) /\ fields.threat = threat
    BY <2>2, <2>3, EmptyIsWhole, DetectorFieldsAreWhole
  <2> HIDE DEF fields
  <2>7. text.length \in Nat
    BY <2>5 DEF TextMatches
  <2>8. /\ WholeAlert(named) /\ named.droneClass = setBoundedField(text, DRONE_CLASS_CAPACITY)
        /\ named.threat = fields.threat
    <3>1. "threat" \in AlertFields \ {"droneClass"}
      BY DEF AlertFields, EmptyAlert
    <3> QED
      BY <2>6, <2>7, <3>1, ClassIsSet
  <2>9. name.length \in Nat
    BY TextIs
  <2> HIDE DEF named, name
  <2>10. /\ WholeAlert(built) /\ built.droneClass = named.droneClass
         /\ built.threat = named.threat
    <3>1. "threat" \in AlertFields \ {"source"} /\ "droneClass" \in AlertFields \ {"source"}
      BY DEF AlertFields, EmptyAlert
    <3> QED
      BY <2>4, <2>8, <2>9, <3>1, SourceIsSet
  <2>11. built.threat = threat /\ built.droneClass = setBoundedField(text, DRONE_CLASS_CAPACITY)
    BY <2>6, <2>8, <2>10
  <2>12. ModelMatches(built)
    <3>1. CASE text.length = 0
      <4>1. built.droneClass = Absent /\ threat = "UNKNOWN"
        BY <2>3, <2>5, <2>11, <3>1 DEF setBoundedField, TextMatches, Names, Threat
      <4> QED
        BY <2>11, <4>1 DEF ModelMatches
    <3>2. CASE text.length # 0
      <4>1. built.droneClass = text /\ text # Absent
        BY <2>5, <2>7, <2>11, <3>2
        DEF setBoundedField, TooLarge, TextMatches, DRONE_CLASS_CAPACITY
      <4>2. /\ threat \in {"DJI", "AUTEL"} => Head(text.of) = threat
            /\ threat = "FPV" => Head(text.of) = "FM"
            /\ threat = "UNKNOWN" => Head(text.of) \notin {"DJI", "AUTEL", "FM"}
        BY <2>5, <3>2 DEF TextMatches
      <4>3. threat \in {"UNKNOWN", "FPV", "DJI", "AUTEL"}
        BY <2>3 DEF Names, Threat
      <4> QED
        BY <2>11, <4>1, <4>2, <4>3 DEF ModelMatches
    <3> QED
      BY <3>1, <3>2
  <2> QED
    BY <1>1, <1>3, <2>10, <2>12 DEF parsed
<1>4. CASE ~ (isRecord /\ isUsable)
  BY <1>1, <1>4, EmptyIsWhole DEF parsed
<1> QED
  BY <1>3, <1>4

-----------------------------------------------------------------------------
(* The alerts that are typed, and the mock ones.                            *)

LEMMA StartedIsWhole ==
    ASSUME NEW now \in Instants, NEW sequence \in Instants, NEW storage, NEW name,
           name.length \in Nat
    PROVE  /\ WholeAlert(Started(storage, now, sequence, name))
           /\ Started(storage, now, sequence, name).detectorLatencyMs = Absent
           /\ WholeAlert(Contact(storage, now, sequence, name))
           /\ Contact(storage, now, sequence, name).detectorLatencyMs = Absent
<1> DEFINE a == [EmptyAlert EXCEPT !.timestampMs = now, !.sequence = sequence]
           b == [EmptyAlert EXCEPT !.alertKind = "contact", !.timestampMs = now,
                                   !.sequence = sequence, !.severity = "LOW"]
<1>1. "detectorLatencyMs" \in AlertFields \ {"source"}
  BY DEF AlertFields, EmptyAlert
<1>2. "contact" \in Names(AlertKind) /\ "LOW" \in Names(Severity)
  BY DEF AlertKind, Severity, Names
<1>3. WholeAlert(a) /\ a.detectorLatencyMs = Absent
  <2>1. /\ DOMAIN a = AlertFields
        /\ a.timestampMs = now /\ a.sequence = sequence
        /\ \A f \in AlertFields \ {"timestampMs", "sequence"} : a[f] = EmptyAlert[f]
    BY DEF AlertFields, EmptyAlert
  <2> HIDE DEF a
  <2>2. WholeAlert(a)
    BY <2>1, EmptyIsWhole DEF WholeAlert, IsAlert, Instants, AlertFields, EmptyAlert
  <2>3. a.detectorLatencyMs = Absent
    BY <2>1 DEF AlertFields, EmptyAlert
  <2> QED
    BY <2>2, <2>3
<1>4. WholeAlert(b) /\ b.detectorLatencyMs = Absent
  <2>1. /\ DOMAIN b = AlertFields
        /\ b.timestampMs = now /\ b.sequence = sequence
        /\ b.alertKind = "contact" /\ b.severity = "LOW"
        /\ \A f \in AlertFields \ {"timestampMs", "sequence", "alertKind", "severity"} :
              b[f] = EmptyAlert[f]
    BY DEF AlertFields, EmptyAlert
  <2> HIDE DEF b
  <2>2. WholeAlert(b)
    BY <1>2, <2>1, EmptyIsWhole DEF WholeAlert, IsAlert, Instants, AlertFields, EmptyAlert
  <2>3. b.detectorLatencyMs = Absent
    BY <2>1 DEF AlertFields, EmptyAlert
  <2> QED
    BY <2>2, <2>3
<1>5. /\ Started(storage, now, sequence, name) = alertSetSource(a, name)
      /\ Contact(storage, now, sequence, name) = alertSetSource(b, name)
  BY DEF Started, Contact, alertInit, alertInitContact
<1> HIDE DEF a, b
<1> QED
  BY <1>1, <1>3, <1>4, <1>5, SourceIsSet

LEMMA FilledIsWhole ==
    ASSUME NEW a, WholeAlert(a), a.detectorLatencyMs = Absent, NEW text, text.length \in Nat,
           NEW threat \in Names(Threat), NEW severity \in Names(Severity), NEW band \in Names(Band),
           NEW distance \in Names(Distance), NEW confidence \in 0..100
    PROVE  /\ WholeAlert(Filled(a, threat, severity, band, distance, confidence, text))
           /\ Filled(a, threat, severity, band, distance, confidence, text).detectorLatencyMs = Absent
<1> DEFINE b == [a EXCEPT !.threat = threat, !.severity = severity, !.band = band,
                          !.distance = distance, !.confidence = confidence]
<1>1. /\ DOMAIN b = AlertFields
      /\ b.threat = threat /\ b.severity = severity /\ b.band = band
      /\ b.distance = distance /\ b.confidence = confidence
      /\ \A f \in AlertFields \ {"threat", "severity", "band", "distance", "confidence"} :
            b[f] = a[f]
  BY DEF WholeAlert, AlertFields, EmptyAlert
<1>2. Filled(a, threat, severity, band, distance, confidence, text) = alertSetDroneClass(b, text)
  BY DEF Filled
<1> HIDE DEF b
<1>3. WholeAlert(b) /\ b.detectorLatencyMs = Absent
  BY <1>1 DEF WholeAlert, IsAlert, AlertFields, EmptyAlert
<1>4. "detectorLatencyMs" \in AlertFields \ {"droneClass"}
  BY DEF AlertFields, EmptyAlert
<1> QED
  BY <1>2, <1>3, <1>4, ClassIsSet

\* The names the shortcuts and the mock alerts use.
LEMMA ProvidedNames ==
    /\ {"FPV", "DJI", "UNKNOWN"} \subseteq Names(Threat)
    /\ {"MEDIUM", "HIGH", "CRITICAL"} \subseteq Names(Severity)
    /\ {"5.8GHz", "2.4GHz", "MULTI"} \subseteq Names(Band)
    /\ {"NEAR", "MID"} \subseteq Names(Distance)
    /\ Fpv.length \in Nat /\ Mavic.length \in Nat /\ Autel.length \in Nat
    /\ Unknown.length \in Nat /\ Typed.length \in Nat /\ Mock.length \in Nat
<1>1. {"FPV", "DJI", "UNKNOWN"} \subseteq Names(Threat)
  BY DEF Threat, Names
<1>2. {"MEDIUM", "HIGH", "CRITICAL"} \subseteq Names(Severity)
  BY DEF Severity, Names
<1>3. {"5.8GHz", "2.4GHz", "MULTI"} \subseteq Names(Band)
  BY DEF Band, Names
<1>4. {"NEAR", "MID"} \subseteq Names(Distance)
  BY DEF Distance, Names
<1>5. /\ Fpv.length \in Nat /\ Mavic.length \in Nat /\ Autel.length \in Nat
      /\ Unknown.length \in Nat /\ Typed.length \in Nat /\ Mock.length \in Nat
  BY DEF Fpv, Mavic, Autel, Unknown, Typed, Mock, Text
<1> QED
  BY <1>1, <1>2, <1>3, <1>4, <1>5

FilledWhole(a, threat, severity, band, distance, confidence, text) ==
    /\ WholeAlert(Filled(a, threat, severity, band, distance, confidence, text))
    /\ Filled(a, threat, severity, band, distance, confidence, text).detectorLatencyMs = Absent

LEMMA ProvidedAreWhole ==
    ASSUME NEW a, WholeAlert(a), a.detectorLatencyMs = Absent
    PROVE  /\ FilledWhole(a, "FPV", "HIGH", "5.8GHz", "NEAR", 87, Fpv)
           /\ FilledWhole(a, "DJI", "MEDIUM", "2.4GHz", "MID", 72, Mavic)
           /\ FilledWhole(a, "UNKNOWN", "MEDIUM", "2.4GHz", "MID", 70, Autel)
           /\ FilledWhole(a, "UNKNOWN", "HIGH", "MULTI", "NEAR", 94, Unknown)
           /\ FilledWhole(a, "UNKNOWN", "CRITICAL", "MULTI", "NEAR", 94, Unknown)
<1>1. FilledWhole(a, "FPV", "HIGH", "5.8GHz", "NEAR", 87, Fpv)
  <2>1. /\ "FPV" \in Names(Threat) /\ "HIGH" \in Names(Severity)
        /\ "5.8GHz" \in Names(Band) /\ "NEAR" \in Names(Distance)
        /\ 87 \in 0..100 /\ Fpv.length \in Nat
    BY ProvidedNames
  <2> QED
    BY <2>1, FilledIsWhole, Zenon DEF FilledWhole
<1>2. FilledWhole(a, "DJI", "MEDIUM", "2.4GHz", "MID", 72, Mavic)
  <2>1. /\ "DJI" \in Names(Threat) /\ "MEDIUM" \in Names(Severity)
        /\ "2.4GHz" \in Names(Band) /\ "MID" \in Names(Distance)
        /\ 72 \in 0..100 /\ Mavic.length \in Nat
    BY ProvidedNames
  <2> QED
    BY <2>1, FilledIsWhole, Zenon DEF FilledWhole
<1>3. FilledWhole(a, "UNKNOWN", "MEDIUM", "2.4GHz", "MID", 70, Autel)
  <2>1. /\ "UNKNOWN" \in Names(Threat) /\ "MEDIUM" \in Names(Severity)
        /\ "2.4GHz" \in Names(Band) /\ "MID" \in Names(Distance)
        /\ 70 \in 0..100 /\ Autel.length \in Nat
    BY ProvidedNames
  <2> QED
    BY <2>1, FilledIsWhole, Zenon DEF FilledWhole
<1>4. FilledWhole(a, "UNKNOWN", "HIGH", "MULTI", "NEAR", 94, Unknown)
  <2>1. /\ "UNKNOWN" \in Names(Threat) /\ "HIGH" \in Names(Severity)
        /\ "MULTI" \in Names(Band) /\ "NEAR" \in Names(Distance)
        /\ 94 \in 0..100 /\ Unknown.length \in Nat
    BY ProvidedNames
  <2> QED
    BY <2>1, FilledIsWhole, Zenon DEF FilledWhole
<1>5. FilledWhole(a, "UNKNOWN", "CRITICAL", "MULTI", "NEAR", 94, Unknown)
  <2>1. /\ "UNKNOWN" \in Names(Threat) /\ "CRITICAL" \in Names(Severity)
        /\ "MULTI" \in Names(Band) /\ "NEAR" \in Names(Distance)
        /\ 94 \in 0..100 /\ Unknown.length \in Nat
    BY ProvidedNames
  <2> QED
    BY <2>1, FilledIsWhole, Zenon DEF FilledWhole
<1> QED
  BY <1>1, <1>2, <1>3, <1>4, <1>5

LEMMA ShortcutIsWhole ==
    ASSUME NEW a, WholeAlert(a), a.detectorLatencyMs = Absent, NEW token
    PROVE  WholeAlert(Shortcut(a, token))
BY ProvidedAreWhole, Zenon DEF Shortcut, FilledWhole

LEMMA MockIsWhole ==
    ASSUME NEW i \in 0..3, NEW storage, NEW now \in Instants, NEW sequence \in Instants
    PROVE  /\ WholeAlert(build(i, storage, now, sequence))
           /\ build(i, storage, now, sequence).detectorLatencyMs = Absent
<1> DEFINE started == Started(storage, now, sequence, Mock)
           banded == [started EXCEPT !.bands = MockBands(i)]
           contact == Contact(started, now, sequence, Mock)
<1>1. WholeAlert(started) /\ started.detectorLatencyMs = Absent
  BY ProvidedNames, StartedIsWhole
<1>2. WholeAlert(contact) /\ contact.detectorLatencyMs = Absent
  BY ProvidedNames, StartedIsWhole
<1>3. build(i, storage, now, sequence)
        = IF i = 0 THEN Filled(banded, "FPV", "HIGH", "5.8GHz", "NEAR", 87, Fpv)
          ELSE IF i = 1 THEN Filled(banded, "DJI", "MEDIUM", "2.4GHz", "MID", 72, Mavic)
          ELSE IF i = 2 THEN Filled(banded, "UNKNOWN", "CRITICAL", "MULTI", "NEAR", 94, Unknown)
          ELSE contact
  BY DEF build
<1> HIDE DEF started, contact
<1>4. ASSUME i \in 0..2 PROVE MockBands(i) \in [1..4 -> Names(BandStrength)]
  <2>1. {"LOW", "MED", "HIGH"} \subseteq Names(BandStrength)
    BY DEF BandStrength, Names
  <2>2. MockBands(i) \in {<<"LOW", "LOW", "MED", "HIGH">>, <<"LOW", "MED", "MED", "LOW">>,
                          <<"HIGH", "MED", "MED", "HIGH">>}
    BY <1>4 DEF MockBands
  <2>3. MockBands(i) \in [1..4 -> {"LOW", "MED", "HIGH"}]
    BY <2>2
  <2> QED
    BY <2>1, <2>3
<1>5. ASSUME i \in 0..2 PROVE WholeAlert(banded) /\ banded.detectorLatencyMs = Absent
  <2> DEFINE bands == MockBands(i)
  <2>1. bands \in [1..4 -> Names(BandStrength)]
    BY <1>4, <1>5
  <2> HIDE DEF bands
  <2>2. /\ DOMAIN banded = AlertFields /\ banded.bands = bands
        /\ \A f \in AlertFields \ {"bands"} : banded[f] = started[f]
    BY <1>1 DEF WholeAlert, AlertFields, EmptyAlert, bands
  <2> HIDE DEF banded
  <2> QED
    BY <1>1, <2>1, <2>2 DEF WholeAlert, IsAlert, AlertFields, EmptyAlert
<1> HIDE DEF banded
<1>6. CASE i = 0
  BY <1>3, <1>5, <1>6, ProvidedAreWhole DEF FilledWhole
<1>7. CASE i = 1
  BY <1>3, <1>5, <1>7, ProvidedAreWhole DEF FilledWhole
<1>8. CASE i = 2
  BY <1>3, <1>5, <1>8, ProvidedAreWhole DEF FilledWhole
<1>9. CASE i = 3
  BY <1>2, <1>3, <1>9
<1> QED
  BY <1>6, <1>7, <1>8, <1>9

-----------------------------------------------------------------------------
(* What poll() makes of a line.                                             *)

LEMMA RemainderIs ==
    ASSUME NEW m \in Nat \ {0}, NEW n \in 0..(2 * m - 1)
    PROVE  n % m = IF n < m THEN n ELSE n - m
OBVIOUS

\* The clock wraps, and what is measured across the wrap is what it took.
LEMMA ElapsedIsTaken ==
    ASSUME NEW ingest \in Instants, NEW took \in Instants
    PROVE  /\ Later(ingest, took) \in Instants
           /\ Elapsed(ingest, Later(ingest, took)) = took
<1> DEFINE m == WordLimit
           n == ingest + took
           later == n % m
           k == later + (m - ingest)
<1>1. m \in Nat \ {0} /\ ingest \in 0..(m - 1) /\ took \in 0..(m - 1)
  BY WordAssumption DEF Instants
<1>2. Later(ingest, took) = later
  BY DEF Later
<1>3. Elapsed(ingest, later) = k % m
  <2> HIDE DEF n, later
  <2> QED
    BY DEF Elapsed
<1>4. n \in 0..(2 * m - 1)
  BY <1>1
<1>5. later = IF n < m THEN n ELSE n - m
  <2> HIDE DEF n, m
  <2> QED
    BY <1>1, <1>4, RemainderIs
<1> HIDE DEF later, m
<1>6. later \in 0..(m - 1) /\ k \in 0..(2 * m - 1) /\ (k = took \/ k = took + m)
  BY <1>1, <1>5
<1>7. k % m = IF k < m THEN k ELSE k - m
  <2> HIDE DEF k
  <2> QED
    BY <1>1, <1>6, RemainderIs
<1>8. k % m = took
  BY <1>1, <1>6, <1>7
<1>9. Later(ingest, took) \in Instants
  BY <1>2, <1>6 DEF Instants, m
<1> QED
  BY <1>2, <1>3, <1>8, <1>9

StampedWith(a, moment, latency) ==
    [a EXCEPT !.timestampMs = moment, !.detectorLatencyMs = latency]

LEMMA StampedIsWhole ==
    ASSUME NEW a, WholeAlert(a), NEW moment \in Instants, NEW latency \in Instants \cup {Absent}
    PROVE  /\ WholeAlert(StampedWith(a, moment, latency))
           /\ StampedWith(a, moment, latency).detectorLatencyMs = latency
           /\ StampedWith(a, moment, latency).threat = a.threat
           /\ StampedWith(a, moment, latency).droneClass = a.droneClass
<1> DEFINE b == [a EXCEPT !.timestampMs = moment, !.detectorLatencyMs = latency]
<1>1. /\ DOMAIN b = AlertFields /\ b.timestampMs = moment /\ b.detectorLatencyMs = latency
      /\ \A f \in AlertFields \ {"timestampMs", "detectorLatencyMs"} : b[f] = a[f]
  BY DEF WholeAlert, AlertFields, EmptyAlert
<1> HIDE DEF b
<1>2. WholeAlert(b) /\ b.threat = a.threat /\ b.droneClass = a.droneClass
  BY <1>1 DEF WholeAlert, IsAlert, Instants, AlertFields, EmptyAlert
<1> QED
  BY <1>1, <1>2 DEF StampedWith, b

\* What is typed or pasted.
LEMMA BuiltIsWhole ==
    ASSUME NEW line \in Seq(Tokens), NEW now \in Instants, NEW sequence \in Instants, NEW storage
    PROVE  WholeAlert(buildAlert(line, now, sequence, storage).alert)
<1> DEFINE pasted == ttskw07ParseLine(line, now, sequence, storage)
           started == Started(pasted.alert, now, sequence, Typed)
           shortcut == Shortcut(started, line[1].is)
           contact == Contact(started, now, sequence, Typed)
<1>1. WholeAlert(pasted.alert)
  BY ParsedLineIsWhole
<1>2. WholeAlert(started) /\ started.detectorLatencyMs = Absent
  BY ProvidedNames, StartedIsWhole
<1>3. WholeAlert(contact)
  BY ProvidedNames, StartedIsWhole
<1>4. buildAlert(line, now, sequence, storage) \in
         {pasted, Parsed("OK", shortcut), Parsed("OK", contact), Parsed("UNRECOGNIZED", started)}
  <2> HIDE DEF shortcut
  <2> QED
    BY DEF buildAlert, shortcut
<1> HIDE DEF started, pasted, contact
<1>5. WholeAlert(shortcut)
  BY <1>2, ShortcutIsWhole
<1> HIDE DEF shortcut
<1> QED
  BY <1>1, <1>2, <1>3, <1>4, <1>5 DEF Parsed

\* The adapters: a whole alert, and of a detection the latency and the class.
LEMMA PollIs ==
    ASSUME source \in Adapters, NEW line, source # "DW01" => line \in Seq(Tokens),
           NEW sequence \in Instants, NEW ingest \in Instants, NEW took \in Instants
    PROVE  LET r == Poll(line, sequence, ingest, took)
           IN  /\ WholeAlert(r.alert)
               /\ r.result = "OK" => r.alert.detectorLatencyMs =
                     IF source \in {"TTSKW07", "DW01"} THEN took ELSE Absent
               /\ r.result = "OK" /\ source = "DW01" => ModelMatches(r.alert)
<1> DEFINE r == Poll(line, sequence, ingest, took)
           later == Later(ingest, took)
<1>1. later \in Instants /\ Elapsed(ingest, later) = took
  BY ElapsedIsTaken
<1> HIDE DEF later
<1>2. CASE source = "TTSKW07"
  <2> DEFINE parsed == ttskw07ParseLine(line, ingest, sequence, alert)
             stamped == StampedWith(parsed.alert, later, took)
  <2>1. WholeAlert(parsed.alert)
    BY <1>2, ParsedLineIsWhole
  <2>2. r = IF parsed.result # "OK" THEN parsed ELSE Parsed("OK", stamped)
    BY <1>1, <1>2 DEF Poll, PollTTSKW07, Stamped, StampedWith, later
  <2> HIDE DEF parsed, r
  <2>3. WholeAlert(stamped) /\ stamped.detectorLatencyMs = took
    BY <1>1, <2>1, StampedIsWhole
  <2> HIDE DEF stamped
  <2>4. /\ WholeAlert(r.alert)
        /\ r.result = "OK" => r.alert.detectorLatencyMs = took
    BY <2>1, <2>2, <2>3 DEF Parsed
  <2> QED
    BY <1>2, <2>4 DEF r
<1>3. CASE source = "DW01"
  <2> DEFINE parsed == dw01ParseLine(line, ingest, sequence, alert)
             stamped == StampedWith(parsed.alert, later, took)
  <2>1. WholeAlert(parsed.alert) /\ (parsed.result = "OK" => ModelMatches(parsed.alert))
    BY ParsedRecordIsWhole
  <2>2. r = IF parsed.result # "OK" THEN parsed ELSE Parsed("OK", stamped)
    BY <1>1, <1>3 DEF Poll, PollDW01, Stamped, StampedWith, later
  <2> HIDE DEF parsed, r
  <2>3. /\ WholeAlert(stamped) /\ stamped.detectorLatencyMs = took
        /\ stamped.threat = parsed.alert.threat /\ stamped.droneClass = parsed.alert.droneClass
    <3> DEFINE base == parsed.alert
    <3>1. WholeAlert(base) /\ took \in Instants \cup {Absent}
      BY <2>1
    <3> HIDE DEF base
    <3>2. /\ WholeAlert(StampedWith(base, later, took))
          /\ StampedWith(base, later, took).detectorLatencyMs = took
          /\ StampedWith(base, later, took).threat = base.threat
          /\ StampedWith(base, later, took).droneClass = base.droneClass
      BY <1>1, <3>1, StampedIsWhole
    <3> QED
      BY <3>2 DEF base
  <2> HIDE DEF stamped
  <2>4. /\ WholeAlert(r.alert)
        /\ r.result = "OK" => r.alert = stamped /\ parsed.result = "OK"
    BY <2>1, <2>2, <2>3 DEF Parsed
  <2>5. ModelMatches(parsed.alert) => ModelMatches(stamped)
    BY <2>3 DEF ModelMatches
  <2> QED
    BY <1>3, <2>1, <2>3, <2>4, <2>5 DEF r
<1>4. CASE source = "SERIAL_INJECT"
  <2> DEFINE built == buildAlert(line, ingest, sequence, alert)
             stamped == StampedWith(built.alert, later, Absent)
  <2>1. WholeAlert(built.alert)
    BY <1>4, BuiltIsWhole
  <2>2. r = IF built.result # "OK" THEN built ELSE Parsed("OK", stamped)
    BY <1>4 DEF Poll, PollSerialInject, StampedWith, later
  <2> HIDE DEF built, r
  <2>3. WholeAlert(stamped) /\ stamped.detectorLatencyMs = Absent
    BY <1>1, <2>1, StampedIsWhole
  <2> HIDE DEF stamped
  <2>4. /\ WholeAlert(r.alert)
        /\ r.result = "OK" => r.alert.detectorLatencyMs = Absent
    BY <2>1, <2>2, <2>3 DEF Parsed
  <2> QED
    BY <1>4, <2>4 DEF r
<1> QED
  BY <1>2, <1>3, <1>4 DEF Adapters

-----------------------------------------------------------------------------
(* The invariant.                                                           *)

\* The alert has all its fields whenever one looks at it.
PipelineInvariant ==
    /\ PipelineTypeOK
    /\ DOMAIN alert = AlertFields
    /\ ModelTextMatchesThreat
    /\ LatencyIsMeasured

LEMMA InstantsAre ==
    /\ Moments \subseteq Instants
    /\ Durations \subseteq Instants
    /\ Sequences \subseteq Instants
BY AdaptersAssumption DEF Instants

LEMMA NothingIsSent ==
    /\ IsAlert(EmptyAlert)
    /\ PacketBytes(<<>>) \in 0..MAX_PAYLOAD_BYTES
<1>1. IsAlert(EmptyAlert)
  BY EmptyIsWhole DEF WholeAlert
<1> QED
  BY <1>1, BytesOfNone DEF MAX_PAYLOAD_BYTES

LEMMA PipelineStarts == PipelineInit => PipelineInvariant
<1> SUFFICES ASSUME PipelineInit PROVE PipelineInvariant
  OBVIOUS
<1>1. source \in Sources /\ mockIndex \in 0..3
  BY DEF PipelineInit, AdaptersInit
<1>2. WholeAlert(alert) /\ (stage = "polled" => source = "MOCK" /\ alert.detectorLatencyMs = Absent)
  <2>1. CASE source \in Adapters
    <3>1. alert = EmptyAlert /\ polled = NothingPolled
      BY <2>1 DEF PipelineInit, AdaptersInit
    <3>2. stage = "idle"
      BY <3>1 DEF PipelineInit, NothingPolled
    <3> QED
      BY <3>1, <3>2, EmptyIsWhole
  <2>2. CASE source \notin Adapters
    <3>1. PICK sequence \in Sequences, now \in Moments :
             alert = build(0, EmptyAlert, now, sequence)
      BY <2>2 DEF PipelineInit, AdaptersInit
    <3>2. sequence \in Instants /\ now \in Instants
      BY InstantsAre
    <3>3. WholeAlert(alert) /\ alert.detectorLatencyMs = Absent
      BY <3>1, <3>2, MockIsWhole
    <3> QED
      BY <1>1, <2>2, <3>3 DEF Sources
  <2> QED
    BY <2>1, <2>2
<1>3. sent = EmptyAlert /\ packet = <<>> /\ stage \in {"idle", "polled"}
  BY DEF PipelineInit, Nowhere
<1>4. PipelineTypeOK
  BY <1>1, <1>2, <1>3, NothingIsSent DEF PipelineTypeOK, WholeAlert
<1>5. ModelTextMatchesThreat /\ LatencyIsMeasured
  BY <1>2 DEF ModelTextMatchesThreat, LatencyIsMeasured
<1> QED
  BY <1>2, <1>4, <1>5 DEF PipelineInvariant, WholeAlert

\* The loop polls its detector.
LEMMA PollKeepsInvariant ==
    ASSUME PipelineInvariant, LoopPollsDetector
    PROVE  PipelineInvariant'
<1>1. /\ source \in Adapters /\ source' = source /\ mockIndex' = mockIndex
      /\ sent' = sent /\ packet' = packet
      /\ stage' = IF polled'.found THEN "polled" ELSE "idle"
  BY DEF LoopPollsDetector, PollDetector, Polled, linkVars
<1>2. PICK line \in Lines[source], sequence \in Sequences, ingest \in Moments, took \in Durations :
         LET result == Poll(line.text, sequence, ingest, took)
         IN  /\ alert' = result.alert
             /\ polled' = [found |-> result.result = "OK", fields |-> line.fields,
                           sequence |-> sequence, took |-> took]
  BY DEF LoopPollsDetector, PollDetector
<1> DEFINE text == line.text
           r == Poll(text, sequence, ingest, took)
<1>3. sequence \in Instants /\ ingest \in Instants /\ took \in Instants
  BY InstantsAre
<1>4. source # "DW01" => text \in Seq(Tokens)
  BY <1>1, AdaptersAssumption DEF Adapters
<1> HIDE DEF text
<1>5. /\ WholeAlert(r.alert)
      /\ r.result = "OK" => r.alert.detectorLatencyMs =
            IF source \in {"TTSKW07", "DW01"} THEN took ELSE Absent
      /\ r.result = "OK" /\ source = "DW01" => ModelMatches(r.alert)
  BY <1>1, <1>3, <1>4, PollIs
<1>6. /\ alert' = r.alert /\ polled'.took = took
      /\ stage' = "polled" => r.result = "OK"
      /\ stage' \in {"idle", "polled"}
  BY <1>1, <1>2 DEF text
<1> HIDE DEF r
<1>7. PipelineTypeOK'
  BY <1>1, <1>5, <1>6 DEF PipelineInvariant, PipelineTypeOK, WholeAlert
<1>8. LatencyIsMeasured'
  BY <1>1, <1>5, <1>6 DEF LatencyIsMeasured
<1>9. ModelTextMatchesThreat'
  BY <1>1, <1>5, <1>6 DEF ModelTextMatchesThreat, ModelMatches
<1>10. DOMAIN alert' = AlertFields
  BY <1>5, <1>6 DEF WholeAlert
<1> QED
  BY <1>7, <1>8, <1>9, <1>10 DEF PipelineInvariant, AlertFields, EmptyAlert

\* The loop polls the mock provider.
LEMMA MockKeepsInvariant ==
    ASSUME PipelineInvariant, LoopPollsMock
    PROVE  PipelineInvariant'
<1>1. /\ source = "MOCK" /\ source' = source /\ mockIndex' = (mockIndex + 1) % 4
      /\ sent' = sent /\ packet' = packet /\ stage' \in {"idle", "polled"}
  BY DEF LoopPollsMock, PollMockProvider, Polled, linkVars
<1>2. mockIndex' \in 0..3
  BY <1>1 DEF PipelineInvariant, PipelineTypeOK
<1>3. PICK sequence \in Sequences, now \in Moments :
         alert' = build(mockIndex', alert, now, sequence)
  BY DEF LoopPollsMock, PollMockProvider
<1>4. sequence \in Instants /\ now \in Instants
  BY InstantsAre
<1>5. WholeAlert(alert') /\ alert'.detectorLatencyMs = Absent
  BY <1>2, <1>3, <1>4, MockIsWhole
<1>6. PipelineTypeOK'
  BY <1>1, <1>2, <1>5 DEF PipelineInvariant, PipelineTypeOK, WholeAlert
<1>7. LatencyIsMeasured' /\ ModelTextMatchesThreat'
  BY <1>1, <1>5 DEF LatencyIsMeasured, ModelTextMatchesThreat
<1> QED
  BY <1>5, <1>6, <1>7 DEF PipelineInvariant, WholeAlert, AlertFields, EmptyAlert

\* The alert that is sent fits, whatever it is.
LEMMA PublishedFits ==
    ASSUME PipelineInvariant, publishAlert
    PROVE  /\ IsAlert(sent') /\ packet' # <<>>
           /\ PacketBytes(packet') \in 0..MAX_PAYLOAD_BYTES
<1>1. PICK spent \in Durations :
         /\ sent' = [alert EXCEPT !.timestampMs = Later(alert.timestampMs, spent)]
         /\ packet' = encodeAlert(sent', MAX_PAYLOAD_BYTES)
  BY DEF publishAlert, StampedForSending
<1> DEFINE moment == Later(alert.timestampMs, spent)
<1>2. moment \in Instants
  <2>1. alert.timestampMs \in Instants /\ spent \in Instants
    BY InstantsAre DEF PipelineInvariant, PipelineTypeOK, IsAlert, Instants
  <2> QED
    BY <2>1, ElapsedIsTaken
<1> HIDE DEF moment
<1>3. IsAlert(sent')
  <2> DEFINE b == [alert EXCEPT !.timestampMs = moment]
  <2>1. /\ b.timestampMs = moment
        /\ \A f \in AlertFields \ {"timestampMs"} : b[f] = alert[f]
    BY DEF PipelineInvariant, AlertFields, EmptyAlert
  <2>2. sent' = b
    BY <1>1 DEF moment
  <2> HIDE DEF b
  <2>3. IsAlert(b)
    BY <1>2, <2>1
    DEF PipelineInvariant, PipelineTypeOK, IsAlert, Instants, AlertFields, EmptyAlert
  <2> QED
    BY <2>2, <2>3
<1> QED
  BY <1>1, <1>3, AlertFits

LEMMA PublishKeepsInvariant ==
    ASSUME PipelineInvariant, publishAlert
    PROVE  PipelineInvariant'
<1>1. IsAlert(sent') /\ PacketBytes(packet') \in 0..MAX_PAYLOAD_BYTES
  BY PublishedFits
<1>2. /\ source' = source /\ alert' = alert /\ mockIndex' = mockIndex
      /\ stage' \in {"idle", "air"}
  BY DEF publishAlert
<1>3. PipelineTypeOK'
  BY <1>1, <1>2 DEF PipelineInvariant, PipelineTypeOK
<1> QED
  BY <1>2, <1>3 DEF PipelineInvariant, ModelTextMatchesThreat, LatencyIsMeasured, AlertFields, EmptyAlert

\* What happens on the radio and after it leaves the alert alone.
LEMMA RestKeepsInvariant ==
    ASSUME PipelineInvariant,
           source' = source, alert' = alert, mockIndex' = mockIndex, stage' \in {"shown", "idle"},
           sent' = sent \/ sent' = EmptyAlert, packet' = packet \/ packet' = <<>>
    PROVE  PipelineInvariant'
<1>1. IsAlert(sent') /\ PacketBytes(packet') \in 0..MAX_PAYLOAD_BYTES
  BY NothingIsSent DEF PipelineInvariant, PipelineTypeOK
<1>2. PipelineTypeOK'
  BY <1>1 DEF PipelineInvariant, PipelineTypeOK
<1> QED
  BY <1>2 DEF PipelineInvariant, ModelTextMatchesThreat, LatencyIsMeasured, AlertFields, EmptyAlert

LEMMA StepKeepsInvariant == PipelineInvariant /\ [PipelineNext]_pipelineVars => PipelineInvariant'
<1> SUFFICES ASSUME PipelineInvariant, [PipelineNext]_pipelineVars PROVE PipelineInvariant'
  OBVIOUS
<1>1. CASE LoopPollsDetector
  BY <1>1, PollKeepsInvariant
<1>2. CASE LoopPollsMock
  BY <1>2, MockKeepsInvariant
<1>3. CASE publishAlert
  BY <1>3, PublishKeepsInvariant
<1>4. ASSUME NEW how, NEW items, Decoded(how, items) PROVE PipelineInvariant'
  BY <1>4, RestKeepsInvariant DEF Decoded
<1>5. CASE ArrivesWhole
  BY <1>4, <1>5 DEF ArrivesWhole
<1>6. CASE ArrivesCut
  BY <1>4, <1>6 DEF ArrivesCut
<1>7. CASE ArrivesFromNewer
  BY <1>4, <1>7 DEF ArrivesFromNewer
<1>8. CASE ArrivesFromOther
  BY <1>4, <1>8 DEF ArrivesFromOther
<1>9. CASE LoopReturns
  BY <1>9, RestKeepsInvariant DEF LoopReturns
<1>10. CASE UNCHANGED pipelineVars
  BY <1>10 DEF pipelineVars, PipelineInvariant, PipelineTypeOK, ModelTextMatchesThreat,
               LatencyIsMeasured, AlertFields, EmptyAlert
<1> QED
  BY <1>1, <1>2, <1>3, <1>5, <1>6, <1>7, <1>8, <1>9, <1>10 DEF PipelineNext

-----------------------------------------------------------------------------
(* The theorems.                                                            *)

\* Whatever the lines say and whenever they are read, the alert of the bridge
\* has values its fields can hold, its texts end inside their buffers, and no
\* packet is larger than the buffer (the parsers, alertSetDroneClass, encodeAlert).
THEOREM PipelineTypeCorrect == PipelineSpec => []PipelineTypeOK
<1>1. PipelineInvariant => PipelineTypeOK
  BY DEF PipelineInvariant
<1> QED
  BY <1>1, PipelineStarts, StepKeepsInvariant, PTL DEF PipelineSpec

\* For every one of the 256 codes a record can hold, the vendor of the model
\* text is the threat of the alert (dw01ThreatFromCode, dw01ModelTextFromCode).
THEOREM ModelTextAlwaysMatches == PipelineSpec => []ModelTextMatchesThreat
<1>1. PipelineInvariant => ModelTextMatchesThreat
  BY DEF PipelineInvariant
<1> QED
  BY <1>1, PipelineStarts, StepKeepsInvariant, PTL DEF PipelineSpec

\* For a clock of any width, the latency of a detector is the time its line took,
\* wherever the clock wraps (Elapsed of poll()).
THEOREM LatencyIsAlwaysMeasured == PipelineSpec => []LatencyIsMeasured
<1>1. PipelineInvariant => LatencyIsMeasured
  BY DEF PipelineInvariant
<1> QED
  BY <1>1, PipelineStarts, StepKeepsInvariant, PTL DEF PipelineSpec

\* No alert is too long to be sent, for any text a line can hold and any number:
\* fewer than 140 bytes of 180 (publishAlert, encodeAlert).
THEOREM AlertsAreAlwaysSent == PipelineSpec => EveryAlertIsSent
<1>1. PipelineInvariant => (publishAlert => packet' # <<>>)
  BY PublishedFits
<1> QED
  BY <1>1, PipelineStarts, StepKeepsInvariant, PTL DEF PipelineSpec, EveryAlertIsSent
=============================================================================

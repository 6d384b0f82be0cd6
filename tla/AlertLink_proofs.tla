--------------------------- MODULE AlertLink_proofs ---------------------------
(***************************************************************************)
(* Theorems about the two decoders and the packet of an alert: any alert,  *)
(* cut at any byte, with an entry more of any value, of another version.   *)
(*                                                                         *)
(* A packet is laid out as its header and then one entry after another, so *)
(* a decoder that has read some entries whole stands in front of the next  *)
(* one, has found just the values of those fields, and has not failed.     *)
(* From this follow what the decoders answer and, with LinkInvariant, the  *)
(* three properties of what arrives at the end of the module.              *)
(***************************************************************************)
EXTENDS AlertPipeline_proofs

-----------------------------------------------------------------------------
(* Items that are whole.                                                    *)

Whole(x) == x.got = ItemBytes(x) /\ x.got >= HeadBytes(x) /\ x.got >= 1

Parts(texts) == {x \in ItemsWith(texts) : Whole(x)}

\* What the encoder writes of an item is what was asked for, and all of it.
LEMMA ItemIsWhole ==
    ASSUME NEW texts, NEW major \in Majors, NEW n \in Nat, NEW text \in texts
    PROVE  /\ Item(major, n, text) \in Parts(texts)
           /\ Item(major, n, text).major = major
           /\ Item(major, n, text).arg = n
           /\ Item(major, n, text).text = text
<1> DEFINE head == IF major = "null" THEN 1 ELSE 1 + ArgumentBytes(n)
           bytes == head + (IF major = "text" THEN n ELSE 0)
           x == [major |-> major, arg |-> n, text |-> text, got |-> bytes]
<1>1. head \in Nat /\ bytes \in Nat /\ head >= 1 /\ bytes >= head
  BY ArgumentIs
<1>2. Item(major, n, text) = x
  BY DEF Item, ItemBytes, HeadBytes
<1>3. HeadBytes(x) = head /\ ItemBytes(x) = bytes
  BY DEF ItemBytes, HeadBytes
<1>4. x.major = major /\ x.arg = n /\ x.text = text /\ x.got = bytes
  OBVIOUS
<1>5. x \in ItemsWith(texts)
  <2> HIDE DEF head, bytes
  <2> QED
    BY <1>1 DEF ItemsWith
<1> HIDE DEF head, bytes, x
<1>6. Whole(x)
  BY <1>1, <1>3, <1>4 DEF Whole
<1> QED
  BY <1>2, <1>4, <1>5, <1>6 DEF Parts

\* The same of each kind of item.
LEMMA UintIsWhole ==
    ASSUME NEW texts, EmptyText \in texts, NEW n \in Nat
    PROVE  Uint(n) \in Parts(texts) /\ Uint(n).major = "uint" /\ Uint(n).arg = n
<1> DEFINE kind == "uint"
<1>1. kind \in Majors
  BY DEF Majors
<1> HIDE DEF kind
<1>2. /\ Item(kind, n, EmptyText) \in Parts(texts) /\ Item(kind, n, EmptyText).major = kind
      /\ Item(kind, n, EmptyText).arg = n
  BY <1>1, ItemIsWhole
<1> QED
  BY <1>2 DEF Uint, kind

LEMMA NullIsWhole ==
    ASSUME NEW texts, EmptyText \in texts
    PROVE  Null \in Parts(texts) /\ Null.major = "null"
<1> DEFINE kind == "null"
<1>1. kind \in Majors
  BY DEF Majors
<1> HIDE DEF kind
<1>2. Item(kind, 0, EmptyText) \in Parts(texts) /\ Item(kind, 0, EmptyText).major = kind
  BY <1>1, ItemIsWhole
<1> QED
  BY <1>2 DEF Null, kind

LEMMA TextIsWhole ==
    ASSUME NEW texts, NEW text \in texts, text.length \in Nat
    PROVE  /\ TextString(text) \in Parts(texts) /\ TextString(text).major = "text"
           /\ TextString(text).text = text /\ TextString(text).arg = text.length
<1> DEFINE kind == "text"
           n == text.length
<1>1. kind \in Majors /\ n \in Nat
  BY DEF Majors
<1> HIDE DEF kind, n
<1>2. /\ Item(kind, n, text) \in Parts(texts) /\ Item(kind, n, text).major = kind
      /\ Item(kind, n, text).text = text /\ Item(kind, n, text).arg = n
  BY <1>1, ItemIsWhole
<1> QED
  BY <1>2 DEF TextString, kind, n

LEMMA ArrayIsWhole ==
    ASSUME NEW texts, EmptyText \in texts, NEW n \in Nat
    PROVE  ArrayHeader(n) \in Parts(texts) /\ ArrayHeader(n).major = "array" /\ ArrayHeader(n).arg = n
<1> DEFINE kind == "array"
<1>1. kind \in Majors
  BY DEF Majors
<1> HIDE DEF kind
<1>2. /\ Item(kind, n, EmptyText) \in Parts(texts) /\ Item(kind, n, EmptyText).major = kind
      /\ Item(kind, n, EmptyText).arg = n
  BY <1>1, ItemIsWhole
<1> QED
  BY <1>2 DEF ArrayHeader, kind

LEMMA MapIsWhole ==
    ASSUME NEW texts, EmptyText \in texts, NEW n \in Nat
    PROVE  MapHeader(n) \in Parts(texts) /\ MapHeader(n).major = "map" /\ MapHeader(n).arg = n
<1> DEFINE kind == "map"
<1>1. kind \in Majors
  BY DEF Majors
<1> HIDE DEF kind
<1>2. /\ Item(kind, n, EmptyText) \in Parts(texts) /\ Item(kind, n, EmptyText).major = kind
      /\ Item(kind, n, EmptyText).arg = n
  BY <1>1, ItemIsWhole
<1> QED
  BY <1>2 DEF MapHeader, kind

\* A reader that asks for a whole item gets one of its type.
LEMMA WholeIsRead ==
    ASSUME NEW P, NEW i \in DOMAIN P, Whole(P[i]), NEW major
    PROVE  /\ HasWhole(P, i, major) <=> P[i].major = major
           /\ HasHead(P, i, major) <=> P[i].major = major
BY DEF HasWhole, HasHead, Whole

\* The watch reads it too when its argument is no longer than four bytes.
LEMMA WholeIsReadable ==
    ASSUME NEW P, NEW i \in DOMAIN P, Whole(P[i]), NEW major, P[i].arg \in 0..(WordLimit - 1)
    PROVE  Readable(P, i, major) <=> P[i].major = major
<1>1. P[i].arg < WordLimit
  BY WordAssumption
<1> QED
  BY <1>1, WholeIsRead DEF Readable

LEMMA SmallFits == \A n \in Nat : n <= 65535 => n \in 0..(WordLimit - 1)
BY WordAssumption

-----------------------------------------------------------------------------
(* The fields of an alert and their values on the wire.                     *)

Fields == DOMAIN Keys

\* The fields that are written of this alert.
Present(a, f) == f \in OptionalFields => a[f] # Absent

NumberOf(a, f) == IF f \in DOMAIN EnumOf THEN WireValue(EnumOf[f], a[f]) ELSE a[f]

LEMMA FieldsAre ==
    /\ Fields = NumberFields \cup {"protocolVersion", "confidence", "droneClass", "source", "bands"}
    /\ Fields = AlertFields \cup {"protocolVersion"}
    /\ "protocolVersion" \notin AlertFields
    /\ Required \cup OptionalFields = AlertFields
    /\ Required \cap OptionalFields = {}
    /\ {"protocolVersion", "confidence", "droneClass", "source", "bands"} \cap NumberFields = {}
    /\ NumberFields = DOMAIN EnumOf \cup {"timestampMs", "sequence", "detectorLatencyMs",
                                          "detectorTypeCode"}
    /\ {"timestampMs", "sequence", "detectorLatencyMs", "detectorTypeCode"} \cap DOMAIN EnumOf = {}
BY DEF Fields, Keys, NumberFields, Greatest, AlertFields, EmptyAlert, Required, OptionalFields, EnumOf

\* The key of a field is below 17 and is that of no other.
LEMMA KeyIs ==
    ASSUME NEW f \in Fields
    PROVE  Keys[f] \in 1..16 /\ FieldOf(Keys[f]) = f
<1>1. \A g, h \in Fields : Keys[g] = Keys[h] => g = h
  BY DEF Fields, Keys
<1>2. Keys[f] \in 1..16
  BY DEF Fields, Keys
<1> DEFINE x == CHOOSE g \in DOMAIN Keys : Keys[g] = Keys[f]
<1>3. x \in DOMAIN Keys /\ Keys[x] = Keys[f]
  BY DEF Fields
<1>4. FieldOf(Keys[f]) = x
  BY DEF FieldOf, Fields
<1> HIDE DEF x
<1> QED
  BY <1>1, <1>2, <1>3, <1>4 DEF Fields

LEMMA UnknownKey == FieldOf(17) = "unknown" /\ "unknown" \notin Fields
<1>1. \A f \in DOMAIN Keys : Keys[f] # 17
  BY DEF Keys
<1>2. "unknown" \notin Fields
  BY DEF Fields, Keys
<1> QED
  BY <1>1, <1>2 DEF FieldOf

\* An enum has as many names as its field may carry numbers.
LEMMA EnumIs ==
    ASSUME NEW f \in DOMAIN EnumOf
    PROVE  /\ EnumOf[f] \in Seq(Names(EnumOf[f]))
           /\ Len(EnumOf[f]) = Greatest[f] + 1
           /\ Greatest[f] \in 1..5
<1>1. CASE f = "sensorType"
  BY <1>1 DEF EnumOf, Greatest, SensorType, Names
<1>2. CASE f = "alertKind"
  BY <1>2 DEF EnumOf, Greatest, AlertKind, Names
<1>3. CASE f = "threat"
  BY <1>3 DEF EnumOf, Greatest, Threat, Names
<1>4. CASE f = "severity"
  BY <1>4 DEF EnumOf, Greatest, Severity, Names
<1>5. CASE f = "band"
  BY <1>5 DEF EnumOf, Greatest, Band, Names
<1>6. CASE f = "distance"
  BY <1>6 DEF EnumOf, Greatest, Distance, Names
<1>7. CASE f = "direction"
  BY <1>7 DEF EnumOf, Greatest, Direction, Names
<1> QED
  BY <1>1, <1>2, <1>3, <1>4, <1>5, <1>6, <1>7 DEF EnumOf

LEMMA EnumOfAlert ==
    ASSUME NEW a, IsAlert(a), NEW f \in DOMAIN EnumOf, Present(a, f)
    PROVE  a[f] \in Names(EnumOf[f])
<1>1. CASE f = "direction"
  <2>1. a.direction # Absent
    BY <1>1 DEF Present, OptionalFields
  <2> QED
    BY <1>1, <2>1 DEF EnumOf, IsAlert
<1>2. CASE f # "direction"
  BY <1>2 DEF EnumOf, IsAlert
<1> QED
  BY <1>1, <1>2

\* A number on the wire is in its bounds, and means what the field held.
LEMMA NumberIsRead ==
    ASSUME NEW a, IsAlert(a), NEW f \in NumberFields, Present(a, f)
    PROVE  /\ NumberOf(a, f) \in 0..Greatest[f]
           /\ Meaning(f, NumberOf(a, f)) = a[f]
           /\ Greatest[f] \in Nat
<1>1. CASE f \in DOMAIN EnumOf
  <2> DEFINE enum == EnumOf[f]
             n == WireValue(enum, a[f])
  <2>1. /\ enum \in Seq(Names(enum)) /\ Len(enum) = Greatest[f] + 1
        /\ Greatest[f] \in 1..5 /\ a[f] \in Names(enum)
    BY <1>1, EnumIs, EnumOfAlert
  <2>2. NumberOf(a, f) = n /\ Meaning(f, n) = enum[n + 1]
    BY <1>1 DEF NumberOf, Meaning, Name
  <2> HIDE DEF enum
  <2>3. n \in Nat /\ n < Len(enum) /\ enum[n + 1] = a[f]
    BY <2>1, WireValueIs
  <2> HIDE DEF n
  <2> QED
    BY <2>1, <2>2, <2>3
<1>2. CASE f \notin DOMAIN EnumOf
  <2>1. f \in {"timestampMs", "sequence", "detectorLatencyMs", "detectorTypeCode"}
    BY <1>2, FieldsAre
  <2>2. NumberOf(a, f) = a[f] /\ Meaning(f, a[f]) = a[f]
    BY <1>2 DEF NumberOf, Meaning
  <2>3. a[f] \in 0..Greatest[f] /\ Greatest[f] \in Nat
    <3>1. CASE f \in {"timestampMs", "sequence"}
      BY <3>1, WordAssumption DEF IsAlert, Greatest
    <3>2. CASE f = "detectorLatencyMs"
      BY <3>2, WordAssumption DEF IsAlert, Greatest, Present, OptionalFields
    <3>3. CASE f = "detectorTypeCode"
      BY <3>3 DEF IsAlert, Greatest, Present, OptionalFields, TypeCodes
    <3> QED
      BY <2>1, <3>1, <3>2, <3>3
  <2> QED
    BY <2>2, <2>3
<1> QED
  BY <1>1, <1>2

-----------------------------------------------------------------------------
(* How a packet is laid out.                                                *)

\* The item after the key of a field, and how many items its entry has.
ValueItem(a, f) ==
    IF f = "protocolVersion" THEN Uint(PROTOCOL_VERSION)
    ELSE IF f = "confidence" THEN ConfidenceItem(a.confidence)
    ELSE IF f \in {"droneClass", "source"} THEN TextString(a[f])
    ELSE IF f = "bands" THEN ArrayHeader(4)
    ELSE Uint(NumberOf(a, f))

LevelItem(a, k) == Uint(WireValue(BandStrength, a.bands[k]))

Size(f) == IF f = "bands" THEN 6 ELSE 2

\* The entry of field f is at item i of q.
EntryAt(q, i, a, f) ==
    /\ i + Size(f) <= Len(q) + 1
    /\ q[i] = Uint(Keys[f])
    /\ q[i + 1] = ValueItem(a, f)
    /\ f = "bands" => \A k \in 1..4 : q[i + 1 + k] = LevelItem(a, k)

\* The entries of these fields follow each other from item first of q to its end;
\* s says where each begins.
IsLayout(q, first, a, fields, s) ==
    /\ s \in [1..(Len(fields) + 1) -> Nat \ {0}]
    /\ s[1] = first
    /\ s[Len(fields) + 1] = Len(q) + 1
    /\ \A k \in 1..Len(fields) :
          s[k + 1] = s[k] + Size(fields[k]) /\ EntryAt(q, s[k], a, fields[k])

Texts(a) == {EmptyText, a.droneClass, a.source}

Laid(q, a, fields) ==
    /\ q \in Seq(Parts(Texts(a)))
    /\ fields \in Seq(Fields)
    /\ \E s : IsLayout(q, 1, a, fields, s)

LEMMA SizeIs == \A f : Size(f) \in {2, 6} /\ Size(f) \in Nat
BY DEF Size

\* An entry stays one wherever its items are copied to.
LEMMA EntryCopied ==
    ASSUME NEW q, NEW Q, NEW i \in Nat, NEW j \in Nat, NEW a, NEW f, EntryAt(q, i, a, f),
           \A k \in 0..(Size(f) - 1) : Q[j + k] = q[i + k],
           j + Size(f) <= Len(Q) + 1
    PROVE  EntryAt(Q, j, a, f)
<1>1. Q[j + 0] = q[i + 0] /\ Q[j + 1] = q[i + 1]
  BY SizeIs
<1>2. Q[j] = q[i]
  BY <1>1
<1>3. ASSUME f = "bands", NEW k \in 1..4 PROVE Q[j + 1 + k] = q[i + 1 + k]
  <2>1. 1 + k \in 0..(Size(f) - 1) /\ j + (1 + k) = j + 1 + k /\ i + (1 + k) = i + 1 + k
    BY <1>3 DEF Size
  <2>2. Q[j + (1 + k)] = q[i + (1 + k)]
    BY <2>1
  <2> QED
    BY <2>1, <2>2
<1>4. /\ q[i] = Uint(Keys[f]) /\ q[i + 1] = ValueItem(a, f)
      /\ f = "bands" => \A k \in 1..4 : q[i + 1 + k] = LevelItem(a, k)
  BY DEF EntryAt
<1> QED
  BY <1>1, <1>2, <1>3, <1>4 DEF EntryAt

\* The entries of two parts are those of both together.
LEMMA LaidBoth ==
    ASSUME NEW a, NEW p, NEW q, NEW u, NEW v, Laid(p, a, u), Laid(q, a, v)
    PROVE  Laid(p \o q, a, u \o v)
<1> DEFINE S == Parts(Texts(a))
<1>1. p \in Seq(S) /\ q \in Seq(S) /\ u \in Seq(Fields) /\ v \in Seq(Fields)
  BY DEF Laid
<1>2. PICK s : IsLayout(p, 1, a, u, s)
  BY DEF Laid
<1>3. PICK t : IsLayout(q, 1, a, v, t)
  BY DEF Laid
<1> HIDE DEF S
<1> DEFINE m == Len(u)
           n == Len(v)
           l == Len(p)
           w == [k \in 1..(m + n + 1) |-> IF k <= m THEN s[k] ELSE t[k - m] + l]
           Q == p \o q
           uv == u \o v
<1>4. /\ m \in Nat /\ n \in Nat /\ l \in Nat /\ Len(q) \in Nat
      /\ Q \in Seq(S) /\ Len(Q) = l + Len(q)
      /\ \A i \in 1..l : Q[i] = p[i]
      /\ \A i \in 1..Len(q) : Q[l + i] = q[i]
  BY <1>1, ConcatProperties
<1>5. /\ uv \in Seq(Fields) /\ Len(uv) = m + n
      /\ \A i \in 1..m : uv[i] = u[i]
      /\ \A i \in 1..n : uv[m + i] = v[i]
  BY <1>1, ConcatProperties
<1>6. /\ s \in [1..(m + 1) -> Nat \ {0}] /\ s[1] = 1 /\ s[m + 1] = l + 1
      /\ \A k \in 1..m : s[k + 1] = s[k] + Size(u[k]) /\ EntryAt(p, s[k], a, u[k])
  BY <1>2 DEF IsLayout
<1>7. /\ t \in [1..(n + 1) -> Nat \ {0}] /\ t[1] = 1 /\ t[n + 1] = Len(q) + 1
      /\ \A k \in 1..n : t[k + 1] = t[k] + Size(v[k]) /\ EntryAt(q, t[k], a, v[k])
  BY <1>3 DEF IsLayout
<1> HIDE DEF m, n, l, Q, uv
<1>8. ASSUME NEW k \in 1..(m + n + 1)
      PROVE  w[k] = (IF k <= m THEN s[k] ELSE t[k - m] + l) /\ w[k] \in Nat \ {0}
  <2>1. k <= m => k \in 1..(m + 1)
    BY <1>4
  <2>2. ~(k <= m) => k - m \in 1..(n + 1)
    BY <1>4
  <2> QED
    BY <1>4, <1>6, <1>7, <2>1, <2>2
<1>9. /\ \A k \in 1..(m + 1) : w[k] = s[k]
      /\ \A k \in 1..(n + 1) : w[m + k] = t[k] + l
  <2>1. ASSUME NEW k \in 1..(m + 1) PROVE w[k] = s[k]
    <3>1. CASE k <= m
      BY <1>4, <1>8, <3>1
    <3>2. CASE k = m + 1
      BY <1>4, <1>6, <1>7, <1>8, <3>2
    <3> QED
      BY <1>4, <3>1, <3>2
  <2>2. ASSUME NEW k \in 1..(n + 1) PROVE w[m + k] = t[k] + l
    BY <1>4, <1>8
  <2> QED
    BY <2>1, <2>2
<1>10. w \in [1..(m + n + 1) -> Nat \ {0}]
  BY <1>8
<1> HIDE DEF w
<1>11. w[1] = 1 /\ w[m + n + 1] = Len(Q) + 1
  <2>1. w[m + (n + 1)] = t[n + 1] + l
    BY <1>4, <1>9
  <2> QED
    BY <1>4, <1>6, <1>7, <1>9, <2>1
<1>12. ASSUME NEW k \in 1..(m + n)
       PROVE  w[k + 1] = w[k] + Size(uv[k]) /\ EntryAt(Q, w[k], a, uv[k])
  <2>1. CASE k <= m
    <3> DEFINE f == u[k]
               i == s[k]
    <3>1. /\ k \in 1..m /\ uv[k] = f /\ w[k] = i /\ w[k + 1] = s[k + 1] /\ s[k + 1] = i + Size(f)
          /\ EntryAt(p, i, a, f) /\ i \in Nat \ {0} /\ Size(f) \in Nat
      <4>1. k \in 1..m /\ k \in 1..(m + 1) /\ k + 1 \in 1..(m + 1)
        BY <1>4, <2>1
      <4>2. uv[k] = f /\ w[k] = i /\ w[k + 1] = s[k + 1]
        BY <1>5, <1>9, <4>1
      <4>3. s[k + 1] = i + Size(f) /\ EntryAt(p, i, a, f) /\ i \in Nat \ {0}
        BY <1>6, <4>1
      <4> QED
        BY <4>1, <4>2, <4>3, SizeIs
    <3> HIDE DEF f, i
    <3>2. i + Size(f) <= l + 1
      BY <3>1 DEF EntryAt, l
    <3>3. \A j \in 0..(Size(f) - 1) : Q[i + j] = p[i + j]
      BY <1>4, <3>1, <3>2
    <3>4. i + Size(f) <= Len(Q) + 1
      BY <1>4, <3>1, <3>2
    <3> QED
      BY <3>1, <3>3, <3>4, EntryCopied
  <2>2. CASE ~(k <= m)
    <3> DEFINE h == k - m
               f == v[h]
               i == t[h]
               j == i + l
    <3>1. h \in 1..n /\ k = m + h /\ k + 1 = m + (h + 1) /\ h + 1 \in 1..(n + 1)
      BY <1>4, <2>2
    <3>2. /\ uv[k] = f /\ w[k] = j /\ w[k + 1] = t[h + 1] + l /\ t[h + 1] = i + Size(f)
          /\ EntryAt(q, i, a, f) /\ i \in Nat \ {0} /\ Size(f) \in Nat /\ j \in Nat
      <4> HIDE DEF h
      <4>1. h \in 1..(n + 1)
        BY <1>4, <3>1
      <4>2. uv[m + h] = v[h] /\ w[m + h] = t[h] + l /\ w[m + (h + 1)] = t[h + 1] + l
        BY <1>5, <1>9, <3>1, <4>1
      <4>3. t[h + 1] = t[h] + Size(v[h]) /\ EntryAt(q, t[h], a, v[h]) /\ t[h] \in Nat \ {0}
        BY <1>7, <3>1, <4>1
      <4>4. uv[k] = f /\ w[k] = j /\ w[k + 1] = t[h + 1] + l
        BY <3>1, <4>2
      <4> QED
        BY <1>4, <4>3, <4>4, SizeIs
    <3>3. j = i + l
      OBVIOUS
    <3> HIDE DEF h, f, i, j
    <3>4. i + Size(f) <= Len(q) + 1
      BY <3>2 DEF EntryAt
    <3>5. ASSUME NEW x \in 0..(Size(f) - 1) PROVE Q[j + x] = q[i + x]
      <4>1. i + x \in 1..Len(q) /\ j + x = l + (i + x)
        BY <1>4, <3>2, <3>3, <3>4
      <4> QED
        BY <1>4, <4>1
    <3>6. j + Size(f) <= Len(Q) + 1
      BY <1>4, <3>2, <3>3, <3>4
    <3>7. EntryAt(Q, j, a, f)
      BY <3>2, <3>5, <3>6, EntryCopied
    <3> QED
      BY <1>4, <3>2, <3>3, <3>7
  <2> QED
    BY <2>1, <2>2
<1>13. IsLayout(Q, 1, a, uv, w)
  BY <1>5, <1>10, <1>11, <1>12 DEF IsLayout
<1> QED
  BY <1>4, <1>5, <1>13 DEF Laid, S, Q, uv

InFront(x, t) == <<x>> \o t

\* One item in front of others, and the others behind it.
LEMMA OneMore ==
    ASSUME NEW S, NEW x \in S, NEW t \in Seq(S)
    PROVE  /\ InFront(x, t) \in Seq(S) /\ Len(InFront(x, t)) = Len(t) + 1
           /\ InFront(x, t)[1] = x
           /\ \A i \in 1..Len(t) : t[i] = InFront(x, t)[i + 1]
<1> DEFINE h == <<x>>
<1>1. h \in Seq(S) /\ Len(h) = 1 /\ h[1] = x
  OBVIOUS
<1> HIDE DEF h
<1>2. /\ h \o t \in Seq(S) /\ Len(h \o t) = Len(t) + 1 /\ (h \o t)[1] = x
      /\ \A i \in 1..Len(t) : (h \o t)[1 + i] = t[i]
  BY <1>1, ConcatProperties
<1>3. InFront(x, t) = h \o t
  BY DEF h, InFront
<1> QED
  BY <1>2, <1>3

LEMMA OthersBehind ==
    ASSUME NEW S, NEW x \in S, NEW t \in Seq(S), NEW i \in 1..Len(t)
    PROVE  t[i] = InFront(x, t)[i + 1]
BY OneMore

LEMMA LaidNone == ASSUME NEW a PROVE Laid(<<>>, a, <<>>)
<1> DEFINE s == [k \in 1..1 |-> 1]
<1>1. IsLayout(<<>>, 1, a, <<>>, s)
  BY DEF IsLayout
<1> QED
  BY <1>1 DEF Laid

\* A field of one item is laid out by itself.
LEMMA LaidOne ==
    ASSUME NEW a, NEW f \in Fields, f # "bands", ValueItem(a, f) \in Parts(Texts(a))
    PROVE  Laid(Entry(Keys[f], <<ValueItem(a, f)>>), a, <<f>>)
<1> DEFINE key == Uint(Keys[f])
           x == ValueItem(a, f)
           q == <<key>> \o <<x>>
           s == [k \in 1..2 |-> IF k = 1 THEN 1 ELSE 3]
           S == Parts(Texts(a))
<1>1. Keys[f] \in Nat
  BY KeyIs
<1>2. key \in S /\ x \in S
  BY <1>1, UintIsWhole DEF Texts
<1>3. Entry(Keys[f], <<x>>) = q
  BY DEF Entry
<1> HIDE DEF S, key, x
<1>4. q \in Seq(S) /\ Len(q) = 2 /\ q[1] = key /\ q[2] = x
  <2>1. /\ <<key>> \in Seq(S) /\ Len(<<key>>) = 1 /\ <<key>>[1] = key
        /\ <<x>> \in Seq(S) /\ Len(<<x>>) = 1 /\ <<x>>[1] = x
    BY <1>2
  <2> QED
    BY <2>1, ConcatProperties
<1>5. Size(f) = 2
  BY DEF Size
<1> HIDE DEF q
<1>6. EntryAt(q, 1, a, f)
  BY <1>4, <1>5 DEF EntryAt, key, x
<1> DEFINE fields == <<f>>
<1>7. fields \in Seq(Fields) /\ Len(fields) = 1 /\ fields[1] = f
  OBVIOUS
<1> HIDE DEF fields
<1>8. s \in [1..2 -> Nat \ {0}] /\ s[1] = 1 /\ s[2] = 3
  OBVIOUS
<1> HIDE DEF s
<1>9. IsLayout(q, 1, a, fields, s)
  <2>1. ASSUME NEW k \in 1..Len(fields)
        PROVE  s[k + 1] = s[k] + Size(fields[k]) /\ EntryAt(q, s[k], a, fields[k])
    <3>1. k = 1
      BY <1>7
    <3> QED
      BY <1>5, <1>6, <1>7, <1>8, <3>1
  <2> QED
    BY <1>4, <1>7, <1>8, <2>1 DEF IsLayout
<1>10. Laid(q, a, fields)
  BY <1>4, <1>7, <1>9 DEF Laid, S
<1> QED
  BY <1>3, <1>10 DEF fields, x

\* So are the bands.
LEMMA LaidBands ==
    ASSUME NEW a, a.bands \in [1..4 -> Names(BandStrength)]
    PROVE  Laid(Entry(Keys["bands"], Bands(a.bands)), a, <<"bands">>)
<1> DEFINE S == Parts(Texts(a))
           key == Uint(Keys["bands"])
           head == ArrayHeader(4)
           level == [k \in 1..4 |-> Uint(WireValue(BandStrength, a.bands[k]))]
           value == InFront(head, level)
           q == InFront(key, value)
           s == [k \in 1..2 |-> IF k = 1 THEN 1 ELSE 7]
           f == "bands"
<1>1. key \in S /\ head \in S
  <2>1. EmptyText \in Texts(a) /\ Keys["bands"] \in Nat
    BY DEF Texts, Keys
  <2> QED
    BY <2>1, UintIsWhole, ArrayIsWhole
<1>2. ASSUME NEW k \in 1..4 PROVE level[k] \in S /\ level[k] = LevelItem(a, k)
  <2>1. BandStrength \in Seq(Names(BandStrength)) /\ a.bands[k] \in Names(BandStrength)
    BY DEF BandStrength, Names
  <2>2. WireValue(BandStrength, a.bands[k]) \in Nat
    BY <2>1, WireValueIs
  <2> DEFINE w == WireValue(BandStrength, a.bands[k])
  <2>3. level[k] = Uint(w) /\ level[k] = LevelItem(a, k) /\ EmptyText \in Texts(a)
    BY DEF Texts, LevelItem
  <2> HIDE DEF w, level, S
  <2>4. Uint(w) \in Parts(Texts(a))
    BY <2>2, <2>3, UintIsWhole DEF w
  <2> QED
    BY <2>3, <2>4 DEF S
<1>3. Entry(Keys["bands"], Bands(a.bands)) = q
  BY DEF Bands, Entry, InFront
<1>4. level \in [1..4 -> S]
  <2>1. \A k \in 1..4 : level[k] \in S
    BY <1>2
  <2> HIDE DEF S
  <2> QED
    BY <2>1
<1> HIDE DEF S, level, head, key
<1>5. level \in Seq(S) /\ Len(level) = 4
  BY <1>4, FunctionIsSeq
<1>6. value \in Seq(S) /\ Len(value) = 5 /\ value[1] = head /\ \A k \in 1..4 : value[1 + k] = level[k]
  <2>1. value \in Seq(S) /\ value[1] = head /\ Len(value) = Len(level) + 1
    BY <1>1, <1>5, OneMore
  <2>2. ASSUME NEW i \in 1..4 PROVE value[1 + i] = level[i]
    <3>1. head \in S /\ level \in Seq(S) /\ i \in 1..Len(level) /\ 1 + i = i + 1
      BY <1>1, <1>5
    <3>2. level[i] = InFront(head, level)[i + 1]
      BY <3>1, OthersBehind
    <3> QED
      BY <3>1, <3>2
  <2> QED
    BY <1>5, <2>1, <2>2
<1> HIDE DEF value
<1>7. /\ q \in Seq(S) /\ Len(q) = 6 /\ q[1] = key /\ q[2] = head
      /\ \A k \in 1..4 : q[1 + 1 + k] = level[k]
  <2>1. q \in Seq(S) /\ q[1] = key /\ Len(q) = Len(value) + 1
    <3>1. key \in S /\ value \in Seq(S)
      BY <1>1, <1>6
    <3> QED
      BY <3>1, OneMore
  <2>2. ASSUME NEW i \in 1..5 PROVE q[1 + i] = value[i]
    <3>1. key \in S /\ value \in Seq(S) /\ i \in 1..Len(value) /\ 1 + i = i + 1
      BY <1>1, <1>6
    <3>2. value[i] = InFront(key, value)[i + 1]
      BY <3>1, OthersBehind
    <3> QED
      BY <3>1, <3>2
  <2>3. ASSUME NEW k \in 1..4 PROVE q[1 + 1 + k] = level[k]
    <3>1. 1 + k \in 1..5 /\ 1 + (1 + k) = 1 + 1 + k
      OBVIOUS
    <3>2. q[1 + (1 + k)] = value[1 + k]
      BY <2>2, <3>1
    <3> QED
      BY <1>6, <3>1, <3>2
  <2>4. 1 \in 1..5 /\ q[1 + 1] = value[1]
    BY <2>2
  <2> QED
    BY <1>6, <2>1, <2>3, <2>4
<1> HIDE DEF q
<1>8. Size(f) = 6 /\ f \in Fields /\ key = Uint(Keys[f]) /\ head = ValueItem(a, f)
  BY DEF Size, Fields, Keys, ValueItem, key, head
<1>9. EntryAt(q, 1, a, f)
  <2>1. ASSUME NEW k \in 1..4 PROVE q[1 + 1 + k] = LevelItem(a, k)
    BY <1>2, <1>7
  <2> HIDE DEF f
  <2> QED
    BY <1>7, <1>8, <2>1 DEF EntryAt
<1> DEFINE fields == <<f>>
<1>10. fields \in Seq(Fields) /\ Len(fields) = 1 /\ fields[1] = f
  BY <1>8
<1> HIDE DEF fields
<1>11. s \in [1..2 -> Nat \ {0}] /\ s[1] = 1 /\ s[2] = 7
  OBVIOUS
<1> HIDE DEF s, f
<1>12. IsLayout(q, 1, a, fields, s)
  <2>1. ASSUME NEW k \in 1..Len(fields)
        PROVE  s[k + 1] = s[k] + Size(fields[k]) /\ EntryAt(q, s[k], a, fields[k])
    <3>1. k = 1
      BY <1>10
    <3> QED
      BY <1>8, <1>9, <1>10, <1>11, <3>1
  <2> QED
    BY <1>7, <1>10, <1>11, <2>1 DEF IsLayout
<1>13. Laid(q, a, fields)
  BY <1>7, <1>10, <1>12 DEF Laid, S
<1> QED
  BY <1>3, <1>13 DEF fields, f

\* The item of a field is one an encoder writes.
LEMMA ValueIsWhole ==
    ASSUME NEW a, IsAlert(a), NEW f \in Fields, Present(a, f)
    PROVE  ValueItem(a, f) \in Parts(Texts(a))
<1>0. EmptyText \in Texts(a)
  BY DEF Texts
<1>1. CASE f = "protocolVersion"
  BY <1>0, <1>1, UintIsWhole DEF ValueItem, PROTOCOL_VERSION
<1>2. CASE f = "confidence"
  <2>1. CASE a.confidence = Absent
    BY <1>0, <1>2, <2>1, NullIsWhole DEF ValueItem, ConfidenceItem
  <2>2. CASE a.confidence # Absent
    <3>1. a.confidence \in Nat
      BY <2>2 DEF IsAlert
    <3> QED
      BY <1>0, <1>2, <2>2, <3>1, UintIsWhole DEF ValueItem, ConfidenceItem
  <2> QED
    BY <2>1, <2>2
<1>3. CASE f \in {"droneClass", "source"}
  <2>1. a[f] \in Texts(a) /\ a[f].length \in Nat
    BY <1>3 DEF Texts, IsAlert, Present, OptionalFields, DRONE_CLASS_CAPACITY, SOURCE_CAPACITY
  <2>2. TextString(a[f]) \in Parts(Texts(a))
    BY <2>1, TextIsWhole
  <2> QED
    BY <1>3, <2>2 DEF ValueItem
<1>4. CASE f = "bands"
  BY <1>0, <1>4, ArrayIsWhole DEF ValueItem
<1>5. CASE f \in NumberFields
  <2>1. NumberOf(a, f) \in Nat
    BY <1>5, NumberIsRead
  <2>2. Uint(NumberOf(a, f)) \in Parts(Texts(a))
    BY <1>0, <2>1, UintIsWhole
  <2>3. f \notin {"protocolVersion", "confidence", "droneClass", "source", "bands"}
    BY <1>5, FieldsAre
  <2> QED
    BY <2>2, <2>3 DEF ValueItem
<1> QED
  BY <1>1, <1>2, <1>3, <1>4, <1>5, FieldsAre

\* How many fields are laid out and which; if it matters, the first of them is
\* the version.
LaidAs(q, a, headed, F, n) ==
    \E u : /\ Laid(q, a, u)
           /\ Len(u) = n
           /\ Range(u) = F
           /\ headed => n >= 1 /\ u[1] = "protocolVersion"

LEMMA LaidAsBoth ==
    ASSUME NEW a, NEW p, NEW q, NEW headed \in BOOLEAN, NEW other \in BOOLEAN, NEW F, NEW G,
           NEW m \in Nat, NEW n \in Nat, LaidAs(p, a, headed, F, m), LaidAs(q, a, other, G, n)
    PROVE  LaidAs(p \o q, a, headed, F \cup G, m + n)
<1>1. PICK u : /\ Laid(p, a, u) /\ Len(u) = m /\ Range(u) = F
               /\ headed => m >= 1 /\ u[1] = "protocolVersion"
  BY DEF LaidAs
<1>2. PICK v : Laid(q, a, v) /\ Len(v) = n /\ Range(v) = G
  BY DEF LaidAs
<1> DEFINE w == u \o v
<1>3. Laid(p \o q, a, w)
  BY <1>1, <1>2, LaidBoth
<1>4. u \in Seq(Fields) /\ v \in Seq(Fields)
  BY <1>1, <1>2 DEF Laid
<1>5. /\ w \in Seq(Fields) /\ Len(w) = m + n
      /\ \A i \in 1..m : w[i] = u[i]
      /\ \A i \in 1..n : w[m + i] = v[i]
  <2>1. /\ w \in Seq(Fields) /\ Len(w) = Len(u) + Len(v)
        /\ \A i \in 1..Len(u) : w[i] = u[i]
        /\ \A i \in 1..Len(v) : w[Len(u) + i] = v[i]
    BY <1>4, ConcatProperties
  <2> QED
    BY <1>1, <1>2, <2>1
<1> HIDE DEF w
<1>6. /\ Range(u) = {u[i] : i \in 1..m} /\ Range(v) = {v[i] : i \in 1..n}
      /\ Range(w) = {w[i] : i \in 1..(m + n)}
  <2>1. DOMAIN u = 1..m /\ DOMAIN v = 1..n /\ DOMAIN w = 1..(m + n)
    BY <1>1, <1>2, <1>4, <1>5
  <2> QED
    BY <2>1 DEF Range
<1>7. Range(w) = F \cup G
  <2>1. ASSUME NEW i \in 1..(m + n) PROVE w[i] \in F \cup G
    <3>1. CASE i <= m
      BY <1>1, <1>5, <1>6, <3>1
    <3>2. CASE ~(i <= m)
      <4>1. i - m \in 1..n /\ m + (i - m) = i
        BY <3>2
      <4>2. w[m + (i - m)] = v[i - m]
        BY <1>5, <4>1
      <4> QED
        BY <1>2, <1>6, <4>1, <4>2
    <3> QED
      BY <3>1, <3>2
  <2>2. ASSUME NEW i \in 1..m PROVE u[i] \in Range(w)
    BY <1>5, <1>6
  <2>3. ASSUME NEW i \in 1..n PROVE v[i] \in Range(w)
    <3>1. m + i \in 1..(m + n)
      OBVIOUS
    <3> QED
      BY <1>5, <1>6, <3>1
  <2>4. Range(w) \subseteq F \cup G
    BY <1>6, <2>1
  <2>5. F \subseteq Range(w) /\ G \subseteq Range(w)
    BY <1>1, <1>2, <1>6, <2>2, <2>3
  <2> QED
    BY <2>4, <2>5
<1>8. headed => m + n >= 1 /\ w[1] = "protocolVersion"
  BY <1>1, <1>5
<1> QED
  BY <1>3, <1>5, <1>7, <1>8 DEF LaidAs

LEMMA LaidAsNone == ASSUME NEW a PROVE LaidAs(<<>>, a, FALSE, {}, 0)
<1>1. Range(<<>>) = {} /\ Len(<<>>) = 0
  BY DEF Range
<1> QED
  BY <1>1, LaidNone DEF LaidAs

LEMMA LaidAsOne ==
    ASSUME NEW a, NEW q, NEW f, Laid(q, a, <<f>>)
    PROVE  LaidAs(q, a, f = "protocolVersion", {f}, 1)
<1>1. Range(<<f>>) = {f} /\ Len(<<f>>) = 1 /\ <<f>>[1] = f
  BY DEF Range
<1> QED
  BY <1>1 DEF LaidAs

\* What the encoder always writes.
LEMMA LaidRequired ==
    ASSUME NEW a, IsAlert(a)
    PROVE  LaidAs(RequiredEntries(a), a, TRUE, Required \cup {"protocolVersion"}, 10)
<1> DEFINE e1 == Entry(Keys.protocolVersion, <<Uint(PROTOCOL_VERSION)>>)
           e2 == Entry(Keys.timestampMs, <<Uint(a.timestampMs)>>)
           e3 == Entry(Keys.sequence, <<Uint(a.sequence)>>)
           e4 == Entry(Keys.sensorType, <<Uint(WireValue(SensorType, a.sensorType))>>)
           e5 == Entry(Keys.alertKind, <<Uint(WireValue(AlertKind, a.alertKind))>>)
           e6 == Entry(Keys.threat, <<Uint(WireValue(Threat, a.threat))>>)
           e7 == Entry(Keys.severity, <<Uint(WireValue(Severity, a.severity))>>)
           e8 == Entry(Keys.band, <<Uint(WireValue(Band, a.band))>>)
           e9 == Entry(Keys.distance, <<Uint(WireValue(Distance, a.distance))>>)
           e10 == Entry(Keys.confidence, <<ConfidenceItem(a.confidence)>>)
           p2 == e1 \o e2
           p3 == p2 \o e3
           p4 == p3 \o e4
           p5 == p4 \o e5
           p6 == p5 \o e6
           p7 == p6 \o e7
           p8 == p7 \o e8
           p9 == p8 \o e9
           p10 == p9 \o e10
           One(e, f) == LaidAs(e, a, f = "protocolVersion", {f}, 1)
<1>1. ASSUME NEW f \in Fields, f # "bands", f \notin OptionalFields
      PROVE  One(Entry(Keys[f], <<ValueItem(a, f)>>), f)
  <2>1. Present(a, f)
    BY <1>1 DEF Present
  <2>2. ValueItem(a, f) \in Parts(Texts(a))
    BY <2>1, ValueIsWhole
  <2>3. Laid(Entry(Keys[f], <<ValueItem(a, f)>>), a, <<f>>)
    BY <1>1, <2>2, LaidOne
  <2> QED
    BY <2>3, LaidAsOne
<1> HIDE DEF One
<1>2. /\ "protocolVersion" \in Fields \ OptionalFields /\ "timestampMs" \in Fields \ OptionalFields
      /\ "sequence" \in Fields \ OptionalFields /\ "sensorType" \in Fields \ OptionalFields
      /\ "alertKind" \in Fields \ OptionalFields /\ "threat" \in Fields \ OptionalFields
      /\ "severity" \in Fields \ OptionalFields /\ "band" \in Fields \ OptionalFields
      /\ "distance" \in Fields \ OptionalFields /\ "confidence" \in Fields \ OptionalFields
  BY DEF Fields, Keys, OptionalFields
<1>3. /\ One(e1, "protocolVersion") /\ One(e2, "timestampMs") /\ One(e3, "sequence")
      /\ One(e4, "sensorType") /\ One(e5, "alertKind") /\ One(e6, "threat")
      /\ One(e7, "severity") /\ One(e8, "band") /\ One(e9, "distance") /\ One(e10, "confidence")
  <2>1. ValueItem(a, "protocolVersion") = Uint(PROTOCOL_VERSION)
    BY DEF ValueItem
  <2>2. ValueItem(a, "timestampMs") = Uint(a.timestampMs)
    BY DEF ValueItem, NumberOf, EnumOf
  <2>3. ValueItem(a, "sequence") = Uint(a.sequence)
    BY DEF ValueItem, NumberOf, EnumOf
  <2>4. ValueItem(a, "sensorType") = Uint(WireValue(SensorType, a.sensorType))
    BY DEF ValueItem, NumberOf, EnumOf
  <2>5. ValueItem(a, "alertKind") = Uint(WireValue(AlertKind, a.alertKind))
    BY DEF ValueItem, NumberOf, EnumOf
  <2>6. ValueItem(a, "threat") = Uint(WireValue(Threat, a.threat))
    BY DEF ValueItem, NumberOf, EnumOf
  <2>7. ValueItem(a, "severity") = Uint(WireValue(Severity, a.severity))
    BY DEF ValueItem, NumberOf, EnumOf
  <2>8. ValueItem(a, "band") = Uint(WireValue(Band, a.band))
    BY DEF ValueItem, NumberOf, EnumOf
  <2>9. ValueItem(a, "distance") = Uint(WireValue(Distance, a.distance))
    BY DEF ValueItem, NumberOf, EnumOf
  <2>10. ValueItem(a, "confidence") = ConfidenceItem(a.confidence)
    BY DEF ValueItem
  <2>11. One(e1, "protocolVersion") /\ One(e2, "timestampMs") /\ One(e3, "sequence")
    BY <1>1, <1>2, <2>1, <2>2, <2>3
  <2>12. One(e4, "sensorType") /\ One(e5, "alertKind") /\ One(e6, "threat")
    BY <1>1, <1>2, <2>4, <2>5, <2>6
  <2>13. One(e7, "severity") /\ One(e8, "band") /\ One(e9, "distance")
    BY <1>1, <1>2, <2>7, <2>8, <2>9
  <2>14. One(e10, "confidence")
    BY <1>1, <1>2, <2>10
  <2> QED
    BY <2>11, <2>12, <2>13, <2>14
<1>4. RequiredEntries(a) = p10
  BY DEF RequiredEntries
<1> HIDE DEF e1, e2, e3, e4, e5, e6, e7, e8, e9, e10
<1>5. ASSUME NEW m \in Nat, NEW p, NEW F, NEW e, NEW f
      PROVE  LaidAs(p, a, TRUE, F, m) /\ One(e, f) => LaidAs(p \o e, a, TRUE, F \cup {f}, m + 1)
  <2>1. SUFFICES ASSUME LaidAs(p, a, TRUE, F, m), One(e, f)
                 PROVE  LaidAs(p \o e, a, TRUE, F \cup {f}, m + 1)
    OBVIOUS
  <2> DEFINE other == f = "protocolVersion"
  <2>2. other \in BOOLEAN /\ LaidAs(e, a, other, {f}, 1) /\ TRUE \in BOOLEAN /\ 1 \in Nat
    BY <2>1 DEF One
  <2> HIDE DEF other
  <2> QED
    BY <2>1, <2>2, LaidAsBoth
<1> DEFINE F1 == {"protocolVersion"}
           F2 == F1 \cup {"timestampMs"}
           F3 == F2 \cup {"sequence"}
           F4 == F3 \cup {"sensorType"}
           F5 == F4 \cup {"alertKind"}
           F6 == F5 \cup {"threat"}
           F7 == F6 \cup {"severity"}
           F8 == F7 \cup {"band"}
           F9 == F8 \cup {"distance"}
           F10 == F9 \cup {"confidence"}
           n1 == 1 n2 == n1 + 1 n3 == n2 + 1 n4 == n3 + 1 n5 == n4 + 1
           n6 == n5 + 1 n7 == n6 + 1 n8 == n7 + 1 n9 == n8 + 1 n10 == n9 + 1
<1>c. /\ n1 \in Nat /\ n2 \in Nat /\ n3 \in Nat /\ n4 \in Nat /\ n5 \in Nat
      /\ n6 \in Nat /\ n7 \in Nat /\ n8 \in Nat /\ n9 \in Nat /\ n10 = 10
  OBVIOUS
<1>6. LaidAs(e1, a, TRUE, F1, n1)
  BY <1>3 DEF One
<1> HIDE DEF One
<1>7. LaidAs(p2, a, TRUE, F2, n2)
  <2>1. LaidAs(e1, a, TRUE, F1, n1) /\ One(e2, "timestampMs") => LaidAs(p2, a, TRUE, F2, n2)
    BY <1>5, <1>c, Zenon
  <2> QED
    BY <1>3, <1>6, <2>1
<1>8. LaidAs(p3, a, TRUE, F3, n3)
  <2>1. LaidAs(p2, a, TRUE, F2, n2) /\ One(e3, "sequence") => LaidAs(p3, a, TRUE, F3, n3)
    BY <1>5, <1>c, Zenon
  <2> QED
    BY <1>3, <1>7, <2>1
<1>9. LaidAs(p4, a, TRUE, F4, n4)
  <2>1. LaidAs(p3, a, TRUE, F3, n3) /\ One(e4, "sensorType") => LaidAs(p4, a, TRUE, F4, n4)
    BY <1>5, <1>c, Zenon
  <2> QED
    BY <1>3, <1>8, <2>1
<1>10. LaidAs(p5, a, TRUE, F5, n5)
  <2>1. LaidAs(p4, a, TRUE, F4, n4) /\ One(e5, "alertKind") => LaidAs(p5, a, TRUE, F5, n5)
    BY <1>5, <1>c, Zenon
  <2> QED
    BY <1>3, <1>9, <2>1
<1>11. LaidAs(p6, a, TRUE, F6, n6)
  <2>1. LaidAs(p5, a, TRUE, F5, n5) /\ One(e6, "threat") => LaidAs(p6, a, TRUE, F6, n6)
    BY <1>5, <1>c, Zenon
  <2> QED
    BY <1>3, <1>10, <2>1
<1>12. LaidAs(p7, a, TRUE, F7, n7)
  <2>1. LaidAs(p6, a, TRUE, F6, n6) /\ One(e7, "severity") => LaidAs(p7, a, TRUE, F7, n7)
    BY <1>5, <1>c, Zenon
  <2> QED
    BY <1>3, <1>11, <2>1
<1>13. LaidAs(p8, a, TRUE, F8, n8)
  <2>1. LaidAs(p7, a, TRUE, F7, n7) /\ One(e8, "band") => LaidAs(p8, a, TRUE, F8, n8)
    BY <1>5, <1>c, Zenon
  <2> QED
    BY <1>3, <1>12, <2>1
<1>14. LaidAs(p9, a, TRUE, F9, n9)
  <2>1. LaidAs(p8, a, TRUE, F8, n8) /\ One(e9, "distance") => LaidAs(p9, a, TRUE, F9, n9)
    BY <1>5, <1>c, Zenon
  <2> QED
    BY <1>3, <1>13, <2>1
<1>15. LaidAs(p10, a, TRUE, F10, n10)
  <2>1. LaidAs(p9, a, TRUE, F9, n9) /\ One(e10, "confidence") => LaidAs(p10, a, TRUE, F10, n10)
    BY <1>5, <1>c, Zenon
  <2> QED
    BY <1>3, <1>14, <2>1
<1>16. F10 = Required \cup {"protocolVersion"}
  BY DEF Required
<1> HIDE DEF F10, n10
<1> QED
  BY <1>4, <1>15, <1>16, <1>c DEF p10

-----------------------------------------------------------------------------
(* What the encoder writes of the optional fields.                          *)

Shown(a, S) == {f \in S : a[f] # Absent}

LaidShown(q, a, S) ==
    IsFiniteSet(S) /\ LaidAs(q, a, FALSE, Shown(a, S), Cardinality(Shown(a, S)))

LEMMA LaidMaybe ==
    ASSUME NEW a, NEW f \in OptionalFields, NEW items,
           a[f] # Absent => Laid(Entry(Keys[f], items), a, <<f>>)
    PROVE  LaidShown(Optional(Keys[f], a[f], items), a, {f})
<1>1. IsFiniteSet({f})
  BY FS_Singleton
<1>2. CASE a[f] = Absent
  <2>1. Shown(a, {f}) = {} /\ Cardinality({}) = 0
    BY <1>2, FS_EmptySet DEF Shown
  <2>2. Optional(Keys[f], a[f], items) = <<>>
    BY <1>2 DEF Optional
  <2>3. LaidAs(<<>>, a, FALSE, {}, 0)
    BY LaidAsNone
  <2>4. LaidAs(<<>>, a, FALSE, Shown(a, {f}), Cardinality(Shown(a, {f})))
    BY <2>1, <2>3, Zenon
  <2> QED
    BY <1>1, <2>2, <2>4 DEF LaidShown
<1>3. CASE a[f] # Absent
  <2>1. Shown(a, {f}) = {f} /\ Cardinality({f}) = 1
    BY <1>3, FS_Singleton DEF Shown
  <2>2. Optional(Keys[f], a[f], items) = Entry(Keys[f], items)
    BY <1>3 DEF Optional
  <2> DEFINE q == Entry(Keys[f], items)
             headed == f = "protocolVersion"
  <2>3. LaidAs(q, a, headed, {f}, 1)
    BY <1>3, LaidAsOne
  <2> HIDE DEF q, headed
  <2>4. LaidAs(q, a, FALSE, {f}, 1)
    BY <2>3 DEF LaidAs
  <2>5. LaidAs(q, a, FALSE, Shown(a, {f}), Cardinality(Shown(a, {f})))
    BY <2>1, <2>4, Zenon
  <2>6. LaidShown(q, a, {f})
    BY <1>1, <2>5 DEF LaidShown
  <2> QED
    BY <2>2, <2>6 DEF q
<1> QED
  BY <1>2, <1>3

LEMMA LaidShownBoth ==
    ASSUME NEW a, NEW p, NEW q, NEW S, NEW f, f \notin S, LaidShown(p, a, S), LaidShown(q, a, {f})
    PROVE  LaidShown(p \o q, a, S \cup {f})
<1> DEFINE G == Shown(a, S)
           H == Shown(a, {f})
           m == Cardinality(G)
           n == Cardinality(H)
<1>1. /\ IsFiniteSet(S) /\ IsFiniteSet({f})
      /\ LaidAs(p, a, FALSE, G, m) /\ LaidAs(q, a, FALSE, H, n)
  BY DEF LaidShown
<1>2. IsFiniteSet(G) /\ IsFiniteSet(H) /\ G \cap H = {}
  <2>1. G \subseteq S /\ H \subseteq {f}
    BY DEF Shown
  <2> HIDE DEF G, H
  <2> QED
    BY <1>1, <2>1, FS_Subset
<1>3. Shown(a, S \cup {f}) = G \cup H /\ IsFiniteSet(S \cup {f})
  <2>1. Shown(a, S \cup {f}) = G \cup H
    BY DEF Shown
  <2>2. IsFiniteSet(S \cup {f})
    BY <1>1, FS_Union
  <2> QED
    BY <2>1, <2>2
<1> HIDE DEF G, H
<1>4. m \in Nat /\ n \in Nat /\ Cardinality(G \cup H) = m + n
  <2>1. m \in Nat /\ n \in Nat
    BY <1>2, FS_CardinalityType
  <2>2. Cardinality(G \cup H) = Cardinality(G) + Cardinality(H) - Cardinality(G \cap H)
    BY <1>2, FS_Union
  <2>3. Cardinality(G \cap H) = 0
    BY <1>2, FS_EmptySet
  <2> QED
    BY <2>1, <2>2, <2>3
<1> HIDE DEF m, n
<1>5. LaidAs(p \o q, a, FALSE, G \cup H, m + n)
  <2>1. FALSE \in BOOLEAN
    OBVIOUS
  <2> QED
    BY <1>1, <1>4, <2>1, LaidAsBoth
<1>6. LaidAs(p \o q, a, FALSE, Shown(a, S \cup {f}), Cardinality(Shown(a, S \cup {f})))
  BY <1>3, <1>4, <1>5, Zenon
<1> QED
  BY <1>3, <1>6 DEF LaidShown

LEMMA LaidOptional ==
    ASSUME NEW a, IsAlert(a)
    PROVE  LaidShown(OptionalEntries(a), a, OptionalFields)
<1> DEFINE e1 == Optional(Keys.droneClass, a.droneClass, <<TextString(a.droneClass)>>)
           e2 == Optional(Keys.detectorLatencyMs, a.detectorLatencyMs, <<Uint(a.detectorLatencyMs)>>)
           e3 == Optional(Keys.bands, a.bands, Bands(a.bands))
           e4 == Optional(Keys.direction, a.direction, <<Uint(WireValue(Direction, a.direction))>>)
           e5 == Optional(Keys.source, a.source, <<TextString(a.source)>>)
           e6 == Optional(Keys.detectorTypeCode, a.detectorTypeCode, <<Uint(a.detectorTypeCode)>>)
           p2 == e1 \o e2
           p3 == p2 \o e3
           p4 == p3 \o e4
           p5 == p4 \o e5
           p6 == p5 \o e6
           One(e, f) == LaidShown(e, a, {f})
<1>1. ASSUME NEW f \in OptionalFields, f # "bands"
      PROVE  One(Optional(Keys[f], a[f], <<ValueItem(a, f)>>), f)
  <2> DEFINE items == <<ValueItem(a, f)>>
  <2>1. f \in Fields
    BY FieldsAre
  <2>2. ASSUME a[f] # Absent PROVE Laid(Entry(Keys[f], items), a, <<f>>)
    <3>1. Present(a, f)
      BY <2>2 DEF Present
    <3>2. ValueItem(a, f) \in Parts(Texts(a))
      BY <2>1, <3>1, ValueIsWhole
    <3> QED
      BY <1>1, <2>1, <3>2, LaidOne
  <2> HIDE DEF items
  <2>3. LaidShown(Optional(Keys[f], a[f], items), a, {f})
    BY <1>1, <2>2, LaidMaybe
  <2> QED
    BY <2>3 DEF items
<1>2. One(e3, "bands")
  <2> DEFINE f == "bands"
             items == Bands(a.bands)
  <2>1. ASSUME a.bands # Absent PROVE Laid(Entry(Keys[f], items), a, <<f>>)
    <3>1. a.bands \in [1..4 -> Names(BandStrength)]
      BY <2>1 DEF IsAlert
    <3> QED
      BY <3>1, LaidBands
  <2>2. f \in OptionalFields /\ a[f] = a.bands /\ Keys[f] = Keys.bands
    BY DEF OptionalFields
  <2>3. a[f] # Absent => Laid(Entry(Keys[f], items), a, <<f>>)
    BY <2>1, <2>2
  <2> HIDE DEF f, items
  <2>4. LaidShown(Optional(Keys[f], a[f], items), a, {f})
    BY <2>2, <2>3, LaidMaybe
  <2> QED
    BY <2>4 DEF f, items
<1> HIDE DEF One
<1>3. /\ One(e1, "droneClass") /\ One(e2, "detectorLatencyMs") /\ One(e4, "direction")
      /\ One(e5, "source") /\ One(e6, "detectorTypeCode")
  <2>1. /\ "droneClass" \in OptionalFields /\ "detectorLatencyMs" \in OptionalFields
        /\ "direction" \in OptionalFields /\ "source" \in OptionalFields
        /\ "detectorTypeCode" \in OptionalFields
    BY DEF OptionalFields
  <2>2. ValueItem(a, "droneClass") = TextString(a.droneClass)
    BY DEF ValueItem
  <2>3. ValueItem(a, "source") = TextString(a.source)
    BY DEF ValueItem
  <2>4. ValueItem(a, "detectorLatencyMs") = Uint(a.detectorLatencyMs)
    BY DEF ValueItem, NumberOf, EnumOf
  <2>5. ValueItem(a, "direction") = Uint(WireValue(Direction, a.direction))
    BY DEF ValueItem, NumberOf, EnumOf
  <2>6. ValueItem(a, "detectorTypeCode") = Uint(a.detectorTypeCode)
    BY DEF ValueItem, NumberOf, EnumOf
  <2>7. One(e1, "droneClass") /\ One(e5, "source")
    BY <1>1, <2>1, <2>2, <2>3
  <2>8. One(e2, "detectorLatencyMs") /\ One(e4, "direction") /\ One(e6, "detectorTypeCode")
    BY <1>1, <2>1, <2>4, <2>5, <2>6
  <2> QED
    BY <2>7, <2>8
<1>4. OptionalEntries(a) = p6
  BY DEF OptionalEntries
<1> HIDE DEF e1, e2, e3, e4, e5, e6
<1>5. ASSUME NEW p, NEW S, NEW e, NEW f, f \notin S
      PROVE  LaidShown(p, a, S) /\ One(e, f) => LaidShown(p \o e, a, S \cup {f})
  BY <1>5, LaidShownBoth DEF One
<1> DEFINE F1 == {"droneClass"}
           F2 == F1 \cup {"detectorLatencyMs"}
           F3 == F2 \cup {"bands"}
           F4 == F3 \cup {"direction"}
           F5 == F4 \cup {"source"}
           F6 == F5 \cup {"detectorTypeCode"}
<1>6. /\ "detectorLatencyMs" \notin F1 /\ "bands" \notin F2 /\ "direction" \notin F3
      /\ "source" \notin F4 /\ "detectorTypeCode" \notin F5
  OBVIOUS
<1>7. LaidShown(e1, a, F1)
  BY <1>3 DEF One
<1>8. LaidShown(p2, a, F2)
  <2>1. LaidShown(e1, a, F1) /\ One(e2, "detectorLatencyMs") => LaidShown(p2, a, F2)
    BY <1>5, <1>6, Zenon
  <2> QED
    BY <1>2, <1>3, <1>7, <2>1
<1>9. LaidShown(p3, a, F3)
  <2>1. LaidShown(p2, a, F2) /\ One(e3, "bands") => LaidShown(p3, a, F3)
    BY <1>5, <1>6, Zenon
  <2> QED
    BY <1>2, <1>3, <1>8, <2>1
<1>10. LaidShown(p4, a, F4)
  <2>1. LaidShown(p3, a, F3) /\ One(e4, "direction") => LaidShown(p4, a, F4)
    BY <1>5, <1>6, Zenon
  <2> QED
    BY <1>2, <1>3, <1>9, <2>1
<1>11. LaidShown(p5, a, F5)
  <2>1. LaidShown(p4, a, F4) /\ One(e5, "source") => LaidShown(p5, a, F5)
    BY <1>5, <1>6, Zenon
  <2> QED
    BY <1>2, <1>3, <1>10, <2>1
<1>12. LaidShown(p6, a, F6)
  <2>1. LaidShown(p5, a, F5) /\ One(e6, "detectorTypeCode") => LaidShown(p6, a, F6)
    BY <1>5, <1>6, Zenon
  <2> QED
    BY <1>2, <1>3, <1>11, <2>1
<1>13. F6 = OptionalFields
  BY DEF OptionalFields
<1> HIDE DEF F6
<1> QED
  BY <1>4, <1>12, <1>13 DEF p6

-----------------------------------------------------------------------------
(* The packet: its header, and an entry of each field that is present.      *)

IsPacket(p, a, fields, s) ==
    /\ p \in Seq(Parts(Texts(a))) /\ Len(p) >= 1
    /\ p[1] = MapHeader(Len(fields))
    /\ fields \in Seq(Fields) /\ Len(fields) \in 1..16
    /\ fields[1] = "protocolVersion"
    /\ Range(fields) = {f \in Fields : Present(a, f)}
    /\ IsLayout(p, 2, a, fields, s)

LEMMA LaidBehindHeader ==
    ASSUME NEW a, NEW q, NEW fields, NEW x \in Parts(Texts(a)), Laid(q, a, fields)
    PROVE  \E s : IsLayout(InFront(x, q), 2, a, fields, s)
<1> DEFINE S == Parts(Texts(a))
           Q == InFront(x, q)
           n == Len(fields)
<1>1. x \in S /\ q \in Seq(S) /\ fields \in Seq(Fields)
  BY DEF Laid
<1>2. PICK s : IsLayout(q, 1, a, fields, s)
  BY DEF Laid
<1> HIDE DEF S
<1>3. Q \in Seq(S) /\ Len(Q) = Len(q) + 1 /\ Len(q) \in Nat /\ n \in Nat
  <2>1. Q \in Seq(S) /\ Len(Q) = Len(q) + 1
    <3>1. x \in S /\ q \in Seq(S)
      BY <1>1
    <3> QED
      BY <3>1, OneMore
  <2>2. Len(q) \in Nat /\ n \in Nat
    BY <1>1
  <2> QED
    BY <2>1, <2>2
<1>4. ASSUME NEW i \in 1..Len(q) PROVE Q[i + 1] = q[i]
  BY <1>1, OthersBehind
<1> HIDE DEF Q, n
<1>5. /\ s \in [1..(n + 1) -> Nat \ {0}] /\ s[1] = 1 /\ s[n + 1] = Len(q) + 1
      /\ \A k \in 1..n : s[k + 1] = s[k] + Size(fields[k]) /\ EntryAt(q, s[k], a, fields[k])
  BY <1>2 DEF IsLayout, n
<1> DEFINE t == [k \in 1..(n + 1) |-> s[k] + 1]
<1>6. t \in [1..(n + 1) -> Nat \ {0}] /\ \A k \in 1..(n + 1) : t[k] = s[k] + 1
  BY <1>5
<1> HIDE DEF t
<1>7. t[1] = 2 /\ t[n + 1] = Len(Q) + 1
  BY <1>3, <1>5, <1>6
<1>8. ASSUME NEW k \in 1..n
      PROVE  t[k + 1] = t[k] + Size(fields[k]) /\ EntryAt(Q, t[k], a, fields[k])
  <2> DEFINE i == s[k]
             f == fields[k]
             j == i + 1
  <2>1. /\ s[k + 1] = i + Size(f) /\ EntryAt(q, i, a, f) /\ i \in Nat \ {0} /\ Size(f) \in Nat
        /\ t[k] = j /\ t[k + 1] = s[k + 1] + 1 /\ j \in Nat
    BY <1>3, <1>5, <1>6, SizeIs
  <2>2. j = i + 1
    OBVIOUS
  <2> HIDE DEF i, f, j
  <2>3. i + Size(f) <= Len(q) + 1
    BY <2>1 DEF EntryAt
  <2>4. ASSUME NEW x1 \in 0..(Size(f) - 1) PROVE Q[j + x1] = q[i + x1]
    <3>1. i + x1 \in 1..Len(q) /\ j + x1 = (i + x1) + 1
      BY <1>3, <2>1, <2>2, <2>3
    <3> QED
      BY <1>4, <3>1
  <2>5. j + Size(f) <= Len(Q) + 1
    BY <1>3, <2>1, <2>2, <2>3
  <2>6. EntryAt(Q, j, a, f)
    BY <2>1, <2>4, <2>5, EntryCopied
  <2> QED
    BY <2>1, <2>2, <2>6 DEF f
<1>9. IsLayout(Q, 2, a, fields, t)
  BY <1>6, <1>7, <1>8 DEF IsLayout, n
<1> QED
  BY <1>9 DEF Q

LEMMA OneAdded ==
    ASSUME NEW S, NEW T, NEW x, T = S \cup {x}, IsFiniteSet(S)
    PROVE  IsFiniteSet(T) /\ Cardinality(T) \in Nat /\ Cardinality(T) <= Cardinality(S) + 1
<1>1. /\ IsFiniteSet(S \cup {x})
      /\ Cardinality(S \cup {x}) = IF x \in S THEN Cardinality(S) ELSE Cardinality(S) + 1
  BY FS_AddElement
<1>2. Cardinality(S) \in Nat
  BY FS_CardinalityType
<1> QED
  BY <1>1, <1>2

LEMMA FewEntries == ASSUME NEW a PROVE Cardinality(Shown(a, OptionalFields)) <= 6
<1> DEFINE s0 == {}
           s1 == s0 \cup {"droneClass"}
           s2 == s1 \cup {"detectorLatencyMs"}
           s3 == s2 \cup {"bands"}
           s4 == s3 \cup {"direction"}
           s5 == s4 \cup {"source"}
           s6 == s5 \cup {"detectorTypeCode"}
           shown == Shown(a, OptionalFields)
<1>1. OptionalFields = s6 /\ shown \subseteq OptionalFields
  BY DEF OptionalFields, Shown
<1>2. IsFiniteSet(s0) /\ Cardinality(s0) = 0
  BY FS_EmptySet
<1> HIDE DEF s0
<1>3. IsFiniteSet(s1) /\ Cardinality(s1) \in Nat /\ Cardinality(s1) <= Cardinality(s0) + 1
  <2>1. s1 = s0 \cup {"droneClass"}
    OBVIOUS
  <2> HIDE DEF s1
  <2> QED
    BY <1>2, <2>1, OneAdded
<1> HIDE DEF s1
<1>4. IsFiniteSet(s2) /\ Cardinality(s2) \in Nat /\ Cardinality(s2) <= Cardinality(s1) + 1
  <2>1. s2 = s1 \cup {"detectorLatencyMs"}
    OBVIOUS
  <2> HIDE DEF s2
  <2> QED
    BY <1>3, <2>1, OneAdded
<1> HIDE DEF s2
<1>5. IsFiniteSet(s3) /\ Cardinality(s3) \in Nat /\ Cardinality(s3) <= Cardinality(s2) + 1
  <2>1. s3 = s2 \cup {"bands"}
    OBVIOUS
  <2> HIDE DEF s3
  <2> QED
    BY <1>4, <2>1, OneAdded
<1> HIDE DEF s3
<1>6. IsFiniteSet(s4) /\ Cardinality(s4) \in Nat /\ Cardinality(s4) <= Cardinality(s3) + 1
  <2>1. s4 = s3 \cup {"direction"}
    OBVIOUS
  <2> HIDE DEF s4
  <2> QED
    BY <1>5, <2>1, OneAdded
<1> HIDE DEF s4
<1>7. IsFiniteSet(s5) /\ Cardinality(s5) \in Nat /\ Cardinality(s5) <= Cardinality(s4) + 1
  <2>1. s5 = s4 \cup {"source"}
    OBVIOUS
  <2> HIDE DEF s5
  <2> QED
    BY <1>6, <2>1, OneAdded
<1> HIDE DEF s5
<1>8. IsFiniteSet(s6) /\ Cardinality(s6) \in Nat /\ Cardinality(s6) <= Cardinality(s5) + 1
  <2>1. s6 = s5 \cup {"detectorTypeCode"}
    OBVIOUS
  <2> HIDE DEF s6
  <2> QED
    BY <1>7, <2>1, OneAdded
<1> HIDE DEF s6, shown
<1>9. Cardinality(shown) <= Cardinality(s6) /\ Cardinality(shown) \in Nat
  BY <1>1, <1>8, FS_Subset, FS_CardinalityType
<1> QED
  BY <1>2, <1>3, <1>4, <1>5, <1>6, <1>7, <1>8, <1>9 DEF shown

LEMMA PacketIsLaid ==
    ASSUME NEW a, IsAlert(a)
    PROVE  \E fields, s : IsPacket(encodeAlert(a, MAX_PAYLOAD_BYTES), a, fields, s)
<1> DEFINE header == MapHeader(EntryCount(a))
           required == RequiredEntries(a)
           optional == OptionalEntries(a)
           body == required \o optional
           p == InFront(header, body)
           S == Parts(Texts(a))
           shown == Shown(a, OptionalFields)
           n == Cardinality(shown)
<1>1. /\ LaidAs(required, a, TRUE, Required \cup {"protocolVersion"}, 10)
      /\ LaidAs(optional, a, FALSE, shown, n)
      /\ n \in Nat /\ EntryCount(a) = 10 + n /\ n <= 6
  <2>1. LaidAs(optional, a, FALSE, shown, n) /\ IsFiniteSet(OptionalFields)
    BY LaidOptional DEF LaidShown
  <2>2. IsFiniteSet(shown)
    <3>1. shown \subseteq OptionalFields
      BY DEF Shown
    <3> QED
      BY <2>1, <3>1, FS_Subset
  <2>3. n \in Nat
    BY <2>2, FS_CardinalityType
  <2>4. EntryCount(a) = 10 + n
    BY DEF EntryCount, Shown
  <2>5. n <= 6
    BY FewEntries
  <2> QED
    BY <2>1, <2>3, <2>4, <2>5, LaidRequired
<1> HIDE DEF required, optional, n
<1>2. LaidAs(body, a, TRUE, (Required \cup {"protocolVersion"}) \cup shown, 10 + n)
  <2> DEFINE F == Required \cup {"protocolVersion"}
             ten == 10
  <2>1. TRUE \in BOOLEAN /\ FALSE \in BOOLEAN /\ ten \in Nat
    OBVIOUS
  <2>2. LaidAs(required, a, TRUE, F, ten)
    BY <1>1
  <2> HIDE DEF F, ten
  <2>3. LaidAs(body, a, TRUE, F \cup shown, ten + n)
    BY <1>1, <2>1, <2>2, LaidAsBoth
  <2> QED
    BY <2>3 DEF F, ten
<1> HIDE DEF body
<1>3. (Required \cup {"protocolVersion"}) \cup shown = {f \in Fields : Present(a, f)}
  BY FieldsAre DEF Shown, Present
<1> DEFINE F == {f \in Fields : Present(a, f)}
           count == EntryCount(a)
<1>4. LaidAs(body, a, TRUE, F, count) /\ count \in Nat /\ count <= 16
  <2>1. count = 10 + n /\ count \in Nat /\ count <= 16
    BY <1>1
  <2>2. LaidAs(body, a, TRUE, F, count)
    BY <1>2, <1>3, <2>1, Zenon
  <2> QED
    BY <2>1, <2>2
<1> HIDE DEF F
<1>5. PICK fields : /\ Laid(body, a, fields) /\ Len(fields) = count /\ Range(fields) = F
                    /\ count >= 1 /\ fields[1] = "protocolVersion"
  BY <1>4 DEF LaidAs
<1>6. header \in S
  BY <1>4, MapIsWhole DEF Texts
<1>7. PICK s : IsLayout(p, 2, a, fields, s)
  BY <1>5, <1>6, LaidBehindHeader
<1>8. p \in Seq(S) /\ Len(p) >= 1 /\ p[1] = header
  <2>1. body \in Seq(S)
    BY <1>5 DEF Laid
  <2>2. Len(body) \in Nat
    BY <2>1
  <2> HIDE DEF S, header
  <2> QED
    BY <1>6, <2>1, <2>2, OneMore
<1>9. fields \in Seq(Fields)
  BY <1>5 DEF Laid
<1>10. encodeAlert(a, MAX_PAYLOAD_BYTES) = p
  <2> DEFINE whole == (<<header>> \o required) \o optional
  <2>1. encodeAlert(a, MAX_PAYLOAD_BYTES) =
          IF PacketBytes(whole) > MAX_PAYLOAD_BYTES \/ PacketBytes(whole) > MAX_PAYLOAD_BYTES
          THEN <<>> ELSE whole
    BY DEF encodeAlert, required, optional
  <2>2. whole = p
    <3>1. required \in Seq(S) /\ optional \in Seq(S)
      BY <1>1 DEF LaidAs, Laid
    <3> DEFINE h == <<header>>
    <3>2. h \in Seq(S)
      BY <1>6
    <3> HIDE DEF S, h
    <3>3. (h \o required) \o optional = h \o (required \o optional)
      BY <3>1, <3>2, ConcatAssociative
    <3> QED
      BY <3>3 DEF h, body, InFront
  <2> HIDE DEF whole
  <2> QED
    BY <2>1, <2>2, AlertFits
<1> HIDE DEF p, count, header, S
<1>11. p[1] = MapHeader(Len(fields)) /\ Len(fields) \in 1..16
  <2>1. p[1] = MapHeader(Len(fields)) /\ Len(fields) = count
    BY <1>5, <1>8 DEF header, count
  <2>2. count >= 1 /\ count <= 16 /\ count \in Nat
    BY <1>4, <1>5
  <2> HIDE DEF count
  <2> QED
    BY <2>1, <2>2
<1>12. IsPacket(p, a, fields, s)
  BY <1>5, <1>7, <1>8, <1>9, <1>11 DEF IsPacket, S, F
<1> QED
  BY <1>10, <1>12

-----------------------------------------------------------------------------
(* The two readers: the one of the bridge and the one of the watch.         *)

Readers == {"core", "watch"}

EntryOf(who, P, r) ==
    IF who = "core" THEN ReadEntry(P, r)
    ELSE IF ~Readable(P, r.at, "uint") THEN Fail(r, "MALFORMED")
    ELSE readValueForKey(P, r)

Blank == [f \in DOMAIN Keys |-> IF f \in DOMAIN EmptyAlert THEN EmptyAlert[f] ELSE Absent]

StartOf(who) == IF who = "core" THEN Blank ELSE Nothing

\* What a reader makes of the entry of a field.
ValueOf(who, a, f) ==
    IF f = "protocolVersion" THEN PROTOCOL_VERSION
    ELSE IF who = "core" THEN a[f]
    ELSE IF f = "bands" THEN [k \in 1..4 |-> WireValue(BandStrength, a.bands[k])]
    ELSE IF f \in NumberFields THEN Signed(NumberOf(a, f))
    ELSE a[f]

\* The entry of f is at item i of what arrived.
EntryIn(P, i, a, f) ==
    /\ \A k \in 0..(Size(f) - 1) : i + k \in DOMAIN P
    /\ P[i] = Uint(Keys[f])
    /\ P[i + 1] = ValueItem(a, f)
    /\ f = "bands" => \A k \in 1..4 : P[i + 1 + k] = LevelItem(a, k)

LEMMA EntryIsThere ==
    ASSUME NEW P, NEW i \in Nat, NEW a, NEW f, EntryIn(P, i, a, f)
    PROVE  i \in DOMAIN P /\ i + 1 \in DOMAIN P
<1>1. 0 \in 0..(Size(f) - 1) /\ 1 \in 0..(Size(f) - 1)
  BY DEF Size
<1>2. i + 0 \in DOMAIN P /\ i + 1 \in DOMAIN P
  BY <1>1 DEF EntryIn
<1> QED
  BY <1>2

LEMMA KeyIsRead ==
    ASSUME NEW P, NEW i \in Nat, NEW f \in Fields, i \in DOMAIN P, P[i] = Uint(Keys[f])
    PROVE  HasWhole(P, i, "uint") /\ Readable(P, i, "uint") /\ FieldOf(P[i].arg) = f
<1> DEFINE n == Keys[f]
<1>1. n \in Nat /\ FieldOf(n) = f /\ n \in 0..(WordLimit - 1)
  BY KeyIs, SmallFits
<1> HIDE DEF n
<1>2. Uint(n) \in Parts({EmptyText}) /\ Uint(n).major = "uint" /\ Uint(n).arg = n
  BY <1>1, UintIsWhole
<1>3. Whole(P[i]) /\ P[i].major = "uint" /\ P[i].arg = n
  BY <1>2 DEF Parts, n
<1> QED
  BY <1>1, <1>3, WholeIsRead, WholeIsReadable

\* A reader takes an unsigned integer that is there for what it is.
LEMMA UintIsRead ==
    ASSUME NEW P, NEW j, j \in DOMAIN P, NEW n \in 0..(WordLimit - 1), P[j] = Uint(n)
    PROVE  /\ HasWhole(P, j, "uint") /\ ~HasWhole(P, j, "null") /\ Readable(P, j, "uint")
           /\ P[j].arg = n /\ P[j].major = "uint"
           /\ readUint(P, j) = Signed(n)
<1> DEFINE kind == "uint"
<1>0. n \in Nat
  OBVIOUS
<1>1. Uint(n) \in Parts({EmptyText}) /\ Uint(n).major = kind /\ Uint(n).arg = n
  BY <1>0, UintIsWhole
<1>2. Whole(P[j]) /\ P[j].major = kind /\ P[j].arg = n
  BY <1>1 DEF Parts
<1>3. kind # "null"
  OBVIOUS
<1> HIDE DEF kind
<1>4. HasWhole(P, j, kind) /\ ~HasWhole(P, j, "null") /\ Readable(P, j, kind)
  BY <1>2, <1>3, WholeIsRead, WholeIsReadable
<1>5. readUint(P, j) = Signed(n)
  BY <1>2, <1>4 DEF readUint, kind
<1> QED
  BY <1>2, <1>4, <1>5 DEF kind

\* A small number has no sign to lose, and a number is not nothing.
LEMMA SignedIs ==
    ASSUME NEW n \in 0..(WordLimit - 1)
    PROVE  /\ Signed(n) \in Int /\ Signed(n) # Absent
           /\ n <= 65535 => Signed(n) = n
<1>1. WordLimit \in Nat /\ WordLimit \div 2 \in Nat /\ WordLimit \div 2 > 65535
  BY WordAssumption
<1>2. Signed(n) \in Int /\ (n <= 65535 => Signed(n) = n)
  BY <1>1 DEF Signed
<1>3. Absent \notin Int
  BY NullAssumption
<1> QED
  BY <1>2, <1>3

LEMMA BoundedIsRead ==
    ASSUME NEW P, NEW j, j \in DOMAIN P, NEW n \in Nat, P[j] = Uint(n),
           NEW bound \in Nat, bound <= 65535, n <= bound
    PROVE  readBoundedUint(P, j, bound) = n /\ n # Absent
<1>1. n \in 0..(WordLimit - 1) /\ n <= 65535
  <2>1. WordLimit \in Nat /\ WordLimit > 65535
    BY WordAssumption
  <2>3. n <= 65535
    OBVIOUS
  <2> QED
    BY <2>1, <2>3
<1>2. readUint(P, j) = n /\ n # Absent
  BY <1>1, UintIsRead, SignedIs
<1> QED
  BY <1>2 DEF readBoundedUint

\* The state of a reader in front of item i that has found the fields in F.
Standing(who, a, i, F) ==
    [at |-> i,
     found |-> [g \in Fields |-> IF g \in F THEN ValueOf(who, a, g) ELSE StartOf(who)[g]],
     seen |-> F,
     status |-> "OK"]

LEMMA StandingIs ==
    ASSUME NEW who, NEW a, NEW i, NEW F
    PROVE  /\ Standing(who, a, i, F).at = i
           /\ Standing(who, a, i, F).seen = F
           /\ Standing(who, a, i, F).status = "OK"
           /\ Standing(who, a, i, F).found =
                 [g \in Fields |-> IF g \in F THEN ValueOf(who, a, g) ELSE StartOf(who)[g]]
BY DEF Standing

LEMMA FoundRecord ==
    ASSUME NEW i \in Nat, NEW before, NEW F, NEW f, NEW v, NEW used \in Nat
    PROVE  Found([at |-> i, found |-> before, seen |-> F, status |-> "OK"], f, v, used)
             = [at |-> i + used, found |-> [before EXCEPT ![f] = v], seen |-> F \cup {f},
                status |-> "OK"]
<1> DEFINE r == [at |-> i, found |-> before, seen |-> F, status |-> "OK"]
<1>1. Found(r, f, v, used)
         = [r EXCEPT !.found[f] = v, !.seen = @ \cup {f}, !.at = @ + used]
  BY DEF Found
<1> QED
  BY <1>1

FoundBehind(who, a, i, F, f, used) ==
    Found(Standing(who, a, i, F), f, ValueOf(who, a, f), used)
       = Standing(who, a, i + used, F \cup {f})

LEMMA FoundIs ==
    ASSUME NEW who, NEW a, NEW i \in Nat, NEW F, NEW f \in Fields, NEW used \in Nat
    PROVE  FoundBehind(who, a, i, F, f, used)
<1> DEFINE G == F \cup {f}
           before == [g \in Fields |-> IF g \in F THEN ValueOf(who, a, g) ELSE StartOf(who)[g]]
           after == [g \in Fields |-> IF g \in G THEN ValueOf(who, a, g) ELSE StartOf(who)[g]]
           r == [at |-> i, found |-> before, seen |-> F, status |-> "OK"]
           v == ValueOf(who, a, f)
<1>1. [before EXCEPT ![f] = v] = after
  OBVIOUS
<1>2. Standing(who, a, i, F) = r
  BY DEF Standing
<1>3. Standing(who, a, i + used, F \cup {f})
         = [at |-> i + used, found |-> after, seen |-> G, status |-> "OK"]
  BY DEF Standing
<1> HIDE DEF before, after, G, v
<1>4. Found(r, f, v, used)
         = [at |-> i + used, found |-> [before EXCEPT ![f] = v], seen |-> F \cup {f},
            status |-> "OK"]
  BY FoundRecord
<1> HIDE DEF r
<1>5. Found(r, f, v, used) = [at |-> i + used, found |-> after, seen |-> G, status |-> "OK"]
  BY <1>1, <1>4 DEF G
<1> QED
  BY <1>2, <1>3, <1>5 DEF v, FoundBehind

-----------------------------------------------------------------------------
(* An entry that is there is read for what it is, by both readers.          *)

LEMMA VersionIsRead ==
    ASSUME NEW P, NEW r, r.at + 1 \in DOMAIN P, P[r.at + 1] = Uint(PROTOCOL_VERSION)
    PROVE  /\ ReadVersion(P, r) = Found(r, "protocolVersion", PROTOCOL_VERSION, 2)
           /\ WatchReadsVersion(P, r) = Found(r, "protocolVersion", PROTOCOL_VERSION, 2)
<1> DEFINE j == r.at + 1
           n == PROTOCOL_VERSION
<1>1. n \in 0..(WordLimit - 1) /\ n \in Nat /\ n <= 65535
  BY WordAssumption DEF PROTOCOL_VERSION
<1>2. n # Absent /\ Signed(n) = n
  <2> HIDE DEF n
  <2> QED
    BY <1>1, SignedIs
<1>3. HasWhole(P, j, "uint") /\ P[j].arg = n /\ readUint(P, j) = n
  <2> HIDE DEF n, j
  <2> QED
    BY <1>1, <1>2, UintIsRead DEF n, j
<1> QED
  BY <1>2, <1>3 DEF ReadVersion, WatchReadsVersion, Keep

\* The bounds of the watch are those of the bridge, and none is above a type code.
LEMMA BoundsAgree ==
    /\ NumberFields = {"timestampMs", "sequence", "detectorLatencyMs"} \cup DOMAIN BoundOf
    /\ {"timestampMs", "sequence", "detectorLatencyMs"} \cap DOMAIN BoundOf = {}
    /\ \A f \in {"timestampMs", "sequence", "detectorLatencyMs"} : Greatest[f] = WordLimit - 1
<1>1. /\ NumberFields = {"timestampMs", "sequence", "detectorLatencyMs"} \cup DOMAIN BoundOf
      /\ {"timestampMs", "sequence", "detectorLatencyMs"} \cap DOMAIN BoundOf = {}
  BY DEF NumberFields, BoundOf, Greatest
<1>2. \A f \in {"timestampMs", "sequence", "detectorLatencyMs"} : Greatest[f] = WordLimit - 1
  BY DEF Greatest
<1> QED
  BY <1>1, <1>2

LEMMA BoundIs ==
    ASSUME NEW f \in DOMAIN BoundOf
    PROVE  BoundOf[f] = Greatest[f] /\ BoundOf[f] \in Nat /\ BoundOf[f] <= 65535
<1>1. CASE f \in {"sensorType", "alertKind", "threat", "severity"}
  BY <1>1 DEF BoundOf, Greatest
<1>2. CASE f \in {"band", "distance", "direction"}
  BY <1>2 DEF BoundOf, Greatest
<1>3. CASE f = "detectorTypeCode"
  BY <1>3 DEF BoundOf, Greatest
<1> QED
  BY <1>1, <1>2, <1>3 DEF BoundOf

LEMMA NumberEntryIsRead ==
    ASSUME NEW a, IsAlert(a), NEW f \in NumberFields, Present(a, f), NEW P, NEW r,
           FieldOf(P[r.at].arg) = f, r.at + 1 \in DOMAIN P, P[r.at + 1] = Uint(NumberOf(a, f))
    PROVE  /\ ReadNumber(P, r, f) = Found(r, f, a[f], 2)
           /\ readValueForKey(P, r) = Found(r, f, Signed(NumberOf(a, f)), 2)
<1> DEFINE j == r.at + 1
           n == NumberOf(a, f)
<1>1. n \in 0..Greatest[f] /\ Meaning(f, n) = a[f] /\ Greatest[f] \in Nat
  BY NumberIsRead
<1> HIDE DEF n
<1>2. n \in Nat /\ n <= Greatest[f]
  BY <1>1
<1>3. j \in DOMAIN P /\ P[j] = Uint(n)
  BY DEF n
<1>13. n \in 0..(WordLimit - 1)
  <2>1. CASE f \in {"timestampMs", "sequence", "detectorLatencyMs"}
    BY <1>1, <2>1, BoundsAgree
  <2>2. CASE f \in DOMAIN BoundOf
    <3>1. Greatest[f] <= 65535
      BY <2>2, BoundIs
    <3> QED
      BY <1>1, <1>2, <3>1, SmallFits
  <2> QED
    BY <2>1, <2>2, BoundsAgree
<1> HIDE DEF j
<1>4. HasWhole(P, j, "uint") /\ P[j].arg = n /\ readUint(P, j) = Signed(n)
  BY <1>3, <1>13, UintIsRead
<1>5. ReadNumber(P, r, f) = Found(r, f, a[f], 2)
  <2>1. ~(n > Greatest[f])
    BY <1>1, <1>2
  <2> QED
    BY <1>1, <1>4, <2>1 DEF ReadNumber, j
<1>6. f # "protocolVersion"
  BY FieldsAre
<1>7. CASE f \in {"timestampMs", "sequence", "detectorLatencyMs"}
  <2>1. n \in 0..(WordLimit - 1)
    BY <1>1, <1>7, BoundsAgree
  <2>2. Signed(n) # Absent
    BY <2>1, SignedIs
  <2>3. readValueForKey(P, r) = Keep(r, f, readUint(P, j), "MALFORMED")
    BY <1>6, <1>7 DEF readValueForKey, j
  <2>4. readValueForKey(P, r) = Found(r, f, Signed(n), 2)
    BY <1>4, <2>2, <2>3 DEF Keep
  <2> QED
    BY <1>5, <2>4 DEF n
<1>8. CASE f \in DOMAIN BoundOf
  <2> DEFINE bound == BoundOf[f]
  <2>1. bound \in Nat /\ bound <= 65535 /\ n <= bound
    BY <1>2, <1>8, BoundIs
  <2>0. f \notin {"timestampMs", "sequence", "detectorLatencyMs"}
    BY <1>8, BoundsAgree
  <2>2. readValueForKey(P, r) = Keep(r, f, readBoundedUint(P, j, bound), "BAD_VALUE")
    BY <1>6, <1>8, <2>0 DEF readValueForKey, j
  <2> HIDE DEF bound
  <2>3. readBoundedUint(P, j, bound) = n /\ n # Absent
    BY <1>2, <1>3, <2>1, BoundedIsRead
  <2>4. Signed(n) = n
    <3>1. n \in 0..(WordLimit - 1) /\ n <= 65535
      <4>1. WordLimit \in Nat /\ WordLimit > 65535
        BY WordAssumption
      <4>2. n <= 65535
        BY <1>2, <2>1
      <4> QED
        BY <1>2, <4>1, <4>2
    <3> QED
      BY <3>1, SignedIs
  <2>5. readValueForKey(P, r) = Found(r, f, Signed(n), 2)
    BY <2>2, <2>3, <2>4 DEF Keep
  <2> QED
    BY <1>5, <2>5 DEF n
<1> QED
  BY <1>7, <1>8, BoundsAgree

LEMMA ConfidenceIsRead ==
    ASSUME NEW a, IsAlert(a), NEW P, NEW r,
           r.at + 1 \in DOMAIN P, P[r.at + 1] = ConfidenceItem(a.confidence)
    PROVE  /\ ReadConfidence(P, r) = Found(r, "confidence", a.confidence, 2)
           /\ WatchReadsConfidence(P, r) = Found(r, "confidence", a.confidence, 2)
<1> DEFINE j == r.at + 1
           n == a.confidence
<1>1. n = Absent \/ n \in 0..100
  BY DEF IsAlert
<1>2. j \in DOMAIN P /\ P[j] = ConfidenceItem(n)
  OBVIOUS
<1>3. CASE n = Absent
  <2> DEFINE kind == "null"
  <2>1. Null \in Parts({EmptyText}) /\ Null.major = kind
    BY NullIsWhole
  <2>2. P[j] = Null
    BY <1>2, <1>3 DEF ConfidenceItem
  <2>3. Whole(P[j]) /\ P[j].major = kind
    BY <2>1, <2>2 DEF Parts
  <2> HIDE DEF j, kind
  <2>4. HasWhole(P, j, kind)
    BY <1>2, <2>3, WholeIsRead
  <2> QED
    BY <1>3, <2>4 DEF ReadConfidence, WatchReadsConfidence, j, kind
<1>4. CASE n # Absent
  <2>1. n \in Nat /\ n <= 100 /\ n \in 0..100
    BY <1>1, <1>4
  <2>2. P[j] = Uint(n)
    BY <1>2, <1>4 DEF ConfidenceItem
  <2> HIDE DEF j, n
  <2>3. /\ HasWhole(P, j, "uint") /\ ~HasWhole(P, j, "null")
        /\ P[j].arg = n /\ P[j].major = "uint"
    BY <1>2, <2>1, <2>2, SmallFits, UintIsRead
  <2>4. readBoundedUint(P, j, 100) = n
    <3> DEFINE bound == 100
    <3>1. bound \in Nat /\ bound <= 65535 /\ n <= bound
      BY <2>1
    <3> HIDE DEF bound
    <3>2. readBoundedUint(P, j, bound) = n
      BY <1>2, <2>1, <2>2, <3>1, BoundedIsRead
    <3> QED
      BY <3>2 DEF bound
  <2>5. ReadConfidence(P, r) = Found(r, "confidence", n, 2)
    <3>1. ~(n > 100)
      BY <2>1
    <3> QED
      BY <2>3, <3>1 DEF ReadConfidence, j
  <2>6. WatchReadsConfidence(P, r) = Found(r, "confidence", n, 2)
    BY <1>2, <1>4, <2>3, <2>4 DEF WatchReadsConfidence, Keep, j
  <2> QED
    BY <2>5, <2>6 DEF n
<1> QED
  BY <1>3, <1>4

LEMMA TextIsRead ==
    ASSUME NEW P, NEW r, NEW f, NEW text, NEW capacity \in 0..255, text.length \in 1..(capacity - 1),
           text # Absent, r.at + 1 \in DOMAIN P, P[r.at + 1] = TextString(text)
    PROVE  /\ ReadText(P, r, f, capacity) = Found(r, f, text, 2)
           /\ Keep(r, f, readTextString(P, r.at + 1), "MALFORMED") = Found(r, f, text, 2)
<1> DEFINE j == r.at + 1
           kind == "text"
           texts == {EmptyText, text}
<1>1. /\ text \in texts /\ text.length \in Nat /\ text.length # 0 /\ ~(text.length >= capacity)
      /\ text.length <= 65535
  OBVIOUS
<1> HIDE DEF texts
<1>2. /\ TextString(text) \in Parts(texts) /\ TextString(text).major = kind
      /\ TextString(text).text = text /\ TextString(text).arg = text.length
  BY <1>1, TextIsWhole
<1>3. /\ Whole(P[j]) /\ P[j].major = kind /\ P[j].text = text /\ j \in DOMAIN P
      /\ P[j].arg \in 0..(WordLimit - 1)
  BY <1>1, <1>2, SmallFits DEF Parts
<1> HIDE DEF j, kind
<1>4. HasWhole(P, j, kind) /\ HasHead(P, j, kind) /\ Readable(P, j, kind)
  BY <1>3, WholeIsRead, WholeIsReadable
<1>5. ~TooLarge(text, capacity) /\ setBoundedField(text, capacity) = text
  BY <1>1 DEF TooLarge, setBoundedField
<1>6. ReadText(P, r, f, capacity) = Found(r, f, text, 2)
  BY <1>3, <1>4, <1>5 DEF ReadText, j, kind
<1>7. readTextString(P, j) = text
  BY <1>3, <1>4 DEF readTextString, kind
<1>8. Keep(r, f, readTextString(P, j), "MALFORMED") = Found(r, f, text, 2)
  BY <1>7 DEF Keep
<1> QED
  BY <1>6, <1>8 DEF j

LEMMA LevelIs ==
    ASSUME NEW a, a.bands \in [1..4 -> Names(BandStrength)], NEW k \in 1..4
    PROVE  LET n == WireValue(BandStrength, a.bands[k])
           IN  n \in Nat /\ n <= 3 /\ Name(BandStrength, n) = a.bands[k]
<1> DEFINE n == WireValue(BandStrength, a.bands[k])
<1>1. /\ BandStrength \in Seq(Names(BandStrength)) /\ Len(BandStrength) = 4
      /\ a.bands[k] \in Names(BandStrength)
  BY DEF BandStrength, Names
<1>2. n \in Nat /\ n < Len(BandStrength) /\ BandStrength[n + 1] = a.bands[k]
  BY <1>1, WireValueIs
<1> HIDE DEF n
<1>3. n \in Nat /\ n <= 3 /\ Name(BandStrength, n) = a.bands[k]
  BY <1>1, <1>2 DEF Name
<1> QED
  BY <1>3 DEF n

LEMMA BandsAreRead ==
    ASSUME NEW a, a.bands \in [1..4 -> Names(BandStrength)], NEW P, NEW r,
           r.at + 1 \in DOMAIN P, P[r.at + 1] = ArrayHeader(4),
           \A k \in 1..4 : r.at + 1 + k \in DOMAIN P /\ P[r.at + 1 + k] = LevelItem(a, k)
    PROVE  /\ ReadBands(P, r) = Found(r, "bands", a.bands, 6)
           /\ WatchReadsBands(P, r)
                = Found(r, "bands", [k \in 1..4 |-> WireValue(BandStrength, a.bands[k])], 6)
<1> DEFINE j == r.at + 1
           kind == "array"
           four == 4
           n(k) == WireValue(BandStrength, a.bands[k])
<1>1. /\ four \in Nat
      /\ ArrayHeader(four) \in Parts({EmptyText}) /\ ArrayHeader(four).major = kind
      /\ ArrayHeader(four).arg = four
  BY ArrayIsWhole
<1>2. Whole(P[j]) /\ P[j].major = kind /\ P[j].arg = four /\ j \in DOMAIN P
  BY <1>1 DEF Parts
<1> HIDE DEF kind
<1>3. HasWhole(P, j, kind)
  <2> HIDE DEF j
  <2> QED
    BY <1>2, WholeIsRead
<1>4. ASSUME NEW k \in 1..4
      PROVE  /\ HasWhole(P, j + k, "uint") /\ P[j + k].arg = n(k)
             /\ n(k) \in Nat /\ n(k) <= 3 /\ Name(BandStrength, n(k)) = a.bands[k]
             /\ readBoundedUint(P, j + k, 3) = n(k) /\ n(k) # Absent
  <2>1. n(k) \in Nat /\ n(k) <= 3 /\ Name(BandStrength, n(k)) = a.bands[k]
    BY LevelIs
  <2>2. j + k \in DOMAIN P /\ P[j + k] = Uint(n(k))
    BY DEF LevelItem
  <2> DEFINE i == j + k
             m == n(k)
             bound == 3
  <2>3. bound \in Nat /\ bound <= 65535 /\ m <= bound /\ m \in Nat
    BY <2>1
  <2>4. i \in DOMAIN P /\ P[i] = Uint(m)
    BY <2>2
  <2> HIDE DEF i, m, bound
  <2>5. HasWhole(P, i, "uint") /\ P[i].arg = m
    BY <2>3, <2>4, SmallFits, UintIsRead DEF bound
  <2>6. readBoundedUint(P, i, bound) = m /\ m # Absent
    BY <2>3, <2>4, BoundedIsRead
  <2> QED
    BY <2>1, <2>5, <2>6 DEF i, m, bound
<1> HIDE DEF j, n
<1>5. ReadBands(P, r) = Found(r, "bands", a.bands, 6)
  <2> DEFINE levels == [k \in 1..4 |-> Name(BandStrength, P[r.at + 1 + k].arg)]
  <2>1. ASSUME NEW k \in 1..4
        PROVE  /\ HasWhole(P, r.at + 1 + k, "uint") /\ P[r.at + 1 + k].arg <= 3
               /\ Name(BandStrength, P[r.at + 1 + k].arg) = a.bands[k]
    BY <1>4 DEF j
  <2>2. levels = a.bands
    BY <2>1
  <2> HIDE DEF levels
  <2>3. HasWhole(P, r.at + 1, "array") /\ P[r.at + 1].arg = 4
    BY <1>2, <1>3 DEF j, kind
  <2>4. ReadBands(P, r) = Found(r, "bands", levels, 6)
    BY <2>1, <2>3 DEF ReadBands, levels
  <2> QED
    BY <2>2, <2>4
<1>6. WatchReadsBands(P, r) = Found(r, "bands", [k \in 1..4 |-> n(k)], 6)
  <2> DEFINE levels == [k \in 1..4 |-> readBoundedUint(P, r.at + 1 + k, 3)]
  <2>1. ASSUME NEW k \in 1..4
        PROVE  /\ readBoundedUint(P, r.at + 1 + k, 3) = n(k)
               /\ readBoundedUint(P, r.at + 1 + k, 3) # Absent
    BY <1>4 DEF j
  <2>2. levels = [k \in 1..4 |-> n(k)]
    BY <2>1
  <2> HIDE DEF levels
  <2>3. r.at + 1 \in DOMAIN P /\ P[r.at + 1].major = "array" /\ P[r.at + 1].arg = 4
    BY <1>2 DEF j, kind
  <2>4. WatchReadsBands(P, r) = Found(r, "bands", levels, 6)
    BY <2>1, <2>3 DEF WatchReadsBands, levels
  <2> QED
    BY <2>2, <2>4
<1> QED
  BY <1>5, <1>6 DEF n

\* Either reader finds the field of an entry that is there, and stands behind it.
LEMMA EntryIsRead ==
    ASSUME NEW who \in Readers, NEW a, IsAlert(a), NEW f \in Fields, Present(a, f),
           NEW P, NEW i \in Nat, EntryIn(P, i, a, f), NEW r, r.at = i
    PROVE  EntryOf(who, P, r) = Found(r, f, ValueOf(who, a, f), Size(f))
<1>1. i \in DOMAIN P /\ r.at + 1 \in DOMAIN P
  BY EntryIsThere
<1>2. P[r.at] = Uint(Keys[f]) /\ P[r.at + 1] = ValueItem(a, f)
  BY DEF EntryIn
<1>3. HasWhole(P, r.at, "uint") /\ Readable(P, r.at, "uint") /\ FieldOf(P[r.at].arg) = f
  BY <1>1, <1>2, KeyIsRead
<1>4. /\ who = "core" => EntryOf(who, P, r) = ReadEntry(P, r)
      /\ who = "watch" => EntryOf(who, P, r) = readValueForKey(P, r)
      /\ who = "core" \/ who = "watch"
  BY <1>3 DEF EntryOf, Readers
<1>5. CASE f = "protocolVersion"
  <2>1. P[r.at + 1] = Uint(PROTOCOL_VERSION)
    BY <1>2, <1>5 DEF ValueItem
  <2>2. Size(f) = 2 /\ ValueOf(who, a, f) = PROTOCOL_VERSION
    BY <1>5 DEF Size, ValueOf
  <2>3. ReadEntry(P, r) = ReadVersion(P, r) /\ readValueForKey(P, r) = WatchReadsVersion(P, r)
    BY <1>3, <1>5 DEF ReadEntry, readValueForKey
  <2> QED
    BY <1>1, <1>4, <1>5, <2>1, <2>2, <2>3, VersionIsRead
<1>6. CASE f \in NumberFields
  <2>1. f \notin {"protocolVersion", "confidence", "droneClass", "source", "bands"}
    BY <1>6, FieldsAre
  <2>2. P[r.at + 1] = Uint(NumberOf(a, f))
    BY <1>2, <2>1 DEF ValueItem
  <2>3. Size(f) = 2 /\ ValueOf("core", a, f) = a[f] /\ ValueOf("watch", a, f) = Signed(NumberOf(a, f))
    BY <1>6, <2>1 DEF Size, ValueOf
  <2>4. ReadEntry(P, r) = ReadNumber(P, r, f)
    BY <1>3, <1>6, <2>1 DEF ReadEntry
  <2>5. /\ ReadNumber(P, r, f) = Found(r, f, a[f], 2)
        /\ readValueForKey(P, r) = Found(r, f, Signed(NumberOf(a, f)), 2)
    BY <1>1, <1>3, <1>6, <2>2, NumberEntryIsRead
  <2> QED
    BY <1>4, <2>3, <2>4, <2>5
<1>7. CASE f = "confidence"
  <2>1. P[r.at + 1] = ConfidenceItem(a.confidence)
    BY <1>2, <1>7 DEF ValueItem
  <2>2. f \notin NumberFields
    BY <1>7, FieldsAre
  <2>3. Size(f) = 2 /\ ValueOf(who, a, f) = a.confidence
    BY <1>7, <2>2 DEF Size, ValueOf
  <2>4. ReadEntry(P, r) = ReadConfidence(P, r) /\ readValueForKey(P, r) = WatchReadsConfidence(P, r)
    BY <1>3, <1>7, <2>2, BoundsAgree DEF ReadEntry, readValueForKey
  <2> QED
    BY <1>1, <1>4, <1>7, <2>1, <2>3, <2>4, ConfidenceIsRead
<1>8. CASE f \in {"droneClass", "source"}
  <2> DEFINE text == a[f]
             capacity == IF f = "droneClass" THEN DRONE_CLASS_CAPACITY ELSE SOURCE_CAPACITY
  <2>1. P[r.at + 1] = TextString(text) /\ f \notin NumberFields
    BY <1>2, <1>8, FieldsAre DEF ValueItem
  <2>2. text # Absent /\ text.length \in 1..(capacity - 1) /\ capacity \in 0..255
    BY <1>8 DEF IsAlert, Present, OptionalFields, DRONE_CLASS_CAPACITY, SOURCE_CAPACITY
  <2>3. Size(f) = 2 /\ ValueOf(who, a, f) = text
    BY <1>8, <2>1 DEF Size, ValueOf
  <2>4. ReadEntry(P, r) = ReadText(P, r, f, capacity)
    BY <1>3, <1>8, <2>1 DEF ReadEntry
  <2>5. readValueForKey(P, r) = Keep(r, f, readTextString(P, r.at + 1), "MALFORMED")
    BY <1>3, <1>8, <2>1, BoundsAgree DEF readValueForKey
  <2> HIDE DEF text, capacity
  <2>6. /\ ReadText(P, r, f, capacity) = Found(r, f, text, 2)
        /\ Keep(r, f, readTextString(P, r.at + 1), "MALFORMED") = Found(r, f, text, 2)
    BY <1>1, <2>1, <2>2, TextIsRead
  <2> QED
    BY <1>4, <2>3, <2>4, <2>5, <2>6
<1>9. CASE f = "bands"
  <2>1. P[r.at + 1] = ArrayHeader(4) /\ f \notin NumberFields
    BY <1>2, <1>9, FieldsAre DEF ValueItem
  <2>2. a.bands \in [1..4 -> Names(BandStrength)]
    BY <1>9 DEF IsAlert, Present, OptionalFields
  <2>3. ASSUME NEW k \in 1..4 PROVE r.at + 1 + k \in DOMAIN P /\ P[r.at + 1 + k] = LevelItem(a, k)
    <3>1. 1 + k \in 0..(Size(f) - 1)
      BY <1>9 DEF Size
    <3>2. i + (1 + k) \in DOMAIN P /\ i + (1 + k) = r.at + 1 + k
      BY <3>1 DEF EntryIn
    <3> QED
      BY <1>9, <3>2 DEF EntryIn
  <2>4. /\ Size(f) = 6 /\ ValueOf("core", a, f) = a.bands
        /\ ValueOf("watch", a, f) = [k \in 1..4 |-> WireValue(BandStrength, a.bands[k])]
    BY <1>9 DEF Size, ValueOf
  <2>5. ReadEntry(P, r) = ReadBands(P, r) /\ readValueForKey(P, r) = WatchReadsBands(P, r)
    BY <1>3, <1>9, <2>1, BoundsAgree DEF ReadEntry, readValueForKey
  <2>6. /\ ReadBands(P, r) = Found(r, "bands", a.bands, 6)
        /\ WatchReadsBands(P, r)
             = Found(r, "bands", [k \in 1..4 |-> WireValue(BandStrength, a.bands[k])], 6)
    BY <1>1, <2>1, <2>2, <2>3, BandsAreRead
  <2> QED
    BY <1>4, <1>9, <2>4, <2>5, <2>6
<1> QED
  BY <1>5, <1>6, <1>7, <1>8, <1>9, FieldsAre

-----------------------------------------------------------------------------
(* An entry of which an item is missing is a failure, of both readers.      *)

Failures == {"MALFORMED", "WRONG_VERSION", "BAD_VALUE"}

Failed(r) == {Fail(r, status) : status \in Failures}

\* Item j is not there, or not all of it.
Missing(P, j) == j \notin DOMAIN P \/ P[j].got # ItemBytes(P[j])

LEMMA FailedIs ==
    ASSUME NEW who, NEW a, NEW i, NEW F, NEW q \in Failed(Standing(who, a, i, F))
    PROVE  q.status # "OK"
<1> DEFINE r == Standing(who, a, i, F)
<1>1. PICK status \in Failures : q = Fail(r, status)
  BY DEF Failed
<1>2. q = [r EXCEPT !.status = status] /\ status # "OK"
  BY <1>1 DEF Fail, Failures
<1> QED
  BY <1>2 DEF Standing

LEMMA MissingIs ==
    ASSUME NEW P, NEW j, Missing(P, j)
    PROVE  /\ \A major : ~HasWhole(P, j, major) /\ ~Readable(P, j, major)
           /\ readUint(P, j) = Absent
           /\ readTextString(P, j) = Absent
           /\ \A bound : readBoundedUint(P, j, bound) = Absent
<1>1. \A major : ~HasWhole(P, j, major) /\ ~Readable(P, j, major)
  BY DEF Missing, Readable, HasWhole, HasHead
<1>2. readUint(P, j) = Absent /\ readTextString(P, j) = Absent
  BY <1>1 DEF readUint, readTextString
<1> QED
  BY <1>1, <1>2 DEF readBoundedUint

LEMMA FailingIs ==
    ASSUME NEW r
    PROVE  /\ Fail(r, "MALFORMED") \in Failed(r) /\ Fail(r, "WRONG_VERSION") \in Failed(r)
           /\ Fail(r, "BAD_VALUE") \in Failed(r)
BY DEF Failed, Failures

LEMMA KeyIsMissing ==
    ASSUME NEW who \in Readers, NEW P, NEW r, Missing(P, r.at)
    PROVE  EntryOf(who, P, r) \in Failed(r)
<1>1. ~HasWhole(P, r.at, "uint") /\ ~Readable(P, r.at, "uint")
  BY MissingIs
<1>2. EntryOf(who, P, r) = Fail(r, "MALFORMED")
  BY <1>1 DEF EntryOf, ReadEntry
<1> QED
  BY <1>2, FailingIs

LEMMA ValueIsMissing ==
    ASSUME NEW who \in Readers, NEW f \in Fields, NEW P, NEW r, r.at \in Nat,
           r.at \in DOMAIN P, P[r.at] = Uint(Keys[f]), Missing(P, r.at + 1),
           r.at + 1 + 1 \notin DOMAIN P
    PROVE  EntryOf(who, P, r) \in Failed(r)
<1> DEFINE j == r.at + 1
<1>1. HasWhole(P, r.at, "uint") /\ Readable(P, r.at, "uint") /\ FieldOf(P[r.at].arg) = f
  BY KeyIsRead
<1>2. /\ who = "core" => EntryOf(who, P, r) = ReadEntry(P, r)
      /\ who = "watch" => EntryOf(who, P, r) = readValueForKey(P, r)
      /\ who = "core" \/ who = "watch"
  BY <1>1 DEF EntryOf, Readers
<1>3. /\ \A major : ~HasWhole(P, r.at + 1, major)
      /\ readUint(P, r.at + 1) = Absent /\ readTextString(P, r.at + 1) = Absent
      /\ \A bound : readBoundedUint(P, r.at + 1, bound) = Absent
  BY MissingIs
<1>4. Fail(r, "MALFORMED") \in Failed(r) /\ Fail(r, "BAD_VALUE") \in Failed(r)
  BY FailingIs
<1>5. CASE f = "protocolVersion"
  <2>1. ReadEntry(P, r) = ReadVersion(P, r) /\ readValueForKey(P, r) = WatchReadsVersion(P, r)
    BY <1>1, <1>5 DEF ReadEntry, readValueForKey
  <2>2. ReadVersion(P, r) = Fail(r, "MALFORMED") /\ WatchReadsVersion(P, r) = Fail(r, "MALFORMED")
    BY <1>3 DEF ReadVersion, WatchReadsVersion, Keep
  <2> QED
    BY <1>2, <1>4, <2>1, <2>2
<1>6. CASE f \in NumberFields
  <2>1. f \notin {"protocolVersion", "confidence", "droneClass", "source", "bands"}
    BY <1>6, FieldsAre
  <2>2. ReadEntry(P, r) = ReadNumber(P, r, f)
    BY <1>1, <1>6, <2>1 DEF ReadEntry
  <2>3. ReadNumber(P, r, f) = Fail(r, "MALFORMED")
    BY <1>3 DEF ReadNumber
  <2>4. readValueForKey(P, r) \in {Keep(r, f, Absent, "MALFORMED"), Keep(r, f, Absent, "BAD_VALUE")}
    BY <1>1, <1>3, <1>6, <2>1, BoundsAgree DEF readValueForKey
  <2>5. readValueForKey(P, r) \in {Fail(r, "MALFORMED"), Fail(r, "BAD_VALUE")}
    BY <2>4 DEF Keep
  <2> QED
    BY <1>2, <1>4, <2>2, <2>3, <2>5
<1>7. CASE f = "confidence"
  <2>1. f \notin NumberFields
    BY <1>7, FieldsAre
  <2>2. ReadEntry(P, r) = ReadConfidence(P, r) /\ readValueForKey(P, r) = WatchReadsConfidence(P, r)
    BY <1>1, <1>7, <2>1, BoundsAgree DEF ReadEntry, readValueForKey
  <2>3. ReadConfidence(P, r) = Fail(r, "MALFORMED")
    BY <1>3 DEF ReadConfidence
  <2>4. WatchReadsConfidence(P, r) \in {Fail(r, "MALFORMED"), Fail(r, "BAD_VALUE")}
    BY <1>3 DEF WatchReadsConfidence, Keep
  <2> QED
    BY <1>2, <1>4, <2>2, <2>3, <2>4
<1>8. CASE f \in {"droneClass", "source"}
  <2>1. f \notin NumberFields
    BY <1>8, FieldsAre
  <2>2. /\ ReadEntry(P, r) \in {ReadText(P, r, f, DRONE_CLASS_CAPACITY), ReadText(P, r, f, SOURCE_CAPACITY)}
        /\ readValueForKey(P, r) = Keep(r, f, readTextString(P, r.at + 1), "MALFORMED")
    BY <1>1, <1>8, <2>1, BoundsAgree DEF ReadEntry, readValueForKey
  <2>3. ASSUME NEW capacity PROVE ReadText(P, r, f, capacity) \in {Fail(r, "MALFORMED"), Fail(r, "BAD_VALUE")}
    BY <1>3 DEF ReadText
  <2>4. readValueForKey(P, r) = Fail(r, "MALFORMED")
    BY <1>3, <2>2 DEF Keep
  <2> QED
    BY <1>2, <1>4, <2>2, <2>3, <2>4
<1>9. CASE f = "bands"
  <2>1. f \notin NumberFields
    BY <1>9, FieldsAre
  <2>2. ReadEntry(P, r) = ReadBands(P, r) /\ readValueForKey(P, r) = WatchReadsBands(P, r)
    BY <1>1, <1>9, <2>1, BoundsAgree DEF ReadEntry, readValueForKey
  <2>3. ReadBands(P, r) = Fail(r, "MALFORMED")
    BY <1>3 DEF ReadBands
  <2>4. WatchReadsBands(P, r) \in {Fail(r, "MALFORMED"), Fail(r, "BAD_VALUE")}
    <3>1. Missing(P, r.at + 1 + 1)
      BY DEF Missing
    <3>2. readBoundedUint(P, r.at + 1 + 1, 3) = Absent /\ 1 \in 1..4
      BY <3>1, MissingIs
    <3> QED
      BY <3>2 DEF WatchReadsBands
  <2> QED
    BY <1>2, <1>4, <2>2, <2>3, <2>4
<1> QED
  BY <1>5, <1>6, <1>7, <1>8, <1>9, FieldsAre

LEMMA LevelIsMissing ==
    ASSUME NEW who \in Readers, NEW P, NEW r, r.at \in Nat,
           r.at \in DOMAIN P, P[r.at] = Uint(Keys["bands"]),
           NEW k \in 1..4, Missing(P, r.at + 1 + k)
    PROVE  EntryOf(who, P, r) \in Failed(r)
<1> DEFINE f == "bands"
<1>1. HasWhole(P, r.at, "uint") /\ Readable(P, r.at, "uint") /\ FieldOf(P[r.at].arg) = f
  <2> f \in Fields
    BY FieldsAre
  <2> HIDE DEF f
  <2> QED
    BY KeyIsRead DEF f
<1>2. /\ who = "core" => EntryOf(who, P, r) = ReadEntry(P, r)
      /\ who = "watch" => EntryOf(who, P, r) = readValueForKey(P, r)
      /\ who = "core" \/ who = "watch"
  BY <1>1 DEF EntryOf, Readers
<1>3. f \notin NumberFields
  BY FieldsAre
<1>4. ReadEntry(P, r) = ReadBands(P, r) /\ readValueForKey(P, r) = WatchReadsBands(P, r)
  BY <1>1, <1>3, BoundsAgree DEF ReadEntry, readValueForKey
<1>5. ~HasWhole(P, r.at + 1 + k, "uint") /\ readBoundedUint(P, r.at + 1 + k, 3) = Absent
  BY MissingIs
<1>6. Fail(r, "MALFORMED") \in Failed(r) /\ Fail(r, "BAD_VALUE") \in Failed(r)
  BY FailingIs
<1>7. ReadBands(P, r) \in {Fail(r, "MALFORMED"), Fail(r, "BAD_VALUE")}
  BY <1>5 DEF ReadBands
<1>8. WatchReadsBands(P, r) \in {Fail(r, "MALFORMED"), Fail(r, "BAD_VALUE")}
  BY <1>5 DEF WatchReadsBands
<1> QED
  BY <1>2, <1>4, <1>6, <1>7, <1>8

\* A version that is not this one is a failure.
LEMMA OtherVersionFails ==
    ASSUME NEW who \in Readers, NEW P, NEW r, r.at \in Nat,
           r.at \in DOMAIN P, P[r.at] = Uint(Keys["protocolVersion"]),
           r.at + 1 \in DOMAIN P, NEW n \in 0..100, n # PROTOCOL_VERSION, P[r.at + 1] = Uint(n)
    PROVE  EntryOf(who, P, r) \in Failed(r)
<1> DEFINE f == "protocolVersion"
           j == r.at + 1
<1>1. HasWhole(P, r.at, "uint") /\ Readable(P, r.at, "uint") /\ FieldOf(P[r.at].arg) = f
  <2> f \in Fields
    BY FieldsAre
  <2> HIDE DEF f
  <2> QED
    BY KeyIsRead DEF f
<1>2. /\ who = "core" => EntryOf(who, P, r) = ReadEntry(P, r)
      /\ who = "watch" => EntryOf(who, P, r) = readValueForKey(P, r)
      /\ who = "core" \/ who = "watch"
  BY <1>1 DEF EntryOf, Readers
<1>3. ReadEntry(P, r) = ReadVersion(P, r) /\ readValueForKey(P, r) = WatchReadsVersion(P, r)
  BY <1>1 DEF ReadEntry, readValueForKey
<1>4. n \in 0..(WordLimit - 1) /\ n \in Nat /\ n <= 65535
  BY WordAssumption
<1>5. Signed(n) = n /\ n # Absent
  BY <1>4, SignedIs
<1>6. HasWhole(P, j, "uint") /\ P[j].arg = n /\ readUint(P, j) = Signed(n)
  <2>1. j \in DOMAIN P /\ P[j] = Uint(n)
    OBVIOUS
  <2> HIDE DEF j
  <2> QED
    BY <1>4, <2>1, UintIsRead
<1>7. ReadVersion(P, r) = Fail(r, "WRONG_VERSION") /\ WatchReadsVersion(P, r) = Fail(r, "WRONG_VERSION")
  BY <1>5, <1>6 DEF ReadVersion, WatchReadsVersion
<1> QED
  BY <1>2, <1>3, <1>7, FailingIs

\* An item from i up to j has an argument of eight bytes.
LongIn(P, i, j) == \E k \in i..(j - 1) : P[k].arg >= WordLimit

Skips(who, P, i, j) == who = "core" \/ ~LongIn(P, i, j)

\* What a newer bridge sends more is skipped, and nothing else changes; the watch
\* fails at an argument of eight bytes.
LEMMA UnknownIsSkipped ==
    ASSUME NEW who \in Readers, NEW P, NEW r, r.at \in DOMAIN P, P[r.at] = Uint(17),
           skipItem(P, r.at + 1) # 0
    PROVE  /\ Skips(who, P, r.at + 1, skipItem(P, r.at + 1))
                => EntryOf(who, P, r) = [r EXCEPT !.at = skipItem(P, r.at + 1)]
           /\ ~Skips(who, P, r.at + 1, skipItem(P, r.at + 1))
                => EntryOf(who, P, r) \in Failed(r)
<1> DEFINE n == 17
           f == FieldOf(n)
<1>1. n \in 0..(WordLimit - 1) /\ P[r.at] = Uint(n)
  BY SmallFits
<1>2. f \notin Fields
  BY UnknownKey
<1> HIDE DEF n
<1>3. HasWhole(P, r.at, "uint") /\ Readable(P, r.at, "uint") /\ P[r.at].arg = n
  <2> DEFINE i == r.at
  <2>1. i \in DOMAIN P /\ P[i] = Uint(n)
    BY <1>1
  <2> HIDE DEF i
  <2>2. HasWhole(P, i, "uint") /\ Readable(P, i, "uint") /\ P[i].arg = n
    BY <1>1, <2>1, UintIsRead
  <2> QED
    BY <2>2 DEF i
<1>4. f = FieldOf(P[r.at].arg)
  BY <1>3
<1> HIDE DEF f
<1>5. /\ f \notin NumberFields
      /\ f \notin {"protocolVersion", "confidence", "droneClass", "source", "bands"}
  BY <1>2, FieldsAre
<1>6. ReadEntry(P, r) = SkipUnknown(P, r)
  BY <1>3, <1>4, <1>5 DEF ReadEntry
<1>7. readValueForKey(P, r) = WatchSkipsUnknown(P, r)
  BY <1>4, <1>5, BoundsAgree DEF readValueForKey
<1> DEFINE end == skipItem(P, r.at + 1)
<1>8. SkipUnknown(P, r) = [r EXCEPT !.at = end]
  BY DEF SkipUnknown
<1>9. WatchSkipsUnknown(P, r) =
         IF LongIn(P, r.at + 1, end) THEN Fail(r, "MALFORMED") ELSE [r EXCEPT !.at = end]
  BY DEF WatchSkipsUnknown, LongIn
<1> HIDE DEF end
<1>10. Fail(r, "MALFORMED") \in Failed(r)
  BY FailingIs
<1>11. CASE who = "core"
  <2>1. EntryOf(who, P, r) = [r EXCEPT !.at = end] /\ Skips(who, P, r.at + 1, end)
    BY <1>6, <1>8, <1>11 DEF EntryOf, Skips
  <2> QED
    BY <2>1 DEF end
<1>12. CASE who = "watch"
  <2>1. who # "core"
    BY <1>12
  <2>2. Skips(who, P, r.at + 1, end) <=> ~LongIn(P, r.at + 1, end)
    BY <2>1 DEF Skips
  <2>3. EntryOf(who, P, r) = WatchSkipsUnknown(P, r)
    BY <1>3, <1>7, <2>1 DEF EntryOf
  <2> QED
    BY <1>9, <1>10, <2>2, <2>3 DEF end
<1> QED
  BY <1>11, <1>12 DEF Readers

-----------------------------------------------------------------------------
(* The way of a reader through a packet.                                    *)

NextOf(who, P, r) == IF r.status = "OK" THEN EntryOf(who, P, r) ELSE r

IsWalk(h, who, P, N) ==
    h = [n \in 0..N |-> IF n = 0 THEN Reader(StartOf(who)) ELSE NextOf(who, P, h[n - 1])]

LEMMA WalkAt ==
    ASSUME NEW h, NEW who, NEW P, NEW N, IsWalk(h, who, P, N), NEW n \in 0..N
    PROVE  h[n] = IF n = 0 THEN Reader(StartOf(who)) ELSE NextOf(who, P, h[n - 1])
BY Zenon DEF IsWalk

LEMMA WalksAgree ==
    ASSUME NEW g, NEW h, NEW who, NEW P, NEW N \in Nat, IsWalk(g, who, P, N), IsWalk(h, who, P, N)
    PROVE  h[N] = g[N]
<1> DEFINE T == {n \in Nat : n <= N => h[n] = g[n]}
<1>1. 0 \in T
  BY WalkAt
<1>2. ASSUME NEW n \in T PROVE n + 1 \in T
  <2> DEFINE k == n + 1
  <2>1. n \in Nat /\ k \in Nat /\ k # 0 /\ k - 1 = n
    OBVIOUS
  <2>2. ASSUME k <= N PROVE h[k] = g[k]
    <3>1. h[n] = g[n] /\ k \in 0..N
      BY <2>1, <2>2
    <3> HIDE DEF k
    <3>2. /\ h[k] = (IF k = 0 THEN Reader(StartOf(who)) ELSE NextOf(who, P, h[k - 1]))
          /\ g[k] = (IF k = 0 THEN Reader(StartOf(who)) ELSE NextOf(who, P, g[k - 1]))
      BY <3>1, WalkAt
    <3> QED
      BY <2>1, <3>1, <3>2
  <2> QED
    BY <2>1, <2>2
<1>3. T \in SUBSET Nat
  OBVIOUS
<1> HIDE DEF T
<1>4. T = Nat
  BY <1>1, <1>2, <1>3, SetInduction
<1> QED
  BY <1>4 DEF T

\* What the recursive functions of the decoders are.
CoreWalk(P) ==
    CHOOSE h : h = [n \in 0..P[1].arg |->
        IF n = 0 THEN Reader(Blank)
        ELSE IF h[n - 1].status = "OK" THEN ReadEntry(P, h[n - 1]) ELSE h[n - 1]]

WatchWalk(P) ==
    CHOOSE h : h = [n \in 0..P[1].arg |->
        IF n = 0 THEN Reader(Nothing)
        ELSE IF h[n - 1].status = "OK"
             THEN IF ~Readable(P, h[n - 1].at, "uint") THEN Fail(h[n - 1], "MALFORMED")
                  ELSE readValueForKey(P, h[n - 1])
             ELSE h[n - 1]]

AtLast(who, P) == IF who = "core" THEN CoreWalk(P)[P[1].arg] ELSE WatchWalk(P)[P[1].arg]

\* The decoders say what their readers end with.
LEMMA CoreDecodes ==
    ASSUME NEW P
    PROVE  decodeAlert(P, EmptyAlert) =
              IF ~HasWhole(P, 1, "map") THEN [status |-> "MALFORMED", alert |-> EmptyAlert]
              ELSE [status |-> Verdict(AtLast("core", P)),
                    alert |-> Restrict(AtLast("core", P).found, AlertFields)]
BY DEF decodeAlert, AtLast, CoreWalk, AlertFields, alertInit, Blank

LEMMA WatchDecodes ==
    ASSUME NEW P
    PROVE  decode(P) =
              IF ~Readable(P, 1, "map") THEN [status |-> "MALFORMED", model |-> Absent]
              ELSE buildResult(AtLast("watch", P))
<1> DEFINE who == "watch"
<1>1. who # "core"
  OBVIOUS
<1> HIDE DEF who
<1>2. AtLast(who, P) = WatchWalk(P)[P[1].arg]
  BY <1>1 DEF AtLast
<1>3. decode(P) =
              IF ~Readable(P, 1, "map") THEN [status |-> "MALFORMED", model |-> Absent]
              ELSE buildResult(WatchWalk(P)[P[1].arg])
  BY DEF decode, WatchWalk
<1> QED
  BY <1>2, <1>3 DEF who

LEMMA LastIs ==
    ASSUME NEW who \in Readers, NEW P, NEW g, P[1].arg \in Nat, IsWalk(g, who, P, P[1].arg)
    PROVE  AtLast(who, P) = g[P[1].arg]
<1> DEFINE N == P[1].arg
<1>1. CASE who = "core"
  <2> DEFINE h == CoreWalk(P)
             Is(f) == f = [n \in 0..N |->
                 IF n = 0 THEN Reader(Blank)
                 ELSE IF f[n - 1].status = "OK" THEN ReadEntry(P, f[n - 1]) ELSE f[n - 1]]
  <2>1. \A f : Is(f) <=> IsWalk(f, who, P, N)
    BY <1>1 DEF IsWalk, NextOf, EntryOf, StartOf
  <2>2. Is(g)
    BY <2>1
  <2>3. h = CHOOSE f : Is(f)
    BY DEF CoreWalk
  <2> HIDE DEF Is, h, N
  <2>4. Is(h)
    BY <2>2, <2>3
  <2>5. IsWalk(h, who, P, N) /\ IsWalk(g, who, P, N) /\ N \in Nat
    BY <2>1, <2>4 DEF N
  <2>6. h[N] = g[N]
    BY <2>5, WalksAgree
  <2> QED
    BY <1>1, <2>6 DEF AtLast, h, N
<1>2. CASE who = "watch"
  <2> DEFINE h == WatchWalk(P)
             Is(f) == f = [n \in 0..N |->
                 IF n = 0 THEN Reader(Nothing)
                 ELSE IF f[n - 1].status = "OK"
                      THEN IF ~Readable(P, f[n - 1].at, "uint") THEN Fail(f[n - 1], "MALFORMED")
                           ELSE readValueForKey(P, f[n - 1])
                      ELSE f[n - 1]]
  <2>0. who # "core"
    BY <1>2
  <2>1. \A f : Is(f) <=> IsWalk(f, who, P, N)
    BY <2>0 DEF IsWalk, NextOf, EntryOf, StartOf
  <2>2. Is(g)
    BY <2>1
  <2>3. h = CHOOSE f : Is(f)
    BY DEF WatchWalk
  <2> HIDE DEF Is, h, N
  <2>4. Is(h)
    BY <2>2, <2>3
  <2>5. IsWalk(h, who, P, N) /\ IsWalk(g, who, P, N) /\ N \in Nat
    BY <2>1, <2>4 DEF N
  <2>6. h[N] = g[N]
    BY <2>5, WalksAgree
  <2> QED
    BY <2>0, <2>6 DEF AtLast, h, N
<1> QED
  BY <1>1, <1>2 DEF Readers

-----------------------------------------------------------------------------
(* A path: where each entry begins and which it is.                         *)

Entries == Fields \cup {"unknown"}

\* The entry at item i ends in front of item j.
Good(who, P, i, j, a, f) ==
    IF f = "unknown"
    THEN /\ i \in DOMAIN P /\ P[i] = Uint(17)
         /\ skipItem(P, i + 1) = j /\ j # 0 /\ Skips(who, P, i + 1, j)
    ELSE j = i + Size(f) /\ EntryIn(P, i, a, f) /\ Present(a, f)

\* The first m of N entries are as they should be for a reader.
Path(who, P, a, at, names, N, m) ==
    /\ N \in Nat /\ P[1].arg = N /\ m \in 0..N
    /\ at \in [1..(N + 1) -> Nat] /\ at[1] = 2
    /\ names \in [1..N -> Entries]
    /\ \A k \in 1..m : Good(who, P, at[k], at[k + 1], a, names[k])

\* The fields of the first n entries.
Seen(names, n) == {names[k] : k \in 1..n} \cap Fields

LEMMA GoodIsRead ==
    ASSUME NEW who \in Readers, NEW a, IsAlert(a), NEW P, NEW i \in Nat, NEW j \in Nat,
           NEW f \in Entries, Good(who, P, i, j, a, f), NEW F
    PROVE  EntryOf(who, P, Standing(who, a, i, F)) = Standing(who, a, j, F \cup ({f} \cap Fields))
<1> DEFINE r == Standing(who, a, i, F)
<1>1. r.at = i
  BY DEF Standing
<1>2. CASE f = "unknown"
  <2>1. /\ i \in DOMAIN P /\ P[i] = Uint(17) /\ skipItem(P, i + 1) = j /\ j # 0
        /\ Skips(who, P, i + 1, j)
    BY <1>2 DEF Good
  <2>2. [r EXCEPT !.at = j] = Standing(who, a, j, F)
    <3> DEFINE found == [g \in Fields |-> IF g \in F THEN ValueOf(who, a, g) ELSE StartOf(who)[g]]
               x == [at |-> i, found |-> found, seen |-> F, status |-> "OK"]
               y == [at |-> j, found |-> found, seen |-> F, status |-> "OK"]
    <3>1. r = x /\ Standing(who, a, j, F) = y
      BY DEF Standing
    <3> HIDE DEF found, r
    <3>2. [x EXCEPT !.at = j] = y
      OBVIOUS
    <3> QED
      BY <3>1, <3>2
  <2> HIDE DEF r
  <2>3. EntryOf(who, P, r) = [r EXCEPT !.at = j]
    BY <1>1, <2>1, UnknownIsSkipped
  <2>4. F \cup ({f} \cap Fields) = F
    BY <1>2, UnknownKey
  <2> QED
    BY <2>2, <2>3, <2>4 DEF r
<1>3. CASE f # "unknown"
  <2>1. /\ j = i + Size(f) /\ EntryIn(P, i, a, f) /\ Present(a, f) /\ f \in Fields
        /\ Size(f) \in Nat
    BY <1>3, SizeIs DEF Good, Entries
  <2> DEFINE v == ValueOf(who, a, f)
             size == Size(f)
  <2>2. EntryOf(who, P, r) = Found(r, f, v, size)
    BY <1>1, <2>1, EntryIsRead
  <2> HIDE DEF size
  <2>3. Found(r, f, v, size) = Standing(who, a, i + size, F \cup {f})
    <3>1. size \in Nat /\ f \in Fields
      BY <2>1 DEF size
    <3>2. FoundBehind(who, a, i, F, f, size)
      BY <3>1, FoundIs
    <3> QED
      BY <3>2 DEF FoundBehind
  <2>4. F \cup ({f} \cap Fields) = F \cup {f}
    BY <2>1
  <2> HIDE DEF r, v, size
  <2>5. EntryOf(who, P, r) = Standing(who, a, j, F \cup ({f} \cap Fields))
    BY <2>1, <2>2, <2>3, <2>4 DEF size
  <2> QED
    BY <2>5 DEF r
<1> QED
  BY <1>2, <1>3

LEMMA ReaderStarts ==
    ASSUME NEW who \in Readers, NEW a
    PROVE  Reader(StartOf(who)) = Standing(who, a, 2, {})
<1> DEFINE start == StartOf(who)
<1>1. start = [g \in Fields |-> start[g]]
  <2>1. CASE who = "core"
    BY <2>1 DEF StartOf, Blank, Fields
  <2>2. CASE who = "watch"
    BY <2>2 DEF StartOf, Nothing, Fields
  <2> QED
    BY <2>1, <2>2 DEF Readers
<1> HIDE DEF start
<1>2. [g \in Fields |-> IF g \in {} THEN ValueOf(who, a, g) ELSE start[g]] = [g \in Fields |-> start[g]]
  OBVIOUS
<1> QED
  BY <1>1, <1>2 DEF Reader, Standing, start

\* Behind entries that are as they should be a reader has found their fields;
\* an entry that fails is the end.
LEMMA PathIsRead ==
    ASSUME NEW who \in Readers, NEW a, IsAlert(a), NEW P, NEW at, NEW names, NEW N, NEW m,
           Path(who, P, a, at, names, N, m),
           m < N => EntryOf(who, P, Standing(who, a, at[m + 1], Seen(names, m)))
                       \in Failed(Standing(who, a, at[m + 1], Seen(names, m)))
    PROVE  /\ m = N => AtLast(who, P) = Standing(who, a, at[N + 1], Seen(names, N))
           /\ m < N => AtLast(who, P).status # "OK"
<1> DEFINE S(n) == Standing(who, a, at[n + 1], Seen(names, n))
           bad == EntryOf(who, P, S(m))
           g == [n \in 0..N |-> IF n <= m THEN S(n) ELSE bad]
<1>1. /\ N \in Nat /\ P[1].arg = N /\ m \in 0..N /\ m \in Nat
      /\ at \in [1..(N + 1) -> Nat] /\ at[1] = 2 /\ names \in [1..N -> Entries]
      /\ \A k \in 1..m : Good(who, P, at[k], at[k + 1], a, names[k])
  BY DEF Path
<1>2. S(0) = Reader(StartOf(who))
  <2>1. Seen(names, 0) = {} /\ at[0 + 1] = 2
    BY <1>1 DEF Seen
  <2>2. S(0) = Standing(who, a, 2, {})
    BY <2>1, Zenon
  <2> HIDE DEF S
  <2> QED
    BY <2>2, ReaderStarts
<1>3. ASSUME NEW n \in Nat PROVE S(n).status = "OK"
  BY DEF Standing
<1>4. m < N => bad.status # "OK"
  BY FailedIs
<1>5. ASSUME NEW n \in 1..m PROVE EntryOf(who, P, S(n - 1)) = S(n)
  <2> DEFINE i == at[n]
             j == at[n + 1]
             f == names[n]
             F == Seen(names, n - 1)
             G == Seen(names, n)
  <2>1. Good(who, P, i, j, a, f) /\ i \in Nat /\ j \in Nat /\ f \in Entries
    BY <1>1
  <2>2. G = F \cup ({f} \cap Fields)
    <3>1. 1..n = 1..(n - 1) \cup {n}
      BY <1>1
    <3> QED
      BY <3>1 DEF Seen
  <2>3. at[(n - 1) + 1] = i
    BY <1>1
  <2>4. S(n - 1) = Standing(who, a, i, F) /\ S(n) = Standing(who, a, j, G)
    BY <2>3, Zenon
  <2> HIDE DEF i, j, f, F, G, S
  <2>5. EntryOf(who, P, Standing(who, a, i, F)) = Standing(who, a, j, F \cup ({f} \cap Fields))
    BY <2>1, GoodIsRead
  <2> QED
    BY <2>2, <2>4, <2>5
<1> HIDE DEF S
<1>6. ASSUME NEW n \in 0..N
      PROVE  g[n] = IF n = 0 THEN Reader(StartOf(who)) ELSE NextOf(who, P, g[n - 1])
  <2>1. CASE n = 0
    BY <1>1, <1>2, <2>1
  <2>2. CASE n # 0
    <3>0. n - 1 \in 0..N /\ n - 1 \in Nat /\ N \in Nat
      BY <1>1, <2>2
    <3>1. CASE n <= m
      <4>1. g[n - 1] = S(n - 1) /\ g[n] = S(n) /\ n \in 1..m
        BY <1>1, <2>2, <3>0, <3>1
      <4> HIDE DEF g
      <4>2. NextOf(who, P, g[n - 1]) = S(n)
        BY <1>3, <1>5, <3>0, <4>1 DEF NextOf
      <4> QED
        BY <2>2, <4>1, <4>2
    <3>2. CASE n = m + 1
      <4>1. g[n - 1] = S(m) /\ g[n] = bad
        BY <1>1, <3>0, <3>2
      <4> HIDE DEF g
      <4>2. NextOf(who, P, g[n - 1]) = bad
        BY <1>1, <1>3, <4>1 DEF NextOf
      <4> QED
        BY <2>2, <4>1, <4>2
    <3>3. CASE n > m + 1
      <4>1. g[n - 1] = bad /\ g[n] = bad /\ m < N
        BY <1>1, <3>0, <3>3
      <4> HIDE DEF g, bad
      <4>2. NextOf(who, P, g[n - 1]) = bad
        BY <1>4, <4>1 DEF NextOf
      <4> QED
        BY <2>2, <4>1, <4>2
    <3> QED
      BY <1>1, <3>1, <3>2, <3>3
  <2> QED
    BY <2>1, <2>2
<1>7. IsWalk(g, who, P, N)
  <2> DEFINE body == [n \in 0..N |-> IF n = 0 THEN Reader(StartOf(who)) ELSE NextOf(who, P, g[n - 1])]
  <2>1. \A n \in 0..N : g[n] = body[n]
    BY <1>6
  <2>2. g = [n \in 0..N |-> g[n]] /\ body = [n \in 0..N |-> body[n]]
    OBVIOUS
  <2>3. g = body
    <3> HIDE DEF g, body
    <3> QED
      BY <2>1, <2>2
  <2> HIDE DEF g
  <2> QED
    BY <2>3 DEF IsWalk
<1>8. g[N] = IF N <= m THEN S(N) ELSE bad
  BY <1>1
<1> HIDE DEF g, bad
<1>9. AtLast(who, P) = g[N]
  BY <1>1, <1>7, LastIs
<1> QED
  BY <1>1, <1>4, <1>8, <1>9 DEF S

-----------------------------------------------------------------------------
(* A packet that arrives as it was sent.                                    *)

\* An entry is there wherever its items are.
LEMMA EntryMoved ==
    ASSUME NEW p, NEW P, NEW i \in Nat, NEW j \in Nat, NEW a, NEW f, EntryAt(p, i, a, f),
           \A k \in 0..(Size(f) - 1) : j + k \in DOMAIN P /\ P[j + k] = p[i + k]
    PROVE  EntryIn(P, j, a, f)
<1>1. P[j + 0] = p[i + 0] /\ P[j + 1] = p[i + 1]
  BY SizeIs
<1>2. P[j] = p[i]
  BY <1>1
<1>3. ASSUME f = "bands", NEW k \in 1..4 PROVE P[j + 1 + k] = p[i + 1 + k]
  <2>1. 1 + k \in 0..(Size(f) - 1) /\ j + (1 + k) = j + 1 + k /\ i + (1 + k) = i + 1 + k
    BY <1>3 DEF Size
  <2>2. P[j + (1 + k)] = p[i + (1 + k)]
    BY <2>1
  <2> QED
    BY <2>1, <2>2
<1>4. /\ p[i] = Uint(Keys[f]) /\ p[i + 1] = ValueItem(a, f)
      /\ f = "bands" => \A k \in 1..4 : p[i + 1 + k] = LevelItem(a, k)
  BY DEF EntryAt
<1> QED
  BY <1>1, <1>2, <1>3, <1>4 DEF EntryIn

\* What there is to say of a packet, item by item and entry by entry.
LEMMA PacketIs ==
    ASSUME NEW a, NEW p, NEW fields, NEW s, IsPacket(p, a, fields, s)
    PROVE  /\ Len(p) \in Nat /\ Len(p) >= 1 /\ DOMAIN p = 1..Len(p)
           /\ \A i \in 1..Len(p) : p[i] \in Parts(Texts(a))
           /\ Len(fields) \in Nat /\ Len(fields) >= 1 /\ Len(fields) <= 16
           /\ fields \in [1..Len(fields) -> Fields] /\ fields[1] = "protocolVersion"
           /\ p[1] = MapHeader(Len(fields)) /\ p[1].arg = Len(fields) /\ p[1].major = "map"
           /\ s \in [1..(Len(fields) + 1) -> Nat] /\ s[1] = 2 /\ s[Len(fields) + 1] = Len(p) + 1
           /\ \A k \in 1..Len(fields) : /\ s[k] # 0 /\ s[k + 1] = s[k] + Size(fields[k])
                                        /\ EntryAt(p, s[k], a, fields[k])
                                        /\ Present(a, fields[k])
<1> DEFINE S == Parts(Texts(a))
           n == Len(fields)
<1>1. /\ p \in Seq(S) /\ Len(p) >= 1 /\ p[1] = MapHeader(n) /\ fields \in Seq(Fields) /\ n \in 1..16
      /\ fields[1] = "protocolVersion" /\ Range(fields) = {f \in Fields : Present(a, f)}
      /\ IsLayout(p, 2, a, fields, s)
  BY DEF IsPacket
<1> HIDE DEF S
<1>2. Len(p) \in Nat /\ DOMAIN p = 1..Len(p) /\ \A i \in 1..Len(p) : p[i] \in S
  BY <1>1
<1>3. n \in Nat /\ n >= 1 /\ n <= 16 /\ fields \in [1..n -> Fields] /\ DOMAIN fields = 1..n
  <2>1. n \in 1..16 /\ fields \in Seq(Fields)
    BY <1>1
  <2>2. fields \in [1..n -> Fields] /\ DOMAIN fields = 1..n
    BY <2>1
  <2> HIDE DEF n
  <2> QED
    BY <2>1, <2>2
<1> HIDE DEF n
<1>4. /\ s \in [1..(n + 1) -> Nat \ {0}] /\ s[1] = 2 /\ s[n + 1] = Len(p) + 1
      /\ \A k \in 1..n : s[k + 1] = s[k] + Size(fields[k]) /\ EntryAt(p, s[k], a, fields[k])
  BY <1>1 DEF IsLayout, n
<1>5. s \in [1..(n + 1) -> Nat] /\ \A k \in 1..n : s[k] # 0
  BY <1>3, <1>4
<1>6. ASSUME NEW k \in 1..n PROVE Present(a, fields[k])
  <2>1. fields[k] \in Range(fields)
    BY <1>3 DEF Range
  <2> QED
    BY <1>1, <2>1
<1>7. MapHeader(n).arg = n /\ MapHeader(n).major = "map"
  <2>1. EmptyText \in {EmptyText}
    OBVIOUS
  <2> QED
    BY <1>3, <2>1, MapIsWhole
<1> QED
  BY <1>1, <1>2, <1>3, <1>4, <1>5, <1>6, <1>7 DEF n, S

LEMMA AllIsSeen ==
    ASSUME NEW a, NEW p, NEW fields, NEW s, IsPacket(p, a, fields, s)
    PROVE  Seen(fields, Len(fields)) = {f \in Fields : Present(a, f)}
<1> DEFINE n == Len(fields)
<1>1. fields \in [1..n -> Fields]
  BY PacketIs
<1>2. Range(fields) = {f \in Fields : Present(a, f)}
  BY DEF IsPacket
<1> HIDE DEF n
<1>3. Range(fields) = {fields[k] : k \in 1..n}
  BY <1>1 DEF Range
<1> QED
  BY <1>2, <1>3 DEF Seen, n

LEMMA WholeIsPath ==
    ASSUME NEW who \in Readers, NEW a, NEW p, NEW fields, NEW s, IsPacket(p, a, fields, s)
    PROVE  Path(who, p, a, s, fields, Len(fields), Len(fields))
<1> DEFINE n == Len(fields)
<1>1. /\ n \in Nat /\ p[1].arg = n /\ fields \in [1..n -> Fields]
      /\ s \in [1..(n + 1) -> Nat] /\ s[1] = 2 /\ DOMAIN p = 1..Len(p) /\ Len(p) \in Nat
      /\ \A k \in 1..n : /\ s[k] # 0 /\ s[k + 1] = s[k] + Size(fields[k])
                         /\ EntryAt(p, s[k], a, fields[k]) /\ Present(a, fields[k])
  BY PacketIs
<1> HIDE DEF n
<1>2. ASSUME NEW k \in 1..n PROVE Good(who, p, s[k], s[k + 1], a, fields[k])
  <2> DEFINE i == s[k]
             f == fields[k]
  <2>1. i \in Nat \ {0} /\ s[k + 1] = i + Size(f) /\ EntryAt(p, i, a, f) /\ Present(a, f) /\ f \in Fields
    BY <1>1
  <2> HIDE DEF i, f
  <2>2. i + Size(f) <= Len(p) + 1
    BY <2>1 DEF EntryAt
  <2>3. ASSUME NEW x \in 0..(Size(f) - 1) PROVE i + x \in DOMAIN p /\ p[i + x] = p[i + x]
    <3>1. Size(f) \in Nat /\ Len(p) \in Nat /\ DOMAIN p = 1..Len(p) /\ i \in Nat \ {0}
      BY <1>1, <2>1, SizeIs
    <3> QED
      BY <2>2, <3>1
  <2>4. EntryIn(p, i, a, f)
    BY <2>1, <2>3, EntryMoved
  <2>5. f # "unknown"
    BY <2>1, UnknownKey
  <2> QED
    BY <2>1, <2>4, <2>5 DEF Good, i, f
<1>3. fields \in [1..n -> Entries]
  BY <1>1 DEF Entries
<1> QED
  BY <1>1, <1>2, <1>3 DEF Path, n

-----------------------------------------------------------------------------
(* A packet that is cut.                                                    *)

LEMMA PartsAreWhole ==
    ASSUME NEW texts
    PROVE  \A x \in Parts(texts) :
              /\ x.got \in Nat /\ x.got >= 1 /\ x.got = ItemBytes(x)
              /\ \A n : LET y == [x EXCEPT !.got = n]
                        IN  y.got = n /\ ItemBytes(y) = ItemBytes(x) /\ (n = x.got => y = x)
<1> SUFFICES ASSUME NEW x \in Parts(texts)
             PROVE  /\ x.got \in Nat /\ x.got >= 1 /\ x.got = ItemBytes(x)
                    /\ \A n : LET y == [x EXCEPT !.got = n]
                              IN  y.got = n /\ ItemBytes(y) = ItemBytes(x) /\ (n = x.got => y = x)
  OBVIOUS
<1>1. x \in ItemsWith(texts) /\ Whole(x)
  BY DEF Parts
<1>2. x.got \in Nat /\ x.got >= 1 /\ x.got = ItemBytes(x)
  BY <1>1 DEF ItemsWith, Whole
<1>3. ASSUME NEW n
      PROVE  LET y == [x EXCEPT !.got = n]
             IN  y.got = n /\ ItemBytes(y) = ItemBytes(x) /\ (n = x.got => y = x)
  <2> DEFINE y == [x EXCEPT !.got = n]
  <2>1. /\ y.got = n /\ y.major = x.major /\ y.arg = x.arg /\ (n = x.got => y = x)
    BY <1>1 DEF ItemsWith
  <2> HIDE DEF y
  <2>2. ItemBytes(y) = ItemBytes(x)
    BY <2>1 DEF ItemBytes, HeadBytes
  <2> QED
    BY <2>1, <2>2 DEF y
<1> QED
  BY <1>2, <1>3

\* How many bytes there are in front of each item, and in the whole packet.
LEMMA BytesBeforeAre ==
    ASSUME NEW texts, NEW p \in Seq(Parts(texts))
    PROVE  /\ BytesBefore(p, 1) = 0
           /\ BytesBefore(p, Len(p) + 1) = PacketBytes(p)
           /\ \A i \in 1..Len(p) : /\ BytesBefore(p, i) \in Nat
                                   /\ BytesBefore(p, i + 1) = BytesBefore(p, i) + p[i].got
                                   /\ BytesBefore(p, i + 1) \in Nat
<1> DEFINE S == Parts(texts)
<1>1. \A x \in S : x.got \in Nat
  BY PartsAreWhole
<1>2. p \in Seq(S) /\ Len(p) \in Nat /\ \A i \in 1..Len(p) : p[i] \in S
  OBVIOUS
<1> HIDE DEF S
<1>3. BytesBefore(p, 1) = 0
  <2>1. SubSeq(p, 1, 0) = <<>>
    BY <1>2, SubSeqEmpty
  <2>2. 1 - 1 = 0
    OBVIOUS
  <2>3. BytesBefore(p, 1) = PacketBytes(SubSeq(p, 1, 1 - 1))
    BY Zenon DEF BytesBefore
  <2> QED
    BY <2>1, <2>2, <2>3, BytesOfNone
<1>4. BytesBefore(p, Len(p) + 1) = PacketBytes(p)
  <2>1. SubSeq(p, 1, Len(p)) = p
    BY <1>2, SubSeqFull
  <2>2. Len(p) + 1 - 1 = Len(p)
    BY <1>2
  <2> DEFINE k == Len(p) + 1
  <2>3. k - 1 = Len(p)
    BY <2>2
  <2> HIDE DEF k
  <2>4. BytesBefore(p, k) = PacketBytes(SubSeq(p, 1, k - 1))
    BY DEF BytesBefore
  <2>5. BytesBefore(p, k) = PacketBytes(p)
    BY <2>1, <2>3, <2>4
  <2> QED
    BY <2>5 DEF k
<1>5. ASSUME NEW i \in 1..Len(p)
      PROVE  /\ BytesBefore(p, i) \in Nat
             /\ BytesBefore(p, i + 1) = BytesBefore(p, i) + p[i].got
             /\ BytesBefore(p, i + 1) \in Nat
  <2> DEFINE m == i - 1
             before == SubSeq(p, 1, m)
             x == p[i]
             one == <<x>>
  <2>1. m \in Nat /\ i \in Nat /\ i = m + 1 /\ 1 <= i /\ i <= Len(p) /\ i + 1 - 1 = i /\ m <= Len(p)
    BY <1>2
  <2>2. SubSeq(p, 1, i) = Append(before, x)
    <3> HIDE DEF m
    <3> QED
      BY <1>2, <2>1, PieceGrows
  <2>3. before \in Seq(S) /\ x \in S
    <3>1. m \in Int /\ 1 \in Nat /\ 1 # 0
      BY <2>1
    <3> HIDE DEF m
    <3> QED
      BY <1>2, <2>1, <3>1, PieceType
  <2> HIDE DEF before, x
  <2>4. one \in Seq(S) /\ PacketBytes(one) = x.got
    BY <1>1, <2>3, BytesOfOne
  <2>5. Append(before, x) = before \o one
    BY <2>3, AppendIsConcat
  <2> HIDE DEF one
  <2>6. PacketBytes(before \o one) = PacketBytes(before) + PacketBytes(one)
    BY <1>1, <2>3, <2>4, BytesOfBoth
  <2>7. PacketBytes(before) \in Nat /\ x.got \in Nat
    BY <1>1, <2>3, BytesOfItems
  <2>8. BytesBefore(p, i) = PacketBytes(before) /\ BytesBefore(p, i + 1) = PacketBytes(SubSeq(p, 1, i))
    BY <2>1 DEF BytesBefore, before
  <2> HIDE DEF m
  <2>9. BytesBefore(p, i + 1) = BytesBefore(p, i) + x.got /\ BytesBefore(p, i) \in Nat
    BY <2>2, <2>4, <2>5, <2>6, <2>7, <2>8
  <2> QED
    BY <2>7, <2>9 DEF x
<1> QED
  BY <1>3, <1>4, <1>5

\* Of a packet that is cut there are the items in front of some item, of which
\* not all is there, and nothing behind it.
LEMMA CutIs ==
    ASSUME NEW texts, NEW p \in Seq(Parts(texts)), Len(p) >= 1,
           NEW bytes \in Int, bytes < PacketBytes(p)
    PROVE  \E b \in 1..Len(p) :
              /\ \A i \in 1..(b - 1) : i \in DOMAIN Cut(p, bytes) /\ Cut(p, bytes)[i] = p[i]
              /\ DOMAIN Cut(p, bytes) \subseteq 1..b
              /\ Missing(Cut(p, bytes), b)
<1> DEFINE L == Len(p)
           B(i) == BytesBefore(p, i)
           P == Cut(p, bytes)
           T == {i \in 1..L : B(i + 1) > bytes}
<1>1. L \in Nat /\ L >= 1 /\ DOMAIN p = 1..L /\ \A i \in 1..L : p[i] \in Parts(texts)
  OBVIOUS
<1>2. \A i \in 1..L : B(i) \in Nat /\ B(i + 1) = B(i) + p[i].got /\ B(i + 1) \in Nat
  BY BytesBeforeAre
<1>3. B(L + 1) > bytes
  <2>1. B(L + 1) = PacketBytes(p)
    BY BytesBeforeAre
  <2>2. B(L + 1) \in Nat
    BY <1>1, <1>2
  <2> QED
    BY <2>1, <2>2
<1>4. \A i \in 1..L :
         /\ p[i].got \in Nat /\ p[i].got >= 1 /\ p[i].got = ItemBytes(p[i])
         /\ \A n : LET y == [p[i] EXCEPT !.got = n]
                   IN  y.got = n /\ ItemBytes(y) = ItemBytes(p[i]) /\ (n = p[i].got => y = p[i])
  BY <1>1, PartsAreWhole
<1> HIDE DEF L
<1>5. /\ \A i : i \in DOMAIN P <=> i \in 1..L /\ B(i) < bytes
      /\ \A i \in DOMAIN P : P[i] = [p[i] EXCEPT !.got = Least(p[i].got, bytes - B(i))]
  BY <1>1 DEF Cut
<1> HIDE DEF B, P
<1>6. PICK b \in T : \A i \in T : b <= i
  <2>1. T \in SUBSET Nat /\ L \in T
    BY <1>1, <1>3
  <2> HIDE DEF T
  <2> QED
    BY <2>1, LeastNatural
<1>7. b \in 1..L /\ B(b + 1) > bytes /\ \A i \in 1..(b - 1) : ~(B(i + 1) > bytes)
  BY <1>1, <1>6
<1>8. ASSUME NEW i \in 1..(b - 1) PROVE i \in DOMAIN P /\ P[i] = p[i]
  <2>1. i \in 1..L /\ ~(B(i + 1) > bytes)
    BY <1>1, <1>7
  <2>2. B(i) + p[i].got <= bytes /\ B(i) \in Nat /\ p[i].got \in Nat /\ p[i].got >= 1
    BY <1>2, <1>4, <2>1
  <2>3. B(i) < bytes /\ Least(p[i].got, bytes - B(i)) = p[i].got
    BY <2>2 DEF Least
  <2>4. i \in DOMAIN P /\ P[i] = [p[i] EXCEPT !.got = p[i].got]
    BY <1>5, <2>1, <2>3
  <2> QED
    BY <1>4, <2>1, <2>4
<1>9. ASSUME NEW i \in DOMAIN P PROVE i \in 1..b
  <2> DEFINE U == {j \in 1..L : j > b /\ B(j) < bytes}
  <2>1. U = {}
    <3> SUFFICES ASSUME U # {} PROVE FALSE
      OBVIOUS
    <3>1. U \in SUBSET Nat
      BY <1>1
    <3>2. PICK j \in U : \A k \in U : j <= k
      <4> HIDE DEF U
      <4> QED
        BY <3>1, LeastNatural
    <3> DEFINE k == j - 1
    <3>3. k \in 1..L /\ k >= b /\ j = k + 1 /\ B(j) < bytes /\ k \notin U
      BY <1>1, <1>7, <3>2
    <3>4. B(j) = B(k) + p[k].got /\ B(k) \in Nat /\ p[k].got \in Nat
      BY <1>2, <1>4, <3>3
    <3>5. k # b
      <4> SUFFICES ASSUME k = b PROVE FALSE
        OBVIOUS
      <4>1. j = b + 1
        BY <1>7, <3>3
      <4>2. B(j) > bytes /\ B(j) \in Nat
        BY <1>2, <1>7, <4>1
      <4> QED
        BY <3>3, <4>2
    <3>6. k \in U
      BY <1>7, <3>3, <3>4, <3>5
    <3> QED
      BY <3>3, <3>6
  <2>2. i \in 1..L /\ B(i) < bytes
    BY <1>5
  <2> QED
    BY <1>7, <2>1, <2>2
<1>10. Missing(P, b)
  <2> SUFFICES ASSUME b \in DOMAIN P PROVE P[b].got # ItemBytes(P[b])
    BY DEF Missing
  <2> DEFINE n == Least(p[b].got, bytes - B(b))
  <2>1. P[b] = [p[b] EXCEPT !.got = n]
    BY <1>5
  <2>2. B(b) + p[b].got > bytes /\ B(b) \in Nat /\ p[b].got \in Nat /\ p[b].got = ItemBytes(p[b])
    BY <1>2, <1>4, <1>7
  <2>3. n # p[b].got
    BY <2>2 DEF Least
  <2> HIDE DEF n
  <2>4. [p[b] EXCEPT !.got = n].got = n /\ ItemBytes([p[b] EXCEPT !.got = n]) = ItemBytes(p[b])
    BY <1>4, <1>7, Zenon
  <2>5. P[b].got = n /\ ItemBytes(P[b]) = ItemBytes(p[b])
    BY <2>1, <2>4
  <2> QED
    BY <2>2, <2>3, <2>5
<1> QED
  BY <1>7, <1>8, <1>9, <1>10 DEF P, L

\* Entries begin one behind the other.
LEMMA EntriesFollow ==
    ASSUME NEW a, NEW p, NEW fields, NEW s, IsPacket(p, a, fields, s),
           NEW i \in 1..(Len(fields) + 1), NEW j \in 1..(Len(fields) + 1), i <= j
    PROVE  s[i] <= s[j]
<1> DEFINE n == Len(fields)
           U == {k \in i..(n + 1) : s[k] < s[i]}
<1>1. /\ n \in Nat /\ s \in [1..(n + 1) -> Nat]
      /\ \A k \in 1..n : s[k + 1] = s[k] + Size(fields[k])
  BY PacketIs
<1> HIDE DEF n
<1>2. U = {}
  <2> SUFFICES ASSUME U # {} PROVE FALSE
    OBVIOUS
  <2>1. U \in SUBSET Nat
    BY <1>1 DEF n
  <2>2. PICK k \in U : \A l \in U : k <= l
    <3> HIDE DEF U
    <3> QED
      BY <2>1, LeastNatural
  <2> DEFINE l == k - 1
  <2>3. k # i /\ i \in 1..(n + 1) /\ k \in i..(n + 1) /\ s[i] \in Nat
    BY <1>1, <2>2 DEF n
  <2>4. l \in i..n /\ l \in 1..n /\ k = l + 1 /\ l \notin U
    BY <1>1, <2>2, <2>3
  <2>5. s[k] = s[l] + Size(fields[l]) /\ s[l] \in Nat /\ Size(fields[l]) \in Nat
    BY <1>1, <2>4, SizeIs
  <2>6. s[l] < s[i]
    BY <2>2, <2>3, <2>5
  <2> QED
    BY <1>1, <2>4, <2>6
<1> QED
  BY <1>1, <1>2 DEF n

\* A reader of a packet that is cut fails at the entry in which it is cut.
LEMMA CutFails ==
    ASSUME NEW who \in Readers, NEW a, IsAlert(a), NEW p, NEW fields, NEW s,
           IsPacket(p, a, fields, s), NEW bytes \in Int, bytes < PacketBytes(p),
           HasWhole(Cut(p, bytes), 1, "map")
    PROVE  AtLast(who, Cut(p, bytes)).status # "OK"
<1> DEFINE n == Len(fields)
           L == Len(p)
           P == Cut(p, bytes)
<1>1. PICK b \in 1..L : /\ \A i \in 1..(b - 1) : i \in DOMAIN P /\ P[i] = p[i]
                        /\ DOMAIN P \subseteq 1..b
                        /\ Missing(P, b)
  <2>1. p \in Seq(Parts(Texts(a))) /\ Len(p) >= 1
    BY DEF IsPacket
  <2> QED
    BY <2>1, CutIs
<1>2. /\ n \in Nat /\ n >= 1 /\ L \in Nat /\ p[1].arg = n
      /\ fields \in [1..n -> Fields] /\ s \in [1..(n + 1) -> Nat] /\ s[1] = 2 /\ s[n + 1] = L + 1
      /\ \A k \in 1..n : /\ s[k] # 0 /\ s[k + 1] = s[k] + Size(fields[k])
                         /\ EntryAt(p, s[k], a, fields[k]) /\ Present(a, fields[k])
  BY PacketIs
<1>3. \A i, j \in 1..(n + 1) : i <= j => s[i] <= s[j]
  BY EntriesFollow
<1>4. HasWhole(P, 1, "map")
  OBVIOUS
<1> HIDE DEF n, L, P
<1>5. b \in Nat /\ b >= 2
  <2>1. b # 1
    BY <1>1, <1>4, MissingIs
  <2> QED
    BY <1>1, <1>2, <2>1
<1> DEFINE K == {k \in 1..n : s[k] <= b}
<1>6. PICK k \in K : \A l \in K : l <= k
  <2>1. K \in SUBSET Nat /\ 1 \in K /\ \A l \in K : l <= n
    BY <1>2, <1>5
  <2> HIDE DEF K
  <2> QED
    BY <1>2, <2>1, GreatestNatural
<1>7. k \in 1..n /\ s[k] <= b /\ b < s[k + 1]
  <2>1. k \in 1..n /\ s[k] <= b
    BY <1>6
  <2>2. CASE k = n
    BY <1>1, <1>2, <2>1, <2>2
  <2>3. CASE k # n
    <3>1. k + 1 \in 1..n /\ k + 1 \notin K
      <4>1. k + 1 \in 1..n /\ ~(k + 1 <= k)
        BY <1>2, <2>1, <2>3
      <4> HIDE DEF K
      <4> QED
        BY <1>6, <4>1
    <3>2. s[k + 1] \in Nat
      BY <1>2, <3>1
    <3> QED
      BY <1>5, <2>1, <3>1, <3>2
  <2> QED
    BY <2>2, <2>3
<1> HIDE DEF K
<1> DEFINE m == k - 1
           i == s[k]
           f == fields[k]
<1>8. /\ m \in 0..n /\ m < n /\ k = m + 1 /\ i \in Nat \ {0} /\ f \in Fields
      /\ s[k + 1] = i + Size(f) /\ EntryAt(p, i, a, f) /\ i <= b /\ b < i + Size(f)
  BY <1>2, <1>7
<1>9. Path(who, P, a, s, fields, n, m)
  <2>1. ASSUME NEW l \in 1..m PROVE Good(who, P, s[l], s[l + 1], a, fields[l])
    <3> DEFINE i1 == s[l]
               f1 == fields[l]
    <3>1. /\ i1 \in Nat \ {0} /\ f1 \in Fields /\ Present(a, f1) /\ s[l + 1] = i1 + Size(f1)
          /\ EntryAt(p, i1, a, f1) /\ l + 1 <= k /\ l + 1 \in 1..(n + 1) /\ k \in 1..(n + 1)
      <4>1. l \in 1..n /\ l \in 1..(n + 1) /\ l + 1 <= k /\ l + 1 \in 1..(n + 1) /\ k \in 1..(n + 1)
        <5>1. n \in Nat /\ k \in 1..n
          BY <1>2, <1>7
        <5> QED
          BY <5>1
      <4>2. /\ f1 \in Fields /\ Present(a, f1) /\ s[l + 1] = i1 + Size(f1)
            /\ EntryAt(p, i1, a, f1) /\ i1 \in Nat /\ i1 # 0
        BY <1>2, <4>1
      <4> QED
        BY <4>1, <4>2
    <3>2. i1 + Size(f1) <= b
      <4>1. s[l + 1] <= s[k] /\ s[k] \in Nat /\ s[l + 1] \in Nat
        BY <1>2, <1>3, <3>1
      <4> QED
        BY <1>5, <1>7, <3>1, <4>1
    <3> HIDE DEF i1, f1
    <3>3. ASSUME NEW x \in 0..(Size(f1) - 1) PROVE i1 + x \in DOMAIN P /\ P[i1 + x] = p[i1 + x]
      <4>1. i1 + x \in 1..(b - 1)
        BY <1>5, <3>1, <3>2, SizeIs
      <4> QED
        BY <1>1, <4>1
    <3>4. EntryIn(P, i1, a, f1)
      BY <3>1, <3>3, EntryMoved
    <3>5. f1 # "unknown"
      BY <3>1, UnknownKey
    <3> QED
      BY <3>1, <3>4, <3>5 DEF Good, i1, f1
  <2>2. P[1].arg = n
    <3>1. 1 \in 1..(b - 1)
      BY <1>5
    <3> QED
      BY <1>1, <1>2, <3>1
  <2>3. fields \in [1..n -> Entries]
    BY <1>2 DEF Entries
  <2> QED
    BY <1>2, <1>8, <2>1, <2>2, <2>3 DEF Path
<1> DEFINE F == Seen(fields, m)
           r == Standing(who, a, i, F)
<1>10. r.at = i
  BY DEF Standing
<1> HIDE DEF r, i, f, m
<1>11. EntryOf(who, P, r) \in Failed(r)
  <2>1. CASE b = i
    BY <1>1, <1>10, <2>1, KeyIsMissing
  <2>2. CASE b # i
    <3>1. i \in DOMAIN P /\ P[i] = p[i]
      <4>1. i \in 1..(b - 1)
        BY <1>5, <1>8, <2>2
      <4> QED
        BY <1>1, <4>1
    <3>2. r.at \in DOMAIN P /\ P[r.at] = Uint(Keys[f]) /\ r.at \in Nat
      BY <1>8, <1>10, <3>1 DEF EntryAt
    <3>3. CASE b = i + 1
      <4>1. r.at + 1 + 1 \notin DOMAIN P
        BY <1>1, <1>5, <1>8, <1>10, <3>3
      <4>2. Missing(P, r.at + 1)
        BY <1>1, <1>10, <3>3
      <4> QED
        BY <1>8, <3>2, <4>1, <4>2, ValueIsMissing
    <3>4. CASE b # i + 1
      <4> DEFINE l == b - i - 1
      <4>1. f = "bands"
        BY <1>5, <1>8, <2>2, <3>4 DEF Size
      <4>2. Size(f) = 6
        BY <4>1 DEF Size
      <4>3. l \in 1..4 /\ b = r.at + 1 + l
        BY <1>5, <1>8, <1>10, <2>2, <3>4, <4>2
      <4> HIDE DEF l
      <4>4. Missing(P, r.at + 1 + l)
        BY <1>1, <4>3
      <4>5. P[r.at] = Uint(Keys["bands"])
        BY <3>2, <4>1
      <4> QED
        BY <3>2, <4>3, <4>4, <4>5, LevelIsMissing
    <3> QED
      BY <3>3, <3>4
  <2> QED
    BY <2>1, <2>2
<1>12. AtLast(who, P).status # "OK"
  <2>1. EntryOf(who, P, Standing(who, a, s[m + 1], Seen(fields, m)))
           \in Failed(Standing(who, a, s[m + 1], Seen(fields, m)))
    BY <1>8, <1>11 DEF r, i
  <2> QED
    BY <1>8, <1>9, <2>1, PathIsRead
<1> QED
  BY <1>12 DEF P

-----------------------------------------------------------------------------
(* A packet of another version.                                             *)

LEMMA OtherFails ==
    ASSUME NEW who \in Readers, NEW a, IsAlert(a), NEW p, NEW fields, NEW s,
           IsPacket(p, a, fields, s), NEW version \in 0..100, version # PROTOCOL_VERSION
    PROVE  AtLast(who, WithVersion(p, version)).status # "OK"
<1> DEFINE n == Len(fields)
           P == WithVersion(p, version)
           x == Uint(version)
           f == "protocolVersion"
<1>1. /\ n \in Nat /\ n >= 1 /\ Len(p) \in Nat /\ DOMAIN p = 1..Len(p) /\ p[1].arg = n
      /\ fields \in [1..n -> Fields] /\ fields[1] = f /\ s \in [1..(n + 1) -> Nat] /\ s[1] = 2
  BY PacketIs
<1>2. EntryAt(p, 2, a, f)
  <2>1. EntryAt(p, s[1], a, fields[1])
    BY PacketIs
  <2> QED
    BY <1>1, <2>1
<1> HIDE DEF n, x
<1>3. /\ 2 \in DOMAIN p /\ 3 \in DOMAIN p /\ p[2] = Uint(Keys[f])
  BY <1>1, <1>2 DEF EntryAt, Size
<1>4. DOMAIN P = DOMAIN p /\ P[1] = p[1] /\ P[2] = p[2] /\ P[3] = x
  BY <1>1, <1>3 DEF WithVersion, x
<1> HIDE DEF P, f
<1>5. Path(who, P, a, s, fields, n, 0)
  <2>1. fields \in [1..n -> Entries]
    BY <1>1 DEF Entries
  <2> QED
    BY <1>1, <1>4, <2>1 DEF Path
<1> DEFINE r == Standing(who, a, s[0 + 1], Seen(fields, 0))
<1>6. r.at = 2
  BY <1>1 DEF Standing
<1> HIDE DEF r
<1>7. EntryOf(who, P, r) \in Failed(r)
  <2>1. /\ r.at \in Nat /\ r.at \in DOMAIN P /\ P[r.at] = Uint(Keys["protocolVersion"])
        /\ r.at + 1 \in DOMAIN P /\ P[r.at + 1] = Uint(version)
    BY <1>3, <1>4, <1>6 DEF f, x
  <2> QED
    BY <2>1, OtherVersionFails
<1>8. AtLast(who, P).status # "OK"
  <2>1. 0 < n
    BY <1>1
  <2> QED
    BY <1>5, <1>7, <2>1, PathIsRead DEF r
<1> QED
  BY <1>8 DEF P

-----------------------------------------------------------------------------
(* A value that is not known is skipped wherever it is.                     *)

StackAfter(stack, item) == IF stack = <<>> THEN <<>> ELSE AfterItem(stack, item)

Stacks(h, P, i, n) ==
    h = [j \in i..n |-> IF j = i THEN <<1>> ELSE StackAfter(h[j - 1], P[j - 1])]

StackBefore(P, i) ==
    CHOOSE h : h = [j \in i..(Len(P) + 1) |->
        IF j = i THEN <<1>>
        ELSE IF h[j - 1] = <<>> THEN <<>> ELSE AfterItem(h[j - 1], P[j - 1])]

LEMMA StackAt ==
    ASSUME NEW h, NEW P, NEW i, NEW n, Stacks(h, P, i, n), NEW j \in i..n
    PROVE  h[j] = IF j = i THEN <<1>> ELSE StackAfter(h[j - 1], P[j - 1])
BY Zenon DEF Stacks

LEMMA StacksExist ==
    ASSUME NEW P, NEW i \in Nat, NEW n \in Nat, i <= n
    PROVE  \E h : Stacks(h, P, i, n)
<1> DEFINE T == {k \in Nat : \E h : Stacks(h, P, i, i + k)}
<1>1. 0 \in T
  <2> DEFINE h == [j \in i..(i + 0) |-> <<1>>]
             body == [j \in i..(i + 0) |-> IF j = i THEN <<1>> ELSE StackAfter(h[j - 1], P[j - 1])]
  <2>1. \A j \in i..(i + 0) : j = i
    OBVIOUS
  <2>2. h = body
    BY <2>1, Zenon
  <2> HIDE DEF h
  <2>3. Stacks(h, P, i, i + 0)
    BY <2>2 DEF Stacks
  <2> QED
    BY <2>3
<1>2. ASSUME NEW k \in T PROVE k + 1 \in T
  <2> DEFINE m == i + k
             l == i + (k + 1)
  <2>1. k \in Nat /\ m \in Nat /\ l = m + 1 /\ i <= m /\ l \in Nat
    OBVIOUS
  <2>2. PICK g : Stacks(g, P, i, m)
    OBVIOUS
  <2> HIDE DEF T
  <2> DEFINE h == [j \in i..l |-> IF j = l THEN StackAfter(g[m], P[m]) ELSE g[j]]
             body == [j \in i..l |-> IF j = i THEN <<1>> ELSE StackAfter(h[j - 1], P[j - 1])]
  <2> HIDE DEF m, l
  <2>3. ASSUME NEW j \in i..l
        PROVE  h[j] = IF j = i THEN <<1>> ELSE StackAfter(h[j - 1], P[j - 1])
    <3>1. CASE j = l
      <4>1. j # i /\ j - 1 = m /\ m \in i..l /\ m # l
        BY <2>1, <3>1
      <4>2. h[m] = g[m] /\ h[j] = StackAfter(g[m], P[m])
        BY <3>1, <4>1
      <4> HIDE DEF h
      <4> QED
        BY <4>1, <4>2
    <3>2. CASE j # l /\ j # i
      <4> DEFINE before == j - 1
      <4>1. j \in i..m /\ before \in i..l /\ before # l
        BY <2>1, <3>2
      <4>2. g[j] = StackAfter(g[j - 1], P[j - 1])
        BY <2>2, <3>2, <4>1, StackAt
      <4>3. h[j] = g[j] /\ h[before] = g[before]
        BY <3>2, <4>1
      <4> HIDE DEF h
      <4> QED
        BY <3>2, <4>2, <4>3
    <3>3. CASE j # l /\ j = i
      <4>1. j \in i..m
        BY <2>1, <3>3
      <4>2. g[j] = <<1>>
        BY <2>2, <3>3, <4>1, StackAt
      <4>3. h[j] = g[j]
        BY <3>3
      <4> HIDE DEF h
      <4> QED
        BY <3>3, <4>2, <4>3
    <3> QED
      BY <3>1, <3>2, <3>3
  <2>4. \A j \in i..l : h[j] = body[j]
    <3> HIDE DEF h
    <3> QED
      BY <2>3
  <2>5. h = [j \in i..l |-> h[j]] /\ body = [j \in i..l |-> body[j]]
    OBVIOUS
  <2>6. h = body
    <3> HIDE DEF h, body
    <3> QED
      BY <2>4, <2>5
  <2> HIDE DEF h
  <2>7. Stacks(h, P, i, l)
    BY <2>6 DEF Stacks
  <2>8. k + 1 \in Nat
    BY <2>1
  <2> QED
    BY <2>7, <2>8 DEF T, l
<1>3. n - i \in T
  <2>1. T \in SUBSET Nat
    OBVIOUS
  <2> HIDE DEF T
  <2> QED
    BY <1>1, <1>2, <2>1, SetInduction
<1>4. i + (n - i) = n
  OBVIOUS
<1> QED
  BY <1>3, <1>4

\* So many items are the same, and so many stacks.
Same(h, g, i, j, m) == \A k \in 0..m : h[i + k] = g[j + k]

\* Where the items are the same the stacks are.
LEMMA StacksAgree ==
    ASSUME NEW P, NEW Q, NEW i \in Nat, NEW j \in Nat, NEW m \in Nat, NEW n \in Nat, NEW o \in Nat,
           NEW h, NEW g, Stacks(h, P, i, n), Stacks(g, Q, j, o), i + m <= n, j + m <= o,
           Same(P, Q, i, j, m - 1)
    PROVE  Same(h, g, i, j, m)
<1> DEFINE T == {k \in Nat : k <= m => h[i + k] = g[j + k]}
<1>1. 0 \in T
  <2>1. i \in i..n /\ j \in j..o /\ i + 0 = i /\ j + 0 = j
    OBVIOUS
  <2>2. h[i] = <<1>> /\ g[j] = <<1>>
    BY <2>1, StackAt
  <2> QED
    BY <2>1, <2>2
<1>2. ASSUME NEW k \in T PROVE k + 1 \in T
  <2> SUFFICES ASSUME k + 1 <= m PROVE h[i + (k + 1)] = g[j + (k + 1)]
    OBVIOUS
  <2> DEFINE u == i + (k + 1)
             v == j + (k + 1)
  <2>1. /\ k \in Nat /\ h[i + k] = g[j + k] /\ k \in 0..(m - 1)
        /\ u \in i..n /\ v \in j..o /\ u # i /\ v # j /\ u - 1 = i + k /\ v - 1 = j + k
    OBVIOUS
  <2> HIDE DEF u, v, T
  <2>2. h[u] = StackAfter(h[u - 1], P[u - 1]) /\ g[v] = StackAfter(g[v - 1], Q[v - 1])
    BY <2>1, StackAt
  <2>3. P[i + k] = Q[j + k]
    BY <2>1 DEF Same
  <2> QED
    BY <2>1, <2>2, <2>3 DEF u, v
<1>3. T = Nat
  <2>1. T \in SUBSET Nat
    OBVIOUS
  <2> HIDE DEF T
  <2> QED
    BY <1>1, <1>2, <2>1, SetInduction
<1> SUFFICES ASSUME NEW k \in 0..m PROVE h[i + k] = g[j + k]
  BY DEF Same
<1>4. k \in T /\ k <= m
  <2> HIDE DEF T
  <2> QED
    BY <1>3
<1> QED
  BY <1>4

\* What skipItem says, by its stacks.
LEMMA SkipIs ==
    ASSUME NEW P, NEW i
    PROVE  LET h == StackBefore(P, i)
               ends == {j \in i..(Len(P) + 1) : h[j] = <<>>}
           IN  skipItem(P, i) =
                  IF /\ ends # {}
                     /\ \A j \in i..(Min(ends) - 1) : Len(h[j]) <= 5 /\ P[j].got = ItemBytes(P[j])
                  THEN Min(ends) ELSE 0
BY DEF skipItem, StackBefore

LEMMA StacksAre ==
    ASSUME NEW P, NEW i \in Nat, Len(P) \in Nat, i <= Len(P) + 1
    PROVE  Stacks(StackBefore(P, i), P, i, Len(P) + 1)
<1> DEFINE n == Len(P) + 1
           h == StackBefore(P, i)
<1>0. n \in Nat /\ i <= n
  OBVIOUS
<1>1. PICK g : Stacks(g, P, i, n)
  <2> HIDE DEF n, h
  <2> QED
    BY <1>0, StacksExist
<1>2. \A f : Stacks(f, P, i, n) <=>
         f = [j \in i..n |-> IF j = i THEN <<1>>
                             ELSE IF f[j - 1] = <<>> THEN <<>> ELSE AfterItem(f[j - 1], P[j - 1])]
  BY DEF Stacks, StackAfter
<1> HIDE DEF h
<1>3. h = CHOOSE f : f = [j \in i..n |->
             IF j = i THEN <<1>>
             ELSE IF f[j - 1] = <<>> THEN <<>> ELSE AfterItem(f[j - 1], P[j - 1])]
  BY DEF h, StackBefore
<1> HIDE DEF n
<1>4. Stacks(h, P, i, n)
  BY <1>1, <1>2, <1>3
<1> QED
  BY <1>4 DEF h, n

\* A value that is one item is skipped as a whole.
LEMMA ValueIsSkipped ==
    ASSUME NEW S, NEW value \in Seq(S), skipItem(value, 1) = Len(value) + 1,
           NEW P, NEW i \in Nat \ {0}, Len(P) \in Nat, i + Len(value) <= Len(P) + 1,
           \A k \in 0..(Len(value) - 1) : P[i + k] = value[1 + k]
    PROVE  skipItem(P, i) = i + Len(value)
<1> DEFINE m == Len(value)
           f == StackBefore(value, 1)
           g == StackBefore(P, i)
           endsOf == {j \in 1..(m + 1) : f[j] = <<>>}
           ends == {j \in i..(Len(P) + 1) : g[j] = <<>>}
<1>1. m \in Nat /\ i + m <= Len(P) + 1 /\ \A k \in 0..(m - 1) : P[i + k] = value[1 + k]
  OBVIOUS
<1>2. Stacks(f, value, 1, m + 1) /\ Stacks(g, P, i, Len(P) + 1)
  BY <1>1, StacksAre
<1>3. skipItem(value, 1) = IF /\ endsOf # {}
                              /\ \A j \in 1..(Min(endsOf) - 1) :
                                    Len(f[j]) <= 5 /\ value[j].got = ItemBytes(value[j])
                           THEN Min(endsOf) ELSE 0
  BY SkipIs, Zenon
<1>4. skipItem(P, i) = IF /\ ends # {}
                          /\ \A j \in i..(Min(ends) - 1) : Len(g[j]) <= 5 /\ P[j].got = ItemBytes(P[j])
                       THEN Min(ends) ELSE 0
  BY SkipIs, Zenon
<1>5. skipItem(value, 1) = m + 1
  OBVIOUS
<1> HIDE DEF m, f, g
<1>6. \A k \in 0..m : g[i + k] = f[1 + k]
  <2>1. \A k \in 0..m : f[1 + k] = g[i + k]
    <3> DEFINE one == 1
               n == m + 1
               o == Len(P) + 1
    <3>1. one \in Nat /\ n \in Nat /\ o \in Nat /\ one + m <= n /\ i + m <= o
      BY <1>1
    <3>2. Stacks(f, value, one, n) /\ Stacks(g, P, i, o)
      BY <1>2
    <3>3. Same(value, P, one, i, m - 1)
      BY <1>1 DEF Same
    <3> HIDE DEF one, n, o
    <3>4. i \in Nat /\ m \in Nat
      BY <1>1
    <3>5. Same(f, g, one, i, m)
      BY <3>1, <3>2, <3>3, <3>4, StacksAgree
    <3> QED
      BY <3>5 DEF Same, one
  <2> QED
    BY <2>1
<1>7. /\ endsOf # {} /\ Min(endsOf) = m + 1
      /\ \A j \in 1..m : Len(f[j]) <= 5 /\ value[j].got = ItemBytes(value[j])
  <2> DEFINE all == \A j \in 1..(Min(endsOf) - 1) : Len(f[j]) <= 5 /\ value[j].got = ItemBytes(value[j])
  <2>1. m + 1 # 0
    BY <1>1
  <2> HIDE DEF all, endsOf
  <2>2. endsOf # {} /\ all /\ Min(endsOf) = m + 1
    BY <1>3, <1>5, <2>1 DEF all
  <2>3. Min(endsOf) - 1 = m
    BY <1>1, <2>2
  <2> QED
    BY <2>2, <2>3 DEF all
<1>8. f[m + 1] = <<>> /\ \A j \in 1..m : f[j] # <<>>
  <2>1. endsOf \in SUBSET Nat /\ m + 1 \in Nat /\ \A y \in endsOf : y <= m + 1
    BY <1>1
  <2>2. Min(endsOf) \in endsOf /\ \A y \in endsOf : Min(endsOf) <= y
    <3> HIDE DEF endsOf
    <3> QED
      BY <1>7, <2>1, MinMaxOfIndices
  <2>3. m + 1 \in endsOf /\ \A y \in endsOf : m + 1 <= y
    BY <1>7, <2>2
  <2>4. ASSUME NEW j \in 1..m PROVE f[j] # <<>>
    <3>1. ~(m + 1 <= j) /\ j \in 1..(m + 1)
      BY <1>1
    <3> QED
      BY <2>3, <3>1
  <2> QED
    BY <2>3, <2>4
<1>9. i + m \in ends /\ \A y \in ends : i + m <= y
  <2>1. g[i + m] = <<>>
    <3>1. m \in 0..m /\ 1 + m = m + 1
      BY <1>1
    <3> QED
      BY <1>6, <1>8, <3>1
  <2>2. ASSUME NEW y \in ends PROVE i + m <= y
    <3> SUFFICES ASSUME ~(i + m <= y) PROVE FALSE
      OBVIOUS
    <3> DEFINE k == y - i
    <3>1. y \in i..(Len(P) + 1) /\ g[y] = <<>>
      OBVIOUS
    <3>2. k \in 0..m /\ y = i + k /\ 1 + k \in 1..m
      BY <1>1, <3>1
    <3> HIDE DEF k, ends
    <3>3. g[i + k] = f[1 + k]
      BY <1>6, <3>2
    <3> QED
      BY <1>8, <3>1, <3>2, <3>3
  <2>3. i + m \in i..(Len(P) + 1)
    BY <1>1
  <2> QED
    BY <2>1, <2>2, <2>3
<1>10. ends # {} /\ Min(ends) = i + m
  <2>1. ends \in SUBSET Nat /\ Len(P) + 1 \in Nat /\ ends # {} /\ \A y \in ends : y <= Len(P) + 1
    BY <1>9
  <2>2. Min(ends) \in ends /\ \A y \in ends : Min(ends) <= y
    <3> HIDE DEF ends
    <3> QED
      BY <2>1, MinMaxOfIndices
  <2>3. Min(ends) \in Nat /\ i + m \in Nat /\ Min(ends) <= i + m /\ i + m <= Min(ends)
    BY <1>1, <1>9, <2>1, <2>2
  <2> QED
    BY <2>1, <2>3
<1>11. ASSUME NEW j \in i..(Min(ends) - 1) PROVE Len(g[j]) <= 5 /\ P[j].got = ItemBytes(P[j])
  <2> DEFINE k == j - i
             l == 1 + k
  <2>1. k \in 0..(m - 1) /\ k \in 0..m /\ j = i + k /\ l \in 1..m
    BY <1>1, <1>10
  <2>2. g[j] = f[l] /\ P[j] = value[l]
    BY <1>1, <1>6, <2>1
  <2> HIDE DEF l
  <2>3. Len(f[l]) <= 5 /\ value[l].got = ItemBytes(value[l])
    BY <1>7, <2>1
  <2> QED
    BY <2>2, <2>3
<1> HIDE DEF ends
<1> QED
  BY <1>4, <1>10, <1>11 DEF m

-----------------------------------------------------------------------------
(* A packet with an entry more.                                             *)

\* Where the items of a packet are when there is an entry more in front of
\* item i.
LEMMA WithEntryIs ==
    ASSUME NEW texts, NEW p \in Seq(Parts(texts)), NEW n \in Nat, p[1].arg = n,
           NEW i \in 2..(Len(p) + 1), NEW V, NEW value \in Seq(V)
    PROVE  /\ DOMAIN WithEntry(p, i, value) = 1..(Len(p) + 1 + Len(value))
           /\ Len(WithEntry(p, i, value)) = Len(p) + 1 + Len(value)
           /\ WithEntry(p, i, value)[1] = MapHeader(n + 1)
           /\ \A k \in 2..(i - 1) : WithEntry(p, i, value)[k] = p[k]
           /\ WithEntry(p, i, value)[i] = Uint(17)
           /\ \A k \in 1..Len(value) : WithEntry(p, i, value)[i + k] = value[k]
           /\ \A k \in i..Len(p) : WithEntry(p, i, value)[k + 1 + Len(value)] = p[k]
<1> DEFINE L == Len(p)
           m == Len(value)
           header == MapHeader(n + 1)
           key == Uint(17)
           S == Parts(texts) \cup V \cup {header, key}
           before == SubSeq(p, 2, i - 1)
           behind == SubSeq(p, i, L)
           u == InFront(header, before)
           entry == InFront(key, value)
           v == u \o entry
           Q == v \o behind
<1>1. /\ L \in Nat /\ m \in Nat /\ i \in Nat /\ 2 <= i /\ i <= L + 1
      /\ \A k \in 1..L : p[k] \in Parts(texts)
  OBVIOUS
<1>2. WithEntry(p, i, value) = Q
  BY DEF WithEntry, Entry, InFront
<1>3. p \in Seq(S) /\ value \in Seq(S) /\ header \in S /\ key \in S
  <2>1. p \in Seq(S)
    <3>1. \A k \in 1..L : p[k] \in S
      BY <1>1
    <3>2. p \in [1..L -> S]
      BY <1>1, <3>1
    <3> HIDE DEF S
    <3> QED
      BY <1>1, <3>2, FunctionIsSeq
  <2>2. value \in Seq(S)
    <3>1. \A k \in 1..m : value[k] \in S
      OBVIOUS
    <3>2. value \in [1..m -> S]
      BY <1>1, <3>1
    <3> HIDE DEF S
    <3> QED
      BY <1>1, <3>2, FunctionIsSeq
  <2> QED
    BY <2>1, <2>2
<1> HIDE DEF S, header, key
<1>4. /\ before \in Seq(S) /\ Len(before) = i - 2 /\ Len(before) \in Nat
      /\ \A k \in 1..(i - 2) : before[k] = p[k + 1]
  <2> DEFINE two == 2
             j == i - 1
  <2>1. two \in Int /\ j \in Int /\ \A k \in two..j : p[k] \in S
    <3>1. \A k \in two..j : k \in 1..L
      BY <1>1
    <3> QED
      BY <1>1, <1>3, <3>1
  <2>2. j - two + 1 = i - 2 /\ (two <= j => j - two + 1 = i - 2) /\ (~(two <= j) => i - 2 = 0)
    BY <1>1
  <2> HIDE DEF two, j
  <2>3. /\ SubSeq(p, two, j) \in Seq(S)
        /\ Len(SubSeq(p, two, j)) = IF two <= j THEN j - two + 1 ELSE 0
        /\ \A k \in 1..(j - two + 1) : SubSeq(p, two, j)[k] = p[two + k - 1]
    BY <2>1, SubSeqProperties
  <2>4. before = SubSeq(p, two, j)
    BY DEF two, j
  <2> HIDE DEF before
  <2>5. before \in Seq(S) /\ Len(before) = i - 2
    BY <2>2, <2>3, <2>4
  <2>6. ASSUME NEW k \in 1..(i - 2) PROVE before[k] = p[k + 1]
    <3>1. two + k - 1 = k + 1
      BY DEF two
    <3> QED
      BY <2>2, <2>3, <2>4, <3>1
  <2> QED
    BY <1>1, <2>5, <2>6
<1>5. /\ behind \in Seq(S) /\ Len(behind) = L - i + 1 /\ Len(behind) \in Nat
      /\ \A k \in 1..(L - i + 1) : behind[k] = p[i + k - 1]
  <2>1. i \in Int /\ L \in Int /\ \A k \in i..L : p[k] \in S
    BY <1>1, <1>3
  <2> HIDE DEF L
  <2>2. /\ SubSeq(p, i, L) \in Seq(S)
        /\ Len(SubSeq(p, i, L)) = IF i <= L THEN L - i + 1 ELSE 0
        /\ \A k \in 1..(L - i + 1) : SubSeq(p, i, L)[k] = p[i + k - 1]
    BY <2>1, SubSeqProperties
  <2> HIDE DEF behind
  <2>3. behind \in Seq(S) /\ Len(behind) = IF i <= L THEN L - i + 1 ELSE 0
    BY <2>2 DEF behind
  <2>4. Len(behind) = L - i + 1 /\ Len(behind) \in Nat
    BY <1>1, <2>3
  <2> QED
    BY <2>2, <2>3, <2>4 DEF behind
<1> HIDE DEF before, behind, L, m
<1>6. u \in Seq(S) /\ Len(u) = i - 1 /\ u[1] = header /\ \A k \in 1..(i - 2) : u[k + 1] = p[k + 1]
  <2>1. u \in Seq(S) /\ Len(u) = Len(before) + 1 /\ u[1] = header
    BY <1>3, <1>4, OneMore
  <2>2. ASSUME NEW k \in 1..(i - 2) PROVE u[k + 1] = p[k + 1]
    <3>1. k \in 1..Len(before)
      BY <1>4
    <3>2. u[k + 1] = before[k]
      BY <1>3, <1>4, <3>1, OthersBehind
    <3> QED
      BY <1>4, <3>2
  <2> QED
    BY <1>1, <1>4, <2>1, <2>2
<1>7. entry \in Seq(S) /\ Len(entry) = m + 1 /\ entry[1] = key /\ \A k \in 1..m : entry[k + 1] = value[k]
  <2>1. entry \in Seq(S) /\ Len(entry) = Len(value) + 1 /\ entry[1] = key
    BY <1>3, OneMore
  <2>2. ASSUME NEW k \in 1..m PROVE entry[k + 1] = value[k]
    <3>1. k \in 1..Len(value)
      BY DEF m
    <3> QED
      BY <1>3, <3>1, OthersBehind
  <2> QED
    BY <2>1, <2>2 DEF m
<1> HIDE DEF u, entry
<1>8. /\ v \in Seq(S) /\ Len(v) = Len(u) + Len(entry)
      /\ \A k \in 1..Len(u) : v[k] = u[k]
      /\ \A k \in 1..Len(entry) : v[Len(u) + k] = entry[k]
  <2>1. u \in Seq(S) /\ entry \in Seq(S)
    BY <1>6, <1>7
  <2>2. Len(u) \in Nat /\ Len(entry) \in Nat
    BY <2>1
  <2> QED
    BY <2>1, <2>2, ConcatProperties
<1> HIDE DEF v
<1>9. /\ Q \in Seq(S) /\ Len(Q) = Len(v) + Len(behind)
      /\ \A k \in 1..Len(v) : Q[k] = v[k]
      /\ \A k \in 1..Len(behind) : Q[Len(v) + k] = behind[k]
  <2>1. v \in Seq(S) /\ behind \in Seq(S)
    BY <1>5, <1>8
  <2>2. Len(v) \in Nat /\ Len(behind) \in Nat
    BY <2>1
  <2> QED
    BY <2>1, <2>2, ConcatProperties
<1> HIDE DEF Q
<1>10. Len(v) = i + m /\ Len(Q) = L + 1 + m
  BY <1>1, <1>5, <1>6, <1>7, <1>8, <1>9
<1>11. DOMAIN Q = 1..(L + 1 + m)
  BY <1>9, <1>10
<1>12. ASSUME NEW k \in 1..(i - 1) PROVE Q[k] = u[k]
  <2>1. k \in 1..Len(v) /\ k \in 1..Len(u)
    BY <1>1, <1>6, <1>10
  <2> QED
    BY <1>8, <1>9, <2>1
<1>13. Q[1] = header
  <2>1. 1 \in 1..(i - 1)
    BY <1>1
  <2> QED
    BY <1>6, <1>12, <2>1
<1>14. ASSUME NEW k \in 2..(i - 1) PROVE Q[k] = p[k]
  <2> DEFINE j == k - 1
  <2>1. j \in 1..(i - 2) /\ k = j + 1 /\ k \in 1..(i - 1)
    BY <1>1
  <2> HIDE DEF j
  <2>2. u[j + 1] = p[j + 1] /\ Q[k] = u[k]
    BY <1>6, <1>12, <2>1
  <2> QED
    BY <2>1, <2>2
<1>15. ASSUME NEW k \in 1..(m + 1) PROVE Q[i - 1 + k] = entry[k]
  <2> DEFINE j == i - 1 + k
  <2>1. j \in 1..Len(v) /\ k \in 1..Len(entry) /\ j = Len(u) + k
    BY <1>1, <1>6, <1>7, <1>10
  <2> HIDE DEF j
  <2>2. Q[j] = v[j] /\ v[Len(u) + k] = entry[k]
    BY <1>8, <1>9, <2>1
  <2> QED
    BY <2>1, <2>2 DEF j
<1>16. Q[i] = key
  <2>1. 1 \in 1..(m + 1) /\ i - 1 + 1 = i
    BY <1>1
  <2>2. Q[i - 1 + 1] = entry[1]
    BY <1>15, <2>1
  <2> QED
    BY <1>7, <2>1, <2>2
<1>17. ASSUME NEW k \in 1..m PROVE Q[i + k] = value[k]
  <2> DEFINE j == k + 1
  <2>1. j \in 1..(m + 1) /\ i - 1 + j = i + k
    BY <1>1
  <2>2. entry[j] = value[k]
    BY <1>7
  <2> HIDE DEF j
  <2>3. Q[i - 1 + j] = entry[j]
    BY <1>15, <2>1
  <2> QED
    BY <2>1, <2>2, <2>3
<1>18. ASSUME NEW k \in i..L PROVE Q[k + 1 + m] = p[k]
  <2> DEFINE j == k - i + 1
  <2>1. j \in 1..Len(behind) /\ Len(v) + j = k + 1 + m /\ j \in 1..(L - i + 1) /\ i + j - 1 = k
    BY <1>1, <1>5, <1>10
  <2> HIDE DEF j
  <2>2. Q[Len(v) + j] = behind[j] /\ behind[j] = p[i + j - 1]
    BY <1>5, <1>9, <2>1
  <2> QED
    BY <2>1, <2>2
<1> QED
  BY <1>2, <1>10, <1>11, <1>13, <1>14, <1>16, <1>17, <1>18 DEF L, m, header, key

\* Entries begin at even items.
LEMMA EntriesAreEven ==
    ASSUME NEW a, NEW p, NEW fields, NEW s, IsPacket(p, a, fields, s),
           NEW k \in 1..(Len(fields) + 1)
    PROVE  s[k] % 2 = 0
<1> DEFINE n == Len(fields)
           T == {l \in Nat : l \in 1..(n + 1) => s[l] % 2 = 0}
<1>1. /\ n \in Nat /\ s \in [1..(n + 1) -> Nat] /\ s[1] = 2
      /\ \A l \in 1..n : s[l + 1] = s[l] + Size(fields[l])
  BY PacketIs
<1> HIDE DEF n
<1>2. 0 \in T
  BY <1>1
<1>3. ASSUME NEW l \in T PROVE l + 1 \in T
  <2>1. CASE l = 0
    BY <1>1, <2>1
  <2>2. CASE l # 0 /\ l \in 1..n
    <3> DEFINE x == s[l]
               d == Size(fields[l])
    <3>1. x \in Nat /\ x % 2 = 0 /\ d \in {2, 6} /\ s[l + 1] = x + d
      BY <1>1, <2>2, SizeIs
    <3> HIDE DEF x, d
    <3>2. (x + d) % 2 = 0
      BY <3>1
    <3> QED
      BY <3>1, <3>2
  <2>3. CASE l # 0 /\ l \notin 1..n
    BY <1>1, <2>3
  <2> QED
    BY <2>1, <2>2, <2>3
<1>4. T \in SUBSET Nat
  OBVIOUS
<1> HIDE DEF T
<1>5. T = Nat
  BY <1>2, <1>3, <1>4, SetInduction
<1>6. k \in T
  BY <1>1, <1>5 DEF n
<1> QED
  BY <1>6 DEF T, n

\* Every start the model takes for that of an entry is one.
LEMMA StartsAre ==
    ASSUME NEW a, NEW p, NEW fields, NEW s, IsPacket(p, a, fields, s), NEW i \in EntryStarts(p)
    PROVE  \E e \in 1..(Len(fields) + 1) : s[e] = i
<1> DEFINE n == Len(fields)
           L == Len(p)
           K == {k \in 1..(n + 1) : s[k] <= i}
<1>1. /\ n \in Nat /\ n >= 1 /\ L \in Nat /\ DOMAIN p = 1..L
      /\ s \in [1..(n + 1) -> Nat] /\ s[1] = 2 /\ s[n + 1] = L + 1
      /\ \A k \in 1..n : /\ s[k] # 0 /\ s[k + 1] = s[k] + Size(fields[k])
                         /\ EntryAt(p, s[k], a, fields[k])
  BY PacketIs
<1>2. /\ i \in 2..(L + 1) /\ i % 2 = 0
      /\ \A j \in DOMAIN p : p[j].major = "array" => i \notin j..(j + 4)
  BY DEF EntryStarts
<1>3. \A k \in 1..(n + 1) : s[k] % 2 = 0
  BY EntriesAreEven
<1> HIDE DEF n, L
<1>4. PICK e \in K : \A l \in K : l <= e
  <2>1. K \in SUBSET Nat /\ 1 \in K /\ \A l \in K : l <= n + 1
    BY <1>1, <1>2
  <2>2. n + 1 \in Nat
    BY <1>1
  <2> HIDE DEF K
  <2> QED
    BY <2>1, <2>2, GreatestNatural
<1>5. e \in 1..(n + 1) /\ s[e] <= i /\ s[e] \in Nat /\ i \in Nat
  BY <1>1, <1>2, <1>4
<1>6. s[e] = i
  <2> SUFFICES ASSUME s[e] # i PROVE FALSE
    OBVIOUS
  <2> DEFINE x == s[e]
             f == fields[e]
  <2>1. x < i /\ e \in 1..n
    <3>1. x < i
      BY <1>5
    <3>2. e # n + 1
      BY <1>1, <1>2, <3>1
    <3> QED
      BY <1>1, <1>5, <3>1, <3>2
  <2>2. e + 1 \in 1..(n + 1) /\ e + 1 \notin K
    <3>1. e + 1 \in 1..(n + 1) /\ ~(e + 1 <= e)
      BY <1>1, <2>1
    <3> HIDE DEF K
    <3> QED
      BY <1>4, <3>1
  <2>3. /\ x # 0 /\ x \in Nat /\ s[e + 1] = x + Size(f) /\ EntryAt(p, x, a, f)
        /\ s[e + 1] \in Nat /\ x % 2 = 0
    BY <1>1, <1>3, <1>5, <2>1, <2>2
  <2>4. i < x + Size(f)
    BY <1>5, <2>2, <2>3
  <2> HIDE DEF x, f
  <2>5. i # x + 1
    BY <1>2, <2>3
  <2>6. CASE f = "bands"
    <3> DEFINE j == x + 1
    <3>1. p[j] = ValueItem(a, f) /\ x + Size(f) <= L + 1 /\ Size(f) = 6
      BY <2>3, <2>6 DEF EntryAt, L, Size
    <3>2. p[j] = ArrayHeader(4)
      BY <2>6, <3>1 DEF ValueItem
    <3>3. ArrayHeader(4).major = "array"
      <4> DEFINE four == 4
      <4>1. four \in Nat /\ EmptyText \in {EmptyText}
        OBVIOUS
      <4> HIDE DEF four
      <4>2. ArrayHeader(four).major = "array"
        BY <4>1, ArrayIsWhole
      <4> QED
        BY <4>2 DEF four
    <3>4. j \in DOMAIN p /\ i \in j..(j + 4)
      BY <1>1, <1>5, <2>1, <2>3, <2>4, <3>1 DEF x
    <3> HIDE DEF j
    <3> QED
      BY <1>2, <3>2, <3>3, <3>4
  <2>7. CASE f # "bands"
    <3>1. Size(f) = 2
      BY <2>7 DEF Size
    <3> QED
      BY <1>5, <2>1, <2>3, <2>4, <2>5, <3>1 DEF x
  <2> QED
    BY <2>6, <2>7
<1> QED
  BY <1>5, <1>6 DEF n

\* A reader skips all of a value.
SkipsValue(who, value) == who = "core" \/ ~HasLong(value)

\* The way of a reader through a packet with an entry more before the entry e: to
\* the end, or to the entry that is more.
LEMMA NewerIsRead ==
    ASSUME NEW who \in Readers, NEW a, IsAlert(a), NEW p, NEW fields, NEW s,
           IsPacket(p, a, fields, s),
           NEW i \in EntryStarts(p), NEW V, NEW value \in Seq(V),
           skipItem(value, 1) = Len(value) + 1
    PROVE  /\ HasWhole(WithEntry(p, i, value), 1, "map")
           /\ Readable(WithEntry(p, i, value), 1, "map")
           /\ SkipsValue(who, value) =>
                \E at, names :
                  /\ Path(who, WithEntry(p, i, value), a, at, names,
                          Len(fields) + 1, Len(fields) + 1)
                  /\ Seen(names, Len(fields) + 1) = Seen(fields, Len(fields))
           /\ ~SkipsValue(who, value) => AtLast(who, WithEntry(p, i, value)).status # "OK"
<1> DEFINE n == Len(fields)
           N == n + 1
           L == Len(p)
           m == Len(value)
           P == WithEntry(p, i, value)
<1>1. /\ n \in Nat /\ n >= 1 /\ n <= 16 /\ L \in Nat /\ p[1].arg = n
      /\ fields \in [1..n -> Fields] /\ s \in [1..(n + 1) -> Nat] /\ s[1] = 2 /\ s[n + 1] = L + 1
      /\ \A k \in 1..n : /\ s[k] # 0 /\ s[k + 1] = s[k] + Size(fields[k])
                         /\ EntryAt(p, s[k], a, fields[k]) /\ Present(a, fields[k])
  BY PacketIs
<1>2. \A k, l \in 1..(n + 1) : k <= l => s[k] <= s[l]
  BY EntriesFollow
<1>3. m \in Nat /\ skipItem(value, 1) = m + 1
  OBVIOUS
<1>4. PICK e \in 1..N : s[e] = i
  BY StartsAre
<1> HIDE DEF n
<1>5. i \in 2..(L + 1)
  <2>1. s[1] <= s[e] /\ s[e] <= s[n + 1]
    BY <1>1, <1>2, <1>4
  <2> QED
    BY <1>1, <1>3, <1>4, <2>1
<1>6. /\ DOMAIN P = 1..(L + 1 + m) /\ Len(P) = L + 1 + m
      /\ P[1] = MapHeader(n + 1)
      /\ \A k \in 2..(i - 1) : P[k] = p[k]
      /\ P[i] = Uint(17)
      /\ \A k \in 1..m : P[i + k] = value[k]
      /\ \A k \in i..L : P[k + 1 + m] = p[k]
  <2>1. p \in Seq(Parts(Texts(a)))
    BY DEF IsPacket
  <2> QED
    BY <1>1, <1>5, <2>1, WithEntryIs
<1> HIDE DEF P, L, m
<1> DEFINE at == [k \in 1..(N + 1) |-> IF k <= e THEN s[k] ELSE s[k - 1] + 1 + m]
           names == [k \in 1..N |-> IF k < e THEN fields[k]
                                    ELSE IF k = e THEN "unknown" ELSE fields[k - 1]]
<1>7. /\ n \in Nat /\ N \in Nat /\ e \in Nat /\ 1 <= e /\ e <= N /\ N = n + 1
      /\ i \in Nat /\ 2 <= i /\ i <= L + 1
  BY <1>1, <1>5
<1> HIDE DEF N
<1>8. at \in [1..(N + 1) -> Nat] /\ at[1] = 2
  <2>1. ASSUME NEW k \in 1..(N + 1) PROVE (IF k <= e THEN s[k] ELSE s[k - 1] + 1 + m) \in Nat
    <3>1. CASE k <= e
      BY <1>1, <1>7, <3>1
    <3>2. CASE ~(k <= e)
      <4>1. k - 1 \in 1..(n + 1)
        BY <1>7, <3>2
      <4>2. s[k - 1] \in Nat
        BY <1>1, <4>1
      <4> QED
        BY <1>3, <3>2, <4>2
    <3> QED
      BY <3>1, <3>2
  <2>2. 1 \in 1..(N + 1)
    BY <1>7
  <2> QED
    BY <1>1, <1>7, <2>1, <2>2
<1>9. names \in [1..N -> Entries]
  <2>1. ASSUME NEW k \in 1..N
        PROVE  (IF k < e THEN fields[k] ELSE IF k = e THEN "unknown" ELSE fields[k - 1]) \in Entries
    <3>1. CASE k < e
      BY <1>1, <1>7, <3>1 DEF Entries
    <3>2. CASE k = e
      BY <3>2 DEF Entries
    <3>3. CASE ~(k < e) /\ k # e
      <4>1. k - 1 \in 1..n
        BY <1>7, <3>3
      <4>2. fields[k - 1] \in Fields
        BY <1>1, <4>1
      <4> QED
        BY <3>3, <4>2 DEF Entries
    <3> QED
      BY <3>1, <3>2, <3>3
  <2> QED
    BY <2>1
<1>18. /\ at[e] = i /\ names[e] = "unknown" /\ i \in DOMAIN P /\ P[i] = Uint(17)
       /\ skipItem(P, i + 1) = i + 1 + m /\ i + 1 + m # 0
       /\ Skips(who, P, i + 1, i + 1 + m) <=> SkipsValue(who, value)
  <2>1. at[e] = i /\ names[e] = "unknown"
    <3>1. e \in 1..(N + 1) /\ e \in 1..N /\ e <= e /\ ~(e < e)
      BY <1>7
    <3> QED
      BY <1>4, <3>1
  <2>2. i \in DOMAIN P /\ P[i] = Uint(17)
    BY <1>1, <1>3, <1>5, <1>6
  <2>3. skipItem(P, i + 1) = i + 1 + m
    <3> DEFINE j == i + 1
    <3>1. j \in Nat \ {0} /\ Len(P) \in Nat /\ j + Len(value) <= Len(P) + 1
      BY <1>1, <1>3, <1>5, <1>6 DEF m
    <3>2. ASSUME NEW x \in 0..(Len(value) - 1) PROVE P[j + x] = value[1 + x]
      <4> DEFINE y == 1 + x
      <4>1. y \in 1..m /\ i + y = j + x
        BY <1>3, <1>5 DEF m
      <4> HIDE DEF y
      <4>2. P[i + y] = value[y]
        BY <1>6, <4>1
      <4> QED
        BY <4>1, <4>2 DEF y
    <3> HIDE DEF j
    <3>3. skipItem(P, j) = j + Len(value)
      BY <3>1, <3>2, ValueIsSkipped
    <3> QED
      BY <3>3 DEF j, m
  <2>4. LongIn(P, i + 1, i + 1 + m) <=> HasLong(value)
    <3> DEFINE u == i + 1
               w == i + 1 + m
    <3>1. DOMAIN value = 1..m
      BY DEF m
    <3>2. ASSUME NEW k \in u..(w - 1), P[k].arg >= WordLimit PROVE HasLong(value)
      <4> DEFINE y == k - i
      <4>1. y \in 1..m /\ i + y = k
        BY <1>3, <1>5
      <4> HIDE DEF y
      <4>2. value[y].arg >= WordLimit
        BY <1>6, <3>2, <4>1
      <4> QED
        BY <3>1, <4>1, <4>2 DEF HasLong
    <3>3. ASSUME NEW y \in 1..m, value[y].arg >= WordLimit PROVE LongIn(P, u, w)
      <4> DEFINE k == i + y
      <4>1. k \in u..(w - 1)
        BY <1>3, <1>5
      <4>2. P[k].arg >= WordLimit
        BY <1>6, <3>3
      <4> HIDE DEF k, u, w
      <4> QED
        BY <4>1, <4>2 DEF LongIn
    <3> HIDE DEF u, w
    <3>4. LongIn(P, u, w) => HasLong(value)
      BY <3>2 DEF LongIn
    <3>5. HasLong(value) => LongIn(P, u, w)
      BY <3>1, <3>3 DEF HasLong
    <3> QED
      BY <3>4, <3>5 DEF u, w
  <2>5. i + 1 + m # 0
    BY <1>3, <1>5
  <2> HIDE DEF at, names
  <2> QED
    BY <2>1, <2>2, <2>3, <2>4, <2>5 DEF Skips, SkipsValue
<1>10. ASSUME NEW k \in 1..N, k = e => SkipsValue(who, value)
       PROVE  Good(who, P, at[k], at[k + 1], a, names[k])
  <2>0. k \in 1..(N + 1) /\ k + 1 \in 1..(N + 1)
    BY <1>7
  <2>1. CASE k < e
    <3> DEFINE j == s[k]
               f == fields[k]
    <3>1. k \in 1..n /\ k + 1 \in 1..(n + 1) /\ k + 1 <= e /\ k <= e /\ e \in 1..(n + 1)
      BY <1>7, <2>1
    <3>2. at[k] = j /\ at[k + 1] = s[k + 1] /\ names[k] = f
      BY <2>0, <2>1, <3>1
    <3>3. /\ j \in Nat /\ f \in Fields /\ s[k + 1] = j + Size(f) /\ EntryAt(p, j, a, f)
          /\ Present(a, f) /\ 2 <= j /\ j + Size(f) <= i
      <4>1. s[1] <= s[k] /\ s[k + 1] <= s[e]
        BY <1>1, <1>2, <3>1
      <4>2. j \in Nat /\ f \in Fields /\ EntryAt(p, j, a, f) /\ Present(a, f)
        BY <1>1, <3>1
      <4>3. s[k + 1] = s[k] + Size(f)
        BY <1>1, <3>1
      <4> QED
        BY <1>1, <1>4, <4>1, <4>2, <4>3
    <3> HIDE DEF j, f
    <3>4. ASSUME NEW x \in 0..(Size(f) - 1) PROVE j + x \in DOMAIN P /\ P[j + x] = p[j + x]
      <4>1. j + x \in 2..(i - 1) /\ j + x \in 1..(L + 1 + m)
        <5>1. Size(f) \in Nat /\ L \in Nat /\ m \in Nat
          BY <1>1, <1>3, SizeIs
        <5> QED
          BY <1>7, <3>3, <5>1
      <4> QED
        BY <1>6, <4>1
    <3>5. EntryIn(P, j, a, f) /\ f # "unknown"
      BY <3>3, <3>4, EntryMoved, UnknownKey
    <3> HIDE DEF at, names
    <3> QED
      BY <3>2, <3>3, <3>5 DEF Good
  <2>2. CASE k = e
    <3>1. at[k + 1] = i + 1 + m
      <4>1. ~(k + 1 <= e) /\ k + 1 - 1 = e
        BY <1>7, <2>2
      <4> QED
        BY <1>4, <2>0, <2>2, <4>1
    <3> HIDE DEF at, names
    <3>2. Skips(who, P, i + 1, i + 1 + m)
      BY <1>10, <1>18, <2>2
    <3> QED
      BY <1>18, <2>2, <3>1, <3>2 DEF Good
  <2>3. CASE k > e
    <3> DEFINE l == k - 1
               h == s[l]
               j == h + 1 + m
               f == fields[l]
    <3>1. l \in 1..n /\ l + 1 = k /\ e <= l /\ l \in 1..(n + 1) /\ k \in 1..(n + 1) /\ e \in 1..(n + 1)
      BY <1>7, <2>3
    <3>2. at[k] = j /\ at[k + 1] = s[k] + 1 + m /\ names[k] = f
      <4>1. ~(k <= e) /\ ~(k + 1 <= e) /\ ~(k < e) /\ k # e /\ k + 1 - 1 = k
        BY <1>7, <2>3
      <4> QED
        BY <2>0, <4>1
    <3>3. /\ h \in Nat /\ f \in Fields /\ s[k] = h + Size(f) /\ EntryAt(p, h, a, f)
          /\ Present(a, f) /\ i <= h /\ h + Size(f) <= L + 1
      <4>1. s[e] <= s[l] /\ s[k] <= s[n + 1] /\ n + 1 \in 1..(n + 1)
        BY <1>1, <1>2, <3>1
      <4>2. h \in Nat /\ f \in Fields /\ EntryAt(p, h, a, f) /\ Present(a, f)
        BY <1>1, <3>1
      <4>3. s[l + 1] = s[l] + Size(f)
        BY <1>1, <3>1
      <4> QED
        BY <1>1, <1>4, <3>1, <4>1, <4>2, <4>3
    <3>4. j \in Nat /\ s[k] + 1 + m = j + Size(f)
      BY <1>3, <3>3, SizeIs
    <3>5. j = h + 1 + m
      OBVIOUS
    <3> HIDE DEF h, f, j, l
    <3>6. ASSUME NEW x \in 0..(Size(f) - 1) PROVE j + x \in DOMAIN P /\ P[j + x] = p[h + x]
      <4> DEFINE y == h + x
      <4>1. y \in i..L /\ y + 1 + m = j + x /\ j + x \in 1..(L + 1 + m)
        <5>1. Size(f) \in Nat /\ L \in Nat /\ m \in Nat
          BY <1>1, <1>3, SizeIs
        <5> QED
          BY <1>7, <3>3, <3>5, <5>1
      <4> HIDE DEF y
      <4>2. P[y + 1 + m] = p[y]
        BY <1>6, <4>1
      <4> QED
        BY <1>6, <4>1, <4>2 DEF y
    <3>7. EntryIn(P, j, a, f) /\ f # "unknown"
      BY <3>3, <3>4, <3>6, EntryMoved, UnknownKey
    <3> HIDE DEF at, names
    <3> QED
      BY <3>2, <3>3, <3>4, <3>7 DEF Good
  <2> QED
    BY <1>7, <2>1, <2>2, <2>3
<1>11. P[1].arg = N /\ HasWhole(P, 1, "map") /\ Readable(P, 1, "map")
  <2>1. /\ MapHeader(N) \in Parts({EmptyText}) /\ MapHeader(N).major = "map"
        /\ MapHeader(N).arg = N
    BY <1>7, MapIsWhole
  <2>2. 1 \in DOMAIN P /\ P[1] = MapHeader(N)
    BY <1>1, <1>3, <1>6, <1>7
  <2>3. Whole(P[1]) /\ P[1].major = "map" /\ P[1].arg = N
    BY <2>1, <2>2 DEF Parts
  <2>4. N \in 0..(WordLimit - 1)
    <3>1. N <= 65535
      BY <1>1, <1>7
    <3> QED
      BY <1>7, <3>1, SmallFits
  <2> QED
    BY <2>2, <2>3, <2>4, WholeIsRead, WholeIsReadable
<1>12. ASSUME SkipsValue(who, value) PROVE Path(who, P, a, at, names, N, N)
  <2>1. N \in 0..N
    BY <1>7
  <2> HIDE DEF at, names
  <2> QED
    BY <1>7, <1>8, <1>9, <1>10, <1>11, <1>12, <2>1 DEF Path
<1>19. ASSUME ~SkipsValue(who, value) PROVE AtLast(who, P).status # "OK"
  <2> DEFINE b == e - 1
             r == Standing(who, a, at[b + 1], Seen(names, b))
  <2> HIDE DEF at, names
  <2>1. b \in 0..N /\ b < N /\ b + 1 = e /\ \A k \in 1..b : k \in 1..N /\ k # e
    BY <1>7
  <2> HIDE DEF b
  <2>2. Path(who, P, a, at, names, N, b)
    BY <1>7, <1>8, <1>9, <1>10, <1>11, <2>1 DEF Path
  <2>3. r.at = i
    BY <1>18, <2>1 DEF Standing
  <2> HIDE DEF r
  <2>4. EntryOf(who, P, r) \in Failed(r)
    BY <1>18, <1>19, <2>3, UnknownIsSkipped
  <2> QED
    BY <2>1, <2>2, <2>4, PathIsRead DEF r
<1>13. Seen(names, N) = Seen(fields, n)
  <2>1. ASSUME NEW k \in 1..N, names[k] \in Fields PROVE \E l \in 1..n : names[k] = fields[l]
    <3>1. CASE k < e
      <4>1. k \in 1..n /\ names[k] = fields[k]
        BY <1>7, <3>1
      <4> QED
        BY <4>1
    <3>2. CASE k = e
      <4>1. names[k] = "unknown"
        BY <1>7, <3>2
      <4> HIDE DEF names
      <4> QED
        BY <2>1, <4>1, UnknownKey
    <3>3. CASE k > e
      <4>1. k - 1 \in 1..n /\ names[k] = fields[k - 1]
        BY <1>7, <3>3
      <4> HIDE DEF names
      <4> QED
        BY <4>1
    <3> QED
      BY <1>7, <3>1, <3>2, <3>3
  <2>2. ASSUME NEW l \in 1..n PROVE \E k \in 1..N : names[k] = fields[l]
    <3>1. CASE l < e
      <4>1. l \in 1..N /\ names[l] = fields[l]
        BY <1>7, <3>1
      <4> HIDE DEF names
      <4> QED
        BY <4>1
    <3>2. CASE ~(l < e)
      <4> DEFINE k == l + 1
      <4>1. k \in 1..N /\ ~(k < e) /\ k # e /\ k - 1 = l
        BY <1>7, <3>2
      <4> HIDE DEF k
      <4>2. names[k] = fields[l]
        BY <4>1
      <4> HIDE DEF names
      <4> QED
        BY <4>1, <4>2
    <3> QED
      BY <3>1, <3>2
  <2> HIDE DEF names
  <2> QED
    BY <2>1, <2>2 DEF Seen
<1> HIDE DEF at, names
<1> QED
  BY <1>11, <1>12, <1>13, <1>19 DEF P, N, n

-----------------------------------------------------------------------------
(* What the decoders make of an alert that was read to the end.             *)

\* What is so of every alert that is sent.
CanBeShown(a) ==
    /\ WholeAlert(a)
    /\ a.source # Absent
    /\ a.detectorLatencyMs # Absent => a.detectorLatencyMs < WordLimit \div 2

AllPresent(a) == {f \in Fields : Present(a, f)}

LEMMA AllAreThere ==
    ASSUME NEW a
    PROVE  /\ "protocolVersion" \in AllPresent(a) /\ Required \subseteq AllPresent(a)
           /\ \A f \in AlertFields : f \notin AllPresent(a) => a[f] = Absent /\ f \in OptionalFields
BY FieldsAre DEF AllPresent, Present

\* What a reader that stands at the end has found of a field.
LEMMA FoundOf ==
    ASSUME NEW who, NEW a, NEW i, NEW f \in Fields
    PROVE  Standing(who, a, i, AllPresent(a)).found[f] =
              IF f \in AllPresent(a) THEN ValueOf(who, a, f) ELSE StartOf(who)[f]
BY DEF Standing

\* A reader that stands at the end has missed nothing.
LEMMA VerdictIs ==
    ASSUME NEW who, NEW a, NEW i
    PROVE  Verdict(Standing(who, a, i, AllPresent(a))) = "OK"
<1> DEFINE r == Standing(who, a, i, AllPresent(a))
<1>1. r.seen = AllPresent(a) /\ r.status = "OK"
  BY DEF Standing
<1> HIDE DEF r
<1>2. "protocolVersion" \in r.seen /\ Required \subseteq r.seen
  BY <1>1, AllAreThere
<1> QED
  BY <1>1, <1>2 DEF Verdict, r

\* The decoder of the bridge gives the alert back.
LEMMA CoreGivesBack ==
    ASSUME NEW a, WholeAlert(a), NEW i
    PROVE  Restrict(Standing("core", a, i, AllPresent(a)).found, AlertFields)
              = [f \in AlertFields |-> a[f]]
<1> DEFINE who == "core"
           found == Standing(who, a, i, AllPresent(a)).found
<1>1. ASSUME NEW f \in AlertFields PROVE found[f] = a[f]
  <2>1. f \in Fields /\ f # "protocolVersion"
    BY FieldsAre
  <2>2. found[f] = IF f \in AllPresent(a) THEN ValueOf(who, a, f) ELSE StartOf(who)[f]
    <3> HIDE DEF who
    <3> QED
      BY <2>1, FoundOf
  <2>3. ValueOf(who, a, f) = a[f]
    BY <2>1 DEF ValueOf
  <2>4. ASSUME f \notin AllPresent(a) PROVE StartOf(who)[f] = a[f]
    <3>1. a[f] = Absent /\ f \in OptionalFields
      BY <2>4, AllAreThere
    <3>2. EmptyAlert[f] = Absent
      BY <3>1 DEF OptionalFields, EmptyAlert
    <3>3. Blank[f] = EmptyAlert[f]
      BY <2>1 DEF Blank, AlertFields, Fields
    <3> QED
      BY <3>1, <3>2, <3>3 DEF StartOf
  <2> HIDE DEF found
  <2> QED
    BY <2>2, <2>3, <2>4
<1> HIDE DEF found
<1>2. Restrict(found, AlertFields) = [f \in AlertFields |-> a[f]]
  BY <1>1 DEF Restrict
<1> QED
  BY <1>2 DEF found

-----------------------------------------------------------------------------
(* What the watch shows of it.                                              *)

\* A table has a name wherever the enum has one.
Shows(table, enum, name, shown) == \A k \in 1..Len(enum) : enum[k] = name => table[k] = shown

\* A table of names gives the name at the place the enum has it.
LEMMA NameIs ==
    ASSUME NEW S, NEW enum \in Seq(S), NEW name \in Names(enum), NEW T, NEW table \in Seq(T),
           Len(table) = Len(enum), NEW shown, Shows(table, enum, name, shown)
    PROVE  /\ NameOf(table, WireValue(enum, name)) = shown
           /\ WireValue(enum, name) \in Nat /\ WireValue(enum, name) < Len(enum)
<1> DEFINE n == WireValue(enum, name)
<1>1. n \in Nat /\ n < Len(enum) /\ enum[n + 1] = name
  BY WireValueIs
<1> HIDE DEF n
<1>2. n + 1 \in 1..Len(enum) /\ DOMAIN table = 1..Len(table)
  BY <1>1
<1>3. table[n + 1] = shown /\ n + 1 \in DOMAIN table
  BY <1>1, <1>2 DEF Shows
<1> QED
  BY <1>1, <1>3 DEF NameOf, n

\* A number that stands for a moment comes out as itself or a whole word less.
LEMMA WrappedIs ==
    ASSUME NEW n \in 0..(WordLimit - 1)
    PROVE  (Signed(n) - n) % WordLimit = 0
<1> DEFINE m == WordLimit
<1>1. m \in Nat /\ m > 0
  BY WordAssumption
<1>2. Signed(n) - n = 0 \/ Signed(n) - n = 0 - m
  BY <1>1 DEF Signed
<1> HIDE DEF m
<1>3. 0 % m = 0 /\ (0 - m) % m = 0
  BY <1>1
<1> QED
  BY <1>2, <1>3 DEF m

\* What the watch has found of each field.
WatchFound(a, i) == Standing("watch", a, i, AllPresent(a)).found

FoundAs(a, s, f) ==
    /\ a[f] = Absent /\ f \in OptionalFields => s[f] = Absent
    /\ Present(a, f) /\ f \in DOMAIN EnumOf => s[f] = WireValue(EnumOf[f], a[f])
    /\ Present(a, f) /\ f \in NumberFields \ DOMAIN EnumOf => s[f] = Signed(a[f])
    /\ Present(a, f) /\ f = "bands" => s[f] = [k \in 1..4 |-> WireValue(BandStrength, a.bands[k])]
    /\ f \in {"confidence", "droneClass", "source"} => s[f] = a[f]

LEMMA WatchFinds ==
    ASSUME NEW a, CanBeShown(a), NEW i, NEW f \in AlertFields
    PROVE  FoundAs(a, WatchFound(a, i), f)
<1> DEFINE who == "watch"
           s == WatchFound(a, i)
<1>1. f \in Fields /\ f # "protocolVersion" /\ who # "core" /\ IsAlert(a)
  BY FieldsAre DEF CanBeShown, WholeAlert
<1>2. s[f] = IF f \in AllPresent(a) THEN ValueOf(who, a, f) ELSE StartOf(who)[f]
  <2> DEFINE w == who
  <2>1. s = Standing(w, a, i, AllPresent(a)).found
    BY DEF WatchFound
  <2> HIDE DEF w, s
  <2>2. s[f] = IF f \in AllPresent(a) THEN ValueOf(w, a, f) ELSE StartOf(w)[f]
    BY <1>1, <2>1, FoundOf
  <2> QED
    BY <2>2 DEF w
<1>3. StartOf(who)[f] = Absent
  BY <1>1 DEF StartOf, Nothing, Fields
<1> HIDE DEF s, who
<1>4. f \in AllPresent(a) <=> Present(a, f)
  BY <1>1 DEF AllPresent
<1>5. ASSUME a[f] = Absent, f \in OptionalFields PROVE s[f] = Absent
  BY <1>2, <1>3, <1>4, <1>5 DEF Present
<1>6. ASSUME Present(a, f), f \in NumberFields PROVE s[f] = Signed(NumberOf(a, f))
  <2>1. f # "bands"
    BY <1>6, FieldsAre
  <2> QED
    BY <1>1, <1>2, <1>4, <1>6, <2>1 DEF ValueOf
<1>7. ASSUME Present(a, f), f \in DOMAIN EnumOf PROVE s[f] = WireValue(EnumOf[f], a[f])
  <2>1. f \in NumberFields
    BY <1>7, FieldsAre
  <2> DEFINE n == NumberOf(a, f)
  <2>2. n \in 0..Greatest[f] /\ Greatest[f] \in 1..5
    <3>1. n \in 0..Greatest[f]
      BY <1>1, <1>7, <2>1, NumberIsRead
    <3>2. Greatest[f] \in 1..5
      BY <1>7, EnumIs
    <3> QED
      BY <3>1, <3>2
  <2>3. n = WireValue(EnumOf[f], a[f])
    BY <1>7 DEF NumberOf
  <2> HIDE DEF n
  <2>4. n \in 0..(WordLimit - 1) /\ n <= 65535
    <3>1. WordLimit \in Nat /\ WordLimit > 65535
      BY WordAssumption
    <3> QED
      BY <2>2, <3>1
  <2>5. Signed(n) = n
    BY <2>4, SignedIs
  <2>6. s[f] = Signed(n)
    BY <1>6, <1>7, <2>1 DEF n
  <2> QED
    BY <2>3, <2>5, <2>6
<1>8. ASSUME Present(a, f), f \in NumberFields \ DOMAIN EnumOf PROVE s[f] = Signed(a[f])
  BY <1>6, <1>8 DEF NumberOf
<1>9. ASSUME Present(a, f), f = "bands"
      PROVE  s[f] = [k \in 1..4 |-> WireValue(BandStrength, a.bands[k])]
  BY <1>1, <1>2, <1>4, <1>9 DEF ValueOf
<1>10. ASSUME f \in {"confidence", "droneClass", "source"} PROVE s[f] = a[f]
  <2>1. f \notin NumberFields /\ f # "bands"
    BY <1>10, FieldsAre
  <2>2. CASE Present(a, f)
    BY <1>1, <1>2, <1>4, <2>1, <2>2 DEF ValueOf
  <2>3. CASE ~Present(a, f)
    BY <1>2, <1>3, <1>4, <2>3 DEF Present
  <2> QED
    BY <2>2, <2>3
<1> QED
  BY <1>5, <1>7, <1>8, <1>9, <1>10 DEF FoundAs, s

\* The tables of the watch say what those of the bridge do.
LEMMA TablesShow ==
    ASSUME NEW a, IsAlert(a)
    PROVE  /\ NameOf(threatName, WireValue(Threat, a.threat)) = a.threat
           /\ NameOf(severityName, WireValue(Severity, a.severity)) = a.severity
           /\ NameOf(bandName, WireValue(Band, a.band)) = a.band
           /\ NameOf(distanceName, WireValue(Distance, a.distance)) = a.distance
           /\ NameOf(alertKindName, WireValue(AlertKind, a.alertKind)) = Upper[a.alertKind]
           /\ NameOf(sensorTypeName, WireValue(SensorType, a.sensorType)) = Upper[a.sensorType]
<1>1. /\ a.threat \in Names(Threat) /\ a.severity \in Names(Severity) /\ a.band \in Names(Band)
      /\ a.distance \in Names(Distance) /\ a.alertKind \in Names(AlertKind)
      /\ a.sensorType \in Names(SensorType)
  BY DEF IsAlert
<1>2. /\ Threat \in Seq(Names(Threat)) /\ Severity \in Seq(Names(Severity))
      /\ Band \in Seq(Names(Band)) /\ Distance \in Seq(Names(Distance))
      /\ AlertKind \in Seq(Names(AlertKind)) /\ SensorType \in Seq(Names(SensorType))
  <2>1. /\ {"threat", "severity", "band", "distance", "alertKind", "sensorType"} \subseteq DOMAIN EnumOf
        /\ EnumOf["threat"] = Threat /\ EnumOf["severity"] = Severity /\ EnumOf["band"] = Band
        /\ EnumOf["distance"] = Distance /\ EnumOf["alertKind"] = AlertKind
        /\ EnumOf["sensorType"] = SensorType
    BY DEF EnumOf
  <2>2. \A f \in DOMAIN EnumOf : EnumOf[f] \in Seq(Names(EnumOf[f]))
    BY EnumIs
  <2>3. /\ EnumOf["threat"] \in Seq(Names(EnumOf["threat"]))
        /\ EnumOf["severity"] \in Seq(Names(EnumOf["severity"]))
        /\ EnumOf["band"] \in Seq(Names(EnumOf["band"]))
        /\ EnumOf["distance"] \in Seq(Names(EnumOf["distance"]))
        /\ EnumOf["alertKind"] \in Seq(Names(EnumOf["alertKind"]))
        /\ EnumOf["sensorType"] \in Seq(Names(EnumOf["sensorType"]))
    BY <2>1, <2>2
  <2> QED
    BY <2>1, <2>3
<1>3. threatName = Threat /\ severityName = Severity /\ bandName = Band /\ distanceName = Distance
  BY DEF threatName, Threat, severityName, Severity, bandName, Band, distanceName, Distance
<1>4. NameOf(threatName, WireValue(Threat, a.threat)) = a.threat
  <2> DEFINE v == a.threat
             e == Threat
             S == Names(e)
  <2>1. e \in Seq(S) /\ v \in Names(e)
    BY <1>1, <1>2
  <2> HIDE DEF v, e, S
  <2>2. Shows(e, e, v, v) /\ Len(e) = Len(e)
    BY DEF Shows
  <2>3. NameOf(e, WireValue(e, v)) = v
    BY <2>1, <2>2, NameIs
  <2> QED
    BY <1>3, <2>3 DEF v, e
<1>5. NameOf(severityName, WireValue(Severity, a.severity)) = a.severity
  <2> DEFINE v == a.severity
             e == Severity
             S == Names(e)
  <2>1. e \in Seq(S) /\ v \in Names(e)
    BY <1>1, <1>2
  <2> HIDE DEF v, e, S
  <2>2. Shows(e, e, v, v) /\ Len(e) = Len(e)
    BY DEF Shows
  <2>3. NameOf(e, WireValue(e, v)) = v
    BY <2>1, <2>2, NameIs
  <2> QED
    BY <1>3, <2>3 DEF v, e
<1>6. NameOf(bandName, WireValue(Band, a.band)) = a.band
  <2> DEFINE v == a.band
             e == Band
             S == Names(e)
  <2>1. e \in Seq(S) /\ v \in Names(e)
    BY <1>1, <1>2
  <2> HIDE DEF v, e, S
  <2>2. Shows(e, e, v, v) /\ Len(e) = Len(e)
    BY DEF Shows
  <2>3. NameOf(e, WireValue(e, v)) = v
    BY <2>1, <2>2, NameIs
  <2> QED
    BY <1>3, <2>3 DEF v, e
<1>7. NameOf(distanceName, WireValue(Distance, a.distance)) = a.distance
  <2> DEFINE v == a.distance
             e == Distance
             S == Names(e)
  <2>1. e \in Seq(S) /\ v \in Names(e)
    BY <1>1, <1>2
  <2> HIDE DEF v, e, S
  <2>2. Shows(e, e, v, v) /\ Len(e) = Len(e)
    BY DEF Shows
  <2>3. NameOf(e, WireValue(e, v)) = v
    BY <2>1, <2>2, NameIs
  <2> QED
    BY <1>3, <2>3 DEF v, e
<1>8. NameOf(alertKindName, WireValue(AlertKind, a.alertKind)) = Upper[a.alertKind]
  <2> DEFINE v == a.alertKind
             shown == Upper[v]
             T == {"CLASSIFIED", "CONTACT"}
  <2>1. alertKindName \in Seq(T) /\ Len(alertKindName) = Len(AlertKind)
    BY DEF alertKindName, AlertKind
  <2>2. Shows(alertKindName, AlertKind, v, shown)
    <3>1. \A k \in 1..2 : alertKindName[k] = Upper[AlertKind[k]]
      BY DEF alertKindName, AlertKind, Upper
    <3>2. Len(AlertKind) = 2
      BY DEF AlertKind
    <3> QED
      BY <3>1, <3>2 DEF Shows
  <2>3. v \in Names(AlertKind)
    BY <1>1
  <2> HIDE DEF v, shown, T
  <2>4. NameOf(alertKindName, WireValue(AlertKind, v)) = shown
    <3> DEFINE e == AlertKind
               table == alertKindName
               S == Names(e)
    <3>1. e \in Seq(S) /\ v \in Names(e) /\ table \in Seq(T) /\ Len(table) = Len(e) /\ Shows(table, e, v, shown)
      BY <1>2, <2>1, <2>2, <2>3
    <3> HIDE DEF e, table, S
    <3>2. NameOf(table, WireValue(e, v)) = shown
      BY <3>1, NameIs
    <3> QED
      BY <3>2 DEF e, table
  <2> QED
    BY <2>4 DEF v, shown
<1>9. NameOf(sensorTypeName, WireValue(SensorType, a.sensorType)) = Upper[a.sensorType]
  <2> DEFINE v == a.sensorType
             shown == Upper[v]
             T == {"RF", "ACOUSTIC", "RADAR", "CONTACT"}
  <2>1. sensorTypeName \in Seq(T) /\ Len(sensorTypeName) = Len(SensorType)
    BY DEF sensorTypeName, SensorType
  <2>2. Shows(sensorTypeName, SensorType, v, shown)
    <3>1. \A k \in 1..4 : sensorTypeName[k] = Upper[SensorType[k]]
      BY DEF sensorTypeName, SensorType, Upper
    <3>2. Len(SensorType) = 4
      BY DEF SensorType
    <3> QED
      BY <3>1, <3>2 DEF Shows
  <2>3. v \in Names(SensorType)
    BY <1>1
  <2> HIDE DEF v, shown, T
  <2>4. NameOf(sensorTypeName, WireValue(SensorType, v)) = shown
    <3> DEFINE e == SensorType
               table == sensorTypeName
               S == Names(e)
    <3>1. e \in Seq(S) /\ v \in Names(e) /\ table \in Seq(T) /\ Len(table) = Len(e) /\ Shows(table, e, v, shown)
      BY <1>2, <2>1, <2>2, <2>3
    <3> HIDE DEF e, table, S
    <3>2. NameOf(table, WireValue(e, v)) = shown
      BY <3>1, NameIs
    <3> QED
      BY <3>2 DEF e, table
  <2> QED
    BY <2>4 DEF v, shown
<1> QED
  BY <1>4, <1>5, <1>6, <1>7, <1>8, <1>9

\* The levels of the bands come out under their names.
LEMMA LevelsShow ==
    ASSUME NEW a, IsAlert(a), a.bands # Absent,
           NEW levels, levels = [k \in 1..4 |-> WireValue(BandStrength, a.bands[k])]
    PROVE  bandsToModel(levels) = a.bands /\ levels # Absent
<1> DEFINE e == BandStrength
           S == Names(e)
           b == a.bands
<1>1. e \in Seq(S) /\ b \in [1..4 -> S] /\ bandStrengthName = e
  <2>1. b \in [1..4 -> S]
    BY DEF IsAlert
  <2>2. bandStrengthName = e /\ e \in Seq(S)
    BY DEF bandStrengthName, BandStrength, Names
  <2> QED
    BY <2>1, <2>2
<1>0. levels = [k \in 1..4 |-> WireValue(e, b[k])]
  OBVIOUS
<1> HIDE DEF e, S, b
<1>2. ASSUME NEW k \in 1..4
      PROVE NameOf(bandStrengthName, levels[k]) = b[k] /\ WireValue(e, b[k]) \in Nat
  <2> DEFINE v == b[k]
  <2>1. v \in Names(e) /\ e \in Seq(S) /\ levels[k] = WireValue(e, v)
    BY <1>0, <1>1 DEF S
  <2> HIDE DEF v
  <2>2. Shows(e, e, v, v) /\ Len(e) = Len(e)
    BY DEF Shows
  <2>3. NameOf(e, WireValue(e, v)) = v /\ WireValue(e, v) \in Nat
    BY <2>1, <2>2, NameIs
  <2> QED
    BY <1>1, <2>1, <2>3 DEF v
<1>3. levels \in [1..4 -> Int]
  BY <1>0, <1>2
<1>4. levels # Absent
  BY <1>3, NullAssumption
<1>5. bandsToModel(levels) = [k \in 1..4 |-> NameOf(bandStrengthName, levels[k])]
  BY <1>4 DEF bandsToModel
<1>6. [k \in 1..4 |-> NameOf(bandStrengthName, levels[k])] = [k \in 1..4 |-> b[k]]
  BY <1>2
<1>7. [k \in 1..4 |-> b[k]] = b
  BY <1>1
<1> QED
  BY <1>4, <1>5, <1>6, <1>7 DEF b

\* A direction that is there comes out under its name.
LEMMA DirectionShows ==
    ASSUME NEW a, IsAlert(a), a.direction # Absent
    PROVE  /\ NameOf(directionName, WireValue(Direction, a.direction)) = a.direction
           /\ WireValue(Direction, a.direction) # Absent
<1> DEFINE e == Direction
           S == Names(e)
           v == a.direction
<1>1. e \in Seq(S) /\ v \in Names(e) /\ directionName = e
  <2>1. v \in S
    BY DEF IsAlert
  <2>2. directionName = e /\ e \in Seq(S)
    BY DEF directionName, Direction, Names
  <2> QED
    BY <2>1, <2>2
<1> HIDE DEF e, S, v
<1>2. Shows(e, e, v, v) /\ Len(e) = Len(e)
  BY DEF Shows
<1>3. NameOf(e, WireValue(e, v)) = v /\ WireValue(e, v) \in Nat
  BY <1>1, <1>2, NameIs
<1> QED
  BY <1>1, <1>3, NullAssumption DEF e, v

\* What the watch makes of an alert it has read to the end.
LEMMA WatchShows ==
    ASSUME NEW a, CanBeShown(a), NEW i
    PROVE  OnTheWatch(a, AlertModel(WatchFound(a, i)))
<1> DEFINE s == WatchFound(a, i)
           M == AlertModel(s)
<1>0. ASSUME NEW f \in AlertFields PROVE FoundAs(a, s, f)
  BY WatchFinds
<1>1. IsAlert(a) /\ a.source # Absent
  BY DEF CanBeShown, WholeAlert
<1>2. /\ s.threat = WireValue(Threat, a.threat) /\ s.severity = WireValue(Severity, a.severity)
      /\ s.band = WireValue(Band, a.band) /\ s.distance = WireValue(Distance, a.distance)
      /\ s.alertKind = WireValue(AlertKind, a.alertKind)
      /\ s.sensorType = WireValue(SensorType, a.sensorType)
  <2> DEFINE E == {"threat", "severity", "band", "distance", "alertKind", "sensorType"}
  <2>1. /\ E \subseteq DOMAIN EnumOf /\ E \subseteq AlertFields
        /\ EnumOf["threat"] = Threat /\ EnumOf["severity"] = Severity /\ EnumOf["band"] = Band
        /\ EnumOf["distance"] = Distance /\ EnumOf["alertKind"] = AlertKind
        /\ EnumOf["sensorType"] = SensorType
    BY DEF EnumOf, AlertFields, EmptyAlert
  <2>2. ASSUME NEW f \in E PROVE s[f] = WireValue(EnumOf[f], a[f])
    <3>1. f \notin OptionalFields
      BY DEF OptionalFields
    <3>2. f \in DOMAIN EnumOf /\ f \in AlertFields /\ Present(a, f)
      BY <2>1, <3>1 DEF Present
    <3> HIDE DEF s, E
    <3> QED
      BY <3>2, <1>0 DEF FoundAs
  <2> HIDE DEF s
  <2> QED
    BY <2>1, <2>2
<1>3. s.confidence = a.confidence /\ s.droneClass = a.droneClass /\ s.source = a.source
  <2>1. ASSUME NEW f \in {"confidence", "droneClass", "source"} PROVE s[f] = a[f]
    <3>1. f \in AlertFields
      BY DEF AlertFields, EmptyAlert
    <3> HIDE DEF s
    <3> QED
      BY <3>1, <1>0 DEF FoundAs
  <2> HIDE DEF s
  <2> QED
    BY <2>1
<1>4. (s.sequence - a.sequence) % WordLimit = 0 /\ (s.timestampMs - a.timestampMs) % WordLimit = 0
  <2>1. ASSUME NEW f \in {"sequence", "timestampMs"} PROVE (s[f] - a[f]) % WordLimit = 0
    <3>1. f \in AlertFields /\ f \notin OptionalFields /\ f \in NumberFields /\ f \notin DOMAIN EnumOf
      BY DEF AlertFields, EmptyAlert, OptionalFields, NumberFields, Greatest, EnumOf
    <3>2. Present(a, f) /\ a[f] \in 0..(WordLimit - 1)
      BY <1>1, <3>1 DEF Present, IsAlert
    <3> DEFINE n == a[f]
    <3> HIDE DEF s
    <3>3. s[f] = Signed(n)
      BY <3>1, <3>2, <1>0 DEF FoundAs
    <3> HIDE DEF n
    <3>4. (Signed(n) - n) % WordLimit = 0
      BY <3>2, WrappedIs DEF n
    <3> QED
      BY <3>3, <3>4 DEF n
  <2> HIDE DEF s
  <2> QED
    BY <2>1
<1>5. s.detectorLatencyMs = a.detectorLatencyMs /\ s.detectorTypeCode = a.detectorTypeCode
  <2>1. ASSUME NEW f \in {"detectorLatencyMs", "detectorTypeCode"} PROVE s[f] = a[f]
    <3>1. f \in AlertFields /\ f \in OptionalFields /\ f \in NumberFields /\ f \notin DOMAIN EnumOf
      BY DEF AlertFields, EmptyAlert, OptionalFields, NumberFields, Greatest, EnumOf
    <3> DEFINE n == a[f]
    <3>2. n # Absent => n \in Nat /\ n < WordLimit \div 2
      <4>1. WordLimit \in Nat /\ WordLimit \div 2 > 65535
        BY WordAssumption
      <4>2. a.detectorLatencyMs # Absent =>
               a.detectorLatencyMs \in Nat /\ a.detectorLatencyMs < WordLimit \div 2
        BY <1>1, <4>1 DEF CanBeShown, IsAlert
      <4>3. a.detectorTypeCode # Absent =>
               a.detectorTypeCode \in Nat /\ a.detectorTypeCode <= 65535
        BY <1>1 DEF IsAlert, TypeCodes
      <4>4. a.detectorTypeCode # Absent => a.detectorTypeCode < WordLimit \div 2
        <5> DEFINE x == a.detectorTypeCode
                   half == WordLimit \div 2
        <5>1. half \in Int
          BY <4>1
        <5> HIDE DEF x, half
        <5>2. x # Absent => x < half
          BY <4>1, <4>3, <5>1 DEF x, half
        <5> QED
          BY <5>2 DEF x, half
      <4> QED
        BY <4>2, <4>3, <4>4
    <3> HIDE DEF s
    <3>3. CASE n = Absent
      BY <3>1, <3>3, <1>0 DEF FoundAs
    <3>4. CASE n # Absent
      <4>1. Present(a, f)
        BY <3>4 DEF Present
      <4>2. s[f] = Signed(n)
        BY <3>1, <4>1, <1>0 DEF FoundAs
      <4> HIDE DEF n
      <4>3. Signed(n) = n
        BY <3>2, <3>4 DEF Signed
      <4> QED
        BY <4>2, <4>3 DEF n
    <3> QED
      BY <3>3, <3>4
  <2> HIDE DEF s
  <2> QED
    BY <2>1
<1>6. /\ bandsToModel(s.bands) = IF a.bands = Absent THEN [k \in 1..4 |-> "UNKNOWN"] ELSE a.bands
      /\ (s.bands # Absent) = (a.bands # Absent)
  <2> DEFINE f == "bands"
  <2>1. f \in AlertFields /\ f \in OptionalFields
    BY DEF AlertFields, EmptyAlert, OptionalFields
  <2>2. CASE a.bands = Absent
    <3>1. s[f] = Absent
      <4> HIDE DEF s
      <4> QED
        BY <2>1, <2>2, <1>0 DEF FoundAs
    <3> HIDE DEF s
    <3> QED
      BY <2>2, <3>1 DEF bandsToModel
  <2>3. CASE a.bands # Absent
    <3> DEFINE levels == [k \in 1..4 |-> WireValue(BandStrength, a.bands[k])]
    <3>1. Present(a, f)
      BY <2>3 DEF Present
    <3>2. s[f] = levels
      <4> HIDE DEF s
      <4> QED
        BY <2>1, <3>1, <1>0 DEF FoundAs
    <3> HIDE DEF levels, s
    <3>3. bandsToModel(levels) = a.bands /\ levels # Absent
      BY <1>1, <2>3, LevelsShow DEF levels
    <3> QED
      BY <2>3, <3>2, <3>3
  <2> QED
    BY <2>2, <2>3
<1>7. (IF s.direction = Absent THEN Absent ELSE NameOf(directionName, s.direction)) = a.direction
  <2> DEFINE f == "direction"
  <2>1. f \in AlertFields /\ f \in OptionalFields /\ f \in DOMAIN EnumOf /\ EnumOf[f] = Direction
    BY DEF AlertFields, EmptyAlert, OptionalFields, EnumOf
  <2>2. CASE a.direction = Absent
    <3>1. s[f] = Absent
      <4> HIDE DEF s
      <4> QED
        BY <2>1, <2>2, <1>0 DEF FoundAs
    <3> HIDE DEF s
    <3> QED
      BY <2>2, <3>1
  <2>3. CASE a.direction # Absent
    <3>1. Present(a, f)
      BY <2>3 DEF Present
    <3>2. s[f] = WireValue(Direction, a.direction)
      <4> HIDE DEF s
      <4> QED
        BY <2>1, <3>1, <1>0 DEF FoundAs
    <3> HIDE DEF s
    <3>3. /\ NameOf(directionName, WireValue(Direction, a.direction)) = a.direction
          /\ WireValue(Direction, a.direction) # Absent
      BY <1>1, <2>3, DirectionShows
    <3> QED
      BY <3>2, <3>3
  <2> QED
    BY <2>2, <2>3
<1> HIDE DEF s
<1>8. /\ M.threatType = a.threat /\ M.riskLevel = a.severity /\ M.band = a.band
      /\ M.distanceLabel = a.distance /\ M.alertKind = Upper[a.alertKind]
      /\ M.sensorType = Upper[a.sensorType]
  <2>1. /\ M.threatType = NameOf(threatName, s.threat) /\ M.riskLevel = NameOf(severityName, s.severity)
        /\ M.band = NameOf(bandName, s.band) /\ M.distanceLabel = NameOf(distanceName, s.distance)
        /\ M.alertKind = NameOf(alertKindName, s.alertKind)
        /\ M.sensorType = NameOf(sensorTypeName, s.sensorType)
    BY DEF AlertModel
  <2> HIDE DEF M
  <2> QED
    BY <1>1, <1>2, <2>1, TablesShow
<1>9. /\ M.confidencePercent = a.confidence /\ M.source = a.source
      /\ M.droneClass = IF a.droneClass = Absent THEN Text(<<"UNKNOWN">>, 7) ELSE a.droneClass
  BY <1>1, <1>3 DEF AlertModel, OrDefault
<1>10. /\ (M.sequence - a.sequence) % WordLimit = 0
       /\ (M.timestampMs - a.timestampMs) % WordLimit = 0
       /\ M.detectorLatencyMs = a.detectorLatencyMs /\ M.detectorTypeCode = a.detectorTypeCode
  <2>1. /\ M.sequence = s.sequence /\ M.timestampMs = s.timestampMs
        /\ M.detectorLatencyMs = s.detectorLatencyMs /\ M.detectorTypeCode = s.detectorTypeCode
    BY DEF AlertModel
  <2> HIDE DEF M
  <2> QED
    BY <1>4, <1>5, <2>1
<1>11. /\ M.activeBands = IF a.bands = Absent THEN [k \in 1..4 |-> "UNKNOWN"] ELSE a.bands
       /\ M.hasBandDetail = (a.bands # Absent)
       /\ M.directionLabel = a.direction
  <2>1. /\ M.activeBands = bandsToModel(s.bands) /\ M.hasBandDetail = (s.bands # Absent)
        /\ M.directionLabel = IF s.direction = Absent THEN Absent ELSE NameOf(directionName, s.direction)
    BY DEF AlertModel
  <2> HIDE DEF M
  <2> QED
    BY <1>6, <1>7, <2>1
<1> HIDE DEF M
<1>12. OnTheWatch(a, M)
  BY <1>8, <1>9, <1>10, <1>11 DEF OnTheWatch
<1> QED
  BY <1>12 DEF M, s

-----------------------------------------------------------------------------
(* What the decoders answer.                                                *)

\* A reader ends where all of the alert is found.
ReadsAll(who, P, a) == \E i : AtLast(who, P) = Standing(who, a, i, AllPresent(a))

\* Neither reader ends well.
ReadsNothing(P) == \A who \in Readers : AtLast(who, P).status # "OK"

\* A decoder takes a packet for this alert; neither takes it for one.
CoreTakes(P, a) ==
    decodeAlert(P, EmptyAlert) = [status |-> "OK", alert |-> [f \in AlertFields |-> a[f]]]

WatchTakes(P, a) == decode(P).status = "OK" /\ OnTheWatch(a, decode(P).model)

Rejected(P) == decodeAlert(P, EmptyAlert).status # "OK" /\ decode(P).status # "OK"

LEMMA CoreAccepts ==
    ASSUME NEW P, NEW a, CanBeShown(a), HasWhole(P, 1, "map"), ReadsAll("core", P, a)
    PROVE  CoreTakes(P, a)
<1> DEFINE who == "core"
           last == AtLast(who, P)
<1>1. PICK i : last = Standing(who, a, i, AllPresent(a))
  BY DEF ReadsAll
<1>2. decodeAlert(P, EmptyAlert) = [status |-> Verdict(last), alert |-> Restrict(last.found, AlertFields)]
  BY CoreDecodes
<1>3. Restrict(Standing(who, a, i, AllPresent(a)).found, AlertFields) = [f \in AlertFields |-> a[f]]
  BY CoreGivesBack DEF CanBeShown
<1> HIDE DEF who, last
<1>4. Verdict(last) = "OK"
  BY <1>1, VerdictIs
<1> QED
  BY <1>1, <1>2, <1>3, <1>4 DEF CoreTakes

LEMMA WatchAccepts ==
    ASSUME NEW P, NEW a, CanBeShown(a), Readable(P, 1, "map"), ReadsAll("watch", P, a)
    PROVE  WatchTakes(P, a)
<1> DEFINE who == "watch"
           last == AtLast(who, P)
<1>1. PICK i : last = Standing(who, a, i, AllPresent(a))
  BY DEF ReadsAll
<1>2. decode(P) = buildResult(last)
  BY WatchDecodes
<1>3. Standing(who, a, i, AllPresent(a)).found = WatchFound(a, i)
  BY DEF WatchFound
<1> HIDE DEF who, last
<1>4. Verdict(last) = "OK"
  BY <1>1, VerdictIs
<1>5. decode(P) = [status |-> "OK", model |-> AlertModel(WatchFound(a, i))]
  BY <1>1, <1>2, <1>3, <1>4 DEF buildResult
<1>6. OnTheWatch(a, AlertModel(WatchFound(a, i)))
  BY WatchShows
<1> QED
  BY <1>5, <1>6 DEF WatchTakes

LEMMA CoreRefuses ==
    ASSUME NEW P, HasWhole(P, 1, "map") => AtLast("core", P).status # "OK"
    PROVE  decodeAlert(P, EmptyAlert).status # "OK"
<1>1. CASE ~HasWhole(P, 1, "map")
  BY <1>1, CoreDecodes
<1>2. CASE HasWhole(P, 1, "map")
  <2> DEFINE last == AtLast("core", P)
  <2>1. last.status # "OK"
    BY <1>2
  <2>2. decodeAlert(P, EmptyAlert) = [status |-> Verdict(last), alert |-> Restrict(last.found, AlertFields)]
    BY <1>2, CoreDecodes
  <2> HIDE DEF last
  <2>3. Verdict(last) # "OK"
    BY <2>1 DEF Verdict
  <2> QED
    BY <2>2, <2>3
<1> QED
  BY <1>1, <1>2

LEMMA WatchRefuses ==
    ASSUME NEW P, Readable(P, 1, "map") => AtLast("watch", P).status # "OK"
    PROVE  decode(P).status # "OK"
<1>1. CASE ~Readable(P, 1, "map")
  BY <1>1, WatchDecodes
<1>2. CASE Readable(P, 1, "map")
  <2> DEFINE last == AtLast("watch", P)
  <2>1. last.status # "OK"
    BY <1>2
  <2>2. decode(P) = buildResult(last)
    BY <1>2, WatchDecodes
  <2> HIDE DEF last
  <2>3. Verdict(last) # "OK"
    BY <2>1 DEF Verdict
  <2> QED
    BY <2>2, <2>3 DEF buildResult
<1> QED
  BY <1>1, <1>2

LEMMA Refused ==
    ASSUME NEW P, HasWhole(P, 1, "map") => ReadsNothing(P)
    PROVE  Rejected(P)
<1>1. Readable(P, 1, "map") => HasWhole(P, 1, "map")
  BY DEF Readable
<1>2. HasWhole(P, 1, "map") => AtLast("core", P).status # "OK" /\ AtLast("watch", P).status # "OK"
  BY DEF ReadsNothing, Readers
<1> QED
  BY <1>1, <1>2, CoreRefuses, WatchRefuses DEF Rejected

\* A path to the end that passes all that is present reads all of it.
LEMMA PathReadsAll ==
    ASSUME NEW who \in Readers, NEW a, IsAlert(a), NEW P, NEW at, NEW names, NEW N,
           Path(who, P, a, at, names, N, N), Seen(names, N) = AllPresent(a)
    PROVE  ReadsAll(who, P, a)
<1>1. N < N => EntryOf(who, P, Standing(who, a, at[N + 1], Seen(names, N)))
                  \in Failed(Standing(who, a, at[N + 1], Seen(names, N)))
  BY DEF Path
<1>2. AtLast(who, P) = Standing(who, a, at[N + 1], Seen(names, N))
  BY <1>1, PathIsRead
<1> QED
  BY <1>2, Zenon DEF ReadsAll

\* What the decoders make of the packet of an alert, as it is: the alert.
LEMMA WholeArrives ==
    ASSUME NEW a, CanBeShown(a), NEW p, p = encodeAlert(a, MAX_PAYLOAD_BYTES)
    PROVE  CoreTakes(p, a) /\ WatchTakes(p, a)
<1>1. IsAlert(a)
  BY DEF CanBeShown, WholeAlert
<1>2. PICK fields, s : IsPacket(p, a, fields, s)
  BY <1>1, PacketIsLaid
<1>3. Seen(fields, Len(fields)) = AllPresent(a)
  BY <1>2, AllIsSeen DEF AllPresent
<1>4. ASSUME NEW who \in Readers PROVE ReadsAll(who, p, a)
  BY <1>1, <1>2, <1>3, WholeIsPath, PathReadsAll
<1>5. HasWhole(p, 1, "map") /\ Readable(p, 1, "map")
  <2>1. /\ 1 \in DOMAIN p /\ p[1] \in Parts(Texts(a)) /\ p[1].major = "map"
        /\ p[1].arg = Len(fields) /\ Len(fields) \in Nat /\ Len(fields) <= 16
    BY <1>2, PacketIs
  <2>2. Whole(p[1])
    BY <2>1 DEF Parts
  <2>3. p[1].arg \in 0..(WordLimit - 1)
    BY <2>1, SmallFits
  <2> QED
    BY <2>1, <2>2, <2>3, WholeIsRead, WholeIsReadable
<1>6. ReadsAll("core", p, a) /\ ReadsAll("watch", p, a)
  BY <1>4 DEF Readers
<1> QED
  BY <1>5, <1>6, CoreAccepts, WatchAccepts

\* With an entry more: the alert, but nothing for the watch where an argument in
\* that entry is of eight bytes.
LEMMA NewerArrives ==
    ASSUME NEW a, CanBeShown(a), NEW p, p = encodeAlert(a, MAX_PAYLOAD_BYTES),
           NEW i \in EntryStarts(p), NEW V, NEW value \in Seq(V),
           skipItem(value, 1) = Len(value) + 1
    PROVE  /\ CoreTakes(WithEntry(p, i, value), a)
           /\ ~HasLong(value) => WatchTakes(WithEntry(p, i, value), a)
           /\ HasLong(value) => decode(WithEntry(p, i, value)).status # "OK"
<1> DEFINE P == WithEntry(p, i, value)
<1>1. IsAlert(a)
  BY DEF CanBeShown, WholeAlert
<1>2. PICK fields, s : IsPacket(p, a, fields, s)
  BY <1>1, PacketIsLaid
<1>3. Seen(fields, Len(fields)) = AllPresent(a)
  BY <1>2, AllIsSeen DEF AllPresent
<1>4. ASSUME NEW who \in Readers
      PROVE  /\ HasWhole(P, 1, "map") /\ Readable(P, 1, "map")
             /\ SkipsValue(who, value) => ReadsAll(who, P, a)
             /\ ~SkipsValue(who, value) => AtLast(who, P).status # "OK"
  <2> DEFINE N == Len(fields) + 1
  <2>1. /\ HasWhole(P, 1, "map") /\ Readable(P, 1, "map")
        /\ SkipsValue(who, value) =>
              \E at, names : /\ Path(who, P, a, at, names, N, N)
                             /\ Seen(names, N) = Seen(fields, Len(fields))
        /\ ~SkipsValue(who, value) => AtLast(who, P).status # "OK"
    BY <1>1, <1>2, NewerIsRead
  <2> HIDE DEF P, N
  <2>2. SkipsValue(who, value) => ReadsAll(who, P, a)
    BY <1>1, <1>3, <2>1, PathReadsAll
  <2> QED
    BY <2>1, <2>2
<1> HIDE DEF P
<1>5. /\ HasWhole(P, 1, "map") /\ Readable(P, 1, "map") /\ ReadsAll("core", P, a)
      /\ ~HasLong(value) => ReadsAll("watch", P, a)
      /\ HasLong(value) => AtLast("watch", P).status # "OK"
  BY <1>4 DEF Readers, SkipsValue
<1>6. /\ CoreTakes(P, a) /\ (~HasLong(value) => WatchTakes(P, a))
      /\ HasLong(value) => decode(P).status # "OK"
  BY <1>5, CoreAccepts, WatchAccepts, WatchRefuses
<1> QED
  BY <1>6 DEF P

\* Cut at any byte: nothing.
LEMMA CutArrives ==
    ASSUME NEW a, IsAlert(a), NEW p, p = encodeAlert(a, MAX_PAYLOAD_BYTES),
           NEW bytes \in Int, bytes < PacketBytes(p)
    PROVE  Rejected(Cut(p, bytes))
<1> DEFINE P == Cut(p, bytes)
<1>1. PICK fields, s : IsPacket(p, a, fields, s)
  BY PacketIsLaid
<1>2. ASSUME HasWhole(P, 1, "map"), NEW who \in Readers PROVE AtLast(who, P).status # "OK"
  BY <1>1, <1>2, CutFails
<1>3. HasWhole(P, 1, "map") => ReadsNothing(P)
  BY <1>2 DEF ReadsNothing
<1> HIDE DEF P
<1>4. Rejected(P)
  BY <1>3, Refused
<1> QED
  BY <1>4 DEF P

\* Of another version: nothing.
LEMMA OtherArrives ==
    ASSUME NEW a, IsAlert(a), NEW p, p = encodeAlert(a, MAX_PAYLOAD_BYTES),
           NEW version \in 0..100, version # PROTOCOL_VERSION
    PROVE  Rejected(WithVersion(p, version))
<1> DEFINE P == WithVersion(p, version)
<1>1. PICK fields, s : IsPacket(p, a, fields, s)
  BY PacketIsLaid
<1>2. ASSUME NEW who \in Readers PROVE AtLast(who, P).status # "OK"
  BY <1>1, OtherFails
<1>3. HasWhole(P, 1, "map") => ReadsNothing(P)
  BY <1>2 DEF ReadsNothing
<1> HIDE DEF P
<1>4. Rejected(P)
  BY <1>3, Refused
<1> QED
  BY <1>4 DEF P

-----------------------------------------------------------------------------
(* Who the alerts say they come from.                                       *)

\* An alert with the name of a source.
Named(a) == DOMAIN a = AlertFields /\ a.source \in SourceNames

LEMMA NameIsSet ==
    ASSUME NEW a, DOMAIN a = AlertFields, NEW name \in SourceNames
    PROVE  Named(alertSetSource(a, name))
<1> DEFINE b == [a EXCEPT !.source = name]
<1>1. setBoundedField(name, SOURCE_CAPACITY) = name
  <2>1. name.length \in {7, 4, 13}
    BY DEF SourceNames, Typed, Mock, Text
  <2> QED
    BY <2>1 DEF setBoundedField, TooLarge, SOURCE_CAPACITY
<1>2. alertSetSource(a, name) = b
  BY <1>1 DEF alertSetSource
<1>3. DOMAIN b = AlertFields /\ b.source = name
  BY DEF AlertFields, EmptyAlert
<1> HIDE DEF b
<1> QED
  BY <1>2, <1>3 DEF Named

\* The fields of a detector are there before the name is.
LEMMA FieldsBeforeName ==
    ASSUME NEW now, NEW sequence, NEW frequency, NEW signal, NEW code, NEW threat, NEW text
    PROVE  DOMAIN alertSetDroneClass(DetectorFields(EmptyAlert, now, sequence, frequency, signal,
                                                    code, threat), text) = AlertFields
<1> DEFINE b == DetectorFields(EmptyAlert, now, sequence, frequency, signal, code, threat)
<1>1. DOMAIN b = AlertFields
  BY DEF DetectorFields, AlertFields
<1> HIDE DEF b
<1> QED
  BY <1>1 DEF alertSetDroneClass, b

LEMMA LineIsNamed ==
    ASSUME NEW line, NEW now, NEW sequence, NEW storage,
           ttskw07ParseLine(line, now, sequence, storage).result = "OK"
    PROVE  Named(ttskw07ParseLine(line, now, sequence, storage).alert)
<1> DEFINE name == Text(<<"TTSKW07">>, 7)
           OfFields(a) == \E frequency, signal, code, threat, text :
              a = alertSetDroneClass(DetectorFields(EmptyAlert, now, sequence, frequency, signal,
                                                    code, threat), text)
           r == ttskw07ParseLine(line, now, sequence, storage)
<1>1. \E a : OfFields(a) /\ r = Parsed("OK", alertSetSource(a, name))
  <2> DEFINE missing == Len(line) + 1
             afterF == findLabel(line, 1, "F:")
             afterR == findLabel(line, afterF, "R:")
             afterT == IF afterR < missing THEN findLabel(line, afterR, "T:") ELSE missing
             frequency == readUnsignedAt(line, afterF)
             signal == readUnsignedAt(line, afterR)
             typeCode == readUnsignedAt(line, afterT)
             description == copyTrimmed(line, typeCode.end, DRONE_CLASS_CAPACITY)
             isDetection == TokenBytes(line) <= TTSKW07_MAX_LINE /\ afterF # missing
             isUsable ==
                /\ missing \notin {afterR, afterT}
                /\ Absent \notin {frequency.value, signal.value, typeCode.value}
                /\ typeCode.value <= 65535
             f == frequency.value
             g == signal.value
             code == typeCode.value
             threat == ttskw07ThreatFromCode(code)
             a == alertSetDroneClass(DetectorFields(EmptyAlert, now, sequence, f, g, code, threat),
                                     description)
             built == ttskw07Alert(EmptyAlert, now, sequence, f, g, code, description)
  <2>1. r = IF ~ isDetection THEN Parsed("NOT_A_DETECTION", EmptyAlert)
            ELSE IF ~ isUsable THEN Parsed("MALFORMED", EmptyAlert)
            ELSE Parsed("OK", built)
    <3> HIDE DEF isDetection, isUsable, built
    <3> QED
      BY DEF ttskw07ParseLine, alertInit, isDetection, isUsable, built
  <2>2. built = alertSetSource(a, name)
    <3> HIDE DEF f, g, code, description
    <3> QED
      BY DEF ttskw07Alert, DetectorFields
  <2> HIDE DEF built, isDetection, isUsable, r
  <2>3. r = Parsed("OK", built)
    BY <2>1 DEF Parsed, r
  <2> HIDE DEF f, g, code, threat, description, name
  <2>4. OfFields(a)
    OBVIOUS
  <2> HIDE DEF a, OfFields
  <2> QED
    BY <2>2, <2>3, <2>4 DEF r
<1>2. PICK a : OfFields(a) /\ r = Parsed("OK", alertSetSource(a, name))
  BY <1>1
<1>3. DOMAIN a = AlertFields
  BY <1>2, FieldsBeforeName
<1>4. name \in SourceNames
  BY DEF SourceNames
<1> HIDE DEF name, r
<1>5. Named(alertSetSource(a, name))
  BY <1>3, <1>4, NameIsSet
<1> QED
  BY <1>2, <1>5 DEF Parsed, r

LEMMA RecordIsNamed ==
    ASSUME NEW record, NEW now, NEW sequence, NEW storage,
           dw01ParseLine(record, now, sequence, storage).result = "OK"
    PROVE  Named(dw01ParseLine(record, now, sequence, storage).alert)
<1> DEFINE name == Text(<<"DW01">>, 4)
           OfFields(a) == \E frequency, signal, code, threat, text :
              a = alertSetDroneClass(DetectorFields(EmptyAlert, now, sequence, frequency, signal,
                                                    code, threat), text)
           r == dw01ParseLine(record, now, sequence, storage)
<1>1. \E a : OfFields(a) /\ r = Parsed("OK", alertSetSource(a, name))
  <2> DEFINE frequency == readBoundedUnsignedAt(record, 2, 4)
             signal == readBoundedUnsignedAt(record, frequency.end + 1, 3)
             typeCode == readHexPairAt(record, signal.end + 1)
             isRecord == Len(record) <= DW01_MAX_LINE /\ CharAt(record, 1) = "F"
             isUsable ==
                /\ frequency.value # Absent /\ CharAt(record, frequency.end) = "R"
                /\ signal.value # Absent /\ CharAt(record, signal.end) = "T"
                /\ typeCode.value # Absent
             f == frequency.value
             g == signal.value
             code == typeCode.value
             threat == dw01ThreatFromCode(code)
             text == dw01ModelTextFromCode(code)
             a == alertSetDroneClass(DetectorFields(EmptyAlert, now, sequence, f, g, code, threat), text)
             built == dw01Alert(EmptyAlert, now, sequence, f, g, code)
  <2>1. r = IF ~ isRecord THEN Parsed("NOT_A_DETECTION", EmptyAlert)
            ELSE IF ~ isUsable THEN Parsed("MALFORMED", EmptyAlert)
            ELSE Parsed("OK", built)
    <3> HIDE DEF isRecord, isUsable, built
    <3> QED
      BY DEF dw01ParseLine, alertInit, isRecord, isUsable, built
  <2>2. built = alertSetSource(a, name)
    <3> HIDE DEF f, g, code
    <3> QED
      BY DEF dw01Alert, DetectorFields
  <2> HIDE DEF built, isRecord, isUsable, r
  <2>3. r = Parsed("OK", built)
    BY <2>1 DEF Parsed, r
  <2> HIDE DEF f, g, code, threat, text, name
  <2>4. OfFields(a)
    OBVIOUS
  <2> HIDE DEF a, OfFields
  <2> QED
    BY <2>2, <2>3, <2>4 DEF r
<1>2. PICK a : OfFields(a) /\ r = Parsed("OK", alertSetSource(a, name))
  BY <1>1
<1>3. DOMAIN a = AlertFields
  BY <1>2, FieldsBeforeName
<1>4. name \in SourceNames
  BY DEF SourceNames
<1> HIDE DEF name, r
<1>5. Named(alertSetSource(a, name))
  BY <1>3, <1>4, NameIsSet
<1> QED
  BY <1>2, <1>5 DEF Parsed, r

\* What starts out under a name keeps it.
LEMMA StartedIsNamed ==
    ASSUME NEW storage, NEW now, NEW sequence, NEW name \in SourceNames
    PROVE  Named(Started(storage, now, sequence, name)) /\ Named(Contact(storage, now, sequence, name))
<1> DEFINE a == [EmptyAlert EXCEPT !.timestampMs = now, !.sequence = sequence]
           b == [EmptyAlert EXCEPT !.alertKind = "contact", !.timestampMs = now,
                                   !.sequence = sequence, !.severity = "LOW"]
<1>1. DOMAIN a = AlertFields /\ DOMAIN b = AlertFields
  BY DEF AlertFields
<1>2. /\ Started(storage, now, sequence, name) = alertSetSource(a, name)
      /\ Contact(storage, now, sequence, name) = alertSetSource(b, name)
  BY DEF Started, Contact, alertInit, alertInitContact
<1> HIDE DEF a, b
<1> QED
  BY <1>1, <1>2, NameIsSet

LEMMA FilledIsNamed ==
    ASSUME NEW a, Named(a), NEW threat, NEW severity, NEW band, NEW distance, NEW confidence, NEW text
    PROVE  Named(Filled(a, threat, severity, band, distance, confidence, text))
<1> DEFINE class == setBoundedField(text, DRONE_CLASS_CAPACITY)
           b == [a EXCEPT !.threat = threat, !.severity = severity, !.band = band,
                          !.distance = distance, !.confidence = confidence]
<1>1. DOMAIN b = AlertFields /\ b.source = a.source
  BY DEF Named, AlertFields, EmptyAlert
<1> HIDE DEF b, class
<1> DEFINE c == [b EXCEPT !.droneClass = class]
<1>2. DOMAIN c = AlertFields /\ c.source = a.source
  BY <1>1 DEF AlertFields, EmptyAlert
<1>3. Filled(a, threat, severity, band, distance, confidence, text) = c
  BY DEF Filled, alertSetDroneClass, b, class
<1> HIDE DEF c
<1> QED
  BY <1>2, <1>3 DEF Named

LEMMA MockIsNamed ==
    ASSUME NEW i, NEW storage, NEW now, NEW sequence
    PROVE  Named(build(i, storage, now, sequence))
<1> DEFINE started == Started(storage, now, sequence, Mock)
           bands == MockBands(i)
           banded == [started EXCEPT !.bands = bands]
           contact == Contact(started, now, sequence, Mock)
<1>1. Mock \in SourceNames
  BY DEF SourceNames
<1>2. Named(started) /\ Named(contact)
  BY <1>1, StartedIsNamed
<1>3. build(i, storage, now, sequence)
        = IF i = 0 THEN Filled(banded, "FPV", "HIGH", "5.8GHz", "NEAR", 87, Fpv)
          ELSE IF i = 1 THEN Filled(banded, "DJI", "MEDIUM", "2.4GHz", "MID", 72, Mavic)
          ELSE IF i = 2 THEN Filled(banded, "UNKNOWN", "CRITICAL", "MULTI", "NEAR", 94, Unknown)
          ELSE contact
  BY DEF build
<1> HIDE DEF started, contact, bands
<1>4. Named(banded)
  BY <1>2 DEF Named, AlertFields, EmptyAlert
<1> HIDE DEF banded
<1>5. /\ Named(Filled(banded, "FPV", "HIGH", "5.8GHz", "NEAR", 87, Fpv))
      /\ Named(Filled(banded, "DJI", "MEDIUM", "2.4GHz", "MID", 72, Mavic))
      /\ Named(Filled(banded, "UNKNOWN", "CRITICAL", "MULTI", "NEAR", 94, Unknown))
  BY <1>4, FilledIsNamed
<1> QED
  BY <1>2, <1>3, <1>5

LEMMA ShortcutIsNamed ==
    ASSUME NEW a, Named(a), NEW token
    PROVE  Named(Shortcut(a, token))
<1>1. /\ Named(Filled(a, "FPV", "HIGH", "5.8GHz", "NEAR", 87, Fpv))
      /\ Named(Filled(a, "DJI", "MEDIUM", "2.4GHz", "MID", 72, Mavic))
      /\ Named(Filled(a, "UNKNOWN", "MEDIUM", "2.4GHz", "MID", 70, Autel))
      /\ Named(Filled(a, "UNKNOWN", "HIGH", "MULTI", "NEAR", 94, Unknown))
  BY FilledIsNamed
<1> QED
  BY <1>1, Zenon DEF Shortcut

LEMMA BuiltIsNamed ==
    ASSUME NEW line, NEW now, NEW sequence, NEW storage,
           buildAlert(line, now, sequence, storage).result = "OK"
    PROVE  Named(buildAlert(line, now, sequence, storage).alert)
<1> DEFINE pasted == ttskw07ParseLine(line, now, sequence, storage)
           started == Started(pasted.alert, now, sequence, Typed)
           shortcut == Shortcut(started, line[1].is)
           contact == Contact(started, now, sequence, Typed)
           built == buildAlert(line, now, sequence, storage)
<1>1. Typed \in SourceNames
  BY DEF SourceNames
<1>2. pasted.result = "OK" => Named(pasted.alert)
  BY LineIsNamed
<1>3. Named(started) /\ Named(contact)
  BY <1>1, StartedIsNamed
<1>4. \/ built = pasted
      \/ built \in {Parsed("OK", shortcut), Parsed("OK", contact), Parsed("UNRECOGNIZED", started)}
  <2> HIDE DEF shortcut
  <2> QED
    BY DEF buildAlert, shortcut
<1> HIDE DEF started, pasted, contact
<1>5. Named(shortcut)
  BY <1>3, ShortcutIsNamed
<1> HIDE DEF shortcut, built
<1>6. built.result = "OK"
  BY DEF built
<1>7. Named(built.alert)
  BY <1>2, <1>3, <1>4, <1>5, <1>6 DEF Parsed
<1> QED
  BY <1>7 DEF built

\* Whatever an adapter makes of a line has the name of its source.
LEMMA StampIsNamed ==
    ASSUME NEW a, Named(a), NEW moment, NEW latency
    PROVE  Named(StampedWith(a, moment, latency))
BY DEF Named, StampedWith, AlertFields, EmptyAlert

LEMMA PolledIsNamed ==
    ASSUME NEW line, NEW sequence, NEW ingest, NEW took,
           Poll(line, sequence, ingest, took).result = "OK"
    PROVE  Named(Poll(line, sequence, ingest, took).alert)
<1> DEFINE r == Poll(line, sequence, ingest, took)
           later == Later(ingest, took)
           latency == Elapsed(ingest, later)
<1>0. r.result = "OK"
  OBVIOUS
<1>1. ASSUME NEW x, x.result = "OK" => Named(x.alert),
             NEW moment, NEW time,
             r = IF x.result # "OK" THEN x ELSE Parsed("OK", StampedWith(x.alert, moment, time))
      PROVE  Named(r.alert)
  <2> DEFINE stamped == StampedWith(x.alert, moment, time)
  <2> HIDE DEF r
  <2>1. x.result = "OK"
    BY <1>0, <1>1
  <2>2. Named(stamped)
    BY <1>1, <2>1, StampIsNamed
  <2> HIDE DEF stamped
  <2> QED
    BY <1>1, <2>1, <2>2 DEF Parsed, stamped
<1>2. CASE source = "TTSKW07"
  <2> DEFINE x == ttskw07ParseLine(line, ingest, sequence, alert)
  <2>1. r = IF x.result # "OK" THEN x ELSE Parsed("OK", StampedWith(x.alert, later, latency))
    BY <1>2 DEF Poll, PollTTSKW07, Stamped, StampedWith
  <2>2. x.result = "OK" => Named(x.alert)
    BY LineIsNamed
  <2> HIDE DEF x, r, later, latency
  <2>3. Named(r.alert)
    BY <1>1, <2>1, <2>2
  <2> QED
    BY <2>3 DEF r
<1>3. CASE source = "DW01"
  <2> DEFINE x == dw01ParseLine(line, ingest, sequence, alert)
  <2>1. r = IF x.result # "OK" THEN x ELSE Parsed("OK", StampedWith(x.alert, later, latency))
    BY <1>3 DEF Poll, PollDW01, Stamped, StampedWith
  <2>2. x.result = "OK" => Named(x.alert)
    BY RecordIsNamed
  <2> HIDE DEF x, r, later, latency
  <2>3. Named(r.alert)
    BY <1>1, <2>1, <2>2
  <2> QED
    BY <2>3 DEF r
<1>4. CASE source \notin {"TTSKW07", "DW01"}
  <2> DEFINE x == buildAlert(line, ingest, sequence, alert)
  <2>1. r = IF x.result # "OK" THEN x ELSE Parsed("OK", StampedWith(x.alert, later, Absent))
    BY <1>4 DEF Poll, PollSerialInject, StampedWith
  <2>2. x.result = "OK" => Named(x.alert)
    BY BuiltIsNamed
  <2> HIDE DEF x, r, later
  <2>3. Named(r.alert)
    BY <1>1, <2>1, <2>2
  <2> QED
    BY <2>3 DEF r
<1> QED
  BY <1>2, <1>3, <1>4

-----------------------------------------------------------------------------
(* The invariant of the link.                                               *)

\* What is on the air is the packet of an alert that can be shown.
Carries(p, a) ==
    /\ CanBeShown(a) /\ a = [f \in AlertFields |-> a[f]]
    /\ p = encodeAlert(a, MAX_PAYLOAD_BYTES)

\* What is polled can be shown, what is on the air is its packet, nothing has
\* arrived before it is shown, and what has is what the properties say.
LinkInvariant ==
    /\ PipelineInvariant
    /\ stage = "polled" => CanBeShown(alert)
    /\ stage = "air" => Carries(packet, sent)
    /\ stage # "shown" => received = "nothing"
    /\ WatchShowsTheAlert
    /\ OnlyWholePacketsAreAccepted
    /\ DecodersAgree

LEMMA NamedCanBeShown ==
    ASSUME NEW a, WholeAlert(a), Named(a), a.detectorLatencyMs \in Durations \cup {Absent}
    PROVE  CanBeShown(a)
<1>1. a.source # Absent
  BY SourceAssumption DEF Named
<1>2. a.detectorLatencyMs # Absent => a.detectorLatencyMs < WordLimit \div 2
  <2> DEFINE half == WordLimit \div 2
             n == a.detectorLatencyMs
  <2>1. half \in Int
    BY WordAssumption
  <2>2. n # Absent => n \in 0..(half - 1)
    BY PipelineAssumption
  <2> HIDE DEF half, n
  <2>3. n # Absent => n < half
    BY <2>1, <2>2
  <2> QED
    BY <2>3 DEF half, n
<1> QED
  BY <1>1, <1>2 DEF CanBeShown

\* While nothing has arrived the properties hold.
LEMMA NothingArrived ==
    ASSUME received = "nothing"
    PROVE  WatchShowsTheAlert /\ OnlyWholePacketsAreAccepted /\ DecodersAgree
BY DEF WatchShowsTheAlert, OnlyWholePacketsAreAccepted, DecodersAgree

LEMMA NothingArrives ==
    ASSUME received' = "nothing"
    PROVE  (WatchShowsTheAlert /\ OnlyWholePacketsAreAccepted /\ DecodersAgree)'
BY DEF WatchShowsTheAlert, OnlyWholePacketsAreAccepted, DecodersAgree

LEMMA LinkStarts == PipelineInit => LinkInvariant
<1> SUFFICES ASSUME PipelineInit PROVE LinkInvariant
  OBVIOUS
<1>1. PipelineInvariant
  BY PipelineStarts
<1>2. received = "nothing" /\ stage \in {"idle", "polled"}
  BY DEF PipelineInit, Nowhere
<1>3. stage = "polled" => CanBeShown(alert)
  <2> SUFFICES ASSUME stage = "polled" PROVE CanBeShown(alert)
    OBVIOUS
  <2>1. source \notin Adapters
    BY DEF PipelineInit, AdaptersInit, NothingPolled
  <2>2. PICK sequence \in Sequences, now \in Moments : alert = build(0, EmptyAlert, now, sequence)
    BY <2>1 DEF PipelineInit, AdaptersInit
  <2>3. sequence \in Instants /\ now \in Instants
    BY InstantsAre
  <2>4. WholeAlert(alert) /\ alert.detectorLatencyMs = Absent
    BY <2>2, <2>3, MockIsWhole
  <2>5. Named(alert)
    BY <2>2, MockIsNamed
  <2> QED
    BY <2>4, <2>5, NamedCanBeShown
<1>4. WatchShowsTheAlert /\ OnlyWholePacketsAreAccepted /\ DecodersAgree
  BY <1>2, NothingArrived
<1> QED
  BY <1>1, <1>2, <1>3, <1>4 DEF LinkInvariant

\* What a poll finds can be shown.
LEMMA PollFinds ==
    ASSUME PipelineInvariant, LoopPollsDetector, stage' = "polled"
    PROVE  CanBeShown(alert')
<1>1. source \in Adapters /\ stage' = IF polled'.found THEN "polled" ELSE "idle"
  BY DEF LoopPollsDetector, PollDetector, Polled
<1>2. PICK line \in Lines[source], sequence \in Sequences, ingest \in Moments, took \in Durations :
         LET result == Poll(line.text, sequence, ingest, took)
         IN  /\ alert' = result.alert
             /\ polled' = [found |-> result.result = "OK", fields |-> line.fields,
                           sequence |-> sequence, took |-> took]
  BY DEF LoopPollsDetector, PollDetector
<1> DEFINE text == line.text
           r == Poll(text, sequence, ingest, took)
<1>3. sequence \in Instants /\ ingest \in Instants /\ took \in Instants
  BY InstantsAre
<1>4. source # "DW01" => text \in Seq(Tokens)
  BY <1>1, AdaptersAssumption DEF Adapters
<1> HIDE DEF text
<1>5. /\ WholeAlert(r.alert)
      /\ r.result = "OK" => r.alert.detectorLatencyMs =
            IF source \in {"TTSKW07", "DW01"} THEN took ELSE Absent
  BY <1>1, <1>3, <1>4, PollIs
<1>6. alert' = r.alert /\ r.result = "OK"
  BY <1>1, <1>2 DEF text
<1>7. Named(r.alert)
  BY <1>6, PolledIsNamed
<1> HIDE DEF r
<1> DEFINE a == r.alert
<1>8. WholeAlert(a) /\ Named(a) /\ a.detectorLatencyMs \in Durations \cup {Absent}
  BY <1>5, <1>6, <1>7
<1> HIDE DEF a
<1>9. CanBeShown(a)
  BY <1>8, NamedCanBeShown
<1> QED
  BY <1>6, <1>9 DEF a

LEMMA MockFinds ==
    ASSUME PipelineInvariant, LoopPollsMock
    PROVE  CanBeShown(alert')
<1>1. mockIndex' \in 0..3
  BY DEF LoopPollsMock, PollMockProvider, PipelineInvariant, PipelineTypeOK
<1>2. PICK sequence \in Sequences, now \in Moments : alert' = build(mockIndex', alert, now, sequence)
  BY DEF LoopPollsMock, PollMockProvider
<1>3. sequence \in Instants /\ now \in Instants
  BY InstantsAre
<1> DEFINE a == build(mockIndex', alert, now, sequence)
<1>4. WholeAlert(a) /\ a.detectorLatencyMs = Absent
  BY <1>1, <1>3, MockIsWhole
<1>5. Named(a)
  BY MockIsNamed
<1>6. alert' = a
  BY <1>2
<1> HIDE DEF a
<1>7. CanBeShown(a)
  BY <1>4, <1>5, NamedCanBeShown
<1> QED
  BY <1>6, <1>7

LEMMA PublishCarries ==
    ASSUME LinkInvariant, publishAlert
    PROVE  stage' = "air" /\ Carries(packet', sent')
<1>1. PICK spent \in Durations :
         /\ sent' = [alert EXCEPT !.timestampMs = Later(alert.timestampMs, spent)]
         /\ packet' = encodeAlert(sent', MAX_PAYLOAD_BYTES)
  BY DEF publishAlert, StampedForSending
<1>2. packet' # <<>> /\ IsAlert(sent')
  BY PublishedFits DEF LinkInvariant
<1>3. stage' = "air"
  BY <1>2 DEF publishAlert
<1>4. CanBeShown(alert)
  BY DEF LinkInvariant, publishAlert
<1> DEFINE moment == Later(alert.timestampMs, spent)
           b == [alert EXCEPT !.timestampMs = moment]
<1>5. sent' = b
  BY <1>1
<1> HIDE DEF moment
<1>6. DOMAIN alert = AlertFields
  BY <1>4 DEF CanBeShown, WholeAlert
<1>7. /\ DOMAIN b = AlertFields /\ b.source = alert.source
      /\ b.detectorLatencyMs = alert.detectorLatencyMs
  BY <1>6 DEF AlertFields, EmptyAlert
<1>8. b = [f \in AlertFields |-> b[f]]
  BY <1>6
<1> HIDE DEF b
<1>9. CanBeShown(b)
  BY <1>2, <1>4, <1>5, <1>7 DEF CanBeShown, WholeAlert
<1> QED
  BY <1>1, <1>3, <1>5, <1>8, <1>9 DEF Carries

\* A packet arrives that both decoders take for the alert that was sent.
LEMMA TakenIsShown ==
    ASSUME LinkInvariant, NEW how \in {"whole", "newer"}, NEW P, Decoded(how, P),
           CoreTakes(P, sent), WatchTakes(P, sent)
    PROVE  LinkInvariant'
<1>1. /\ stage = "air" /\ stage' = "shown" /\ received' = how /\ watch' = decode(P)
      /\ core' = decodeAlert(P, EmptyAlert) /\ sent' = sent /\ packet' = packet
      /\ source' = source /\ alert' = alert /\ mockIndex' = mockIndex
  BY DEF Decoded
<1>2. PipelineInvariant'
  BY <1>1, RestKeepsInvariant DEF LinkInvariant
<1>3. sent = [f \in AlertFields |-> sent[f]]
  BY <1>1 DEF LinkInvariant, Carries
<1>4. /\ core' = [status |-> "OK", alert |-> sent] /\ watch'.status = "OK"
      /\ OnTheWatch(sent, watch'.model)
  BY <1>1, <1>3 DEF CoreTakes, WatchTakes
<1>5. WatchShowsTheAlert' /\ OnlyWholePacketsAreAccepted' /\ DecodersAgree'
  <2>1. OnTheWatch(sent', watch'.model)
    BY <1>1, <1>4
  <2>2. core'.status = "OK" /\ core'.alert = sent'
    BY <1>1, <1>4
  <2> QED
    BY <1>1, <1>4, <2>1, <2>2 DEF WatchShowsTheAlert, OnlyWholePacketsAreAccepted, DecodersAgree
<1> QED
  BY <1>1, <1>2, <1>5 DEF LinkInvariant

\* A packet arrives that only the decoder of the bridge takes for the alert.
LEMMA LongIsNotShown ==
    ASSUME LinkInvariant, NEW P, Decoded("long", P), CoreTakes(P, sent), decode(P).status # "OK"
    PROVE  LinkInvariant'
<1>1. /\ stage = "air" /\ stage' = "shown" /\ received' = "long" /\ watch' = decode(P)
      /\ core' = decodeAlert(P, EmptyAlert) /\ sent' = sent /\ packet' = packet
      /\ source' = source /\ alert' = alert /\ mockIndex' = mockIndex
  BY DEF Decoded
<1>2. PipelineInvariant'
  BY <1>1, RestKeepsInvariant DEF LinkInvariant
<1>3. sent = [f \in AlertFields |-> sent[f]]
  BY <1>1 DEF LinkInvariant, Carries
<1>4. core' = [status |-> "OK", alert |-> sent] /\ watch'.status # "OK"
  BY <1>1, <1>3 DEF CoreTakes
<1>5. core'.status = "OK" /\ core'.alert = sent'
  BY <1>1, <1>4
<1>6. WatchShowsTheAlert' /\ OnlyWholePacketsAreAccepted' /\ DecodersAgree'
  BY <1>1, <1>4, <1>5 DEF WatchShowsTheAlert, OnlyWholePacketsAreAccepted, DecodersAgree
<1> QED
  BY <1>1, <1>2, <1>6 DEF LinkInvariant

\* A packet arrives that neither decoder takes for an alert.
LEMMA RejectedIsNotShown ==
    ASSUME LinkInvariant, NEW how \in {"cut", "other"}, NEW P, Decoded(how, P), Rejected(P)
    PROVE  LinkInvariant'
<1>1. /\ stage' = "shown" /\ received' = how /\ watch' = decode(P)
      /\ core' = decodeAlert(P, EmptyAlert) /\ sent' = sent /\ packet' = packet
      /\ source' = source /\ alert' = alert /\ mockIndex' = mockIndex
  BY DEF Decoded
<1>2. PipelineInvariant'
  BY <1>1, RestKeepsInvariant DEF LinkInvariant
<1>3. core'.status # "OK" /\ watch'.status # "OK"
  BY <1>1 DEF Rejected
<1>4. WatchShowsTheAlert' /\ OnlyWholePacketsAreAccepted' /\ DecodersAgree'
  BY <1>1, <1>3 DEF WatchShowsTheAlert, OnlyWholePacketsAreAccepted, DecodersAgree
<1> QED
  BY <1>1, <1>2, <1>4 DEF LinkInvariant

LEMMA LinkStepKeepsInvariant == LinkInvariant /\ [PipelineNext]_pipelineVars => LinkInvariant'
<1> SUFFICES ASSUME LinkInvariant, [PipelineNext]_pipelineVars PROVE LinkInvariant'
  OBVIOUS
<1>1. PipelineInvariant /\ PipelineInvariant'
  BY StepKeepsInvariant DEF LinkInvariant
<1>2. ASSUME stage = "idle", UNCHANGED linkVars, stage' \in {"idle", "polled"},
             stage' = "polled" => CanBeShown(alert')
      PROVE  LinkInvariant'
  <2>1. received' = "nothing"
    BY <1>2 DEF LinkInvariant, linkVars
  <2> QED
    BY <1>1, <1>2, <2>1, NothingArrives DEF LinkInvariant
<1>3. CASE LoopPollsDetector
  <2>1. stage = "idle" /\ UNCHANGED linkVars /\ stage' \in {"idle", "polled"}
    BY <1>3 DEF LoopPollsDetector, Polled
  <2>2. stage' = "polled" => CanBeShown(alert')
    BY <1>1, <1>3, PollFinds
  <2> QED
    BY <1>2, <2>1, <2>2
<1>4. CASE LoopPollsMock
  <2>1. stage = "idle" /\ UNCHANGED linkVars /\ stage' \in {"idle", "polled"}
    BY <1>4 DEF LoopPollsMock, Polled
  <2>2. CanBeShown(alert')
    BY <1>1, <1>4, MockFinds
  <2> QED
    BY <1>2, <2>1, <2>2
<1>5. CASE publishAlert
  <2>1. stage' = "air" /\ Carries(packet', sent')
    BY <1>5, PublishCarries
  <2>2. received' = "nothing"
    BY <1>5 DEF LinkInvariant, publishAlert
  <2> QED
    BY <1>1, <2>1, <2>2, NothingArrives DEF LinkInvariant
<1>6. stage = "air" => CanBeShown(sent) /\ IsAlert(sent) /\ packet = encodeAlert(sent, MAX_PAYLOAD_BYTES)
  BY DEF LinkInvariant, Carries, CanBeShown, WholeAlert
<1>7. CASE ArrivesWhole
  <2>1. Decoded("whole", packet) /\ stage = "air"
    BY <1>7 DEF ArrivesWhole, Decoded
  <2>2. CoreTakes(packet, sent) /\ WatchTakes(packet, sent)
    BY <1>6, <2>1, WholeArrives
  <2> QED
    BY <2>1, <2>2, TakenIsShown
<1>8. CASE ArrivesCut
  <2>1. PICK mtu \in Mtus : PacketBytes(packet) > mtu - 3 /\ Decoded("cut", Cut(packet, mtu - 3))
    BY <1>8 DEF ArrivesCut
  <2> DEFINE bytes == mtu - 3
  <2>2. bytes \in Int /\ bytes < PacketBytes(packet) /\ stage = "air"
    <3>1. mtu \in Nat
      BY PipelineAssumption
    <3>2. PacketBytes(packet) \in Nat
      BY <1>1 DEF PipelineInvariant, PipelineTypeOK
    <3> QED
      BY <2>1, <3>1, <3>2 DEF Decoded
  <2>3. Decoded("cut", Cut(packet, bytes))
    BY <2>1
  <2> HIDE DEF bytes
  <2>4. Rejected(Cut(packet, bytes))
    BY <1>6, <2>2, CutArrives
  <2> QED
    BY <2>3, <2>4, RejectedIsNotShown
<1>9. CASE ArrivesFromNewer
  <2>1. PICK value \in NewValues, i \in EntryStarts(packet) :
           Decoded(IF HasLong(value) THEN "long" ELSE "newer", WithEntry(packet, i, value))
    BY <1>9 DEF ArrivesFromNewer
  <2>2. value \in Seq(Range(value)) /\ skipItem(value, 1) = Len(value) + 1
    BY PipelineAssumption
  <2>3. stage = "air"
    BY <2>1 DEF Decoded
  <2> DEFINE P == WithEntry(packet, i, value)
  <2>4. /\ CoreTakes(P, sent) /\ (~HasLong(value) => WatchTakes(P, sent))
        /\ HasLong(value) => decode(P).status # "OK"
    BY <1>6, <2>2, <2>3, NewerArrives
  <2>5. (HasLong(value) => Decoded("long", P)) /\ (~HasLong(value) => Decoded("newer", P))
    BY <2>1
  <2> HIDE DEF P
  <2> QED
    BY <2>4, <2>5, TakenIsShown, LongIsNotShown
<1>10. CASE ArrivesFromOther
  <2>1. PICK version \in {PROTOCOL_VERSION - 1, PROTOCOL_VERSION + 1} :
           Decoded("other", WithVersion(packet, version))
    BY <1>10 DEF ArrivesFromOther
  <2>2. version \in 0..100 /\ version # PROTOCOL_VERSION
    BY DEF PROTOCOL_VERSION
  <2>3. stage = "air"
    BY <2>1 DEF Decoded
  <2>4. Rejected(WithVersion(packet, version))
    BY <1>6, <2>2, <2>3, OtherArrives
  <2> QED
    BY <2>1, <2>4, RejectedIsNotShown
<1>11. CASE LoopReturns
  <2>1. received' = "nothing" /\ stage' = "idle"
    BY <1>11 DEF LoopReturns
  <2> QED
    BY <1>1, <2>1, NothingArrives DEF LinkInvariant
<1>12. CASE UNCHANGED pipelineVars
  BY <1>1, <1>12 DEF pipelineVars, LinkInvariant, WatchShowsTheAlert, OnlyWholePacketsAreAccepted,
                     DecodersAgree
<1> QED
  BY <1>3, <1>4, <1>5, <1>7, <1>8, <1>9, <1>10, <1>11, <1>12 DEF PipelineNext

-----------------------------------------------------------------------------
(* The theorems.                                                            *)

\* Whatever alert an adapter makes, the watch shows it field by field when its
\* packet arrives whole, and with one entry more between any two entries, of any
\* value without a number of more than four bytes, it shows the same (encodeAlert,
\* decode).
THEOREM WatchAlwaysShowsTheAlert == PipelineSpec => []WatchShowsTheAlert
<1>1. LinkInvariant => WatchShowsTheAlert
  BY DEF LinkInvariant
<1> QED
  BY <1>1, LinkStarts, LinkStepKeepsInvariant, PTL DEF PipelineSpec

\* The packet of any alert, cut at any byte, never becomes an alert again, and
\* one of another major version never does either (encodeAlert, decode,
\* decodeAlert).
THEOREM OnlyWholePacketsBecomeAlerts == PipelineSpec => []OnlyWholePacketsAreAccepted
<1>1. LinkInvariant => OnlyWholePacketsAreAccepted
  BY DEF LinkInvariant
<1> QED
  BY <1>1, LinkStarts, LinkStepKeepsInvariant, PTL DEF PipelineSpec

\* The decoder of the bridge gives the alert back that was encoded, all of its
\* fields, with an entry more of any value too, and that of the watch accepts what
\* it accepts but for a value with an argument of eight bytes, which it never
\* does (encodeAlert, decodeAlert, decode).
THEOREM DecodersAlwaysAgree == PipelineSpec => []DecodersAgree
<1>1. LinkInvariant => DecodersAgree
  BY DEF LinkInvariant
<1> QED
  BY <1>1, LinkStarts, LinkStepKeepsInvariant, PTL DEF PipelineSpec
=============================================================================

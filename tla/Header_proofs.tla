------------------------------ MODULE Header_proofs ------------------------------
(***************************************************************************)
(* Proofs about the header of a file (Header): the bytes reserved before   *)
(* the arrays are compressed are enough for what is serialized afterwards, *)
(* and what the format can hold is read back as it was.                    *)
(***************************************************************************)
EXTENDS Header, Facts

--------------------------------------------------------------------------------
(* Fields, and those of a kind.                                            *)

KeyFields == [kind : {"key"}, size : Nat, name : Names]
LayerFields == [kind : {"layer"}, size : Nat, name : Names, count : Nat]
IndexFields == [kind : {"index"}, size : Nat, at : Nat]
WordFields == [kind : {"word"}, size : Nat, bits : SUBSET Nat]
EntryFields ==
  [kind : {"entry"}, size : Nat, at : Int, dims : Nat, bytes : Nat, blocks : Nat]
Field == UNION {KeyFields, LayerFields, IndexFields, WordFields, EntryFields}

Of(kind) == {f \in Field : f.kind = kind}

LEMMA FieldKinds ==
  /\ Of("key") = KeyFields /\ Of("layer") = LayerFields /\ Of("index") = IndexFields
  /\ Of("word") = WordFields /\ Of("entry") = EntryFields
<1> DEFINE F == {KeyFields, LayerFields, IndexFields, WordFields, EntryFields}
<1>1. /\ \A f \in KeyFields : f.kind = "key"
      /\ \A f \in LayerFields : f.kind = "layer"
      /\ \A f \in IndexFields : f.kind = "index"
      /\ \A f \in WordFields : f.kind = "word"
      /\ \A f \in EntryFields : f.kind = "entry"
  BY DEF KeyFields, LayerFields, IndexFields, WordFields, EntryFields
<1> QED BY <1>1 DEF Of, Field

LEMMA FieldSize == \A f \in Field : f.size \in Nat
BY DEF Field, KeyFields, LayerFields, IndexFields, WordFields, EntryFields

\* Each field alone, or nothing in its place.
Picked(s, kind) == [i \in DOMAIN s |-> IF s[i].kind = kind THEN <<s[i]>> ELSE <<>>]

LEMMA PickedType ==
  ASSUME NEW s \in Seq(Field), NEW kind
  PROVE  /\ Picked(s, kind) \in Seq(Seq(Of(kind)))
         /\ Picked(s, kind) \in Seq(Seq(Field))
         /\ Len(Picked(s, kind)) = Len(s)
<1>1. ASSUME NEW i \in DOMAIN s
      PROVE  (IF s[i].kind = kind THEN <<s[i]>> ELSE <<>>) \in Seq(Of(kind)) \cap Seq(Field)
  <2>1. s[i] \in Field OBVIOUS
  <2>2. CASE s[i].kind = kind
    <3>1. s[i] \in Of(kind) BY <2>1, <2>2 DEF Of
    <3>2. <<s[i]>> \in Seq(Of(kind)) /\ <<s[i]>> \in Seq(Field) BY <2>1, <3>1
    <3> QED BY <2>2, <3>2
  <2>3. CASE s[i].kind # kind BY <2>3
  <2> QED BY <2>2, <2>3
<1>2. DOMAIN s = 1 .. Len(s) /\ Len(s) \in Nat OBVIOUS
<1>3. Picked(s, kind) \in [1 .. Len(s) -> Seq(Of(kind))]
      /\ Picked(s, kind) \in [1 .. Len(s) -> Seq(Field)]
  BY <1>1, <1>2 DEF Picked
<1> QED BY <1>2, <1>3

LEMMA SelectedIs ==
  ASSUME NEW s, NEW kind
  PROVE  Selected(s, kind) = FlattenSeq(Picked(s, kind))
BY DEF Selected, Picked

LEMMA SelectedType ==
  ASSUME NEW s \in Seq(Field), NEW kind
  PROVE  /\ Selected(s, kind) \in Seq(Of(kind))
         /\ Selected(s, kind) \in Seq(Field)
BY PickedType, SelectedIs, FlattenType

LEMMA SelectedEmpty ==
  ASSUME NEW kind
  PROVE  Selected(<<>>, kind) = <<>>
<1>1. Picked(<<>>, kind) = <<>> BY DEF Picked
<1> QED BY <1>1, SelectedIs, FlattenEmpty

LEMMA SelectedConcat ==
  ASSUME NEW s \in Seq(Field), NEW t \in Seq(Field), NEW kind
  PROVE  Selected(s \o t, kind) = Selected(s, kind) \o Selected(t, kind)
<1> DEFINE a == Picked(s, kind)
           b == Picked(t, kind)
           c == Picked(s \o t, kind)
<1>1. s \o t \in Seq(Field) /\ Len(s \o t) = Len(s) + Len(t) OBVIOUS
<1>2. /\ a \in Seq(Seq(Field)) /\ b \in Seq(Seq(Field)) /\ c \in Seq(Seq(Field))
      /\ Len(a) = Len(s) /\ Len(b) = Len(t) /\ Len(c) = Len(s) + Len(t)
  BY <1>1, PickedType
<1>3. \A i \in 1 .. Len(s) : (s \o t)[i] = s[i] BY ConcatAt
<1>4. \A j \in 1 .. Len(t) : (s \o t)[Len(s) + j] = t[j] BY ConcatAt
<1>6. \A i \in 1 .. Len(a) : c[i] = a[i]
  <2> SUFFICES ASSUME NEW i \in 1 .. Len(s) PROVE c[i] = a[i] BY <1>2
  <2>1. i \in DOMAIN s /\ i \in DOMAIN (s \o t) BY <1>1
  <2> QED BY <1>3, <2>1 DEF Picked
<1>7. \A j \in 1 .. Len(b) : c[Len(a) + j] = b[j]
  <2> SUFFICES ASSUME NEW j \in 1 .. Len(t) PROVE c[Len(s) + j] = b[j] BY <1>2
  <2> DEFINE i == Len(s) + j
  <2>1. j \in DOMAIN t /\ i \in DOMAIN (s \o t) BY <1>1
  <2>2. (s \o t)[i] = t[j] BY <1>4
  <2> HIDE DEF i
  <2>3. c[i] = b[j] BY <2>1, <2>2 DEF Picked
  <2> QED BY <2>3 DEF i
<1> HIDE DEF a, b, c
<1>9. Len(c) = Len(a) + Len(b) BY <1>2
<1>8. c = a \o b BY <1>2, <1>6, <1>7, <1>9, IsConcat
<1>5. FlattenSeq(a \o b) = FlattenSeq(a) \o FlattenSeq(b) BY <1>2, FlattenConcat
<1> QED BY <1>5, <1>8, SelectedIs DEF a, b, c

\* Fields of one kind are all selected for it, and none for another.
LEMMA SelectedOne ==
  ASSUME NEW f \in Field, NEW kind
  PROVE  Selected(<<f>>, kind) = IF f.kind = kind THEN <<f>> ELSE <<>>
<1> DEFINE x == IF f.kind = kind THEN <<f>> ELSE <<>>
<1>1. x \in Seq(Field) OBVIOUS
<1>2. Picked(<<f>>, kind) = <<x>> BY DEF Picked
<1> HIDE DEF x
<1>3. FlattenSeq(<<x>>) = x BY <1>1, FlattenOne
<1> QED BY <1>2, <1>3, SelectedIs DEF x

LEMMA SelectedOfKind ==
  ASSUME NEW kind, NEW other, NEW s \in Seq(Of(kind))
  PROVE  Selected(s, other) = IF kind = other THEN s ELSE <<>>
<1> DEFINE T == {t \in Seq(Of(kind)) : Selected(t, other) = IF kind = other THEN t ELSE <<>>}
<1>1. <<>> \in T
  <2>1. <<>> \in Seq(Of(kind)) OBVIOUS
  <2> QED BY <2>1, SelectedEmpty
<1>2. ASSUME NEW t \in Seq(Of(kind)), NEW f \in Of(kind), t \in T PROVE Append(t, f) \in T
  <2>1. f \in Field /\ f.kind = kind BY DEF Of
  <2>2. t \in Seq(Field) BY DEF Of
  <2>3. Append(t, f) = t \o <<f>> /\ <<f>> \in Seq(Field) /\ Append(t, f) \in Seq(Of(kind))
    BY <2>1
  <2>4. Selected(t \o <<f>>, other) = Selected(t, other) \o Selected(<<f>>, other)
    BY <2>2, <2>3, SelectedConcat
  <2>5. Selected(<<f>>, other) = IF kind = other THEN <<f>> ELSE <<>> BY <2>1, SelectedOne
  <2>6. Selected(t, other) = IF kind = other THEN t ELSE <<>> BY <1>2
  <2>7. <<>> \o <<>> = <<>> OBVIOUS
  <2>8. Selected(Append(t, f), other) = IF kind = other THEN Append(t, f) ELSE <<>>
    BY <2>3, <2>4, <2>5, <2>6, <2>7
  <2> QED BY <2>3, <2>8
<1> HIDE DEF T
<1>3. Seq(Of(kind)) \subseteq T BY <1>1, <1>2, SequenceInduction
<1>4. s \in T BY <1>3
<1> QED BY <1>4 DEF T

LEMMA SelectedFlatten ==
  ASSUME NEW seqs \in Seq(Seq(Field)), NEW kind
  PROVE  Selected(FlattenSeq(seqs), kind)
           = FlattenSeq([i \in 1 .. Len(seqs) |-> Selected(seqs[i], kind)])
<1> DEFINE h == [s \in Seq(Field) |-> Selected(s, kind)]
<1>1. h \in [Seq(Field) -> Seq(Field)] BY SelectedType
<1>2. <<>> \in Seq(Field) OBVIOUS
<1>3. h[<<>>] = <<>> BY <1>2, SelectedEmpty
<1>4. ASSUME NEW s \in Seq(Field), NEW t \in Seq(Field) PROVE h[s \o t] = h[s] \o h[t]
  <2>1. s \o t \in Seq(Field) OBVIOUS
  <2> QED BY <2>1, SelectedConcat
<1>5. FlattenSeq(seqs) \in Seq(Field) BY FlattenType
<1>6. h[FlattenSeq(seqs)] = Selected(FlattenSeq(seqs), kind) BY <1>5
<1>7. Each(h, seqs) = [i \in 1 .. Len(seqs) |-> Selected(seqs[i], kind)]
  <2>1. \A i \in 1 .. Len(seqs) : h[seqs[i]] = Selected(seqs[i], kind) OBVIOUS
  <2> HIDE DEF h
  <2> QED BY <2>1 DEF Each
<1> HIDE DEF h
<1>8. h[FlattenSeq(seqs)] = FlattenSeq(Each(h, seqs))
  BY <1>1, <1>3, <1>4, FlattenHomomorphism
<1> QED BY <1>6, <1>7, <1>8
--------------------------------------------------------------------------------
(* The bytes of fields, their kinds, and the shares of their owners.       *)

Bytes(s) == Sum([i \in DOMAIN s |-> s[i].size])
KindNames == {"key", "layer", "index", "word", "entry"}
KindsOf(s) == [i \in 1 .. Len(s) |-> s[i].kind]

LEMMA BytesType ==
  ASSUME NEW s \in Seq(Field)
  PROVE  Bytes(s) \in Nat
<1>1. \A i \in DOMAIN s : s[i].size \in Nat BY FieldSize
<1>2. [i \in DOMAIN s |-> s[i].size] \in Seq(Nat) BY <1>1
<1> QED BY <1>2, SumType DEF Bytes

LEMMA BytesConcat ==
  ASSUME NEW s \in Seq(Field), NEW t \in Seq(Field)
  PROVE  Bytes(s \o t) = Bytes(s) + Bytes(t)
<1> DEFINE size == [f \in Field |-> f.size]
<1>1. size \in [Field -> Nat] BY FieldSize
<1>2. ASSUME NEW u \in Seq(Field) PROVE Bytes(u) = Sum(Each(size, u)) /\ Each(size, u) \in Seq(Nat)
  <2>1. DOMAIN u = 1 .. Len(u) OBVIOUS
  <2>2. \A i \in DOMAIN u : size[u[i]] = u[i].size OBVIOUS
  <2> HIDE DEF size
  <2>3. [i \in DOMAIN u |-> u[i].size] = Each(size, u) BY <2>1, <2>2 DEF Each
  <2> QED BY <1>1, <2>3, EachType DEF Bytes
<1> HIDE DEF size
<1>3. s \o t \in Seq(Field) OBVIOUS
<1>4. Each(size, s \o t) = Each(size, s) \o Each(size, t)
  <2>1. DOMAIN size = Field BY <1>1
  <2> QED BY <2>1, EachConcat
<1>5. Sum(Each(size, s) \o Each(size, t)) = Sum(Each(size, s)) + Sum(Each(size, t))
  BY <1>2, SumConcat
<1> QED BY <1>2, <1>3, <1>4, <1>5

LEMMA BytesFlatten ==
  ASSUME NEW seqs \in Seq(Seq(Field))
  PROVE  Bytes(FlattenSeq(seqs)) = Sum([i \in 1 .. Len(seqs) |-> Bytes(seqs[i])])
<1> DEFINE h == [s \in Seq(Field) |-> Bytes(s)]
<1>1. h \in [Seq(Field) -> Nat] BY BytesType
<1>2. h[<<>>] = 0
  <2>1. <<>> \in Seq(Field) /\ [i \in DOMAIN <<>> |-> <<>>[i].size] = <<>> OBVIOUS
  <2> QED BY <2>1, SumEmpty DEF Bytes
<1>3. ASSUME NEW s \in Seq(Field), NEW t \in Seq(Field) PROVE h[s \o t] = h[s] + h[t]
  <2>1. s \o t \in Seq(Field) OBVIOUS
  <2> QED BY <2>1, BytesConcat
<1>4. FlattenSeq(seqs) \in Seq(Field) BY FlattenType
<1>5. h[FlattenSeq(seqs)] = Bytes(FlattenSeq(seqs)) BY <1>4
<1>6. Each(h, seqs) = [i \in 1 .. Len(seqs) |-> Bytes(seqs[i])]
  <2>1. \A i \in 1 .. Len(seqs) : h[seqs[i]] = Bytes(seqs[i]) OBVIOUS
  <2> HIDE DEF h
  <2> QED BY <2>1 DEF Each
<1> HIDE DEF h
<1>7. h[FlattenSeq(seqs)] = Sum(Each(h, seqs)) BY <1>1, <1>2, <1>3, SumHomomorphism
<1> QED BY <1>5, <1>6, <1>7

\* The number of elements of sequences after one another.
LEMMA LenFlatten ==
  ASSUME NEW E, NEW seqs \in Seq(Seq(E))
  PROVE  Len(FlattenSeq(seqs)) = Sum([i \in 1 .. Len(seqs) |-> Len(seqs[i])])
<1> DEFINE h == [s \in Seq(E) |-> Len(s)]
<1>1. h \in [Seq(E) -> Nat] OBVIOUS
<1>2. h[<<>>] = 0 OBVIOUS
<1>3. ASSUME NEW s \in Seq(E), NEW t \in Seq(E) PROVE h[s \o t] = h[s] + h[t] OBVIOUS
<1>4. FlattenSeq(seqs) \in Seq(E) BY FlattenType
<1>5. h[FlattenSeq(seqs)] = Len(FlattenSeq(seqs)) BY <1>4
<1>6. Each(h, seqs) = [i \in 1 .. Len(seqs) |-> Len(seqs[i])]
  <2>1. \A i \in 1 .. Len(seqs) : h[seqs[i]] = Len(seqs[i]) OBVIOUS
  <2> HIDE DEF h
  <2> QED BY <2>1 DEF Each
<1> HIDE DEF h
<1>7. h[FlattenSeq(seqs)] = Sum(Each(h, seqs)) BY <1>1, <1>2, <1>3, SumHomomorphism
<1> QED BY <1>5, <1>6, <1>7

\* What lies before and at the i-th of sequences after one another.
LEMMA FlattenSplit ==
  ASSUME NEW E, NEW seqs \in Seq(Seq(E)), NEW i \in 1 .. Len(seqs)
  PROVE  LET before == Sum([j \in 1 .. i - 1 |-> Len(seqs[j])])
         IN  /\ before \in Nat
             /\ before + Len(seqs[i]) <= Len(FlattenSeq(seqs))
             /\ \A j \in 1 .. Len(seqs[i]) : FlattenSeq(seqs)[before + j] = seqs[i][j]
<1> DEFINE n == Len(seqs)
           front == [j \in 1 .. i - 1 |-> seqs[j]]
           back == [j \in 1 .. n - i |-> seqs[i + j]]
           before == Sum([j \in 1 .. i - 1 |-> Len(seqs[j])])
           a == FlattenSeq(front)
           b == FlattenSeq(back)
           x == seqs[i]
<1>1. n \in Nat /\ i \in Nat /\ i - 1 \in Nat /\ n - i \in Nat /\ x \in Seq(E) OBVIOUS
<1>2. front \in Seq(Seq(E)) /\ Len(front) = i - 1
  <2>1. \A j \in 1 .. i - 1 : seqs[j] \in Seq(E) OBVIOUS
  <2> QED BY <1>1, <2>1
<1>3. back \in Seq(Seq(E)) /\ Len(back) = n - i
  <2>1. ASSUME NEW j \in 1 .. n - i PROVE seqs[i + j] \in Seq(E)
    <3> DEFINE k == i + j
    <3>1. k \in 1 .. n BY <1>1
    <3> HIDE DEF k
    <3> QED BY <3>1 DEF k
  <2> QED BY <1>1, <2>1
<1>4. seqs = Append(front, x) \o back
  <2> DEFINE c == Append(front, x)
  <2>1. c \in Seq(Seq(E)) /\ Len(c) = i /\ \A j \in 1 .. i : c[j] = seqs[j]
    <3>1. c \in Seq(Seq(E)) /\ Len(c) = i
      <4> HIDE DEF front, x
      <4> QED BY <1>1, <1>2
    <3>2. ASSUME NEW j \in 1 .. i PROVE c[j] = seqs[j]
      <4>1. CASE j = i
        <5> HIDE DEF front
        <5> QED BY <1>1, <1>2, <4>1
      <4>2. CASE j # i
        <5>1. j \in 1 .. i - 1 BY <1>1, <4>2
        <5>2. front[j] = seqs[j] BY <5>1
        <5> HIDE DEF front, x
        <5> QED BY <1>1, <1>2, <5>1, <5>2
      <4> QED BY <4>1, <4>2
    <3> QED BY <3>1, <3>2
  <2>2. Len(seqs) = Len(c) + Len(back) BY <1>1, <1>3, <2>1
  <2>3. \A j \in 1 .. Len(c) : seqs[j] = c[j] BY <2>1
  <2>4. \A j \in 1 .. Len(back) : seqs[Len(c) + j] = back[j] BY <1>3, <2>1
  <2> HIDE DEF c, back
  <2>5. seqs = c \o back BY <1>3, <2>1, <2>2, <2>3, <2>4, IsConcat
  <2> QED BY <2>5 DEF c
<1>5. a \in Seq(E) /\ b \in Seq(E) BY <1>2, <1>3, FlattenType
<1>6. FlattenSeq(seqs) = (a \o x) \o b
  <2> HIDE DEF front, back, x
  <2>1. Append(front, x) \in Seq(Seq(E)) BY <1>1, <1>2
  <2>2. FlattenSeq(Append(front, x) \o back) = FlattenSeq(Append(front, x)) \o FlattenSeq(back)
    BY <1>3, <2>1, FlattenConcat
  <2>3. FlattenSeq(Append(front, x)) = FlattenSeq(front) \o x BY <1>1, <1>2, FlattenAppend
  <2> QED BY <1>4, <2>2, <2>3
<1>7. before = Len(a)
  <2>1. Len(FlattenSeq(front)) = Sum([j \in 1 .. Len(front) |-> Len(front[j])])
    <3> HIDE DEF front
    <3> QED BY <1>2, LenFlatten
  <2>2. [j \in 1 .. Len(front) |-> Len(front[j])] = [j \in 1 .. i - 1 |-> Len(seqs[j])]
    BY <1>2
  <2> QED BY <2>1, <2>2
<1> HIDE DEF before, a, b, x
<1>8. before \in Nat BY <1>5, <1>7
<1>9. /\ Len((a \o x) \o b) = before + Len(x) + Len(b)
      /\ \A j \in 1 .. Len(x) : ((a \o x) \o b)[before + j] = x[j]
  <2>1. /\ a \o x \in Seq(E) /\ Len(a \o x) = before + Len(x)
        /\ \A j \in 1 .. Len(x) : (a \o x)[before + j] = x[j]
    BY <1>1, <1>5, <1>7, ConcatAt
  <2>2. /\ Len((a \o x) \o b) = Len(a \o x) + Len(b)
        /\ \A j \in 1 .. Len(a \o x) : ((a \o x) \o b)[j] = (a \o x)[j]
    BY <1>5, <2>1, ConcatAt
  <2>3. \A j \in 1 .. Len(x) : before + j \in 1 .. Len(a \o x) BY <1>1, <1>8, <2>1
  <2> QED BY <2>1, <2>2, <2>3
<1>10. Len(b) \in Nat /\ Len(x) \in Nat BY <1>1, <1>5
<1>11. before + Len(x) <= Len(FlattenSeq(seqs)) BY <1>6, <1>8, <1>9, <1>10
<1>12. \A j \in 1 .. Len(x) : FlattenSeq(seqs)[before + j] = x[j] BY <1>6, <1>9
<1> QED BY <1>8, <1>11, <1>12 DEF before, x

\* The share of the i-th owner is what was written for it.
LEMMA ShareIsPart ==
  ASSUME NEW E, NEW seqs \in Seq(Seq(E)), NEW i \in 1 .. Len(seqs),
         NEW counts, \A j \in 1 .. Len(seqs) : counts[j] = Len(seqs[j])
  PROVE  Share(FlattenSeq(seqs), i, counts) = seqs[i]
<1> DEFINE before == Sum([j \in 1 .. i - 1 |-> Len(seqs[j])])
           flat == FlattenSeq(seqs)
<1>1. [j \in 1 .. i - 1 |-> counts[j]] = [j \in 1 .. i - 1 |-> Len(seqs[j])]
  <2>1. \A j \in 1 .. i - 1 : j \in 1 .. Len(seqs) OBVIOUS
  <2> QED BY <2>1
<1>2. Share(flat, i, counts) = [j \in 1 .. counts[i] |-> flat[before + j]]
  <2> HIDE DEF flat
  <2> QED BY <1>1 DEF Share
<1>3. counts[i] = Len(seqs[i]) /\ seqs[i] \in Seq(E) OBVIOUS
<1>4. \A j \in 1 .. Len(seqs[i]) : flat[before + j] = seqs[i][j] BY FlattenSplit
<1> HIDE DEF before, flat
<1>5. Share(flat, i, counts) = [j \in 1 .. Len(seqs[i]) |-> seqs[i][j]] BY <1>2, <1>3, <1>4
<1>6. seqs[i] = [j \in 1 .. Len(seqs[i]) |-> seqs[i][j]] BY <1>3
<1> QED BY <1>5, <1>6 DEF flat

\* A share counted too low lies within what was written.
LEMMA ShareIsWithin ==
  ASSUME NEW E, NEW seqs \in Seq(Seq(E)), NEW i \in 1 .. Len(seqs),
         NEW counts, \A j \in 1 .. Len(seqs) : counts[j] \in Nat /\ counts[j] <= Len(seqs[j])
  PROVE  Share(FlattenSeq(seqs), i, counts) \in [1 .. counts[i] -> E]
<1> DEFINE before == Sum([j \in 1 .. i - 1 |-> Len(seqs[j])])
           low == Sum([j \in 1 .. i - 1 |-> counts[j]])
           flat == FlattenSeq(seqs)
<1>1. i - 1 \in Nat /\ i \in 1 .. Len(seqs) /\ \A j \in 1 .. i - 1 : j \in 1 .. Len(seqs) OBVIOUS
<1>2. /\ [j \in 1 .. i - 1 |-> counts[j]] \in [1 .. i - 1 -> Nat]
      /\ [j \in 1 .. i - 1 |-> Len(seqs[j])] \in [1 .. i - 1 -> Nat]
      /\ [j \in 1 .. i - 1 |-> counts[j]] \in Seq(Nat)
  BY <1>1
<1>3. low <= before
  <2>1. \A j \in 1 .. i - 1 : [k \in 1 .. i - 1 |-> counts[k]][j]
                                <= [k \in 1 .. i - 1 |-> Len(seqs[k])][j]
    BY <1>1
  <2> QED BY <1>1, <1>2, <2>1, SumMonotone
<1>4. low \in Nat BY <1>2, SumType
<1>5. before \in Nat /\ before + Len(seqs[i]) <= Len(flat) BY FlattenSplit
<1>6. flat \in Seq(E) BY FlattenType
<1>7. counts[i] \in Nat /\ counts[i] <= Len(seqs[i]) /\ Len(seqs[i]) \in Nat OBVIOUS
<1>8. Share(flat, i, counts) = [j \in 1 .. counts[i] |-> flat[low + j]]
  <2> HIDE DEF flat
  <2> QED BY DEF Share
<1> HIDE DEF before, low, flat
<1>9. ASSUME NEW j \in 1 .. counts[i] PROVE flat[low + j] \in E
  <2> DEFINE k == low + j
  <2>1. k \in 1 .. Len(flat) BY <1>3, <1>4, <1>5, <1>6, <1>7
  <2> HIDE DEF k
  <2>2. flat[k] \in E BY <1>6, <2>1
  <2> QED BY <2>2 DEF k
<1>10. Share(flat, i, counts) \in [1 .. counts[i] -> E] BY <1>8, <1>9
<1> QED BY <1>10 DEF flat
--------------------------------------------------------------------------------
(* The index in memory: registries, arrays and bitmaps that fit together.  *)

ArrayRecords == [key : Names, dims : Nat, bytes : Nat, blocks : Nat, dirty : BOOLEAN]
LayerRecords == [name : Names, keys : SUBSET Nat]
Bitmaps == UNION {[D -> Seq(SUBSET Nat)] : D \in SUBSET Names}
Handles == [block_size : Nat \ {0}, names : Seq(Names), arrays : Seq(ArrayRecords),
            layers : Seq(LayerRecords), presence : Bitmaps]

\* The words of a bitmap that has a bit for every array.
Words(h) == CeilDiv(Len(h.arrays), WordBits)
AllNamed(h) == \A i \in DOMAIN h.arrays : Named(h, h.arrays[i].key)

\* Every layer has a bitmap and every bitmap a layer. A bitmap is complete,
\* unless there is an array that the full registry has refused a name.
IsIndex(h) ==
  /\ h \in Handles
  /\ \A i \in DOMAIN h.layers : IsFiniteSet(h.layers[i].keys)
  /\ DOMAIN h.presence = {h.layers[i].name : i \in DOMAIN h.layers}
  /\ \A l \in DOMAIN h.presence : Len(h.presence[l]) <= Words(h)
  /\ AllNamed(h) => \A l \in DOMAIN h.presence : Len(h.presence[l]) = Words(h)
  /\ ~AllNamed(h) => Len(h.names) > MaxCount

LEMMA BitmapsAre ==
  ASSUME NEW p
  PROVE  p \in Bitmaps <=> /\ DOMAIN p \subseteq Names
                           /\ p \in [DOMAIN p -> Seq(SUBSET Nat)]
BY DEF Bitmaps

LEMMA CeilDivFacts ==
  ASSUME NEW a \in Nat, NEW b \in Nat, NEW d \in Nat \ {0}
  PROVE  /\ CeilDiv(a, d) \in Nat
         /\ a <= b => CeilDiv(a, d) <= CeilDiv(b, d)
         /\ a < b => (a \div d) + 1 <= CeilDiv(b, d)
         /\ CeilDiv(a + 1, d) = (a \div d) + 1
<1>1. \A c \in Nat, e \in Nat : c <= e => c \div d <= e \div d OBVIOUS
<1>2. a + d - 1 \in Nat /\ b + d - 1 \in Nat /\ (a + 1) + d - 1 = a + d /\ a + d \in Nat OBVIOUS
<1>3. CeilDiv(a, d) \in Nat
  <2>1. \A c \in Nat : c \div d \in Nat OBVIOUS
  <2> QED BY <1>2, <2>1 DEF CeilDiv
<1>4. a <= b => CeilDiv(a, d) <= CeilDiv(b, d) BY <1>1, <1>2 DEF CeilDiv
<1>5. (a + d) \div d = (a \div d) + 1
  <2> DEFINE q == a \div d
             r == a % d
  <2>1. q \in Nat /\ r \in 0 .. d - 1 /\ a = q * d + r BY DivModIs
  <2> HIDE DEF q, r
  <2>2. a + d = (q + 1) * d + r BY <2>1
  <2>3. q + 1 \in Nat BY <2>1
  <2>4. ((q + 1) * d + r) \div d = q + 1 BY <2>1, <2>3, DivModOf
  <2> QED BY <2>2, <2>4 DEF q
<1>6. CeilDiv(a + 1, d) = (a \div d) + 1 BY <1>2, <1>5 DEF CeilDiv
<1>7. a < b => (a \div d) + 1 <= CeilDiv(b, d)
  <2> SUFFICES ASSUME a < b PROVE (a \div d) + 1 <= CeilDiv(b, d) OBVIOUS
  <2>1. a + d <= b + d - 1 OBVIOUS
  <2>2. (a + d) \div d <= (b + d - 1) \div d BY <1>1, <1>2, <2>1
  <2> QED BY <1>5, <2>2 DEF CeilDiv
<1> QED BY <1>3, <1>4, <1>6, <1>7

LEMMA ModBelow ==
  ASSUME NEW a \in Nat, NEW d \in Nat
  PROVE  /\ a % (d + 1) \in Nat /\ a % (d + 1) <= a
         /\ a <= d => a % (d + 1) = a
<1> DEFINE c == d + 1
           q == a \div c
           r == a % c
<1>1. c \in Nat \ {0} OBVIOUS
<1>2. q \in Nat /\ r \in 0 .. c - 1 /\ a = q * c + r
  <2> HIDE DEF c
  <2> QED BY <1>1, DivModIs
<1> HIDE DEF c, q, r
<1>3. q * c \in Nat BY <1>1, <1>2
<1>4. r \in Nat /\ r <= a BY <1>1, <1>2, <1>3
<1>5. ASSUME a < c PROVE r = a
  <2>1. q = 0 \/ q >= 1 BY <1>2
  <2>2. ASSUME q >= 1 PROVE FALSE
    <3>1. q * c >= c BY <1>1, <1>2, <2>2
    <3> QED BY <1>1, <1>2, <1>3, <1>5, <3>1
  <2> QED BY <1>1, <1>2, <2>1, <2>2
<1>6. a <= d => a < c BY DEF c
<1> QED BY <1>4, <1>5, <1>6 DEF r, c

\* A set of places that is not empty has a largest.
LEMMA MaxOfPlaces ==
  ASSUME NEW n \in Nat, NEW I \in SUBSET (1 .. n), I # {}
  PROVE  Max(I) \in I
<1> DEFINE T == {n - i : i \in I}
<1>1. T \subseteq Nat /\ T # {}
  <2>1. \A i \in 1 .. n : n - i \in Nat OBVIOUS
  <2>2. \A i \in I : n - i \in Nat BY <2>1
  <2> QED BY <2>2
<1>2. PICK m \in T : \A k \in T : m <= k
  <2> HIDE DEF T
  <2> QED BY <1>1, LeastNat
<1>3. PICK i \in I : m = n - i OBVIOUS
<1>4. ASSUME NEW j \in I PROVE i >= j
  <2>1. n - j \in T OBVIOUS
  <2>2. m <= n - j BY <1>2, <2>1
  <2>3. i \in Nat /\ j \in Nat OBVIOUS
  <2> HIDE DEF T
  <2> QED BY <1>3, <2>2, <2>3
<1> HIDE DEF T
<1>5. \E x \in I : \A y \in I : x >= y BY <1>4
<1>6. (CHOOSE x \in I : \A y \in I : x >= y) \in I BY <1>5
<1> QED BY <1>6 DEF Max

\* Where the maps from names to places lead.
LEMMA NameAtFacts ==
  ASSUME NEW h, h.names \in Seq(Names), NEW n
  PROVE  /\ NameAt(h, n) \in Int
         /\ Named(h, n) => /\ NameAt(h, n) \in 0 .. Len(h.names) - 1
                           /\ h.names[NameAt(h, n) + 1] = n
<1> DEFINE I == {i \in 1 .. Len(h.names) : h.names[i] = n}
<1>1. Len(h.names) \in Nat /\ I \in SUBSET (1 .. Len(h.names)) OBVIOUS
<1>2. NameAt(h, n) = (IF I # {} THEN Max(I) ELSE 0) - 1 BY DEF NameAt, SelectLastInSeq
<1>3. I # {} => Max(I) \in I
  <2> HIDE DEF I
  <2> QED BY <1>1, MaxOfPlaces
<1>4. Named(h, n) => I # {} BY DEF Named, Contains
<1>5. CASE I = {} BY <1>2, <1>4, <1>5
<1>6. CASE I # {}
  <2> DEFINE m == Max(I)
  <2>1. m \in 1 .. Len(h.names) /\ h.names[m] = n BY <1>3, <1>6
  <2>2. NameAt(h, n) = m - 1 BY <1>2, <1>6
  <2> HIDE DEF m, I
  <2>3. NameAt(h, n) + 1 = m BY <2>1, <2>2
  <2> QED BY <2>1, <2>2, <2>3
<1> QED BY <1>5, <1>6

LEMMA ArrayAtFacts ==
  ASSUME NEW h, h.arrays \in Seq(ArrayRecords), NEW k, HasArray(h, k)
  PROVE  /\ ArrayAt(h, k) \in 0 .. Len(h.arrays) - 1
         /\ h.arrays[ArrayAt(h, k) + 1].key = k
<1> DEFINE I == {i \in 1 .. Len(h.arrays) : h.arrays[i].key = k}
<1>1. Len(h.arrays) \in Nat /\ I \in SUBSET (1 .. Len(h.arrays)) OBVIOUS
<1>2. ArrayAt(h, k) = (IF I # {} THEN Max(I) ELSE 0) - 1 BY DEF ArrayAt, SelectLastInSeq
<1>4. I # {} BY DEF HasArray
<1>3. Max(I) \in I
  <2> HIDE DEF I
  <2> QED BY <1>1, <1>4, MaxOfPlaces
<1> DEFINE m == Max(I)
<1>5. m \in 1 .. Len(h.arrays) /\ h.arrays[m].key = k BY <1>3
<1>6. ArrayAt(h, k) = m - 1 BY <1>2, <1>4
<1> HIDE DEF m, I
<1>7. ArrayAt(h, k) + 1 = m BY <1>5, <1>6
<1> QED BY <1>5, <1>6, <1>7

LEMMA LayerAtFacts ==
  ASSUME NEW h, h.layers \in Seq(LayerRecords), NEW l,
         \E i \in DOMAIN h.layers : h.layers[i].name = l
  PROVE  LayerAt(h, l) \in DOMAIN h.layers /\ h.layers[LayerAt(h, l)].name = l
<1> DEFINE I == {i \in 1 .. Len(h.layers) : h.layers[i].name = l}
<1>1. Len(h.layers) \in Nat /\ I \in SUBSET (1 .. Len(h.layers)) OBVIOUS
<1>2. LayerAt(h, l) = (IF I # {} THEN Max(I) ELSE 0) BY DEF LayerAt, SelectLastInSeq
<1>4. I # {} OBVIOUS
<1>3. Max(I) \in I
  <2> HIDE DEF I
  <2> QED BY <1>1, <1>4, MaxOfPlaces
<1> QED BY <1>2, <1>3, <1>4
--------------------------------------------------------------------------------
(* The fields of an index, part by part.                                   *)

KeyPart(h) == [i \in 1 .. Len(h.names) |-> KeyField(h.names[i])]
IndexPart(l) == [k \in 1 .. Cardinality(l.keys) |-> IndexField(Ascending(l.keys)[k])]
LayerChunks(h) ==
  [i \in 1 .. Len(h.layers) |-> <<LayerField(h.layers[i])>> \o IndexPart(h.layers[i])]
LayerPart(h) == [i \in 1 .. Len(h.layers) |-> LayerField(h.layers[i])]
IndexChunks(h) == [i \in 1 .. Len(h.layers) |-> IndexPart(h.layers[i])]
WordPart(h, l) == [k \in 1 .. Len(h.presence[l]) |-> WordField(h.presence[l][k])]
WordChunks(h) == [i \in 1 .. Len(h.layers) |-> WordPart(h, h.layers[i].name)]
EntryPart(h) == [i \in 1 .. Len(h.arrays) |-> EntryField(h, h.arrays[i])]

LEMMA IndexTypes ==
  ASSUME NEW h, IsIndex(h)
  PROVE  /\ h.block_size \in Nat \ {0} /\ h.names \in Seq(Names)
         /\ h.arrays \in Seq(ArrayRecords) /\ h.layers \in Seq(LayerRecords)
         /\ Len(h.names) \in Nat /\ Len(h.arrays) \in Nat /\ Len(h.layers) \in Nat
         /\ DOMAIN h.presence \subseteq Names
         /\ \A l \in DOMAIN h.presence : h.presence[l] \in Seq(SUBSET Nat)
         /\ \A i \in 1 .. Len(h.layers) : /\ h.layers[i] \in LayerRecords
                                          /\ h.layers[i].name \in DOMAIN h.presence
                                          /\ IsFiniteSet(h.layers[i].keys)
         /\ Words(h) \in Nat
<1>1. h \in Handles BY DEF IsIndex
<1>2. /\ h.block_size \in Nat \ {0} /\ h.names \in Seq(Names)
      /\ h.arrays \in Seq(ArrayRecords) /\ h.layers \in Seq(LayerRecords) /\ h.presence \in Bitmaps
  BY <1>1 DEF Handles
<1>3. Len(h.names) \in Nat /\ Len(h.arrays) \in Nat /\ Len(h.layers) \in Nat BY <1>2
<1>4. /\ DOMAIN h.presence \subseteq Names
      /\ h.presence \in [DOMAIN h.presence -> Seq(SUBSET Nat)]
  BY <1>2, BitmapsAre
<1>5. \A l \in DOMAIN h.presence : h.presence[l] \in Seq(SUBSET Nat) BY <1>4
<1>6. ASSUME NEW i \in 1 .. Len(h.layers)
      PROVE  /\ h.layers[i] \in LayerRecords
             /\ h.layers[i].name \in DOMAIN h.presence /\ IsFiniteSet(h.layers[i].keys)
  BY <1>2 DEF IsIndex
<1>7. Words(h) \in Nat
  <2>1. WordBits \in Nat \ {0} BY HeaderAssumption
  <2> QED BY <1>3, <2>1, CeilDivFacts DEF Words
<1> QED BY <1>2, <1>3, <1>4, <1>5, <1>6, <1>7

LEMMA KeyFieldFacts ==
  ASSUME NEW n \in Names
  PROVE  /\ KeyField(n) \in KeyFields
         /\ KeyField(n).size <= 2 + NameLength(n) + 8
         /\ NameLength(n) <= MaxLength => KeyField(n).name = n
<1>1. NameLength(n) \in Nat /\ Cut(n) \in Names /\ MaxLength \in Nat BY HeaderAssumption
<1>2. Length16(n) \in Nat /\ Length16(n) <= NameLength(n) BY <1>1, ModBelow DEF Length16
<1>3. Spelt(n) \in Names BY <1>1 DEF Spelt
<1>4. NameLength(n) <= MaxLength => Spelt(n) = n BY DEF Spelt
<1> QED BY <1>1, <1>2, <1>3, <1>4 DEF KeyField, KeyFields

LEMMA LayerFieldFacts ==
  ASSUME NEW l \in LayerRecords, IsFiniteSet(l.keys)
  PROVE  /\ LayerField(l) \in LayerFields
         /\ LayerField(l).size <= 2 + NameLength(l.name) + 8 + 4 + 1 + 2
         /\ LayerField(l).count <= Cardinality(l.keys)
         /\ NameLength(l.name) <= MaxLength => LayerField(l).name = l.name
         /\ Cardinality(l.keys) <= MaxCount => LayerField(l).count = Cardinality(l.keys)
<1> DEFINE n == l.name
           c == Cardinality(l.keys)
<1>0. n \in Names BY DEF LayerRecords
<1>1. NameLength(n) \in Nat /\ Cut(n) \in Names /\ MaxLength \in Nat /\ MaxCount \in Nat
  BY <1>0, HeaderAssumption
<1>2. Length16(n) \in Nat /\ Length16(n) <= NameLength(n) BY <1>1, ModBelow DEF Length16
<1>3. Spelt(n) \in Names BY <1>0, <1>1 DEF Spelt
<1>4. NameLength(n) <= MaxLength => Spelt(n) = n BY DEF Spelt
<1>5. c \in Nat BY FS_CardinalityType
<1>6. /\ c % (MaxCount + 1) \in Nat /\ c % (MaxCount + 1) <= c
      /\ c <= MaxCount => c % (MaxCount + 1) = c
  <2> HIDE DEF c
  <2> QED BY <1>1, <1>5, ModBelow
<1>7. LayerField(l) = [kind |-> "layer", size |-> 2 + Length16(n) + 8 + 4 + 1 + 2,
                       name |-> Spelt(n), count |-> c % (MaxCount + 1)]
  BY DEF LayerField
<1> HIDE DEF n, c
<1>8. LayerField(l) \in LayerFields BY <1>2, <1>3, <1>6, <1>7 DEF LayerFields
<1>9. LayerField(l).size <= 2 + NameLength(n) + 8 + 4 + 1 + 2 BY <1>1, <1>2, <1>7
<1>10. LayerField(l).name = Spelt(n) /\ LayerField(l).count = c % (MaxCount + 1) BY <1>7
<1> QED BY <1>4, <1>6, <1>8, <1>9, <1>10 DEF n, c

LEMMA IndexPartFacts ==
  ASSUME NEW l \in LayerRecords, IsFiniteSet(l.keys)
  PROVE  /\ Cardinality(l.keys) \in Nat
         /\ IndexPart(l) \in Seq(IndexFields) /\ Len(IndexPart(l)) = Cardinality(l.keys)
         /\ \A k \in 1 .. Cardinality(l.keys) : /\ IndexPart(l)[k].size = 2
                                                /\ IndexPart(l)[k].at = Ascending(l.keys)[k]
<1> DEFINE n == Cardinality(l.keys)
           s == Ascending(l.keys)
<1>1. l.keys \in SUBSET Nat BY DEF LayerRecords
<1>2. n \in Nat /\ s \in [1 .. n -> l.keys] BY <1>1, AscendingListsAll
<1>3. IndexPart(l) = [k \in 1 .. n |-> IndexField(s[k])] BY DEF IndexPart
<1> HIDE DEF n, s
<1>4. \A k \in 1 .. n : s[k] \in Nat BY <1>1, <1>2
<1>5. \A k \in 1 .. n : /\ IndexField(s[k]) \in IndexFields
                        /\ IndexField(s[k]).size = 2 /\ IndexField(s[k]).at = s[k]
  BY <1>4 DEF IndexField, IndexFields
<1>6. IndexPart(l) \in [1 .. n -> IndexFields] BY <1>3, <1>5
<1>7. IndexPart(l) \in Seq(IndexFields) /\ Len(IndexPart(l)) = n BY <1>2, <1>6
<1>8. \A k \in 1 .. n : IndexPart(l)[k] = IndexField(s[k]) BY <1>3
<1> QED BY <1>2, <1>5, <1>7, <1>8 DEF n, s

LEMMA EntryFieldFacts ==
  ASSUME NEW h, h.names \in Seq(Names), NEW a \in ArrayRecords
  PROVE  /\ EntryField(h, a) \in EntryFields
         /\ EntryField(h, a).size = 2 + 43 + 8 * a.dims + 24 * a.blocks
<1>1. a.dims \in Nat /\ a.bytes \in Nat /\ a.blocks \in Nat BY DEF ArrayRecords
<1>2. NameAt(h, a.key) \in Int BY NameAtFacts
<1> DEFINE d == a.dims
           b == a.blocks
           z == 2 + 8 + 8 + 1 + 8 + 8 * d + 1 + 8 + 8 + 24 * b + 1
           at == NameAt(h, a.key)
<1>3. EntryField(h, a) = [kind |-> "entry", size |-> z, at |-> at, dims |-> d,
                          bytes |-> a.bytes, blocks |-> b]
  BY DEF EntryField
<1>4. d \in Nat /\ b \in Nat BY <1>1
<1> HIDE DEF d, b, at
<1>5. z \in Nat /\ z = 2 + 43 + 8 * d + 24 * b BY <1>4
<1> HIDE DEF z
<1>6. at \in Int /\ a.bytes \in Nat BY <1>1, <1>2 DEF at
<1>7. EntryField(h, a) \in EntryFields BY <1>3, <1>4, <1>5, <1>6 DEF EntryFields
<1>8. EntryField(h, a).size = z BY <1>3
<1> QED BY <1>5, <1>7, <1>8 DEF d, b
LEMMA KeyPartFacts ==
  ASSUME NEW h, IsIndex(h)
  PROVE  /\ KeyPart(h) \in Seq(KeyFields) /\ Len(KeyPart(h)) = Len(h.names)
         /\ \A i \in 1 .. Len(h.names) : KeyPart(h)[i] = KeyField(h.names[i])
<1> DEFINE n == Len(h.names)
<1>1. n \in Nat /\ \A i \in 1 .. n : h.names[i] \in Names BY IndexTypes
<1>2. KeyPart(h) = [i \in 1 .. n |-> KeyField(h.names[i])] BY DEF KeyPart
<1> HIDE DEF n
<1>3. KeyPart(h) \in [1 .. n -> KeyFields] BY <1>1, <1>2, KeyFieldFacts
<1>4. KeyPart(h) \in Seq(KeyFields) /\ Len(KeyPart(h)) = n BY <1>1, <1>3
<1> QED BY <1>2, <1>4 DEF n

LEMMA LayerPartFacts ==
  ASSUME NEW h, IsIndex(h)
  PROVE  /\ LayerPart(h) \in Seq(LayerFields) /\ Len(LayerPart(h)) = Len(h.layers)
         /\ \A i \in 1 .. Len(h.layers) : LayerPart(h)[i] = LayerField(h.layers[i])
<1> DEFINE n == Len(h.layers)
<1>1. n \in Nat /\ \A i \in 1 .. n : h.layers[i] \in LayerRecords /\ IsFiniteSet(h.layers[i].keys)
  BY IndexTypes
<1>2. LayerPart(h) = [i \in 1 .. n |-> LayerField(h.layers[i])] BY DEF LayerPart
<1> HIDE DEF n
<1>3. LayerPart(h) \in [1 .. n -> LayerFields] BY <1>1, <1>2, LayerFieldFacts
<1>4. LayerPart(h) \in Seq(LayerFields) /\ Len(LayerPart(h)) = n BY <1>1, <1>3
<1> QED BY <1>2, <1>4 DEF n

LEMMA KindsAreFields ==
  /\ KeyFields \subseteq Field /\ LayerFields \subseteq Field /\ IndexFields \subseteq Field
  /\ WordFields \subseteq Field /\ EntryFields \subseteq Field
BY DEF Field

LEMMA LayerChunksFacts ==
  ASSUME NEW h, IsIndex(h)
  PROVE  /\ LayerChunks(h) \in Seq(Seq(Field)) /\ Len(LayerChunks(h)) = Len(h.layers)
         /\ IndexChunks(h) \in Seq(Seq(IndexFields)) /\ Len(IndexChunks(h)) = Len(h.layers)
         /\ \A i \in 1 .. Len(h.layers) :
              /\ IndexChunks(h)[i] = IndexPart(h.layers[i])
              /\ IndexPart(h.layers[i]) \in Seq(IndexFields)
              /\ IndexPart(h.layers[i]) \in Seq(Field)
              /\ <<LayerField(h.layers[i])>> \in Seq(LayerFields)
              /\ <<LayerField(h.layers[i])>> \in Seq(Field)
              /\ LayerChunks(h)[i] = <<LayerField(h.layers[i])>> \o IndexPart(h.layers[i])
<1> DEFINE n == Len(h.layers)
           x(i) == <<LayerField(h.layers[i])>>
           y(i) == IndexPart(h.layers[i])
<1>1. n \in Nat /\ \A i \in 1 .. n : h.layers[i] \in LayerRecords /\ IsFiniteSet(h.layers[i].keys)
  BY IndexTypes
<1>2. \A i \in 1 .. n : LayerField(h.layers[i]) \in LayerFields BY <1>1, LayerFieldFacts
<1>3. \A i \in 1 .. n : y(i) \in Seq(IndexFields) BY <1>1, IndexPartFacts
<1>4. ASSUME NEW i \in 1 .. n
      PROVE  x(i) \in Seq(LayerFields) /\ x(i) \in Seq(Field) /\ y(i) \in Seq(Field)
  <2> DEFINE f == LayerField(h.layers[i])
  <2>1. f \in LayerFields /\ f \in Field BY <1>2, KindsAreFields
  <2> HIDE DEF f
  <2>2. <<f>> \in Seq(LayerFields) /\ <<f>> \in Seq(Field) BY <2>1
  <2>3. y(i) \in Seq(Field)
    <3>1. y(i) \in Seq(IndexFields) BY <1>3
    <3> HIDE DEF y
    <3> QED BY <3>1, KindsAreFields
  <2> QED BY <2>2, <2>3 DEF f
<1>5. LayerChunks(h) = [i \in 1 .. n |-> x(i) \o y(i)] BY DEF LayerChunks
<1>6. IndexChunks(h) = [i \in 1 .. n |-> y(i)] BY DEF IndexChunks
<1> HIDE DEF n, x, y
<1>7. \A i \in 1 .. n : x(i) \o y(i) \in Seq(Field) BY <1>4
<1>8. LayerChunks(h) \in [1 .. n -> Seq(Field)]
  <2> DEFINE z(i) == x(i) \o y(i)
  <2>1. \A i \in 1 .. n : z(i) \in Seq(Field) BY <1>7
  <2>2. LayerChunks(h) = [i \in 1 .. n |-> z(i)] BY <1>5, Zenon
  <2> HIDE DEF z
  <2> QED BY <2>1, <2>2
<1>9. LayerChunks(h) \in Seq(Seq(Field)) /\ Len(LayerChunks(h)) = n BY <1>1, <1>8
<1>10. IndexChunks(h) \in [1 .. n -> Seq(IndexFields)] BY <1>3, <1>6
<1>11. IndexChunks(h) \in Seq(Seq(IndexFields)) /\ Len(IndexChunks(h)) = n BY <1>1, <1>10
<1>12. \A i \in 1 .. n : LayerChunks(h)[i] = x(i) \o y(i) BY <1>5, Zenon
<1>13. \A i \in 1 .. n : IndexChunks(h)[i] = y(i) BY <1>6
<1> QED BY <1>3, <1>4, <1>9, <1>11, <1>12, <1>13 DEF n, x, y

LEMMA WordChunksFacts ==
  ASSUME NEW h, IsIndex(h)
  PROVE  /\ WordChunks(h) \in Seq(Seq(WordFields)) /\ Len(WordChunks(h)) = Len(h.layers)
         /\ \A i \in 1 .. Len(h.layers) :
              LET p == h.presence[h.layers[i].name]
              IN  /\ WordChunks(h)[i] \in Seq(WordFields)
                  /\ Len(WordChunks(h)[i]) = Len(p) /\ Len(p) \in Nat
                  /\ \A k \in 1 .. Len(p) : WordChunks(h)[i][k] = WordField(p[k])
<1> DEFINE n == Len(h.layers)
           p(i) == h.presence[h.layers[i].name]
<1>1. n \in Nat /\ \A i \in 1 .. n : p(i) \in Seq(SUBSET Nat) BY IndexTypes
<1>2. \A i \in 1 .. n : WordPart(h, h.layers[i].name) = [k \in 1 .. Len(p(i)) |-> WordField(p(i)[k])]
  BY DEF WordPart
<1>3. WordChunks(h) = [i \in 1 .. n |-> WordPart(h, h.layers[i].name)] BY DEF WordChunks
<1> HIDE DEF n, p
<1>4. ASSUME NEW i \in 1 .. n
      PROVE  /\ WordChunks(h)[i] \in Seq(WordFields) /\ Len(WordChunks(h)[i]) = Len(p(i))
             /\ Len(p(i)) \in Nat
             /\ \A k \in 1 .. Len(p(i)) : WordChunks(h)[i][k] = WordField(p(i)[k])
  <2> DEFINE q == p(i)
             w == WordChunks(h)[i]
  <2>1. q \in Seq(SUBSET Nat) /\ Len(q) \in Nat /\ \A k \in 1 .. Len(q) : q[k] \in SUBSET Nat BY <1>1
  <2>2. w = [k \in 1 .. Len(q) |-> WordField(q[k])] BY <1>2, <1>3
  <2> HIDE DEF q, w
  <2>3. \A k \in 1 .. Len(q) : WordField(q[k]) \in WordFields BY <2>1 DEF WordField, WordFields
  <2>4. w \in [1 .. Len(q) -> WordFields] BY <2>2, <2>3
  <2>5. w \in Seq(WordFields) /\ Len(w) = Len(q) BY <2>1, <2>4
  <2>6. \A k \in 1 .. Len(q) : w[k] = WordField(q[k]) BY <2>2
  <2> QED BY <2>1, <2>5, <2>6 DEF q, w
<1>5. WordChunks(h) \in [1 .. n -> Seq(WordFields)]
  <2>1. \A i \in 1 .. n : WordPart(h, h.layers[i].name) \in Seq(WordFields) BY <1>3, <1>4
  <2> QED BY <1>3, <2>1
<1>6. WordChunks(h) \in Seq(Seq(WordFields)) /\ Len(WordChunks(h)) = n BY <1>1, <1>5
<1> QED BY <1>4, <1>6 DEF n, p

LEMMA EntryPartFacts ==
  ASSUME NEW h, IsIndex(h)
  PROVE  /\ EntryPart(h) \in Seq(EntryFields) /\ Len(EntryPart(h)) = Len(h.arrays)
         /\ \A i \in 1 .. Len(h.arrays) : EntryPart(h)[i] = EntryField(h, h.arrays[i])
<1> DEFINE n == Len(h.arrays)
<1>1. n \in Nat /\ h.names \in Seq(Names) /\ \A i \in 1 .. n : h.arrays[i] \in ArrayRecords
  BY IndexTypes
<1>2. EntryPart(h) = [i \in 1 .. n |-> EntryField(h, h.arrays[i])] BY DEF EntryPart
<1> HIDE DEF n
<1>3. EntryPart(h) \in [1 .. n -> EntryFields] BY <1>1, <1>2, EntryFieldFacts
<1>4. EntryPart(h) \in Seq(EntryFields) /\ Len(EntryPart(h)) = n BY <1>1, <1>3
<1> QED BY <1>2, <1>4 DEF n

LEMMA FieldsAreParts ==
  ASSUME NEW h, IsIndex(h)
  PROVE  Fields(h) = ((KeyPart(h) \o FlattenSeq(LayerChunks(h))) \o FlattenSeq(WordChunks(h)))
                     \o EntryPart(h)
<1>1. DOMAIN h.names = 1 .. Len(h.names) /\ DOMAIN h.arrays = 1 .. Len(h.arrays)
      /\ DOMAIN h.layers = 1 .. Len(h.layers)
  BY IndexTypes
<1>2. Map(KeyField, h.names) = KeyPart(h) BY <1>1 DEF Map, KeyPart
<1>3. Map(LAMBDA l : <<LayerField(l)>> \o Map(IndexField, Ascending(l.keys)), h.layers)
        = LayerChunks(h)
  <2>1. \A l : Map(IndexField, Ascending(l.keys)) = IndexPart(l)
    <3> SUFFICES ASSUME NEW l PROVE Map(IndexField, Ascending(l.keys)) = IndexPart(l) OBVIOUS
    <3> DEFINE s == Ascending(l.keys)
    <3>1. DOMAIN s = 1 .. Cardinality(l.keys) BY DEF Ascending
    <3> HIDE DEF s
    <3>2. [i \in DOMAIN s |-> IndexField(s[i])] = [i \in 1 .. Cardinality(l.keys) |-> IndexField(s[i])]
      BY <3>1
    <3> QED BY <3>2 DEF Map, IndexPart, s
  <2>2. [i \in DOMAIN h.layers |-> <<LayerField(h.layers[i])>>
                                     \o Map(IndexField, Ascending(h.layers[i].keys))]
          = [i \in 1 .. Len(h.layers) |-> <<LayerField(h.layers[i])>> \o IndexPart(h.layers[i])]
    BY <1>1, <2>1, Zenon
  <2> QED BY <2>2 DEF Map, LayerChunks
<1>4. Map(LAMBDA l : Map(WordField, h.presence[l.name]), h.layers) = WordChunks(h)
  <2>1. \A i \in 1 .. Len(h.layers) :
          Map(WordField, h.presence[h.layers[i].name]) = WordPart(h, h.layers[i].name)
    <3> SUFFICES ASSUME NEW i \in 1 .. Len(h.layers)
                 PROVE  Map(WordField, h.presence[h.layers[i].name]) = WordPart(h, h.layers[i].name)
      OBVIOUS
    <3> DEFINE p == h.presence[h.layers[i].name]
    <3>1. p \in Seq(SUBSET Nat) BY IndexTypes
    <3> HIDE DEF p
    <3>2. [k \in DOMAIN p |-> WordField(p[k])] = [k \in 1 .. Len(p) |-> WordField(p[k])] BY <3>1
    <3> QED BY <3>2 DEF Map, WordPart, p
  <2>2. [i \in DOMAIN h.layers |-> Map(WordField, h.presence[h.layers[i].name])]
          = [i \in 1 .. Len(h.layers) |-> WordPart(h, h.layers[i].name)]
    BY <1>1, <2>1
  <2> QED BY <2>2 DEF Map, WordChunks
<1>5. Map(LAMBDA a : EntryField(h, a), h.arrays) = EntryPart(h) BY <1>1 DEF Map, EntryPart
<1> QED BY <1>2, <1>3, <1>4, <1>5, Zenon DEF Fields
--------------------------------------------------------------------------------
(* The bytes of an index fit into what is reserved for it.                 *)

LEMMA BytesOne ==
  ASSUME NEW f \in Field
  PROVE  Bytes(<<f>>) = f.size
<1>1. f.size \in Nat BY FieldSize
<1>2. [i \in DOMAIN <<f>> |-> <<f>>[i].size] = Append(<<>>, f.size) OBVIOUS
<1>3. <<>> \in Seq(Nat) OBVIOUS
<1>4. Sum(Append(<<>>, f.size)) = Sum(<<>>) + f.size BY <1>1, <1>3, SumAppend
<1> QED BY <1>1, <1>2, <1>4, SumEmpty DEF Bytes

LEMMA BytesOfEqual ==
  ASSUME NEW s \in Seq(Field), NEW c \in Nat, \A i \in 1 .. Len(s) : s[i].size = c
  PROVE  Bytes(s) = Len(s) * c
<1>1. Len(s) \in Nat /\ DOMAIN s = 1 .. Len(s) OBVIOUS
<1>2. [i \in DOMAIN s |-> s[i].size] = [i \in 1 .. Len(s) |-> c] BY <1>1
<1> QED BY <1>1, <1>2, SumConstant DEF Bytes

\* The terms of HeaderSize.
KeySizes(h) == [i \in 1 .. Len(h.names) |-> 2 + NameLength(h.names[i]) + 8]
LayerSizes(h) ==
  [i \in 1 .. Len(h.layers) |->
     2 + NameLength(h.layers[i].name) + 8 + 4 + 1 + 2 + 2 * Cardinality(h.layers[i].keys)]
EntrySizes(h) ==
  [i \in 1 .. Len(h.arrays) |-> 2 + 43 + 8 * h.arrays[i].dims + 24 * h.arrays[i].blocks]

LEMMA HeaderSizeIs ==
  ASSUME NEW h, IsIndex(h)
  PROVE  HeaderSize(h) = FixedSize + Sum(KeySizes(h)) + Sum(LayerSizes(h))
                         + Len(h.layers) * (8 * Words(h)) + Sum(EntrySizes(h))
<1>1. DOMAIN h.names = 1 .. Len(h.names) /\ DOMAIN h.arrays = 1 .. Len(h.arrays)
      /\ DOMAIN h.layers = 1 .. Len(h.layers)
  BY IndexTypes
<1> QED BY <1>1, Zenon DEF HeaderSize, Map, KeySizes, LayerSizes, EntrySizes, Words

LEMMA KeyBytes ==
  ASSUME NEW h, IsIndex(h)
  PROVE  Bytes(KeyPart(h)) <= Sum(KeySizes(h)) /\ Sum(KeySizes(h)) \in Nat
<1> DEFINE n == Len(h.names)
           a == [i \in 1 .. n |-> KeyPart(h)[i].size]
<1>1. n \in Nat /\ \A i \in 1 .. n : h.names[i] \in Names BY IndexTypes
<1>2. /\ KeyPart(h) \in Seq(KeyFields) /\ Len(KeyPart(h)) = n
      /\ \A i \in 1 .. n : KeyPart(h)[i] = KeyField(h.names[i])
  BY KeyPartFacts
<1>3. KeySizes(h) = [i \in 1 .. n |-> 2 + NameLength(h.names[i]) + 8] BY DEF KeySizes
<1> HIDE DEF n
<1>4. ASSUME NEW i \in 1 .. n
      PROVE  /\ KeyPart(h)[i].size \in Nat
             /\ KeyPart(h)[i].size <= 2 + NameLength(h.names[i]) + 8
             /\ 2 + NameLength(h.names[i]) + 8 \in Nat
  <2>1. KeyField(h.names[i]) \in KeyFields BY <1>1, KeyFieldFacts
  <2>2. KeyField(h.names[i]).size \in Nat BY <2>1 DEF KeyFields
  <2>3. NameLength(h.names[i]) \in Nat BY <1>1, HeaderAssumption
  <2> QED BY <1>1, <1>2, <2>2, <2>3, KeyFieldFacts
<1>5. a \in [1 .. n -> Nat] /\ KeySizes(h) \in [1 .. n -> Nat] BY <1>3, <1>4
<1>6. \A i \in 1 .. n : a[i] <= KeySizes(h)[i] BY <1>3, <1>4
<1>7. Bytes(KeyPart(h)) = Sum(a)
  <2>1. DOMAIN KeyPart(h) = 1 .. n BY <1>2
  <2> QED BY <2>1 DEF Bytes
<1> HIDE DEF a
<1>8. Sum(a) <= Sum(KeySizes(h)) BY <1>1, <1>5, <1>6, SumMonotone
<1>9. KeySizes(h) \in Seq(Nat) BY <1>1, <1>5
<1> QED BY <1>7, <1>8, <1>9, SumType

LEMMA LayerBytes ==
  ASSUME NEW h, IsIndex(h)
  PROVE  Bytes(FlattenSeq(LayerChunks(h))) <= Sum(LayerSizes(h)) /\ Sum(LayerSizes(h)) \in Nat
<1> DEFINE n == Len(h.layers)
           c == LayerChunks(h)
           a == [i \in 1 .. n |-> Bytes(c[i])]
<1>1. n \in Nat /\ \A i \in 1 .. n : h.layers[i] \in LayerRecords /\ IsFiniteSet(h.layers[i].keys)
  BY IndexTypes
<1>2. c \in Seq(Seq(Field)) /\ Len(c) = n BY LayerChunksFacts
<1>3. ASSUME NEW i \in 1 .. n
      PROVE  /\ Bytes(c[i]) \in Nat
             /\ Bytes(c[i]) <= LayerSizes(h)[i]
             /\ LayerSizes(h)[i] \in Nat
  <2> DEFINE l == h.layers[i]
             x == <<LayerField(l)>>
             y == IndexPart(l)
             m == Cardinality(l.keys)
  <2>1. l \in LayerRecords /\ IsFiniteSet(l.keys) BY <1>1
  <2>2. x \in Seq(Field) /\ y \in Seq(Field) /\ c[i] = x \o y BY LayerChunksFacts
  <2>3. LayerSizes(h)[i] = 2 + NameLength(l.name) + 8 + 4 + 1 + 2 + 2 * m BY DEF LayerSizes
  <2> HIDE DEF l
  <2>4. Bytes(x \o y) = Bytes(x) + Bytes(y)
    <3> HIDE DEF x, y
    <3> QED BY <2>2, BytesConcat
  <2>5. LayerField(l) \in LayerFields /\ LayerField(l) \in Field
        /\ LayerField(l).size <= 2 + NameLength(l.name) + 8 + 4 + 1 + 2
    BY <2>1, LayerFieldFacts, KindsAreFields
  <2>6. Bytes(x) = LayerField(l).size BY <2>5, BytesOne
  <2>7. m \in Nat /\ Len(y) = m /\ \A k \in 1 .. m : y[k].size = 2 BY <2>1, IndexPartFacts
  <2>8. Bytes(y) = m * 2
    <3> HIDE DEF y, m
    <3> QED BY <2>2, <2>7, BytesOfEqual
  <2>9. LayerField(l).size \in Nat BY <2>5, FieldSize
  <2>10. NameLength(l.name) \in Nat
    <3>1. l.name \in Names BY <2>1 DEF LayerRecords
    <3> QED BY <3>1, HeaderAssumption
  <2> HIDE DEF x, y, m, c
  <2>11. Bytes(c[i]) = LayerField(l).size + m * 2 BY <2>2, <2>4, <2>6, <2>8
  <2> DEFINE f == LayerField(l).size
             z == NameLength(l.name)
             u == LayerSizes(h)[i]
             v == Bytes(c[i])
  <2>12. f \in Nat /\ z \in Nat /\ m \in Nat /\ f <= 2 + z + 8 + 4 + 1 + 2
         /\ u = 2 + z + 8 + 4 + 1 + 2 + 2 * m /\ v = f + m * 2
    BY <2>3, <2>5, <2>7, <2>9, <2>10, <2>11
  <2> HIDE DEF f, z, u, v
  <2>13. v \in Nat /\ v <= u /\ u \in Nat BY <2>12
  <2> QED BY <2>13 DEF u, v
<1>4. a \in [1 .. n -> Nat] BY <1>3
<1>5. LayerSizes(h) \in [1 .. n -> Nat]
  <2>1. LayerSizes(h) = [i \in 1 .. n |-> LayerSizes(h)[i]] BY DEF LayerSizes
  <2>2. \A i \in 1 .. n : LayerSizes(h)[i] \in Nat BY <1>3
  <2> HIDE DEF n
  <2> QED BY <2>1, <2>2
<1>6. \A i \in 1 .. n : a[i] <= LayerSizes(h)[i]
  <2>1. \A i \in 1 .. n : a[i] = Bytes(c[i]) OBVIOUS
  <2> HIDE DEF a, c, n
  <2> QED BY <1>3, <2>1
<1>7. Bytes(FlattenSeq(c)) = Sum(a)
  <2>1. Bytes(FlattenSeq(c)) = Sum([i \in 1 .. Len(c) |-> Bytes(c[i])])
    <3> HIDE DEF c
    <3> QED BY <1>2, BytesFlatten
  <2> QED BY <1>2, <2>1
<1> HIDE DEF a, c, n
<1>8. Sum(a) <= Sum(LayerSizes(h)) BY <1>1, <1>4, <1>5, <1>6, SumMonotone
<1>9. LayerSizes(h) \in Seq(Nat) BY <1>1, <1>5
<1> QED BY <1>7, <1>8, <1>9, SumType DEF c

LEMMA WordBytes ==
  ASSUME NEW h, IsIndex(h)
  PROVE  /\ Bytes(FlattenSeq(WordChunks(h))) <= Len(h.layers) * (8 * Words(h))
         /\ Len(h.layers) * (8 * Words(h)) \in Nat
<1> DEFINE n == Len(h.layers)
           c == WordChunks(h)
           w == 8 * Words(h)
           a == [i \in 1 .. n |-> Bytes(c[i])]
           b == [i \in 1 .. n |-> w]
<1>1. n \in Nat /\ Words(h) \in Nat BY IndexTypes
<1>2. w \in Nat BY <1>1
<1>3. c \in Seq(Seq(WordFields)) /\ Len(c) = n BY WordChunksFacts
<1>4. c \in Seq(Seq(Field))
  <2>1. \A i \in 1 .. n : c[i] \in Seq(WordFields) BY <1>3
  <2> HIDE DEF c, n
  <2>2. \A i \in 1 .. n : c[i] \in Seq(Field) BY <2>1, KindsAreFields
  <2> QED BY <1>1, <1>3, <2>2
<1>5. ASSUME NEW i \in 1 .. n PROVE Bytes(c[i]) \in Nat /\ Bytes(c[i]) <= w
  <2> DEFINE p == h.presence[h.layers[i].name]
             s == c[i]
  <2>1. /\ s \in Seq(WordFields) /\ Len(s) = Len(p) /\ Len(p) \in Nat
        /\ \A k \in 1 .. Len(p) : s[k] = WordField(p[k])
    BY WordChunksFacts
  <2>2. Len(p) <= Words(h)
    <3>1. h.layers[i].name \in DOMAIN h.presence BY IndexTypes
    <3> QED BY <3>1 DEF IsIndex
  <2> HIDE DEF p, s
  <2>3. s \in Seq(Field) BY <2>1, KindsAreFields
  <2>6. \A bits : WordField(bits).size = 8 BY DEF WordField
  <2>4. \A k \in 1 .. Len(s) : s[k].size = 8
    <3> HIDE DEF a, b
    <3> QED BY <2>1, <2>6
  <2>5. Bytes(s) = Len(s) * 8 BY <2>3, <2>4, BytesOfEqual
  <2> QED BY <1>1, <2>1, <2>2, <2>5 DEF s
<1>6. Bytes(FlattenSeq(c)) = Sum(a)
  <2>1. Bytes(FlattenSeq(c)) = Sum([i \in 1 .. Len(c) |-> Bytes(c[i])])
    <3> HIDE DEF c
    <3> QED BY <1>4, BytesFlatten
  <2> QED BY <1>3, <2>1
<1> HIDE DEF n, c, w
<1>7. a \in [1 .. n -> Nat] /\ b \in [1 .. n -> Nat] BY <1>2, <1>5
<1>8. \A i \in 1 .. n : a[i] <= b[i] BY <1>5
<1>9. Sum(b) = n * w BY <1>1, <1>2, SumConstant
<1> HIDE DEF a, b
<1>10. Sum(a) <= Sum(b) BY <1>1, <1>7, <1>8, SumMonotone
<1>11. n * w \in Nat BY <1>1, <1>2
<1> QED BY <1>6, <1>9, <1>10, <1>11 DEF n, c, w

LEMMA EntryBytes ==
  ASSUME NEW h, IsIndex(h)
  PROVE  Bytes(EntryPart(h)) = Sum(EntrySizes(h)) /\ Sum(EntrySizes(h)) \in Nat
<1>1. /\ EntryPart(h) \in Seq(EntryFields) /\ Len(EntryPart(h)) = Len(h.arrays)
      /\ \A i \in 1 .. Len(h.arrays) : EntryPart(h)[i] = EntryField(h, h.arrays[i])
  BY EntryPartFacts
<1>2. h.names \in Seq(Names) /\ \A i \in 1 .. Len(h.arrays) : h.arrays[i] \in ArrayRecords
  BY IndexTypes
<1>3. \A i \in 1 .. Len(h.arrays) :
        EntryPart(h)[i].size = 2 + 43 + 8 * h.arrays[i].dims + 24 * h.arrays[i].blocks
  BY <1>1, <1>2, EntryFieldFacts
<1>4. DOMAIN EntryPart(h) = 1 .. Len(h.arrays) BY <1>1
<1>5. [i \in DOMAIN EntryPart(h) |-> EntryPart(h)[i].size] = EntrySizes(h)
  BY <1>3, <1>4, Zenon DEF EntrySizes
<1>6. EntryPart(h) \in Seq(Field) BY <1>1, KindsAreFields
<1> QED BY <1>5, <1>6, BytesType DEF Bytes

\* What is serialized for an index is not longer than what is reserved for it.
LEMMA IndexFits ==
  ASSUME NEW h, IsIndex(h)
  PROVE  /\ Serialized(Fields(h)) <= HeaderSize(h)
         /\ Serialized(Fields(h)) \in Nat /\ HeaderSize(h) \in Nat
<1> DEFINE k == KeyPart(h)
           l == FlattenSeq(LayerChunks(h))
           w == FlattenSeq(WordChunks(h))
           e == EntryPart(h)
<1>1. k \in Seq(Field) /\ e \in Seq(Field)
  <2>1. k \in Seq(KeyFields) /\ e \in Seq(EntryFields) BY KeyPartFacts, EntryPartFacts
  <2> HIDE DEF k, e
  <2> QED BY <2>1, KindsAreFields
<1>2. l \in Seq(Field) BY LayerChunksFacts, FlattenType
<1>3. w \in Seq(Field)
  <2>1. w \in Seq(WordFields) BY WordChunksFacts, FlattenType
  <2> HIDE DEF w
  <2> QED BY <2>1, KindsAreFields
<1>4. Fields(h) = ((k \o l) \o w) \o e BY FieldsAreParts
<1>5. /\ Bytes(k) <= Sum(KeySizes(h)) /\ Sum(KeySizes(h)) \in Nat
      /\ Bytes(l) <= Sum(LayerSizes(h)) /\ Sum(LayerSizes(h)) \in Nat
      /\ Bytes(w) <= Len(h.layers) * (8 * Words(h)) /\ Len(h.layers) * (8 * Words(h)) \in Nat
      /\ Bytes(e) = Sum(EntrySizes(h)) /\ Sum(EntrySizes(h)) \in Nat
  BY KeyBytes, LayerBytes, WordBytes, EntryBytes
<1> HIDE DEF k, l, w, e
<1>6. Bytes(((k \o l) \o w) \o e) = Bytes(k) + Bytes(l) + Bytes(w) + Bytes(e)
  <2>1. k \o l \in Seq(Field) /\ (k \o l) \o w \in Seq(Field) BY <1>1, <1>2, <1>3
  <2>2. Bytes(((k \o l) \o w) \o e) = Bytes((k \o l) \o w) + Bytes(e) BY <1>1, <2>1, BytesConcat
  <2>3. Bytes((k \o l) \o w) = Bytes(k \o l) + Bytes(w) BY <1>3, <2>1, BytesConcat
  <2>4. Bytes(k \o l) = Bytes(k) + Bytes(l) BY <1>1, <1>2, BytesConcat
  <2> QED BY <2>2, <2>3, <2>4
<1>7. Bytes(k) \in Nat /\ Bytes(l) \in Nat /\ Bytes(w) \in Nat /\ Bytes(e) \in Nat
  BY <1>1, <1>2, <1>3, BytesType
<1>8. Serialized(Fields(h)) = FixedSize + Bytes(Fields(h)) BY DEF Serialized, Map, Bytes
<1> DEFINE ks == Sum(KeySizes(h))
           ls == Sum(LayerSizes(h))
           ws == Len(h.layers) * (8 * Words(h))
           es == Sum(EntrySizes(h))
<1>9. HeaderSize(h) = FixedSize + ks + ls + ws + es BY HeaderSizeIs
<1>10. FixedSize \in Nat BY DEF FixedSize
<1> HIDE DEF ks, ls, ws, es
<1>11. FixedSize + (Bytes(k) + Bytes(l) + Bytes(w) + Bytes(e)) <= FixedSize + ks + ls + ws + es
  BY <1>5, <1>7, <1>10 DEF ks, ls, ws, es
<1>12. /\ FixedSize + (Bytes(k) + Bytes(l) + Bytes(w) + Bytes(e)) \in Nat
       /\ FixedSize + ks + ls + ws + es \in Nat
  BY <1>5, <1>7, <1>10, SMTT(30) DEF ks, ls, ws, es
<1> QED BY <1>4, <1>6, <1>8, <1>9, <1>11, <1>12
--------------------------------------------------------------------------------
(* What is found by counting the fields of an index.                       *)

LEMMA SelectedLayers ==
  ASSUME NEW h, IsIndex(h), NEW kind
  PROVE  Selected(FlattenSeq(LayerChunks(h)), kind)
           = IF kind = "layer" THEN LayerPart(h)
             ELSE IF kind = "index" THEN FlattenSeq(IndexChunks(h)) ELSE <<>>
<1> DEFINE n == Len(h.layers)
           x(i) == <<LayerField(h.layers[i])>>
           y(i) == IndexPart(h.layers[i])
           picked == [i \in 1 .. n |-> Selected(LayerChunks(h)[i], kind)]
<1>1. n \in Nat BY IndexTypes
<1>2. LayerChunks(h) \in Seq(Seq(Field)) /\ Len(LayerChunks(h)) = n BY LayerChunksFacts
<1>3. ASSUME NEW i \in 1 .. n
      PROVE  Selected(LayerChunks(h)[i], kind)
               = IF kind = "layer" THEN x(i) ELSE IF kind = "index" THEN y(i) ELSE <<>>
  <2>1. /\ y(i) \in Seq(IndexFields) /\ y(i) \in Seq(Field)
        /\ x(i) \in Seq(LayerFields) /\ x(i) \in Seq(Field)
        /\ LayerChunks(h)[i] = x(i) \o y(i)
    BY LayerChunksFacts
  <2> DEFINE u == x(i)
             v == y(i)
  <2> HIDE DEF x, y
  <2>2. u \in Seq(Of("layer")) /\ v \in Seq(Of("index")) BY <2>1, FieldKinds
  <2>3. u \in Seq(Field) /\ v \in Seq(Field) BY <2>1
  <2> HIDE DEF u, v
  <2>4. Selected(u \o v, kind) = Selected(u, kind) \o Selected(v, kind) BY <2>3, SelectedConcat
  <2>5. Selected(u, kind) = IF "layer" = kind THEN u ELSE <<>> BY <2>2, SelectedOfKind
  <2>6. Selected(v, kind) = IF "index" = kind THEN v ELSE <<>> BY <2>2, SelectedOfKind
  <2>7. u \o <<>> = u /\ <<>> \o v = v /\ <<>> \o <<>> = <<>> BY <2>3
  <2>8. Selected(u \o v, kind) = IF kind = "layer" THEN u ELSE IF kind = "index" THEN v ELSE <<>>
    <3>1. CASE kind = "layer" BY <2>4, <2>5, <2>6, <2>7, <3>1
    <3>2. CASE kind = "index" BY <2>4, <2>5, <2>6, <2>7, <3>2
    <3>3. CASE kind # "layer" /\ kind # "index" BY <2>4, <2>5, <2>6, <2>7, <3>3
    <3> QED BY <3>1, <3>2, <3>3
  <2> QED BY <2>1, <2>8 DEF u, v
<1>4. Selected(FlattenSeq(LayerChunks(h)), kind) = FlattenSeq(picked)
  <2>1. Selected(FlattenSeq(LayerChunks(h)), kind)
          = FlattenSeq([i \in 1 .. Len(LayerChunks(h)) |-> Selected(LayerChunks(h)[i], kind)])
    BY <1>2, SelectedFlatten
  <2> QED BY <1>2, <2>1
<1>5. CASE kind = "layer"
  <2>1. \A i \in 1 .. n : Selected(LayerChunks(h)[i], kind) = x(i) BY <1>3, <1>5
  <2>2. picked = [i \in 1 .. n |-> x(i)] BY <2>1
  <2>3. /\ LayerPart(h) \in Seq(LayerFields) /\ Len(LayerPart(h)) = n
        /\ \A i \in 1 .. n : x(i) = <<LayerPart(h)[i]>>
    BY LayerPartFacts
  <2>4. [i \in 1 .. n |-> x(i)] = [i \in 1 .. n |-> <<LayerPart(h)[i]>>]
    <3> HIDE DEF x
    <3> QED BY <2>3
  <2>5. FlattenSeq([i \in 1 .. Len(LayerPart(h)) |-> <<LayerPart(h)[i]>>]) = LayerPart(h)
    BY <2>3, FlattenSingles
  <2>6. FlattenSeq([i \in 1 .. n |-> <<LayerPart(h)[i]>>]) = LayerPart(h) BY <2>3, <2>5
  <2> HIDE DEF picked
  <2> QED BY <1>4, <1>5, <2>2, <2>4, <2>6
<1>6. CASE kind = "index"
  <2>1. \A i \in 1 .. n : Selected(LayerChunks(h)[i], kind) = y(i) BY <1>3, <1>6
  <2>2. picked = IndexChunks(h) BY <2>1 DEF IndexChunks
  <2> HIDE DEF picked
  <2> QED BY <1>4, <1>6, <2>2
<1>7. CASE kind # "layer" /\ kind # "index"
  <2>1. \A i \in 1 .. n : Selected(LayerChunks(h)[i], kind) = <<>> BY <1>3, <1>7
  <2>2. picked = [i \in 1 .. n |-> <<>>] BY <2>1
  <2>3. FlattenSeq([i \in 1 .. n |-> <<>>]) = <<>>
    <3> HIDE DEF n
    <3> QED BY <1>1, FlattenEmpties
  <2> HIDE DEF picked
  <2> QED BY <1>4, <1>7, <2>2, <2>3
<1> QED BY <1>5, <1>6, <1>7

LEMMA SelectedParts ==
  ASSUME NEW h, IsIndex(h)
  PROVE  /\ Selected(Fields(h), "key") = KeyPart(h)
         /\ Selected(Fields(h), "layer") = LayerPart(h)
         /\ Selected(Fields(h), "index") = FlattenSeq(IndexChunks(h))
         /\ Selected(Fields(h), "word") = FlattenSeq(WordChunks(h))
         /\ Selected(Fields(h), "entry") = EntryPart(h)
<1> DEFINE k == KeyPart(h)
           l == FlattenSeq(LayerChunks(h))
           w == FlattenSeq(WordChunks(h))
           e == EntryPart(h)
           ls == LayerPart(h)
           is == FlattenSeq(IndexChunks(h))
<1>1. k \in Seq(Of("key")) /\ w \in Seq(Of("word")) /\ e \in Seq(Of("entry"))
  <2>1. k \in Seq(KeyFields) BY KeyPartFacts
  <2>2. w \in Seq(WordFields) BY WordChunksFacts, FlattenType
  <2>3. e \in Seq(EntryFields) BY EntryPartFacts
  <2> HIDE DEF k, w, e
  <2> QED BY <2>1, <2>2, <2>3, FieldKinds
<1>2. l \in Seq(Field) BY LayerChunksFacts, FlattenType
<1>3. ls \in Seq(LayerFields) /\ is \in Seq(IndexFields)
  BY LayerPartFacts, LayerChunksFacts, FlattenType
<1>4. Fields(h) = ((k \o l) \o w) \o e BY FieldsAreParts
<1>5. \A kind : Selected(l, kind) = IF kind = "layer" THEN ls
                                    ELSE IF kind = "index" THEN is ELSE <<>>
  BY SelectedLayers
<1> HIDE DEF k, l, w, e, ls, is
<1>6. k \in Seq(Field) /\ w \in Seq(Field) /\ e \in Seq(Field) BY <1>1, KindsAreFields, FieldKinds
<1>7. ASSUME NEW kind
      PROVE  /\ Selected(((k \o l) \o w) \o e, kind)
                  = ((Selected(k, kind) \o Selected(l, kind)) \o Selected(w, kind))
                    \o Selected(e, kind)
             /\ Selected(k, kind) = IF "key" = kind THEN k ELSE <<>>
             /\ Selected(w, kind) = IF "word" = kind THEN w ELSE <<>>
             /\ Selected(e, kind) = IF "entry" = kind THEN e ELSE <<>>
  <2> DEFINE kl == k \o l
             klw == kl \o w
  <2>1. kl \in Seq(Field) /\ klw \in Seq(Field) BY <1>2, <1>6
  <2>4. Selected(kl, kind) = Selected(k, kind) \o Selected(l, kind) BY <1>2, <1>6, SelectedConcat
  <2> HIDE DEF kl
  <2>3. Selected(klw, kind) = Selected(kl, kind) \o Selected(w, kind) BY <1>6, <2>1, SelectedConcat
  <2> HIDE DEF klw
  <2>7. klw \in Seq(Field) /\ e \in Seq(Field) BY <1>6, <2>1
  <2>2. Selected(klw \o e, kind) = Selected(klw, kind) \o Selected(e, kind)
    BY <2>7, SelectedConcat
  <2>5. /\ Selected(k, kind) = IF "key" = kind THEN k ELSE <<>>
        /\ Selected(w, kind) = IF "word" = kind THEN w ELSE <<>>
        /\ Selected(e, kind) = IF "entry" = kind THEN e ELSE <<>>
    BY <1>1, SelectedOfKind
  <2>6. Selected(((k \o l) \o w) \o e, kind)
           = ((Selected(k, kind) \o Selected(l, kind)) \o Selected(w, kind)) \o Selected(e, kind)
    BY <2>2, <2>3, <2>4, Zenon DEF kl, klw
  <2> QED BY <2>5, <2>6
<1>8. /\ ((k \o <<>>) \o <<>>) \o <<>> = k
      /\ ((<<>> \o ls) \o <<>>) \o <<>> = ls
      /\ ((<<>> \o is) \o <<>>) \o <<>> = is
      /\ ((<<>> \o <<>>) \o w) \o <<>> = w
      /\ ((<<>> \o <<>>) \o <<>>) \o e = e
  BY <1>3, <1>6
<1>9. Selected(Fields(h), "key") = k
  <2>1. /\ Selected(k, "key") = k /\ Selected(l, "key") = <<>>
        /\ Selected(w, "key") = <<>> /\ Selected(e, "key") = <<>>
    BY <1>5, <1>7
  <2> QED BY <1>4, <1>7, <1>8, <2>1, Zenon
<1>10. Selected(Fields(h), "layer") = ls
  <2>1. /\ Selected(k, "layer") = <<>> /\ Selected(l, "layer") = ls
        /\ Selected(w, "layer") = <<>> /\ Selected(e, "layer") = <<>>
    BY <1>5, <1>7
  <2> QED BY <1>4, <1>7, <1>8, <2>1, Zenon
<1>11. Selected(Fields(h), "index") = is
  <2>1. /\ Selected(k, "index") = <<>> /\ Selected(l, "index") = is
        /\ Selected(w, "index") = <<>> /\ Selected(e, "index") = <<>>
    BY <1>5, <1>7
  <2> QED BY <1>4, <1>7, <1>8, <2>1, Zenon
<1>12. Selected(Fields(h), "word") = w
  <2>1. /\ Selected(k, "word") = <<>> /\ Selected(l, "word") = <<>>
        /\ Selected(w, "word") = w /\ Selected(e, "word") = <<>>
    BY <1>5, <1>7
  <2> QED BY <1>4, <1>7, <1>8, <2>1, Zenon
<1>13. Selected(Fields(h), "entry") = e
  <2>1. /\ Selected(k, "entry") = <<>> /\ Selected(l, "entry") = <<>>
        /\ Selected(w, "entry") = <<>> /\ Selected(e, "entry") = e
    BY <1>5, <1>7
  <2> QED BY <1>4, <1>7, <1>8, <2>1, Zenon
<1> QED BY <1>9, <1>10, <1>11, <1>12, <1>13 DEF k, w, e, ls, is
\* The kinds of the fields follow from the counts, when a count says how many
\* there are.
LEMMA KindsConcat ==
  ASSUME NEW s \in Seq(Field), NEW t \in Seq(Field)
  PROVE  KindsOf(s \o t) = KindsOf(s) \o KindsOf(t)
<1> DEFINE k == [f \in Field |-> f.kind]
<1>1. ASSUME NEW u \in Seq(Field) PROVE KindsOf(u) = Each(k, u)
  <2>1. \A i \in 1 .. Len(u) : k[u[i]] = u[i].kind OBVIOUS
  <2> HIDE DEF k
  <2> QED BY <2>1 DEF KindsOf, Each
<1>2. DOMAIN k = Field OBVIOUS
<1>3. s \o t \in Seq(Field) OBVIOUS
<1> HIDE DEF k
<1>4. Each(k, s \o t) = Each(k, s) \o Each(k, t) BY <1>2, EachConcat
<1> QED BY <1>1, <1>3, <1>4, Zenon

LEMMA KindsFlatten ==
  ASSUME NEW seqs \in Seq(Seq(Field))
  PROVE  KindsOf(FlattenSeq(seqs)) = FlattenSeq([i \in 1 .. Len(seqs) |-> KindsOf(seqs[i])])
<1> DEFINE k == [f \in Field |-> f.kind]
           F == {f.kind : f \in Field}
<1>1. ASSUME NEW u \in Seq(Field) PROVE KindsOf(u) = Each(k, u)
  <2>1. \A i \in 1 .. Len(u) : k[u[i]] = u[i].kind OBVIOUS
  <2> HIDE DEF k
  <2> QED BY <2>1 DEF KindsOf, Each
<1>2. k \in [Field -> F] OBVIOUS
<1>3. FlattenSeq(seqs) \in Seq(Field) BY FlattenType
<1> HIDE DEF k, F
<1>4. Each(k, FlattenSeq(seqs)) = FlattenSeq([i \in 1 .. Len(seqs) |-> Each(k, seqs[i])])
  <2>1. seqs \in Seq(Seq(DOMAIN k)) BY <1>2
  <2> QED BY <2>1, EachFlatten
<1>5. [i \in 1 .. Len(seqs) |-> Each(k, seqs[i])] = [i \in 1 .. Len(seqs) |-> KindsOf(seqs[i])]
  BY <1>1
<1> QED BY <1>1, <1>3, <1>4, <1>5

LEMMA KindsOfKind ==
  ASSUME NEW kind, NEW s \in Seq(Of(kind))
  PROVE  KindsOf(s) = [i \in 1 .. Len(s) |-> kind]
<1>1. \A i \in 1 .. Len(s) : s[i].kind = kind BY DEF Of
<1> QED BY <1>1 DEF KindsOf

\* What flush writes of an index.
FileOf(f, h) ==
  /\ f.entry_count = Len(h.arrays) /\ f.layer_count = Len(h.layers) - 1
  /\ f.key_registry_count = Len(h.names) /\ f.fields = Fields(h)

LEMMA EncodableIsAligned ==
  ASSUME NEW f, NEW h, IsIndex(h), AllNamed(h), Encodable(h), FileOf(f, h)
  PROVE  Aligned(f)
<1> DEFINE copies(kind, n) == [i \in 1 .. n |-> kind]
           layer(l) == <<"layer">> \o copies("index", l.count)
           n == Len(h.layers)
           k == KeyPart(h)
           l == FlattenSeq(LayerChunks(h))
           w == FlattenSeq(WordChunks(h))
           e == EntryPart(h)
<1>0. n \in Nat /\ Words(h) \in Nat BY IndexTypes
<1>1. /\ k \in Seq(KeyFields) /\ Len(k) = Len(h.names)
      /\ w \in Seq(WordFields)
      /\ e \in Seq(EntryFields) /\ Len(e) = Len(h.arrays)
  <2>1. k \in Seq(KeyFields) /\ Len(k) = Len(h.names) BY KeyPartFacts
  <2>2. w \in Seq(WordFields) BY WordChunksFacts, FlattenType
  <2>3. e \in Seq(EntryFields) /\ Len(e) = Len(h.arrays) BY EntryPartFacts
  <2> QED BY <2>1, <2>2, <2>3
<1>2. KindsOf(k) = copies("key", Len(h.names))
  <2>1. k \in Seq(Of("key")) BY <1>1, FieldKinds
  <2> HIDE DEF k
  <2> QED BY <1>1, <2>1, KindsOfKind
<1>3. KindsOf(e) = copies("entry", Len(h.arrays))
  <2>1. e \in Seq(Of("entry")) BY <1>1, FieldKinds
  <2> HIDE DEF e
  <2> QED BY <1>1, <2>1, KindsOfKind
<1>4. Len(w) = n * Words(h)
  <2>1. WordChunks(h) \in Seq(Seq(WordFields)) /\ Len(WordChunks(h)) = n BY WordChunksFacts
  <2>2. Len(w) = Sum([i \in 1 .. Len(WordChunks(h)) |-> Len(WordChunks(h)[i])])
    BY <2>1, LenFlatten
  <2>3. \A i \in 1 .. n : Len(WordChunks(h)[i]) = Words(h)
    <3> SUFFICES ASSUME NEW i \in 1 .. n PROVE Len(WordChunks(h)[i]) = Words(h) OBVIOUS
    <3>1. Len(WordChunks(h)[i]) = Len(h.presence[h.layers[i].name]) BY WordChunksFacts
    <3>2. h.layers[i].name \in DOMAIN h.presence BY IndexTypes
    <3> QED BY <3>1, <3>2 DEF IsIndex
  <2>4. [i \in 1 .. Len(WordChunks(h)) |-> Len(WordChunks(h)[i])] = [i \in 1 .. n |-> Words(h)]
    BY <2>1, <2>3
  <2>5. Sum([i \in 1 .. n |-> Words(h)]) = n * Words(h)
    <3> HIDE DEF n
    <3> QED BY <1>0, SumConstant
  <2> QED BY <2>2, <2>4, <2>5
<1>5. KindsOf(w) = copies("word", n * Words(h))
  <2>1. w \in Seq(Of("word")) BY <1>1, FieldKinds
  <2> HIDE DEF w, n
  <2> QED BY <1>4, <2>1, KindsOfKind
<1>6. KindsOf(l) = FlattenSeq([i \in 1 .. n |-> layer(LayerPart(h)[i])])
  <2>1. LayerChunks(h) \in Seq(Seq(Field)) /\ Len(LayerChunks(h)) = n BY LayerChunksFacts
  <2>2. KindsOf(l) = FlattenSeq([i \in 1 .. Len(LayerChunks(h)) |-> KindsOf(LayerChunks(h)[i])])
    BY <2>1, KindsFlatten
  <2>3. ASSUME NEW i \in 1 .. n PROVE KindsOf(LayerChunks(h)[i]) = layer(LayerPart(h)[i])
    <3> DEFINE r == h.layers[i]
               x == <<LayerField(r)>>
               y == IndexPart(r)
               m == Cardinality(r.keys)
    <3>1. r \in LayerRecords /\ IsFiniteSet(r.keys) BY IndexTypes
    <3>2. /\ x \in Seq(Field) /\ y \in Seq(Field) /\ y \in Seq(IndexFields)
          /\ LayerChunks(h)[i] = x \o y
      BY LayerChunksFacts
    <3>3. m <= MaxCount
      <4>1. i \in DOMAIN h.layers BY IndexTypes
      <4> QED BY <4>1 DEF Encodable
    <3>4. LayerPart(h)[i] = LayerField(r) BY LayerPartFacts
    <3> HIDE DEF r, n
    <3>5. LayerField(r) \in LayerFields /\ LayerField(r).count = m BY <3>1, <3>3, LayerFieldFacts
    <3>6. Len(y) = m BY <3>1, IndexPartFacts
    <3>7. KindsOf(x \o y) = KindsOf(x) \o KindsOf(y)
      <4> HIDE DEF x, y
      <4> QED BY <3>2, KindsConcat
    <3>8. KindsOf(x) = <<"layer">>
      <4>1. LayerField(r).kind = "layer" BY <3>5 DEF LayerFields
      <4> QED BY <4>1 DEF KindsOf
    <3>9. KindsOf(y) = copies("index", m)
      <4>1. y \in Seq(Of("index")) BY <3>2, FieldKinds
      <4> HIDE DEF y, m
      <4> QED BY <3>6, <4>1, KindsOfKind
    <3> HIDE DEF x, y, m
    <3> QED BY <3>2, <3>4, <3>5, <3>7, <3>8, <3>9, Zenon
  <2>4. [i \in 1 .. Len(LayerChunks(h)) |-> KindsOf(LayerChunks(h)[i])]
          = [i \in 1 .. n |-> layer(LayerPart(h)[i])]
    <3> HIDE DEF layer, n
    <3> QED BY <2>1, <2>3
  <2> QED BY <2>2, <2>4
<1>7. KindsOf(Fields(h)) = ((KindsOf(k) \o KindsOf(l)) \o KindsOf(w)) \o KindsOf(e)
  <2>1. k \in Seq(Field) /\ w \in Seq(Field) /\ e \in Seq(Field)
    <3> HIDE DEF k, w, e
    <3> QED BY <1>1, KindsAreFields
  <2>2. l \in Seq(Field) BY LayerChunksFacts, FlattenType
  <2>3. Fields(h) = ((k \o l) \o w) \o e BY FieldsAreParts
  <2> DEFINE kl == k \o l
             klw == kl \o w
  <2> HIDE DEF k, l, w, e
  <2>4. kl \in Seq(Field) /\ klw \in Seq(Field) BY <2>1, <2>2
  <2>5. KindsOf(kl) = KindsOf(k) \o KindsOf(l) BY <2>1, <2>2, KindsConcat
  <2> HIDE DEF kl
  <2>6. KindsOf(klw) = KindsOf(kl) \o KindsOf(w) BY <2>1, <2>4, KindsConcat
  <2> HIDE DEF klw
  <2>7. KindsOf(klw \o e) = KindsOf(klw) \o KindsOf(e) BY <2>1, <2>4, KindsConcat
  <2> QED BY <2>3, <2>5, <2>6, <2>7, Zenon DEF kl, klw
<1>8. Fields(h) \in Seq(Field)
  <2>1. k \in Seq(Field) /\ w \in Seq(Field) /\ e \in Seq(Field)
    <3> HIDE DEF k, w, e
    <3> QED BY <1>1, KindsAreFields
  <2>2. l \in Seq(Field) BY LayerChunksFacts, FlattenType
  <2>3. Fields(h) = ((k \o l) \o w) \o e BY FieldsAreParts
  <2> HIDE DEF k, l, w, e
  <2> QED BY <2>1, <2>2, <2>3
<1>9. Map(LAMBDA x : x.kind, f.fields) = KindsOf(Fields(h))
  <2>1. f.fields = Fields(h) BY DEF FileOf
  <2>2. DOMAIN Fields(h) = 1 .. Len(Fields(h)) BY <1>8
  <2> QED BY <2>1, <2>2 DEF Map, KindsOf
<1>10. Map(layer, OfKind(f, "layer")) = [i \in 1 .. n |-> layer(LayerPart(h)[i])]
  <2>1. OfKind(f, "layer") = LayerPart(h) BY SelectedParts DEF OfKind, FileOf
  <2>2. DOMAIN LayerPart(h) = 1 .. n BY LayerPartFacts
  <2> HIDE DEF layer
  <2> QED BY <2>1, <2>2 DEF Map
<1>11. /\ f.key_registry_count = Len(h.names) /\ f.entry_count = Len(h.arrays)
       /\ (f.layer_count + 1) * CeilDiv(f.entry_count, WordBits) = n * Words(h)
  <2>1. /\ f.key_registry_count = Len(h.names) /\ f.entry_count = Len(h.arrays)
        /\ f.layer_count = n - 1
    BY DEF FileOf
  <2>2. f.layer_count + 1 = n BY <1>0, <2>1
  <2> QED BY <2>1, <2>2 DEF Words
<1> HIDE DEF copies, layer, k, l, w, e, n
<1>12. Map(LAMBDA x : x.kind, f.fields) =
         copies("key", f.key_registry_count)
         \o FlattenSeq(Map(layer, OfKind(f, "layer")))
         \o copies("word", (f.layer_count + 1) * CeilDiv(f.entry_count, WordBits))
         \o copies("entry", f.entry_count)
  BY <1>2, <1>3, <1>5, <1>6, <1>7, <1>9, <1>10, <1>11, Zenon
<1> QED BY <1>12 DEF Aligned, copies, layer--------------------------------------------------------------------------------
(* What is read from the header of an index: the names as they are spelt,  *)
(* the numbers of the keys as many as the count says, the bitmap of the    *)
(* last layer of a name.                                                   *)

ReadNames(h) == [i \in 1 .. Len(h.names) |-> Spelt(h.names[i])]
ReadArray(a) == [key |-> Spelt(a.key), dims |-> a.dims, bytes |-> a.bytes,
                 blocks |-> a.blocks, dirty |-> FALSE]
ReadArrays(h) == [i \in 1 .. Len(h.arrays) |-> ReadArray(h.arrays[i])]
KeyCounts(h) == [i \in 1 .. Len(h.layers) |-> LayerField(h.layers[i]).count]
ReadKeys(h, i) == Share(FlattenSeq(IndexChunks(h)), i, KeyCounts(h))
ReadLayers(h) ==
  [i \in 1 .. Len(h.layers) |->
     [name |-> Spelt(h.layers[i].name),
      keys |-> {ReadKeys(h, i)[k].at : k \in 1 .. LayerField(h.layers[i]).count}]]
LastSpelt(h, l) == SelectLastInSeq(LayerPart(h), LAMBDA x : x.name = l)
ReadPresence(h) ==
  [l \in {Spelt(h.layers[i].name) : i \in 1 .. Len(h.layers)} |->
     h.presence[h.layers[LastSpelt(h, l)].name]]

LEMMA FieldContents ==
  /\ \A n : KeyField(n).name = Spelt(n)
  /\ \A l : LayerField(l).name = Spelt(l.name)
  /\ \A w : WordField(w).bits = w
  /\ \A i : IndexField(i).at = i
<1>1. \A n : KeyField(n).name = Spelt(n) BY DEF KeyField
<1>2. \A l : LayerField(l).name = Spelt(l.name) BY DEF LayerField
<1>3. \A w : WordField(w).bits = w BY DEF WordField
<1>4. \A i : IndexField(i).at = i BY DEF IndexField
<1> QED BY <1>1, <1>2, <1>3, <1>4

LEMMA LastSpeltFacts ==
  ASSUME NEW h, IsIndex(h), NEW l, \E i \in 1 .. Len(h.layers) : Spelt(h.layers[i].name) = l
  PROVE  /\ LastSpelt(h, l) \in 1 .. Len(h.layers)
         /\ Spelt(h.layers[LastSpelt(h, l)].name) = l
<1> DEFINE I == {i \in 1 .. Len(LayerPart(h)) : LayerPart(h)[i].name = l}
           n == Len(h.layers)
<1>1. n \in Nat /\ Len(LayerPart(h)) = n BY IndexTypes, LayerPartFacts
<1>2. LastSpelt(h, l) = (IF I # {} THEN Max(I) ELSE 0) BY DEF LastSpelt, SelectLastInSeq
<1>3. \A i \in 1 .. n : LayerPart(h)[i].name = Spelt(h.layers[i].name)
  BY LayerPartFacts, FieldContents
<1>4. I # {} /\ I \in SUBSET (1 .. n) BY <1>1, <1>3
<1>5. Max(I) \in I
  <2> HIDE DEF I, n
  <2> QED BY <1>1, <1>4, MaxOfPlaces
<1>6. Max(I) \in 1 .. n /\ LayerPart(h)[Max(I)].name = l BY <1>1, <1>5
<1> HIDE DEF I
<1> QED BY <1>2, <1>3, <1>4, <1>6

\* The words read for the i-th layer are its bitmap.
LEMMA WordsOfLayer ==
  ASSUME NEW h, IsIndex(h), AllNamed(h), NEW i \in 1 .. Len(h.layers),
         NEW counts, \A j \in 1 .. Len(h.layers) : counts[j] = Words(h)
  PROVE  Map(LAMBDA x : x.bits, Share(FlattenSeq(WordChunks(h)), i, counts))
           = h.presence[h.layers[i].name]
<1> DEFINE p == h.presence[h.layers[i].name]
           c == WordChunks(h)[i]
<1>1. WordChunks(h) \in Seq(Seq(WordFields)) /\ Len(WordChunks(h)) = Len(h.layers)
  BY WordChunksFacts
<1>2. \A j \in 1 .. Len(h.layers) : Len(WordChunks(h)[j]) = Words(h)
  <2> SUFFICES ASSUME NEW j \in 1 .. Len(h.layers) PROVE Len(WordChunks(h)[j]) = Words(h) OBVIOUS
  <2>1. Len(WordChunks(h)[j]) = Len(h.presence[h.layers[j].name]) BY WordChunksFacts
  <2>2. h.layers[j].name \in DOMAIN h.presence BY IndexTypes
  <2> QED BY <2>1, <2>2 DEF IsIndex
<1>3. Share(FlattenSeq(WordChunks(h)), i, counts) = c BY <1>1, <1>2, ShareIsPart, SMTT(30)
<1>4. p \in Seq(SUBSET Nat) BY IndexTypes
<1>5. c \in Seq(WordFields) /\ Len(c) = Len(p) /\ \A k \in 1 .. Len(p) : c[k] = WordField(p[k])
  BY WordChunksFacts
<1>6. Map(LAMBDA x : x.bits, c) = p
  <2> HIDE DEF c, p
  <2>1. DOMAIN c = 1 .. Len(p) /\ DOMAIN p = 1 .. Len(p) BY <1>4, <1>5
  <2>2. \A k \in 1 .. Len(p) : c[k].bits = p[k] BY <1>5, FieldContents
  <2>3. [k \in DOMAIN c |-> c[k].bits] = [k \in DOMAIN p |-> p[k]] BY <2>1, <2>2
  <2>4. [k \in DOMAIN p |-> p[k]] = p BY <1>4
  <2> QED BY <2>3, <2>4 DEF Map
<1> QED BY <1>3, <1>6 DEF c, p

LEMMA ReadIndexIs ==
  ASSUME NEW f, NEW h, NEW bs, IsIndex(h), AllNamed(h), FileOf(f, h)
  PROVE  ReadIndex(f, bs) = [block_size |-> bs, names |-> ReadNames(h), arrays |-> ReadArrays(h),
                             layers |-> ReadLayers(h), presence |-> ReadPresence(h)]
<1> DEFINE names == Map(LAMBDA x : x.name, OfKind(f, "key"))
           layer == OfKind(f, "layer")
           array(e) == [key |-> names[e.at + 1], dims |-> e.dims, bytes |-> e.bytes,
                        blocks |-> e.blocks, dirty |-> FALSE]
           keys(i) == Map(LAMBDA x : x.at,
                          Share(OfKind(f, "index"), i, Map(LAMBDA x : x.count, layer)))
           words(i) == Map(LAMBDA x : x.bits,
                           Share(OfKind(f, "word"), i,
                                 Map(LAMBDA x : CeilDiv(f.entry_count, WordBits), layer)))
           last(l) == SelectLastInSeq(layer, LAMBDA x : x.name = l)
           arrays == Map(array, OfKind(f, "entry"))
           layers == [i \in DOMAIN layer |-> [name |-> layer[i].name, keys |-> ToSet(keys(i))]]
           presence == [l \in ToSet(Map(LAMBDA x : x.name, layer)) |-> words(last(l))]
           n == Len(h.layers)
<1>0. ReadIndex(f, bs) = [block_size |-> bs, names |-> names, arrays |-> arrays,
                          layers |-> layers, presence |-> presence]
  BY Zenon DEF ReadIndex
<1>1. /\ OfKind(f, "key") = KeyPart(h) /\ OfKind(f, "layer") = LayerPart(h)
      /\ OfKind(f, "index") = FlattenSeq(IndexChunks(h))
      /\ OfKind(f, "word") = FlattenSeq(WordChunks(h)) /\ OfKind(f, "entry") = EntryPart(h)
  BY SelectedParts DEF OfKind, FileOf
<1>2. /\ layer = LayerPart(h) /\ DOMAIN layer = 1 .. n
      /\ \A i \in 1 .. n : layer[i] = LayerField(h.layers[i])
  BY <1>1, LayerPartFacts
<1>3. names = ReadNames(h)
  <2>1. DOMAIN KeyPart(h) = 1 .. Len(h.names) BY KeyPartFacts
  <2>2. \A i \in 1 .. Len(h.names) : KeyPart(h)[i].name = Spelt(h.names[i])
    BY KeyPartFacts, FieldContents
  <2> QED BY <1>1, <2>1, <2>2 DEF Map, ReadNames
<1> HIDE DEF names, layer
<1>4. arrays = ReadArrays(h)
  <2>1. DOMAIN EntryPart(h) = 1 .. Len(h.arrays) BY EntryPartFacts
  <2>2. ASSUME NEW i \in 1 .. Len(h.arrays) PROVE array(EntryPart(h)[i]) = ReadArray(h.arrays[i])
    <3> DEFINE a == h.arrays[i]
               at == NameAt(h, a.key)
    <3>1. EntryPart(h)[i] = EntryField(h, a) BY EntryPartFacts
    <3>2. a \in ArrayRecords /\ i \in DOMAIN h.arrays /\ h.names \in Seq(Names) BY IndexTypes
    <3>3. Named(h, a.key) BY <3>2 DEF AllNamed
    <3>4. at \in 0 .. Len(h.names) - 1 /\ h.names[at + 1] = a.key BY <3>2, <3>3, NameAtFacts
    <3>5. Len(h.names) \in Nat BY <3>2
    <3> HIDE DEF at
    <3>6. at + 1 \in 1 .. Len(h.names) BY <3>4, <3>5
    <3>7. names[at + 1] = Spelt(a.key) BY <1>3, <3>4, <3>6 DEF ReadNames
    <3>8. /\ EntryField(h, a).at = at /\ EntryField(h, a).dims = a.dims
          /\ EntryField(h, a).bytes = a.bytes /\ EntryField(h, a).blocks = a.blocks
      BY DEF EntryField, at
    <3> HIDE DEF a
    <3> QED BY <3>1, <3>7, <3>8 DEF ReadArray, a
  <2> HIDE DEF array
  <2> QED BY <1>1, <2>1, <2>2 DEF Map, ReadArrays
<1>5. layers = ReadLayers(h)
  <2>1. Map(LAMBDA x : x.count, layer) = KeyCounts(h) BY <1>2 DEF Map, KeyCounts
  <2>2. ASSUME NEW i \in 1 .. n
        PROVE  ToSet(keys(i)) = {ReadKeys(h, i)[k].at : k \in 1 .. LayerField(h.layers[i]).count}
    <3>1. keys(i) = Map(LAMBDA x : x.at, ReadKeys(h, i)) BY <1>1, <2>1, Zenon DEF ReadKeys
    <3>2. DOMAIN ReadKeys(h, i) = 1 .. LayerField(h.layers[i]).count
      <4>1. DOMAIN ReadKeys(h, i) = 1 .. KeyCounts(h)[i] BY DEF ReadKeys, Share
      <4>2. KeyCounts(h)[i] = LayerField(h.layers[i]).count BY DEF KeyCounts
      <4> QED BY <4>1, <4>2
    <3> HIDE DEF keys
    <3> QED BY <3>1, <3>2 DEF Map, ToSet
  <2>3. \A i \in 1 .. n : layer[i].name = Spelt(h.layers[i].name) BY <1>2, FieldContents
  <2> HIDE DEF keys
  <2> QED BY <1>2, <2>2, <2>3 DEF ReadLayers
<1>6. presence = ReadPresence(h)
  <2>1. ToSet(Map(LAMBDA x : x.name, layer)) = {Spelt(h.layers[i].name) : i \in 1 .. n}
    <3>1. \A i \in 1 .. n : layer[i].name = Spelt(h.layers[i].name) BY <1>2, FieldContents
    <3> QED BY <1>2, <3>1 DEF Map, ToSet
  <2>2. ASSUME NEW i \in 1 .. n PROVE words(i) = h.presence[h.layers[i].name]
    <3> DEFINE counts == Map(LAMBDA x : CeilDiv(f.entry_count, WordBits), layer)
    <3>1. f.entry_count = Len(h.arrays) BY DEF FileOf
    <3>2. \A j \in 1 .. n : counts[j] = Words(h) BY <1>2, <3>1 DEF Map, Words
    <3> HIDE DEF counts
    <3>3. Map(LAMBDA x : x.bits, Share(FlattenSeq(WordChunks(h)), i, counts))
            = h.presence[h.layers[i].name]
      BY <3>2, WordsOfLayer
    <3> QED BY <1>1, <3>3, Zenon DEF counts
  <2>3. ASSUME NEW l \in {Spelt(h.layers[i].name) : i \in 1 .. n}
        PROVE  words(last(l)) = h.presence[h.layers[LastSpelt(h, l)].name]
    <3>1. last(l) = LastSpelt(h, l) BY <1>2 DEF LastSpelt
    <3>2. LastSpelt(h, l) \in 1 .. n
      <4>1. \E i \in 1 .. n : Spelt(h.layers[i].name) = l OBVIOUS
      <4> QED BY <4>1, LastSpeltFacts
    <3> HIDE DEF words, last
    <3> QED BY <2>2, <3>1, <3>2
  <2> HIDE DEF words, last
  <2> QED BY <2>1, <2>3 DEF ReadPresence
<1> HIDE DEF arrays, layers, presence
<1> QED BY <1>0, <1>3, <1>4, <1>5, <1>6, Zenon
\* Nothing is lost of an index that the format can say.
LEMMA ReadKeysAre ==
  ASSUME NEW h, IsIndex(h), Encodable(h), NEW i \in 1 .. Len(h.layers)
  PROVE  {ReadKeys(h, i)[k].at : k \in 1 .. LayerField(h.layers[i]).count} = h.layers[i].keys
<1> DEFINE n == Len(h.layers)
           l == h.layers[i]
           m == Cardinality(l.keys)
<1>1. \A j \in 1 .. n : /\ h.layers[j] \in LayerRecords /\ IsFiniteSet(h.layers[j].keys)
                        /\ Cardinality(h.layers[j].keys) <= MaxCount
  BY IndexTypes DEF Encodable
<1>2. \A j \in 1 .. n : LayerField(h.layers[j]).count = Cardinality(h.layers[j].keys)
  BY <1>1, LayerFieldFacts
<1>3. IndexChunks(h) \in Seq(Seq(IndexFields)) /\ Len(IndexChunks(h)) = n BY LayerChunksFacts
<1>4. \A j \in 1 .. n : KeyCounts(h)[j] = Len(IndexChunks(h)[j])
  <2> SUFFICES ASSUME NEW j \in 1 .. n PROVE KeyCounts(h)[j] = Len(IndexChunks(h)[j]) OBVIOUS
  <2>1. IndexChunks(h)[j] = IndexPart(h.layers[j]) BY LayerChunksFacts
  <2>2. Len(IndexPart(h.layers[j])) = Cardinality(h.layers[j].keys) BY <1>1, IndexPartFacts
  <2> QED BY <1>2, <2>1, <2>2 DEF KeyCounts
<1>5. ReadKeys(h, i) = IndexPart(l)
  <2>1. ReadKeys(h, i) = IndexChunks(h)[i] BY <1>3, <1>4, ShareIsPart DEF ReadKeys
  <2> QED BY <2>1, LayerChunksFacts
<1>6. LayerField(l).count = m BY <1>2
<1>7. \A k \in 1 .. m : IndexPart(l)[k].at = Ascending(l.keys)[k] BY <1>1, IndexPartFacts
<1>8. Ascending(l.keys) \in [1 .. m -> l.keys] /\ ToSet(Ascending(l.keys)) = l.keys
  <2>1. l.keys \in SUBSET Nat /\ IsFiniteSet(l.keys) BY <1>1 DEF LayerRecords
  <2> QED BY <2>1, AscendingListsAll
<1> HIDE DEF l, m
<1>9. {IndexPart(l)[k].at : k \in 1 .. m} = l.keys BY <1>7, <1>8 DEF ToSet
<1> QED BY <1>5, <1>6, <1>9 DEF l

LEMMA SpeltIsItself ==
  ASSUME NEW n, NameLength(n) <= MaxLength
  PROVE  Spelt(n) = n
BY DEF Spelt

LEMMA ReadsBack ==
  ASSUME NEW f, NEW h, IsIndex(h), AllNamed(h), FileOf(f, h), Encodable(h),
         \A i \in DOMAIN h.arrays : h.arrays[i].dirty = FALSE
  PROVE  LoadIndex(f, h.block_size) = h
<1> DEFINE n == Len(h.layers)
<1>1. /\ DOMAIN h.names = 1 .. Len(h.names) /\ DOMAIN h.arrays = 1 .. Len(h.arrays)
      /\ DOMAIN h.layers = 1 .. n
      /\ \A i \in DOMAIN h.names : Spelt(h.names[i]) = h.names[i]
      /\ \A i \in DOMAIN h.layers : Spelt(h.layers[i].name) = h.layers[i].name
  BY IndexTypes, SpeltIsItself DEF Encodable
<1>2. ReadNames(h) = h.names
  <2>1. h.names = [i \in DOMAIN h.names |-> h.names[i]] BY IndexTypes
  <2> QED BY <1>1, <2>1 DEF ReadNames
<1>3. ReadArrays(h) = h.arrays
  <2>1. h.arrays = [i \in DOMAIN h.arrays |-> h.arrays[i]] BY IndexTypes
  <2>2. ASSUME NEW i \in DOMAIN h.arrays PROVE ReadArray(h.arrays[i]) = h.arrays[i]
    <3> DEFINE a == h.arrays[i]
    <3>1. a \in ArrayRecords BY IndexTypes
    <3>2. Spelt(a.key) = a.key
      <4>1. Named(h, a.key) BY DEF AllNamed
      <4> QED BY <1>1, <4>1 DEF Named, Contains
    <3>3. a.dirty = FALSE OBVIOUS
    <3> HIDE DEF a
    <3>4. a = [key |-> a.key, dims |-> a.dims, bytes |-> a.bytes, blocks |-> a.blocks,
               dirty |-> a.dirty]
      BY <3>1 DEF ArrayRecords
    <3>5. ReadArray(a) = a BY <3>2, <3>3, <3>4 DEF ReadArray
    <3> QED BY <3>5 DEF a
  <2> QED BY <1>1, <2>1, <2>2 DEF ReadArrays
<1>4. ReadLayers(h) = h.layers
  <2>1. h.layers = [i \in DOMAIN h.layers |-> h.layers[i]] BY IndexTypes
  <2>2. ASSUME NEW i \in 1 .. n
        PROVE  [name |-> Spelt(h.layers[i].name),
                keys |-> {ReadKeys(h, i)[k].at : k \in 1 .. LayerField(h.layers[i]).count}]
                 = h.layers[i]
    <3> DEFINE read == {ReadKeys(h, i)[k].at : k \in 1 .. LayerField(h.layers[i]).count}
               l == h.layers[i]
    <3>1. read = l.keys BY ReadKeysAre
    <3>2. Spelt(l.name) = l.name /\ l \in LayerRecords BY <1>1, IndexTypes
    <3> HIDE DEF read, l
    <3>3. l = [name |-> l.name, keys |-> l.keys] BY <3>2 DEF LayerRecords
    <3>4. [name |-> Spelt(l.name), keys |-> read] = l BY <3>1, <3>2, <3>3
    <3> QED BY <3>4 DEF read, l
  <2>3. ReadLayers(h) = [i \in 1 .. n |-> h.layers[i]] BY <2>2 DEF ReadLayers
  <2> QED BY <1>1, <2>1, <2>3
<1>5. ReadPresence(h) = h.presence
  <2>1. DOMAIN h.presence = {Spelt(h.layers[i].name) : i \in 1 .. n} BY <1>1 DEF IsIndex
  <2>2. h.presence \in [DOMAIN h.presence -> Seq(SUBSET Nat)] BY BitmapsAre DEF IsIndex, Handles
  <2>3. ASSUME NEW l \in DOMAIN h.presence PROVE h.layers[LastSpelt(h, l)].name = l
    <3>1. \E i \in 1 .. n : Spelt(h.layers[i].name) = l BY <2>1
    <3>2. LastSpelt(h, l) \in 1 .. n /\ Spelt(h.layers[LastSpelt(h, l)].name) = l
      BY <3>1, LastSpeltFacts
    <3> QED BY <1>1, <3>2
  <2>4. ReadPresence(h) = [l \in DOMAIN h.presence |-> h.presence[l]]
    BY <2>1, <2>3 DEF ReadPresence
  <2> QED BY <2>2, <2>4
<1>6. ReadIndex(f, h.block_size) = h
  <2>1. h = [block_size |-> h.block_size, names |-> h.names, arrays |-> h.arrays,
             layers |-> h.layers, presence |-> h.presence]
    BY DEF IsIndex, Handles
  <2>2. ReadIndex(f, h.block_size)
          = [block_size |-> h.block_size, names |-> ReadNames(h), arrays |-> ReadArrays(h),
             layers |-> ReadLayers(h), presence |-> ReadPresence(h)]
    BY ReadIndexIs
  <2> QED BY <1>2, <1>3, <1>4, <1>5, <2>1, <2>2, Zenon
<1>7. \A e \in ToSet(OfKind(f, "entry")) : EntryReadable(f, e)
  <2> SUFFICES ASSUME NEW e \in ToSet(OfKind(f, "entry")) PROVE EntryReadable(f, e) OBVIOUS
  <2>1. OfKind(f, "entry") = EntryPart(h) BY SelectedParts DEF OfKind, FileOf
  <2>2. PICK i \in 1 .. Len(h.arrays) : e = EntryField(h, h.arrays[i])
    BY <2>1, EntryPartFacts DEF ToSet
  <2> DEFINE a == h.arrays[i]
             at == NameAt(h, a.key)
  <2>3. i \in DOMAIN h.arrays /\ h.names \in Seq(Names) BY <1>1, IndexTypes
  <2>4. Named(h, a.key) BY <2>3 DEF AllNamed
  <2>5. at \in 0 .. Len(h.names) - 1 /\ Len(h.names) \in Nat BY <2>3, <2>4, NameAtFacts
  <2>6. a.dims <= MaxDims /\ a.blocks <= MaxBlocks BY <2>3 DEF Encodable
  <2>7. f.key_registry_count = Len(h.names) BY DEF FileOf
  <2>8. e.at = at /\ e.dims = a.dims /\ e.blocks = a.blocks BY <2>2 DEF EntryField
  <2> HIDE DEF a, at
  <2> QED BY <2>5, <2>6, <2>7, <2>8 DEF EntryReadable
<1>8. Aligned(f) BY EncodableIsAligned
<1> QED BY <1>6, <1>7, <1>8, Zenon DEF LoadIndex
\* Whatever was flushed, an index is read from it: of a name that is cut, and
\* of keys that are counted wrongly, too.
LEMMA ReadKeysFacts ==
  ASSUME NEW h, IsIndex(h), NEW i \in 1 .. Len(h.layers)
  PROVE  LET keys == {ReadKeys(h, i)[k].at : k \in 1 .. LayerField(h.layers[i]).count}
         IN  keys \in SUBSET Nat /\ IsFiniteSet(keys)
<1> DEFINE n == Len(h.layers)
           m == LayerField(h.layers[i]).count
           keys == {ReadKeys(h, i)[k].at : k \in 1 .. m}
           at == [k \in 1 .. m |-> ReadKeys(h, i)[k].at]
<1>1. \A j \in 1 .. n : /\ h.layers[j] \in LayerRecords /\ IsFiniteSet(h.layers[j].keys)
  BY IndexTypes
<1>2. IndexChunks(h) \in Seq(Seq(IndexFields)) /\ Len(IndexChunks(h)) = n BY LayerChunksFacts
<1>3. \A j \in 1 .. n : /\ KeyCounts(h)[j] = LayerField(h.layers[j]).count
                        /\ KeyCounts(h)[j] \in Nat /\ KeyCounts(h)[j] <= Len(IndexChunks(h)[j])
  <2> SUFFICES ASSUME NEW j \in 1 .. n
               PROVE  /\ KeyCounts(h)[j] = LayerField(h.layers[j]).count
                      /\ KeyCounts(h)[j] \in Nat /\ KeyCounts(h)[j] <= Len(IndexChunks(h)[j])
    OBVIOUS
  <2>1. KeyCounts(h)[j] = LayerField(h.layers[j]).count BY DEF KeyCounts
  <2>2. IndexChunks(h)[j] = IndexPart(h.layers[j]) BY LayerChunksFacts
  <2>3. Len(IndexPart(h.layers[j])) = Cardinality(h.layers[j].keys) BY <1>1, IndexPartFacts
  <2>4. /\ LayerField(h.layers[j]) \in LayerFields
        /\ LayerField(h.layers[j]).count <= Cardinality(h.layers[j].keys)
    BY <1>1, LayerFieldFacts
  <2>5. LayerField(h.layers[j]).count \in Nat BY <2>4 DEF LayerFields
  <2> QED BY <2>1, <2>2, <2>3, <2>4, <2>5
<1>4. m \in Nat /\ KeyCounts(h)[i] = m BY <1>3
<1>5. ReadKeys(h, i) \in [1 .. m -> IndexFields]
  <2>1. ReadKeys(h, i) \in [1 .. KeyCounts(h)[i] -> IndexFields]
    BY <1>2, <1>3, ShareIsWithin DEF ReadKeys
  <2> QED BY <1>4, <2>1
<1> HIDE DEF m
<1>6. \A k \in 1 .. m : ReadKeys(h, i)[k].at \in Nat BY <1>5 DEF IndexFields
<1>7. IsFiniteSet(keys)
  <2>1. at \in Surjection(1 .. m, keys) BY DEF Surjection
  <2>2. IsFiniteSet(1 .. m) BY <1>4, FS_Interval
  <2> HIDE DEF at, keys
  <2> QED BY <2>1, <2>2, FS_Surjection
<1>8. keys \in SUBSET Nat BY <1>6
<1> QED BY <1>7, <1>8 DEF m

LEMMA ReadIsIndex ==
  ASSUME NEW f, NEW h, NEW bs \in Nat \ {0}, IsIndex(h), AllNamed(h), FileOf(f, h)
  PROVE  IsIndex(ReadIndex(f, bs))
<1> DEFINE n == Len(h.layers)
           r == ReadIndex(f, bs)
<1>1. /\ Len(h.names) \in Nat /\ Len(h.arrays) \in Nat /\ n \in Nat /\ Words(h) \in Nat
      /\ \A i \in 1 .. Len(h.names) : h.names[i] \in Names
      /\ \A i \in 1 .. Len(h.arrays) : h.arrays[i] \in ArrayRecords
      /\ \A i \in 1 .. n : h.layers[i] \in LayerRecords
  BY IndexTypes
<1>2. \A x \in Names : Spelt(x) \in Names BY HeaderAssumption DEF Spelt
<1>3. ReadNames(h) \in Seq(Names) /\ DOMAIN ReadNames(h) = 1 .. Len(h.names)
  <2>1. ReadNames(h) \in [1 .. Len(h.names) -> Names] BY <1>1, <1>2 DEF ReadNames
  <2> QED BY <1>1, <2>1
<1>4. /\ ReadArrays(h) \in Seq(ArrayRecords)
      /\ Len(ReadArrays(h)) = Len(h.arrays) /\ DOMAIN ReadArrays(h) = 1 .. Len(h.arrays)
  <2>1. \A a \in ArrayRecords : ReadArray(a) \in ArrayRecords
    BY <1>2 DEF ReadArray, ArrayRecords
  <2>2. ReadArrays(h) \in [1 .. Len(h.arrays) -> ArrayRecords] BY <1>1, <2>1 DEF ReadArrays
  <2> QED BY <1>1, <2>2
<1>5. /\ ReadLayers(h) \in Seq(LayerRecords) /\ DOMAIN ReadLayers(h) = 1 .. n
      /\ \A i \in 1 .. n : /\ ReadLayers(h)[i].name = Spelt(h.layers[i].name)
                           /\ IsFiniteSet(ReadLayers(h)[i].keys)
  <2> DEFINE keys(i) == {ReadKeys(h, i)[k].at : k \in 1 .. LayerField(h.layers[i]).count}
  <2>1. \A i \in 1 .. n : keys(i) \in SUBSET Nat /\ IsFiniteSet(keys(i)) BY ReadKeysFacts
  <2>2. \A i \in 1 .. n : Spelt(h.layers[i].name) \in Names BY <1>1, <1>2 DEF LayerRecords
  <2>3. ReadLayers(h) = [i \in 1 .. n |-> [name |-> Spelt(h.layers[i].name), keys |-> keys(i)]]
    BY DEF ReadLayers
  <2> HIDE DEF keys, n
  <2>4. ReadLayers(h) \in [1 .. n -> LayerRecords] BY <2>1, <2>2, <2>3 DEF LayerRecords
  <2>5. ReadLayers(h) \in Seq(LayerRecords) BY <1>1, <2>4
  <2>6. \A i \in 1 .. n : /\ ReadLayers(h)[i].name = Spelt(h.layers[i].name)
                          /\ ReadLayers(h)[i].keys = keys(i)
    BY <2>3
  <2> QED BY <2>1, <2>4, <2>5, <2>6
<1>6. /\ DOMAIN ReadPresence(h) = {Spelt(h.layers[i].name) : i \in 1 .. n}
      /\ \A l \in DOMAIN ReadPresence(h) : /\ l \in Names
                                           /\ ReadPresence(h)[l] \in Seq(SUBSET Nat)
                                           /\ Len(ReadPresence(h)[l]) = Words(h)
  <2>1. DOMAIN ReadPresence(h) = {Spelt(h.layers[i].name) : i \in 1 .. n} BY DEF ReadPresence
  <2>2. ASSUME NEW l \in {Spelt(h.layers[i].name) : i \in 1 .. n}
        PROVE  /\ l \in Names
               /\ ReadPresence(h)[l] \in Seq(SUBSET Nat)
               /\ Len(ReadPresence(h)[l]) = Words(h)
    <3> DEFINE x == h.layers[LastSpelt(h, l)].name
    <3>1. \E i \in 1 .. n : Spelt(h.layers[i].name) = l OBVIOUS
    <3>2. LastSpelt(h, l) \in 1 .. n BY <3>1, LastSpeltFacts
    <3>3. x \in DOMAIN h.presence BY <3>2, IndexTypes
    <3>4. h.presence[x] \in Seq(SUBSET Nat) BY <3>3, IndexTypes
    <3>5. Len(h.presence[x]) = Words(h) BY <3>3 DEF IsIndex
    <3>6. ReadPresence(h)[l] = h.presence[x] BY DEF ReadPresence
    <3>7. l \in Names BY <1>1, <1>2 DEF LayerRecords
    <3> HIDE DEF x
    <3> QED BY <3>4, <3>5, <3>6, <3>7
  <2> QED BY <2>1, <2>2
<1>7. ReadPresence(h) \in Bitmaps
  <2>1. ReadPresence(h) = [l \in DOMAIN ReadPresence(h) |-> ReadPresence(h)[l]] BY DEF ReadPresence
  <2>2. ReadPresence(h) \in [DOMAIN ReadPresence(h) -> Seq(SUBSET Nat)] BY <1>6, <2>1
  <2>3. DOMAIN ReadPresence(h) \subseteq Names BY <1>6
  <2> QED BY <2>2, <2>3, BitmapsAre
<1>8. r = [block_size |-> bs, names |-> ReadNames(h), arrays |-> ReadArrays(h),
           layers |-> ReadLayers(h), presence |-> ReadPresence(h)]
  BY ReadIndexIs
<1> HIDE DEF r, n
<1>9. /\ r.block_size = bs /\ r.names = ReadNames(h) /\ r.arrays = ReadArrays(h)
      /\ r.layers = ReadLayers(h) /\ r.presence = ReadPresence(h)
  BY <1>8
<1>10. r \in Handles BY <1>3, <1>4, <1>5, <1>7, <1>8 DEF Handles
<1>11. Words(r) = Words(h) BY <1>4, <1>9 DEF Words
<1>12. AllNamed(r)
  <2> SUFFICES ASSUME NEW i \in 1 .. Len(h.arrays) PROVE Named(r, r.arrays[i].key)
    BY <1>4, <1>9 DEF AllNamed
  <2>1. r.arrays[i].key = Spelt(h.arrays[i].key) BY <1>9 DEF ReadArrays, ReadArray
  <2>2. Named(h, h.arrays[i].key)
    <3>1. i \in DOMAIN h.arrays BY IndexTypes
    <3> QED BY <3>1 DEF AllNamed
  <2>3. PICK j \in 1 .. Len(h.names) : h.names[j] = h.arrays[i].key BY <2>2 DEF Named, Contains
  <2>4. ReadNames(h)[j] = Spelt(h.arrays[i].key) BY <2>3 DEF ReadNames
  <2>5. Len(ReadNames(h)) = Len(h.names) BY <1>1, <1>3
  <2> QED BY <1>9, <2>1, <2>4, <2>5 DEF Named, Contains
<1>13. DOMAIN r.presence = {r.layers[i].name : i \in DOMAIN r.layers} BY <1>5, <1>6, <1>9
<1>14. \A l \in DOMAIN r.presence : Len(r.presence[l]) = Words(r) BY <1>6, <1>9, <1>11
<1>15. \A i \in DOMAIN r.layers : IsFiniteSet(r.layers[i].keys) BY <1>5, <1>9
<1>16. \A l \in DOMAIN r.presence : Len(r.presence[l]) <= Words(r) BY <1>1, <1>11, <1>14
<1>17. IsIndex(r) BY <1>10, <1>12, <1>13, <1>14, <1>15, <1>16, Zenon DEF IsIndex
<1> QED BY <1>17 DEF r--------------------------------------------------------------------------------
(* What the operations do to an index.                                     *)

LEMMA DomainOfSequence ==
  ASSUME NEW E, NEW s \in Seq(E)
  PROVE  DOMAIN s = 1 .. Len(s)
OBVIOUS

\* New arrays in the place of old ones of the same keys.
LEMMA ReplacedIsIndex ==
  ASSUME NEW h, IsIndex(h), NEW as \in Seq(ArrayRecords), Len(as) = Len(h.arrays),
         \A i \in 1 .. Len(h.arrays) : as[i].key = h.arrays[i].key
  PROVE  /\ IsIndex([h EXCEPT !.arrays = as])
         /\ AllNamed([h EXCEPT !.arrays = as]) <=> AllNamed(h)
<1> DEFINE g == [h EXCEPT !.arrays = as]
<1>1. /\ g.block_size = h.block_size /\ g.names = h.names /\ g.arrays = as
      /\ g.layers = h.layers /\ g.presence = h.presence /\ g \in Handles
  BY DEF IsIndex, Handles
<1> HIDE DEF g
<1>2. AllNamed(g) <=> AllNamed(h)
  <2>1. \A k : Named(g, k) <=> Named(h, k) BY <1>1 DEF Named
  <2>2. DOMAIN h.arrays = 1 .. Len(h.arrays)
    <3>1. h.arrays \in Seq(ArrayRecords) BY IndexTypes
    <3> QED BY <3>1
  <2>3. DOMAIN as = 1 .. Len(h.arrays)
    <3>1. DOMAIN as = 1 .. Len(as) BY DomainOfSequence, Zenon
    <3> QED BY <3>1
  <2> QED BY <1>1, <2>1, <2>2, <2>3 DEF AllNamed
<1>3. Words(g) = Words(h) BY <1>1 DEF Words
<1>4. IsIndex(g) BY <1>1, <1>2, <1>3 DEF IsIndex
<1> QED BY <1>2, <1>4 DEF g

\* New bitmaps of the lengths that the arrays call for.
LEMMA BitmapsIsIndex ==
  ASSUME NEW h, IsIndex(h), NEW p \in Bitmaps, DOMAIN p = DOMAIN h.presence,
         \A l \in DOMAIN p : /\ Len(p[l]) <= Words(h)
                             /\ AllNamed(h) => Len(p[l]) = Words(h)
  PROVE  /\ IsIndex([h EXCEPT !.presence = p])
         /\ AllNamed([h EXCEPT !.presence = p]) <=> AllNamed(h)
<1> DEFINE g == [h EXCEPT !.presence = p]
<1>1. /\ g.block_size = h.block_size /\ g.names = h.names /\ g.arrays = h.arrays
      /\ g.layers = h.layers /\ g.presence = p /\ g \in Handles
  BY DEF IsIndex, Handles
<1> HIDE DEF g
<1>2. AllNamed(g) <=> AllNamed(h)
  <2>1. \A k : Named(g, k) <=> Named(h, k) BY <1>1 DEF Named
  <2> QED BY <1>1, <2>1 DEF AllNamed
<1>3. Words(g) = Words(h) BY <1>1 DEF Words
<1>4. IsIndex(g) BY <1>1, <1>2, <1>3 DEF IsIndex
<1> QED BY <1>2, <1>4 DEF g

LEMMA GrownFacts ==
  ASSUME NEW w \in Seq(SUBSET Nat), NEW n \in Nat
  PROVE  /\ Grown(w, n) \in Seq(SUBSET Nat)
         /\ Len(Grown(w, n)) = IF n <= Len(w) THEN Len(w) ELSE n
<1> DEFINE more == [i \in 1 .. n - Len(w) |-> {}]
<1>1. Len(w) \in Nat OBVIOUS
<1>2. CASE n <= Len(w)
  <2>1. 1 .. n - Len(w) = 1 .. 0 BY <1>1, <1>2
  <2>2. more = [i \in 1 .. 0 |-> {}] BY <2>1
  <2> HIDE DEF more
  <2>3. more \in Seq(SUBSET Nat) /\ Len(more) = 0 BY <2>2
  <2>4. w \o more = w BY <2>3
  <2> QED BY <1>2, <2>4 DEF Grown, more
<1>3. CASE n > Len(w)
  <2> DEFINE m == n - Len(w)
  <2>1. m \in Nat BY <1>1, <1>3
  <2>2. more = [i \in 1 .. m |-> {}] OBVIOUS
  <2> HIDE DEF m, more
  <2>3. more \in Seq(SUBSET Nat) /\ Len(more) = m BY <2>1, <2>2
  <2>4. w \o more \in Seq(SUBSET Nat) /\ Len(w \o more) = Len(w) + m BY <2>3, ConcatAt
  <2>5. Len(w) + m = n BY <1>1 DEF m
  <2> QED BY <1>1, <1>3, <2>4, <2>5 DEF Grown, more
<1> QED BY <1>1, <1>2, <1>3

LEMMA MarkedFacts ==
  ASSUME NEW w \in Seq(SUBSET Nat), NEW at \in Nat, NEW present \in BOOLEAN
  PROVE  LET n == at \div WordBits + 1
         IN  /\ Marked(w, at, present) \in Seq(SUBSET Nat) /\ n \in Nat
             /\ Len(Marked(w, at, present)) = IF n <= Len(w) THEN Len(w) ELSE n
<1> DEFINE n == at \div WordBits + 1
           g == Grown(w, n)
           b == at % WordBits
<1>1. n \in Nat \ {0} /\ b \in Nat
  <2>1. WordBits \in Nat \ {0} BY HeaderAssumption
  <2>2. at \div WordBits \in Nat /\ at % WordBits \in 0 .. WordBits - 1 BY <2>1, DivModIs
  <2> QED BY <2>1, <2>2
<1>2. Marked(w, at, present) = [g EXCEPT ![n] = IF present THEN @ \cup {b} ELSE @ \ {b}]
  BY DEF Marked
<1> HIDE DEF n, b
<1>3. g \in Seq(SUBSET Nat) /\ Len(g) = IF n <= Len(w) THEN Len(w) ELSE n BY <1>1, GrownFacts
<1> HIDE DEF g
<1>4. n \in 1 .. Len(g) BY <1>1, <1>3
<1>5. g[n] \in SUBSET Nat BY <1>3, <1>4
<1>6. (IF present THEN g[n] \cup {b} ELSE g[n] \ {b}) \in SUBSET Nat BY <1>1, <1>5
<1>7. Marked(w, at, present) \in Seq(SUBSET Nat) /\ Len(Marked(w, at, present)) = Len(g)
  <2> DEFINE x == IF present THEN g[n] \cup {b} ELSE g[n] \ {b}
  <2>1. Marked(w, at, present) = [g EXCEPT ![n] = x] BY <1>2
  <2>2. x \in SUBSET Nat BY <1>6
  <2> HIDE DEF x
  <2> QED BY <1>3, <1>4, <2>1, <2>2
<1>8. n \in Nat BY <1>1
<1>9. Len(Marked(w, at, present)) = IF n <= Len(w) THEN Len(w) ELSE n BY <1>3, <1>7, Zenon
<1> QED BY <1>7, <1>8, <1>9 DEF n

LEMMA PresenceIsIndex ==
  ASSUME NEW h, IsIndex(h), NEW l, NEW k, NEW present \in BOOLEAN
  PROVE  /\ IsIndex(Presence(h, l, k, present))
         /\ AllNamed(Presence(h, l, k, present)) <=> AllNamed(h)
<1> DEFINE p == [h.presence EXCEPT ![l] = Marked(@, DataOrdinal(h, k), present)]
           at == DataOrdinal(h, k)
<1>1. CASE ~HasArray(h, k) BY <1>1 DEF Presence
<1>2. CASE HasArray(h, k)
  <2>1. h.arrays \in Seq(ArrayRecords) /\ Words(h) \in Nat /\ Len(h.arrays) \in Nat BY IndexTypes
  <2>2. at \in 0 .. Len(h.arrays) - 1 BY <1>2, <2>1, ArrayAtFacts DEF DataOrdinal
  <2>3. at \in Nat /\ at < Len(h.arrays) BY <2>1, <2>2
  <2> HIDE DEF at
  <2>4. at \div WordBits + 1 <= Words(h)
    <3>1. WordBits \in Nat \ {0} BY HeaderAssumption
    <3> QED BY <2>1, <2>3, <3>1, CeilDivFacts DEF Words
  <2>5. ASSUME NEW m \in DOMAIN h.presence
        PROVE  /\ p[m] \in Seq(SUBSET Nat) /\ Len(p[m]) <= Words(h)
               /\ AllNamed(h) => Len(p[m]) = Words(h)
    <3> DEFINE w == h.presence[m]
               n == at \div WordBits + 1
    <3>1. w \in Seq(SUBSET Nat) /\ Len(w) <= Words(h) /\ (AllNamed(h) => Len(w) = Words(h))
      BY IndexTypes DEF IsIndex
    <3>2. p[m] = IF m = l THEN Marked(w, at, present) ELSE w BY DEF at
    <3> HIDE DEF w, p
    <3>3. /\ Marked(w, at, present) \in Seq(SUBSET Nat) /\ n \in Nat
          /\ Len(Marked(w, at, present)) = IF n <= Len(w) THEN Len(w) ELSE n
      BY <2>3, <3>1, MarkedFacts, Zenon
    <3>4. n <= Words(h) /\ Len(w) \in Nat BY <2>4, <3>1
    <3> DEFINE x == Marked(w, at, present)
    <3> HIDE DEF n, x
    <3>5. p[m] = x \/ p[m] = w BY <3>2, Zenon DEF x
    <3>6. x \in Seq(SUBSET Nat) /\ Len(x) = IF n <= Len(w) THEN Len(w) ELSE n
      BY <3>3, Zenon DEF x
    <3>7. Len(x) <= Words(h) /\ (Len(w) = Words(h) => Len(x) = Words(h))
      BY <2>1, <3>1, <3>3, <3>4, <3>6
    <3> QED BY <3>1, <3>5, <3>6, <3>7
  <2>6. p \in Bitmaps /\ DOMAIN p = DOMAIN h.presence
    <3>1. DOMAIN p = DOMAIN h.presence OBVIOUS
    <3>2. p = [m \in DOMAIN p |-> p[m]] OBVIOUS
    <3>3. DOMAIN h.presence \subseteq Names BY IndexTypes
    <3> HIDE DEF p
    <3>4. p \in [DOMAIN p -> Seq(SUBSET Nat)] BY <2>5, <3>1, <3>2
    <3> QED BY <3>1, <3>3, <3>4, BitmapsAre
  <2>7. Presence(h, l, k, present) = [h EXCEPT !.presence = p]
    <3>1. Presence(h, l, k, present) = [h EXCEPT !.presence[l] = Marked(@, DataOrdinal(h, k), present)]
      BY <1>2 DEF Presence
    <3> QED BY <3>1
  <2> HIDE DEF p
  <2>8. \A m \in DOMAIN p : Len(p[m]) <= Words(h) /\ (AllNamed(h) => Len(p[m]) = Words(h))
    BY <2>5, <2>6
  <2> QED BY <2>6, <2>7, <2>8, BitmapsIsIndex
<1> QED BY <1>1, <1>2
\* A name that is entered, unless the registry is full.
LEMMA WithNameFacts ==
  ASSUME NEW h, IsIndex(h), NEW k \in Names
  PROVE  LET names == IF Named(h, k) THEN h.names ELSE Append(h.names, k)
         IN  /\ names \in Seq(Names) /\ Len(names) \in Nat /\ Len(h.names) <= Len(names)
             /\ \A i \in 1 .. Len(h.names) : names[i] = h.names[i]
             /\ \E i \in 1 .. Len(names) : names[i] = k
             /\ WithName(h, k) = [h EXCEPT !.names = names]
<1> DEFINE names == IF Named(h, k) THEN h.names ELSE Append(h.names, k)
<1>1. h.names \in Seq(Names) /\ Len(h.names) \in Nat BY IndexTypes
<1>2. WithName(h, k) = [h EXCEPT !.names = names]
  <2>1. CASE Named(h, k)
    <3>1. h = [h EXCEPT !.names = h.names] BY DEF IsIndex, Handles
    <3> QED BY <2>1, <3>1 DEF WithName
  <2>2. CASE ~Named(h, k) BY <2>2 DEF WithName
  <2> QED BY <2>1, <2>2
<1>3. CASE Named(h, k)
  <2>1. \E i \in 1 .. Len(h.names) : h.names[i] = k BY <1>3 DEF Named, Contains
  <2> QED BY <1>1, <1>2, <1>3, <2>1
<1>4. CASE ~Named(h, k)
  <2> DEFINE more == Append(h.names, k)
  <2>1. /\ more \in Seq(Names) /\ Len(more) = Len(h.names) + 1
        /\ more[Len(h.names) + 1] = k
        /\ \A i \in 1 .. Len(h.names) : more[i] = h.names[i]
    BY <1>1
  <2>2. names = more BY <1>4
  <2> HIDE DEF more, names
  <2>3. Len(h.names) + 1 \in 1 .. Len(names) BY <1>1, <2>1, <2>2
  <2>4. names[Len(h.names) + 1] = k BY <2>1, <2>2
  <2>5. \E i \in 1 .. Len(names) : names[i] = k BY <2>3, <2>4
  <2>6. names \in Seq(Names) /\ Len(names) \in Nat /\ Len(h.names) <= Len(names)
    BY <1>1, <2>1, <2>2
  <2>7. \A i \in 1 .. Len(h.names) : names[i] = h.names[i] BY <2>1, <2>2
  <2> QED BY <1>2, <2>5, <2>6, <2>7 DEF names
<1> QED BY <1>3, <1>4

LEMMA WithNameIsIndex ==
  ASSUME NEW h, IsIndex(h), NEW k \in Names, ~Full(h, k)
  PROVE  IsIndex(WithName(h, k)) /\ Named(WithName(h, k), k)
<1> DEFINE names == IF Named(h, k) THEN h.names ELSE Append(h.names, k)
           g == WithName(h, k)
<1>1. /\ names \in Seq(Names) /\ Len(names) \in Nat /\ Len(h.names) <= Len(names)
      /\ \A i \in 1 .. Len(h.names) : names[i] = h.names[i]
      /\ \E i \in 1 .. Len(names) : names[i] = k
      /\ g = [h EXCEPT !.names = names]
  BY WithNameFacts
<1>2. CASE Named(h, k) BY <1>2 DEF WithName
<1>3. CASE ~Named(h, k)
  <2> HIDE DEF names, g
  <2>1. /\ g.block_size = h.block_size /\ g.names = names /\ g.arrays = h.arrays
        /\ g.layers = h.layers /\ g.presence = h.presence /\ g \in Handles
    BY <1>1 DEF IsIndex, Handles
  <2>2. Named(g, k) BY <1>1, <2>1 DEF Named, Contains
  <2>3. AllNamed(h)
    <3>1. Len(h.names) <= MaxCount
      <4>1. Len(h.names) \in Nat /\ MaxCount \in Nat BY IndexTypes, HeaderAssumption
      <4> QED BY <1>3, <4>1 DEF Full
    <3>2. Len(h.names) \in Nat /\ MaxCount \in Nat BY IndexTypes, HeaderAssumption
    <3> QED BY <3>1, <3>2 DEF IsIndex
  <2>4. AllNamed(g)
    <3>1. Len(h.names) \in Nat BY IndexTypes
    <3>2. 1 .. Len(h.names) \subseteq 1 .. Len(names) BY <1>1, <3>1
    <3>3. \A n : Named(h, n) => Named(g, n) BY <1>1, <2>1, <3>2 DEF Named, Contains
    <3> QED BY <2>1, <2>3, <3>3 DEF AllNamed
  <2>5. Words(g) = Words(h) BY <2>1 DEF Words
  <2>6. IsIndex(g) BY <2>1, <2>3, <2>4, <2>5 DEF IsIndex
  <2> QED BY <2>2, <2>6 DEF g
<1> QED BY <1>2, <1>3

\* put(): an array in the place of one of its key, or a new one.
LEMMA ListedAgain ==
  ASSUME NEW h, IsIndex(h), NEW k \in Names, NEW s \in Shapes, HasArray(h, k)
  PROVE  IsIndex(Listed(h, k, s))
<1> DEFINE a == [key |-> k, dims |-> s.dims, bytes |-> s.bytes, blocks |-> 0, dirty |-> TRUE]
           at == ArrayAt(h, k)
           as == [h.arrays EXCEPT ![at + 1] = a]
<1>1. h.arrays \in Seq(ArrayRecords) /\ Len(h.arrays) \in Nat BY IndexTypes
<1>2. at \in 0 .. Len(h.arrays) - 1 /\ h.arrays[at + 1].key = k BY <1>1, ArrayAtFacts
<1>3. a \in ArrayRecords
  <2>1. s.dims \in Nat /\ s.bytes \in Nat BY HeaderAssumption
  <2> QED BY <2>1 DEF ArrayRecords
<1>4. a.key = k OBVIOUS
<1>5. Listed(h, k, s) = [h EXCEPT !.arrays = as] BY DEF Listed
<1> HIDE DEF a, at
<1>6. at + 1 \in 1 .. Len(h.arrays) BY <1>1, <1>2
<1>7. as \in Seq(ArrayRecords) /\ Len(as) = Len(h.arrays) BY <1>1, <1>3, <1>6
<1>8. \A i \in 1 .. Len(h.arrays) : as[i].key = h.arrays[i].key BY <1>1, <1>2, <1>4, <1>6
<1> HIDE DEF as
<1> QED BY <1>5, <1>7, <1>8, ReplacedIsIndex

LEMMA AppendFacts ==
  ASSUME NEW E, NEW s \in Seq(E), NEW x \in E
  PROVE  /\ Append(s, x) \in Seq(E) /\ Len(s) \in Nat /\ Len(Append(s, x)) = Len(s) + 1
         /\ DOMAIN s = 1 .. Len(s) /\ DOMAIN Append(s, x) = 1 .. Len(s) + 1
         /\ \A i \in 1 .. Len(s) : Append(s, x)[i] = s[i]
         /\ Append(s, x)[Len(s) + 1] = x
OBVIOUS

\* The facts of an index with one more array and names that are no fewer.
LEMMA LongerIndex ==
  ASSUME NEW h, IsIndex(h), NEW g, NEW a \in ArrayRecords, g.arrays = Append(h.arrays, a)
  PROVE  /\ g.arrays \in Seq(ArrayRecords) /\ Len(g.arrays) = Len(h.arrays) + 1
         /\ Len(h.arrays) \in Nat /\ Words(g) \in Nat /\ Words(h) <= Words(g)
         /\ Words(g) = CeilDiv(Len(h.arrays) + 1, WordBits)
         /\ \A i \in 1 .. Len(h.arrays) : g.arrays[i] = h.arrays[i]
         /\ g.arrays[Len(h.arrays) + 1] = a
<1> DEFINE n == Len(h.arrays)
<1>1. h.arrays \in Seq(ArrayRecords) BY IndexTypes
<1>2. /\ g.arrays \in Seq(ArrayRecords) /\ Len(g.arrays) = n + 1 /\ n \in Nat
      /\ \A i \in 1 .. n : g.arrays[i] = h.arrays[i]
      /\ g.arrays[n + 1] = a
  BY <1>1, AppendFacts
<1> HIDE DEF n
<1>3. n + 1 \in Nat /\ n <= n + 1 /\ WordBits \in Nat \ {0} BY <1>2, HeaderAssumption
<1>4. CeilDiv(n + 1, WordBits) \in Nat /\ CeilDiv(n, WordBits) <= CeilDiv(n + 1, WordBits)
  BY <1>2, <1>3, CeilDivFacts
<1>5. Words(g) = CeilDiv(n + 1, WordBits) /\ Words(h) = CeilDiv(n, WordBits)
  BY <1>2 DEF Words, n
<1> QED BY <1>2, <1>4, <1>5 DEF n

\* The registry refuses the name: the array stays in the list without one.
LEMMA RefusedIsIndex ==
  ASSUME NEW h, IsIndex(h), NEW a \in ArrayRecords, Full(h, a.key)
  PROVE  IsIndex([h EXCEPT !.arrays = Append(@, a)])
<1> DEFINE g == [h EXCEPT !.arrays = Append(@, a)]
           n == Len(h.arrays)
<1>1. /\ g.block_size = h.block_size /\ g.names = h.names /\ g.arrays = Append(h.arrays, a)
      /\ g.layers = h.layers /\ g.presence = h.presence
  BY DEF IsIndex, Handles
<1> HIDE DEF g
<1>2. /\ g.arrays \in Seq(ArrayRecords) /\ Len(g.arrays) = n + 1 /\ n \in Nat
      /\ Words(g) \in Nat /\ Words(h) <= Words(g) /\ g.arrays[n + 1] = a
  BY <1>1, LongerIndex, ZenonT(40)
<1>3. g \in Handles
  <2>1. g = [h EXCEPT !.arrays = Append(h.arrays, a)] BY DEF g
  <2>2. Append(h.arrays, a) \in Seq(ArrayRecords) BY <1>1, <1>2
  <2> QED BY <2>1, <2>2 DEF IsIndex, Handles
<1>4. ~AllNamed(g)
  <2>1. n + 1 \in DOMAIN g.arrays
    <3>1. DOMAIN g.arrays = 1 .. Len(g.arrays) BY <1>2, DomainOfSequence, Zenon
    <3> HIDE DEF n
    <3> QED BY <1>2, <3>1
  <2>2. ~Named(g, a.key) BY <1>1 DEF Full, Named
  <2> QED BY <1>2, <2>1, <2>2 DEF AllNamed
<1>5. Len(g.names) > MaxCount BY <1>1 DEF Full
<1>6. \A l \in DOMAIN g.presence : Len(g.presence[l]) <= Words(g)
  <2> SUFFICES ASSUME NEW l \in DOMAIN h.presence PROVE Len(h.presence[l]) <= Words(g) BY <1>1
  <2>1. h.presence[l] \in Seq(SUBSET Nat) /\ Words(h) \in Nat BY IndexTypes
  <2>2. Len(h.presence[l]) <= Words(h) BY DEF IsIndex
  <2>3. Len(h.presence[l]) \in Nat BY <2>1
  <2> QED BY <1>2, <2>1, <2>2, <2>3
<1>7. DOMAIN g.presence = {g.layers[i].name : i \in DOMAIN g.layers} BY <1>1 DEF IsIndex
<1>8. \A i \in DOMAIN g.layers : IsFiniteSet(g.layers[i].keys) BY <1>1 DEF IsIndex
<1>9. IsIndex(g) BY <1>3, <1>4, <1>5, <1>6, <1>7, <1>8 DEF IsIndex
<1> QED BY <1>9 DEF g
\* The arrays of a handle with a new one, whose name is entered.
Entered(h, k, s) == WithName(Listed(h, k, s), k)

LEMMA EnteredFacts ==
  ASSUME NEW h, IsIndex(h), NEW k \in Names, NEW s \in Shapes, ~HasArray(h, k), ~Full(h, k)
  PROVE  LET g == Entered(h, k, s)
         IN  /\ g \in Handles /\ g.presence = h.presence /\ g.layers = h.layers
             /\ Words(g) \in Nat /\ Words(h) <= Words(g)
             /\ HasArray(g, k) /\ ArrayAt(g, k) = Len(h.arrays)
             /\ CeilDiv(ArrayAt(g, k) + 1, WordBits) = Words(g)
             /\ ~AllNamed(g) => Len(g.names) > MaxCount
<1> DEFINE a == [key |-> k, dims |-> s.dims, bytes |-> s.bytes, blocks |-> 0, dirty |-> TRUE]
           e == [h EXCEPT !.arrays = Append(@, a)]
           names == IF Named(h, k) THEN h.names ELSE Append(h.names, k)
           g == Entered(h, k, s)
           n == Len(h.arrays)
<1>1. a \in ArrayRecords /\ a.key = k
  <2>1. s.dims \in Nat /\ s.bytes \in Nat BY HeaderAssumption
  <2> QED BY <2>1 DEF ArrayRecords
<1>2. Listed(h, k, s) = e BY DEF Listed
<1> HIDE DEF a
<1>3. h \in Handles BY DEF IsIndex
<1>4. Append(h.arrays, a) \in Seq(ArrayRecords) BY <1>1, AppendFacts, IndexTypes
<1>5. /\ names \in Seq(Names) /\ Len(names) \in Nat /\ Len(h.names) <= Len(names)
      /\ \A i \in 1 .. Len(h.names) : names[i] = h.names[i]
      /\ \E i \in 1 .. Len(names) : names[i] = k
  BY WithNameFacts
<1>6. g = [e EXCEPT !.names = names]
  <2>1. e.names = h.names /\ e = [e EXCEPT !.names = h.names] BY <1>3 DEF Handles
  <2>2. Named(e, k) <=> Named(h, k) BY <2>1 DEF Named
  <2> HIDE DEF e
  <2>3. WithName(e, k) = [e EXCEPT !.names = names] BY <2>1, <2>2 DEF WithName
  <2> QED BY <1>2, <2>3 DEF Entered
<1> HIDE DEF names, g
<1>7. /\ g \in Handles /\ g.presence = h.presence /\ g.layers = h.layers
      /\ g.names = names /\ g.arrays = Append(h.arrays, a)
  BY <1>3, <1>4, <1>5, <1>6 DEF Handles
<1> HIDE DEF e
<1>8. /\ g.arrays \in Seq(ArrayRecords) /\ Len(g.arrays) = n + 1 /\ n \in Nat
      /\ Words(g) \in Nat /\ Words(h) <= Words(g) /\ Words(g) = CeilDiv(n + 1, WordBits)
      /\ \A i \in 1 .. n : g.arrays[i] = h.arrays[i]
      /\ g.arrays[n + 1] = a
  BY <1>1, <1>7, LongerIndex, ZenonT(40)
<1>9. DOMAIN g.arrays = 1 .. n + 1 /\ DOMAIN h.arrays = 1 .. n
  <2>1. h.arrays \in Seq(ArrayRecords) BY IndexTypes
  <2>2. DOMAIN h.arrays = 1 .. n BY <2>1
  <2>3. DOMAIN g.arrays = 1 .. Len(g.arrays) BY <1>8, DomainOfSequence, Zenon
  <2> QED BY <1>8, <2>2, <2>3
<1> HIDE DEF n
<1>10. n + 1 \in DOMAIN g.arrays BY <1>8, <1>9
<1>11. HasArray(g, k) BY <1>1, <1>8, <1>10 DEF HasArray
<1>12. ArrayAt(g, k) = n
  <2> DEFINE at == ArrayAt(g, k)
  <2>1. at \in 0 .. (n + 1) - 1 /\ g.arrays[at + 1].key = k BY <1>8, <1>11, ArrayAtFacts
  <2> HIDE DEF at
  <2>2. ASSUME at < n PROVE FALSE
    <3>1. at + 1 \in 1 .. n BY <1>8, <2>1, <2>2
    <3>2. h.arrays[at + 1].key = k BY <1>8, <2>1, <3>1
    <3> QED BY <1>9, <3>1, <3>2 DEF HasArray
  <2>3. at = n BY <1>8, <2>1, <2>2
  <2> QED BY <2>3 DEF at
<1>13. ASSUME AllNamed(h) PROVE AllNamed(g)
  <2>1. Len(h.names) \in Nat BY IndexTypes
  <2>2. \A m : Named(h, m) => Named(g, m)
    <3>1. 1 .. Len(h.names) \subseteq 1 .. Len(names) BY <1>5, <2>1
    <3> QED BY <1>5, <1>7, <3>1 DEF Named, Contains
  <2>3. Named(g, k) BY <1>5, <1>7 DEF Named, Contains
  <2>4. ASSUME NEW i \in 1 .. n + 1 PROVE Named(g, g.arrays[i].key)
    <3>1. CASE i = n + 1 BY <1>1, <1>8, <2>3, <3>1
    <3>2. CASE i # n + 1
      <4>1. i \in 1 .. n BY <1>8, <3>2
      <4>2. Named(h, h.arrays[i].key) BY <1>9, <1>13, <4>1 DEF AllNamed
      <4> QED BY <1>8, <2>2, <4>1, <4>2
    <3> QED BY <3>1, <3>2
  <2> QED BY <1>9, <2>4 DEF AllNamed
<1>14. ~AllNamed(g) => Len(g.names) > MaxCount
  <2>1. Len(h.names) \in Nat /\ MaxCount \in Nat BY IndexTypes, HeaderAssumption
  <2>2. ~AllNamed(g) => Len(h.names) > MaxCount BY <1>13 DEF IsIndex
  <2> QED BY <1>5, <1>7, <2>1, <2>2
<1>15. CeilDiv(ArrayAt(g, k) + 1, WordBits) = Words(g) BY <1>8, <1>12
<1> QED BY <1>7, <1>8, <1>11, <1>12, <1>14, <1>15 DEF g, n

\* The registry takes the name: every bitmap grows to the word of the array.
LEMMA AcceptedIsIndex ==
  ASSUME NEW h, IsIndex(h), NEW k \in Names, NEW s \in Shapes, ~HasArray(h, k), ~Full(h, k)
  PROVE  IsIndex(WithBits(Entered(h, k, s), k))
<1> DEFINE g == Entered(h, k, s)
           w == Words(g)
           p == [l \in DOMAIN h.presence |-> Grown(h.presence[l], w)]
           grown == [g EXCEPT !.presence = p]
<1>1. /\ g \in Handles /\ g.presence = h.presence /\ g.layers = h.layers
      /\ w \in Nat /\ Words(h) <= w
      /\ CeilDiv(ArrayAt(g, k) + 1, WordBits) = w
      /\ ~AllNamed(g) => Len(g.names) > MaxCount
  BY EnteredFacts
<1> HIDE DEF g
<1>2. WithBits(g, k) = Presence(grown, Base, k, TRUE)
  <2>1. CeilDiv(DataOrdinal(g, k) + 1, WordBits) = w BY <1>1 DEF DataOrdinal
  <2>2. grown = [g EXCEPT !.presence = [l \in DOMAIN @ |-> Grown(@[l], w)]] BY <1>1
  <2> HIDE DEF w, grown
  <2> QED BY <2>1, <2>2, Zenon DEF WithBits
<1> HIDE DEF w
<1>3. ASSUME NEW l \in DOMAIN p PROVE p[l] \in Seq(SUBSET Nat) /\ Len(p[l]) = w
  <2> DEFINE x == h.presence[l]
  <2>1. x \in Seq(SUBSET Nat) /\ Words(h) \in Nat BY IndexTypes
  <2>2. Len(x) <= Words(h) BY DEF IsIndex
  <2>3. p[l] = Grown(x, w) OBVIOUS
  <2> HIDE DEF x, p
  <2>4. Grown(x, w) \in Seq(SUBSET Nat) /\ Len(Grown(x, w)) = IF w <= Len(x) THEN Len(x) ELSE w
    BY <1>1, <2>1, GrownFacts
  <2>5. Len(x) \in Nat BY <2>1
  <2>6. Len(Grown(x, w)) = w BY <1>1, <2>1, <2>2, <2>4, <2>5
  <2> QED BY <2>3, <2>4, <2>6
<1>4. p \in Bitmaps /\ DOMAIN p = DOMAIN h.presence
  <2>1. DOMAIN p = DOMAIN h.presence /\ p = [l \in DOMAIN p |-> p[l]] OBVIOUS
  <2>2. DOMAIN h.presence \subseteq Names BY IndexTypes
  <2> HIDE DEF p
  <2>3. p \in [DOMAIN p -> Seq(SUBSET Nat)] BY <1>3, <2>1
  <2> QED BY <2>1, <2>2, <2>3, BitmapsAre
<1> HIDE DEF p
<1>5. /\ grown.names = g.names /\ grown.arrays = g.arrays /\ grown.layers = g.layers
      /\ grown.presence = p /\ grown \in Handles
  BY <1>1, <1>4 DEF Handles
<1> HIDE DEF grown
<1>6. AllNamed(grown) <=> AllNamed(g)
  <2>1. \A n : Named(grown, n) <=> Named(g, n) BY <1>5 DEF Named
  <2> QED BY <1>5, <2>1 DEF AllNamed
<1>7. Words(grown) = w BY <1>5 DEF Words, w
<1>8. /\ \A i \in DOMAIN grown.layers : IsFiniteSet(grown.layers[i].keys)
      /\ DOMAIN grown.presence = {grown.layers[i].name : i \in DOMAIN grown.layers}
  BY <1>1, <1>4, <1>5 DEF IsIndex
<1>9. \A l \in DOMAIN grown.presence : /\ Len(grown.presence[l]) <= Words(grown)
                                       /\ Len(grown.presence[l]) = Words(grown)
  BY <1>1, <1>3, <1>5, <1>7
<1>10. ~AllNamed(grown) => Len(grown.names) > MaxCount BY <1>1, <1>5, <1>6
<1>11. IsIndex(grown) BY <1>5, <1>8, <1>9, <1>10 DEF IsIndex
<1>12. IsIndex(Presence(grown, Base, k, TRUE)) BY <1>11, PresenceIsIndex
<1> QED BY <1>2, <1>12 DEF g

LEMMA StoredIsIndex ==
  ASSUME NEW h, IsIndex(h), NEW k \in Names, NEW s \in Shapes
  PROVE  IsIndex(Stored(h, k, s))
<1>1. CASE HasArray(h, k) BY <1>1, ListedAgain DEF Stored
<1>2. CASE ~HasArray(h, k) /\ Full(h, k)
  <2> DEFINE a == [key |-> k, dims |-> s.dims, bytes |-> s.bytes, blocks |-> 0, dirty |-> TRUE]
  <2>1. a \in ArrayRecords /\ a.key = k
    <3>1. s.dims \in Nat /\ s.bytes \in Nat BY HeaderAssumption
    <3> QED BY <3>1 DEF ArrayRecords
  <2>2. Stored(h, k, s) = [h EXCEPT !.arrays = Append(@, a)] BY <1>2 DEF Stored, Listed
  <2> HIDE DEF a
  <2> QED BY <1>2, <2>1, <2>2, RefusedIsIndex
<1>3. CASE ~HasArray(h, k) /\ ~Full(h, k)
  <2>1. Stored(h, k, s) = WithBits(Entered(h, k, s), k) BY <1>3 DEF Stored, Entered
  <2> QED BY <1>3, <2>1, AcceptedIsIndex
<1> QED BY <1>1, <1>2, <1>3
LEMMA EmptyIsIndex ==
  ASSUME NEW bs \in BlockSizes
  PROVE  IsIndex(EmptyHandle(bs))
<1> DEFINE h == EmptyHandle(bs)
           l == [name |-> Base, keys |-> {}]
           p == [m \in {Base} |-> <<>>]
<1>1. /\ h.block_size = bs /\ h.names = <<>> /\ h.arrays = <<>> /\ h.layers = <<l>>
      /\ h.presence = p
  BY DEF EmptyHandle
<1>2. l \in LayerRecords /\ l.name = Base /\ IsFiniteSet(l.keys)
  <2>1. Base \in Names BY DEF Names
  <2>2. IsFiniteSet({}) BY FS_EmptySet
  <2> QED BY <2>1, <2>2 DEF LayerRecords
<1>3. p \in Bitmaps /\ DOMAIN p = {Base} /\ p[Base] = <<>>
  <2>1. Base \in Names BY DEF Names
  <2>2. p \in [DOMAIN p -> Seq(SUBSET Nat)] /\ DOMAIN p = {Base} OBVIOUS
  <2> QED BY <2>1, <2>2, BitmapsAre
<1> HIDE DEF l, p
<1>4. h \in Handles
  <2>1. bs \in Nat \ {0} BY HeaderAssumption
  <2>2. <<l>> \in Seq(LayerRecords) BY <1>2
  <2>3. h = [block_size |-> bs, names |-> <<>>, arrays |-> <<>>, layers |-> <<l>>, presence |-> p]
    BY DEF EmptyHandle, l, p
  <2>4. <<>> \in Seq(Names) /\ <<>> \in Seq(ArrayRecords) OBVIOUS
  <2> HIDE DEF h
  <2> QED BY <1>3, <2>1, <2>2, <2>3, <2>4 DEF Handles
<1> HIDE DEF h
<1>5. DOMAIN h.layers = {1} /\ h.layers[1] = l BY <1>1
<1>6. Words(h) = 0
  <2>1. WordBits \in Nat \ {0} BY HeaderAssumption
  <2>2. Len(h.arrays) = 0 BY <1>1
  <2>3. CeilDiv(0, WordBits) = (WordBits - 1) \div WordBits BY <2>1 DEF CeilDiv
  <2>4. (0 * WordBits + (WordBits - 1)) \div WordBits = 0
    <3>1. WordBits - 1 \in 0 .. WordBits - 1 BY <2>1
    <3> QED BY <2>1, <3>1, DivModOf
  <2>5. 0 * WordBits + (WordBits - 1) = WordBits - 1 BY <2>1
  <2> QED BY <2>2, <2>3, <2>4, <2>5 DEF Words
<1>7. \A m \in DOMAIN h.presence : Len(h.presence[m]) = 0 BY <1>1, <1>3
<1>8. AllNamed(h) BY <1>1 DEF AllNamed
<1>9. DOMAIN h.presence = {h.layers[i].name : i \in DOMAIN h.layers} BY <1>1, <1>2, <1>3, <1>5
<1>10. \A i \in DOMAIN h.layers : IsFiniteSet(h.layers[i].keys) BY <1>2, <1>5
<1>11. IsIndex(h) BY <1>4, <1>6, <1>7, <1>8, <1>9, <1>10 DEF IsIndex
<1> QED BY <1>11 DEF h

\* A key of a metadata block: its number enters the keys of the layer.
LEMMA KeyedIsIndex ==
  ASSUME NEW h, IsIndex(h), NEW l \in DOMAIN h.presence, NEW n \in Nat
  PROVE  IsIndex([h EXCEPT !.layers[LayerAt(h, l)].keys = @ \cup {n}])
<1> DEFINE at == LayerAt(h, l)
           old == h.layers[at]
           new == [old EXCEPT !.keys = @ \cup {n}]
           layers == [h.layers EXCEPT ![at] = new]
           g == [h EXCEPT !.layers = layers]
<1>1. h.layers \in Seq(LayerRecords) /\ DOMAIN h.layers = 1 .. Len(h.layers) BY IndexTypes
<1>2. at \in DOMAIN h.layers /\ old.name = l
  <2>1. \E i \in DOMAIN h.layers : h.layers[i].name = l BY DEF IsIndex
  <2> QED BY <1>1, <2>1, LayerAtFacts
<1>3. [h EXCEPT !.layers[LayerAt(h, l)].keys = @ \cup {n}] = g OBVIOUS
<1> HIDE DEF at
<1>4. old \in LayerRecords /\ IsFiniteSet(old.keys)
  <2>1. old \in LayerRecords BY <1>1, <1>2
  <2> QED BY <1>2, <2>1 DEF IsIndex
<1> HIDE DEF old
<1>5. new \in LayerRecords /\ new.name = old.name /\ new.keys = old.keys \cup {n}
  BY <1>4 DEF LayerRecords
<1>6. IsFiniteSet(new.keys) BY <1>4, <1>5, FS_AddElement
<1> HIDE DEF new
<1>7. /\ layers \in Seq(LayerRecords) /\ DOMAIN layers = DOMAIN h.layers
      /\ \A i \in DOMAIN h.layers : layers[i] = IF i = at THEN new ELSE h.layers[i]
  BY <1>1, <1>2, <1>5
<1> HIDE DEF layers
<1>8. /\ g.names = h.names /\ g.arrays = h.arrays /\ g.layers = layers
      /\ g.presence = h.presence /\ g \in Handles
  BY <1>7 DEF IsIndex, Handles
<1> HIDE DEF g
<1>9. \A i \in DOMAIN h.layers : layers[i].name = h.layers[i].name BY <1>5, <1>7 DEF old
<1>10. \A i \in DOMAIN h.layers : IsFiniteSet(layers[i].keys) BY <1>6, <1>7 DEF IsIndex
<1>11. AllNamed(g) <=> AllNamed(h)
  <2>1. \A k : Named(g, k) <=> Named(h, k) BY <1>8 DEF Named
  <2> QED BY <1>8, <2>1 DEF AllNamed
<1>12. Words(g) = Words(h) BY <1>8 DEF Words
<1>13. DOMAIN g.presence = {g.layers[i].name : i \in DOMAIN g.layers}
  BY <1>7, <1>8, <1>9 DEF IsIndex
<1>14. IsIndex(g) BY <1>7, <1>8, <1>10, <1>11, <1>12, <1>13 DEF IsIndex
<1> QED BY <1>3, <1>14

\* A new layer has a bitmap with a word for every WordBits arrays.
LEMMA LayeredIsIndex ==
  ASSUME NEW h, IsIndex(h), NEW l \in Layers, l \notin DOMAIN h.presence
  PROVE  IsIndex([h EXCEPT !.layers = Append(@, [name |-> l, keys |-> {}]),
                           !.presence = [m \in DOMAIN @ \cup {l} |->
                                           IF m = l THEN EmptyBitmap(h) ELSE @[m]]])
<1> DEFINE new == [name |-> l, keys |-> {}]
           layers == Append(h.layers, new)
           p == [m \in DOMAIN h.presence \cup {l} |->
                   IF m = l THEN EmptyBitmap(h) ELSE h.presence[m]]
           g == [h EXCEPT !.layers = layers, !.presence = p]
           n == Len(h.layers)
<1>1. [h EXCEPT !.layers = Append(@, [name |-> l, keys |-> {}]),
                !.presence = [m \in DOMAIN @ \cup {l} |->
                                IF m = l THEN EmptyBitmap(h) ELSE @[m]]] = g
  BY Zenon
<1>2. new \in LayerRecords /\ new.name = l /\ IsFiniteSet(new.keys)
  <2>1. l \in Names BY DEF Names
  <2>2. IsFiniteSet({}) BY FS_EmptySet
  <2> QED BY <2>1, <2>2 DEF LayerRecords
<1> HIDE DEF new
<1>3. h.layers \in Seq(LayerRecords) BY IndexTypes
<1>4. /\ layers \in Seq(LayerRecords) /\ n \in Nat
      /\ DOMAIN h.layers = 1 .. n /\ DOMAIN layers = 1 .. n + 1
      /\ \A i \in 1 .. n : layers[i] = h.layers[i]
      /\ layers[n + 1] = new
  BY <1>2, <1>3, AppendFacts
<1> HIDE DEF layers, n
<1>5. EmptyBitmap(h) \in Seq(SUBSET Nat) /\ Len(EmptyBitmap(h)) = Words(h)
  <2>1. EmptyBitmap(h) = [i \in 1 .. Words(h) |-> {}] BY DEF EmptyBitmap, Words
  <2>2. Words(h) \in Nat BY IndexTypes
  <2> QED BY <2>1, <2>2
<1>6. DOMAIN p = DOMAIN h.presence \cup {l} OBVIOUS
<1>7. ASSUME NEW m \in DOMAIN p
      PROVE  /\ p[m] \in Seq(SUBSET Nat) /\ Len(p[m]) <= Words(h)
             /\ AllNamed(h) => Len(p[m]) = Words(h)
  <2>1. CASE m = l
    <3>1. p[m] = EmptyBitmap(h) BY <2>1
    <3>2. Words(h) \in Nat BY IndexTypes
    <3> QED BY <1>5, <3>1, <3>2
  <2>2. CASE m # l
    <3>1. m \in DOMAIN h.presence BY <2>2
    <3>2. p[m] = h.presence[m] BY <2>2
    <3>3. h.presence[m] \in Seq(SUBSET Nat) BY <3>1, IndexTypes
    <3> HIDE DEF p
    <3> QED BY <3>1, <3>2, <3>3 DEF IsIndex
  <2> QED BY <2>1, <2>2
<1>8. p \in Bitmaps
  <2>1. p = [m \in DOMAIN p |-> p[m]] OBVIOUS
  <2>2. DOMAIN p \subseteq Names
    <3>1. l \in Names BY DEF Names
    <3>2. DOMAIN h.presence \subseteq Names BY IndexTypes
    <3> QED BY <1>6, <3>1, <3>2
  <2> HIDE DEF p
  <2>3. p \in [DOMAIN p -> Seq(SUBSET Nat)] BY <1>7, <2>1
  <2> QED BY <2>2, <2>3, BitmapsAre
<1> HIDE DEF p
<1>9. /\ g.names = h.names /\ g.arrays = h.arrays /\ g.layers = layers
      /\ g.presence = p /\ g \in Handles
  BY <1>4, <1>8 DEF IsIndex, Handles
<1> HIDE DEF g
<1>10. AllNamed(g) <=> AllNamed(h)
  <2>1. \A k : Named(g, k) <=> Named(h, k) BY <1>9 DEF Named
  <2> QED BY <1>9, <2>1 DEF AllNamed
<1>11. Words(g) = Words(h) BY <1>9 DEF Words
<1>12. DOMAIN g.presence = {g.layers[i].name : i \in DOMAIN g.layers}
  <2>1. DOMAIN h.presence = {h.layers[i].name : i \in 1 .. n} BY <1>4 DEF IsIndex
  <2>2. 1 .. n + 1 = (1 .. n) \cup {n + 1} BY <1>4
  <2>3. {layers[i].name : i \in 1 .. n + 1} = {h.layers[i].name : i \in 1 .. n} \cup {l}
    BY <1>2, <1>4, <2>2
  <2> QED BY <1>4, <1>6, <1>9, <2>1, <2>3
<1>13. \A i \in DOMAIN g.layers : IsFiniteSet(g.layers[i].keys)
  <2>1. 1 .. n + 1 = (1 .. n) \cup {n + 1} BY <1>4
  <2>2. \A i \in 1 .. n : IsFiniteSet(h.layers[i].keys) BY <1>4 DEF IsIndex
  <2> QED BY <1>2, <1>4, <1>9, <2>1, <2>2
<1>14. ~AllNamed(g) => Len(g.names) > MaxCount BY <1>9, <1>10 DEF IsIndex
<1>15. /\ \A m \in DOMAIN g.presence : Len(g.presence[m]) <= Words(g)
       /\ AllNamed(g) => \A m \in DOMAIN g.presence : Len(g.presence[m]) = Words(g)
  BY <1>7, <1>9, <1>10, <1>11
<1>16. IsIndex(g) BY <1>9, <1>12, <1>13, <1>14, <1>15 DEF IsIndex
<1> QED BY <1>1, <1>16
\* flush counts the blocks of every array: those that are compressed later are
\* as many as those the size of the header was computed from.
LEMMA EstimatedIsCompressed ==
  ASSUME NEW h
  PROVE  Estimated(h) = Compressed(h)
BY DEF Estimated, Compressed, Blocks, CompressedBlocks

LEMMA CompressedIsIndex ==
  ASSUME NEW h, IsIndex(h)
  PROVE  /\ IsIndex(Compressed(h))
         /\ AllNamed(Compressed(h)) <=> AllNamed(h)
<1> DEFINE blocks(a) == CompressedBlocks(a, h.block_size)
           one(a) == IF blocks(a) = 0 THEN a ELSE [a EXCEPT !.blocks = blocks(a)]
           as == [i \in DOMAIN h.arrays |-> one(h.arrays[i])]
<1>1. Compressed(h) = [h EXCEPT !.arrays = as] BY DEF Compressed, Map
<1>2. \A a \in ArrayRecords : one(a) \in ArrayRecords /\ one(a).key = a.key
  <2> SUFFICES ASSUME NEW a \in ArrayRecords PROVE one(a) \in ArrayRecords /\ one(a).key = a.key
    OBVIOUS
  <2>1. a.bytes \in Nat /\ a.blocks \in Nat BY DEF ArrayRecords
  <2>2. h.block_size \in Nat \ {0} BY IndexTypes
  <2>3. CeilDiv(a.bytes, h.block_size) \in Nat BY <2>1, <2>2, CeilDivFacts
  <2>4. blocks(a) \in Nat BY <2>1, <2>3 DEF CompressedBlocks
  <2> HIDE DEF blocks
  <2> QED BY <2>4 DEF ArrayRecords
<1>3. h.arrays \in Seq(ArrayRecords) /\ DOMAIN h.arrays = 1 .. Len(h.arrays)
      /\ Len(h.arrays) \in Nat
  BY IndexTypes
<1> HIDE DEF one
<1>4. as \in Seq(ArrayRecords) /\ Len(as) = Len(h.arrays)
  <2>1. as \in [1 .. Len(h.arrays) -> ArrayRecords] BY <1>2, <1>3
  <2> QED BY <1>3, <2>1
<1>5. \A i \in 1 .. Len(h.arrays) : as[i].key = h.arrays[i].key BY <1>2, <1>3
<1> HIDE DEF as
<1> QED BY <1>1, <1>4, <1>5, ReplacedIsIndex

LEMMA CleanFacts ==
  ASSUME NEW h, IsIndex(h)
  PROVE  /\ IsIndex(Clean(h)) /\ (AllNamed(Clean(h)) <=> AllNamed(h))
         /\ Fields(Clean(h)) = Fields(h)
         /\ Clean(h).names = h.names /\ Clean(h).layers = h.layers
         /\ Len(Clean(h).arrays) = Len(h.arrays)
         /\ \A i \in DOMAIN Clean(h).arrays : Clean(h).arrays[i].dirty = FALSE
<1> DEFINE one(a) == [a EXCEPT !.dirty = FALSE]
           as == [i \in DOMAIN h.arrays |-> one(h.arrays[i])]
           g == Clean(h)
<1>1. g = [h EXCEPT !.arrays = as] BY DEF Clean, Map
<1>2. \A a \in ArrayRecords : /\ one(a) \in ArrayRecords
                              /\ one(a).key = a.key /\ one(a).dirty = FALSE
                              /\ one(a).dims = a.dims /\ one(a).bytes = a.bytes
                              /\ one(a).blocks = a.blocks
  BY DEF ArrayRecords
<1>3. h.arrays \in Seq(ArrayRecords) /\ DOMAIN h.arrays = 1 .. Len(h.arrays)
      /\ Len(h.arrays) \in Nat
  BY IndexTypes
<1> HIDE DEF one
<1>4. /\ as \in Seq(ArrayRecords) /\ Len(as) = Len(h.arrays) /\ DOMAIN as = DOMAIN h.arrays
      /\ \A i \in DOMAIN h.arrays : as[i] = one(h.arrays[i])
  <2>1. as \in [1 .. Len(h.arrays) -> ArrayRecords] BY <1>2, <1>3
  <2> QED BY <1>3, <2>1
<1>5. \A i \in 1 .. Len(h.arrays) : as[i].key = h.arrays[i].key BY <1>2, <1>3
<1> HIDE DEF as, g
<1>6. IsIndex(g) /\ (AllNamed(g) <=> AllNamed(h)) BY <1>1, <1>4, <1>5, ReplacedIsIndex
<1>7. /\ g.names = h.names /\ g.layers = h.layers /\ g.presence = h.presence /\ g.arrays = as
  BY <1>1 DEF IsIndex, Handles
<1>8. ASSUME NEW i \in DOMAIN h.arrays
      PROVE  /\ as[i].key = h.arrays[i].key /\ as[i].dims = h.arrays[i].dims
             /\ as[i].bytes = h.arrays[i].bytes /\ as[i].blocks = h.arrays[i].blocks
             /\ as[i].dirty = FALSE
  <2> DEFINE a == h.arrays[i]
  <2>1. a \in ArrayRecords BY <1>3
  <2>2. as[i] = one(a) BY <1>4
  <2> HIDE DEF a
  <2>3. as[i].key = a.key /\ as[i].dims = a.dims /\ as[i].bytes = a.bytes
        /\ as[i].blocks = a.blocks /\ as[i].dirty = FALSE
    BY <1>2, <2>1, <2>2
  <2> QED BY <2>3 DEF a
<1>9. Fields(g) = Fields(h)
  <2>1. \A k : NameAt(g, k) = NameAt(h, k) BY <1>7 DEF NameAt
  <2>2. ASSUME NEW i \in DOMAIN h.arrays PROVE EntryField(g, as[i]) = EntryField(h, h.arrays[i])
    <3> DEFINE a == h.arrays[i]
               b == as[i]
    <3>1. /\ b.key = a.key /\ b.dims = a.dims /\ b.bytes = a.bytes /\ b.blocks = a.blocks
      BY <1>8
    <3> HIDE DEF a, b
    <3>2. EntryField(g, b) = EntryField(h, a) BY <2>1, <3>1 DEF EntryField
    <3> QED BY <3>2 DEF a, b
  <2>3. [i \in DOMAIN as |-> EntryField(g, as[i])]
          = [i \in DOMAIN h.arrays |-> EntryField(h, h.arrays[i])]
    BY <1>4, <2>2
  <2>4. Map(LAMBDA a : EntryField(g, a), g.arrays) = Map(LAMBDA a : EntryField(h, a), h.arrays)
    BY <1>7, <2>3 DEF Map
  <2>5. Map(LAMBDA l : Map(WordField, g.presence[l.name]), g.layers)
          = Map(LAMBDA l : Map(WordField, h.presence[l.name]), h.layers)
    BY <1>7 DEF Map
  <2> QED BY <1>7, <2>4, <2>5, Zenon DEF Fields
<1>10. \A i \in DOMAIN g.arrays : g.arrays[i].dirty = FALSE BY <1>4, <1>7, <1>8
<1>11. Len(g.arrays) = Len(h.arrays) BY <1>4, <1>7
<1> QED BY <1>6, <1>7, <1>9, <1>10, <1>11 DEF g

\* The check of flush after it has compressed never fails.
LEMMA FlushFits ==
  ASSUME NEW h, IsIndex(h)
  PROVE  ~ (Serialized(Fields(Compressed(h))) > HeaderSize(Estimated(h)))
<1> DEFINE g == Compressed(h)
<1>1. IsIndex(g) BY CompressedIsIndex
<1>2. HeaderSize(Estimated(h)) = HeaderSize(g) BY EstimatedIsCompressed
<1> HIDE DEF g
<1>3. Serialized(Fields(g)) <= HeaderSize(g) BY <1>1, IndexFits
<1>4. Serialized(Fields(g)) \in Nat /\ HeaderSize(g) \in Nat BY <1>1, IndexFits
<1>5. ~ (Serialized(Fields(g)) > HeaderSize(g)) BY <1>3, <1>4
<1> QED BY <1>2, <1>5 DEF g
--------------------------------------------------------------------------------
(* The specification.                                                      *)

\* The file, if there is one, is what flush wrote of an index whose arrays all
\* have names.
FileIsWritten ==
  \/ file = Absent /\ written = Absent
  \/ /\ IsIndex(written) /\ AllNamed(written)
     /\ \A i \in DOMAIN written.arrays : written.arrays[i].dirty = FALSE
     /\ FileOf(file, written)

HeaderInv == IsIndex(handle) /\ FileIsWritten /\ HeaderFits

LEMMA StorageKeyIsName ==
  ASSUME NEW l \in Layers, NEW k \in Keys
  PROVE  StorageKey(l, k) \in Names
BY DEF StorageKey, Names

LEMMA InitIsIndex == Init => HeaderInv
BY EmptyIsIndex DEF Init, HeaderInv, FileIsWritten, HeaderFits

LEMMA CreateStep ==
  ASSUME HeaderInv, NEW bs \in BlockSizes, Create(bs)
  PROVE  HeaderInv'
BY EmptyIsIndex DEF Create, HeaderInv, FileIsWritten, HeaderFits

LEMMA OpenStep ==
  ASSUME HeaderInv, NEW bs \in BlockSizes, Open(bs)
  PROVE  HeaderInv'
<1> DEFINE got == LoadIndex(file, bs)
<1>1. /\ file # Absent /\ UNCHANGED <<file, written>>
      /\ \/ thrown' = "unreadable" /\ handle' = handle
         \/ thrown' = "" /\ got # Garbage /\ handle' = got
  BY DEF Open
<1>2. IsIndex(written) /\ AllNamed(written) /\ FileOf(file, written)
  BY <1>1 DEF HeaderInv, FileIsWritten
<1>3. bs \in Nat \ {0} BY HeaderAssumption
<1>4. IsIndex(ReadIndex(file, bs)) BY <1>2, <1>3, ReadIsIndex
<1>5. got = Garbage \/ got = ReadIndex(file, bs) BY DEF LoadIndex
<1> HIDE DEF got
<1>6. IsIndex(handle)' BY <1>1, <1>4, <1>5 DEF HeaderInv
<1>7. FileIsWritten' BY <1>1 DEF HeaderInv, FileIsWritten
<1>8. HeaderFits' BY <1>1 DEF HeaderFits
<1> QED BY <1>6, <1>7, <1>8 DEF HeaderInv

LEMMA PutStep ==
  ASSUME HeaderInv, NEW k \in Keys, NEW s \in Shapes, Put(k, s)
  PROVE  HeaderInv'
<1>1. /\ handle' = Stored(handle, k, s) /\ thrown' \in {"full", ""}
      /\ file' = Absent /\ written' = Absent
  BY DEF Put, GoesOn
<1>2. k \in Names BY DEF Names
<1>3. IsIndex(Stored(handle, k, s)) BY <1>2, StoredIsIndex DEF HeaderInv
<1> QED BY <1>1, <1>3 DEF HeaderInv, FileIsWritten, HeaderFits

LEMMA LayerPutStep ==
  ASSUME HeaderInv, NEW l \in Layers, NEW k \in Keys, NEW s \in Shapes, LayerPut(l, k, s)
  PROVE  HeaderInv'
<1> DEFINE put == Stored(handle, StorageKey(l, k), s)
           cleared == Presence(put, Base, k, FALSE)
           marked == Presence(cleared, l, k, TRUE)
<1>1. /\ handle' = put \/ handle' = marked
      /\ thrown' \in {"full", ""} /\ file' = Absent /\ written' = Absent
  BY DEF LayerPut, GoesOn
<1>2. IsIndex(put) BY StorageKeyIsName, StoredIsIndex DEF HeaderInv
<1> HIDE DEF put
<1>3. IsIndex(cleared) BY <1>2, PresenceIsIndex
<1> HIDE DEF cleared
<1>4. IsIndex(marked) BY <1>3, PresenceIsIndex
<1> HIDE DEF marked
<1> QED BY <1>1, <1>2, <1>4 DEF HeaderInv, FileIsWritten, HeaderFits

LEMMA MetaPutStep ==
  ASSUME HeaderInv, NEW k \in Keys, NEW l \in Layers \cup {Base}, MetaPut(l, k)
  PROVE  HeaderInv'
<1> DEFINE named == WithName(handle, k)
           keyed == [named EXCEPT !.layers[LayerAt(handle, l)].keys = @ \cup {NameAt(named, k)}]
<1>1. /\ \/ Full(handle, k) /\ handle' = handle
         \/ ~Full(handle, k) /\ handle' = keyed
      /\ thrown' \in {"full", ""} /\ file' = Absent /\ written' = Absent
  BY DEF MetaPut, GoesOn
<1>2. IsIndex(handle) /\ l \in DOMAIN handle.presence /\ k \in Names
  BY DEF HeaderInv, MetaPut, HasLayer, Names
<1>3. ASSUME ~Full(handle, k) PROVE IsIndex(keyed)
  <2>1. IsIndex(named) /\ Named(named, k) BY <1>2, <1>3, WithNameIsIndex
  <2>2. named.layers = handle.layers /\ named.presence = handle.presence
    BY <1>2 DEF WithName, IsIndex, Handles
  <2> HIDE DEF named
  <2>3. NameAt(named, k) \in Nat
    <3>1. named.names \in Seq(Names) BY <2>1, IndexTypes
    <3>2. NameAt(named, k) \in 0 .. Len(named.names) - 1 BY <2>1, <3>1, NameAtFacts
    <3> QED BY <3>2
  <2>4. LayerAt(named, l) = LayerAt(handle, l) BY <2>2 DEF LayerAt
  <2>5. l \in DOMAIN named.presence BY <1>2, <2>2
  <2>6. IsIndex([named EXCEPT !.layers[LayerAt(named, l)].keys = @ \cup {NameAt(named, k)}])
    BY <2>1, <2>3, <2>5, KeyedIsIndex
  <2> QED BY <2>4, <2>6
<1> HIDE DEF keyed
<1> QED BY <1>1, <1>2, <1>3 DEF HeaderInv, FileIsWritten, HeaderFits

LEMMA CreateLayerStep ==
  ASSUME HeaderInv, NEW l \in Layers, CreateLayer(l)
  PROVE  HeaderInv'
<1> DEFINE more == [handle EXCEPT !.layers = Append(@, [name |-> l, keys |-> {}]),
                                  !.presence = [m \in DOMAIN @ \cup {l} |->
                                                  IF m = l THEN EmptyBitmap(handle) ELSE @[m]]]
<1>1. /\ \/ handle' = handle
         \/ ~HasLayer(handle, l) /\ handle' = more
      /\ thrown' \in {"exists", ""} /\ file' = Absent /\ written' = Absent
  BY Zenon DEF CreateLayer, GoesOn
<1>2. ASSUME ~HasLayer(handle, l) PROVE IsIndex(more)
  BY <1>2, LayeredIsIndex DEF HeaderInv, HasLayer
<1> HIDE DEF more
<1> QED BY <1>1, <1>2 DEF HeaderInv, FileIsWritten, HeaderFits

LEMMA FlushStep ==
  ASSUME HeaderInv, Flush
  PROVE  HeaderInv'
<1> DEFINE now == Compressed(handle)
           clean == Clean(now)
           size == HeaderSize(Estimated(handle))
           unnamed == \E i \in DOMAIN handle.arrays : ~Named(handle, handle.arrays[i].key)
           error == IF unnamed THEN "unnamed"
                    ELSE IF Serialized(Fields(now)) > size THEN "too long" ELSE ""
           f == [header_size |-> size, entry_count |-> Len(now.arrays),
                 layer_count |-> Len(now.layers) - 1,
                 key_registry_count |-> Len(now.names), fields |-> Fields(now)]
<1>1. /\ thrown' = error
      /\ \/ error # "" /\ handle' = now /\ file' = Absent /\ written' = Absent
         \/ error = "" /\ handle' = clean /\ written' = clean /\ file' = f
  BY Zenon DEF Flush, GoesOn
<1>2. ~ (Serialized(Fields(now)) > size) BY FlushFits DEF HeaderInv
<1>3. IsIndex(now) /\ (AllNamed(now) <=> AllNamed(handle)) BY CompressedIsIndex DEF HeaderInv
<1> HIDE DEF now, size
<1>4. /\ IsIndex(clean) /\ (AllNamed(clean) <=> AllNamed(now))
      /\ Fields(clean) = Fields(now)
      /\ clean.names = now.names /\ clean.layers = now.layers
      /\ Len(clean.arrays) = Len(now.arrays)
      /\ \A i \in DOMAIN clean.arrays : clean.arrays[i].dirty = FALSE
  BY <1>3, CleanFacts
<1>5. FileOf(f, clean) BY <1>4 DEF FileOf
<1>6. error = "" => AllNamed(handle) BY DEF AllNamed
<1>7. error # "too long" BY <1>2
<1> HIDE DEF error, f, clean
<1>8. HeaderFits' BY <1>1, <1>7 DEF HeaderFits
<1>9. CASE error # ""
  <2>1. IsIndex(handle)' BY <1>1, <1>3, <1>9
  <2>2. FileIsWritten' BY <1>1, <1>9 DEF FileIsWritten
  <2> QED BY <1>8, <2>1, <2>2 DEF HeaderInv
<1>10. CASE error = ""
  <2>1. handle' = clean /\ written' = clean /\ file' = f BY <1>1, <1>10
  <2>2. IsIndex(handle)' BY <1>4, <2>1
  <2>3. AllNamed(clean) BY <1>3, <1>4, <1>6, <1>10
  <2>4. FileIsWritten' BY <1>4, <1>5, <2>1, <2>3 DEF FileIsWritten
  <2> QED BY <1>8, <2>2, <2>4 DEF HeaderInv
<1> QED BY <1>9, <1>10

LEMMA HeaderInvKept == HeaderInv /\ [Next]_vars => HeaderInv'
<1> SUFFICES ASSUME HeaderInv, [Next]_vars PROVE HeaderInv' OBVIOUS
<1>1. ASSUME NEW bs \in BlockSizes, Create(bs) PROVE HeaderInv' BY <1>1, CreateStep
<1>2. ASSUME NEW bs \in BlockSizes, Open(bs) PROVE HeaderInv' BY <1>2, OpenStep
<1>3. ASSUME NEW k \in Keys, NEW s \in Shapes, Put(k, s) PROVE HeaderInv' BY <1>3, PutStep
<1>4. ASSUME NEW k \in Keys, NEW s \in Shapes, NEW l \in Layers, LayerPut(l, k, s)
      PROVE  HeaderInv'
  BY <1>4, LayerPutStep
<1>5. ASSUME NEW k \in Keys, NEW l \in Layers \cup {Base}, MetaPut(l, k) PROVE HeaderInv'
  BY <1>5, MetaPutStep
<1>6. ASSUME NEW l \in Layers, CreateLayer(l) PROVE HeaderInv' BY <1>6, CreateLayerStep
<1>7. CASE Flush BY <1>7, FlushStep
<1>8. CASE UNCHANGED vars
  BY <1>8 DEF vars, HeaderInv, FileIsWritten, HeaderFits
<1> QED BY <1>1, <1>2, <1>3, <1>4, <1>5, <1>6, <1>7, <1>8 DEF Next

\* The header of a flush fits into what was reserved for it, whatever the
\* names, shapes and block size: the blocks counted before compression
\* (6691) are those that are compressed, and every part of the header is as
\* long as calculateHeaderSize() (5494) makes it or shorter.
THEOREM HeaderAlwaysFits == Spec => []HeaderFits
<1>1. HeaderInv => HeaderFits BY DEF HeaderInv
<1> QED BY <1>1, InitIsIndex, HeaderInvKept, PTL DEF Spec

\* The header of every flush that the format can say is read back as what was
\* flushed: names by number, keys by count, bitmaps by the words of a layer.
THEOREM HeaderReadsBack == Spec => []ReadsBackWhatWasWritten
<1>1. HeaderInv => ReadsBackWhatWasWritten
  BY ReadsBack DEF HeaderInv, FileIsWritten, ReadsBackWhatWasWritten
<1> QED BY <1>1, InitIsIndex, HeaderInvKept, PTL DEF Spec
==================================================================================

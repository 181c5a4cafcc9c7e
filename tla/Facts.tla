---------------------------------- MODULE Facts ----------------------------------
(***************************************************************************)
(* Induction over the natural numbers in the form the proofs of this       *)
(* project use: a counterexample has a least one. From it, what the        *)
(* recursive helpers of the community modules do, one step at a time.      *)
(***************************************************************************)
EXTENDS Numbers, SequencesExt, WellFoundedInduction, FiniteSetTheorems, TLAPS

\* A set of natural numbers that is not empty has a least element.
LEMMA LeastNat ==
  ASSUME NEW T, T \subseteq Nat, T # {}
  PROVE  \E m \in T : \A k \in T : m <= k
<1> DEFINE R == OpToRel(<, Nat)
<1>1. IsWellFoundedOn(R, Nat) BY NatLessThanWellFounded
<1>2. PICK m \in T : \A y \in T : ~(<<y, m>> \in R)
  <2> HIDE DEF R
  <2> QED BY <1>1, WFMin
<1>3. \A y \in Nat : y < m => <<y, m>> \in R  BY DEF OpToRel
<1> HIDE DEF R
<1>4. ASSUME NEW k \in T PROVE m <= k
  <2>1. m \in Nat /\ k \in Nat OBVIOUS
  <2>2. ~(k < m) BY <1>2, <1>3, <2>1
  <2> QED BY <2>1, <2>2
<1> QED BY <1>4

\* The same as an induction over an interval: a set that holds the first number
\* of a .. b, and with every number the next, holds all of them.
LEMMA IntervalInduction ==
  ASSUME NEW a \in Nat, NEW b \in Nat, NEW S,
         a <= b => a \in S,
         \A i \in a .. b : i \in S /\ i < b => i + 1 \in S
  PROVE  a .. b \subseteq S
<1> DEFINE T == (a .. b) \ S
<1> SUFFICES ASSUME T # {} PROVE FALSE OBVIOUS
<1>0. T \subseteq Nat OBVIOUS
<1>1. PICK m \in T : \A k \in T : m <= k
  <2> HIDE DEF T
  <2> QED BY <1>0, LeastNat
<1>2. m \in a .. b /\ m \notin S OBVIOUS
<1>3. m # a BY <1>2
<1>4. m - 1 \in a .. b /\ m - 1 < b BY <1>2, <1>3
<1>5. m - 1 \in S BY <1>1, <1>4
<1>6. (m - 1) + 1 \in S BY <1>4, <1>5
<1> QED BY <1>2, <1>6

--------------------------------------------------------------------------------
(* Division, the smaller and the larger number.                            *)

\* Quotient and remainder of q * c + r.
LEMMA DivModOf ==
  ASSUME NEW q \in Nat, NEW c \in Nat \ {0}, NEW r \in 0 .. c - 1
  PROVE  (q * c + r) % c = r /\ (q * c + r) \div c = q
  OBVIOUS

\* Any number is quotient times divisor plus remainder.
LEMMA DivModIs ==
  ASSUME NEW a \in Nat, NEW c \in Nat \ {0}
  PROVE  /\ a \div c \in Nat
         /\ a % c \in 0 .. c - 1
         /\ a = (a \div c) * c + (a % c)
<1>1. a % c \in 0 .. c - 1 OBVIOUS
<1>2. a \div c \in Nat OBVIOUS
<1>3. a = c * (a \div c) + (a % c) OBVIOUS
<1>4. a = (a \div c) * c + (a % c) BY <1>2, <1>3
<1> QED BY <1>1, <1>2, <1>4

\* The smaller of two numbers.
LEMMA MinOfTwo ==
  ASSUME NEW a \in Int, NEW b \in Int
  PROVE  Min({a, b}) = IF a <= b THEN a ELSE b
<1> DEFINE m == IF a <= b THEN a ELSE b
<1>1. m \in {a, b} /\ \A y \in {a, b} : m <= y OBVIOUS
<1>2. \A x \in {a, b} : (\A y \in {a, b} : x <= y) => x = m OBVIOUS
<1> HIDE DEF m
<1>3. (CHOOSE x \in {a, b} : \A y \in {a, b} : x <= y) = m BY <1>1, <1>2
<1> QED BY <1>3 DEF Min, m

\* The largest number of a set that holds it and nothing above.
LEMMA MaxIs ==
  ASSUME NEW m \in Nat, NEW s \in SUBSET (1 .. m), m \in s
  PROVE  Max(s) = m
<1>1. \A y \in s : m >= y OBVIOUS
<1>2. \A x \in s : (\A y \in s : x >= y) => x = m OBVIOUS
<1>3. (CHOOSE x \in s : \A y \in s : x >= y) = m BY <1>1, <1>2
<1> QED BY <1>3 DEF Max

--------------------------------------------------------------------------------
(* Sequences.                                                              *)

\* Two sequences after one another.
LEMMA ConcatAt ==
  ASSUME NEW E, NEW a \in Seq(E), NEW b \in Seq(E)
  PROVE  /\ a \o b \in Seq(E)
         /\ Len(a \o b) = Len(a) + Len(b)
         /\ \A i \in 1 .. Len(a) : (a \o b)[i] = a[i]
         /\ \A j \in 1 .. Len(b) : (a \o b)[Len(a) + j] = b[j]
<1>1. a \o b \in Seq(E) /\ Len(a \o b) = Len(a) + Len(b) OBVIOUS
<1>2. \A i \in 1 .. Len(a) : (a \o b)[i] = a[i] OBVIOUS
<1>3. ASSUME NEW j \in 1 .. Len(b) PROVE (a \o b)[Len(a) + j] = b[j]
  <2> DEFINE i == Len(a) + j
  <2>1. i \in 1 .. Len(a) + Len(b) /\ i > Len(a) /\ i - Len(a) = j /\ Len(a) \in Nat /\ Len(b) \in Nat
    OBVIOUS
  <2> HIDE DEF i
  <2>2. (a \o b)[i] = b[i - Len(a)] BY <2>1
  <2> QED BY <2>1, <2>2 DEF i
<1> QED BY <1>1, <1>2, <1>3

LEMMA IsConcat ==
  ASSUME NEW E, NEW a \in Seq(E), NEW b \in Seq(E), NEW c \in Seq(E),
         Len(c) = Len(a) + Len(b),
         \A i \in 1 .. Len(a) : c[i] = a[i],
         \A j \in 1 .. Len(b) : c[Len(a) + j] = b[j]
  PROVE  c = a \o b
<1> DEFINE d == a \o b
<1>1. /\ d \in Seq(E) /\ Len(d) = Len(a) + Len(b)
      /\ \A i \in 1 .. Len(a) : d[i] = a[i]
      /\ \A j \in 1 .. Len(b) : d[Len(a) + j] = b[j]
  BY ConcatAt
<1> HIDE DEF d
<1>2. ASSUME NEW i \in 1 .. Len(a) + Len(b) PROVE c[i] = d[i]
  <2>1. CASE i <= Len(a)
    <3>1. i \in 1 .. Len(a) BY <2>1
    <3> QED BY <1>1, <3>1
  <2>2. CASE i > Len(a)
    <3>1. PICK j \in 1 .. Len(b) : i = Len(a) + j
      <4>1. i - Len(a) \in 1 .. Len(b) /\ i = Len(a) + (i - Len(a)) BY <2>2
      <4> QED BY <4>1
    <3>2. c[Len(a) + j] = b[j] /\ d[Len(a) + j] = b[j] BY <1>1
    <3> QED BY <3>1, <3>2
  <2> QED BY <2>1, <2>2
<1>3. c = d BY <1>1, <1>2
<1> QED BY <1>3 DEF d

\* FlattenSeq goes through the sequences from the first to the last.
LEMMA FlattenSteps ==
  ASSUME NEW E, NEW seqs \in Seq(Seq(E)), Len(seqs) # 0
  PROVE  \E f \in [1 .. Len(seqs) -> Seq(E)] :
           /\ f[1] = seqs[1]
           /\ \A i \in 2 .. Len(seqs) : f[i] = f[i - 1] \o seqs[i]
           /\ FlattenSeq(seqs) = f[Len(seqs)]
<1> DEFINE n == Len(seqs)
           Fits(f, m) == f[1] = seqs[1] /\ \A i \in 2 .. m : f[i] = f[i - 1] \o seqs[i]
           S == {m \in 1 .. n : \E f \in [1 .. m -> Seq(E)] : Fits(f, m)}
           Step(f) == [i \in 1 .. n |-> IF i = 1 THEN seqs[i] ELSE f[i - 1] \o seqs[i]]
<1>0. n \in Nat /\ n # 0 /\ \A i \in 1 .. n : seqs[i] \in Seq(E) OBVIOUS
<1> HIDE DEF n
<1>1. 1 .. n \subseteq S
  <2>1. 1 \in S
    <3>1. [i \in 1 .. 1 |-> seqs[1]] \in [1 .. 1 -> Seq(E)] BY <1>0
    <3>2. Fits([i \in 1 .. 1 |-> seqs[1]], 1) OBVIOUS
    <3>3. \E f \in [1 .. 1 -> Seq(E)] : Fits(f, 1) BY <3>1, <3>2
    <3>4. 1 \in 1 .. n BY <1>0
    <3> QED BY <3>3, <3>4
  <2>2. ASSUME NEW m \in 1 .. n, m \in S, m < n PROVE m + 1 \in S
    <3>1. PICK f \in [1 .. m -> Seq(E)] : Fits(f, m) BY <2>2
    <3> DEFINE g == [i \in 1 .. m + 1 |-> IF i = m + 1 THEN f[m] \o seqs[m + 1] ELSE f[i]]
    <3>2. m \in 1 .. m /\ m + 1 \in 1 .. n BY <1>0, <2>2
    <3>3. f[m] \o seqs[m + 1] \in Seq(E)
      <4>1. f[m] \in Seq(E) /\ seqs[m + 1] \in Seq(E) BY <1>0, <3>1, <3>2
      <4> QED BY <4>1
    <3>4. g \in [1 .. m + 1 -> Seq(E)]
      <4>1. ASSUME NEW i \in 1 .. m + 1, i # m + 1 PROVE f[i] \in Seq(E)
        <5>1. i \in 1 .. m BY <3>2, <4>1
        <5> QED BY <3>1, <5>1
      <4> QED BY <3>3, <4>1
    <3>5. Fits(g, m + 1)
      <4>1. g[1] = seqs[1] BY <3>1, <3>2
      <4>2. ASSUME NEW i \in 2 .. m + 1 PROVE g[i] = g[i - 1] \o seqs[i]
        <5>1. i - 1 \in 1 .. m /\ i - 1 # m + 1 /\ i \in 1 .. m + 1 BY <3>2
        <5>2. g[i - 1] = f[i - 1] BY <5>1, <3>2
        <5>3. CASE i = m + 1
          <6>1. i - 1 = m BY <3>2, <5>3
          <6>2. g[i] = f[m] \o seqs[m + 1] BY <3>2, <5>3
          <6> HIDE DEF g
          <6> QED BY <5>2, <5>3, <6>1, <6>2
        <5>4. CASE i # m + 1
          <6>1. i \in 2 .. m BY <3>2, <5>4
          <6>2. g[i] = f[i] BY <5>1, <5>4
          <6> QED BY <3>1, <5>2, <6>1, <6>2
        <5> QED BY <5>3, <5>4
      <4> QED BY <4>1, <4>2
    <3>6. \E h \in [1 .. m + 1 -> Seq(E)] : Fits(h, m + 1)
      <4> HIDE DEF g, Fits
      <4> QED BY <3>4, <3>5
    <3> QED BY <3>2, <3>6
  <2> HIDE DEF S
  <2>3. 1 <= n => 1 \in S BY <2>1
  <2>4. \A m \in 1 .. n : m \in S /\ m < n => m + 1 \in S BY <2>2
  <2> QED BY <1>0, <2>3, <2>4, IntervalInduction
<1>2. PICK f \in [1 .. n -> Seq(E)] : Fits(f, n)
  <2>1. n \in S
    <3> HIDE DEF S
    <3> QED BY <1>0, <1>1
  <2> QED BY <2>1
<1>3. f = Step(f)
  <2>1. ASSUME NEW i \in 1 .. n PROVE f[i] = Step(f)[i]
    <3>1. CASE i = 1 BY <3>1, <1>2
    <3>2. CASE i # 1
      <4>1. i \in 2 .. n BY <1>0, <3>2
      <4> QED BY <1>2, <3>2, <4>1
    <3> QED BY <3>1, <3>2
  <2>2. f = [i \in 1 .. n |-> f[i]] BY <1>2
  <2> QED BY <2>1, <2>2
<1>4. \A h : h = Step(h) => h = f
  <2> SUFFICES ASSUME NEW h, h = Step(h) PROVE h = f OBVIOUS
  <2>5. h = [i \in 1 .. n |-> h[i]] OBVIOUS
  <2>7. h[1] = seqs[1] BY <1>0
  <2>8. \A i \in 2 .. n : h[i] = h[i - 1] \o seqs[i]
    <3> SUFFICES ASSUME NEW i \in 2 .. n PROVE h[i] = h[i - 1] \o seqs[i] OBVIOUS
    <3>1. i \in 1 .. n /\ i # 1 BY <1>0
    <3>2. h[i] = Step(h)[i] BY Zenon
    <3>3. Step(h)[i] = h[i - 1] \o seqs[i] BY <3>1
    <3> QED BY <3>2, <3>3
  <2> DEFINE T == {i \in 1 .. n : h[i] = f[i]}
  <2>1. 1 \in T BY <1>0, <1>2, <2>7
  <2>2. ASSUME NEW i \in 1 .. n, i \in T, i < n PROVE i + 1 \in T
    <3>1. i + 1 \in 2 .. n /\ i + 1 \in 1 .. n /\ i + 1 # 1 /\ i + 1 - 1 = i BY <1>0, <2>2
    <3> DEFINE k == i + 1
    <3>2. k \in 2 .. n /\ k - 1 = i BY <3>1
    <3> HIDE DEF k
    <3>3. h[k] = h[i] \o seqs[k] BY <2>8, <3>2
    <3>4. f[k] = f[i] \o seqs[k]
      <4>1. f[k] = f[k - 1] \o seqs[k] BY <1>2, <3>2
      <4> QED BY <3>2, <4>1
    <3>5. h[i] = f[i] BY <2>2
    <3>6. h[k] = f[k] BY <3>3, <3>4, <3>5
    <3> QED BY <3>1, <3>6 DEF k
  <2> HIDE DEF T
  <2>3. 1 .. n \subseteq T BY <1>0, <2>1, <2>2, IntervalInduction
  <2>4. \A i \in 1 .. n : h[i] = f[i] BY <2>3 DEF T
  <2>6. f = [i \in 1 .. n |-> f[i]] BY <1>2
  <2> QED BY <2>4, <2>5, <2>6
<1>5. FlattenSeq(seqs) = f[n]
  <2>1. FlattenSeq(seqs) = (CHOOSE h : h = Step(h))[n] BY <1>0 DEF FlattenSeq, n
  <2> HIDE DEF Step
  <2>2. (CHOOSE h : h = Step(h)) = f BY <1>3, <1>4
  <2> QED BY <2>1, <2>2
<1> QED BY <1>2, <1>5 DEF n

\* Induction over sequences: a set that holds the empty sequence, and with every
\* sequence the longer ones, holds all of them.
LEMMA SequenceInduction ==
  ASSUME NEW E, NEW T, <<>> \in T,
         \A s \in Seq(E), e \in E : s \in T => Append(s, e) \in T
  PROVE  Seq(E) \subseteq T
<1> SUFFICES ASSUME NEW s \in Seq(E) PROVE s \in T OBVIOUS
<1> DEFINE n == Len(s)
           Up(k) == [i \in 1 .. k |-> s[i]]
           S == {k \in 0 .. n : Up(k) \in T}
<1>0. n \in Nat /\ s = Up(n) /\ \A i \in 1 .. n : s[i] \in E OBVIOUS
<1> HIDE DEF n
<1>1. 0 \in S
  <2>1. Up(0) = <<>> OBVIOUS
  <2> QED BY <1>0, <2>1
<1>2. ASSUME NEW k \in 0 .. n, k \in S, k < n PROVE k + 1 \in S
  <2>1. k \in Nat /\ k + 1 \in 0 .. n /\ k + 1 \in 1 .. n BY <1>0, <1>2
  <2>2. s[k + 1] \in E /\ \A i \in 1 .. k : s[i] \in E BY <1>0, <2>1
  <2>3. Up(k) \in Seq(E) /\ Len(Up(k)) = k BY <2>1, <2>2
  <2>4. Append(Up(k), s[k + 1]) = Up(k + 1) BY <2>1, <2>2, <2>3
  <2>5. Up(k) \in T BY <1>2
  <2> HIDE DEF Up
  <2> QED BY <2>1, <2>2, <2>3, <2>4, <2>5
<1> HIDE DEF S
<1>3. 0 .. n \subseteq S BY <1>0, <1>1, <1>2, IntervalInduction
<1>4. n \in S BY <1>0, <1>3
<1> QED BY <1>0, <1>4 DEF S

\* One more sequence at the end.
LEMMA FlattenAppend ==
  ASSUME NEW E, NEW seqs \in Seq(Seq(E)), NEW s \in Seq(E)
  PROVE  FlattenSeq(seqs) \in Seq(E) /\ FlattenSeq(Append(seqs, s)) = FlattenSeq(seqs) \o s
<1> DEFINE n == Len(seqs)
           more == Append(seqs, s)
<1>0. n \in Nat /\ more \in Seq(Seq(E)) /\ Len(more) = n + 1 /\ Len(more) # 0
      /\ more[n + 1] = s /\ \A i \in 1 .. n : more[i] = seqs[i]
  OBVIOUS
<1>1. PICK g \in [1 .. n + 1 -> Seq(E)] :
        /\ g[1] = more[1]
        /\ \A i \in 2 .. n + 1 : g[i] = g[i - 1] \o more[i]
        /\ FlattenSeq(more) = g[n + 1]
  <2> HIDE DEF n, more
  <2>1. \E g \in [1 .. Len(more) -> Seq(E)] :
          /\ g[1] = more[1]
          /\ \A i \in 2 .. Len(more) : g[i] = g[i - 1] \o more[i]
          /\ FlattenSeq(more) = g[Len(more)]
    BY <1>0, FlattenSteps
  <2>2. Len(more) = n + 1 BY <1>0
  <2> QED BY <2>1, <2>2, Zenon
<1>2. CASE n = 0
  <2>1. seqs = <<>> BY <1>2
  <2>2. FlattenSeq(seqs) = <<>> BY <2>1 DEF FlattenSeq
  <2>3. FlattenSeq(more) = s BY <1>0, <1>1, <1>2
  <2> QED BY <2>2, <2>3
<1>3. CASE n # 0
  <2>1. PICK f \in [1 .. n -> Seq(E)] :
          /\ f[1] = seqs[1]
          /\ \A i \in 2 .. n : f[i] = f[i - 1] \o seqs[i]
          /\ FlattenSeq(seqs) = f[n]
    BY <1>3, FlattenSteps
  <2> HIDE DEF n, more
  <2> DEFINE T == {i \in 1 .. n : g[i] = f[i]}
  <2>2. 1 <= n => 1 \in T BY <1>0, <1>1, <1>3, <2>1
  <2>3. ASSUME NEW i \in 1 .. n, i \in T, i < n PROVE i + 1 \in T
    <3> DEFINE k == i + 1
    <3>1. k \in 2 .. n /\ k \in 2 .. n + 1 /\ k \in 1 .. n /\ k - 1 = i BY <1>0, <2>3
    <3> HIDE DEF k
    <3>2. g[k] = g[k - 1] \o more[k] BY <1>1, <3>1
    <3>3. f[k] = f[k - 1] \o seqs[k] BY <2>1, <3>1
    <3>4. g[i] = f[i] BY <2>3
    <3>5. g[k] = f[k] BY <1>0, <3>1, <3>2, <3>3, <3>4
    <3> QED BY <3>1, <3>5 DEF k
  <2> HIDE DEF T
  <2>4. 1 .. n \subseteq T BY <1>0, <2>2, <2>3, IntervalInduction
  <2>5. n \in 1 .. n /\ n + 1 \in 2 .. n + 1 /\ n + 1 - 1 = n BY <1>0, <1>3
  <2>6. g[n] = f[n] BY <2>4, <2>5 DEF T
  <2> DEFINE m == n + 1
  <2>7. g[m] = g[m - 1] \o more[m]
    <3>1. m \in 2 .. n + 1 BY <2>5
    <3> HIDE DEF m
    <3> QED BY <1>1, <3>1
  <2>8. FlattenSeq(more) = FlattenSeq(seqs) \o s
    <3>1. m - 1 = n /\ more[m] = s BY <1>0
    <3>2. FlattenSeq(more) = g[m] BY <1>1
    <3> HIDE DEF m
    <3> QED BY <2>1, <2>6, <2>7, <3>1, <3>2
  <2>9. FlattenSeq(seqs) \in Seq(E) BY <2>1, <2>5
  <2> QED BY <2>8, <2>9 DEF more
<1> QED BY <1>2, <1>3

LEMMA FlattenEmpty == FlattenSeq(<<>>) = <<>>
BY DEF FlattenSeq

LEMMA FlattenType ==
  ASSUME NEW E, NEW seqs \in Seq(Seq(E))
  PROVE  FlattenSeq(seqs) \in Seq(E)
<1>1. <<>> \in Seq(E) OBVIOUS
<1> QED BY <1>1, FlattenAppend

\* Three sequences can be joined from either end.
LEMMA JoinedInAnyOrder ==
  ASSUME NEW E, NEW x \in Seq(E), NEW y \in Seq(E), NEW z \in Seq(E)
  PROVE  (x \o y) \o z = x \o (y \o z)
BY SMTT(30)

LEMMA FlattenOne ==
  ASSUME NEW E, NEW s \in Seq(E)
  PROVE  FlattenSeq(<<s>>) = s
<1>1. <<>> \in Seq(Seq(E)) /\ Append(<<>>, s) = <<s>> /\ <<>> \o s = s OBVIOUS
<1>2. FlattenSeq(Append(<<>>, s)) = FlattenSeq(<<>>) \o s BY <1>1, FlattenAppend
<1> QED BY <1>1, <1>2, FlattenEmpty

LEMMA FlattenConcat ==
  ASSUME NEW E, NEW a \in Seq(Seq(E)), NEW b \in Seq(Seq(E))
  PROVE  FlattenSeq(a \o b) = FlattenSeq(a) \o FlattenSeq(b)
<1> DEFINE T == {c \in Seq(Seq(E)) : FlattenSeq(a \o c) = FlattenSeq(a) \o FlattenSeq(c)}
<1>1. <<>> \in T
  <2>1. a \o <<>> = a OBVIOUS
  <2>2. FlattenSeq(a) \in Seq(E) BY FlattenType
  <2>3. FlattenSeq(a) \o <<>> = FlattenSeq(a) BY <2>2
  <2>4. <<>> \in Seq(Seq(E)) OBVIOUS
  <2> QED BY <2>1, <2>3, <2>4, FlattenEmpty
<1>2. ASSUME NEW c \in Seq(Seq(E)), NEW s \in Seq(E), c \in T PROVE Append(c, s) \in T
  <2>1. a \o Append(c, s) = Append(a \o c, s) /\ a \o c \in Seq(Seq(E))
        /\ Append(c, s) \in Seq(Seq(E))
    OBVIOUS
  <2>2. FlattenSeq(Append(a \o c, s)) = FlattenSeq(a \o c) \o s BY <2>1, FlattenAppend
  <2>3. FlattenSeq(Append(c, s)) = FlattenSeq(c) \o s BY FlattenAppend
  <2>4. FlattenSeq(a) \in Seq(E) /\ FlattenSeq(c) \in Seq(E) BY FlattenType
  <2> DEFINE x == FlattenSeq(a)
             y == FlattenSeq(c)
  <2>5. FlattenSeq(a \o c) = x \o y BY <1>2
  <2> HIDE DEF x, y
  <2>6. (x \o y) \o s = x \o (y \o s)
    <3>1. x \in Seq(E) /\ y \in Seq(E) BY <2>4, Zenon DEF x, y
    <3> QED BY <3>1, JoinedInAnyOrder
  <2> QED BY <2>1, <2>2, <2>3, <2>5, <2>6 DEF x, y
<1> HIDE DEF T
<1>3. Seq(Seq(E)) \subseteq T BY <1>1, <1>2, SequenceInduction
<1>4. b \in T BY <1>3
<1> QED BY <1>4 DEF T

\* What a function makes of each part of a sequence.
Each(h, c) == [i \in 1 .. Len(c) |-> h[c[i]]]

LEMMA EachType ==
  ASSUME NEW D, NEW F, NEW h \in [D -> F], NEW c \in Seq(D)
  PROVE  Each(h, c) \in Seq(F)
BY DEF Each

LEMMA EachAppend ==
  ASSUME NEW D, NEW F, NEW h \in [D -> F], NEW c \in Seq(D), NEW x \in D
  PROVE  Each(h, Append(c, x)) = Append(Each(h, c), h[x])
<1> DEFINE n == Len(c)
           d == Append(c, x)
           e == [i \in 1 .. n |-> h[c[i]]]
           y == h[x]
           all == [i \in 1 .. Len(d) |-> h[d[i]]]
<1>1. n \in Nat /\ Len(d) = n + 1 /\ d[n + 1] = x /\ \A i \in 1 .. n : d[i] = c[i] OBVIOUS
<1>2. e \in Seq(F) /\ Len(e) = n /\ y \in F OBVIOUS
<1>3. \A i \in 1 .. n : e[i] = h[c[i]] OBVIOUS
<1>4. all \in Seq(F) /\ Len(all) = n + 1
  <2>1. d \in Seq(D) OBVIOUS
  <2> HIDE DEF d
  <2> QED BY <1>1, <2>1
<1>5. ASSUME NEW i \in 1 .. n + 1 PROVE all[i] = IF i = n + 1 THEN y ELSE e[i]
  <2>0. all[i] = h[d[i]] BY <1>1
  <2>1. CASE i = n + 1 BY <1>1, <2>0, <2>1
  <2>2. CASE i # n + 1
    <3>1. i \in 1 .. n BY <2>2
    <3>2. d[i] = c[i] BY <1>1, <3>1
    <3> HIDE DEF d, all, e
    <3> QED BY <1>3, <2>0, <2>2, <3>1, <3>2
  <2> QED BY <2>1, <2>2
<1> HIDE DEF n, e, y, all
<1>6. Append(e, y) \in Seq(F) /\ Len(Append(e, y)) = n + 1
      /\ \A i \in 1 .. n + 1 : Append(e, y)[i] = IF i = n + 1 THEN y ELSE e[i]
  BY <1>1, <1>2
<1>7. all = Append(e, y) BY <1>1, <1>4, <1>5, <1>6
<1> QED BY <1>7 DEF all, e, y, n, d, Each

LEMMA EachConcat ==
  ASSUME NEW h, NEW a \in Seq(DOMAIN h), NEW b \in Seq(DOMAIN h)
  PROVE  Each(h, a \o b) = Each(h, a) \o Each(h, b)
<1> DEFINE D == DOMAIN h
           F == {h[d] : d \in D}
           x == Each(h, a)
           y == Each(h, b)
           z == Each(h, a \o b)
<1>1. a \o b \in Seq(D) /\ Len(a \o b) = Len(a) + Len(b) OBVIOUS
<1>2. x \in Seq(F) /\ y \in Seq(F) /\ z \in Seq(F) BY <1>1 DEF Each
<1>3. /\ Len(x) = Len(a) /\ Len(y) = Len(b) /\ Len(z) = Len(x) + Len(y)
      /\ \A i \in 1 .. Len(a) : x[i] = h[a[i]]
      /\ \A j \in 1 .. Len(b) : y[j] = h[b[j]]
      /\ \A k \in 1 .. Len(a) + Len(b) : z[k] = h[(a \o b)[k]]
  <2>1. Len(x) = Len(a) /\ Len(y) = Len(b) BY <1>2 DEF Each
  <2>2. Len(z) = Len(a \o b) BY <1>1, <1>2 DEF Each
  <2>3. /\ \A i \in 1 .. Len(a) : x[i] = h[a[i]]
        /\ \A j \in 1 .. Len(b) : y[j] = h[b[j]]
        /\ \A k \in 1 .. Len(a \o b) : z[k] = h[(a \o b)[k]]
    BY DEF Each
  <2> HIDE DEF x, y, z
  <2> QED BY <1>1, <2>1, <2>2, <2>3
<1> HIDE DEF x, y, z
<1>4. \A i \in 1 .. Len(x) : z[i] = x[i]
  <2> SUFFICES ASSUME NEW i \in 1 .. Len(a) PROVE z[i] = x[i] BY <1>3
  <2>1. i \in 1 .. Len(a) + Len(b) OBVIOUS
  <2>2. (a \o b)[i] = a[i] BY ConcatAt
  <2> QED BY <1>3, <2>1, <2>2
<1>5. \A j \in 1 .. Len(y) : z[Len(x) + j] = y[j]
  <2> SUFFICES ASSUME NEW j \in 1 .. Len(b) PROVE z[Len(a) + j] = y[j] BY <1>3
  <2>1. Len(a) + j \in 1 .. Len(a) + Len(b) OBVIOUS
  <2>2. (a \o b)[Len(a) + j] = b[j] BY ConcatAt
  <2> QED BY <1>3, <2>1, <2>2
<1>6. Len(z) = Len(x) + Len(y) BY <1>3
<1>7. z = x \o y BY <1>2, <1>4, <1>5, <1>6, IsConcat
<1> QED BY <1>7 DEF x, y, z

\* What turns concatenation into concatenation can be done piece by piece.
LEMMA FlattenHomomorphism ==
  ASSUME NEW E, NEW F, NEW h \in [Seq(E) -> Seq(F)], h[<<>>] = <<>>,
         \A s, t \in Seq(E) : h[s \o t] = h[s] \o h[t],
         NEW seqs \in Seq(Seq(E))
  PROVE  h[FlattenSeq(seqs)] = FlattenSeq(Each(h, seqs))
<1> DEFINE T == {c \in Seq(Seq(E)) : h[FlattenSeq(c)] = FlattenSeq(Each(h, c))}
<1>1. <<>> \in T
  <2>1. Each(h, <<>>) = <<>> /\ <<>> \in Seq(Seq(E)) BY DEF Each
  <2> QED BY <2>1, FlattenEmpty
<1>2. ASSUME NEW c \in Seq(Seq(E)), NEW s \in Seq(E), c \in T PROVE Append(c, s) \in T
  <2>1. FlattenSeq(c) \in Seq(E) BY FlattenType
  <2>2. FlattenSeq(Append(c, s)) = FlattenSeq(c) \o s BY FlattenAppend
  <2>3. Each(h, c) \in Seq(Seq(F)) BY EachType
  <2>4. Each(h, Append(c, s)) = Append(Each(h, c), h[s])
    BY EachAppend, Zenon
  <2>5. h[FlattenSeq(c)] = FlattenSeq(Each(h, c)) BY <1>2
  <2>6. FlattenSeq(Append(Each(h, c), h[s])) = FlattenSeq(Each(h, c)) \o h[s]
    <3>1. h[s] \in Seq(F) BY Zenon
    <3> QED BY <2>3, <3>1, FlattenAppend
  <2>7. h[FlattenSeq(c) \o s] = h[FlattenSeq(c)] \o h[s] BY <2>1
  <2>8. Append(c, s) \in Seq(Seq(E)) OBVIOUS
  <2> QED BY <2>2, <2>4, <2>5, <2>6, <2>7, <2>8
<1> HIDE DEF T
<1>3. Seq(Seq(E)) \subseteq T BY <1>1, <1>2, SequenceInduction
<1>4. seqs \in T BY <1>3
<1> QED BY <1>4 DEF T

LEMMA EachFlatten ==
  ASSUME NEW h, NEW seqs \in Seq(Seq(DOMAIN h))
  PROVE  Each(h, FlattenSeq(seqs)) = FlattenSeq([i \in 1 .. Len(seqs) |-> Each(h, seqs[i])])
<1> DEFINE D == DOMAIN h
           F == {h[d] : d \in D}
           g == [s \in Seq(D) |-> Each(h, s)]
<1>1. g \in [Seq(D) -> Seq(F)] BY DEF Each
<1>2. g[<<>>] = <<>>
  <2>1. <<>> \in Seq(D) OBVIOUS
  <2>2. Each(h, <<>>) = <<>> BY DEF Each
  <2> QED BY <2>1, <2>2
<1>3. ASSUME NEW s \in Seq(D), NEW t \in Seq(D) PROVE g[s \o t] = g[s] \o g[t]
  <2>1. s \o t \in Seq(D) OBVIOUS
  <2>2. g[s \o t] = Each(h, s \o t) /\ g[s] = Each(h, s) /\ g[t] = Each(h, t) BY <2>1
  <2>3. Each(h, s \o t) = Each(h, s) \o Each(h, t) BY EachConcat
  <2> HIDE DEF g
  <2> QED BY <2>2, <2>3
<1>4. FlattenSeq(seqs) \in Seq(D) BY FlattenType
<1>5. g[FlattenSeq(seqs)] = Each(h, FlattenSeq(seqs)) BY <1>4
<1>6. Each(g, seqs) = [i \in 1 .. Len(seqs) |-> Each(h, seqs[i])]
  <2>1. \A i \in 1 .. Len(seqs) : g[seqs[i]] = Each(h, seqs[i]) OBVIOUS
  <2> HIDE DEF g
  <2> QED BY <2>1 DEF Each
<1> HIDE DEF g
<1>7. g[FlattenSeq(seqs)] = FlattenSeq(Each(g, seqs)) BY <1>1, <1>2, <1>3, FlattenHomomorphism
<1> QED BY <1>5, <1>6, <1>7

\* Sequences of one element, and empty ones, after one another.
LEMMA FlattenSingles ==
  ASSUME NEW E, NEW s \in Seq(E)
  PROVE  FlattenSeq([i \in 1 .. Len(s) |-> <<s[i]>>]) = s
<1> DEFINE One == [e \in E |-> <<e>>]
           T == {t \in Seq(E) : FlattenSeq(Each(One, t)) = t}
<1>1. <<>> \in T
  <2>1. Each(One, <<>>) = <<>> /\ <<>> \in Seq(E) BY DEF Each
  <2> QED BY <2>1, FlattenEmpty
<1>0. One \in [E -> Seq(E)]
  <2>1. \A e \in E : <<e>> \in Seq(E) OBVIOUS
  <2> QED BY <2>1
<1>2. ASSUME NEW t \in Seq(E), NEW e \in E, t \in T PROVE Append(t, e) \in T
  <2>1. One[e] = <<e>> /\ <<e>> \in Seq(E) OBVIOUS
  <2>2. FlattenSeq(Each(One, t)) = t BY <1>2
  <2> HIDE DEF One, T
  <2>3. Each(One, Append(t, e)) = Append(Each(One, t), One[e]) BY <1>0, EachAppend
  <2>4. Each(One, t) \in Seq(Seq(E)) BY <1>0, EachType
  <2>5. FlattenSeq(Append(Each(One, t), <<e>>)) = FlattenSeq(Each(One, t)) \o <<e>>
    BY <2>1, <2>4, FlattenAppend
  <2>6. t \o <<e>> = Append(t, e) /\ Append(t, e) \in Seq(E) OBVIOUS
  <2> QED BY <2>1, <2>2, <2>3, <2>5, <2>6 DEF T
<1>3. Seq(E) \subseteq T
  <2> HIDE DEF T
  <2> QED BY <1>1, <1>2, SequenceInduction
<1>4. FlattenSeq(Each(One, s)) = s BY <1>3
<1>5. Each(One, s) = [i \in 1 .. Len(s) |-> <<s[i]>>]
  <2>1. \A i \in 1 .. Len(s) : One[s[i]] = <<s[i]>> OBVIOUS
  <2> HIDE DEF One
  <2> QED BY <2>1 DEF Each
<1> QED BY <1>4, <1>5

LEMMA FlattenEmpties ==
  ASSUME NEW n \in Nat
  PROVE  FlattenSeq([i \in 1 .. n |-> <<>>]) = <<>>
<1> DEFINE N(k) == [i \in 1 .. k |-> <<>>]
           T == {k \in 0 .. n : FlattenSeq(N(k)) = <<>>}
<1>1. 0 <= n => 0 \in T
  <2>1. N(0) = <<>> OBVIOUS
  <2>2. FlattenSeq(N(0)) = <<>>
    <3> HIDE DEF N
    <3> QED BY <2>1, FlattenEmpty
  <2> QED BY <2>2
<1>2. ASSUME NEW k \in 0 .. n, k \in T, k < n PROVE k + 1 \in T
  <2>1. k \in Nat /\ k + 1 \in 0 .. n
    <3> HIDE DEF T
    <3> QED BY <1>2
  <2>2. FlattenSeq(N(k)) = <<>> BY <1>2
  <2>3. <<>> \in Seq(Nat) OBVIOUS
  <2>4. N(k) \in Seq(Seq(Nat)) /\ Len(N(k)) = k BY <2>1, <2>3
  <2>5. N(k + 1) = Append(N(k), <<>>) BY <2>1, <2>3, <2>4
  <2> HIDE DEF N
  <2>6. FlattenSeq(Append(N(k), <<>>)) = FlattenSeq(N(k)) \o <<>> BY <2>3, <2>4, FlattenAppend
  <2>7. <<>> \o <<>> = <<>> OBVIOUS
  <2> QED BY <2>1, <2>2, <2>5, <2>6, <2>7
<1>3. 0 .. n \subseteq T
  <2> HIDE DEF T
  <2> QED BY <1>1, <1>2, IntervalInduction
<1>4. n \in 0 .. n OBVIOUS
<1> QED BY <1>3, <1>4

--------------------------------------------------------------------------------
(* Sums of sequences of numbers.                                           *)

\* Sum goes through the numbers from the first to the last.
LEMMA SumSteps ==
  ASSUME NEW terms \in Seq(Nat)
  PROVE  \E f \in [0 .. Len(terms) -> Nat] :
           /\ f[0] = 0
           /\ \A i \in 1 .. Len(terms) : f[i] = f[i - 1] + terms[i]
           /\ Sum(terms) = f[Len(terms)]
<1> DEFINE n == Len(terms)
           Value(g, s) == IF s = {} THEN 0 ELSE g[s \ {Max(s)}] + terms[Max(s)]
           Fits(g, m) == \A s \in SUBSET (1 .. m) : g[s] = Value(g, s)
           T == {m \in 0 .. n : \E g \in [SUBSET (1 .. m) -> Nat] : Fits(g, m)}
           Step(g) == [s \in SUBSET (1 .. n) |-> Value(g, s)]
<1>0. n \in Nat /\ DOMAIN terms = 1 .. n /\ \A i \in 1 .. n : terms[i] \in Nat OBVIOUS
<1> HIDE DEF n
<1>1. 0 .. n \subseteq T
  <2>1. 0 \in T
    <3> DEFINE g == [s \in SUBSET (1 .. 0) |-> 0]
    <3>1. \A s \in SUBSET (1 .. 0) : s = {} OBVIOUS
    <3>2. g \in [SUBSET (1 .. 0) -> Nat] /\ Fits(g, 0) BY <3>1
    <3>3. 0 \in 0 .. n BY <1>0
    <3> QED BY <3>2, <3>3
  <2>2. ASSUME NEW m \in 0 .. n, m \in T, m < n PROVE m + 1 \in T
    <3>1. PICK g \in [SUBSET (1 .. m) -> Nat] : Fits(g, m) BY <2>2
    <3>2. m \in Nat /\ m + 1 \in 0 .. n /\ m + 1 \in 1 .. n /\ terms[m + 1] \in Nat
      <4> HIDE DEF T
      <4>1. m \in Nat /\ m + 1 \in 0 .. n /\ m + 1 \in 1 .. n BY <1>0, <2>2
      <4> QED BY <1>0, <4>1
    <3> DEFINE h == [s \in SUBSET (1 .. m + 1) |->
                       IF m + 1 \in s THEN g[s \ {m + 1}] + terms[m + 1] ELSE g[s]]
    <3>3. \A s \in SUBSET (1 .. m + 1) :
            /\ m + 1 \in s => s \ {m + 1} \in SUBSET (1 .. m) /\ Max(s) = m + 1
            /\ m + 1 \notin s => s \in SUBSET (1 .. m)
      <4> SUFFICES ASSUME NEW s \in SUBSET (1 .. m + 1)
                   PROVE  /\ m + 1 \in s => s \ {m + 1} \in SUBSET (1 .. m) /\ Max(s) = m + 1
                          /\ m + 1 \notin s => s \in SUBSET (1 .. m)
        OBVIOUS
      <4>1. \A x \in 1 .. m + 1 : x # m + 1 => x \in 1 .. m BY <3>2
      <4>2. m + 1 \in s => Max(s) = m + 1
        <5>1. m + 1 \in Nat BY <3>2
        <5> QED BY <5>1, MaxIs
      <4> QED BY <4>1, <4>2
    <3>4. h \in [SUBSET (1 .. m + 1) -> Nat]
      <4>1. ASSUME NEW s \in SUBSET (1 .. m + 1)
            PROVE  (IF m + 1 \in s THEN g[s \ {m + 1}] + terms[m + 1] ELSE g[s]) \in Nat
        <5>1. CASE m + 1 \in s
          <6>1. g[s \ {m + 1}] \in Nat BY <3>1, <3>3, <5>1
          <6>2. g[s \ {m + 1}] + terms[m + 1] \in Nat BY <3>2, <6>1
          <6> QED BY <5>1, <6>2
        <5>2. CASE m + 1 \notin s BY <3>1, <3>3, <5>2
        <5> QED BY <5>1, <5>2
      <4> QED BY <4>1
    <3>5. Fits(h, m + 1)
      <4> SUFFICES ASSUME NEW s \in SUBSET (1 .. m + 1) PROVE h[s] = Value(h, s) OBVIOUS
      <4>1. CASE m + 1 \in s
        <5> DEFINE u == s \ {m + 1}
        <5>1. u \in SUBSET (1 .. m) /\ u \in SUBSET (1 .. m + 1) /\ m + 1 \notin u /\ s # {}
              /\ Max(s) = m + 1
          <6>1. u \in SUBSET (1 .. m) /\ Max(s) = m + 1 BY <3>3, <4>1
          <6> QED BY <4>1, <6>1
        <5>2. h[s] = g[u] + terms[m + 1] BY <4>1
        <5>3. h[u] = g[u]
          <6> HIDE DEF u
          <6> QED BY <5>1
        <5> HIDE DEF h
        <5> QED BY <5>1, <5>2, <5>3
      <4>2. CASE m + 1 \notin s
        <5> DEFINE u == s \ {Max(s)}
        <5>1. s \in SUBSET (1 .. m) BY <3>3, <4>2
        <5>2. h[s] = g[s] BY <4>2
        <5>3. u \in SUBSET (1 .. m + 1) /\ m + 1 \notin u BY <4>2
        <5>4. h[u] = g[u]
          <6> HIDE DEF u
          <6> QED BY <5>3
        <5>5. g[s] = Value(g, s) BY <3>1, <5>1
        <5> HIDE DEF h
        <5> QED BY <5>2, <5>4, <5>5
      <4> QED BY <4>1, <4>2
    <3> HIDE DEF h, Fits
    <3> QED BY <3>2, <3>4, <3>5
  <2> HIDE DEF T
  <2>3. 0 <= n => 0 \in T BY <2>1
  <2>4. \A m \in 0 .. n : m \in T /\ m < n => m + 1 \in T BY <2>2
  <2> QED BY <1>0, <2>3, <2>4, IntervalInduction
<1>2. PICK g \in [SUBSET (1 .. n) -> Nat] : Fits(g, n)
  <2>1. n \in T
    <3> HIDE DEF T
    <3> QED BY <1>0, <1>1
  <2> QED BY <2>1
<1>3. g = Step(g)
  <2>1. g = [s \in SUBSET (1 .. n) |-> g[s]] BY <1>2
  <2> QED BY <1>2, <2>1
<1> DEFINE iter == CHOOSE h : h = Step(h)
<1>4. iter = Step(iter)
  <2> HIDE DEF Step
  <2> QED BY <1>3
<1>5. Sum(terms) = iter[1 .. n]
  BY <1>0 DEF Sum, FoldLeft, MapThenFoldSet
<1> HIDE DEF iter
<1> DEFINE f == [m \in 0 .. n |-> iter[1 .. m]]
<1>6. f[0] = 0
  <2>1. 1 .. 0 = {} /\ {} \in SUBSET (1 .. n) /\ 0 \in 0 .. n BY <1>0
  <2>2. iter[{}] = 0 BY <1>4, <2>1
  <2> QED BY <2>1, <2>2
<1>7. ASSUME NEW i \in 1 .. n PROVE f[i] = f[i - 1] + terms[i]
  <2>1. i \in 0 .. n /\ i - 1 \in 0 .. n /\ i \in Nat BY <1>0
  <2>2. 1 .. i \in SUBSET (1 .. n) /\ 1 .. i # {} /\ i \in 1 .. i
    <3>1. i \in Nat /\ n \in Nat /\ 1 <= i /\ i <= n BY <1>0
    <3>2. \A x \in 1 .. i : x \in 1 .. n BY <3>1
    <3>3. i \in 1 .. i BY <3>1
    <3> QED BY <3>2, <3>3
  <2>3. Max(1 .. i) = i BY <2>1, <2>2, MaxIs
  <2>4. (1 .. i) \ {i} = 1 .. i - 1 BY <2>1
  <2>5. iter[1 .. i] = Value(iter, 1 .. i)
    <3> HIDE DEF Value
    <3>1. Step(iter)[1 .. i] = Value(iter, 1 .. i) BY <2>2
    <3> HIDE DEF Step
    <3> QED BY <1>4, <3>1
  <2>6. iter[1 .. i] = iter[1 .. i - 1] + terms[i] BY <2>2, <2>3, <2>4, <2>5
  <2> QED BY <2>1, <2>6
<1>8. f \in [0 .. n -> Nat]
  <2> DEFINE N == {m \in 0 .. n : f[m] \in Nat}
  <2> HIDE DEF f
  <2>1. 0 <= n => 0 \in N BY <1>0, <1>6
  <2>2. \A m \in 0 .. n : m \in N /\ m < n => m + 1 \in N
    <3> SUFFICES ASSUME NEW m \in 0 .. n, m \in N, m < n PROVE m + 1 \in N OBVIOUS
    <3> DEFINE k == m + 1
    <3>1. k \in 1 .. n /\ k \in 0 .. n /\ k - 1 = m BY <1>0
    <3>2. f[m] \in Nat OBVIOUS
    <3> HIDE DEF k, N
    <3>3. f[k] = f[k - 1] + terms[k] BY <1>7, <3>1
    <3>4. terms[k] \in Nat BY <1>0, <3>1
    <3>5. f[k] \in Nat BY <3>1, <3>2, <3>3, <3>4
    <3> QED BY <3>1, <3>5 DEF k, N
  <2> HIDE DEF N
  <2>3. 0 .. n \subseteq N BY <1>0, <2>1, <2>2, IntervalInduction
  <2>4. \A m \in 0 .. n : f[m] \in Nat BY <2>3 DEF N
  <2>5. f = [m \in 0 .. n |-> f[m]] BY DEF f
  <2> QED BY <2>4, <2>5
<1>9. Sum(terms) = f[n] BY <1>0, <1>5
<1> HIDE DEF f
<1> QED BY <1>6, <1>7, <1>8, <1>9 DEF n

LEMMA SumEmpty == Sum(<<>>) = 0
<1>1. <<>> \in Seq(Nat) /\ Len(<<>>) = 0 OBVIOUS
<1> QED BY <1>1, SumSteps

LEMMA SumAppend ==
  ASSUME NEW s \in Seq(Nat), NEW x \in Nat
  PROVE  Sum(s) \in Nat /\ Sum(Append(s, x)) = Sum(s) + x
<1> DEFINE n == Len(s)
           more == Append(s, x)
           m == n + 1
<1>0. n \in Nat /\ m \in 1 .. m /\ m \in 0 .. m /\ m - 1 = n /\ more \in Seq(Nat) /\ Len(more) = m
      /\ more[m] = x /\ \A i \in 1 .. n : more[i] = s[i]
  OBVIOUS
<1>1. PICK f \in [0 .. n -> Nat] : /\ f[0] = 0
                                  /\ \A i \in 1 .. n : f[i] = f[i - 1] + s[i]
                                  /\ Sum(s) = f[n]
  BY SumSteps
<1>12. Sum(s) = f[n] BY <1>1
<1>2. PICK g \in [0 .. m -> Nat] : /\ g[0] = 0
                                  /\ \A i \in 1 .. m : g[i] = g[i - 1] + more[i]
                                  /\ Sum(more) = g[m]
  <2> HIDE DEF more
  <2>1. \E g \in [0 .. Len(more) -> Nat] : /\ g[0] = 0
                                  /\ \A i \in 1 .. Len(more) : g[i] = g[i - 1] + more[i]
                                  /\ Sum(more) = g[Len(more)]
    BY <1>0, SumSteps
  <2> HIDE DEF m, n
  <2> QED BY <1>0, <2>1, Zenon
<1>13. Sum(more) = g[m] BY <1>2
<1> HIDE DEF n, more
<1> DEFINE T == {i \in 0 .. n : g[i] = f[i]}
<1>3. 0 <= n => 0 \in T BY <1>0, <1>1, <1>2
<1>4. ASSUME NEW i \in 0 .. n, i \in T, i < n PROVE i + 1 \in T
  <2> DEFINE k == i + 1
  <2>1. k \in 1 .. n /\ k \in 1 .. m /\ k \in 0 .. n /\ k - 1 = i BY <1>0, <1>4
  <2>4. g[i] = f[i] BY <1>4
  <2> HIDE DEF k, T
  <2>2. g[k] = g[k - 1] + more[k] BY <1>2, <2>1
  <2>3. f[k] = f[k - 1] + s[k] BY <1>1, <2>1
  <2>5. g[k] = f[k] BY <1>0, <2>1, <2>2, <2>3, <2>4
  <2> QED BY <2>1, <2>5 DEF k, T
<1> HIDE DEF T
<1>5. 0 .. n \subseteq T BY <1>0, <1>3, <1>4, IntervalInduction
<1>6. n \in 0 .. n BY <1>0
<1>7. g[n] = f[n] BY <1>5, <1>6 DEF T
<1> HIDE DEF m
<1>8. g[m] = g[n] + x BY <1>0, <1>2
<1>9. f[n] \in Nat BY <1>1, <1>6
<1>10. Sum(s) \in Nat BY <1>12, <1>9
<1>11. Sum(more) = Sum(s) + x BY <1>12, <1>13, <1>7, <1>8
<1> QED BY <1>10, <1>11 DEF more

LEMMA SumType ==
  ASSUME NEW s \in Seq(Nat)
  PROVE  Sum(s) \in Nat
BY SumAppend, 0 \in Nat

LEMMA SumConcat ==
  ASSUME NEW a \in Seq(Nat), NEW b \in Seq(Nat)
  PROVE  Sum(a \o b) = Sum(a) + Sum(b)
<1> DEFINE T == {c \in Seq(Nat) : Sum(a \o c) = Sum(a) + Sum(c)}
<1>1. <<>> \in T
  <2>1. a \o <<>> = a /\ <<>> \in Seq(Nat) OBVIOUS
  <2> QED BY <2>1, SumType, SumEmpty
<1>2. ASSUME NEW c \in Seq(Nat), NEW x \in Nat, c \in T PROVE Append(c, x) \in T
  <2>1. a \o Append(c, x) = Append(a \o c, x) /\ a \o c \in Seq(Nat)
        /\ Append(c, x) \in Seq(Nat)
    OBVIOUS
  <2>2. Sum(Append(a \o c, x)) = Sum(a \o c) + x BY <2>1, SumAppend
  <2>3. Sum(Append(c, x)) = Sum(c) + x BY SumAppend
  <2>4. Sum(a) \in Nat /\ Sum(c) \in Nat BY SumType
  <2>5. Sum(a \o c) = Sum(a) + Sum(c) BY <1>2
  <2>6. Sum(a \o Append(c, x)) = Sum(a) + Sum(Append(c, x)) BY <2>1, <2>2, <2>3, <2>4, <2>5
  <2> QED BY <2>1, <2>6
<1> HIDE DEF T
<1>3. Seq(Nat) \subseteq T BY <1>1, <1>2, SequenceInduction
<1>4. b \in T BY <1>3
<1> QED BY <1>4 DEF T

\* Smaller terms have a smaller sum.
LEMMA SumMonotone ==
  ASSUME NEW n \in Nat, NEW a \in [1 .. n -> Nat], NEW b \in [1 .. n -> Nat],
         \A i \in 1 .. n : a[i] <= b[i]
  PROVE  Sum(a) <= Sum(b)
<1> DEFINE A(k) == [i \in 1 .. k |-> a[i]]
           B(k) == [i \in 1 .. k |-> b[i]]
           T == {k \in 0 .. n : Sum(A(k)) <= Sum(B(k))}
<1>1. 0 <= n => 0 \in T
  <2>1. A(0) = <<>> /\ B(0) = <<>> OBVIOUS
  <2>2. Sum(A(0)) <= Sum(B(0))
    <3> HIDE DEF A, B
    <3> QED BY <2>1, SumEmpty
  <2> QED BY <2>2
<1>2. ASSUME NEW k \in 0 .. n, k \in T, k < n PROVE k + 1 \in T
  <2>1. k \in Nat /\ k + 1 \in 0 .. n /\ k + 1 \in 1 .. n
    <3> HIDE DEF T
    <3> QED BY <1>2
  <2>2. a[k + 1] \in Nat /\ b[k + 1] \in Nat /\ a[k + 1] <= b[k + 1] BY <2>1
  <2>3. A(k) \in Seq(Nat) /\ B(k) \in Seq(Nat) /\ Len(A(k)) = k /\ Len(B(k)) = k
    <3>1. \A i \in 1 .. k : a[i] \in Nat /\ b[i] \in Nat BY <2>1
    <3> QED BY <2>1, <3>1
  <2>4. A(k + 1) = Append(A(k), a[k + 1]) /\ B(k + 1) = Append(B(k), b[k + 1])
    BY <2>1, <2>2, <2>3
  <2>5. Sum(A(k)) <= Sum(B(k)) BY <1>2
  <2> HIDE DEF A, B
  <2>6. Sum(A(k + 1)) = Sum(A(k)) + a[k + 1] /\ Sum(A(k)) \in Nat BY <2>2, <2>3, <2>4, SumAppend
  <2>7. Sum(B(k + 1)) = Sum(B(k)) + b[k + 1] /\ Sum(B(k)) \in Nat BY <2>2, <2>3, <2>4, SumAppend
  <2> QED BY <2>1, <2>2, <2>5, <2>6, <2>7
<1>3. 0 .. n \subseteq T
  <2> HIDE DEF T
  <2> QED BY <1>1, <1>2, IntervalInduction
<1>4. n \in 0 .. n /\ A(n) = a /\ B(n) = b OBVIOUS
<1> QED BY <1>3, <1>4

\* The sum of equal terms.
LEMMA SumConstant ==
  ASSUME NEW n \in Nat, NEW c \in Nat
  PROVE  Sum([i \in 1 .. n |-> c]) = n * c
<1> DEFINE A(k) == [i \in 1 .. k |-> c]
           T == {k \in 0 .. n : Sum(A(k)) = k * c}
<1>1. 0 <= n => 0 \in T
  <2>1. A(0) = <<>> OBVIOUS
  <2>2. Sum(A(0)) = 0
    <3> HIDE DEF A
    <3> QED BY <2>1, SumEmpty
  <2>3. 0 * c = 0 OBVIOUS
  <2> QED BY <2>2, <2>3
<1>2. ASSUME NEW k \in 0 .. n, k \in T, k < n PROVE k + 1 \in T
  <2>1. k \in Nat /\ k + 1 \in 0 .. n
    <3> HIDE DEF T
    <3> QED BY <1>2
  <2>3. A(k) \in Seq(Nat) /\ Len(A(k)) = k BY <2>1
  <2>4. A(k + 1) = Append(A(k), c) BY <2>1, <2>3
  <2>5. Sum(A(k)) = k * c BY <1>2
  <2> HIDE DEF A
  <2>6. Sum(A(k + 1)) = Sum(A(k)) + c BY <2>3, <2>4, SumAppend
  <2>7. (k + 1) * c = k * c + c BY <2>1
  <2> QED BY <2>1, <2>5, <2>6, <2>7
<1>3. 0 .. n \subseteq T
  <2> HIDE DEF T
  <2> QED BY <1>1, <1>2, IntervalInduction
<1>4. n \in 0 .. n OBVIOUS
<1> QED BY <1>3, <1>4

\* What turns concatenation into addition can be added up piece by piece.
LEMMA SumHomomorphism ==
  ASSUME NEW E, NEW h \in [Seq(E) -> Nat], h[<<>>] = 0,
         \A s, t \in Seq(E) : h[s \o t] = h[s] + h[t],
         NEW seqs \in Seq(Seq(E))
  PROVE  h[FlattenSeq(seqs)] = Sum(Each(h, seqs))
<1> DEFINE T == {c \in Seq(Seq(E)) : h[FlattenSeq(c)] = Sum(Each(h, c))}
<1>1. <<>> \in T
  <2>1. Each(h, <<>>) = <<>> /\ <<>> \in Seq(Seq(E)) BY DEF Each
  <2> QED BY <2>1, FlattenEmpty, SumEmpty
<1>2. ASSUME NEW c \in Seq(Seq(E)), NEW s \in Seq(E), c \in T PROVE Append(c, s) \in T
  <2>1. FlattenSeq(c) \in Seq(E) BY FlattenType
  <2>2. FlattenSeq(Append(c, s)) = FlattenSeq(c) \o s BY FlattenAppend
  <2>3. Each(h, c) \in Seq(Nat) BY EachType
  <2>4. Each(h, Append(c, s)) = Append(Each(h, c), h[s])  BY EachAppend
  <2>5. h[FlattenSeq(c)] = Sum(Each(h, c)) BY <1>2
  <2>6. Sum(Append(Each(h, c), h[s])) = Sum(Each(h, c)) + h[s] BY <2>3, SumAppend
  <2>7. h[FlattenSeq(c) \o s] = h[FlattenSeq(c)] + h[s] BY <2>1
  <2>8. Append(c, s) \in Seq(Seq(E)) OBVIOUS
  <2> QED BY <2>2, <2>4, <2>5, <2>6, <2>7, <2>8
<1> HIDE DEF T
<1>3. Seq(Seq(E)) \subseteq T BY <1>1, <1>2, SequenceInduction
<1>4. seqs \in T BY <1>3
<1> QED BY <1>4 DEF T
--------------------------------------------------------------------------------
(* The numbers of a set in ascending order.                                *)

\* Every number of a set is at the place given by how many are smaller.
LEMMA AscendingListsAll ==
  ASSUME NEW S \in SUBSET Nat, IsFiniteSet(S)
  PROVE  /\ Cardinality(S) \in Nat
         /\ Ascending(S) \in [1 .. Cardinality(S) -> S]
         /\ ToSet(Ascending(S)) = S
         /\ \A i, j \in 1 .. Cardinality(S) : i < j => Ascending(S)[i] < Ascending(S)[j]
<1> DEFINE n == Cardinality(S)
           Below(x) == {y \in S : y < x}
           rank == [x \in S |-> Cardinality(Below(x))]
<1>1. n \in Nat BY FS_CardinalityType
<1>2. ASSUME NEW x \in S
      PROVE  /\ IsFiniteSet(Below(x)) /\ Cardinality(Below(x)) \in Nat
             /\ Cardinality(Below(x)) < n
  <2>1. Below(x) \in SUBSET S /\ x \notin Below(x) OBVIOUS
  <2>2. Below(x) # S BY <2>1
  <2> HIDE DEF Below
  <2>3. /\ IsFiniteSet(Below(x)) /\ Cardinality(Below(x)) <= n
        /\ Cardinality(Below(x)) # n
    BY <2>1, <2>2, FS_Subset
  <2>4. Cardinality(Below(x)) \in Nat BY <2>3, FS_CardinalityType
  <2> QED BY <1>1, <2>3, <2>4
<1>3. ASSUME NEW x \in S, NEW z \in S, x < z PROVE rank[x] # rank[z]
  <2>1. Below(x) \in SUBSET Below(z) /\ x \in Below(z) /\ x \notin Below(x)
    <3>1. x \in Nat /\ z \in Nat /\ x < z /\ \A y \in S : y \in Nat BY <1>3
    <3>2. \A y \in S : y < x => y < z BY <3>1
    <3>3. ~(x < x) BY <3>1
    <3> HIDE DEF rank, n
    <3> QED BY <3>1, <3>2, <3>3
  <2>2. Below(x) # Below(z) BY <2>1
  <2>3. IsFiniteSet(Below(z)) BY <1>2
  <2> HIDE DEF Below
  <2>4. Cardinality(Below(x)) # Cardinality(Below(z)) BY <2>1, <2>2, <2>3, FS_Subset
  <2> QED BY <2>4
<1>4. rank \in Injection(S, 0 .. n - 1)
  <2>1. rank \in [S -> 0 .. n - 1]
    <3>1. \A x \in S : Cardinality(Below(x)) \in 0 .. n - 1 BY <1>1, <1>2
    <3> QED BY <3>1
  <2>2. ASSUME NEW x \in S, NEW z \in S, rank[x] = rank[z] PROVE x = z
    <3> HIDE DEF rank
    <3>1. x \in Nat /\ z \in Nat OBVIOUS
    <3>2. ~(x < z) /\ ~(z < x) BY <1>3, <2>2
    <3> QED BY <3>1, <3>2
  <2>3. DOMAIN rank = S OBVIOUS
  <2> HIDE DEF rank
  <2> QED BY <2>1, <2>2, <2>3 DEF Injection, IsInjective
<1>5. rank \in Surjection(S, 0 .. n - 1)
  <2>1. IsFiniteSet(0 .. n - 1) /\ Cardinality(0 .. n - 1) = n
    <3>1. 0 \in Int /\ n - 1 \in Int BY <1>1
    <3>2. IsFiniteSet(0 .. n - 1)
          /\ Cardinality(0 .. n - 1) = IF 0 > n - 1 THEN 0 ELSE (n - 1) - 0 + 1
      BY <3>1, FS_Interval
    <3> QED BY <1>1, <3>2
  <2> HIDE DEF rank
  <2> QED BY <1>4, <2>1, FS_Injection
<1>6. \A k \in 1 .. n : \E x \in S : Cardinality(Below(x)) = k - 1
  <2> SUFFICES ASSUME NEW k \in 1 .. n PROVE \E x \in S : Cardinality(Below(x)) = k - 1 OBVIOUS
  <2>1. k - 1 \in 0 .. n - 1 BY <1>1
  <2>2. \E x \in S : rank[x] = k - 1
    <3> HIDE DEF rank
    <3> QED BY <1>5, <2>1 DEF Surjection
  <2> QED BY <2>2
<1>7. Ascending(S) \in [1 .. n -> S]
      /\ \A k \in 1 .. n : rank[Ascending(S)[k]] = k - 1
  <2>1. ASSUME NEW k \in 1 .. n
        PROVE  LET x == CHOOSE x \in S : Cardinality(Below(x)) = k - 1
               IN  x \in S /\ Cardinality(Below(x)) = k - 1
    <3> HIDE DEF Below, n
    <3> QED BY <1>6
  <2>2. Ascending(S) = [k \in 1 .. n |-> CHOOSE x \in S : Cardinality(Below(x)) = k - 1]
    BY DEF Ascending
  <2> HIDE DEF Below
  <2> QED BY <2>1, <2>2
<1>8. ASSUME NEW x \in S PROVE x \in ToSet(Ascending(S))
  <2> DEFINE k == rank[x] + 1
  <2>1. k \in 1 .. n /\ k - 1 = rank[x] BY <1>1, <1>2
  <2> HIDE DEF k, rank, n
  <2>2. rank[Ascending(S)[k]] = rank[x] /\ Ascending(S)[k] \in S BY <1>7, <2>1
  <2>3. Ascending(S)[k] = x BY <1>4, <2>2 DEF Injection, IsInjective
  <2>4. k \in DOMAIN Ascending(S) BY <1>7, <2>1
  <2> QED BY <2>3, <2>4 DEF ToSet
<1>9. ToSet(Ascending(S)) \subseteq S
  <2> HIDE DEF n
  <2> QED BY <1>7 DEF ToSet
<1>10. ASSUME NEW i \in 1 .. n, NEW j \in 1 .. n, i < j
       PROVE  Ascending(S)[i] < Ascending(S)[j]
  <2> DEFINE x == Ascending(S)[i]
             z == Ascending(S)[j]
  <2>1. x \in S /\ z \in S /\ rank[x] = i - 1 /\ rank[z] = j - 1 BY <1>7
  <2>2. i \in Int /\ j \in Int BY <1>1
  <2> HIDE DEF x, z, n
  <2>3. rank[x] = Cardinality(Below(x)) /\ rank[z] = Cardinality(Below(z)) BY <2>1
  <2>4. Cardinality(Below(x)) = i - 1 /\ Cardinality(Below(z)) = j - 1 BY <2>1, <2>3
  <2>5. ASSUME ~(x < z) PROVE FALSE
    <3>1. Below(z) \in SUBSET Below(x)
      <4>1. x \in Nat /\ z \in Nat /\ \A y \in S : y \in Nat BY <2>1
      <4>2. \A y \in S : y < z => y < x BY <2>5, <4>1
      <4> HIDE DEF rank
      <4> QED BY <4>2
    <3>2. IsFiniteSet(Below(x)) BY <1>2, <2>1
    <3> HIDE DEF Below
    <3>3. Cardinality(Below(z)) <= Cardinality(Below(x)) BY <3>1, <3>2, FS_Subset
    <3> QED BY <1>10, <2>2, <2>4, <3>3
  <2> QED BY <2>5 DEF x, z
<1> QED BY <1>1, <1>7, <1>8, <1>9, <1>10

--------------------------------------------------------------------------------
(* Products, quotients, and the largest of some numbers.                   *)

\* A product of natural numbers is one.
LEMMA ProductOfTwo == ASSUME NEW x \in Nat, NEW y \in Nat PROVE x * y \in Nat
OBVIOUS

\* Multiplying keeps the order.
LEMMA TimesKeepsOrder ==
  ASSUME NEW a \in Nat, NEW b \in Nat, a <= b, NEW c \in Nat
  PROVE  a * c \in Nat /\ b * c \in Nat /\ a * c <= b * c
<1>1. b - a \in Nat OBVIOUS
<1>2. (b - a) * c \in Nat BY <1>1, ProductOfTwo
<1>3. a * c \in Nat /\ b * c \in Nat BY ProductOfTwo
<1>4. b * c = a * c + (b - a) * c OBVIOUS
<1> QED BY <1>2, <1>3, <1>4

\* Within a row, a later place is behind.
LEMMA SameRow ==
  ASSUME NEW x \in Nat, NEW m \in Nat, NEW y \in Nat, x = y, NEW i \in Nat, NEW j \in Nat, i < j
  PROVE  x * m + i < y * m + j
<1> DEFINE p == x * m
<1>1. p \in Nat /\ p = y * m BY ProductOfTwo
<1> HIDE DEF p
<1>2. p + i < p + j BY <1>1
<1> QED BY <1>1, <1>2 DEF p

\* Rows of m: a later row is behind, and the last is within.
LEMMA RowOrder ==
  ASSUME NEW m \in Nat, NEW q \in Nat, NEW r \in Nat, r < m
  PROVE  /\ q * m + r \in Nat
         /\ \A k \in Nat : q < k => q * m + r < k * m
         /\ \A k, j \in Nat : q < k => q * m + r < k * m + j
<1>1. q * m \in Nat OBVIOUS
<1>2. ASSUME NEW k \in Nat, q < k PROVE q * m + r < k * m /\ k * m \in Nat
  <2>1. (q + 1) * m <= k * m
    <3>1. q + 1 <= k /\ q + 1 \in Nat BY <1>2
    <3> QED BY <3>1
  <2>2. (q + 1) * m = q * m + m OBVIOUS
  <2>3. k * m \in Nat OBVIOUS
  <2> DEFINE a == q * m
             b == k * m
  <2> HIDE DEF a, b
  <2>4. a + m <= b /\ a \in Nat /\ b \in Nat BY <1>1, <2>1, <2>2, <2>3 DEF a, b
  <2>5. a + r < b BY <2>4
  <2> QED BY <2>3, <2>5 DEF a, b
<1>3. ASSUME NEW k \in Nat, NEW j \in Nat, q < k PROVE q * m + r < k * m + j
  BY <1>1, <1>2, <1>3
<1> QED BY <1>1, <1>2, <1>3

\* Place p is place r of row q, one of b rows of m places.
InRow(p, m, b, q, r) == p = q * m + r /\ r < m /\ q < b
HasRow(p, m, b) == \E q \in Nat, r \in Nat : InRow(p, m, b, q, r)

\* The row of a place.
LEMMA DivRow ==
  ASSUME NEW m \in Nat, NEW b \in Nat, NEW p \in Nat, p < b * m
  PROVE  HasRow(p, m, b)
<1>1. m # 0
  <2> SUFFICES ASSUME m = 0 PROVE FALSE OBVIOUS
  <2>1. b * m = 0 OBVIOUS
  <2> QED BY <2>1
<1> DEFINE q == p \div m
           r == p % m
<1>2. q \in Nat /\ r \in 0 .. m - 1 /\ p = q * m + r BY <1>1, DivModIs
<1> HIDE DEF q, r
<1>3. q < b
  <2> SUFFICES ASSUME b <= q PROVE FALSE BY <1>2
  <2>1. b * m <= q * m BY <1>2
  <2>2. b * m \in Nat /\ q * m \in Nat BY <1>2
  <2> QED BY <1>2, <2>1, <2>2
<1>4. r \in Nat /\ r < m BY <1>2
<1>5. InRow(p, m, b, q, r) BY <1>2, <1>3, <1>4 DEF InRow
<1>6. q \in Nat BY <1>2
<1> QED BY <1>4, <1>5, <1>6, Zenon DEF HasRow

\* What a quotient is, by comparing products.
LEMMA DivBound ==
  ASSUME NEW c \in Nat \ {0}, NEW x \in Nat, NEW q \in Nat
  PROVE  /\ q <= x \div c <=> q * c <= x
         /\ x \div c <= q <=> x < q * c + c
<1>1. x \div c \in Nat /\ x % c \in 0 .. c - 1 /\ x = (x \div c) * c + (x % c) BY DivModIs
<1> DEFINE d == x \div c
           r == x % c
<1>2. d \in Nat /\ r \in 0 .. c - 1 /\ x = d * c + r BY <1>1
<1> HIDE DEF d, r
<1>3. q * c \in Nat /\ d * c \in Nat BY <1>2, ProductOfTwo
<1>4. q <= d => q * c <= x
  <2> SUFFICES ASSUME q <= d PROVE q * c <= x OBVIOUS
  <2>1. CASE q = d BY <2>1, <1>2, <1>3
  <2>2. CASE q < d
    <3>1. q * c + 0 < d * c BY <1>2, <2>2, RowOrder
    <3> QED BY <3>1, <1>2, <1>3
  <2> QED BY <2>1, <2>2, <1>2
<1>5. d < q => x < q * c BY <1>2, RowOrder
<1>6. d <= q => x < q * c + c
  <2>1. CASE d = q BY <2>1, <1>2, <1>3
  <2>2. CASE d < q BY <2>2, <1>5, <1>3
  <2> QED BY <2>1, <2>2, <1>2
<1>7. q < d => q * c + c <= x
  <2> SUFFICES ASSUME q < d PROVE q * c + c <= x OBVIOUS
  <2>1. (q + 1) * c = q * c + c OBVIOUS
  <2> DEFINE k == q + 1
  <2>2. k \in Nat /\ k <= d BY <1>2
  <2>3. k * c <= d * c
    <3>1. CASE k = d BY <3>1, <1>3
    <3>2. CASE k < d
      <4> HIDE DEF k
      <4>1. k * c + 0 < d * c BY <1>2, <2>2, <3>2, RowOrder
      <4>2. k * c \in Nat BY <2>2, ProductOfTwo
      <4> QED BY <4>1, <4>2, <1>3
    <3> QED BY <3>1, <3>2, <2>2, <1>2
  <2> QED BY <2>1, <2>3, <1>2, <1>3
<1>8. (q <= d <=> q * c <= x) /\ (d <= q <=> x < q * c + c) BY <1>2, <1>3, <1>4, <1>5, <1>6, <1>7
<1> QED BY <1>8 DEF d

\* A block holds whole elements: where an element lies, in bytes and in elements.
LEMMA DivScale ==
  ASSUME NEW x \in Nat, NEW c \in Nat \ {0}, NEW e \in Nat \ {0}
  PROVE  (x * e) \div (c * e) = x \div c
<1>1. PICK d \in Nat, r \in Nat : x = d * c + r /\ r < c /\ d = x \div c
  <2>1. x \div c \in Nat /\ x % c \in 0 .. c - 1 /\ x = (x \div c) * c + (x % c) BY DivModIs
  <2> DEFINE d == x \div c
             r == x % c
  <2>2. d \in Nat /\ r \in 0 .. c - 1 /\ x = d * c + r BY <2>1
  <2> HIDE DEF d, r
  <2>3. r \in Nat /\ r < c BY <2>2
  <2> QED BY <2>2, <2>3 DEF d
<1> DEFINE w == c * e
           s == r * e
<1>2. x * e = d * w + s
  <2>1. (d * c + r) * e = d * (c * e) + r * e OBVIOUS
  <2> QED BY <1>1, <2>1
<1>3. s + 0 < w BY <1>1, RowOrder
<1>4. s \in Nat /\ w \in Nat BY <1>1, ProductOfTwo
<1> HIDE DEF w, s
<1>5. w \in Nat \ {0} /\ s \in 0 .. w - 1 BY <1>3, <1>4
<1>6. (d * w + s) \div w = d BY <1>1, <1>5, DivModOf
<1> QED BY <1>1, <1>2, <1>6 DEF w

\* The number of a set that no other exceeds, or falls below.
LEMMA MaxOf ==
  ASSUME NEW S \in SUBSET Int, NEW m \in S, \A y \in S : y <= m
  PROVE  Max(S) = m
<1>1. \A y \in S : m >= y OBVIOUS
<1>2. \A x \in S : (\A y \in S : x >= y) => x = m OBVIOUS
<1>3. (CHOOSE x \in S : \A y \in S : x >= y) = m BY <1>1, <1>2
<1> QED BY <1>3 DEF Max

\* The same from below.
LEMMA MinOf ==
  ASSUME NEW S \in SUBSET Int, NEW m \in S, \A y \in S : m <= y
  PROVE  Min(S) = m
<1>1. \A x \in S : (\A y \in S : x <= y) => x = m OBVIOUS
<1>2. (CHOOSE x \in S : \A y \in S : x <= y) = m BY <1>1
<1> QED BY <1>2 DEF Min

\* The largest of some numbers.
LEMMA MaxOfSome ==
  ASSUME NEW n \in Nat \ {0}, NEW s \in [1 .. n -> Nat]
  PROVE  /\ Max({s[d] : d \in 1 .. n}) \in Nat
         /\ \A d \in 1 .. n : s[d] <= Max({s[e] : e \in 1 .. n})
<1> DEFINE T == {k \in 1 .. n : \E m \in 1 .. k : \A j \in 1 .. k : s[j] <= s[m]}
           S == {s[d] : d \in 1 .. n}
<1>1. 1 <= n => 1 \in T
  <2>1. 1 \in 1 .. n /\ s[1] <= s[1] OBVIOUS
  <2>2. \A j \in 1 .. 1 : s[j] <= s[1] BY <2>1
  <2> QED BY <2>1, <2>2
<1>2. \A k \in 1 .. n : k \in T /\ k < n => k + 1 \in T
  <2> SUFFICES ASSUME NEW k \in 1 .. n, k \in T, k < n PROVE k + 1 \in T OBVIOUS
  <2>1. PICK m \in 1 .. k : \A j \in 1 .. k : s[j] <= s[m] OBVIOUS
  <2>2. k + 1 \in 1 .. n /\ m \in 1 .. n /\ \A j \in 1 .. k : j \in 1 .. n OBVIOUS
  <2>3. s[k + 1] \in Nat /\ s[m] \in Nat BY <2>2
  <2>4. CASE s[k + 1] <= s[m]
    <3>1. \A j \in 1 .. k + 1 : s[j] <= s[m] BY <2>1, <2>4
    <3> QED BY <2>2, <3>1
  <2>5. CASE s[m] <= s[k + 1]
    <3>1. \A j \in 1 .. k : s[j] <= s[k + 1] BY <2>1, <2>2, <2>3, <2>5
    <3>2. \A j \in 1 .. k + 1 : s[j] <= s[k + 1] BY <2>3, <3>1
    <3> QED BY <2>2, <3>2
  <2> QED BY <2>3, <2>4, <2>5
<1> HIDE DEF T
<1>3. 1 .. n \subseteq T BY <1>1, <1>2, IntervalInduction
<1>4. n \in T BY <1>3
<1>5. PICK m \in 1 .. n : \A j \in 1 .. n : s[j] <= s[m] BY <1>4 DEF T
<1>6. S \in SUBSET Int /\ s[m] \in S /\ \A y \in S : y <= s[m] BY <1>5
<1> HIDE DEF S
<1>7. Max(S) = s[m] BY <1>6, MaxOf
<1> QED BY <1>5, <1>7 DEF S

\* The larger of two numbers.
LEMMA MaxOfTwo ==
  ASSUME NEW a \in Int, NEW b \in Int
  PROVE  Max({a, b}) = IF a <= b THEN b ELSE a
<1>1. CASE a <= b BY <1>1, MaxOf
<1>2. CASE b < a BY <1>2, MaxOf
<1> QED BY <1>1, <1>2
--------------------------------------------------------------------------------
(* Increasing sequences of numbers.                                        *)

\* The numbers of an increasing sequence, counted.
LEMMA IncreasingCounts ==
  ASSUME NEW n \in Nat, NEW s \in [1 .. n -> Nat],
         \A i, j \in 1 .. n : i < j => s[i] < s[j],
         NEW m \in 0 .. n
  PROVE  IsFiniteSet({s[k] : k \in 1 .. m}) /\ Cardinality({s[k] : k \in 1 .. m}) = m
<1> DEFINE T == {s[k] : k \in 1 .. m}
           f == [k \in 1 .. m |-> s[k]]
<1>0. m \in Nat /\ \A k \in 1 .. m : k \in 1 .. n OBVIOUS
<1>1. f \in Surjection(1 .. m, T) BY DEF Surjection
<1>2. f \in Injection(1 .. m, T)
  <2>1. f \in [1 .. m -> T] OBVIOUS
  <2>2. ASSUME NEW i \in 1 .. m, NEW j \in 1 .. m, f[i] = f[j] PROVE i = j
    <3>1. s[i] = s[j] /\ i \in 1 .. n /\ j \in 1 .. n BY <1>0, <2>2
    <3>2. s[i] \in Nat /\ s[j] \in Nat BY <3>1
    <3> HIDE DEF f
    <3>3. ~(i < j) /\ ~(j < i) BY <3>1, <3>2
    <3> QED BY <1>0, <3>3
  <2> HIDE DEF T
  <2>3. DOMAIN f = 1 .. m OBVIOUS
  <2> HIDE DEF f
  <2> QED BY <2>1, <2>2, <2>3 DEF Injection, IsInjective
<1>3. IsFiniteSet(1 .. m) /\ Cardinality(1 .. m) = m
  <2>1. IsFiniteSet(1 .. m) /\ Cardinality(1 .. m) = IF 1 > m THEN 0 ELSE m - 1 + 1
    BY <1>0, FS_Interval
  <2> QED BY <1>0, <2>1
<1> HIDE DEF f, T
<1>4. IsFiniteSet(T) /\ (Cardinality(T) = Cardinality(1 .. m) <=> f \in Injection(1 .. m, T))
  BY <1>1, <1>3, FS_Surjection
<1> QED BY <1>2, <1>3, <1>4 DEF T

\* There is one way to list the numbers of a set in ascending order.
LEMMA OneAscending ==
  ASSUME NEW n \in Nat, NEW s \in [1 .. n -> Nat],
         \A i, j \in 1 .. n : i < j => s[i] < s[j],
         NEW S, S = {s[k] : k \in 1 .. n}
  PROVE  S \in SUBSET Nat /\ IsFiniteSet(S) /\ Cardinality(S) = n /\ Ascending(S) = s
<1>1. IsFiniteSet(S) /\ Cardinality(S) = n
  <2>1. n \in 0 .. n OBVIOUS
  <2> QED BY <2>1, IncreasingCounts
<1> DEFINE Below(x) == {y \in S : y < x}
<1>2. ASSUME NEW k \in 1 .. n PROVE Cardinality(Below(s[k])) = k - 1
  <2>1. Below(s[k]) = {s[j] : j \in 1 .. k - 1}
    <3>1. \A j \in 1 .. n : s[j] < s[k] <=> j < k
      <4> SUFFICES ASSUME NEW j \in 1 .. n PROVE s[j] < s[k] <=> j < k OBVIOUS
      <4>1. s[j] \in Nat /\ s[k] \in Nat OBVIOUS
      <4>2. j < k \/ j = k \/ k < j OBVIOUS
      <4> QED BY <4>1, <4>2
    <3>2. \A j \in 1 .. n : j < k <=> j \in 1 .. k - 1 OBVIOUS
    <3>3. \A j \in 1 .. k - 1 : j \in 1 .. n OBVIOUS
    <3> QED BY <3>1, <3>2, <3>3
  <2> DEFINE m == k - 1
  <2>2. m \in 0 .. n OBVIOUS
  <2> HIDE DEF m
  <2>3. Cardinality({s[j] : j \in 1 .. m}) = m BY <2>2, IncreasingCounts
  <2> QED BY <2>1, <2>3 DEF m
<1>3. ASSUME NEW k \in 1 .. n
      PROVE  (CHOOSE x \in S : Cardinality(Below(x)) = k - 1) = s[k]
  <2>1. s[k] \in S /\ Cardinality(Below(s[k])) = k - 1 BY <1>2
  <2>2. ASSUME NEW x \in S, Cardinality(Below(x)) = k - 1 PROVE x = s[k]
    <3>1. PICK j \in 1 .. n : x = s[j] OBVIOUS
    <3>2. Cardinality(Below(x)) = j - 1 BY <1>2, <3>1
    <3>3. j = k BY <2>2, <3>2
    <3> QED BY <3>1, <3>3
  <2> HIDE DEF Below
  <2> QED BY <2>1, <2>2
<1>4. Ascending(S) = [k \in 1 .. n |-> CHOOSE x \in S : Cardinality(Below(x)) = k - 1]
  BY <1>1 DEF Ascending
<1> HIDE DEF Below
<1>5. Ascending(S) = s
  <2>1. s = [k \in 1 .. n |-> s[k]] OBVIOUS
  <2> QED BY <1>3, <1>4, <2>1
<1> QED BY <1>1, <1>5

\* The numbers of an interval, counted from its start.
UpFrom(a, m) == [k \in 1 .. m |-> a + (k - 1)]

\* An interval in ascending order.
LEMMA AscendingInterval ==
  ASSUME NEW a \in Nat, NEW m \in Nat
  PROVE  /\ UpFrom(a, m) \in [1 .. m -> Nat] /\ Len(UpFrom(a, m)) = m
         /\ IsFiniteSet(a .. a + m - 1) /\ Cardinality(a .. a + m - 1) = m
         /\ Ascending(a .. a + m - 1) = UpFrom(a, m)
<1> DEFINE s == UpFrom(a, m)
<1>1. s \in [1 .. m -> Nat] /\ Len(s) = m BY DEF UpFrom
<1>2. \A i, j \in 1 .. m : i < j => s[i] < s[j] BY DEF UpFrom
<1>3. a .. a + m - 1 = {s[k] : k \in 1 .. m}
  <2>1. \A x \in a .. a + m - 1 : x - a + 1 \in 1 .. m /\ s[x - a + 1] = x BY DEF UpFrom
  <2>2. \A k \in 1 .. m : s[k] \in a .. a + m - 1 BY DEF UpFrom
  <2> HIDE DEF s
  <2> QED BY <2>1, <2>2
<1> HIDE DEF s
<1> QED BY <1>1, <1>2, <1>3, OneAscending DEF s

\* An increasing function keeps the order.
LEMMA AscendingImage ==
  ASSUME NEW S \in SUBSET Nat, IsFiniteSet(S), NEW f \in [S -> Nat],
         \A x, y \in S : x < y => f[x] < f[y]
  PROVE  Ascending({f[x] : x \in S}) = [k \in 1 .. Cardinality(S) |-> f[Ascending(S)[k]]]
<1> DEFINE n == Cardinality(S)
           A == Ascending(S)
           s == [k \in 1 .. n |-> f[A[k]]]
<1>1. n \in Nat /\ A \in [1 .. n -> S] /\ ToSet(A) = S BY AscendingListsAll
<1>2. \A i, j \in 1 .. n : i < j => A[i] < A[j] BY AscendingListsAll
<1> HIDE DEF n, A
<1>3. s \in [1 .. n -> Nat] BY <1>1
<1>4. \A i, j \in 1 .. n : i < j => s[i] < s[j] BY <1>1, <1>2
<1>5. {f[x] : x \in S} = {s[k] : k \in 1 .. n}
  <2>1. \A x \in S : \E k \in 1 .. n : A[k] = x
    <3>1. DOMAIN A = 1 .. n BY <1>1
    <3> QED BY <1>1, <3>1 DEF ToSet
  <2>2. \A x \in S : f[x] \in {s[k] : k \in 1 .. n}
    <3> SUFFICES ASSUME NEW x \in S PROVE \E k \in 1 .. n : s[k] = f[x] OBVIOUS
    <3>1. PICK k \in 1 .. n : A[k] = x BY <2>1
    <3>2. s[k] = f[x] BY <3>1
    <3> QED BY <3>2
  <2>3. \A k \in 1 .. n : A[k] \in S /\ s[k] = f[A[k]] BY <1>1
  <2> HIDE DEF s
  <2> QED BY <2>2, <2>3
<1> DEFINE image == {f[x] : x \in S}
<1> HIDE DEF s, image
<1>6. Ascending(image) = s
  <2>1. image = {s[k] : k \in 1 .. n} BY <1>5 DEF image
  <2> QED BY <1>1, <1>3, <1>4, <2>1, OneAscending
<1> QED BY <1>6 DEF s, n, A, image

\* The numbers from f on, as a set.
LEMMA RangeUpFrom ==
  ASSUME NEW f \in Nat, NEW n \in Nat
  PROVE  Range(UpFrom(f, n)) = f .. f + n - 1
<1> DEFINE up == UpFrom(f, n)
<1>1. DOMAIN up = 1 .. n /\ \A k \in 1 .. n : up[k] = f + (k - 1) BY DEF UpFrom
<1> HIDE DEF up
<1>2. Range(up) = {up[k] : k \in 1 .. n} BY <1>1 DEF Range
<1>3. ASSUME NEW x \in f .. f + n - 1 PROVE x \in Range(up)
  <2>1. x - f + 1 \in 1 .. n BY <1>3
  <2>2. up[x - f + 1] = x
    <3>1. f + ((x - f + 1) - 1) = x OBVIOUS
    <3> QED BY <1>1, <2>1, <3>1
  <2> QED BY <1>2, <2>1, <2>2
<1>4. ASSUME NEW x \in Range(up) PROVE x \in f .. f + n - 1
  <2>1. PICK k \in 1 .. n : x = up[k] BY <1>2
  <2>2. x = f + (k - 1) BY <1>1, <2>1
  <2> QED BY <2>2
<1> QED BY <1>3, <1>4 DEF up
--------------------------------------------------------------------------------
(* Parts of sequences, and sequences one behind the other.                 *)

\* A function on 1 .. n is a sequence.
LEMMA FunctionIsSeq ==
  ASSUME NEW n \in Nat, NEW S, NEW f \in [1 .. n -> S]
  PROVE  f \in Seq(S) /\ Len(f) = n /\ DOMAIN f = 1 .. n
OBVIOUS

\* A buffer in pieces of one size.
LEMMA PieceOfByte ==
  ASSUME NEW c \in Nat \ {0}, NEW m \in Nat, NEW x \in 1 .. m * c
  PROVE  \E k \in 1 .. m, j \in 1 .. c : x = (k - 1) * c + j
<1>1. m * c \in Nat BY ProductOfTwo
<1>2. x - 1 \in Nat /\ x - 1 < m * c BY <1>1
<1>6. HasRow(x - 1, c, m) BY <1>2, DivRow
<1>3. PICK q \in Nat, r \in Nat : x - 1 = q * c + r /\ r < c /\ q < m
  BY <1>6 DEF HasRow, InRow
<1>4. q + 1 \in 1 .. m /\ r + 1 \in 1 .. c /\ (q + 1) - 1 = q BY <1>3
<1>5. x = q * c + (r + 1)
  <2> DEFINE p == q * c
  <2>1. p \in Nat /\ x - 1 = p + r BY <1>3, ProductOfTwo
  <2> HIDE DEF p
  <2>2. x \in Int BY <1>1
  <2>3. x = p + (r + 1) BY <1>3, <2>1, <2>2
  <2> QED BY <2>3 DEF p
<1> QED BY <1>4, <1>5

\* Two buffers with the same pieces are the same.
LEMMA SameBytes ==
  ASSUME NEW E, NEW c \in Nat \ {0}, NEW m \in Nat, NEW a \in Seq(E), NEW b \in Seq(E),
         Len(a) = m * c, Len(b) = m * c,
         \A k \in 1 .. m, j \in 1 .. c : a[(k - 1) * c + j] = b[(k - 1) * c + j]
  PROVE  a = b
<1>1. \A x \in 1 .. m * c : a[x] = b[x]
  <2> SUFFICES ASSUME NEW x \in 1 .. m * c PROVE a[x] = b[x] OBVIOUS
  <2>1. PICK k \in 1 .. m, j \in 1 .. c : x = (k - 1) * c + j BY PieceOfByte
  <2> QED BY <2>1
<1>2. a = [x \in 1 .. m * c |-> a[x]] /\ b = [x \in 1 .. m * c |-> b[x]] OBVIOUS
<1> QED BY <1>1, <1>2

\* A part of a sequence, and two parts one behind the other.
LEMMA PartIs ==
  ASSUME NEW E, NEW s \in Seq(E), NEW a \in Nat, NEW b \in Nat, a <= b, b <= Len(s)
  PROVE  /\ SubSeq(s, a + 1, b) \in Seq(E) /\ Len(SubSeq(s, a + 1, b)) = b - a
         /\ \A j \in 1 .. b - a : SubSeq(s, a + 1, b)[j] = s[a + j]
<1>1. SubSeq(s, a + 1, b) = [j \in 1 .. b - a |-> s[a + j]]
  <2>1. SubSeq(s, a + 1, b) = [j \in 1 .. (1 + b) - (a + 1) |-> s[(a + 1) + j - 1]] OBVIOUS
  <2>2. (1 + b) - (a + 1) = b - a OBVIOUS
  <2>3. \A j \in 1 .. b - a : (a + 1) + j - 1 = a + j OBVIOUS
  <2>4. SubSeq(s, a + 1, b) = [j \in 1 .. b - a |-> s[(a + 1) + j - 1]] BY <2>1, <2>2, Zenon
  <2> QED BY <2>3, <2>4
<1>2. \A j \in 1 .. b - a : s[a + j] \in E OBVIOUS
<1>3. b - a \in Nat OBVIOUS
<1>4. [j \in 1 .. b - a |-> s[a + j]] \in [1 .. b - a -> E] BY <1>2
<1>5. [j \in 1 .. b - a |-> s[a + j]] \in Seq(E) /\ Len([j \in 1 .. b - a |-> s[a + j]]) = b - a
  BY <1>3, <1>4, FunctionIsSeq
<1> QED BY <1>1, <1>5

\* Two adjacent parts make one.
LEMMA PartsJoin ==
  ASSUME NEW E, NEW s \in Seq(E), NEW a \in Nat, NEW b \in Nat, NEW c \in Nat,
         a <= b, b <= c, c <= Len(s)
  PROVE  SubSeq(s, a + 1, b) \o SubSeq(s, b + 1, c) = SubSeq(s, a + 1, c)
<1> DEFINE x == SubSeq(s, a + 1, b)
           y == SubSeq(s, b + 1, c)
           z == SubSeq(s, a + 1, c)
<1>1. x \in Seq(E) /\ Len(x) = b - a /\ \A j \in 1 .. b - a : x[j] = s[a + j] BY PartIs
<1>2. y \in Seq(E) /\ Len(y) = c - b /\ \A j \in 1 .. c - b : y[j] = s[b + j] BY PartIs
<1>3. a <= c OBVIOUS
<1>4. z \in Seq(E) /\ Len(z) = c - a /\ \A j \in 1 .. c - a : z[j] = s[a + j] BY <1>3, PartIs
<1> HIDE DEF x, y, z
<1>5. Len(z) = Len(x) + Len(y) BY <1>1, <1>2, <1>4
<1>6. \A j \in 1 .. Len(x) : z[j] = x[j]
  <2> SUFFICES ASSUME NEW j \in 1 .. b - a PROVE z[j] = x[j] BY <1>1
  <2>1. j \in 1 .. c - a OBVIOUS
  <2> QED BY <2>1, <1>1, <1>4
<1>7. \A j \in 1 .. Len(y) : z[Len(x) + j] = y[j]
  <2> SUFFICES ASSUME NEW j \in 1 .. c - b PROVE z[b - a + j] = y[j] BY <1>1, <1>2
  <2>1. b - a + j \in 1 .. c - a /\ a + (b - a + j) = b + j OBVIOUS
  <2> QED BY <2>1, <1>2, <1>4
<1>8. z = x \o y BY <1>1, <1>2, <1>4, <1>5, <1>6, <1>7, IsConcat
<1> QED BY <1>8 DEF x, y, z

\* A part of a part.
LEMMA PartOfPart ==
  ASSUME NEW E, NEW s \in Seq(E), NEW a \in Nat, NEW b \in Nat, a <= b, b <= Len(s),
         NEW x \in Nat, NEW y \in Nat, x <= y, a + y <= b
  PROVE  /\ Len(SubSeq(s, a + 1, b)) = b - a
         /\ SubSeq(SubSeq(s, a + 1, b), x + 1, y) = SubSeq(s, (a + x) + 1, a + y)
<1> DEFINE p == SubSeq(s, a + 1, b)
           q == SubSeq(p, x + 1, y)
           r == SubSeq(s, (a + x) + 1, a + y)
<1>1. p \in Seq(E) /\ Len(p) = b - a /\ \A j \in 1 .. b - a : p[j] = s[a + j] BY PartIs
<1> HIDE DEF p
<1>2. y <= Len(p) BY <1>1
<1>3. q \in Seq(E) /\ Len(q) = y - x /\ \A j \in 1 .. y - x : q[j] = p[x + j] BY <1>1, <1>2, PartIs
<1>4. a + x \in Nat /\ a + y \in Nat /\ a + x <= a + y /\ a + y <= Len(s) /\ (a + y) - (a + x) = y - x
  OBVIOUS
<1>5. r \in Seq(E) /\ Len(r) = (a + y) - (a + x)
      /\ \A j \in 1 .. (a + y) - (a + x) : r[j] = s[(a + x) + j]
  BY <1>4, PartIs
<1> HIDE DEF q, r
<1>6. \A j \in 1 .. y - x : q[j] = r[j]
  <2> SUFFICES ASSUME NEW j \in 1 .. y - x PROVE q[j] = r[j] OBVIOUS
  <2>1. x + j \in 1 .. b - a /\ a + (x + j) = (a + x) + j OBVIOUS
  <2>2. q[j] = p[x + j] /\ p[x + j] = s[a + (x + j)] BY <1>1, <1>3, <2>1
  <2>3. r[j] = s[(a + x) + j] BY <1>4, <1>5
  <2> QED BY <2>1, <2>2, <2>3
<1>7. q = [j \in 1 .. y - x |-> q[j]] /\ r = [j \in 1 .. y - x |-> r[j]] BY <1>3, <1>4, <1>5
<1>8. q = r BY <1>6, <1>7
<1> QED BY <1>1, <1>8 DEF p, q, r

\* A prefix, one element longer.
LEMMA PrefixStep ==
  ASSUME NEW E, NEW s \in Seq(E), NEW k \in Nat, k < Len(s)
  PROVE  /\ SubSeq(s, 1, k) \in Seq(E) /\ s[k + 1] \in E
         /\ SubSeq(s, 1, k + 1) = Append(SubSeq(s, 1, k), s[k + 1])
<1>1. SubSeq(s, 0 + 1, k) \in Seq(E) /\ Len(SubSeq(s, 0 + 1, k)) = k - 0
      /\ \A j \in 1 .. k - 0 : SubSeq(s, 0 + 1, k)[j] = s[0 + j]
  BY PartIs
<1>2. k + 1 \in Nat /\ 0 <= k + 1 /\ k + 1 <= Len(s) OBVIOUS
<1>3. SubSeq(s, 0 + 1, k + 1) \in Seq(E) /\ Len(SubSeq(s, 0 + 1, k + 1)) = (k + 1) - 0
      /\ \A j \in 1 .. (k + 1) - 0 : SubSeq(s, 0 + 1, k + 1)[j] = s[0 + j]
  BY <1>2, PartIs
<1>4. s[k + 1] \in E BY <1>2
<1> DEFINE x == SubSeq(s, 1, k)
           z == SubSeq(s, 1, k + 1)
<1>5. x \in Seq(E) /\ Len(x) = k /\ \A j \in 1 .. k : x[j] = s[j] BY <1>1
<1>6. z \in Seq(E) /\ Len(z) = k + 1 /\ \A j \in 1 .. k + 1 : z[j] = s[j] BY <1>3
<1> HIDE DEF x, z
<1>7. Append(x, s[k + 1]) \in Seq(E) /\ Len(Append(x, s[k + 1])) = k + 1 BY <1>4, <1>5
<1>8. \A j \in 1 .. k + 1 : z[j] = Append(x, s[k + 1])[j] BY <1>4, <1>5, <1>6
<1>9. z = Append(x, s[k + 1])
  <2>1. z = [j \in 1 .. k + 1 |-> z[j]]
        /\ Append(x, s[k + 1]) = [j \in 1 .. k + 1 |-> Append(x, s[k + 1])[j]]
    BY <1>6, <1>7
  <2> QED BY <1>8, <2>1
<1> QED BY <1>4, <1>5, <1>9 DEF x, z

\* Adjacent cuts out of one buffer.
CutOut(E, buf, m, cut, seqs) ==
  /\ buf \in Seq(E) /\ m \in Nat /\ cut \in [0 .. m -> Nat]
  /\ seqs \in Seq(Seq(E)) /\ Len(seqs) = m
  /\ \A k \in 1 .. m : /\ cut[k - 1] <= cut[k] /\ cut[k] <= Len(buf)
                       /\ seqs[k] = SubSeq(buf, cut[k - 1] + 1, cut[k])

\* Adjacent cuts, one after the other, make one cut.
LEMMA FlattenCuts ==
  ASSUME NEW E, NEW buf, NEW m, NEW cut, NEW seqs, CutOut(E, buf, m, cut, seqs)
  PROVE  cut[0] <= cut[m] /\ FlattenSeq(seqs) = SubSeq(buf, cut[0] + 1, cut[m])
<1> USE DEF CutOut
<1> DEFINE pre(k) == SubSeq(seqs, 1, k)
           T == {k \in 0 .. m : cut[0] <= cut[k] /\ FlattenSeq(pre(k)) = SubSeq(buf, cut[0] + 1, cut[k])}
<1>1. 0 <= m => 0 \in T
  <2>1. pre(0) = <<>> OBVIOUS
  <2>2. cut[0] \in Nat OBVIOUS
  <2>3. SubSeq(buf, cut[0] + 1, cut[0]) = <<>> BY <2>2
  <2> HIDE DEF pre
  <2>4. FlattenSeq(pre(0)) = SubSeq(buf, cut[0] + 1, cut[0]) BY <2>1, <2>3, FlattenEmpty
  <2> QED BY <2>2, <2>4
<1>2. ASSUME NEW k \in 0 .. m, k \in T, k < m PROVE k + 1 \in T
  <2> DEFINE i == k + 1
  <2>1. k \in Nat /\ i \in 1 .. m /\ i \in 0 .. m /\ i - 1 = k
    <3> HIDE DEF T
    <3> QED BY <1>2
  <2>2. pre(k) \in Seq(Seq(E)) /\ seqs[i] \in Seq(E) /\ pre(i) = Append(pre(k), seqs[i])
    <3>1. k < Len(seqs) BY <1>2
    <3> QED BY <2>1, <3>1, PrefixStep
  <2>3. FlattenSeq(pre(k)) = SubSeq(buf, cut[0] + 1, cut[k]) /\ cut[0] <= cut[k] BY <1>2
  <2> HIDE DEF pre, T
  <2>4. FlattenSeq(pre(i)) = FlattenSeq(pre(k)) \o seqs[i] BY <2>2, FlattenAppend
  <2> DEFINE a == cut[0]
             b == cut[k]
             c == cut[i]
  <2>5. a \in Nat /\ b \in Nat /\ c \in Nat BY <2>1
  <2>6. b <= c /\ c <= Len(buf) /\ seqs[i] = SubSeq(buf, b + 1, c) BY <2>1
  <2>7. a <= b BY <2>3
  <2> HIDE DEF a, b, c, i
  <2>8. SubSeq(buf, a + 1, b) \o SubSeq(buf, b + 1, c) = SubSeq(buf, a + 1, c)
    BY <2>5, <2>6, <2>7, PartsJoin
  <2>9. a <= c BY <2>5, <2>6, <2>7
  <2>10. FlattenSeq(pre(i)) = SubSeq(buf, a + 1, c) BY <2>3, <2>4, <2>6, <2>8 DEF a, b
  <2> QED BY <2>1, <2>9, <2>10 DEF T, a, c, i
<1> HIDE DEF T
<1>3. 0 .. m \subseteq T BY <1>1, <1>2, IntervalInduction
<1>4. m \in T BY <1>3
<1>5. pre(m) = seqs OBVIOUS
<1> QED BY <1>4, <1>5 DEF T

\* Sequences whose lengths lead from one number to the next.
LengthsAdd(E, m, cut, seqs) ==
  /\ m \in Nat /\ cut \in [0 .. m -> Nat] /\ seqs \in Seq(Seq(E)) /\ Len(seqs) = m
  /\ \A k \in 1 .. m : cut[k - 1] + Len(seqs[k]) = cut[k]

\* Sequences one after the other have the sum of their lengths.
LEMMA FlattenLengths ==
  ASSUME NEW E, NEW m, NEW cut, NEW seqs, LengthsAdd(E, m, cut, seqs)
  PROVE  FlattenSeq(seqs) \in Seq(E) /\ cut[0] + Len(FlattenSeq(seqs)) = cut[m]
<1> USE DEF LengthsAdd
<1> DEFINE pre(k) == SubSeq(seqs, 1, k)
           T == {k \in 0 .. m : cut[0] + Len(FlattenSeq(pre(k))) = cut[k]}
<1>1. 0 <= m => 0 \in T
  <2>1. pre(0) = <<>> OBVIOUS
  <2>2. cut[0] + 0 = cut[0] /\ Len(<<>>) = 0 OBVIOUS
  <2> HIDE DEF pre
  <2> QED BY <2>1, <2>2, FlattenEmpty
<1>2. ASSUME NEW k \in 0 .. m, k \in T, k < m PROVE k + 1 \in T
  <2> DEFINE i == k + 1
  <2>1. k \in Nat /\ i \in 1 .. m /\ i \in 0 .. m /\ i - 1 = k
    <3> HIDE DEF T
    <3> QED BY <1>2
  <2>2. pre(k) \in Seq(Seq(E)) /\ seqs[i] \in Seq(E) /\ pre(i) = Append(pre(k), seqs[i])
    <3>1. k < Len(seqs) BY <1>2
    <3> QED BY <2>1, <3>1, PrefixStep
  <2>3. cut[0] + Len(FlattenSeq(pre(k))) = cut[k] BY <1>2
  <2> HIDE DEF pre, T
  <2>4. FlattenSeq(pre(k)) \in Seq(E) /\ FlattenSeq(pre(i)) = FlattenSeq(pre(k)) \o seqs[i]
    BY <2>2, FlattenAppend
  <2>5. Len(FlattenSeq(pre(i))) = Len(FlattenSeq(pre(k))) + Len(seqs[i]) BY <2>2, <2>4
  <2>6. cut[k] + Len(seqs[i]) = cut[i] BY <2>1
  <2>7. Len(seqs[i]) \in Nat /\ Len(FlattenSeq(pre(k))) \in Nat /\ cut[0] \in Nat
    <3>1. Len(seqs[i]) \in Nat BY <2>2
    <3>2. Len(FlattenSeq(pre(k))) \in Nat BY <2>4
    <3>3. 0 \in 0 .. m BY <2>1
    <3>4. cut[0] \in Nat
      <4>1. cut \in [0 .. m -> Nat] OBVIOUS
      <4> QED BY <3>3, <4>1, Zenon
    <3> QED BY <3>1, <3>2, <3>4
  <2> HIDE DEF i
  <2>8. cut[0] + Len(FlattenSeq(pre(i))) = cut[i] BY <2>3, <2>5, <2>6, <2>7
  <2> QED BY <2>1, <2>8 DEF T, i
<1> HIDE DEF T
<1>3. 0 .. m \subseteq T BY <1>1, <1>2, IntervalInduction
<1>4. m \in T BY <1>3
<1>5. pre(m) = seqs OBVIOUS
<1> QED BY <1>4, <1>5, FlattenType DEF T

\* Pieces that are not too long.
LEMMA FlattenBounded ==
  ASSUME NEW E, NEW seqs \in Seq(Seq(E)), NEW most \in Nat,
         \A i \in 1 .. Len(seqs) : Len(seqs[i]) <= most
  PROVE  Len(FlattenSeq(seqs)) <= Len(seqs) * most
<1> DEFINE h == [s \in Seq(E) |-> Len(s)]
           n == Len(seqs)
           lens == [i \in 1 .. n |-> Len(seqs[i])]
           all == [i \in 1 .. n |-> most]
<1>1. h \in [Seq(E) -> Nat] /\ h[<<>>] = 0 OBVIOUS
<1>2. \A s, t \in Seq(E) : h[s \o t] = h[s] + h[t] OBVIOUS
<1>3. n \in Nat /\ \A i \in 1 .. n : seqs[i] \in Seq(E) OBVIOUS
<1>4. Each(h, seqs) = lens BY <1>3 DEF Each
<1>5. FlattenSeq(seqs) \in Seq(E) BY FlattenType
<1>6. h[FlattenSeq(seqs)] = Len(FlattenSeq(seqs)) BY <1>5
<1> HIDE DEF h
<1>7. h[FlattenSeq(seqs)] = Sum(Each(h, seqs)) BY <1>1, <1>2, SumHomomorphism
<1>8. lens \in [1 .. n -> Nat] /\ all \in [1 .. n -> Nat] BY <1>3
<1>9. \A i \in 1 .. n : lens[i] <= all[i] OBVIOUS
<1>10. Sum(all) = n * most BY <1>3, SumConstant
<1> HIDE DEF lens, all
<1>11. Sum(lens) <= Sum(all) BY <1>3, <1>8, <1>9, SumMonotone
<1> QED BY <1>4, <1>6, <1>7, <1>10, <1>11

\* Flattening twice, from the outside or from the inside.
LEMMA FlattenTwice ==
  ASSUME NEW E, NEW seqs \in Seq(Seq(Seq(E)))
  PROVE  FlattenSeq(FlattenSeq(seqs)) = FlattenSeq([i \in 1 .. Len(seqs) |-> FlattenSeq(seqs[i])])
<1> DEFINE h == [s \in Seq(Seq(E)) |-> FlattenSeq(s)]
<1>1. h \in [Seq(Seq(E)) -> Seq(E)] BY FlattenType
<1>2. h[<<>>] = <<>> BY FlattenEmpty
<1>3. ASSUME NEW s \in Seq(Seq(E)), NEW t \in Seq(Seq(E)) PROVE h[s \o t] = h[s] \o h[t]
  BY FlattenConcat
<1>4. FlattenSeq(seqs) \in Seq(Seq(E)) BY FlattenType
<1>5. Each(h, seqs) = [i \in 1 .. Len(seqs) |-> FlattenSeq(seqs[i])]
  BY DEF Each
<1> HIDE DEF h
<1>6. h[FlattenSeq(seqs)] = FlattenSeq(Each(h, seqs)) BY <1>1, <1>2, <1>3, FlattenHomomorphism
<1> QED BY <1>4, <1>5, <1>6 DEF h

\* Where each of some sequences lies when they are one behind the other.
PlacedUpTo(seqs, at, s, k) ==
  \A i \in 1 .. k : /\ at[i] = at[i - 1] + Len(seqs[i]) /\ at[i] <= Len(s)
                    /\ \A j \in 1 .. Len(seqs[i]) : s[at[i - 1] + j] = seqs[i][j]

LiesAt(seqs, flat, at) ==
  /\ at \in [0 .. Len(seqs) -> Nat] /\ at[0] = 0 /\ at[Len(seqs)] = Len(flat)
  /\ PlacedUpTo(seqs, at, flat, Len(seqs))

\* One sequence more.
LEMMA OneMorePlaced ==
  ASSUME NEW E, NEW seqs \in Seq(Seq(E)), NEW at \in [0 .. Len(seqs) -> Nat], NEW s \in Seq(E),
         NEW k \in Nat, k < Len(seqs), PlacedUpTo(seqs, at, s, k), at[k] = Len(s),
         at[k + 1] = Len(s \o seqs[k + 1])
  PROVE  PlacedUpTo(seqs, at, s \o seqs[k + 1], k + 1)
<1> DEFINE m == k + 1
           q == seqs[m]
           t == s \o q
<1>1. m \in 1 .. Len(seqs) /\ m - 1 = k /\ m \in Nat OBVIOUS
<1>2. q \in Seq(E) /\ Len(q) \in Nat BY <1>1
<1> HIDE DEF q
<1>3. /\ Len(t) = Len(s) + Len(q)
      /\ \A x \in 1 .. Len(s) : t[x] = s[x]
      /\ \A j \in 1 .. Len(q) : t[Len(s) + j] = q[j]
  BY <1>2, ConcatAt
<1>4. at[k] = Len(s) /\ at[m] = Len(t) BY DEF q
<1> HIDE DEF m, t
<1>5. ASSUME NEW i \in 1 .. m
      PROVE  /\ at[i] = at[i - 1] + Len(seqs[i]) /\ at[i] <= Len(t)
             /\ \A j \in 1 .. Len(seqs[i]) : t[at[i - 1] + j] = seqs[i][j]
  <2>1. CASE i = m
    <3>1. at[i] = at[i - 1] + Len(seqs[i]) /\ at[i] <= Len(t)
      <4>1. at[m] = at[k] + Len(q) /\ at[m] = Len(t) /\ Len(t) \in Nat
        <5>1. at[k] \in Nat /\ Len(s) \in Nat OBVIOUS
        <5> QED BY <5>1, <1>2, <1>3, <1>4
      <4>2. i - 1 = k BY <1>1, <2>1
      <4>3. Len(t) <= Len(t) BY <4>1
      <4> QED BY <4>1, <4>2, <4>3, <2>1, Zenon DEF q
    <3>2. \A j \in 1 .. Len(q) : t[at[i - 1] + j] = q[j] BY <1>1, <1>3, <1>4, <2>1
    <3> QED BY <2>1, <3>1, <3>2 DEF q
  <2>2. CASE i # m
    <3>1. i \in 1 .. k /\ i \in 0 .. Len(seqs) /\ i - 1 \in 0 .. Len(seqs) /\ i \in 1 .. Len(seqs)
      BY <1>1, <2>2 DEF m
    <3>2. /\ at[i] = at[i - 1] + Len(seqs[i]) /\ at[i] <= Len(s)
          /\ \A j \in 1 .. Len(seqs[i]) : s[at[i - 1] + j] = seqs[i][j]
      BY <3>1 DEF PlacedUpTo
    <3> DEFINE p == at[i - 1]
               l == Len(seqs[i])
    <3>3. p \in Nat /\ l \in Nat /\ at[i] \in Nat
      <4>1. p \in Nat /\ at[i] \in Nat BY <3>1, Zenon
      <4>2. seqs[i] \in Seq(E) BY <3>1
      <4> QED BY <4>1, <4>2
    <3>4. p + l <= Len(s) /\ at[i] <= Len(t)
      <4>1. at[i] = p + l /\ at[i] <= Len(s) BY <3>2
      <4>2. Len(s) \in Nat OBVIOUS
      <4> HIDE DEF p, l
      <4> QED BY <4>1, <4>2, <3>3, <1>2, <1>3
    <3> HIDE DEF p, l
    <3>5. \A j \in 1 .. l : p + j \in 1 .. Len(s) BY <3>3, <3>4
    <3>6. \A j \in 1 .. l : t[p + j] = s[p + j] BY <3>5, <1>3
    <3> QED BY <3>2, <3>4, <3>6 DEF p, l
  <2> QED BY <2>1, <2>2
<1>6. PlacedUpTo(seqs, at, t, m) BY <1>5 DEF PlacedUpTo
<1> QED BY <1>6 DEF m, t, q

\* FlattenSeq puts sequences one behind the other.
LEMMA FlattenPlaces ==
  ASSUME NEW E, NEW seqs \in Seq(Seq(E))
  PROVE  \E at : LiesAt(seqs, FlattenSeq(seqs), at)
<1> DEFINE n == Len(seqs)
<1>1. n \in Nat /\ \A i \in 1 .. n : seqs[i] \in Seq(E) /\ Len(seqs[i]) \in Nat OBVIOUS
<1>2. CASE n = 0
  <2> DEFINE at == [i \in 0 .. 0 |-> 0]
  <2>1. FlattenSeq(seqs) = <<>>
    <3>1. seqs = <<>> BY <1>2
    <3> QED BY <3>1, FlattenEmpty
  <2>2. LiesAt(seqs, FlattenSeq(seqs), at) BY <1>2, <2>1 DEF LiesAt, PlacedUpTo
  <2> QED BY <2>2
<1>3. CASE n # 0
  <2>1. PICK f \in [1 .. n -> Seq(E)] :
          /\ f[1] = seqs[1]
          /\ \A i \in 2 .. n : f[i] = f[i - 1] \o seqs[i]
          /\ FlattenSeq(seqs) = f[n]
    BY <1>3, FlattenSteps
  <2>2. \A i \in 1 .. n : f[i] \in Seq(E) /\ Len(f[i]) \in Nat
    <3> HIDE DEF n
    <3> QED OBVIOUS
  <2> DEFINE at == [i \in 0 .. n |-> IF i = 0 THEN 0 ELSE Len(f[i])]
             T == {k \in 1 .. n : PlacedUpTo(seqs, at, f[k], k)}
  <2>3. at \in [0 .. n -> Nat] /\ at[0] = 0 /\ \A i \in 1 .. n : at[i] = Len(f[i])
    BY <1>1, <2>2
  <2> HIDE DEF at
  <2>4. 1 <= n => 1 \in T
    <3>1. 1 \in 1 .. n BY <1>1, <1>3
    <3>2. at[1] = Len(seqs[1]) /\ f[1] = seqs[1] /\ Len(seqs[1]) \in Nat BY <1>1, <2>1, <2>3, <3>1
    <3>3. \A i \in 1 .. 1 : i = 1 /\ i - 1 = 0 OBVIOUS
    <3>4. \A j \in 1 .. Len(seqs[1]) : at[0] + j = j BY <2>3
    <3>5. PlacedUpTo(seqs, at, f[1], 1) BY <2>3, <3>2, <3>3, <3>4 DEF PlacedUpTo
    <3> QED BY <3>1, <3>5
  <2>5. \A k \in 1 .. n : k \in T /\ k < n => k + 1 \in T
    <3> SUFFICES ASSUME NEW k \in 1 .. n, k \in T, k < n PROVE k + 1 \in T OBVIOUS
    <3>1. k + 1 \in 2 .. n /\ k + 1 - 1 = k /\ k + 1 \in 1 .. n /\ k \in Nat BY <1>1
    <3>2. f[k + 1] = f[k] \o seqs[k + 1]
      <4> DEFINE m == k + 1
      <4>1. m \in 2 .. n /\ m - 1 = k BY <3>1
      <4> HIDE DEF m, T
      <4>2. f[m] = f[k] \o seqs[m] BY <2>1, <4>1
      <4> QED BY <4>2 DEF m
    <3>3. PlacedUpTo(seqs, at, f[k], k) OBVIOUS
    <3>4. f[k] \in Seq(E) /\ at[k] = Len(f[k]) BY <2>2, <2>3
    <3>5. at[k + 1] = Len(f[k] \o seqs[k + 1]) BY <2>3, <3>1, <3>2
    <3> DEFINE s == f[k]
    <3> HIDE DEF s
    <3>6. PlacedUpTo(seqs, at, s \o seqs[k + 1], k + 1)
      BY <2>3, <3>1, <3>3, <3>4, <3>5, OneMorePlaced DEF s
    <3> QED BY <3>1, <3>2, <3>6 DEF s
  <2> HIDE DEF T
  <2>6. 1 .. n \subseteq T
    <3> HIDE DEF n
    <3> QED BY <1>1, <2>4, <2>5, IntervalInduction
  <2>7. n \in T
    <3>1. n \in 1 .. n BY <1>1, <1>3
    <3> QED BY <3>1, <2>6
  <2>8. at[n] = Len(f[n]) BY <1>1, <1>3, <2>3
  <2>9. LiesAt(seqs, f[n], at) BY <2>3, <2>7, <2>8 DEF LiesAt, T
  <2> QED BY <2>1, <2>9
<1> QED BY <1>2, <1>3

\* A sequence behind one element more.
LEMMA BehindHead ==
  ASSUME NEW E, NEW x \in E, NEW flat \in Seq(E)
  PROVE  /\ <<x>> \o flat \in Seq(E) /\ Len(<<x>> \o flat) = 1 + Len(flat)
         /\ \A j \in 1 .. Len(flat) : (<<x>> \o flat)[1 + j] = flat[j]
<1> DEFINE head == <<x>>
<1>0. head \in Seq(E) OBVIOUS
<1>1. Len(head) = 1 OBVIOUS
<1> HIDE DEF head
<1>2. flat \in Seq(E) /\ Len(flat) \in Nat OBVIOUS
<1> DEFINE whole == head \o flat
<1>3. /\ whole \in Seq(E) /\ Len(whole) = Len(head) + Len(flat)
      /\ \A i \in 1 .. Len(head) : whole[i] = head[i]
      /\ \A j \in 1 .. Len(flat) : whole[Len(head) + j] = flat[j]
  BY <1>0, <1>2, ConcatAt
<1> HIDE DEF whole
<1>4. Len(whole) = 1 + Len(flat) /\ \A j \in 1 .. Len(flat) : whole[1 + j] = flat[j] BY <1>1, <1>3
<1> QED BY <1>3, <1>4 DEF head, whole
==================================================================================

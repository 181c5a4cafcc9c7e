--------------------------- MODULE StarDataset_proofs --------------------------
(* Theorems about StarDataset for every value of its constants. *)
EXTENDS StarDataset, Facts, SequenceTheorems

--------------------------------------------------------------------------------
(* The layout of a file.                                                   *)

LEMMA HeaderSizeType == \A n \in Nat : HeaderSize(n) \in Nat \ {0}
BY SizesAssumption DEF HeaderSize

\* Positions() starts behind the header and leaves no gap.
LEMMA PositionsFacts ==
  ASSUME NEW sizes \in Seq(Nat)
  PROVE  /\ Positions(sizes) \in [1 .. Len(sizes) + 1 -> Nat]
         /\ Positions(sizes)[1] = HeaderSize(Len(sizes))
         /\ \A i \in 1 .. Len(sizes) :
              Positions(sizes)[i + 1] = Positions(sizes)[i] + sizes[i]
<1> DEFINE n == Len(sizes)
           H == HeaderSize(n)
           Fits(f, m) == /\ f[1] = H
                         /\ \A i \in 1 .. m : f[i + 1] = f[i] + sizes[i]
           S == {m \in 0 .. n : \E f \in [1 .. m + 1 -> Nat] : Fits(f, m)}
           Step(f) == [i \in 1 .. n + 1 |-> IF i = 1 THEN H ELSE f[i - 1] + sizes[i - 1]]
<1>0. n \in Nat /\ H \in Nat /\ \A i \in 1 .. n : sizes[i] \in Nat
  <2>1. n \in Nat /\ \A i \in 1 .. n : sizes[i] \in Nat OBVIOUS
  <2> HIDE DEF n
  <2>2. H \in Nat BY <2>1, HeaderSizeType
  <2> QED BY <2>1, <2>2
<1> HIDE DEF n, H
<1>1. 0 .. n \subseteq S
  <2>1. 0 \in S
    <3>1. [i \in 1 .. 1 |-> H] \in [1 .. 0 + 1 -> Nat] BY <1>0
    <3>2. Fits([i \in 1 .. 1 |-> H], 0) OBVIOUS
    <3>3. \E f \in [1 .. 0 + 1 -> Nat] : Fits(f, 0) BY <3>1, <3>2
    <3>4. 0 \in 0 .. n BY <1>0
    <3> QED BY <3>3, <3>4
  <2>2. ASSUME NEW m \in 0 .. n, m \in S, m < n PROVE m + 1 \in S
    <3>1. PICK f \in [1 .. m + 1 -> Nat] : Fits(f, m) BY <2>2
    <3> DEFINE g == [i \in 1 .. (m + 1) + 1 |->
                       IF i = m + 2 THEN f[m + 1] + sizes[m + 1] ELSE f[i]]
    <3>2. m \in Nat /\ m + 1 \in 0 .. n /\ m + 1 \in 1 .. n BY <1>0, <2>2
    <3>3. g \in [1 .. (m + 1) + 1 -> Nat] BY <1>0, <3>2
    <3>4. Fits(g, m + 1) BY <3>1, <3>2, <1>0
    <3> QED BY <3>2, <3>3, <3>4
  <2> HIDE DEF S
  <2> QED BY <1>0, <2>1, <2>2, IntervalInduction
<1>2. PICK f \in [1 .. n + 1 -> Nat] : Fits(f, n)
  <2>1. n \in S BY <1>0, <1>1
  <2> QED BY <2>1
<1>3. f = Step(f)
  <2>1. ASSUME NEW i \in 1 .. n + 1 PROVE f[i] = Step(f)[i]
    <3>1. CASE i = 1 BY <3>1, <1>2
    <3>2. CASE i # 1
      <4>1. i - 1 \in 1 .. n /\ (i - 1) + 1 = i BY <1>0, <3>2
      <4> QED BY <1>2, <3>2, <4>1
    <3> QED BY <3>1, <3>2
  <2>2. f = [i \in 1 .. n + 1 |-> f[i]] BY <1>2
  <2> QED BY <2>1, <2>2
<1>4. Positions(sizes) = Step(Positions(sizes)) BY <1>3 DEF Positions, n, H
<1> DEFINE P == Positions(sizes)
<1>5. DOMAIN P = 1 .. n + 1 /\ P[1] = H BY <1>0, <1>4
<1>6. \A i \in 1 .. n : P[i + 1] = P[i] + sizes[i] BY <1>0, <1>4
<1>7. \A i \in 1 .. n + 1 : P[i] \in Nat
  <2> DEFINE N == {i \in 1 .. n + 1 : P[i] \in Nat}
  <2> HIDE DEF P
  <2>1. 1 \in N BY <1>0, <1>5
  <2>2. ASSUME NEW i \in 1 .. n + 1, i \in N, i < n + 1 PROVE i + 1 \in N
    <3>1. i \in 1 .. n /\ i + 1 \in 1 .. n + 1 BY <1>0, <2>2
    <3>2. P[i] \in Nat /\ sizes[i] \in Nat BY <1>0, <2>2, <3>1
    <3> QED BY <1>6, <3>1, <3>2
  <2>3. n + 1 \in Nat BY <1>0
  <2> HIDE DEF N
  <2>4. 1 .. n + 1 \subseteq N BY <2>1, <2>2, <2>3, IntervalInduction
  <2> QED BY <2>4 DEF N
<1>8. P = [i \in 1 .. n + 1 |-> P[i]] BY <1>4
<1> QED BY <1>5, <1>6, <1>7, <1>8 DEF n, H

--------------------------------------------------------------------------------
(* What the helpers return.                                                *)

\* A list with its places numbered from one.
Listed(s) == Len(s) \in Nat /\ DOMAIN s = 1 .. Len(s)

\* Lookup() finds the last entry of a key.
LastOf(s, k, i) == s[i].key = k /\ \A j \in DOMAIN s : s[j].key = k => j <= i

LEMMA LookupLast ==
  ASSUME NEW s, Listed(s), NEW k, HasKey(s, k)
  PROVE  Lookup(s, k) \in DOMAIN s /\ LastOf(s, k, Lookup(s, k))
<1> DEFINE n == Len(s)
           Some(m) == \E i \in 1 .. m : s[i].key = k
           Latest(m) == \E i \in 1 .. m : s[i].key = k /\ \A j \in 1 .. m : s[j].key = k => j <= i
           S == {m \in 0 .. n : Some(m) => Latest(m)}
<1>1. n \in Nat /\ DOMAIN s = 1 .. n BY DEF Listed
<1> HIDE DEF n
<1>2. 0 \in S BY <1>1
<1>3. ASSUME NEW m \in 0 .. n, m \in S, m < n PROVE m + 1 \in S
  <2>1. m \in Nat /\ m + 1 \in 0 .. n /\ m + 1 \in 1 .. m + 1 BY <1>1, <1>3
  <2>2. CASE s[m + 1].key = k
    <3>1. \A j \in 1 .. m + 1 : j <= m + 1 BY <2>1
    <3> QED BY <2>1, <2>2, <3>1
  <2>3. CASE s[m + 1].key # k
    <3>1. \A j \in 1 .. m + 1 : s[j].key = k => j \in 1 .. m BY <2>1, <2>3
    <3>2. Some(m + 1) => Some(m) BY <3>1
    <3>3. 1 .. m \subseteq 1 .. m + 1 BY <2>1
    <3>4. Latest(m) => Latest(m + 1) BY <3>1, <3>3
    <3> QED BY <1>3, <2>1, <3>2, <3>4
  <2> QED BY <2>2, <2>3
<1> HIDE DEF S
<1>4. n \in S
  <2>1. 0 .. n \subseteq S BY <1>1, <1>2, <1>3, IntervalInduction
  <2> QED BY <1>1, <2>1
<1>5. \E i \in DOMAIN s : s[i].key = k /\ \A j \in DOMAIN s : s[j].key = k => j <= i
  BY <1>1, <1>4 DEF S, HasKey
<1> QED BY <1>5 DEF Lookup, LastOf

LEMMA LookupFinds ==
  ASSUME NEW s, Listed(s), NEW k, HasKey(s, k)
  PROVE  Lookup(s, k) \in DOMAIN s /\ s[Lookup(s, k)].key = k
BY LookupLast DEF LastOf

\* Decoding yields an array, wrong bytes, or nothing.
LEMMA ReadArrayType ==
  ASSUME NEW image \in Image, NEW pos \in Nat, NEW size \in Nat,
         NEW codec, NEW blocks \in BOOLEAN
  PROVE  ReadArray(image, pos, size, codec, blocks) \in Data \cup {Absent}
<1> DEFINE at == At(image, pos, size)
<1>1. at \subseteq Stored BY DEF At, Image
<1>2. \A s \in at : s.bytes.val \in Data BY <1>1 DEF Stored, Bytes
<1>3. (\E s \in at : s.bytes.codec = codec) =>
        (CHOOSE s \in at : s.bytes.codec = codec) \in at
  OBVIOUS
<1>4. Empty \in Data /\ Junk \in Data BY NamesAssumption DEF Data
<1> HIDE DEF at
<1>5. ReadArray(image, pos, size, codec, blocks) \in
        {Absent, Empty, Junk, (CHOOSE s \in at : s.bytes.codec = codec).bytes.val}
  BY DEF ReadArray, at
<1>6. CASE \E s \in at : s.bytes.codec = codec
  BY <1>2, <1>3, <1>4, <1>5, <1>6
<1>7. CASE ~(\E s \in at : s.bytes.codec = codec)
  BY <1>4, <1>7 DEF ReadArray, at
<1> QED BY <1>6, <1>7

LEMMA LoadIndexType ==
  ASSUME NEW image \in Image
  PROVE  /\ LoadIndex(image) \in Seq(Entry)
         /\ DOMAIN LoadIndex(image) = DOMAIN image.stored
         /\ \A i \in DOMAIN image.stored :
              LoadIndex(image)[i].key = image.stored[i].key /\ ~LoadIndex(image)[i].dirty
<1>1. image.stored \in Seq(Stored) BY DEF Image
<1>2. ASSUME NEW i \in DOMAIN image.stored PROVE LoadIndex(image)[i] \in Entry
  <2>1. image.stored[i] \in Stored BY <1>1
  <2> QED BY <2>1 DEF LoadIndex, Entry, Stored
<1>3. DOMAIN LoadIndex(image) = 1 .. Len(image.stored) /\ Len(image.stored) \in Nat
  BY <1>1 DEF LoadIndex
<1>4. LoadIndex(image) \in [1 .. Len(image.stored) -> Entry]
  BY <1>1, <1>2, <1>3 DEF LoadIndex
<1>5. LoadIndex(image) \in Seq(Entry) BY <1>3, <1>4
<1> QED BY <1>5 DEF LoadIndex

LEMMA CompressedType ==
  ASSUME NEW e \in Entry, e.dirty => e.data # Unloaded,
         NEW image \in Image, m_config \in Codecs
  PROVE  Compressed(e, image) \in [bytes : Bytes, size : Nat, blocks : BOOLEAN]
<1>1. JunkBytes \in Bytes BY NamesAssumption DEF JunkBytes, Bytes, Data
<1>2. CASE e.dirty
  <2>1. e.data \in Data /\ e.size \in Nat BY <1>2 DEF Entry
  <2>2. Weight[e.data][m_config] \in Nat BY <2>1, SizesAssumption
  <2> QED BY <1>1, <1>2, <2>1, <2>2 DEF Compressed, Bytes
<1>3. CASE ~e.dirty
  <2> DEFINE at == IF e.pos + e.size <= image.length THEN At(image, e.pos, e.size) ELSE {}
  <2>1. at \subseteq Stored BY DEF At, Image
  <2>2. at # {} => (CHOOSE s \in at : TRUE).bytes \in Bytes BY <2>1 DEF Stored
  <2>3. e.size \in Nat /\ e.blocks \in BOOLEAN BY DEF Entry
  <2> HIDE DEF at
  <2>4. Compressed(e, image) =
          [bytes |-> IF at = {} THEN JunkBytes ELSE (CHOOSE s \in at : TRUE).bytes,
           size |-> e.size, blocks |-> e.blocks]
    BY <1>3 DEF Compressed, at
  <2> QED BY <1>1, <2>2, <2>3, <2>4
<1> QED BY <1>2, <1>3

--------------------------------------------------------------------------------
(* What flush_internal() makes of good entries.                            *)

\* No file is ever cut within its header.
HeadersWhole == {"partial", "torn"} \cap Perils = {}

KeysOnce(s) == \A i, j \in DOMAIN s : s[i].key = s[j].key => i = j

\* Entries that can be flushed: typed, loaded when dirty, one for each key unless
\* they may come from a header that was cut.
GoodEntries(es) ==
  /\ es \in Seq(Entry)
  /\ \A i \in DOMAIN es : es[i].dirty => es[i].data # Unloaded
  /\ HeadersWhole => KeysOnce(es)

GoodImage(image) ==
  /\ image \in Image /\ LaidOut(image)
  /\ HeadersWhole => HeaderWhole(image) /\ KeysOnce(image.stored)

GoodDisk(d) == d \in [Paths -> {Absent} \cup {image \in Image : GoodImage(image)}]

LEMMA ListedIn ==
  /\ \A es : GoodEntries(es) => Listed(es)
  /\ \A image \in Image : Listed(image.stored)
BY DEF GoodEntries, Image, Listed

LEMMA SourceImageType ==
  ASSUME GoodDisk(disk), NEW path \in Paths
  PROVE  SourceImage(path) \in Image
<1>1. NoImage \in Image BY DEF NoImage, Image
<1> QED BY <1>1 DEF SourceImage, GoodDisk

\* The image is typed and laid out, and lists the entries in their order.
LEMMA ImageOfGood ==
  ASSUME GoodDisk(disk), m_config \in Codecs, NEW path \in Paths,
         NEW es, GoodEntries(es)
  PROVE  /\ GoodImage(ImageOf(es, path))
         /\ DOMAIN ImageOf(es, path).stored = DOMAIN es
         /\ \A i \in DOMAIN es :
              LET s == ImageOf(es, path).stored[i]
              IN s.key = es[i].key /\ s.pos + s.size <= ImageOf(es, path).length
         /\ HeaderWhole(ImageOf(es, path))
<1> DEFINE n == Len(es)
           out == [i \in DOMAIN es |-> Compressed(es[i], SourceImage(path))]
           sizes == [i \in DOMAIN es |-> out[i].size]
           pos == Positions(sizes)
           st == [i \in DOMAIN es |->
                    [key |-> es[i].key, pos |-> pos[i], size |-> out[i].size,
                     codec |-> es[i].codec, blocks |-> out[i].blocks,
                     bytes |-> out[i].bytes]]
<1>1. DOMAIN es = 1 .. n /\ n \in Nat /\ \A i \in 1 .. n : es[i] \in Entry
  BY DEF GoodEntries
<1>2. \A i \in 1 .. n : out[i] \in [bytes : Bytes, size : Nat, blocks : BOOLEAN]
  BY <1>1, SourceImageType, CompressedType DEF GoodEntries
<1>3. ImageOf(es, path) = [stored |-> st, length |-> pos[n + 1]]
  BY DEF ImageOf
<1> HIDE DEF out
<1>4. sizes \in Seq(Nat) /\ Len(sizes) = n /\ \A i \in 1 .. n : sizes[i] = out[i].size
  <2>1. sizes \in [1 .. n -> Nat] BY <1>1, <1>2
  <2> QED BY <1>1, <2>1
<1>a. \A i \in 1 .. n : sizes[i] \in Nat BY <1>2, <1>4
<1> HIDE DEF sizes
<1>5. /\ pos \in [1 .. n + 1 -> Nat]
      /\ pos[1] = HeaderSize(n)
      /\ \A i \in 1 .. n : pos[i + 1] = pos[i] + sizes[i]
  BY <1>4, PositionsFacts
<1> HIDE DEF pos, n
<1>6. st \in Seq(Stored) /\ Len(st) = n /\ DOMAIN st = 1 .. n
  <2>1. ASSUME NEW i \in 1 .. n PROVE st[i] \in Stored
    BY <1>1, <1>2, <1>5, SMTT(30) DEF Stored, Entry
  <2>2. st \in [1 .. n -> Stored] BY <1>1, <2>1
  <2> QED BY <1>1, <2>2
<1>7. pos[n + 1] \in Nat BY <1>1, <1>5
<1>8. \A i \in 1 .. n : \A j \in i .. n + 1 : i < j => pos[i] + sizes[i] <= pos[j]
  <2> SUFFICES ASSUME NEW i \in 1 .. n
               PROVE  \A j \in i + 1 .. n + 1 : pos[i] + sizes[i] <= pos[j]
    BY <1>1
  <2> DEFINE S == {j \in i + 1 .. n + 1 : pos[i] + sizes[i] <= pos[j]}
  <2>1. i + 1 \in S
    <3>1. pos[i + 1] = pos[i] + sizes[i] /\ pos[i + 1] \in Nat BY <1>1, <1>5
    <3> QED BY <1>1, <3>1
  <2>2. ASSUME NEW j \in i + 1 .. n + 1, j \in S, j < n + 1 PROVE j + 1 \in S
    <3>1. j \in 1 .. n /\ j + 1 \in i + 1 .. n + 1 /\ j + 1 \in 1 .. n + 1 BY <1>1, <2>2
    <3>2. pos[j + 1] = pos[j] + sizes[j] BY <1>5, <3>1
    <3>3. sizes[j] \in Nat /\ pos[j] \in Nat /\ pos[j + 1] \in Nat BY <1>1, <1>a, <1>5, <3>1
    <3>4. pos[i] \in Nat /\ sizes[i] \in Nat BY <1>1, <1>2, <1>4, <1>5
    <3> QED BY <2>2, <3>1, <3>2, <3>3, <3>4
  <2>3. i + 1 \in Nat /\ n + 1 \in Nat BY <1>1
  <2> HIDE DEF S
  <2>4. i + 1 .. n + 1 \subseteq S BY <2>1, <2>2, <2>3, IntervalInduction
  <2> QED BY <2>4 DEF S
<1>9. \A j \in 1 .. n + 1 : HeaderSize(n) <= pos[j]
  <2> SUFFICES ASSUME NEW j \in 1 .. n + 1 PROVE HeaderSize(n) <= pos[j] OBVIOUS
  <2>1. CASE j = 1 BY <1>1, <1>5, <2>1
  <2>2. CASE j # 1
    <3>1. 1 \in 1 .. n /\ j \in 1 .. n + 1 /\ 1 < j BY <1>1, <2>2
    <3>2. pos[1] + sizes[1] <= pos[j] BY <1>8, <3>1
    <3>3. pos[1] \in Nat /\ pos[j] \in Nat /\ sizes[1] \in Nat BY <1>1, <1>a, <1>5, <3>1
    <3> QED BY <1>5, <3>2, <3>3
  <2> QED BY <2>1, <2>2
<1>10. ASSUME NEW i \in 1 .. n, NEW j \in 1 .. n
       PROVE  /\ HeaderSize(n) <= st[i].pos
              /\ i < j => st[i].pos + st[i].size <= st[j].pos
  <2>1. st[i].pos = pos[i] /\ st[j].pos = pos[j] /\ st[i].size = sizes[i]
    BY <1>1, <1>4
  <2>2. HeaderSize(n) <= pos[i] BY <1>1, <1>9
  <2>3. i < j => pos[i] + sizes[i] <= pos[j] BY <1>1, <1>8
  <2> QED BY <2>1, <2>2, <2>3
<1>b. \A i \in 1 .. n : st[i].pos + st[i].size <= pos[n + 1]
  <2>1. \A i \in 1 .. n : n + 1 \in i .. n + 1 /\ i < n + 1
    BY <1>1
  <2>2. \A i \in 1 .. n : pos[i] + sizes[i] <= pos[n + 1] BY <1>8, <2>1
  <2>3. \A i \in 1 .. n : st[i].pos = pos[i] /\ st[i].size = sizes[i] BY <1>1, <1>4
  <2> HIDE DEF st
  <2> QED BY <2>2, <2>3
<1> HIDE DEF st
<1>11. ImageOf(es, path) \in Image BY <1>3, <1>6, <1>7 DEF Image
<1>12. LaidOut(ImageOf(es, path)) BY <1>3, <1>6, <1>10 DEF LaidOut
<1>13. \A i \in DOMAIN es :
         /\ ImageOf(es, path).stored[i].key = es[i].key
         /\ ImageOf(es, path).stored[i].pos + ImageOf(es, path).stored[i].size
              <= ImageOf(es, path).length
  <2>1. \A i \in DOMAIN es : st[i].key = es[i].key BY DEF st
  <2> QED BY <1>1, <1>3, <1>b, <2>1
<1>14. HeaderSize(n) <= pos[n + 1] BY <1>1, <1>9
<1>15. DOMAIN ImageOf(es, path).stored = DOMAIN es BY <1>1, <1>3, <1>6
<1>16. HeadersWhole => KeysOnce(ImageOf(es, path).stored)
  BY <1>13, <1>15 DEF GoodEntries, KeysOnce
<1>17. HeaderWhole(ImageOf(es, path)) BY <1>3, <1>6, <1>14 DEF HeaderWhole
<1> QED BY <1>11, <1>12, <1>13, <1>15, <1>16, <1>17 DEF GoodImage

\* The same keys at the same places are as few.
LEMMA SameKeysOnce ==
  ASSUME NEW s, NEW t, KeysOnce(s), DOMAIN t = DOMAIN s, \A i \in DOMAIN s : t[i].key = s[i].key
  PROVE  KeysOnce(t)
BY DEF KeysOnce

LEMMA RelaidGood ==
  ASSUME GoodDisk(disk), m_config \in Codecs, NEW path \in Paths,
         NEW es, GoodEntries(es)
  PROVE  GoodEntries(Relaid(es, path)) /\ GoodEntries(Cleaned(Relaid(es, path)))
<1> DEFINE image == ImageOf(es, path)
           new == Relaid(es, path)
<1>1. /\ image \in Image
      /\ DOMAIN image.stored = DOMAIN es
  BY ImageOfGood DEF GoodImage
<1>2. /\ DOMAIN es = 1 .. Len(es) /\ Len(es) \in Nat
      /\ \A i \in DOMAIN es : es[i] \in Entry
  BY DEF GoodEntries
<1> HIDE DEF image
<1>3. new = [i \in DOMAIN es |-> [es[i] EXCEPT !.pos = image.stored[i].pos,
                                               !.size = image.stored[i].size,
                                               !.blocks = image.stored[i].blocks]]
  BY DEF Relaid, image
<1>4. ASSUME NEW i \in DOMAIN es
      PROVE  /\ new[i] \in Entry
             /\ new[i].key = es[i].key /\ new[i].dirty = es[i].dirty
             /\ new[i].data = es[i].data
  <2>1. image.stored[i] \in Stored BY <1>1 DEF Image
  <2> DEFINE x == image.stored[i].pos
             y == image.stored[i].size
             z == image.stored[i].blocks
  <2>2. x \in Nat /\ y \in Nat /\ z \in BOOLEAN BY <2>1 DEF Stored
  <2>3. new[i] = [es[i] EXCEPT !.pos = x, !.size = y, !.blocks = z] BY <1>3
  <2>4. es[i] \in Entry BY <1>2
  <2> HIDE DEF x, y, z, new
  <2> QED BY <2>2, <2>3, <2>4 DEF Entry
<1> HIDE DEF new
<1>5. DOMAIN new = DOMAIN es /\ new \in [1 .. Len(es) -> Entry] BY <1>2, <1>3, <1>4
<1>6. new \in Seq(Entry) BY <1>2, <1>5
<1>7. GoodEntries(new)
  <2>1. HeadersWhole => KeysOnce(new) BY <1>4, <1>5, SameKeysOnce DEF GoodEntries
  <2>2. \A i \in DOMAIN new : new[i].dirty => new[i].data # Unloaded
    BY <1>4, <1>5 DEF GoodEntries
  <2> QED BY <1>6, <2>1, <2>2 DEF GoodEntries
<1> DEFINE clean == Cleaned(new)
<1>8. clean = [i \in DOMAIN new |-> [new[i] EXCEPT !.dirty = FALSE]] BY DEF Cleaned
<1>9. ASSUME NEW i \in DOMAIN es
      PROVE  clean[i] \in Entry /\ clean[i].key = es[i].key /\ ~clean[i].dirty
  <2>1. clean[i] = [new[i] EXCEPT !.dirty = FALSE] BY <1>5, <1>8
  <2>2. new[i] \in Entry /\ new[i].key = es[i].key BY <1>4
  <2> HIDE DEF clean
  <2> QED BY <2>1, <2>2 DEF Entry
<1> HIDE DEF clean
<1>10. DOMAIN clean = DOMAIN es /\ clean \in [1 .. Len(es) -> Entry]
  BY <1>2, <1>5, <1>8, <1>9
<1>11. clean \in Seq(Entry) BY <1>2, <1>10
<1>12. GoodEntries(clean)
  <2>1. HeadersWhole => KeysOnce(clean) BY <1>9, <1>10, SameKeysOnce DEF GoodEntries
  <2>2. \A i \in DOMAIN clean : ~clean[i].dirty BY <1>9, <1>10
  <2> QED BY <1>11, <2>1, <2>2 DEF GoodEntries
<1> QED BY <1>7, <1>12 DEF new, clean

\* A cut does not move anything.
LEMMA CutGood ==
  ASSUME NEW image, GoodImage(image), NEW cut \in Cuts(image), ~HeadersWhole
  PROVE  GoodImage([image EXCEPT !.length = cut])
<1>1. image \in Image BY DEF GoodImage
<1>2. cut \in Nat
  <2>1. Len(image.stored) \in Nat /\ \A i \in DOMAIN image.stored : image.stored[i] \in Stored
    BY <1>1 DEF Image
  <2>2. HeaderSize(Len(image.stored)) \in Nat BY <2>1, HeaderSizeType
  <2> QED BY <2>1, <2>2 DEF Cuts, Stored
<1>3. [image EXCEPT !.length = cut] \in Image BY <1>1, <1>2 DEF Image
<1>4. [image EXCEPT !.length = cut].stored = image.stored BY <1>1 DEF Image
<1> QED BY <1>3, <1>4 DEF GoodImage, LaidOut

\* Whatever flush_internal() ends with is good.
LEMMA FlushOutcomeGood ==
  ASSUME GoodDisk(disk), m_config \in Codecs, NEW path \in Paths,
         NEW es, GoodEntries(es), NEW o \in FlushOutcomes(es, path)
  PROVE  GoodDisk(o.disk) /\ GoodEntries(o.entries) /\ o.flushed \in BOOLEAN
<1> DEFINE image == ImageOf(es, path)
           done(written) == [disk |-> [disk EXCEPT ![path] = written],
                             entries |-> Cleaned(Relaid(es, path)), flushed |-> TRUE]
<1>1. GoodImage(image) BY ImageOfGood
<1>2. GoodEntries(Relaid(es, path)) /\ GoodEntries(Cleaned(Relaid(es, path)))
  BY RelaidGood
<1>3. \/ o = done(image)
      \/ o = [disk |-> disk, entries |-> Relaid(es, path), flushed |-> FALSE]
      \/ ~HeadersWhole /\ \E cut \in Cuts(image) : o = done([image EXCEPT !.length = cut])
  BY DEF FlushOutcomes, HeadersWhole
<1> HIDE DEF image
<1>4. ASSUME NEW written, GoodImage(written), o = done(written)
      PROVE  GoodDisk(o.disk) /\ GoodEntries(o.entries) /\ o.flushed \in BOOLEAN
  BY <1>2, <1>4 DEF GoodDisk, GoodImage
<1>5. CASE o = done(image) BY <1>1, <1>4, <1>5
<1>6. CASE o = [disk |-> disk, entries |-> Relaid(es, path), flushed |-> FALSE]
  BY <1>2, <1>6
<1>7. CASE ~HeadersWhole /\ \E cut \in Cuts(image) : o = done([image EXCEPT !.length = cut])
  BY <1>1, <1>4, <1>7, CutGood
<1> QED BY <1>3, <1>5, <1>6, <1>7

--------------------------------------------------------------------------------
(* The inductive invariant.                                                *)

\* The files and the handle are typed; every file is laid out; every entry is
\* ready to be flushed.  WellLaidOut is needed because open() turns any file into
\* entries, and OneEntryPerKey then rests on the keys of the file, whose header
\* must be whole.
IInv ==
  /\ GoodDisk(disk)
  /\ GoodEntries(entries)
  /\ isOpen \in BOOLEAN
  /\ m_filename \in Paths
  /\ m_file_mode \in {ReadOnly, ReadWrite}
  /\ m_config \in Codecs
  /\ m_flushed \in BOOLEAN

LEMMA IInvImplies ==
  ASSUME IInv
  PROVE  TypeOK /\ DirtyIsLoaded /\ OneEntryPerKey /\ WellLaidOut
<1>1. /\ disk \in [Paths -> {Absent} \cup Image]
      /\ \A p \in Paths : disk[p] # Absent => LaidOut(disk[p])
  BY DEF IInv, GoodDisk, GoodImage
<1> QED BY <1>1 DEF IInv, GoodEntries, TypeOK, DirtyIsLoaded, OneEntryPerKey, WellLaidOut,
                    HeadersWhole, KeysOnce

LEMMA NoEntries == GoodEntries(<<>>)
BY DEF GoodEntries, KeysOnce

LEMMA InitGood ==
  ASSUME Init PROVE IInv
<1>1. GoodDisk(disk) BY DEF Init, GoodDisk
<1>2. GoodEntries(entries) BY NoEntries DEF Init
<1> QED BY <1>1, <1>2, NamesAssumption DEF Init, IInv, Files

\* The index of a good file becomes good entries.
LEMMA LoadIndexGood ==
  ASSUME NEW image, GoodImage(image)
  PROVE  GoodEntries(LoadIndex(image))
<1>1. image \in Image BY DEF GoodImage
<1>2. /\ LoadIndex(image) \in Seq(Entry)
      /\ DOMAIN LoadIndex(image) = DOMAIN image.stored
      /\ \A i \in DOMAIN image.stored :
           LoadIndex(image)[i].key = image.stored[i].key /\ ~LoadIndex(image)[i].dirty
  BY <1>1, LoadIndexType
<1>3. HeadersWhole => KeysOnce(LoadIndex(image))
  BY <1>2 DEF GoodImage, KeysOnce
<1> QED BY <1>2, <1>3 DEF GoodEntries

\* So does what loadIndex() makes of a file that is cut within its header.
LEMMA MisreadGood ==
  ASSUME NEW image, GoodImage(image), ~HeadersWhole, ~HeaderWhole(image),
         NEW index \in Misread(image)
  PROVE  GoodEntries(index) /\ \A i \in DOMAIN index : ~index[i].dirty
<1> DEFINE load == LoadIndex(image)
           size(i) == HeaderSize(i)
<1>1. /\ image \in Image /\ image.length \in Nat
      /\ Len(image.stored) \in Nat /\ DOMAIN image.stored = 1 .. Len(image.stored)
  BY DEF GoodImage, Image
<1>2. /\ load \in Seq(Entry) /\ DOMAIN load = DOMAIN image.stored
      /\ \A i \in DOMAIN load : ~load[i].dirty
  BY <1>1, LoadIndexType
<1> HIDE DEF load
<1>3. PICK n \in Nat : \E rest \in [1 .. n -> Misreads] :
        index = [i \in 1 .. n |-> IF size(i) <= image.length THEN load[i] ELSE rest[i]]
  BY <1>1, MisreadAssumption DEF Misread, load
<1>a. PICK rest \in [1 .. n -> Misreads] :
        index = [i \in 1 .. n |-> IF size(i) <= image.length THEN load[i] ELSE rest[i]]
  BY <1>3
<1>4. ASSUME NEW i \in 1 .. n, size(i) <= image.length PROVE i \in DOMAIN load
  <2>0. HeaderSize(Len(image.stored)) \in Nat BY <1>1, HeaderSizeType
  <2>1. size(Len(image.stored)) > image.length BY <1>1, <2>0 DEF HeaderWhole
  <2>2. CASE i <= Len(image.stored) BY <1>1, <1>2, <2>2
  <2>3. CASE Len(image.stored) < i
    <3> DEFINE l == Len(image.stored)
               x == l * EntryBytes
               y == (i - l) * EntryBytes
    <3>1. i - l \in Nat /\ EntryBytes \in Nat /\ HeaderBytes \in Nat /\ l \in Nat
      BY <1>1, <2>3, SizesAssumption
    <3>2. x \in Nat /\ y \in Nat BY <3>1
    <3>3. i * EntryBytes = x + y BY <3>1
    <3>4. size(i) = HeaderBytes + (x + y) /\ size(l) = HeaderBytes + x
      BY <3>3 DEF HeaderSize
    <3> HIDE DEF x, y, l, size
    <3> QED BY <1>1, <1>4, <2>1, <3>1, <3>2, <3>4 DEF l
  <2> QED BY <1>1, <2>2, <2>3
<1> HIDE DEF size
<1>5. ASSUME NEW i \in 1 .. n PROVE index[i] \in Entry /\ ~index[i].dirty
  <2>1. rest[i] \in Entry /\ ~rest[i].dirty BY MisreadAssumption
  <2>2. size(i) <= image.length => load[i] \in Entry /\ ~load[i].dirty BY <1>2, <1>4
  <2> QED BY <1>a, <2>1, <2>2
<1>6. DOMAIN index = 1 .. n /\ index \in [1 .. n -> Entry] BY <1>a, <1>5
<1>7. index \in Seq(Entry) BY <1>6
<1> QED BY <1>5, <1>6, <1>7 DEF GoodEntries

\* Whatever open() finds, its entries are good and clean.
LEMMA IndexesGood ==
  ASSUME NEW image, image = Absent \/ GoodImage(image), NEW index \in Indexes(image)
  PROVE  GoodEntries(index) /\ \A i \in DOMAIN index : ~index[i].dirty
<1>1. CASE image = Absent
  <2>1. index = <<>> BY <1>1 DEF Indexes
  <2>2. DOMAIN index = {} BY <2>1
  <2> QED BY <2>1, <2>2, NoEntries
<1>2. CASE image # Absent /\ HeaderWhole(image)
  <2>1. index = LoadIndex(image) /\ image \in Image BY <1>2 DEF Indexes, GoodImage
  <2> QED BY <1>2, <2>1, LoadIndexGood, LoadIndexType
<1>3. CASE image # Absent /\ ~HeaderWhole(image)
  <2>1. index \in Misread(image) BY <1>3 DEF Indexes
  <2>2. ~HeadersWhole BY <1>3 DEF GoodImage
  <2> QED BY <1>3, <2>1, <2>2, MisreadGood
<1> QED BY <1>1, <1>2, <1>3

\* As long as headers are whole it is the index that was written.
LEMMA IndexIs ==
  ASSUME NEW image, image = Absent \/ GoodImage(image), HeadersWhole,
         NEW index \in Indexes(image)
  PROVE  index = IF image = Absent THEN <<>> ELSE LoadIndex(image)
BY DEF Indexes, GoodImage

\* What load_entry() finds is an array, or nothing.
LEMMA OnDiskType ==
  ASSUME IInv, NEW e \in Entry
  PROVE  OnDisk(e) \in Data \cup {Absent}
<1>1. disk[m_filename] \in {Absent} \cup Image BY DEF IInv, GoodDisk
<1>2. e.pos \in Nat /\ e.size \in Nat /\ e.blocks \in BOOLEAN BY DEF Entry
<1>3. CASE disk[m_filename] = Absent BY <1>3 DEF OnDisk
<1>4. CASE disk[m_filename] # Absent
  <2>1. disk[m_filename] \in Image BY <1>1, <1>4
  <2> QED BY <1>2, <1>4, <2>1, ReadArrayType DEF OnDisk
<1> QED BY <1>3, <1>4

\* Replacing an entry by one of the same key that is loaded, or not dirty.
LEMMA ReplaceGood ==
  ASSUME NEW es, GoodEntries(es), NEW i \in DOMAIN es, NEW e \in Entry,
         e.key = es[i].key, e.dirty => e.data # Unloaded
  PROVE  GoodEntries([es EXCEPT ![i] = e])
<1> DEFINE new == [es EXCEPT ![i] = e]
<1>1. es \in Seq(Entry) BY DEF GoodEntries
<1>2. new \in Seq(Entry) /\ DOMAIN new = DOMAIN es BY <1>1
<1>3. \A j \in DOMAIN es : new[j].key = es[j].key BY <1>1
<1>4. \A j \in DOMAIN es : new[j].dirty => new[j].data # Unloaded
  BY <1>1 DEF GoodEntries
<1> HIDE DEF new
<1>5. HeadersWhole => KeysOnce(new) BY <1>2, <1>3, SameKeysOnce DEF GoodEntries
<1> QED BY <1>2, <1>4, <1>5 DEF GoodEntries, new

LEMMA StagedGood ==
  ASSUME IInv, NEW n \in 0 .. Len(entries), \A i \in 1 .. n : ~MustStop(i)
  PROVE  GoodEntries(Staged(n))
<1>1. /\ entries \in Seq(Entry)
      /\ DOMAIN entries = 1 .. Len(entries) /\ Len(entries) \in Nat
  BY DEF IInv, GoodEntries
<1>2. ASSUME NEW i \in DOMAIN entries
      PROVE  /\ Staged(n)[i] \in Entry
             /\ Staged(n)[i].key = entries[i].key
             /\ Staged(n)[i].dirty => Staged(n)[i].data # Unloaded
  <2>1. entries[i] \in Entry /\ (entries[i].dirty => entries[i].data # Unloaded)
    BY <1>1 DEF IInv, GoodEntries
  <2>2. CASE i > n BY <2>1, <2>2 DEF Staged
  <2>3. CASE ~(i > n)
    <3> DEFINE d == IF entries[i].data = Unloaded THEN OnDisk(entries[i])
                    ELSE entries[i].data
    <3>1. ~MustStop(i) BY <1>1, <2>3
    <3>2. OnDisk(entries[i]) \in Data \cup {Absent} BY <2>1, OnDiskType
    <3>3. d \in Data
      BY <2>1, <3>1, <3>2 DEF MustStop, Entry
    <3>4. Staged(n)[i] = [entries[i] EXCEPT !.dirty = TRUE, !.data = d]
      BY <2>1, <2>3 DEF Staged, Entry
    <3>5. d # Unloaded BY <3>3, NamesAssumption
    <3> HIDE DEF d
    <3> QED BY <2>1, <3>3, <3>4, <3>5 DEF Entry
  <2> QED BY <2>2, <2>3
<1>3. DOMAIN Staged(n) = 1 .. Len(entries) /\ Staged(n) \in [1 .. Len(entries) -> Entry]
  BY <1>1, <1>2 DEF Staged
<1>4. Staged(n) \in Seq(Entry) BY <1>1, <1>3
<1>5. HeadersWhole => KeysOnce(Staged(n))
  BY <1>1, <1>2, <1>3, SameKeysOnce DEF GoodEntries, IInv
<1> QED BY <1>1, <1>2, <1>3, <1>4, <1>5 DEF GoodEntries

--------------------------------------------------------------------------------
(* Every action keeps the invariant.                                       *)

LEMMA ConstructGood ==
  ASSUME NEW index, GoodEntries(index),
         NEW path \in Paths, NEW mode \in {ReadOnly, ReadWrite}, NEW codec \in Codecs,
         Construct(index, path, mode, codec), GoodDisk(disk')
  PROVE  IInv'
BY DEF Construct, IInv

LEMMA PutGood ==
  ASSUME IInv, NEW k \in Keys, NEW v \in Vals, Put(k, v)
  PROVE  IInv'
<1>1. /\ entries \in Seq(Entry) /\ GoodEntries(entries)
      /\ DOMAIN entries = 1 .. Len(entries) /\ Len(entries) \in Nat
  BY DEF IInv, GoodEntries
<1>2. v \in Data /\ v # Unloaded /\ m_config \in Codecs
  BY NamesAssumption DEF Data, IInv
<1>3. ASSUME NEW e \in Entry
      PROVE  /\ PutEntry(e, v) \in Entry
             /\ PutEntry(e, v).key = e.key /\ PutEntry(e, v).data = v
  BY <1>2 DEF PutEntry, Entry
<1>4. NewEntry(k) \in Entry /\ NewEntry(k).key = k BY <1>2 DEF NewEntry, Entry
<1>5. GoodEntries(entries')
  <2>1. CASE HasKey(entries, k)
    <3> DEFINE i == Lookup(entries, k)
    <3>1. i \in DOMAIN entries BY <1>1, <2>1, LookupFinds, ListedIn
    <3>2. entries' = [entries EXCEPT ![i] = PutEntry(entries[i], v)]
      BY <2>1 DEF Put
    <3> HIDE DEF i
    <3>3. entries[i] \in Entry BY <1>1, <3>1
    <3> QED BY <1>1, <1>2, <1>3, <3>1, <3>2, <3>3, ReplaceGood
  <2>2. CASE ~HasKey(entries, k)
    <3> DEFINE e == PutEntry(NewEntry(k), v)
    <3>1. e \in Entry /\ e.key = k /\ e.data # Unloaded BY <1>2, <1>3, <1>4
    <3>2. entries' = Append(entries, e) BY <2>2 DEF Put
    <3> HIDE DEF e
    <3>3. /\ entries' \in Seq(Entry)
          /\ DOMAIN entries' = 1 .. Len(entries) + 1
          /\ \A i \in 1 .. Len(entries) : entries'[i] = entries[i]
          /\ entries'[Len(entries) + 1] = e
      BY <1>1, <3>1, <3>2
    <3>4. \A i \in 1 .. Len(entries) : entries[i].key # k
      BY <1>1, <2>2 DEF HasKey
    <3>5. \A i \in DOMAIN entries' : entries'[i].dirty => entries'[i].data # Unloaded
      BY <1>1, <3>1, <3>3 DEF GoodEntries
    <3>6. ASSUME HeadersWhole, NEW i \in DOMAIN entries', NEW j \in DOMAIN entries',
                 entries'[i].key = entries'[j].key
          PROVE  i = j
      <4>1. CASE i \in 1 .. Len(entries) /\ j \in 1 .. Len(entries)
        BY <1>1, <3>3, <3>6, <4>1 DEF GoodEntries, KeysOnce
      <4>2. CASE i = Len(entries) + 1 /\ j = Len(entries) + 1 BY <4>2
      <4>3. CASE i = Len(entries) + 1 /\ j \in 1 .. Len(entries)
        BY <3>1, <3>3, <3>4, <3>6, <4>3
      <4>4. CASE j = Len(entries) + 1 /\ i \in 1 .. Len(entries)
        BY <3>1, <3>3, <3>4, <3>6, <4>4
      <4> QED BY <1>1, <3>3, <4>1, <4>2, <4>3, <4>4
    <3> QED BY <3>3, <3>5, <3>6 DEF GoodEntries, KeysOnce
  <2> QED BY <2>1, <2>2
<1> QED BY <1>5 DEF Put, IInv, handle

LEMMA GetGood ==
  ASSUME IInv, NEW k \in Keys, Get(k)
  PROVE  IInv'
<1> DEFINE i == Lookup(entries, k)
           d == OnDisk(entries[i])
           e == [entries[i] EXCEPT !.data = d]
<1>1. i \in DOMAIN entries BY LookupFinds, ListedIn DEF Get, IInv
<1>2. GoodEntries(entries) /\ entries[i] \in Entry BY <1>1 DEF IInv, GoodEntries
<1>3. d \in Data /\ d # Unloaded
  BY <1>2, OnDiskType, NamesAssumption DEF Get
<1>4. entries' = [entries EXCEPT ![i] = e] BY DEF Get
<1> HIDE DEF d, i
<1>5. e \in Entry /\ e.key = entries[i].key /\ e.data = d
  BY <1>2, <1>3 DEF Entry
<1> HIDE DEF e
<1>6. GoodEntries(entries') BY <1>1, <1>2, <1>3, <1>4, <1>5, ReplaceGood
<1> QED BY <1>6 DEF Get, IInv, handle

\* The sink of flush() and of save_to(): one outcome of flush_internal().
LEMMA SinkGood ==
  ASSUME IInv, NEW es, GoodEntries(es), NEW path \in Paths,
         NEW o \in FlushOutcomes(es, path),
         disk' = o.disk, entries' = o.entries, m_flushed' = o.flushed,
         UNCHANGED <<isOpen, handle>>
  PROVE  IInv'
<1>1. GoodDisk(o.disk) /\ GoodEntries(o.entries) /\ o.flushed \in BOOLEAN
  BY FlushOutcomeGood DEF IInv
<1> QED BY <1>1 DEF IInv, handle

\* The handle goes, and the disk is good.
LEMMA GoneGood ==
  ASSUME IInv, isOpen' = FALSE, entries' = <<>>, m_flushed' = FALSE,
         UNCHANGED handle, GoodDisk(disk')
  PROVE  IInv'
BY NoEntries DEF IInv, handle

LEMMA SaveToGood ==
  ASSUME IInv, StageAll
  PROVE  /\ SaveToUnauthorized => IInv'
         /\ \A target \in Files : SaveTo(target) => IInv'
<1>1. Len(entries) \in Nat /\ DOMAIN entries = 1 .. Len(entries)
  BY DEF IInv, GoodEntries
<1>2. GoodEntries(Staged(Len(entries))) BY <1>1, StagedGood DEF StageAll
<1>3. ASSUME NEW target \in Files, SaveTo(target) PROVE IInv'
  <2>1. target \in Paths BY DEF Files
  <2> QED BY <1>2, <1>3, <2>1, SinkGood DEF SaveTo
<1>4. ASSUME SaveToUnauthorized PROVE IInv'
  BY <1>2, <1>4 DEF SaveToUnauthorized, IInv, handle
<1> QED BY <1>3, <1>4

LEMMA WriteBytesGood ==
  ASSUME IInv, WriteBytes
  PROVE  IInv'
<1>1. Len(entries) \in Nat /\ DOMAIN entries = 1 .. Len(entries)
  BY DEF IInv, GoodEntries
<1>2. GoodEntries(Staged(Len(entries))) BY <1>1, StagedGood DEF WriteBytes, StageAll
<1>3. GoodImage(ImageOf(Staged(Len(entries)), m_filename)) BY <1>2, ImageOfGood DEF IInv
<1>4. GoodDisk(disk')
  BY <1>3, NamesAssumption DEF WriteBytes, IInv, GoodDisk, GoodImage
<1>5. GoodEntries(entries') BY <1>2, RelaidGood DEF WriteBytes, IInv
<1> QED BY <1>4, <1>5 DEF WriteBytes, IInv, handle

LEMMA StageFailsGood ==
  ASSUME IInv, StageFails
  PROVE  IInv'
<1>1. PICK n \in DOMAIN entries :
        (\A i \in 1 .. n - 1 : ~MustStop(i)) /\ entries' = Staged(n - 1)
  BY DEF StageFails
<1>2. n - 1 \in 0 .. Len(entries) BY DEF IInv, GoodEntries
<1>3. GoodEntries(entries') BY <1>1, <1>2, StagedGood
<1> QED BY <1>3 DEF StageFails, IInv, handle

LEMMA CrashInFlushGood ==
  ASSUME IInv, CrashInFlush
  PROVE  IInv'
<1> DEFINE image == ImageOf(entries, m_filename)
<1>1. GoodImage(image) BY ImageOfGood DEF IInv
<1>2. PICK cut \in Cuts(image) :
        disk' = [disk EXCEPT ![m_filename] = [image EXCEPT !.length = cut],
                             ![Memory] = Absent]
  BY DEF CrashInFlush
<1> HIDE DEF image
<1>3. GoodImage([image EXCEPT !.length = cut])
  BY <1>1, CutGood DEF CrashInFlush, HeadersWhole
<1>4. GoodDisk(disk') BY <1>2, <1>3 DEF IInv, GoodDisk, GoodImage
<1> QED BY <1>4, GoneGood DEF CrashInFlush

LEMMA NextGood ==
  ASSUME IInv, [Next]_vars
  PROVE  IInv'
<1>1. ASSUME NEW p \in Files, NEW c \in Codecs, Create(p, c) PROVE IInv'
  <2>1. GoodDisk(disk') BY <1>1 DEF Create, IInv, GoodDisk
  <2>2. disk'[p] = Absent \/ GoodImage(disk'[p])
    BY <2>1 DEF GoodDisk, Files
  <2>3. p \in Paths BY DEF Files
  <2>4. PICK index \in Indexes(disk'[p]) : Construct(index, p, ReadWrite, c)
    BY <1>1 DEF Create
  <2>5. GoodEntries(index) BY <2>2, IndexesGood
  <2> QED BY <2>1, <2>3, <2>4, <2>5, ConstructGood
<1>2. ASSUME NEW p \in Paths, NEW md \in {ReadOnly, ReadWrite}, Open(p, md) PROVE IInv'
  <2>1. GoodDisk(disk') BY <1>2 DEF Open, IInv
  <2>2. disk[p] = Absent \/ GoodImage(disk[p]) BY DEF IInv, GoodDisk
  <2>3. PICK index \in Indexes(disk[p]) : Construct(index, p, md, DefaultCodec)
    BY <1>2 DEF Open
  <2>4. GoodEntries(index) BY <2>2, IndexesGood
  <2> QED BY <2>1, <2>3, <2>4, ConstructGood, NamesAssumption
<1>3. ASSUME NEW p \in Paths, OpenUnreadable(p) PROVE IInv'
  <2>1. GoodDisk(disk') BY <1>3 DEF OpenUnreadable, IInv
  <2> QED BY <1>3, <2>1, ConstructGood, NoEntries, NamesAssumption DEF OpenUnreadable
<1>4. ASSUME Flush PROVE IInv'
  BY <1>4, SinkGood DEF Flush, IInv
<1>5. ASSUME Destroy PROVE IInv'
  <2>1. GoodDisk(disk') BY <1>5, FlushOutcomeGood DEF Destroy, IInv
  <2> QED BY <1>5, <2>1, GoneGood DEF Destroy
<1>6. ASSUME Crash PROVE IInv'
  <2>1. GoodDisk(disk') BY <1>6 DEF Crash, IInv, GoodDisk
  <2> QED BY <1>6, <2>1, GoneGood DEF Crash
<1>7. ASSUME UNCHANGED vars PROVE IInv'
  BY <1>7 DEF IInv, vars
<1>8. ASSUME NEW p \in Files, SaveTo(p) PROVE IInv'
  BY <1>8, SaveToGood DEF SaveTo
<1>9. ASSUME SaveToUnauthorized PROVE IInv'
  BY <1>9, SaveToGood DEF SaveToUnauthorized
<1> QED
  BY <1>1, <1>2, <1>3, <1>4, <1>5, <1>6, <1>7, PutGood, GetGood, StageFailsGood,
     WriteBytesGood, CrashInFlushGood, <1>8, <1>9
  DEF Next

--------------------------------------------------------------------------------
(* What the files and the handle hold, on local files and without a failure but *)
(* that the process may die between two calls.                                  *)

Undisturbed == Remote = {} /\ Perils \subseteq {"crash"}

\* The array of an index entry of a whole file.
ValueIn(s) == IF s.blocks THEN s.bytes.val ELSE Empty

\* A complete file: its arrays are there, compressed with the codec the index names.
Whole(image) ==
  /\ GoodImage(image) /\ HeaderWhole(image)
  /\ \A i \in DOMAIN image.stored :
       LET s == image.stored[i]
       IN /\ s.pos + s.size <= image.length
          /\ s.blocks => s.size > 0 /\ s.bytes.codec = s.codec /\ s.bytes.val \in Vals

\* A clean entry is the index entry of the same place in the file.
CopyOf(e, s) ==
  /\ e.key = s.key /\ e.pos = s.pos /\ e.size = s.size
  /\ e.codec = s.codec /\ e.blocks = s.blocks
  /\ e.data \in {Unloaded, ValueIn(s)}

Kept(e, i, image) ==
  IF e.dirty THEN e.data \in Vals /\ e.codec = m_config /\ ~e.blocks
  ELSE image # Absent /\ i \in DOMAIN image.stored /\ CopyOf(e, image.stored[i])

AllCopied(es, image) ==
  /\ image # Absent /\ DOMAIN es = DOMAIN image.stored
  /\ \A i \in DOMAIN es : ~es[i].dirty

Held == /\ \A p \in Paths : disk[p] # Absent => Whole(disk[p])
        /\ disk[Memory] = Absent /\ m_filename \in Files
        /\ \A i \in DOMAIN entries : Kept(entries[i], i, disk[m_filename])
        /\ m_flushed => AllCopied(entries, disk[m_filename])
        /\ ~isOpen => entries = <<>>

\* The bytes of an array with blocks are found, and no other ones.
LEMMA AtLaid ==
  ASSUME NEW image, GoodImage(image), NEW i \in DOMAIN image.stored, image.stored[i].size > 0
  PROVE  At(image, image.stored[i].pos, image.stored[i].size) = {image.stored[i]}
<1> DEFINE st == image.stored
           s == st[i]
<1>1. /\ image \in Image /\ DOMAIN st \subseteq Nat
      /\ \A j \in DOMAIN st : st[j].pos \in Nat /\ st[j].size \in Nat
  <2>1. image \in Image BY DEF GoodImage
  <2>2. st \in Seq(Stored) BY <2>1 DEF Image
  <2>3. \A j \in DOMAIN st : st[j] \in Stored BY <2>2
  <2> QED BY <2>1, <2>2, <2>3 DEF Stored
<1>2. LaidOut(image) BY DEF GoodImage
<1> HIDE DEF st
<1>3. ASSUME NEW j \in DOMAIN st, j # i
      PROVE  \/ st[j].pos + st[j].size <= s.pos
             \/ s.pos + s.size <= st[j].pos
  <2>1. j < i \/ i < j BY <1>1, <1>3 DEF st
  <2> QED BY <1>2, <2>1 DEF LaidOut, st
<1>4. HeaderSize(Len(st)) <= s.pos BY <1>2 DEF LaidOut, st
<1>5. Intact(image, s) BY <1>3, <1>4 DEF Intact, st
<1>6. \A j \in DOMAIN st : st[j].pos = s.pos /\ st[j].size = s.size => j = i
  BY <1>1, <1>3 DEF st
<1>7. s \in At(image, s.pos, s.size) BY <1>5 DEF At, st
<1>8. \A t \in At(image, s.pos, s.size) : t = s
  <2>1. \A t \in At(image, s.pos, s.size) :
          \E j \in DOMAIN st : t = st[j] /\ st[j].pos = s.pos /\ st[j].size = s.size
    BY DEF At, st
  <2> QED BY <1>6, <2>1
<1> QED BY <1>7, <1>8 DEF st

\* Reading at an index entry of a whole file yields its array.
LEMMA ReadWhole ==
  ASSUME NEW image, Whole(image), NEW i \in DOMAIN image.stored
  PROVE  LET s == image.stored[i]
         IN /\ ReadArray(image, s.pos, s.size, s.codec, s.blocks) = ValueIn(s)
            /\ ValueIn(s) \in Vals
<1> DEFINE s == image.stored[i]
<1>1. s.pos \in Nat /\ s.size \in Nat /\ s.blocks \in BOOLEAN /\ image.length \in Nat
  <2>1. image \in Image BY DEF Whole, GoodImage
  <2>2. s \in Stored BY <2>1 DEF Image
  <2> QED BY <2>1, <2>2 DEF Stored, Image
<1>2. /\ s.pos + s.size <= image.length
      /\ s.blocks => s.size > 0 /\ s.bytes.codec = s.codec /\ s.bytes.val \in Vals
  BY DEF Whole
<1>3. CASE s.blocks
  <2>1. At(image, s.pos, s.size) = {s} BY <1>2, <1>3, AtLaid DEF Whole
  <2> HIDE DEF s
  <2>2. (CHOOSE t \in {s} : t.bytes.codec = s.codec) = s BY <1>2, <1>3
  <2> QED BY <1>1, <1>2, <1>3, <2>1, <2>2 DEF ReadArray, ValueIn, s
<1>4. CASE ~s.blocks
  <2> HIDE DEF s
  <2> QED BY <1>1, <1>2, <1>4, NamesAssumption DEF ReadArray, ValueIn, s
<1> QED BY <1>3, <1>4

\* What get() returns for a kept entry is an array, its file's if it is clean.
LEMMA KeptValue ==
  ASSUME Held, NEW i \in DOMAIN entries
  PROVE  /\ ValueOf(entries[i]) \in Vals
         /\ entries[i].dirty => ValueOf(entries[i]) = entries[i].data
         /\ ~entries[i].dirty =>
              /\ disk[m_filename] # Absent /\ i \in DOMAIN disk[m_filename].stored
              /\ CopyOf(entries[i], disk[m_filename].stored[i])
              /\ ValueOf(entries[i]) = ValueIn(disk[m_filename].stored[i])
              /\ OnDisk(entries[i]) = ValueIn(disk[m_filename].stored[i])
<1> DEFINE e == entries[i]
           image == disk[m_filename]
<1>0. Kept(e, i, image) BY DEF Held
<1>1. CASE e.dirty
  <2>1. e.data \in Vals /\ e.data # Unloaded BY <1>0, <1>1, NamesAssumption DEF Kept, Data
  <2> QED BY <1>1, <2>1 DEF ValueOf
<1>2. CASE ~e.dirty
  <2> DEFINE s == image.stored[i]
  <2>1. image # Absent /\ i \in DOMAIN image.stored /\ CopyOf(e, s) BY <1>0, <1>2 DEF Kept
  <2>2. Whole(image) BY <2>1 DEF Held, Files
  <2>3. /\ ReadArray(image, s.pos, s.size, s.codec, s.blocks) = ValueIn(s)
        /\ ValueIn(s) \in Vals
    BY <2>1, <2>2, ReadWhole
  <2>4. OnDisk(e) = ValueIn(s) BY <2>1, <2>3 DEF OnDisk, CopyOf
  <2>5. ValueOf(e) = ValueIn(s) BY <2>1, <2>4 DEF ValueOf, CopyOf
  <2> QED BY <1>2, <2>1, <2>3, <2>4, <2>5
<1> QED BY <1>1, <1>2

\* What the image holds of one entry: a clean one is copied from where it is.
LEMMA CompressedKept ==
  ASSUME Undisturbed, IInv, Held, NEW i \in DOMAIN entries
  PROVE  LET c == Compressed(entries[i], SourceImage(m_filename))
         IN /\ c.blocks \in BOOLEAN
            /\ c.blocks => /\ c.size > 0 /\ c.bytes.codec = entries[i].codec
                           /\ c.bytes.val \in Vals
            /\ ValueOf(entries[i]) = IF c.blocks THEN c.bytes.val ELSE Empty
<1> DEFINE e == entries[i]
           image == disk[m_filename]
           c == Compressed(e, SourceImage(m_filename))
<1>0. Kept(e, i, image) BY DEF Held
<1>1. CASE e.dirty /\ e.data = Empty
  <2>1. c = [bytes |-> JunkBytes, size |-> e.size, blocks |-> FALSE]
    BY <1>1 DEF Compressed
  <2>2. ValueOf(e) = Empty BY <1>1, KeptValue
  <2> HIDE DEF c
  <2> QED BY <2>1, <2>2 DEF c
<1>2. CASE e.dirty /\ e.data # Empty
  <2>1. c = [bytes |-> [val |-> e.data, codec |-> m_config],
             size |-> Weight[e.data][m_config], blocks |-> TRUE]
    BY <1>2 DEF Compressed
  <2>2. e.data \in Vals /\ e.codec = m_config BY <1>0, <1>2 DEF Kept
  <2>3. ValueOf(e) = e.data BY <1>2, KeptValue
  <2>4. Weight[e.data][m_config] \in Nat /\ Weight[e.data][m_config] # 0
    BY <1>2, <2>2, SizesAssumption DEF Data, IInv
  <2>5. Weight[e.data][m_config] > 0 BY <2>4
  <2> HIDE DEF c
  <2> QED BY <2>1, <2>2, <2>3, <2>5 DEF c
<1>3. CASE ~e.dirty
  <2> DEFINE s == image.stored[i]
  <2>1. /\ image # Absent /\ i \in DOMAIN image.stored /\ CopyOf(e, s)
        /\ ValueOf(e) = ValueIn(s)
    BY <1>3, KeptValue
  <2>2. Whole(image) BY <2>1 DEF Held, Files
  <2>3. SourceImage(m_filename) = image BY <2>1 DEF SourceImage, Undisturbed
  <2>4. /\ s.pos + s.size <= image.length
        /\ s.blocks => s.size > 0 /\ s.bytes.codec = s.codec /\ s.bytes.val \in Vals
    BY <2>1, <2>2 DEF Whole
  <2>5. s.blocks \in BOOLEAN
    <3>1. image \in Image BY <2>2 DEF Whole, GoodImage
    <3>2. s \in Stored BY <2>1, <3>1 DEF Image
    <3> QED BY <3>2 DEF Stored
  <2>6. s.blocks => At(image, s.pos, s.size) = {s} BY <2>1, <2>2, <2>4, AtLaid DEF Whole
  <2> DEFINE at == IF e.pos + e.size <= image.length THEN At(image, e.pos, e.size) ELSE {}
  <2>7. c = [bytes |-> IF at = {} THEN JunkBytes ELSE (CHOOSE t \in at : TRUE).bytes,
             size |-> e.size, blocks |-> e.blocks]
    BY <1>3, <2>3 DEF Compressed
  <2>8. /\ e.pos = s.pos /\ e.size = s.size /\ e.codec = s.codec /\ e.blocks = s.blocks
    BY <2>1 DEF CopyOf
  <2>9. s.blocks => at = {s} BY <2>4, <2>6, <2>8
  <2> HIDE DEF at, s, c
  <2>10. s.blocks => c.bytes = s.bytes
    <3>1. (CHOOSE t \in {s} : TRUE) = s OBVIOUS
    <3> QED BY <2>7, <2>9, <3>1
  <2>11. c.size = s.size /\ c.blocks = s.blocks BY <2>7, <2>8
  <2> QED BY <2>1, <2>4, <2>5, <2>8, <2>10, <2>11 DEF ValueIn, c
<1> QED BY <1>1, <1>2, <1>3

\* What a flush writes is whole, and has the array every entry shows.
LEMMA FlushWhole ==
  ASSUME Undisturbed, IInv, Held
  PROVE  LET image == ImageOf(entries, m_filename)
         IN /\ Whole(image) /\ image # Absent /\ DOMAIN image.stored = DOMAIN entries
            /\ \A i \in DOMAIN entries :
                 /\ image.stored[i].key = entries[i].key
                 /\ image.stored[i].codec = entries[i].codec
                 /\ ValueIn(image.stored[i]) = ValueOf(entries[i])
<1> DEFINE image == ImageOf(entries, m_filename)
           c(i) == Compressed(entries[i], SourceImage(m_filename))
<1>1. /\ GoodImage(image) /\ DOMAIN image.stored = DOMAIN entries /\ HeaderWhole(image)
      /\ \A i \in DOMAIN entries : /\ image.stored[i].key = entries[i].key
                                   /\ image.stored[i].pos + image.stored[i].size <= image.length
  BY ImageOfGood DEF IInv
<1>2. ASSUME NEW i \in DOMAIN entries
      PROVE  /\ image.stored[i].codec = entries[i].codec
             /\ image.stored[i].size = c(i).size
             /\ image.stored[i].blocks = c(i).blocks
             /\ image.stored[i].bytes = c(i).bytes
  BY DEF ImageOf
<1>3. image # Absent BY <1>1, AbsentAssumption DEF GoodImage
<1> HIDE DEF image, c
<1>4. ASSUME NEW i \in DOMAIN entries
      PROVE  /\ c(i).blocks => /\ c(i).size > 0 /\ c(i).bytes.codec = entries[i].codec
                               /\ c(i).bytes.val \in Vals
             /\ ValueOf(entries[i]) = IF c(i).blocks THEN c(i).bytes.val ELSE Empty
  BY CompressedKept DEF c
<1>5. Whole(image) BY <1>1, <1>2, <1>4 DEF Whole
<1>6. \A i \in DOMAIN entries : ValueIn(image.stored[i]) = ValueOf(entries[i])
  BY <1>2, <1>4 DEF ValueIn
<1> QED BY <1>1, <1>2, <1>3, <1>5, <1>6 DEF image

\* After a flush every entry is a copy of its index entry.
LEMMA FlushCopies ==
  ASSUME Undisturbed, IInv, Held,
         NEW new, new = Cleaned(Relaid(entries, m_filename))
  PROVE  LET image == ImageOf(entries, m_filename)
         IN /\ AllCopied(new, image) /\ DOMAIN new = DOMAIN entries
            /\ \A i \in DOMAIN entries : CopyOf(new[i], image.stored[i])
<1> DEFINE image == ImageOf(entries, m_filename)
<1>1. /\ image # Absent /\ DOMAIN image.stored = DOMAIN entries
      /\ \A i \in DOMAIN entries :
           /\ image.stored[i].key = entries[i].key
           /\ image.stored[i].codec = entries[i].codec
           /\ ValueIn(image.stored[i]) = ValueOf(entries[i])
  BY FlushWhole
<1>2. \A i \in DOMAIN entries : entries[i] \in Entry BY DEF IInv, GoodEntries
<1>3. DOMAIN new = DOMAIN entries BY DEF Cleaned, Relaid
<1>4. ASSUME NEW i \in DOMAIN entries
      PROVE  CopyOf(new[i], image.stored[i]) /\ ~new[i].dirty
  <2> DEFINE x == image.stored[i].pos
             y == image.stored[i].size
             z == image.stored[i].blocks
  <2>1. new[i] = [[entries[i] EXCEPT !.pos = x, !.size = y, !.blocks = z] EXCEPT !.dirty = FALSE]
    BY DEF Cleaned, Relaid
  <2>2. entries[i] \in Entry BY <1>2
  <2> HIDE DEF x, y, z
  <2>3. /\ new[i].key = entries[i].key /\ new[i].pos = x /\ new[i].size = y
        /\ new[i].codec = entries[i].codec /\ new[i].blocks = z
        /\ new[i].data = entries[i].data /\ new[i].dirty = FALSE
    BY <2>1, <2>2 DEF Entry
  <2>4. entries[i].data \in {Unloaded, ValueOf(entries[i])} BY DEF ValueOf
  <2> QED BY <1>1, <2>3, <2>4 DEF CopyOf, x, y, z
<1> HIDE DEF image
<1> QED BY <1>1, <1>3, <1>4 DEF AllCopied, image

\* Without a failure a sink has one outcome.
LEMMA OneOutcome ==
  ASSUME Undisturbed, NEW es, NEW path
  PROVE  FlushOutcomes(es, path) =
           {[disk |-> [disk EXCEPT ![path] = ImageOf(es, path)],
             entries |-> Cleaned(Relaid(es, path)), flushed |-> TRUE]}
<1>1. ~CanRefuse(path) /\ "partial" \notin Perils BY DEF Undisturbed, CanRefuse
<1>2. {TRUE} \cap {CanRefuse(path)} = {} BY <1>1 DEF CanRefuse
<1> QED BY <1>1, <1>2 DEF FlushOutcomes

\* No handle, and files that are whole.
LEMMA HeldGone ==
  ASSUME entries' = <<>>, m_flushed' = FALSE, disk'[Memory] = Absent,
         m_filename' \in Files, \A p \in Paths : disk'[p] # Absent => Whole(disk'[p])
  PROVE  Held'
<1>1. DOMAIN entries' = {} OBVIOUS
<1> QED BY <1>1 DEF Held

\* The constructor, on a file that is whole or not there.
LEMMA HeldOpen ==
  ASSUME IInv, Held, NEW p \in Files, NEW md, NEW c,
         NEW index \in Indexes(disk'[p]), Construct(index, p, md, c),
         disk' = disk \/ disk' = [disk EXCEPT ![p] = Absent]
  PROVE  Held'
<1>1. /\ \A q \in Paths : disk'[q] # Absent => Whole(disk'[q])
      /\ disk'[Memory] = Absent
  BY NamesAssumption DEF Held, IInv, GoodDisk, Files
<1>2. /\ isOpen' = TRUE /\ m_filename' = p /\ m_flushed' = FALSE
      /\ entries' = IF disk'[p] = Absent THEN <<>> ELSE LoadIndex(disk'[p])
  <2>1. p \in Paths BY DEF Files
  <2> QED BY <1>1, <2>1 DEF Construct, Indexes, Whole
<1>3. CASE disk'[p] = Absent
  BY <1>1, <1>2, <1>3, HeldGone
<1>4. CASE disk'[p] # Absent
  <2>1. ASSUME NEW i \in DOMAIN entries' PROVE Kept(entries[i], i, disk[p])'
    <3>1. DOMAIN entries' = DOMAIN disk'[p].stored BY <1>2, <1>4 DEF LoadIndex
    <3>2. entries'[i] = [key |-> disk'[p].stored[i].key, dirty |-> FALSE, data |-> Unloaded,
                         pos |-> disk'[p].stored[i].pos, size |-> disk'[p].stored[i].size,
                         codec |-> disk'[p].stored[i].codec,
                         blocks |-> disk'[p].stored[i].blocks]
      BY <1>2, <1>4, <3>1 DEF LoadIndex
    <3> QED BY <1>4, <3>1, <3>2 DEF Kept, CopyOf
  <2> QED BY <1>1, <1>2, <2>1 DEF Held
<1> QED BY <1>3, <1>4

\* put() makes one entry a changed one.
LEMMA HeldPut ==
  ASSUME IInv, Held, NEW k \in Keys, NEW v \in Vals, Put(k, v)
  PROVE  /\ Held'
         /\ \E j \in Nat :
              /\ DOMAIN entries' = DOMAIN entries \cup {j}
              /\ j \in DOMAIN entries <=> HasKey(entries, k)
              /\ entries'[j].key = k /\ entries'[j].data = v
              /\ \A i \in DOMAIN entries : i # j => entries'[i] = entries[i]
              /\ j \in DOMAIN entries => entries[j].key = k
<1>1. /\ entries \in Seq(Entry) /\ DOMAIN entries = 1 .. Len(entries) /\ Len(entries) \in Nat
      /\ \A i \in DOMAIN entries : entries[i] \in Entry
  BY DEF IInv, GoodEntries
<1> DEFINE j == IF HasKey(entries, k) THEN Lookup(entries, k) ELSE Len(entries) + 1
           old == IF HasKey(entries, k) THEN entries[j] ELSE NewEntry(k)
<1>2. HasKey(entries, k) => j \in DOMAIN entries /\ entries[j].key = k
  BY LookupFinds, ListedIn DEF IInv
<1>3. ~HasKey(entries, k) => j = Len(entries) + 1 OBVIOUS
<1>4. old \in Entry /\ old.key = k
  BY <1>1, <1>2, NamesAssumption DEF NewEntry, Entry, IInv
<1>5. /\ HasKey(entries, k) => entries' = [entries EXCEPT ![j] = PutEntry(old, v)]
      /\ ~HasKey(entries, k) => entries' = Append(entries, PutEntry(old, v))
  BY DEF Put
<1>6. /\ m_flushed' = FALSE
      /\ UNCHANGED <<disk, isOpen, m_filename, m_config>> /\ isOpen
  BY DEF Put, handle
<1> HIDE DEF j, old
<1>7. /\ PutEntry(old, v).key = k /\ PutEntry(old, v).data = v /\ PutEntry(old, v).dirty
      /\ PutEntry(old, v).codec = m_config /\ ~PutEntry(old, v).blocks
  BY <1>4 DEF PutEntry, Entry
<1> DEFINE new == PutEntry(old, v)
<1> HIDE DEF new
<1>8. /\ DOMAIN entries' = DOMAIN entries \cup {j} /\ j \in Nat
      /\ entries'[j] = new
      /\ \A i \in DOMAIN entries : i # j => entries'[i] = entries[i]
      /\ j \in DOMAIN entries <=> HasKey(entries, k)
  <2>1. CASE HasKey(entries, k)
    <3>1. entries' = [entries EXCEPT ![j] = new] BY <1>5, <2>1 DEF new
    <3> QED BY <1>1, <1>2, <2>1, <3>1
  <2>2. CASE ~HasKey(entries, k)
    <3>1. entries' = Append(entries, new) BY <1>5, <2>2 DEF new
    <3>2. j = Len(entries) + 1 BY <1>3, <2>2
    <3> QED BY <1>1, <2>2, <3>1, <3>2
  <2> QED BY <2>1, <2>2
<1>9. ASSUME NEW i \in DOMAIN entries' PROVE Kept(entries[i], i, disk[m_filename])'
  <2>1. CASE i = j
    BY <1>6, <1>7, <1>8, <2>1 DEF Kept, new
  <2>2. CASE i # j
    <3>1. i \in DOMAIN entries /\ entries'[i] = entries[i] BY <1>8, <2>2
    <3> QED BY <1>6, <3>1 DEF Kept, Held
  <2> QED BY <2>1, <2>2
<1>10. Held' BY <1>6, <1>9 DEF Held
<1> QED BY <1>2, <1>7, <1>8, <1>10 DEF new

\* get() loads what its entry shows already.
LEMMA HeldGet ==
  ASSUME IInv, Held, NEW k \in Keys, Get(k)
  PROVE  /\ Held' /\ DOMAIN entries' = DOMAIN entries
         /\ \A i \in DOMAIN entries : /\ entries'[i].key = entries[i].key
                                      /\ ValueOf(entries[i])' = ValueOf(entries[i])
<1> DEFINE j == Lookup(entries, k)
           e == entries[j]
<1>1. j \in DOMAIN entries BY LookupFinds, ListedIn DEF Get, IInv
<1>2. /\ e.data = Unloaded /\ entries' = [entries EXCEPT ![j] = [e EXCEPT !.data = OnDisk(e)]]
      /\ UNCHANGED <<disk, isOpen, m_filename, m_config, m_flushed>> /\ isOpen
  BY DEF Get, handle
<1>3. \A i \in DOMAIN entries : entries[i] \in Entry BY DEF IInv, GoodEntries
<1>4. ~e.dirty /\ OnDisk(e) = ValueIn(disk[m_filename].stored[j])
  BY <1>1, <1>2, KeptValue DEF IInv, GoodEntries
<1> HIDE DEF j
<1> DEFINE x == OnDisk(e)
<1>5. /\ entries'[j].key = e.key /\ entries'[j].pos = e.pos /\ entries'[j].size = e.size
      /\ entries'[j].codec = e.codec /\ entries'[j].blocks = e.blocks
      /\ entries'[j].dirty = e.dirty /\ entries'[j].data = x
  <2> HIDE DEF x
  <2>1. entries'[j] = [e EXCEPT !.data = x] BY <1>1, <1>2 DEF x
  <2> QED BY <1>1, <1>3, <2>1 DEF Entry
<1>6. DOMAIN entries' = DOMAIN entries /\ \A i \in DOMAIN entries : i # j => entries'[i] = entries[i]
  BY <1>2
<1>7. ASSUME NEW i \in DOMAIN entries PROVE Kept(entries[i], i, disk[m_filename])'
  <2>1. CASE i = j
    <3>1. Kept(e, j, disk[m_filename]) BY <1>1 DEF Held
    <3> QED BY <1>2, <1>4, <1>5, <2>1, <3>1 DEF Kept, CopyOf
  <2>2. CASE i # j
    BY <1>2, <1>6, <2>2 DEF Kept, Held
  <2> QED BY <2>1, <2>2
<1>8. m_flushed' => AllCopied(entries', disk'[m_filename'])
  BY <1>2, <1>5, <1>6 DEF Held, AllCopied
<1>9. Held' BY <1>2, <1>6, <1>7, <1>8 DEF Held
<1>10. ASSUME NEW i \in DOMAIN entries
       PROVE  entries'[i].key = entries[i].key /\ ValueOf(entries[i])' = ValueOf(entries[i])
  <2>1. CASE i = j
    BY <1>2, <1>5, <2>1 DEF ValueOf, OnDisk
  <2>2. CASE i # j
    BY <1>2, <1>6, <2>2 DEF ValueOf, OnDisk
  <2> QED BY <2>1, <2>2
<1> QED BY <1>6, <1>9, <1>10

\* flush() leaves a whole file, and entries that show what they did.
LEMMA HeldFlush ==
  ASSUME Undisturbed, IInv, Held, Flush
  PROVE  /\ Held' /\ DOMAIN entries' = DOMAIN entries
         /\ disk' = [disk EXCEPT ![m_filename] = ImageOf(entries, m_filename)]
         /\ \A i \in DOMAIN entries : /\ entries'[i].key = entries[i].key
                                      /\ ValueOf(entries[i])' = ValueOf(entries[i])
<1> DEFINE image == ImageOf(entries, m_filename)
<1>1. /\ disk' = [disk EXCEPT ![m_filename] = image]
      /\ entries' = Cleaned(Relaid(entries, m_filename)) /\ m_flushed' = TRUE
      /\ UNCHANGED <<isOpen, m_filename, m_config>> /\ isOpen
  BY OneOutcome DEF Flush, handle
<1>2. /\ Whole(image) /\ image # Absent /\ DOMAIN image.stored = DOMAIN entries
      /\ \A i \in DOMAIN entries : /\ image.stored[i].key = entries[i].key
                                   /\ ValueIn(image.stored[i]) = ValueOf(entries[i])
  BY FlushWhole
<1>3. /\ AllCopied(entries', image) /\ DOMAIN entries' = DOMAIN entries
      /\ \A i \in DOMAIN entries : CopyOf(entries'[i], image.stored[i])
  BY <1>1, FlushCopies
<1> HIDE DEF image
<1>4. disk'[m_filename'] = image BY <1>1 DEF IInv, GoodDisk
<1>5. \A p \in Paths : disk'[p] # Absent => Whole(disk'[p])
  BY <1>1, <1>2 DEF Held, IInv, GoodDisk
<1>6. disk'[Memory] = Absent BY <1>1, NamesAssumption DEF Held, IInv, GoodDisk, Files
<1>7. \A i \in DOMAIN entries' : Kept(entries[i], i, disk[m_filename])'
  BY <1>2, <1>3, <1>4 DEF Kept, AllCopied
<1>8. Held' BY <1>1, <1>3, <1>4, <1>5, <1>6, <1>7 DEF Held
<1>9. ASSUME NEW i \in DOMAIN entries
      PROVE  entries'[i].key = entries[i].key /\ ValueOf(entries[i])' = ValueOf(entries[i])
  <2> DEFINE s == image.stored[i]
  <2>1. CopyOf(entries'[i], s) BY <1>3
  <2>2. ReadArray(image, s.pos, s.size, s.codec, s.blocks) = ValueIn(s) BY <1>2, ReadWhole
  <2>3. OnDisk(entries[i])' = ValueIn(s) BY <1>2, <1>4, <2>1, <2>2 DEF OnDisk, CopyOf
  <2>4. ValueOf(entries[i])' = ValueIn(s) BY <2>1, <2>3 DEF ValueOf, CopyOf
  <2> QED BY <1>2, <2>1, <2>4 DEF CopyOf
<1> QED BY <1>1, <1>3, <1>8, <1>9 DEF image

\* The destructor, and a death between two calls.
LEMMA HeldEnd ==
  ASSUME Undisturbed, IInv, Held, Destroy \/ Crash
  PROVE  /\ Held'
         /\ Crash => disk' = disk
         /\ Destroy => disk' = IF m_file_mode = ReadWrite /\ ~m_flushed
                               THEN [disk EXCEPT ![m_filename] = ImageOf(entries, m_filename)]
                               ELSE disk
<1>1. entries' = <<>> /\ m_flushed' = FALSE /\ UNCHANGED m_filename
  BY DEF Destroy, Crash, handle
<1>2. /\ Crash => disk' = disk
      /\ Destroy => disk' = IF m_file_mode = ReadWrite /\ ~m_flushed
                            THEN [disk EXCEPT ![m_filename] = ImageOf(entries, m_filename)]
                            ELSE disk
  <2>1. Crash => disk' = disk
    BY DEF Crash, Held, IInv, GoodDisk
  <2>2. Destroy => disk' = IF m_file_mode = ReadWrite /\ ~m_flushed
                           THEN [disk EXCEPT ![m_filename] = ImageOf(entries, m_filename)]
                           ELSE disk
    BY OneOutcome DEF Destroy
  <2> QED BY <2>1, <2>2
<1>3. Whole(ImageOf(entries, m_filename)) BY FlushWhole
<1>4. /\ \A p \in Paths : disk'[p] # Absent => Whole(disk'[p])
      /\ disk'[Memory] = Absent
  BY <1>2, <1>3, NamesAssumption DEF Held, IInv, GoodDisk, Files
<1> QED BY <1>1, <1>2, <1>4, HeldGone DEF Held

LEMMA HeldKeeps ==
  ASSUME Undisturbed, IInv, Held, [Next]_vars
  PROVE  Held'
<1>1. ASSUME NEW p \in Files, NEW c \in Codecs, Create(p, c) PROVE Held'
  BY <1>1, HeldOpen DEF Create, Undisturbed
<1>2. ASSUME NEW p \in Paths, NEW md \in {ReadOnly, ReadWrite}, Open(p, md) PROVE Held'
  <2>1. p \in Files BY <1>2 DEF Open, Held, Files
  <2> QED BY <1>2, <2>1, HeldOpen DEF Open
<1>3. CASE UNCHANGED vars
  BY <1>3 DEF vars, handle, Held, Kept
<1>4. /\ ~SaveToUnauthorized /\ ~WriteBytes /\ ~StageFails /\ ~CrashInFlush
      /\ \A p \in Files : ~SaveTo(p)
      /\ \A p \in Paths : ~OpenUnreadable(p)
  BY DEF Undisturbed, SaveToUnauthorized, WriteBytes, StageFails, CrashInFlush, SaveTo,
         OpenUnreadable
<1> QED BY <1>1, <1>2, <1>3, <1>4, HeldPut, HeldGet, HeldFlush, HeldEnd DEF Next

--------------------------------------------------------------------------------
(* The view, and the steps of the catalog.                                 *)

LEMMA LookupIs ==
  ASSUME NEW s, Listed(s), KeysOnce(s), NEW i \in DOMAIN s
  PROVE  HasKey(s, s[i].key) /\ Lookup(s, s[i].key) = i
<1>1. HasKey(s, s[i].key) BY DEF HasKey
<1>2. Lookup(s, s[i].key) \in DOMAIN s /\ s[Lookup(s, s[i].key)].key = s[i].key
  BY <1>1, LookupFinds
<1> QED BY <1>1, <1>2 DEF KeysOnce

LEMMA KeysOnceOf ==
  /\ HeadersWhole /\ IInv => KeysOnce(entries) /\ Listed(entries)
  /\ IInv => Listed(entries)
  /\ \A image : Whole(image) => Listed(image.stored)
BY ListedIn DEF IInv, GoodEntries, Whole, GoodImage

\* The same keys at the same places are looked up alike.
LEMMA SameLookup ==
  ASSUME NEW s, NEW t, Listed(s), DOMAIN t = DOMAIN s,
         \A i \in DOMAIN s : t[i].key = s[i].key, NEW k
  PROVE  /\ HasKey(t, k) <=> HasKey(s, k)
         /\ HasKey(s, k) => Lookup(t, k) = Lookup(s, k) /\ Lookup(s, k) \in DOMAIN s
<1>1. HasKey(t, k) <=> HasKey(s, k) BY DEF HasKey
<1>2. ASSUME HasKey(s, k) PROVE Lookup(t, k) = Lookup(s, k) /\ Lookup(s, k) \in DOMAIN s
  <2>1. Lookup(s, k) \in DOMAIN s /\ LastOf(s, k, Lookup(s, k)) BY <1>2, LookupLast
  <2>2. Lookup(t, k) \in DOMAIN t /\ LastOf(t, k, Lookup(t, k))
    <3>1. LastOf(t, k, Lookup(s, k)) BY <2>1 DEF LastOf
    <3>2. \E i \in DOMAIN t : LastOf(t, k, i) BY <2>1, <3>1
    <3> QED BY <3>2 DEF LastOf, Lookup
  <2>3. DOMAIN s \subseteq Nat BY DEF Listed
  <2> QED BY <2>1, <2>2, <2>3 DEF LastOf
<1> QED BY <1>1, <1>2

\* What a handle shows and what a file holds are maps.
LEMMA ViewType ==
  ASSUME IInv, Held
  PROVE  /\ View \in [Keys -> Vals \cup {Missing}] /\ View # Absent
         /\ \A image : Whole(image) => FileView(image) # Absent
<1>1. ASSUME NEW k \in Keys, HasKey(entries, k)
      PROVE  ValueOf(entries[Lookup(entries, k)]) \in Vals
  <2>1. Lookup(entries, k) \in DOMAIN entries BY <1>1, LookupFinds, KeysOnceOf
  <2> QED BY <2>1, KeptValue
<1>2. View \in [Keys -> Vals \cup {Missing}] BY <1>1 DEF View
<1>3. ASSUME NEW image, Whole(image) PROVE FileView(image) \in [Keys -> Vals \cup {Missing}]
  <2> DEFINE s(k) == image.stored[Lookup(image.stored, k)]
  <2>1. ASSUME NEW k \in Keys, HasKey(image.stored, k)
        PROVE  ReadArray(image, s(k).pos, s(k).size, s(k).codec, s(k).blocks) \in Vals
    <3>1. Lookup(image.stored, k) \in DOMAIN image.stored
      BY <1>3, <2>1, LookupFinds, KeysOnceOf
    <3> QED BY <1>3, <3>1, ReadWhole
  <2> QED BY <2>1 DEF FileView
<1>4. [Keys -> Vals \cup {Missing}] \subseteq [Keys -> Data \cup {Missing, Absent}]
  <2>1. Vals \cup {Missing} \subseteq Data \cup {Missing, Absent} BY DEF Data
  <2> QED BY <2>1
<1> QED BY <1>2, <1>3, <1>4, AbsentAssumption

\* A whole file with the entries' keys and arrays holds the view.
LEMMA FileHasView ==
  ASSUME IInv, Held, NEW image, Whole(image), DOMAIN image.stored = DOMAIN entries,
         \A i \in DOMAIN entries : /\ image.stored[i].key = entries[i].key
                                   /\ ValueIn(image.stored[i]) = ValueOf(entries[i])
  PROVE  FileView(image) = View
<1>1. ASSUME NEW k \in Keys PROVE FileView(image)[k] = View[k]
  <2>1. /\ HasKey(image.stored, k) <=> HasKey(entries, k)
        /\ HasKey(entries, k) =>
             Lookup(image.stored, k) = Lookup(entries, k) /\ Lookup(entries, k) \in DOMAIN entries
    BY SameLookup, KeysOnceOf
  <2>2. CASE ~HasKey(entries, k)
    BY <2>1, <2>2 DEF FileView, View
  <2>3. CASE HasKey(entries, k)
    <3> DEFINE i == Lookup(entries, k)
               s == image.stored[i]
    <3>1. i \in DOMAIN entries /\ Lookup(image.stored, k) = i BY <2>1, <2>3
    <3>2. ReadArray(image, s.pos, s.size, s.codec, s.blocks) = ValueIn(s) BY <3>1, ReadWhole
    <3>3. FileView(image)[k] = ReadArray(image, s.pos, s.size, s.codec, s.blocks)
      BY <2>1, <2>3, <3>1 DEF FileView
    <3>4. View[k] = ValueOf(entries[i]) BY <2>3 DEF View
    <3> QED BY <3>1, <3>2, <3>3, <3>4
  <2> QED BY <2>2, <2>3
<1> QED BY <1>1 DEF FileView, View

\* What the next flush writes holds the view.
LEMMA ImageHasView ==
  ASSUME Undisturbed, IInv, Held
  PROVE  /\ ImageOf(entries, m_filename) # Absent
         /\ FileView(ImageOf(entries, m_filename)) = View
BY FlushWhole, FileHasView

\* A dataset with nothing to flush has its view in the file.
LEMMA FlushedHasView ==
  ASSUME IInv, Held, m_flushed
  PROVE  /\ disk[m_filename] # Absent /\ Whole(disk[m_filename])
         /\ FileView(disk[m_filename]) = View
<1>1. AllCopied(entries, disk[m_filename]) BY DEF Held
<1>2. disk[m_filename] # Absent /\ Whole(disk[m_filename]) BY <1>1 DEF AllCopied, Held, Files
<1>3. \A i \in DOMAIN entries :
        /\ disk[m_filename].stored[i].key = entries[i].key
        /\ ValueIn(disk[m_filename].stored[i]) = ValueOf(entries[i])
  BY <1>1, KeptValue DEF AllCopied, CopyOf
<1> QED BY <1>1, <1>2, <1>3, FileHasView DEF AllCopied

\* The view changes with the entries' keys and arrays only.
LEMMA SameView ==
  ASSUME IInv, DOMAIN entries' = DOMAIN entries,
         \A i \in DOMAIN entries : /\ entries'[i].key = entries[i].key
                                   /\ ValueOf(entries[i])' = ValueOf(entries[i])
  PROVE  View' = View
<1>1. ASSUME NEW k \in Keys PROVE View'[k] = View[k]
  <2>1. /\ HasKey(entries', k) <=> HasKey(entries, k)
        /\ HasKey(entries, k) =>
             Lookup(entries', k) = Lookup(entries, k) /\ Lookup(entries, k) \in DOMAIN entries
    BY SameLookup, KeysOnceOf
  <2>2. CASE ~HasKey(entries, k)
    BY <2>1, <2>2 DEF View
  <2>3. CASE HasKey(entries, k)
    <3>1. PICK i \in DOMAIN entries : i = Lookup(entries, k) /\ i = Lookup(entries', k)
      BY <2>1, <2>3
    <3>2. View'[k] = ValueOf(entries[i])' BY <2>1, <2>3, <3>1 DEF View, ValueOf
    <3>3. View[k] = ValueOf(entries[i]) BY <2>3, <3>1 DEF View
    <3> QED BY <3>1, <3>2, <3>3
  <2> QED BY <2>2, <2>3
<1> QED BY <1>1 DEF View

\* The catalog's files, by its definition above.
SavedMaps == [p \in Paths |-> IF disk[p] = Absent THEN Absent ELSE FileView(disk[p])]

LEMMA SavedOne ==
  ASSUME IInv, NEW p \in Paths, NEW image, disk' = [disk EXCEPT ![p] = image]
  PROVE  SavedMaps' = [SavedMaps EXCEPT ![p] = IF image = Absent THEN Absent
                                               ELSE FileView(image)]
<1>1. disk \in [Paths -> {Absent} \cup {f \in Image : GoodImage(f)}] BY DEF IInv, GoodDisk
<1> QED BY <1>1 DEF SavedMaps

LEMMA CreateCatalog ==
  ASSUME Undisturbed, IInv, NEW p \in Files, NEW c \in Codecs, Create(p, c)
  PROVE  Catalog!CatCreate(p)
<1>1. disk' = [disk EXCEPT ![p] = Absent] /\ ~isOpen /\ p \in Paths
  BY DEF Create, Undisturbed, Files
<1>2. isOpen' = TRUE /\ m_filename' = p /\ m_file_mode' = ReadWrite /\ entries' = <<>>
  BY <1>1 DEF Create, Construct, Indexes, IInv, GoodDisk
<1>3. View' = Catalog!NoKeys
  <2>1. \A k \in Keys : ~HasKey(entries', k) BY <1>2 DEF HasKey
  <2> QED BY <2>1 DEF View, Catalog!NoKeys
<1>4. SavedMaps' = [SavedMaps EXCEPT ![p] = Absent] BY <1>1, SavedOne
<1> QED BY <1>1, <1>2, <1>3, <1>4 DEF Catalog!CatCreate, Catalog!Opened, SavedMaps

LEMMA OpenCatalog ==
  ASSUME IInv, Held, NEW p \in Paths, NEW md \in {ReadOnly, ReadWrite}, Open(p, md)
  PROVE  Catalog!CatOpen(p, md)
<1>1. /\ isOpen' = TRUE /\ m_filename' = p /\ m_file_mode' = md /\ disk' = disk /\ ~isOpen
      /\ entries' = IF disk[p] = Absent THEN <<>> ELSE LoadIndex(disk[p])
      /\ disk[p] = Absent => md = ReadWrite
  BY DEF Open, Construct, Indexes, Held, Whole
<1>2. SavedMaps' = SavedMaps BY <1>1 DEF SavedMaps
<1>3. SavedMaps[p] = Absent <=> disk[p] = Absent
  BY ViewType DEF SavedMaps, Held
<1>4. View' = IF disk[p] = Absent THEN Catalog!NoKeys ELSE SavedMaps[p]
  <2>1. CASE disk[p] = Absent
    <3>1. \A k \in Keys : ~HasKey(entries', k) BY <1>1, <2>1 DEF HasKey
    <3> QED BY <2>1, <3>1 DEF View, Catalog!NoKeys
  <2>2. CASE disk[p] # Absent
    <3> DEFINE st == disk[p].stored
    <3>1. Whole(disk[p]) BY <2>2 DEF Held
    <3>2. /\ entries' = LoadIndex(disk[p]) /\ DOMAIN entries' = DOMAIN st
          /\ \A i \in DOMAIN st : entries'[i].key = st[i].key
      BY <1>1, <2>2 DEF LoadIndex
    <3>3. ASSUME NEW i \in DOMAIN st
          PROVE  ValueOf(entries[i])' =
                   ReadArray(disk[p], st[i].pos, st[i].size, st[i].codec, st[i].blocks)
      <4>1. entries'[i] = [key |-> st[i].key, dirty |-> FALSE, data |-> Unloaded,
                           pos |-> st[i].pos, size |-> st[i].size, codec |-> st[i].codec,
                           blocks |-> st[i].blocks]
        BY <3>2 DEF LoadIndex
      <4> QED BY <1>1, <2>2, <4>1 DEF ValueOf, OnDisk
    <3>4. ASSUME NEW k \in Keys PROVE View'[k] = FileView(disk[p])[k]
      <4>1. /\ HasKey(entries', k) <=> HasKey(st, k)
            /\ HasKey(st, k) => Lookup(entries', k) = Lookup(st, k) /\ Lookup(st, k) \in DOMAIN st
        BY <3>1, <3>2, SameLookup, KeysOnceOf
      <4>2. CASE ~HasKey(st, k)
        BY <4>1, <4>2 DEF View, FileView
      <4>3. CASE HasKey(st, k)
        <5>1. PICK i \in DOMAIN st : i = Lookup(st, k) /\ i = Lookup(entries', k)
          BY <4>1, <4>3
        <5>2. View'[k] = ValueOf(entries[i])' BY <4>1, <4>3, <5>1 DEF View, ValueOf
        <5> QED BY <3>3, <4>3, <5>1, <5>2 DEF FileView
      <4> QED BY <4>2, <4>3
    <3>5. View' = FileView(disk[p]) BY <3>4 DEF View, FileView
    <3> QED BY <2>2, <3>5 DEF SavedMaps
  <2> QED BY <2>1, <2>2
<1> QED BY <1>1, <1>2, <1>3, <1>4 DEF Catalog!CatOpen, Catalog!Opened, SavedMaps

LEMMA PutCatalog ==
  ASSUME Undisturbed, IInv, Held, NEW k \in Keys, NEW v \in Vals, Put(k, v)
  PROVE  Catalog!CatPut(k, v)
<1>1. PICK j \in Nat :
        /\ DOMAIN entries' = DOMAIN entries \cup {j}
        /\ j \in DOMAIN entries <=> HasKey(entries, k)
        /\ entries'[j].key = k /\ entries'[j].data = v
        /\ \A i \in DOMAIN entries : i # j => entries'[i] = entries[i]
        /\ j \in DOMAIN entries => entries[j].key = k
  BY HeldPut
<1>2. UNCHANGED <<disk, isOpen, m_filename, m_file_mode>> /\ isOpen BY DEF Put, handle
<1>3. /\ KeysOnce(entries) /\ KeysOnce(entries')
      /\ Listed(entries) /\ Listed(entries')
  <2>1. HeadersWhole BY DEF Undisturbed, HeadersWhole
  <2>2. IInv' BY PutGood
  <2> QED BY <2>1, <2>2, ListedIn DEF IInv, GoodEntries
<1>4. ASSUME NEW m \in Keys PROVE View'[m] = IF m = k THEN v ELSE View[m]
  <2>1. CASE m = k
    <3>1. HasKey(entries', k) /\ Lookup(entries', k) = j BY <1>1, <1>3, LookupIs
    <3>2. v # Unloaded BY NamesAssumption DEF Data
    <3> QED BY <1>1, <2>1, <3>1, <3>2 DEF View, ValueOf
  <2>2. CASE m # k /\ ~HasKey(entries, m)
    <3>1. ~HasKey(entries', m) BY <1>1, <2>2 DEF HasKey
    <3> QED BY <2>2, <3>1 DEF View
  <2>3. CASE m # k /\ HasKey(entries, m)
    <3>1. PICK i \in DOMAIN entries : i = Lookup(entries, m) /\ entries[i].key = m
      BY <1>3, <2>3, LookupFinds
    <3>2. i # j /\ entries'[i] = entries[i] /\ i \in DOMAIN entries' BY <1>1, <2>3, <3>1
    <3>3. HasKey(entries', m) /\ Lookup(entries', m) = i BY <1>3, <3>1, <3>2, LookupIs
    <3> QED BY <1>2, <2>3, <3>1, <3>2, <3>3 DEF View, ValueOf, OnDisk
  <2> QED BY <2>1, <2>2, <2>3
<1>5. View' = [View EXCEPT ![k] = v] BY <1>4 DEF View
<1>6. SavedMaps' = SavedMaps BY <1>2 DEF SavedMaps
<1> QED BY <1>2, <1>5, <1>6, ViewType DEF Catalog!CatPut, SavedMaps

LEMMA GetCatalog ==
  ASSUME IInv, Held, NEW k \in Keys, Get(k)
  PROVE  UNCHANGED Catalog!catVars
<1>1. View' = View BY HeldGet, SameView
<1>2. UNCHANGED <<disk, isOpen, m_filename, m_file_mode>> BY DEF Get, handle
<1> QED BY <1>1, <1>2 DEF Catalog!catVars

LEMMA FlushCatalog ==
  ASSUME Undisturbed, IInv, Held, Flush
  PROVE  Catalog!CatFlush
<1>1. View' = View BY HeldFlush, SameView
<1>2. disk' = [disk EXCEPT ![m_filename] = ImageOf(entries, m_filename)] BY HeldFlush
<1>3. SavedMaps' = [SavedMaps EXCEPT ![m_filename] = View]
  BY <1>2, SavedOne, ImageHasView DEF IInv
<1>4. UNCHANGED <<isOpen, m_filename, m_file_mode>> /\ isOpen /\ m_file_mode = ReadWrite
  BY DEF Flush, handle
<1> QED BY <1>1, <1>3, <1>4, ViewType DEF Catalog!CatFlush, SavedMaps

LEMMA EndCatalog ==
  ASSUME Undisturbed, IInv, Held
  PROVE  /\ Destroy => Catalog!CatClose
         /\ Crash => Catalog!CatCrash
<1>1. ASSUME Destroy PROVE Catalog!CatClose
  <2>1. isOpen /\ isOpen' = FALSE /\ UNCHANGED <<m_filename, m_file_mode>>
    BY <1>1 DEF Destroy, handle
  <2>2. disk' = IF m_file_mode = ReadWrite /\ ~m_flushed
                THEN [disk EXCEPT ![m_filename] = ImageOf(entries, m_filename)] ELSE disk
    BY <1>1, HeldEnd
  <2>3. SavedMaps' = IF m_file_mode = ReadWrite THEN [SavedMaps EXCEPT ![m_filename] = View]
                     ELSE SavedMaps
    <3>1. CASE m_file_mode = ReadWrite /\ ~m_flushed
      BY <2>2, <3>1, SavedOne, ImageHasView DEF IInv
    <3>2. CASE m_file_mode = ReadWrite /\ m_flushed
      <4>1. SavedMaps' = SavedMaps BY <2>2, <3>2 DEF SavedMaps
      <4>2. SavedMaps[m_filename] = View BY <3>2, FlushedHasView DEF SavedMaps, IInv
      <4>3. SavedMaps = [SavedMaps EXCEPT ![m_filename] = View] BY <4>2 DEF SavedMaps
      <4> QED BY <3>2, <4>1, <4>3
    <3>3. CASE m_file_mode # ReadWrite
      BY <2>2, <3>3 DEF SavedMaps
    <3> QED BY <3>1, <3>2, <3>3
  <2> QED BY <2>1, <2>3, ViewType DEF Catalog!CatClose, SavedMaps
<1>2. ASSUME Crash PROVE Catalog!CatCrash
  <2>1. isOpen /\ isOpen' = FALSE /\ UNCHANGED <<m_filename, m_file_mode>> /\ "crash" \in Perils
    BY <1>2 DEF Crash, handle
  <2>2. disk' = disk BY <1>2, HeldEnd
  <2> QED BY <2>1, <2>2, ViewType DEF Catalog!CatCrash
<1> QED BY <1>1, <1>2

LEMMA StepCatalog ==
  ASSUME Undisturbed, IInv, Held, [Next]_vars
  PROVE  [Catalog!CatNext]_(Catalog!catVars)
<1>1. ASSUME NEW p \in Files, NEW c \in Codecs, Create(p, c) PROVE Catalog!CatNext
  <2>1. p \in Paths BY DEF Files
  <2> QED BY <1>1, <2>1, CreateCatalog DEF Catalog!CatNext
<1>2. ASSUME NEW p \in Paths, NEW md \in {ReadOnly, ReadWrite}, Open(p, md)
      PROVE  Catalog!CatNext
  BY <1>2, OpenCatalog DEF Catalog!CatNext
<1>3. ASSUME NEW k \in Keys, NEW v \in Vals, Put(k, v) PROVE Catalog!CatNext
  BY <1>3, PutCatalog DEF Catalog!CatNext
<1>4. CASE Flush
  BY <1>4, FlushCatalog DEF Catalog!CatNext
<1>5. CASE Destroy \/ Crash
  BY <1>5, EndCatalog DEF Catalog!CatNext
<1>6. CASE UNCHANGED vars
  <2>1. View' = View BY <1>6 DEF vars, handle, View, ValueOf, OnDisk
  <2> QED BY <1>6, <2>1 DEF vars, handle, Catalog!catVars
<1>7. /\ ~SaveToUnauthorized /\ ~WriteBytes /\ ~StageFails /\ ~CrashInFlush
      /\ \A p \in Files : ~SaveTo(p)
      /\ \A p \in Paths : ~OpenUnreadable(p)
  BY DEF Undisturbed, SaveToUnauthorized, WriteBytes, StageFails, CrashInFlush, SaveTo,
         OpenUnreadable
<1> QED BY <1>1, <1>2, <1>3, <1>4, <1>5, <1>6, <1>7, GetCatalog DEF Next

LEMMA HeldInit == Init => Held
<1> SUFFICES ASSUME Init PROVE Held
  OBVIOUS
<1>1. DOMAIN entries = {} BY DEF Init
<1> QED BY <1>1, NamesAssumption DEF Init, Held

--------------------------------------------------------------------------------
(* What can be read back of an image, complete or cut short.               *)

\* Reading the array of index entry i.
ReadAt(image, i) ==
  LET s == image.stored[i] IN ReadArray(image, s.pos, s.size, s.codec, s.blocks)

\* A range of the array that a file is too short for.
CutOff(image, i) ==
  image.stored[i].pos + image.stored[i].size > image.length /\ image.stored[i].size > 0

\* A file shows the array its index finds for a key.
LEMMA FileViewAt ==
  ASSUME NEW image, NEW k \in Keys, HasKey(image.stored, k)
  PROVE  FileView(image)[k] = ReadAt(image, Lookup(image.stored, k))
BY DEF FileView, ReadAt

\* What flush_internal() stores of an entry, and where.
LEMMA StoredIs ==
  ASSUME NEW es, NEW path, NEW i \in DOMAIN es
  PROVE  LET s == ImageOf(es, path).stored[i]
             c == Compressed(es[i], SourceImage(path))
         IN s.codec = es[i].codec /\ s.size = c.size /\ s.blocks = c.blocks /\ s.bytes = c.bytes
BY DEF ImageOf

\* What the image holds of a changed array.
LEMMA DirtyStored ==
  ASSUME IInv, NEW es, GoodEntries(es), NEW path, NEW i \in DOMAIN es, es[i].dirty
  PROVE  LET s == ImageOf(es, path).stored[i]
         IN /\ s.codec = es[i].codec
            /\ es[i].data = Empty => ~s.blocks
            /\ es[i].data # Empty => /\ s.bytes = [val |-> es[i].data, codec |-> m_config]
                                     /\ s.blocks /\ s.size \in Nat /\ s.size > 0
<1> DEFINE s == ImageOf(es, path).stored[i]
           w == Weight[es[i].data][m_config]
<1>1. es[i].data \in Data /\ m_config \in Codecs
  <2>1. es[i] \in Entry /\ es[i].data # Unloaded BY DEF GoodEntries
  <2> QED BY <2>1 DEF Entry, IInv
<1>2. w \in Nat /\ (es[i].data # Empty => w > 0)
  <2>1. w \in Nat /\ (w = 0 <=> es[i].data = Empty) BY <1>1, SizesAssumption
  <2> HIDE DEF w
  <2> QED BY <2>1
<1> DEFINE c == Compressed(es[i], SourceImage(path))
<1>3. s.codec = es[i].codec /\ s.size = c.size /\ s.blocks = c.blocks /\ s.bytes = c.bytes
  BY StoredIs
<1>4. c = IF es[i].data = Empty
          THEN [bytes |-> JunkBytes, size |-> es[i].size, blocks |-> FALSE]
          ELSE [bytes |-> [val |-> es[i].data, codec |-> m_config], size |-> w, blocks |-> TRUE]
  BY DEF Compressed
<1> HIDE DEF c, s, w
<1> QED BY <1>2, <1>3, <1>4 DEF s

\* A changed array reads back as it is, in the codec it was given by put().
LEMMA DirtyReads ==
  ASSUME IInv, NEW es, GoodEntries(es), NEW path \in Paths, NEW i \in DOMAIN es,
         es[i].dirty, es[i].codec = m_config,
         NEW image, GoodImage(image), image.stored = ImageOf(es, path).stored
  PROVE  ReadAt(image, i) = IF CutOff(image, i) THEN Absent ELSE es[i].data
<1> DEFINE s == image.stored[i]
<1>1. /\ s.codec = m_config
      /\ es[i].data = Empty => ~s.blocks
      /\ es[i].data # Empty => /\ s.bytes = [val |-> es[i].data, codec |-> m_config]
                               /\ s.blocks /\ s.size > 0
  BY DirtyStored
<1>2. s.size \in Nat /\ s.pos \in Nat /\ image.length \in Nat /\ i \in DOMAIN image.stored
  <2>1. DOMAIN image.stored = DOMAIN es BY ImageOfGood DEF IInv
  <2>2. image.stored[i] \in Stored BY <2>1 DEF GoodImage, Image
  <2> QED BY <2>1, <2>2 DEF GoodImage, Image, Stored
<1> HIDE DEF s
<1>3. CASE es[i].data = Empty
  BY <1>1, <1>2, <1>3 DEF ReadAt, ReadArray, CutOff, s
<1>4. CASE es[i].data # Empty
  <2>1. At(image, s.pos, s.size) = {s} BY <1>1, <1>2, <1>4, AtLaid DEF s
  <2>2. (CHOOSE t \in {s} : t.bytes.codec = s.codec) = s BY <1>1, <1>4
  <2> QED BY <1>1, <1>2, <1>4, <2>1, <2>2 DEF ReadAt, ReadArray, CutOff, s
<1> QED BY <1>3, <1>4

\* Staging loads and marks every entry, and changes nothing else.
LEMMA StagedIs ==
  ASSUME IInv, StageAll, NEW i \in DOMAIN entries
  PROVE  LET e == Staged(Len(entries))[i]
         IN /\ e.dirty /\ e.data = ValueOf(entries[i])
            /\ e.key = entries[i].key /\ e.codec = entries[i].codec
<1>1. /\ entries[i] \in Entry /\ DOMAIN entries = 1 .. Len(entries) /\ Len(entries) \in Nat
  BY DEF IInv, GoodEntries
<1>2. Staged(Len(entries))[i] =
        [entries[i] EXCEPT !.dirty = TRUE,
           !.data = IF @ = Unloaded THEN OnDisk(entries[i]) ELSE @]
  BY <1>1 DEF Staged
<1> DEFINE v == IF entries[i].data = Unloaded THEN OnDisk(entries[i]) ELSE entries[i].data
<1>3. Staged(Len(entries))[i] = [entries[i] EXCEPT !.dirty = TRUE, !.data = v]
  BY <1>1, <1>2 DEF Entry
<1>4. v = ValueOf(entries[i]) BY DEF ValueOf
<1> HIDE DEF v
<1> QED BY <1>1, <1>3, <1>4 DEF Entry

\* The image of the staged entries, in one codec, holds what the handle shows.
LEMMA StagedHasView ==
  ASSUME IInv, StageAll, \A i \in DOMAIN entries : entries[i].codec = m_config,
         NEW path \in Paths
  PROVE  FileView(ImageOf(Staged(Len(entries)), path)) = View
<1> DEFINE es == Staged(Len(entries))
           image == ImageOf(es, path)
<1>1. Len(entries) \in Nat /\ DOMAIN entries = 1 .. Len(entries) /\ DOMAIN es = DOMAIN entries
  BY DEF IInv, GoodEntries, Staged
<1>2. GoodEntries(es) BY <1>1, StagedGood DEF StageAll
<1>3. \A i \in DOMAIN entries :
        /\ es[i].dirty /\ es[i].data = ValueOf(entries[i])
        /\ es[i].key = entries[i].key /\ es[i].codec = m_config
  BY StagedIs
<1> HIDE DEF es
<1>4. /\ GoodImage(image) /\ DOMAIN image.stored = DOMAIN es
      /\ \A i \in DOMAIN es : /\ image.stored[i].key = es[i].key
                              /\ image.stored[i].pos + image.stored[i].size <= image.length
  BY <1>2, ImageOfGood DEF IInv
<1>5. ASSUME NEW i \in DOMAIN entries PROVE ReadAt(image, i) = ValueOf(entries[i])
  <2>1. ~CutOff(image, i)
    <3>1. image.stored[i] \in Stored /\ image.length \in Nat
      BY <1>1, <1>4 DEF GoodImage, Image
    <3> HIDE DEF image
    <3> QED BY <1>1, <1>4, <3>1 DEF CutOff, Stored
  <2> QED BY <1>1, <1>2, <1>3, <1>4, <2>1, DirtyReads
<1> HIDE DEF image
<1>6. ASSUME NEW k \in Keys PROVE FileView(image)[k] = View[k]
  <2>1. /\ HasKey(image.stored, k) <=> HasKey(entries, k)
        /\ HasKey(entries, k) =>
             Lookup(image.stored, k) = Lookup(entries, k) /\ Lookup(entries, k) \in DOMAIN entries
    BY <1>1, <1>3, <1>4, SameLookup, KeysOnceOf
  <2>2. CASE ~HasKey(entries, k)
    BY <2>1, <2>2 DEF FileView, View
  <2>3. CASE HasKey(entries, k)
    BY <1>5, <2>1, <2>3 DEF FileView, View, ReadAt
  <2> QED BY <2>2, <2>3
<1>7. FileView(image) = View BY <1>6 DEF FileView, View
<1> QED BY <1>7 DEF image, es

--------------------------------------------------------------------------------
(* What a local write that dies or stops early leaves.                     *)

NoCopies == Perils \cap {"save_to", "write_bytes"} = {}

\* Blocks have a size.
Sized(s) == s.blocks => s.size > 0

\* What the files and every entry keep then.  A changed array has the codec of the
\* handle: staging would mark one of another codec.
Honest ==
  /\ disk[Memory] = Absent /\ m_filename \in Files
  /\ \A i \in DOMAIN entries : entries[i].dirty => entries[i].codec = m_config

\* Where blocks are looked for there is one array or none.
LEMMA AtMostOne ==
  ASSUME NEW image, GoodImage(image), NEW pos \in Nat, NEW size \in Nat, size > 0,
         NEW s \in At(image, pos, size)
  PROVE  At(image, pos, size) = {s}
<1>1. PICK i \in DOMAIN image.stored :
        s = image.stored[i] /\ image.stored[i].pos = pos /\ image.stored[i].size = size
  BY DEF At
<1> QED BY <1>1, AtLaid

\* A clean array reads in the image as it did in the old file.
LEMMA CleanReads ==
  ASSUME IInv, m_filename \notin Remote,
         NEW i \in DOMAIN entries, ~entries[i].dirty, OnDisk(entries[i]) # Absent,
         NEW image, GoodImage(image), image.stored = ImageOf(entries, m_filename).stored
  PROVE  ReadAt(image, i) = IF CutOff(image, i) THEN Absent ELSE OnDisk(entries[i])
<1> DEFINE e == entries[i]
           s == image.stored[i]
           old == disk[m_filename]
           at == At(old, e.pos, e.size)
<1>1. e \in Entry BY DEF IInv, GoodEntries
<1>2. old # Absent BY DEF OnDisk
<1>3. GoodImage(old) /\ SourceImage(m_filename) = old
  BY <1>2 DEF IInv, GoodDisk, GoodImage, SourceImage
<1> DEFINE src == IF e.pos + e.size <= old.length THEN at ELSE {}
           byt == IF src = {} THEN JunkBytes ELSE (CHOOSE t \in src : TRUE).bytes
<1>4. s.codec = e.codec /\ s.size = e.size /\ s.blocks = e.blocks /\ s.bytes = byt
  <2> DEFINE c == Compressed(e, SourceImage(m_filename))
  <2>1. s.codec = e.codec /\ s.size = c.size /\ s.blocks = c.blocks /\ s.bytes = c.bytes
    BY StoredIs
  <2>2. c = [bytes |-> byt, size |-> e.size, blocks |-> e.blocks]
    BY <1>3 DEF Compressed
  <2> HIDE DEF c, s, byt
  <2> QED BY <2>1, <2>2
<1>5. s.size \in Nat /\ s.pos \in Nat /\ image.length \in Nat /\ i \in DOMAIN image.stored
  <2>1. DOMAIN image.stored = DOMAIN entries BY ImageOfGood DEF IInv
  <2>2. image.stored[i] \in Stored BY <2>1 DEF GoodImage, Image
  <2> QED BY <2>1, <2>2 DEF GoodImage, Image, Stored
<1>6. e.pos \in Nat /\ e.size \in Nat /\ e.blocks \in BOOLEAN /\ old.length \in Nat
  BY <1>1, <1>3 DEF Entry, GoodImage, Image
<1>7. OnDisk(e) = ReadArray(old, e.pos, e.size, e.codec, e.blocks) BY <1>2 DEF OnDisk
<1>8. CASE ~e.blocks
  <2>1. OnDisk(e) = Empty BY <1>6, <1>7, <1>8 DEF ReadArray
  <2> HIDE DEF e, s
  <2> QED BY <1>4, <1>5, <1>8, <2>1 DEF ReadAt, ReadArray, CutOff, s, e
<1>a. CASE e.blocks /\ ~(e.size > 0)
  <2>1. at = {} BY <1>a DEF At
  <2>2. OnDisk(e) = Junk BY <1>6, <1>7, <1>a, <2>1 DEF ReadArray
  <2> HIDE DEF e, s, at, src, byt
  <2>3. At(image, s.pos, s.size) = {} BY <1>4, <1>a DEF At
  <2> QED BY <1>4, <1>5, <1>a, <2>2, <2>3 DEF ReadAt, ReadArray, CutOff, s, e
<1>9. CASE e.blocks /\ e.size > 0
  <2>1. e.size > 0 BY <1>9
  <2>2. e.pos + e.size <= old.length BY <1>6, <1>7, <2>1 DEF ReadArray
  <2>3. OnDisk(e) = IF \E t \in at : t.bytes.codec = e.codec
                    THEN (CHOOSE t \in at : t.bytes.codec = e.codec).bytes.val
                    ELSE Junk
    BY <1>6, <1>7, <1>9, <2>2 DEF ReadArray
  <2>4. s.bytes = IF at = {} THEN JunkBytes ELSE (CHOOSE t \in at : TRUE).bytes
    BY <1>4, <2>2
  <2>5. OnDisk(e) = IF s.bytes.codec = e.codec THEN s.bytes.val ELSE Junk
    <3> HIDE DEF at, s, e
    <3>1. CASE at = {}
      BY <2>3, <2>4, <3>1 DEF JunkBytes
    <3>2. CASE at # {}
      <4>1. PICK t : t \in at BY <3>2
      <4>2. at = {t} BY <1>3, <1>6, <2>1, <4>1, AtMostOne DEF at
      <4>3. (CHOOSE u \in {t} : TRUE) = t OBVIOUS
      <4>4. t.bytes.codec = e.codec => (CHOOSE u \in {t} : u.bytes.codec = e.codec) = t
        OBVIOUS
      <4> QED BY <2>3, <2>4, <4>2, <4>3, <4>4
    <3> QED BY <3>1, <3>2
  <2>6. At(image, s.pos, s.size) = {s} BY <1>4, <1>5, <2>1, AtLaid
  <2> HIDE DEF e, s, at
  <2>7. s.bytes.codec = s.codec => (CHOOSE t \in {s} : t.bytes.codec = s.codec) = s OBVIOUS
  <2> QED BY <1>4, <1>5, <1>9, <2>5, <2>6, <2>7 DEF ReadAt, ReadArray, CutOff, s, e
<1> QED BY <1>6, <1>8, <1>a, <1>9

\* So what any prefix of the image shows of an array is its value or nothing.
LEMMA PrefixNeverLies ==
  ASSUME IInv, Honest, m_filename \notin Remote,
         NEW k \in Keys, HasKey(entries, k), NEW e, e = entries[Lookup(entries, k)],
         e.dirty \/ OnDisk(e) \in {ValueOf(e)} \ {Absent},
         NEW image, GoodImage(image), image.stored = ImageOf(entries, m_filename).stored
  PROVE  FileView(image)[k] \in {ValueOf(e), Absent}
<1> DEFINE i == Lookup(entries, k)
<1>1. GoodEntries(entries) /\ Listed(entries) BY ListedIn DEF IInv
<1>2. /\ DOMAIN image.stored = DOMAIN entries
      /\ \A j \in DOMAIN entries : image.stored[j].key = entries[j].key
  BY <1>1, ImageOfGood DEF IInv
<1>3. /\ HasKey(image.stored, k) /\ Lookup(image.stored, k) = i
      /\ i \in DOMAIN entries
  BY <1>1, <1>2, SameLookup
<1>4. FileView(image)[k] = ReadAt(image, i) BY <1>3, FileViewAt
<1> HIDE DEF i
<1>5. e = entries[i] BY DEF i
<1>6. CASE e.dirty
  <2>1. e.codec = m_config BY <1>3, <1>5, <1>6 DEF Honest
  <2>2. e.data = ValueOf(e) BY <1>1, <1>3, <1>5, <1>6 DEF GoodEntries, ValueOf
  <2>3. m_filename \in Paths BY DEF IInv
  <2>4. ReadAt(image, i) = IF CutOff(image, i) THEN Absent ELSE e.data
    BY <1>1, <1>3, <1>5, <1>6, <2>1, <2>3, DirtyReads
  <2> QED BY <1>4, <2>2, <2>4
<1>7. CASE ~e.dirty
  BY <1>3, <1>4, <1>5, <1>7, CleanReads DEF Honest
<1> QED BY <1>6, <1>7

\* What a sink leaves under its path, when it leaves anything.
LEMMA OutcomeIs ==
  ASSUME IInv, NEW es, GoodEntries(es), NEW path \in Paths, NEW o \in FlushOutcomes(es, path)
  PROVE  \/ /\ o.flushed = TRUE /\ o.entries = Cleaned(Relaid(es, path))
            /\ \E image : /\ GoodImage(image) /\ image.stored = ImageOf(es, path).stored
                          /\ o.disk = [disk EXCEPT ![path] = image]
         \/ o.flushed = FALSE /\ o.entries = Relaid(es, path) /\ o.disk = disk
<1> DEFINE image == ImageOf(es, path)
           done(written) == [disk |-> [disk EXCEPT ![path] = written],
                             entries |-> Cleaned(Relaid(es, path)), flushed |-> TRUE]
<1>1. GoodImage(image) BY ImageOfGood DEF IInv
<1>2. \/ o = done(image)
      \/ o = [disk |-> disk, entries |-> Relaid(es, path), flushed |-> FALSE]
      \/ ~HeadersWhole /\ \E cut \in Cuts(image) : o = done([image EXCEPT !.length = cut])
  BY DEF FlushOutcomes, HeadersWhole
<1>3. ~HeadersWhole =>
        \A cut \in Cuts(image) : /\ GoodImage([image EXCEPT !.length = cut])
                                /\ [image EXCEPT !.length = cut].stored = image.stored
  BY <1>1, CutGood DEF GoodImage, Image
<1> HIDE DEF image
<1>4. CASE o = done(image)
  BY <1>1, <1>4 DEF image
<1>5. CASE o = [disk |-> disk, entries |-> Relaid(es, path), flushed |-> FALSE]
  BY <1>5
<1>6. CASE ~HeadersWhole /\ \E cut \in Cuts(image) : o = done([image EXCEPT !.length = cut])
  <2>1. PICK cut \in Cuts(image) : o = done([image EXCEPT !.length = cut]) BY <1>6
  <2> DEFINE part == [image EXCEPT !.length = cut]
  <2>2. GoodImage(part) /\ part.stored = image.stored BY <1>3, <1>6
  <2>3. o = done(part) BY <2>1
  <2> HIDE DEF part
  <2> QED BY <2>2, <2>3 DEF image
<1> QED BY <1>2, <1>4, <1>5, <1>6

\* The entries after a flush or a refused one: the same arrays, laid out anew.
LEMMA RelaidIs ==
  ASSUME NEW es, GoodEntries(es), NEW path, NEW i \in DOMAIN es,
         NEW new, new = Relaid(es, path) \/ new = Cleaned(Relaid(es, path))
  PROVE  /\ DOMAIN new = DOMAIN es
         /\ new[i].key = es[i].key /\ new[i].data = es[i].data
         /\ new[i].codec = es[i].codec
         /\ new[i].pos = ImageOf(es, path).stored[i].pos
         /\ new[i].size = ImageOf(es, path).stored[i].size
         /\ new[i].blocks = ImageOf(es, path).stored[i].blocks
         /\ new[i].dirty => es[i].dirty
         /\ new = Relaid(es, path) => new[i].dirty = es[i].dirty
<1> DEFINE x == ImageOf(es, path).stored[i].pos
           y == ImageOf(es, path).stored[i].size
           z == ImageOf(es, path).stored[i].blocks
           r == Relaid(es, path)[i]
<1>1. DOMAIN new = DOMAIN es BY DEF Relaid, Cleaned
<1>2. es[i] \in Entry BY DEF GoodEntries
<1>3. r = [es[i] EXCEPT !.pos = x, !.size = y, !.blocks = z] BY DEF Relaid
<1>4. /\ new = Relaid(es, path) => new[i] = r
      /\ new = Cleaned(Relaid(es, path)) => new[i] = [r EXCEPT !.dirty = FALSE]
  BY <1>1 DEF Cleaned, Relaid
<1> HIDE DEF x, y, z, r
<1>5. /\ r.key = es[i].key /\ r.data = es[i].data /\ r.codec = es[i].codec
      /\ r.pos = x /\ r.size = y /\ r.blocks = z /\ r.dirty = es[i].dirty
  BY <1>2, <1>3 DEF Entry
<1>6. /\ new[i].key = r.key /\ new[i].data = r.data /\ new[i].codec = r.codec
      /\ new[i].pos = r.pos /\ new[i].size = r.size /\ new[i].blocks = r.blocks
      /\ new[i].dirty => r.dirty
      /\ new = Relaid(es, path) => new[i].dirty = r.dirty
  <2>1. CASE new = Relaid(es, path) BY <1>4, <2>1
  <2>2. CASE new # Relaid(es, path)
    <3>1. new[i] = [r EXCEPT !.dirty = FALSE] BY <1>4, <2>2
    <3>2. r = [es[i] EXCEPT !.pos = x, !.size = y, !.blocks = z] BY <1>3
    <3> QED BY <1>2, <2>2, <3>1, <3>2 DEF Entry
  <2> QED BY <2>1, <2>2
<1> QED BY <1>1, <1>5, <1>6 DEF x, y, z

\* Every block list of the image has a size.
LEMMA ImageSized ==
  ASSUME IInv, NEW es, GoodEntries(es), NEW path, NEW i \in DOMAIN es, Sized(es[i])
  PROVE  Sized(ImageOf(es, path).stored[i])
<1> DEFINE c == Compressed(es[i], SourceImage(path))
           s == ImageOf(es, path).stored[i]
<1>1. s.size = c.size /\ s.blocks = c.blocks BY StoredIs
<1>2. CASE es[i].dirty
  BY <1>2, DirtyStored DEF Sized
<1>3. CASE ~es[i].dirty
  <2>1. c.size = es[i].size /\ c.blocks = es[i].blocks BY <1>3 DEF Compressed
  <2> HIDE DEF c, s
  <2> QED BY <1>1, <2>1 DEF Sized, s
<1> QED BY <1>2, <1>3

LEMMA HonestGone ==
  ASSUME IInv, Honest, entries' = <<>>, m_filename' = m_filename,
         \/ disk' = disk
         \/ disk' = [disk EXCEPT ![Memory] = Absent]
         \/ \E image : \/ disk' = [disk EXCEPT ![m_filename] = image]
                       \/ disk' = [disk EXCEPT ![m_filename] = image, ![Memory] = Absent]
  PROVE  Honest'
<1>1. DOMAIN entries' = {} OBVIOUS
<1>2. /\ disk \in [Paths -> {Absent} \cup {f \in Image : GoodImage(f)}]
      /\ m_filename \in Paths /\ m_filename # Memory /\ Memory \in Paths
  BY NamesAssumption DEF IInv, GoodDisk, Honest, Files
<1>3. disk'[Memory] = Absent BY <1>2 DEF Honest
<1> QED BY <1>1, <1>3 DEF Honest

LEMMA HonestOpen ==
  ASSUME IInv, Honest, NEW p \in Files, NEW md, NEW c, NEW index,
         \A i \in DOMAIN index : ~index[i].dirty, Construct(index, p, md, c),
         disk' = disk \/ disk' = [disk EXCEPT ![p] = Absent]
  PROVE  Honest'
<1>1. disk'[Memory] = Absent
  BY NamesAssumption DEF Honest, IInv, GoodDisk, Files
<1>2. m_filename' = p /\ entries' = index BY DEF Construct
<1> QED BY <1>1, <1>2 DEF Honest

LEMMA HonestPut ==
  ASSUME IInv, Honest, NEW k \in Keys, NEW v \in Vals, Put(k, v)
  PROVE  /\ Honest'
         /\ \A i \in DOMAIN entries : entries[i].dirty => entries'[i].dirty
<1>1. /\ entries \in Seq(Entry) /\ DOMAIN entries = 1 .. Len(entries) /\ Len(entries) \in Nat
      /\ \A i \in DOMAIN entries : entries[i] \in Entry
  BY DEF IInv, GoodEntries
<1> DEFINE old == IF HasKey(entries, k) THEN entries[Lookup(entries, k)] ELSE NewEntry(k)
           new == PutEntry(old, v)
<1>2. old \in Entry
  BY <1>1, LookupFinds, ListedIn, NamesAssumption DEF NewEntry, Entry, IInv
<1> HIDE DEF old
<1>3. new.dirty /\ new.codec = m_config /\ ~new.blocks
  BY <1>2 DEF PutEntry, Entry
<1>4. UNCHANGED <<disk, m_filename, m_config>> BY DEF Put, handle
<1> HIDE DEF new
<1>5. /\ \A i \in DOMAIN entries' :
           entries'[i] = new \/ (i \in DOMAIN entries /\ entries'[i] = entries[i])
      /\ \A i \in DOMAIN entries : i \in DOMAIN entries'
  <2>1. CASE HasKey(entries, k)
    <3>1. entries' = [entries EXCEPT ![Lookup(entries, k)] = new] BY <2>1 DEF Put, old, new
    <3> QED BY <3>1
  <2>2. CASE ~HasKey(entries, k)
    <3>1. entries' = Append(entries, new) BY <2>2 DEF Put, old, new
    <3>2. /\ DOMAIN entries' = 1 .. Len(entries) + 1 /\ entries'[Len(entries) + 1] = new
          /\ \A i \in 1 .. Len(entries) : entries'[i] = entries[i]
      BY <1>1, <3>1
    <3> QED BY <1>1, <3>2
  <2> QED BY <2>1, <2>2
<1> QED BY <1>3, <1>4, <1>5 DEF Honest, Sized

LEMMA HonestGet ==
  ASSUME IInv, Honest, NEW k \in Keys, Get(k)
  PROVE  /\ Honest' /\ DOMAIN entries' = DOMAIN entries
         /\ \A i \in DOMAIN entries : entries'[i].dirty = entries[i].dirty
<1> DEFINE j == Lookup(entries, k)
           d == OnDisk(entries[j])
<1>1. /\ entries' = [entries EXCEPT ![j] = [entries[j] EXCEPT !.data = d]]
      /\ UNCHANGED <<disk, m_filename, m_config>>
  BY DEF Get, handle
<1>2. \A i \in DOMAIN entries : entries[i] \in Entry BY DEF IInv, GoodEntries
<1>3. j \in DOMAIN entries BY LookupFinds, ListedIn DEF Get, IInv
<1> HIDE DEF j, d
<1>4. DOMAIN entries' = DOMAIN entries BY <1>1
<1>5. ASSUME NEW i \in DOMAIN entries
      PROVE  /\ entries'[i].dirty = entries[i].dirty /\ entries'[i].codec = entries[i].codec
             /\ entries'[i].size = entries[i].size /\ entries'[i].blocks = entries[i].blocks
  <2>1. CASE i = j
    <3>1. entries'[i] = [entries[i] EXCEPT !.data = d] BY <1>1, <1>3, <2>1
    <3> QED BY <1>2, <3>1 DEF Entry
  <2>2. CASE i # j
    BY <1>1, <2>2
  <2> QED BY <2>1, <2>2
<1> QED BY <1>1, <1>4, <1>5 DEF Honest, Sized

LEMMA HonestFlush ==
  ASSUME IInv, Honest, Flush
  PROVE  Honest'
<1>1. GoodEntries(entries) /\ m_filename \in Paths BY DEF IInv
<1>2. PICK o \in FlushOutcomes(entries, m_filename) : disk' = o.disk /\ entries' = o.entries
  BY DEF Flush
<1>3. UNCHANGED <<m_filename, m_config>> BY DEF Flush, handle
<1>4. /\ entries' \in {Relaid(entries, m_filename), Cleaned(Relaid(entries, m_filename))}
      /\ \/ disk' = disk
         \/ \E image : /\ image.stored = ImageOf(entries, m_filename).stored
                       /\ disk' = [disk EXCEPT ![m_filename] = image]
  BY <1>1, <1>2, OutcomeIs, ZenonT(40)
<1>5. DOMAIN entries' = DOMAIN entries BY <1>4 DEF Relaid, Cleaned
<1>6. \A i \in DOMAIN entries : entries'[i].dirty => entries'[i].codec = m_config
  <2>1. ASSUME NEW i \in DOMAIN entries
        PROVE  /\ entries'[i].codec = entries[i].codec
               /\ entries'[i].dirty => entries[i].dirty
    BY <1>1, <1>4, RelaidIs
  <2> QED BY <2>1 DEF Honest
<1>7. /\ disk \in [Paths -> {Absent} \cup {f \in Image : GoodImage(f)}]
      /\ m_filename # Memory /\ Memory \in Paths
  BY NamesAssumption DEF IInv, GoodDisk, Honest, Files
<1>8. disk'[Memory] = Absent BY <1>4, <1>7 DEF Honest
<1> QED BY <1>3, <1>5, <1>6, <1>8 DEF Honest

\* What the steps that end a handle leave on disk.
LEMMA EndLeaves ==
  ASSUME IInv, Destroy \/ Crash \/ CrashInFlush
  PROVE  \/ disk' = disk
         \/ disk' = [disk EXCEPT ![Memory] = Absent]
         \/ \E image : /\ GoodImage(image) /\ image.stored = ImageOf(entries, m_filename).stored
                       /\ \/ disk' = [disk EXCEPT ![m_filename] = image]
                          \/ disk' = [disk EXCEPT ![m_filename] = image, ![Memory] = Absent]
<1>1. CASE Destroy
  <2>1. GoodEntries(entries) /\ m_filename \in Paths BY DEF IInv
  <2>2. CASE disk' = disk BY <2>2
  <2>3. CASE disk' # disk
    <3>1. PICK o \in FlushOutcomes(entries, m_filename) : disk' = o.disk
      BY <1>1, <2>3 DEF Destroy
    <3>2. \E image : /\ GoodImage(image)
                     /\ image.stored = ImageOf(entries, m_filename).stored
                     /\ o.disk = [disk EXCEPT ![m_filename] = image]
      BY <2>1, <2>3, <3>1, OutcomeIs
    <3> QED BY <3>1, <3>2
  <2> QED BY <2>2, <2>3
<1>2. CASE Crash
  BY <1>2 DEF Crash
<1>3. CASE CrashInFlush
  <2> DEFINE image == ImageOf(entries, m_filename)
  <2>1. GoodImage(image) BY ImageOfGood DEF IInv
  <2>2. PICK cut \in Cuts(image) :
          disk' = [disk EXCEPT ![m_filename] = [image EXCEPT !.length = cut],
                               ![Memory] = Absent]
    BY <1>3 DEF CrashInFlush
  <2>3. /\ GoodImage([image EXCEPT !.length = cut])
        /\ [image EXCEPT !.length = cut].stored = image.stored
    BY <1>3, <2>1, CutGood DEF GoodImage, Image, CrashInFlush, HeadersWhole
  <2> QED BY <2>2, <2>3
<1> QED BY <1>1, <1>2, <1>3

LEMMA HonestKeeps ==
  ASSUME NoCopies, IInv, Honest, [Next]_vars
  PROVE  Honest'
<1>0. ASSUME NEW d, NEW p \in Paths, d = Absent \/ d = disk[p], NEW index \in Indexes(d)
      PROVE  \A i \in DOMAIN index : ~index[i].dirty
  BY <1>0, IndexesGood DEF IInv, GoodDisk
<1>1. ASSUME NEW p \in Files, NEW c \in Codecs, Create(p, c) PROVE Honest'
  <2>1. PICK index \in Indexes(disk'[p]) : Construct(index, p, ReadWrite, c)
    BY <1>1 DEF Create
  <2>2. /\ p \in Paths /\ (disk' = disk \/ disk' = [disk EXCEPT ![p] = Absent])
        /\ disk'[p] = Absent \/ disk'[p] = disk[p]
    BY <1>1 DEF Create, Files, IInv, GoodDisk
  <2> QED BY <1>0, <2>1, <2>2, HonestOpen
<1>2. ASSUME NEW p \in Paths, NEW md \in {ReadOnly, ReadWrite}, Open(p, md) PROVE Honest'
  <2>1. p \in Files BY <1>2 DEF Open, Honest, Files
  <2>2. PICK index \in Indexes(disk[p]) : Construct(index, p, md, DefaultCodec)
    BY <1>2 DEF Open
  <2> QED BY <1>0, <1>2, <2>1, <2>2, HonestOpen DEF Open
<1>3. ASSUME NEW p \in Paths, OpenUnreadable(p) PROVE Honest'
  <2>1. p \in Files BY <1>3 DEF OpenUnreadable, Honest, Files
  <2>2. \A i \in DOMAIN <<>> : ~<<>>[i].dirty OBVIOUS
  <2> QED BY <1>3, <2>1, <2>2, HonestOpen DEF OpenUnreadable
<1>4. CASE Destroy \/ Crash \/ CrashInFlush
  <2>1. entries' = <<>> /\ m_filename' = m_filename
    BY <1>4 DEF Destroy, Crash, CrashInFlush, handle
  <2> QED BY <1>4, <2>1, EndLeaves, HonestGone
<1>5. CASE UNCHANGED vars
  BY <1>5 DEF vars, Honest
<1>6. /\ ~SaveToUnauthorized /\ ~WriteBytes /\ ~StageFails
      /\ \A p \in Files : ~SaveTo(p)
  BY DEF NoCopies, SaveToUnauthorized, WriteBytes, StageFails, SaveTo
<1> QED BY <1>1, <1>2, <1>3, <1>4, <1>5, <1>6, HonestPut, HonestGet, HonestFlush DEF Next

--------------------------------------------------------------------------------
(* Serving copies: save_to(), write_bytes(), and staging that fails.       *)

\* Local files that are written whole; S3 may take no upload and answer no read,
\* arrays may be saved elsewhere and captured, and the process may die.
WholeLocalFiles == Remote = {} /\ Perils \cap {"locked", "partial", "torn"} = {}

\* Every array of every file is there in full, under whatever codec, and so is
\* that of every entry that is yet to be loaded.
InFull(image, pos, size) == image # Absent /\ pos + size <= image.length
Servable ==
  /\ \A p \in Paths : disk[p] # Absent =>
       \A i \in DOMAIN disk[p].stored :
         LET s == disk[p].stored[i] IN Sized(s) /\ InFull(disk[p], s.pos, s.size)
  /\ \A i \in DOMAIN entries :
       /\ Sized(entries[i])
       /\ entries[i].data = Unloaded =>
            InFull(disk[m_filename], entries[i].pos, entries[i].size)

\* An entry that can be loaded shows an array.
LEMMA InFullReads ==
  ASSUME IInv, Servable, NEW i \in DOMAIN entries, entries[i].data = Unloaded
  PROVE  OnDisk(entries[i]) \in Data /\ OnDisk(entries[i]) # Absent
<1> DEFINE e == entries[i]
           image == disk[m_filename]
<1>1. e \in Entry BY DEF IInv, GoodEntries
<1>2. image # Absent /\ e.pos + e.size <= image.length BY DEF Servable, InFull
<1>3. image \in Image BY <1>2 DEF IInv, GoodDisk
<1>4. e.pos \in Nat /\ e.size \in Nat /\ e.blocks \in BOOLEAN /\ image.length \in Nat
  BY <1>1, <1>3 DEF Entry, Image
<1>5. OnDisk(e) = ReadArray(image, e.pos, e.size, e.codec, e.blocks) BY <1>2 DEF OnDisk
<1>6. OnDisk(e) \in Data
  <2> DEFINE at == At(image, e.pos, e.size)
  <2>1. at \subseteq Stored BY <1>3 DEF At, Image
  <2>2. \A s \in at : s.bytes.val \in Data BY <2>1 DEF Stored, Bytes
  <2>3. OnDisk(e) \in {Empty, Junk}
        \/ ((\E s \in at : s.bytes.codec = e.codec)
            /\ OnDisk(e) = (CHOOSE s \in at : s.bytes.codec = e.codec).bytes.val)
    BY <1>2, <1>4, <1>5 DEF ReadArray
  <2> HIDE DEF at
  <2> QED BY <2>2, <2>3, NamesAssumption DEF Data
<1> QED BY <1>6, AbsentAssumption

\* Loading one entry changes nothing that is shown.
LEMMA GetShowsTheSame ==
  ASSUME IInv, NEW k \in Keys, Get(k)
  PROVE  /\ UNCHANGED <<disk, m_filename>> /\ DOMAIN entries' = DOMAIN entries
         /\ \A i \in DOMAIN entries :
              /\ entries'[i].key = entries[i].key
              /\ entries'[i].size = entries[i].size /\ entries'[i].blocks = entries[i].blocks
              /\ entries'[i].data = Unloaded => entries'[i] = entries[i]
              /\ ValueOf(entries[i])' = ValueOf(entries[i])
<1> DEFINE j == Lookup(entries, k)
           d == OnDisk(entries[j])
<1>1. /\ entries' = [entries EXCEPT ![j] = [entries[j] EXCEPT !.data = d]]
      /\ UNCHANGED <<disk, m_filename>>
      /\ entries[j].data = Unloaded /\ d # Absent
  BY DEF Get, handle
<1>2. \A i \in DOMAIN entries : entries[i] \in Entry BY DEF IInv, GoodEntries
<1>3. j \in DOMAIN entries BY LookupFinds, ListedIn DEF Get, IInv
<1>4. d # Unloaded
  <2>1. d \in Data \cup {Absent} BY <1>2, <1>3, OnDiskType
  <2> QED BY <1>1, <2>1, NamesAssumption
<1>5. d = ValueOf(entries[j]) BY <1>1 DEF ValueOf
<1> HIDE DEF j, d
<1>6. DOMAIN entries' = DOMAIN entries BY <1>1
<1>7. ASSUME NEW i \in DOMAIN entries
      PROVE  /\ entries'[i].key = entries[i].key
             /\ entries'[i].size = entries[i].size /\ entries'[i].blocks = entries[i].blocks
             /\ entries'[i].data = Unloaded => entries'[i] = entries[i]
             /\ ValueOf(entries[i])' = ValueOf(entries[i])
  <2>1. CASE i = j
    <3>1. entries'[i] = [entries[i] EXCEPT !.data = d] BY <1>1, <1>3, <2>1
    <3>2. /\ entries'[i].key = entries[i].key
          /\ entries'[i].size = entries[i].size /\ entries'[i].blocks = entries[i].blocks
          /\ entries'[i].data = d
      BY <1>2, <3>1 DEF Entry
    <3>3. ValueOf(entries[i])' = d BY <1>4, <3>2 DEF ValueOf
    <3> QED BY <1>4, <1>5, <2>1, <3>2, <3>3
  <2>2. CASE i # j
    <3>1. entries'[i] = entries[i] BY <1>1, <2>2
    <3>2. disk' = disk /\ m_filename' = m_filename BY <1>1
    <3>3. ValueOf(entries[i])' = ValueOf(entries[i]) BY <3>1, <3>2 DEF ValueOf, OnDisk
    <3> QED BY <3>1, <3>3
  <2> QED BY <2>1, <2>2
<1> QED BY <1>1, <1>6, <1>7

\* Staging a part of the entries, as far as they can be loaded.
LEMMA PartStaged ==
  ASSUME IInv, NEW n \in 0 .. Len(entries), \A i \in 1 .. n : ~MustStop(i),
         NEW i \in DOMAIN entries
  PROVE  LET e == Staged(n)[i]
         IN /\ e.key = entries[i].key
            /\ e.size = entries[i].size /\ e.blocks = entries[i].blocks
            /\ i <= n => e.data = ValueOf(entries[i]) /\ e.data # Unloaded
            /\ ~(i <= n) => e = entries[i]
<1>1. /\ entries[i] \in Entry /\ DOMAIN entries = 1 .. Len(entries) /\ Len(entries) \in Nat
  BY DEF IInv, GoodEntries
<1>2. CASE i <= n
  <2> DEFINE v == IF entries[i].data = Unloaded THEN OnDisk(entries[i]) ELSE entries[i].data
  <2>1. Staged(n)[i] =
          [entries[i] EXCEPT !.dirty = TRUE,
             !.data = IF @ = Unloaded THEN OnDisk(entries[i]) ELSE @]
    BY <1>1, <1>2 DEF Staged
  <2>2. Staged(n)[i] = [entries[i] EXCEPT !.dirty = TRUE, !.data = v]
    BY <1>1, <2>1 DEF Entry
  <2>3. v = ValueOf(entries[i]) BY DEF ValueOf
  <2>4. v # Unloaded
    <3>1. OnDisk(entries[i]) \in Data \cup {Absent} BY <1>1, OnDiskType
    <3>2. ~MustStop(i) BY <1>1, <1>2
    <3> QED BY <3>1, <3>2, NamesAssumption DEF MustStop
  <2> HIDE DEF v
  <2> QED BY <1>1, <1>2, <2>2, <2>3, <2>4 DEF Entry
<1>3. CASE ~(i <= n)
  BY <1>1, <1>3 DEF Staged
<1> QED BY <1>2, <1>3

\* Without a failing local store a sink has one outcome.
LEMMA OneLocalOutcome ==
  ASSUME WholeLocalFiles, NEW es, NEW path
  PROVE  FlushOutcomes(es, path) =
           {[disk |-> [disk EXCEPT ![path] = ImageOf(es, path)],
             entries |-> Cleaned(Relaid(es, path)), flushed |-> TRUE]}
<1>1. ~CanRefuse(path) /\ "partial" \notin Perils BY DEF WholeLocalFiles, CanRefuse
<1>2. {TRUE} \cap {CanRefuse(path)} = {} BY <1>1 DEF CanRefuse
<1> QED BY <1>1, <1>2 DEF FlushOutcomes

\* The image of entries that have a size where they have blocks.
LEMMA ImageInFull ==
  ASSUME IInv, NEW es, GoodEntries(es), NEW path \in Paths, \A i \in DOMAIN es : Sized(es[i])
  PROVE  LET image == ImageOf(es, path)
         IN /\ image # Absent /\ GoodImage(image) /\ DOMAIN image.stored = DOMAIN es
            /\ \A i \in DOMAIN es :
                 /\ Sized(image.stored[i])
                 /\ InFull(image, image.stored[i].pos, image.stored[i].size)
<1>1. /\ GoodImage(ImageOf(es, path)) /\ DOMAIN ImageOf(es, path).stored = DOMAIN es
      /\ \A i \in DOMAIN es :
           ImageOf(es, path).stored[i].pos + ImageOf(es, path).stored[i].size
             <= ImageOf(es, path).length
  BY ImageOfGood DEF IInv
<1>2. ImageOf(es, path) # Absent BY <1>1, AbsentAssumption DEF GoodImage
<1>3. \A i \in DOMAIN es : Sized(ImageOf(es, path).stored[i]) BY ImageSized
<1> QED BY <1>1, <1>2, <1>3 DEF InFull

\* save_to() and write_bytes() with everything staged: the disk gets the image of
\* the staged entries, which stay in memory.
LEMMA CopyServed ==
  ASSUME IInv, Servable, StageAll, NEW path \in Paths, NEW dest \in Paths,
         disk' = [disk EXCEPT ![dest] = ImageOf(Staged(Len(entries)), path)],
         entries' = Cleaned(Relaid(Staged(Len(entries)), path)), m_filename' = m_filename
  PROVE  /\ Servable' /\ DOMAIN entries' = DOMAIN entries
         /\ \A i \in DOMAIN entries :
              /\ entries'[i].key = entries[i].key
              /\ ValueOf(entries[i])' = ValueOf(entries[i])
<1> DEFINE es == Staged(Len(entries))
           image == ImageOf(es, path)
<1>1. /\ DOMAIN entries = 1 .. Len(entries) /\ Len(entries) \in Nat
      /\ DOMAIN es = DOMAIN entries
      /\ disk \in [Paths -> {Absent} \cup {f \in Image : GoodImage(f)}]
  <2>1. DOMAIN es = DOMAIN entries BY DEF Staged
  <2> HIDE DEF es
  <2> QED BY <2>1 DEF IInv, GoodEntries, GoodDisk
<1>2. GoodEntries(es) BY <1>1, StagedGood DEF StageAll
<1>3. \A i \in DOMAIN entries :
        /\ es[i].key = entries[i].key
        /\ es[i].size = entries[i].size /\ es[i].blocks = entries[i].blocks
        /\ es[i].data = ValueOf(entries[i]) /\ es[i].data # Unloaded
  BY <1>1, PartStaged DEF StageAll
<1> HIDE DEF es
<1>4. \A i \in DOMAIN es : Sized(es[i]) BY <1>1, <1>3 DEF Servable, Sized
<1>5. /\ image # Absent /\ DOMAIN image.stored = DOMAIN es
      /\ \A i \in DOMAIN es : /\ Sized(image.stored[i])
                              /\ InFull(image, image.stored[i].pos, image.stored[i].size)
  BY <1>2, <1>4, ImageInFull
<1>6. ASSUME NEW i \in DOMAIN entries
      PROVE  /\ entries'[i].key = entries[i].key /\ entries'[i].data = es[i].data
             /\ Sized(entries'[i]) /\ i \in DOMAIN entries'
  <2>1. /\ DOMAIN entries' = DOMAIN es
        /\ entries'[i].key = es[i].key /\ entries'[i].data = es[i].data
        /\ entries'[i].size = image.stored[i].size
        /\ entries'[i].blocks = image.stored[i].blocks
    BY <1>1, <1>2, RelaidIs DEF es
  <2> HIDE DEF image
  <2> QED BY <1>1, <1>3, <1>5, <2>1 DEF Sized
<1>7. DOMAIN entries' = DOMAIN entries BY <1>1 DEF Relaid, Cleaned, es
<1>8. disk' = [disk EXCEPT ![dest] = image] BY DEF es
<1> HIDE DEF image
<1>9. \A p \in Paths : disk'[p] # Absent =>
        \A i \in DOMAIN disk'[p].stored :
          LET s == disk'[p].stored[i] IN Sized(s) /\ InFull(disk'[p], s.pos, s.size)
  <2> SUFFICES ASSUME NEW p \in Paths, disk'[p] # Absent, NEW i \in DOMAIN disk'[p].stored
               PROVE  /\ Sized(disk'[p].stored[i])
                      /\ InFull(disk'[p], disk'[p].stored[i].pos, disk'[p].stored[i].size)
    OBVIOUS
  <2>1. CASE p = dest
    <3>1. disk'[p] = image BY <1>1, <1>8, <2>1
    <3> QED BY <1>5, <3>1
  <2>2. CASE p # dest
    <3>1. disk'[p] = disk[p] BY <1>1, <1>8, <2>2
    <3> QED BY <3>1 DEF Servable
  <2> QED BY <2>1, <2>2
<1>10. \A i \in DOMAIN entries : ValueOf(entries[i])' = ValueOf(entries[i])
  BY <1>3, <1>6 DEF ValueOf
<1> QED BY <1>3, <1>6, <1>7, <1>9, <1>10 DEF Servable

\* Staging that fails, or that a refused upload follows: only memory changes.
LEMMA StagedServed ==
  ASSUME IInv, Servable, NEW n \in 0 .. Len(entries), \A i \in 1 .. n : ~MustStop(i),
         entries' = Staged(n), UNCHANGED <<disk, m_filename>>
  PROVE  /\ Servable' /\ DOMAIN entries' = DOMAIN entries
         /\ \A i \in DOMAIN entries :
              /\ entries'[i].key = entries[i].key
              /\ ValueOf(entries[i])' = ValueOf(entries[i])
<1>1. DOMAIN entries' = DOMAIN entries BY DEF Staged
<1>2. ASSUME NEW i \in DOMAIN entries
      PROVE  /\ entries'[i].key = entries[i].key
             /\ entries'[i].size = entries[i].size /\ entries'[i].blocks = entries[i].blocks
             /\ entries'[i].data = Unloaded => entries'[i] = entries[i]
             /\ ValueOf(entries[i])' = ValueOf(entries[i])
  <2> DEFINE e == Staged(n)[i]
  <2>1. /\ e.key = entries[i].key
        /\ e.size = entries[i].size /\ e.blocks = entries[i].blocks
        /\ i <= n => e.data = ValueOf(entries[i]) /\ e.data # Unloaded
        /\ ~(i <= n) => e = entries[i]
    BY PartStaged
  <2>2. entries'[i] = e OBVIOUS
  <2> HIDE DEF e
  <2>3. CASE i <= n
    BY <2>1, <2>2, <2>3 DEF ValueOf
  <2>4. CASE ~(i <= n)
    BY <2>1, <2>2, <2>4 DEF ValueOf, OnDisk
  <2> QED BY <2>1, <2>2, <2>3, <2>4
<1>3. Servable' BY <1>1, <1>2 DEF Servable, Sized
<1> QED BY <1>1, <1>2, <1>3

\* A flush that succeeds: an array that is not in memory is found where it now is.
LEMMA FlushServed ==
  ASSUME WholeLocalFiles, IInv, Servable, Flush
  PROVE  /\ Servable' /\ DOMAIN entries' = DOMAIN entries
         /\ \A i \in DOMAIN entries :
              /\ entries'[i].key = entries[i].key
              /\ ValueOf(entries[i])' = ValueOf(entries[i])
<1> DEFINE image == ImageOf(entries, m_filename)
<1>1. /\ disk' = [disk EXCEPT ![m_filename] = image]
      /\ entries' = Cleaned(Relaid(entries, m_filename)) /\ m_filename' = m_filename
  BY OneLocalOutcome DEF Flush, handle
<1>2. /\ GoodEntries(entries) /\ m_filename \in Paths /\ m_filename \notin Remote
      /\ disk \in [Paths -> {Absent} \cup {f \in Image : GoodImage(f)}]
  BY DEF IInv, WholeLocalFiles, GoodDisk
<1>3. /\ image # Absent /\ GoodImage(image) /\ DOMAIN image.stored = DOMAIN entries
      /\ \A i \in DOMAIN entries :
           /\ Sized(image.stored[i])
           /\ InFull(image, image.stored[i].pos, image.stored[i].size)
  BY <1>2, ImageInFull DEF Servable
<1>4. disk'[m_filename'] = image BY <1>1, <1>2
<1>5. DOMAIN entries' = DOMAIN entries BY <1>1 DEF Relaid, Cleaned
<1>6. \A i \in DOMAIN entries :
        /\ entries'[i].key = entries[i].key /\ entries'[i].data = entries[i].data
        /\ entries'[i].codec = entries[i].codec
        /\ entries'[i].pos = image.stored[i].pos
        /\ entries'[i].size = image.stored[i].size
        /\ entries'[i].blocks = image.stored[i].blocks
  BY <1>1, <1>2, RelaidIs
<1>7. ASSUME NEW i \in DOMAIN entries, entries[i].data = Unloaded
      PROVE  OnDisk(entries[i])' = OnDisk(entries[i])
  <2>1. OnDisk(entries[i]) # Absent BY <1>7, InFullReads
  <2>2. ~entries[i].dirty BY <1>2, <1>7 DEF GoodEntries
  <2>3. ReadAt(image, i) = IF CutOff(image, i) THEN Absent ELSE OnDisk(entries[i])
    BY <1>2, <1>3, <2>1, <2>2, CleanReads DEF Servable
  <2>4. ~CutOff(image, i)
    <3>1. image.stored[i] \in Stored /\ image.length \in Nat BY <1>3 DEF GoodImage, Image
    <3> HIDE DEF image
    <3> QED BY <1>3, <3>1 DEF CutOff, InFull, Stored
  <2>5. image.stored[i].codec = entries[i].codec BY StoredIs
  <2> HIDE DEF image
  <2>6. OnDisk(entries[i])' = ReadAt(image, i)
    BY <1>3, <1>4, <1>6, <2>5 DEF OnDisk, ReadAt
  <2> QED BY <2>3, <2>4, <2>6
<1> HIDE DEF image
<1>8. \A i \in DOMAIN entries : ValueOf(entries[i])' = ValueOf(entries[i])
  BY <1>6, <1>7 DEF ValueOf
<1>9. \A p \in Paths : disk'[p] # Absent =>
        \A i \in DOMAIN disk'[p].stored :
          LET s == disk'[p].stored[i] IN Sized(s) /\ InFull(disk'[p], s.pos, s.size)
  BY <1>1, <1>2, <1>3 DEF Servable
<1>10. \A i \in DOMAIN entries :
         /\ Sized(entries'[i])
         /\ InFull(disk'[m_filename'], entries'[i].pos, entries'[i].size)
  BY <1>3, <1>4, <1>6 DEF Sized
<1> QED BY <1>5, <1>6, <1>8, <1>9, <1>10 DEF Servable

\* The constructor, and the end of a handle.
LEMMA OpenServed ==
  ASSUME WholeLocalFiles, IInv, Servable, NEW p \in Paths, NEW md, NEW c,
         NEW index \in Indexes(disk'[p]), Construct(index, p, md, c),
         disk' = disk \/ disk' = [disk EXCEPT ![p] = Absent]
  PROVE  Servable'
<1>1. \A q \in Paths : disk'[q] # Absent => disk'[q] = disk[q]
  BY DEF IInv, GoodDisk
<1>2. m_filename' = p /\ entries' = IF disk'[p] = Absent THEN <<>> ELSE LoadIndex(disk'[p])
  <2>1. disk'[p] = Absent \/ GoodImage(disk'[p]) BY <1>1 DEF IInv, GoodDisk
  <2>2. HeadersWhole BY DEF WholeLocalFiles, HeadersWhole
  <2> QED BY <2>1, <2>2, IndexIs DEF Construct
<1>3. ASSUME NEW i \in DOMAIN entries'
      PROVE  Sized(entries'[i]) /\ InFull(disk'[p], entries'[i].pos, entries'[i].size)
  <2> DEFINE s == disk'[p].stored[i]
  <2>1. disk'[p] # Absent /\ i \in DOMAIN disk'[p].stored /\ entries' = LoadIndex(disk'[p])
    BY <1>2, <1>3 DEF LoadIndex
  <2>2. Sized(s) /\ InFull(disk'[p], s.pos, s.size) BY <1>1, <2>1 DEF Servable
  <2>3. entries'[i] = [key |-> s.key, dirty |-> FALSE, data |-> Unloaded,
                       pos |-> s.pos, size |-> s.size, codec |-> s.codec,
                       blocks |-> s.blocks]
    BY <2>1 DEF LoadIndex
  <2> HIDE DEF s
  <2> QED BY <2>2, <2>3 DEF Sized
<1> QED BY <1>1, <1>2, <1>3 DEF Servable

LEMMA EndServed ==
  ASSUME WholeLocalFiles, IInv, Servable, Destroy \/ Crash
  PROVE  Servable'
<1>1. entries' = <<>> /\ DOMAIN entries' = {} BY DEF Destroy, Crash
<1>2. \/ disk' = disk \/ disk' = [disk EXCEPT ![Memory] = Absent]
      \/ disk' = [disk EXCEPT ![m_filename] = ImageOf(entries, m_filename)]
  BY OneLocalOutcome DEF Destroy, Crash
<1>3. /\ GoodEntries(entries) /\ m_filename \in Paths
      /\ disk \in [Paths -> {Absent} \cup {f \in Image : GoodImage(f)}]
  BY DEF IInv, GoodDisk
<1> DEFINE image == ImageOf(entries, m_filename)
<1>4. /\ DOMAIN image.stored = DOMAIN entries
      /\ \A i \in DOMAIN entries :
           /\ Sized(image.stored[i])
           /\ InFull(image, image.stored[i].pos, image.stored[i].size)
  BY <1>3, ImageInFull DEF Servable
<1>5. \A p \in Paths : disk'[p] # Absent => disk'[p] = disk[p] \/ disk'[p] = image
  BY <1>2, <1>3
<1> HIDE DEF image
<1>6. \A p \in Paths : disk'[p] # Absent =>
        \A i \in DOMAIN disk'[p].stored :
          LET s == disk'[p].stored[i] IN Sized(s) /\ InFull(disk'[p], s.pos, s.size)
  BY <1>4, <1>5 DEF Servable
<1> QED BY <1>1, <1>6 DEF Servable

LEMMA PutServed ==
  ASSUME IInv, Servable, NEW k \in Keys, NEW v \in Vals, Put(k, v)
  PROVE  Servable'
<1>1. /\ entries \in Seq(Entry) /\ DOMAIN entries = 1 .. Len(entries) /\ Len(entries) \in Nat
      /\ \A i \in DOMAIN entries : entries[i] \in Entry
  BY DEF IInv, GoodEntries
<1> DEFINE old == IF HasKey(entries, k) THEN entries[Lookup(entries, k)] ELSE NewEntry(k)
           new == PutEntry(old, v)
<1>2. old \in Entry
  BY <1>1, LookupFinds, ListedIn, NamesAssumption DEF NewEntry, Entry, IInv
<1> HIDE DEF old
<1>3. new.data = v /\ v # Unloaded /\ ~new.blocks
  BY <1>2, NamesAssumption DEF PutEntry, Entry, Data
<1>4. UNCHANGED <<disk, m_filename>> BY DEF Put, handle
<1> HIDE DEF new
<1>5. \A i \in DOMAIN entries' :
        entries'[i] = new \/ (i \in DOMAIN entries /\ entries'[i] = entries[i])
  <2>1. CASE HasKey(entries, k)
    <3>1. entries' = [entries EXCEPT ![Lookup(entries, k)] = new] BY <2>1 DEF Put, old, new
    <3> QED BY <3>1
  <2>2. CASE ~HasKey(entries, k)
    <3>1. entries' = Append(entries, new) BY <2>2 DEF Put, old, new
    <3>2. /\ DOMAIN entries' = 1 .. Len(entries) + 1 /\ entries'[Len(entries) + 1] = new
          /\ \A i \in 1 .. Len(entries) : entries'[i] = entries[i]
      BY <1>1, <3>1
    <3> QED BY <1>1, <3>2
  <2> QED BY <2>1, <2>2
<1> QED BY <1>3, <1>4, <1>5 DEF Servable, Sized

\* What the steps that a handle survives do to what it shows.
LEMMA ServedSame ==
  ASSUME WholeLocalFiles, IInv, Servable,
         \/ Flush \/ StageFails \/ SaveToUnauthorized \/ WriteBytes
         \/ \E p \in Files : SaveTo(p)
         \/ \E k \in Keys : Get(k)
  PROVE  /\ Servable' /\ DOMAIN entries' = DOMAIN entries
         /\ \A i \in DOMAIN entries :
              /\ entries'[i].key = entries[i].key
              /\ ValueOf(entries[i])' = ValueOf(entries[i])
<1>1. DOMAIN entries = 1 .. Len(entries) /\ Len(entries) \in Nat BY DEF IInv, GoodEntries
<1>2. CASE Flush BY <1>2, FlushServed
<1>3. CASE StageFails
  <2>1. PICK n \in DOMAIN entries :
          (\A i \in 1 .. n - 1 : ~MustStop(i)) /\ entries' = Staged(n - 1)
    BY <1>3 DEF StageFails
  <2>2. n - 1 \in 0 .. Len(entries) BY <1>1
  <2>3. UNCHANGED <<disk, m_filename>> BY <1>3 DEF StageFails, handle
  <2> QED BY <2>1, <2>2, <2>3, StagedServed
<1>4. CASE SaveToUnauthorized
  <2>1. entries' = Staged(Len(entries)) /\ UNCHANGED <<disk, m_filename>> /\ StageAll
    BY <1>4 DEF SaveToUnauthorized, handle
  <2> QED BY <1>1, <2>1, StagedServed DEF StageAll
<1>5. CASE WriteBytes
  <2>1. /\ disk' = [disk EXCEPT ![Memory] = ImageOf(Staged(Len(entries)), m_filename)]
        /\ entries' = Cleaned(Relaid(Staged(Len(entries)), m_filename))
        /\ m_filename' = m_filename /\ StageAll
    BY <1>5 DEF WriteBytes, handle
  <2>2. Memory \in Paths /\ m_filename \in Paths BY NamesAssumption DEF IInv
  <2> QED BY <2>1, <2>2, CopyServed
<1>6. ASSUME NEW p \in Files, SaveTo(p)
      PROVE  /\ Servable' /\ DOMAIN entries' = DOMAIN entries
             /\ \A i \in DOMAIN entries :
                  /\ entries'[i].key = entries[i].key
                  /\ ValueOf(entries[i])' = ValueOf(entries[i])
  <2>1. /\ disk' = [disk EXCEPT ![p] = ImageOf(Staged(Len(entries)), p)]
        /\ entries' = Cleaned(Relaid(Staged(Len(entries)), p))
        /\ m_filename' = m_filename /\ StageAll
    BY <1>6, OneLocalOutcome DEF SaveTo, handle
  <2>2. p \in Paths BY DEF Files
  <2> QED BY <2>1, <2>2, CopyServed
<1>7. ASSUME NEW k \in Keys, Get(k)
      PROVE  /\ Servable' /\ DOMAIN entries' = DOMAIN entries
             /\ \A i \in DOMAIN entries :
                  /\ entries'[i].key = entries[i].key
                  /\ ValueOf(entries[i])' = ValueOf(entries[i])
  <2>1. /\ UNCHANGED <<disk, m_filename>> /\ DOMAIN entries' = DOMAIN entries
        /\ \A i \in DOMAIN entries :
             /\ entries'[i].key = entries[i].key
             /\ entries'[i].size = entries[i].size /\ entries'[i].blocks = entries[i].blocks
             /\ entries'[i].data = Unloaded => entries'[i] = entries[i]
             /\ ValueOf(entries[i])' = ValueOf(entries[i])
    BY <1>7, GetShowsTheSame
  <2>2. Servable' BY <2>1 DEF Servable, Sized
  <2> QED BY <2>1, <2>2
<1> QED BY <1>2, <1>3, <1>4, <1>5, <1>6, <1>7

LEMMA ServableKeeps ==
  ASSUME WholeLocalFiles, IInv, Servable, [Next]_vars
  PROVE  Servable'
<1>1. ASSUME NEW p \in Files, NEW c \in Codecs, Create(p, c) PROVE Servable'
  <2>1. p \in Paths BY DEF Files
  <2> QED BY <1>1, <2>1, OpenServed DEF Create
<1>2. ASSUME NEW p \in Paths, NEW md \in {ReadOnly, ReadWrite}, Open(p, md) PROVE Servable'
  BY <1>2, OpenServed DEF Open
<1>3. CASE UNCHANGED vars
  BY <1>3 DEF vars, Servable
<1>4. ~CrashInFlush /\ \A p \in Paths : ~OpenUnreadable(p)
  BY DEF WholeLocalFiles, CrashInFlush, OpenUnreadable
<1> QED BY <1>1, <1>2, <1>3, <1>4, PutServed, EndServed, ServedSame DEF Next

--------------------------------------------------------------------------------
(* The theorems.                                                           *)

\* Nothing a caller, a failing store or a crash does in any order takes the
\* files or the handle out of the inductive invariant.
THEOREM Inductive == Spec => []IInv
<1>1. Init => IInv BY InitGood
<1>2. IInv /\ [Next]_vars => IInv' BY NextGood
<1> QED BY <1>1, <1>2, PTL DEF Spec

\* The variables keep their types.
THEOREM TypeCorrect == Spec => []TypeOK
<1>1. IInv => TypeOK BY IInvImplies
<1> QED BY <1>1, Inductive, PTL

\* flush_internal() never reads the data of an entry that has none.
THEOREM DirtyAlwaysLoaded == Spec => []DirtyIsLoaded
<1>1. IInv => DirtyIsLoaded BY IInvImplies
<1> QED BY <1>1, Inductive, PTL

\* m_key_to_index and m_hot never disagree on the number of a key, unless a file can
\* be cut within its header.
THEOREM KeysUnique == Spec => []OneEntryPerKey
<1>1. IInv => OneEntryPerKey BY IInvImplies
<1> QED BY <1>1, Inductive, PTL

\* Every file ever written, in whatever order things fail, has the arrays of its
\* index one behind the other, behind the header.
THEOREM FilesLaidOut == Spec => []WellLaidOut
<1>1. IInv => WellLaidOut BY IInvImplies
<1> QED BY <1>1, Inductive, PTL

LEMMA HeldAlways ==
  ASSUME Undisturbed PROVE Spec => []Held
<1>1. Init => Held BY HeldInit
<1>2. IInv /\ Held /\ [Next]_vars => Held' BY HeldKeeps
<1> QED BY <1>1, <1>2, Inductive, PTL DEF Spec

LEMMA HonestAlways ==
  ASSUME NoCopies PROVE Spec => []Honest
<1>1. Init => Honest
  <2> SUFFICES ASSUME Init PROVE Honest OBVIOUS
  <2>1. DOMAIN entries = {} BY DEF Init
  <2> QED BY <2>1, NamesAssumption DEF Init, Honest
<1>2. IInv /\ Honest /\ [Next]_vars => Honest' BY HonestKeeps
<1> QED BY <1>1, <1>2, Inductive, PTL DEF Spec

LEMMA ServableAlways ==
  ASSUME WholeLocalFiles PROVE Spec => []Servable
<1>1. Init => Servable
  <2> SUFFICES ASSUME Init PROVE Servable OBVIOUS
  <2>1. DOMAIN entries = {} BY DEF Init
  <2> QED BY <2>1 DEF Init, Servable
<1>2. IInv /\ Servable /\ [Next]_vars => Servable' BY ServableKeeps
<1> QED BY <1>1, <1>2, Inductive, PTL DEF Spec

\* On local files, and without a failure but a death between two calls, the
\* handle implements StarCatalog: create(), open(), put(), flush() and the
\* destructor are its steps, and what get() loads is a stutter.
THEOREM HandleRefinesCatalog ==
  ASSUME Undisturbed PROVE Spec => RefinesCatalog
<1>1. Init => Catalog!CatInit
  BY NamesAssumption DEF Init, Files, Catalog!CatInit
<1>2. IInv /\ Held /\ [Next]_vars => [Catalog!CatNext]_(Catalog!catVars)
  BY StepCatalog
<1> QED BY <1>1, <1>2, Inductive, HeldAlways, PTL DEF Spec, RefinesCatalog, Catalog!CatSpec

\* There, the next flush saves what the handle shows, whatever was loaded,
\* changed and flushed before.
THEOREM FlushAlwaysSavesView ==
  ASSUME Undisturbed PROVE Spec => []FlushSavesView
<1>1. IInv /\ Held => FlushSavesView BY ImageHasView DEF FlushSavesView
<1> QED BY <1>1, Inductive, HeldAlways, PTL

\* There, a dataset that has nothing to flush is in its file.
THEOREM FlushedIsAlwaysInFile ==
  ASSUME Undisturbed PROVE Spec => []FlushedIsSaved
<1>1. IInv /\ Held => FlushedIsSaved BY FlushedHasView DEF FlushedIsSaved, Whole
<1> QED BY <1>1, Inductive, HeldAlways, PTL

\* There, what get_slice() reads from the file is what get() returns.
THEOREM SliceAlwaysReadsTheArray ==
  ASSUME Undisturbed PROVE Spec => []SliceReadsWhatGetReturns
<1>1. IInv /\ Held => SliceReadsWhatGetReturns
  BY KeptValue DEF Held, Kept, SliceReadsWhatGetReturns
<1> QED BY <1>1, Inductive, HeldAlways, PTL

\* In every instance, with all its failures, no step of a handle that was opened
\* for reading changes its file: save_to() refuses it as a target, and a capture
\* goes to memory.
THEOREM ReadOnlyStaysUntouched == Spec => ReadOnlyUntouched
<1>1. ASSUME IInv, [Next]_vars, isOpen, m_file_mode = ReadOnly, m_filename \in Files
      PROVE  disk'[m_filename] = disk[m_filename]
  <2>1. /\ m_filename \in Paths /\ m_filename # Memory /\ m_file_mode # ReadWrite
        /\ disk \in [Paths -> {Absent} \cup {f \in Image : GoodImage(f)}]
    BY <1>1, NamesAssumption DEF Files, IInv, GoodDisk
  <2>2. ASSUME NEW p \in Files, SaveTo(p) PROVE disk'[m_filename] = disk[m_filename]
    <3>1. p # m_filename BY <1>1, <2>2 DEF SaveTo
    <3>2. PICK o \in FlushOutcomes(Staged(Len(entries)), p) : disk' = o.disk
      BY <2>2 DEF SaveTo
    <3>3. o.disk = disk \/ \E written : o.disk = [disk EXCEPT ![p] = written]
      <4> DEFINE es == Staged(Len(entries))
                 image == ImageOf(es, p)
                 done(written) == [disk |-> [disk EXCEPT ![p] = written],
                                   entries |-> Cleaned(Relaid(es, p)), flushed |-> TRUE]
      <4>1. \/ o = done(image)
            \/ o = [disk |-> disk, entries |-> Relaid(es, p), flushed |-> FALSE]
            \/ \E cut \in Cuts(image) : o = done([image EXCEPT !.length = cut])
        BY <3>2 DEF FlushOutcomes
      <4> HIDE DEF es, image
      <4>2. ASSUME NEW written, o = done(written)
            PROVE  \E w : o.disk = [disk EXCEPT ![p] = w]
        BY <4>2
      <4>3. CASE o = done(image)
        BY <4>2, <4>3
      <4>4. CASE o = [disk |-> disk, entries |-> Relaid(es, p), flushed |-> FALSE]
        BY <4>4
      <4>5. CASE \E cut \in Cuts(image) : o = done([image EXCEPT !.length = cut])
        <5>1. PICK cut \in Cuts(image) : o = done([image EXCEPT !.length = cut])
          BY <4>5
        <5> QED BY <4>2, <5>1
      <4> QED BY <4>1, <4>3, <4>4, <4>5
    <3> QED BY <2>1, <3>1, <3>2, <3>3
  <2>3. CASE WriteBytes
    BY <2>1, <2>3 DEF WriteBytes
  <2>4. CASE Crash
    BY <2>1, <2>4 DEF Crash
  <2>5. CASE Destroy
    BY <2>1, <2>5 DEF Destroy
  <2>6. CASE \/ \E k \in Keys, v \in Vals : Put(k, v)
             \/ \E k \in Keys : Get(k)
             \/ StageFails \/ SaveToUnauthorized \/ UNCHANGED vars
    BY <2>6 DEF Put, Get, StageFails, SaveToUnauthorized, vars
  <2>7. /\ ~Flush /\ ~CrashInFlush
        /\ \A p \in Files, c \in Codecs : ~Create(p, c)
        /\ \A p \in Paths, md \in {ReadOnly, ReadWrite} : ~Open(p, md)
        /\ \A p \in Paths : ~OpenUnreadable(p)
    BY <1>1, <2>1 DEF Flush, CrashInFlush, Create, Open, OpenUnreadable
  <2> QED BY <1>1, <2>2, <2>3, <2>4, <2>5, <2>6, <2>7 DEF Next
<1> QED BY <1>1, Inductive, PTL DEF Spec, ReadOnlyUntouched

\* What save_to() and write_bytes() produce of a handle in one codec is what the
\* handle shows, whatever failed before, as long as a local write is not cut short.
THEOREM DumpsAlwaysRoundTrip ==
  ASSUME "partial" \notin Perils PROVE Spec => DumpsRoundTripInOneCodec
<1>1. ASSUME IInv, [Next]_vars, \A i \in DOMAIN entries : entries[i].codec = m_config
      PROVE  /\ WriteBytes => DumpIsView(Memory)
             /\ \A p \in Files : m_flushed' /\ SaveTo(p) => DumpIsView(p)
  <2> DEFINE es == Staged(Len(entries))
  <2>1. /\ DOMAIN entries = 1 .. Len(entries) /\ Len(entries) \in Nat
        /\ Memory \in Paths /\ disk \in [Paths -> {Absent} \cup {f \in Image : GoodImage(f)}]
    BY <1>1, NamesAssumption DEF IInv, GoodEntries, GoodDisk
  <2>2. ASSUME WriteBytes PROVE DumpIsView(Memory)
    <3>1. disk'[Memory] = ImageOf(es, m_filename) /\ StageAll
      BY <2>1, <2>2 DEF WriteBytes
    <3> QED BY <1>1, <3>1, StagedHasView DEF DumpIsView, IInv
  <2>3. ASSUME NEW p \in Files, m_flushed', SaveTo(p) PROVE DumpIsView(p)
    <3>1. PICK o \in FlushOutcomes(es, p) : disk' = o.disk /\ m_flushed' = o.flushed
      BY <2>3 DEF SaveTo
    <3>2. \/ o.disk = [disk EXCEPT ![p] = ImageOf(es, p)]
          \/ o.flushed = FALSE
      <4> HIDE DEF es
      <4> QED BY DEF FlushOutcomes
    <3>3. p \in Paths BY DEF Files
    <3>4. disk'[p] = ImageOf(es, p) /\ StageAll
      <4> HIDE DEF es
      <4> QED BY <2>1, <2>3, <3>1, <3>2, <3>3 DEF SaveTo
    <3> QED BY <1>1, <3>3, <3>4, StagedHasView DEF DumpIsView
  <2> QED BY <2>2, <2>3
<1> QED BY <1>1, Inductive, PTL DEF Spec, DumpsRoundTripInOneCodec

\* When nothing is saved elsewhere or captured, an array never becomes clean before
\* a store has taken it: a refused upload, a locked file, a write that stops early
\* and a death at any point do not lose a change that memory calls saved, but for
\* the part of the file that the write did not reach.
THEOREM CleanMeansStored ==
  ASSUME NoCopies PROVE Spec => CleanOnlyAfterStored
<1>1. ASSUME IInv, Honest, [Next]_vars, isOpen, isOpen'
      PROVE  \A k \in {k \in Keys : HasKey(entries, k)} :
               LET i == Lookup(entries, k)
               IN entries[i].dirty /\ ~entries'[i].dirty =>
                    \E p \in Paths :
                      /\ disk'[p] # Absent
                      /\ FileView(disk'[p])[k] \in {entries[i].data, Absent}
  <2> SUFFICES ASSUME NEW key \in Keys, HasKey(entries, key),
                      NEW i, i = Lookup(entries, key), entries[i].dirty, ~entries'[i].dirty
               PROVE  \E p \in Paths :
                        /\ disk'[p] # Absent
                        /\ FileView(disk'[p])[key] \in {entries[i].data, Absent}
    OBVIOUS
  <2>0. i \in DOMAIN entries BY <1>1, LookupFinds, ListedIn DEF IInv
  <2>1. CASE Flush
    <3>1. GoodEntries(entries) /\ m_filename \in Paths /\ GoodDisk(disk)
      BY <1>1 DEF IInv
    <3>2. PICK o \in FlushOutcomes(entries, m_filename) : disk' = o.disk /\ entries' = o.entries
      BY <2>1 DEF Flush
    <3>3. o.entries # Relaid(entries, m_filename)
      <4>1. Relaid(entries, m_filename)[i].dirty = entries[i].dirty
        BY <2>0, <3>1, RelaidIs
      <4> QED BY <2>0, <3>2, <4>1
    <3>4. PICK image : /\ GoodImage(image)
                       /\ image.stored = ImageOf(entries, m_filename).stored
                       /\ o.disk = [disk EXCEPT ![m_filename] = image]
      BY <1>1, <3>1, <3>3, OutcomeIs, ZenonT(40)
    <3>5. disk'[m_filename] = image /\ image # Absent
      BY <3>1, <3>2, <3>4, AbsentAssumption DEF GoodDisk, GoodImage
    <3>6. /\ DOMAIN image.stored = DOMAIN entries
          /\ \A j \in DOMAIN entries : image.stored[j].key = entries[j].key
      BY <1>1, <3>1, <3>4, ImageOfGood DEF IInv
    <3>7. entries[i].codec = m_config BY <1>1, <2>0 DEF Honest
    <3>8. ReadAt(image, i) \in {entries[i].data, Absent}
      BY <1>1, <2>0, <3>1, <3>4, <3>7, DirtyReads
    <3>9. FileView(image)[key] = ReadAt(image, i)
      <4>1. Listed(entries) BY <3>1, ListedIn
      <4>2. HasKey(image.stored, key) /\ Lookup(image.stored, key) = i
        BY <3>6, <4>1, SameLookup
      <4> QED BY <4>2, FileViewAt
    <3> QED BY <3>1, <3>5, <3>8, <3>9
  <2>2. ASSUME NEW k \in Keys, Get(k) PROVE FALSE
    BY <1>1, <2>0, <2>2, HonestGet
  <2>3. ASSUME NEW k \in Keys, NEW v \in Vals, Put(k, v) PROVE FALSE
    BY <1>1, <2>0, <2>3, HonestPut
  <2>4. /\ ~SaveToUnauthorized /\ ~WriteBytes /\ ~StageFails
        /\ \A p \in Files : ~SaveTo(p)
    BY DEF NoCopies, SaveToUnauthorized, WriteBytes, StageFails, SaveTo
  <2>5. /\ ~Destroy /\ ~Crash /\ ~CrashInFlush
        /\ \A p \in Files, c \in Codecs : ~Create(p, c)
        /\ \A p \in Paths, md \in {ReadOnly, ReadWrite} : ~Open(p, md)
        /\ \A p \in Paths : ~OpenUnreadable(p)
    BY <1>1 DEF Destroy, Crash, CrashInFlush, Create, Open, OpenUnreadable
  <2>6. ~UNCHANGED vars BY <1>1 DEF vars
  <2> QED BY <1>1, <2>1, <2>2, <2>3, <2>4, <2>5, <2>6 DEF Next
<1> QED BY <1>1, Inductive, HonestAlways, PTL DEF Spec, CleanOnlyAfterStored

\* There, whatever is left of a local file after a flush that died or stopped early
\* behind the header, no array that can be read from it has another value than it
\* should, also when the handle came from a header that was cut: the bytes are those
\* its entries show.  A file cut within its header can be taken for any other.
THEOREM TornFileNeverLies ==
  ASSUME NoCopies PROVE Spec => TornFlushNeverLies
<1>1. ASSUME IInv, Honest, [Next]_vars, isOpen, m_filename \notin Remote,
             disk'[m_filename] # disk[m_filename]
      PROVE  \A k \in {k \in Keys : HasKey(entries, k)} :
               LET e == entries[Lookup(entries, k)]
               IN e.dirty \/ OnDisk(e) \in {ValueOf(e)} \ {Absent} =>
                    FileView(disk'[m_filename])[k] \in {ValueOf(e), Absent}
  <2> SUFFICES ASSUME NEW key \in Keys, HasKey(entries, key),
                      NEW e, e = entries[Lookup(entries, key)],
                      e.dirty \/ OnDisk(e) \in {ValueOf(e)} \ {Absent}
               PROVE  FileView(disk'[m_filename])[key] \in {ValueOf(e), Absent}
    OBVIOUS
  <2>1. /\ GoodEntries(entries) /\ m_filename \in Paths
        /\ m_filename # Memory /\ Memory \in Paths
        /\ disk \in [Paths -> {Absent} \cup {f \in Image : GoodImage(f)}]
    BY <1>1, NamesAssumption DEF IInv, GoodDisk, Honest, Files
  <2>2. Flush \/ Destroy \/ Crash \/ CrashInFlush
    <3>1. /\ ~SaveToUnauthorized /\ ~WriteBytes /\ ~StageFails
          /\ \A p \in Files : ~SaveTo(p)
      BY DEF NoCopies, SaveToUnauthorized, WriteBytes, StageFails, SaveTo
    <3>2. /\ \A p \in Files, c \in Codecs : ~Create(p, c)
          /\ \A p \in Paths, md \in {ReadOnly, ReadWrite} : ~Open(p, md)
          /\ \A p \in Paths : ~OpenUnreadable(p)
      BY <1>1 DEF Create, Open, OpenUnreadable
    <3>3. /\ \A k \in Keys, v \in Vals : ~Put(k, v)
          /\ \A k \in Keys : ~Get(k)
          /\ ~UNCHANGED vars
      BY <1>1 DEF Put, Get, vars
    <3> QED BY <1>1, <3>1, <3>2, <3>3 DEF Next
  <2>3. CASE Flush
    <3>1. PICK o \in FlushOutcomes(entries, m_filename) : disk' = o.disk
      BY <2>3 DEF Flush
    <3>2. PICK image : /\ GoodImage(image)
                       /\ image.stored = ImageOf(entries, m_filename).stored
                       /\ o.disk = [disk EXCEPT ![m_filename] = image]
      <4>1. o.disk # disk BY <1>1, <3>1
      <4> QED BY <1>1, <2>1, <3>1, <4>1, OutcomeIs
    <3>3. disk'[m_filename] = image BY <2>1, <3>1, <3>2
    <3> QED BY <1>1, <3>2, <3>3, PrefixNeverLies
  <2>4. CASE Destroy \/ Crash \/ CrashInFlush
    <3>1. PICK image : /\ GoodImage(image)
                       /\ image.stored = ImageOf(entries, m_filename).stored
                       /\ \/ disk' = [disk EXCEPT ![m_filename] = image]
                          \/ disk' = [disk EXCEPT ![m_filename] = image, ![Memory] = Absent]
      BY <1>1, <2>1, <2>4, EndLeaves
    <3>2. disk'[m_filename] = image BY <2>1, <3>1
    <3> QED BY <1>1, <3>1, <3>2, PrefixNeverLies
  <2> QED BY <2>2, <2>3, <2>4
<1> QED BY <1>1, Inductive, HonestAlways, PTL DEF Spec, TornFlushNeverLies

\* On local files that are written whole, nothing but put() changes what a handle
\* shows: get() only loads it, flush() moves it, save_to() and write_bytes() serve it
\* to others, and a staging that fails on the way leaves it as it was.
THEOREM CopiesChangeNothing ==
  ASSUME WholeLocalFiles PROVE Spec => OnlyPutChangesView
<1>1. ASSUME IInv, Servable, [Next]_vars, isOpen, isOpen',
             ~(\E k \in Keys, v \in Vals : Put(k, v))
      PROVE  View' = View
  <2>1. CASE \/ Flush \/ StageFails \/ SaveToUnauthorized \/ WriteBytes
             \/ \E p \in Files : SaveTo(p)
             \/ \E k \in Keys : Get(k)
    BY <1>1, <2>1, ServedSame, SameView
  <2>2. CASE UNCHANGED vars
    BY <2>2 DEF vars, handle, View, ValueOf, OnDisk
  <2>3. /\ ~Destroy /\ ~Crash /\ ~CrashInFlush
        /\ \A p \in Files, c \in Codecs : ~Create(p, c)
        /\ \A p \in Paths, md \in {ReadOnly, ReadWrite} : ~Open(p, md)
        /\ \A p \in Paths : ~OpenUnreadable(p)
    BY <1>1 DEF Destroy, Crash, CrashInFlush, Create, Open, OpenUnreadable
  <2> QED BY <1>1, <2>1, <2>2, <2>3 DEF Next
<1> QED BY <1>1, Inductive, ServableAlways, PTL DEF Spec, OnlyPutChangesView
================================================================================

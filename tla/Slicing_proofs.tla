------------------------------ MODULE Slicing_proofs ------------------------------
(***************************************************************************)
(* The codec and get_slice(): shuffle and blocks lose nothing, for any     *)
(* number of elements of any size, so that what was put is what            *)
(* get() returns; what get_slice() refuses; and that what it answers is    *)
(* what the slice names, from the blocks it reads over the ranges it cuts  *)
(* out of them to the elements its steps leave.                            *)
(***************************************************************************)
EXTENDS Slicing, Facts

\* The place of byte k in a shuffled buffer, and back.
LEMMA PlaceOfByte ==
  ASSUME NEW count \in Nat, NEW elem_size \in Nat \ {0},
         NEW j \in 0 .. count * elem_size - 1
  PROVE  LET i == j \div elem_size
             b == j % elem_size
         IN  /\ i \in 0 .. count - 1 /\ b \in 0 .. elem_size - 1
             /\ j = i * elem_size + b
             /\ b * count + i \in 0 .. count * elem_size - 1
<1> DEFINE i == j \div elem_size
           b == j % elem_size
<1>1. i \in Nat /\ b \in 0 .. elem_size - 1 /\ j = i * elem_size + b
  <2>1. j \in Nat OBVIOUS
  <2> QED BY <2>1, DivModIs
<1> HIDE DEF i, b
<1>2. i < count
  <2> SUFFICES ASSUME i >= count PROVE FALSE BY <1>1
  <2>1. i * elem_size >= count * elem_size BY <1>1
  <2> QED BY <1>1, <2>1
<1>3. b * count + i < count * elem_size
  <2>1. b + 1 <= elem_size BY <1>1
  <2>2. (b + 1) * count <= elem_size * count BY <1>1, <2>1
  <2>3. (b + 1) * count = b * count + count BY <1>1
  <2> QED BY <1>1, <1>2, <2>2, <2>3
<1>4. b * count + i \in Nat BY <1>1
<1> QED BY <1>1, <1>2, <1>3, <1>4 DEF i, b

\* byte_unshuffle() undoes byte_shuffle(), whatever the count and the element size.
THEOREM UnshuffleUndoesShuffle ==
  ASSUME NEW Byte, NEW count \in Nat, NEW elem_size \in Nat \ {0},
         NEW in \in Seq(Byte), Len(in) = count * elem_size
  PROVE  byte_unshuffle(byte_shuffle(in, count, elem_size), count, elem_size) = in
<1> DEFINE n   == count * elem_size
           mid == byte_shuffle(in, count, elem_size)
           out == byte_unshuffle(mid, count, elem_size)
<1>0. n \in Nat OBVIOUS
<1>1. DOMAIN in = 1 .. n /\ in = [k \in 1 .. n |-> in[k]] OBVIOUS
<1>2. ASSUME NEW k \in 1 .. n
      PROVE  mid[((k - 1) % elem_size) * count + (k - 1) \div elem_size + 1] = in[k]
  <2> DEFINE i == (k - 1) \div elem_size
             b == (k - 1) % elem_size
  <2>1. k - 1 \in 0 .. n - 1 BY <1>0
  <2>2. /\ i \in 0 .. count - 1 /\ b \in 0 .. elem_size - 1
        /\ k - 1 = i * elem_size + b
        /\ b * count + i \in 0 .. n - 1
    BY <2>1, PlaceOfByte
  <2> HIDE DEF i, b
  <2>3. (b * count + i) % count = i /\ (b * count + i) \div count = b
    BY <2>2, DivModOf
  <2>4. b * count + i + 1 \in 1 .. n BY <1>0, <2>2
  <2>5. (b * count + i + 1) - 1 = b * count + i BY <2>2
  <2>6. mid[b * count + i + 1] = in[i * elem_size + b + 1]
    BY <2>3, <2>4, <2>5 DEF byte_shuffle
  <2>7. i * elem_size + b + 1 = k BY <2>2
  <2> QED BY <2>6, <2>7 DEF i, b
<1>3. out = [k \in 1 .. n |-> in[k]]
  <2> HIDE DEF mid
  <2>1. out = [k \in 1 .. n |-> mid[((k - 1) % elem_size) * count + (k - 1) \div elem_size + 1]]
    BY DEF byte_unshuffle
  <2> QED BY <1>2, <2>1
<1> QED BY <1>1, <1>3

\* Both directions look at the first count * elem_size bytes of a buffer only.
LEMMA LooksAtWholeElements ==
  ASSUME NEW count \in Nat, NEW elem_size \in Nat \ {0}, NEW in, NEW other,
         \A k \in 1 .. count * elem_size : in[k] = other[k]
  PROVE  /\ byte_shuffle(in, count, elem_size) = byte_shuffle(other, count, elem_size)
         /\ byte_unshuffle(in, count, elem_size) = byte_unshuffle(other, count, elem_size)
         /\ \A k \in 1 .. count * elem_size :
              ((k - 1) % count) * elem_size + (k - 1) \div count + 1 \in 1 .. count * elem_size
<1> DEFINE n == count * elem_size
<1> DEFINE P(k) == ((k - 1) % count) * elem_size + (k - 1) \div count + 1
           Q(k) == ((k - 1) % elem_size) * count + (k - 1) \div elem_size + 1
<1>0. n \in Nat OBVIOUS
<1>1. ASSUME NEW k \in 1 .. n PROVE P(k) \in 1 .. n
  <2>1. count # 0 BY <1>0
  <2>2. n = elem_size * count OBVIOUS
  <2>3. k - 1 \in 0 .. elem_size * count - 1 BY <1>0, <2>2
  <2>4. /\ (k - 1) \div count \in 0 .. elem_size - 1 /\ (k - 1) % count \in 0 .. count - 1
        /\ ((k - 1) % count) * elem_size + (k - 1) \div count \in 0 .. elem_size * count - 1
    BY <2>1, <2>3, PlaceOfByte
  <2> DEFINE p == ((k - 1) % count) * elem_size + (k - 1) \div count
  <2>5. p \in 0 .. n - 1 BY <2>2, <2>4
  <2> HIDE DEF p
  <2>6. p + 1 \in 1 .. n BY <1>0, <2>5
  <2> QED BY <2>6 DEF p
<1>2. ASSUME NEW k \in 1 .. n PROVE Q(k) \in 1 .. n
  <2>1. k - 1 \in 0 .. count * elem_size - 1 BY <1>0
  <2>2. /\ (k - 1) \div elem_size \in 0 .. count - 1
        /\ (k - 1) % elem_size \in 0 .. elem_size - 1
        /\ ((k - 1) % elem_size) * count + (k - 1) \div elem_size
             \in 0 .. count * elem_size - 1
    BY <2>1, PlaceOfByte
  <2> QED BY <1>0, <2>2
<1>3. /\ byte_shuffle(in, count, elem_size) = [k \in 1 .. n |-> in[P(k)]]
      /\ byte_shuffle(other, count, elem_size) = [k \in 1 .. n |-> other[P(k)]]
      /\ byte_unshuffle(in, count, elem_size) = [k \in 1 .. n |-> in[Q(k)]]
      /\ byte_unshuffle(other, count, elem_size) = [k \in 1 .. n |-> other[Q(k)]]
  BY DEF byte_shuffle, byte_unshuffle
<1> HIDE DEF P, Q
<1>4. \A k \in 1 .. n : in[P(k)] = other[P(k)] /\ in[Q(k)] = other[Q(k)]
  <2> HIDE DEF n
  <2>1. \A k \in 1 .. n : in[k] = other[k] BY DEF n
  <2> QED BY <1>1, <1>2, <2>1
<1>5. \A k \in 1 .. n : P(k) \in 1 .. n BY <1>1
<1> QED BY <1>3, <1>4, <1>5 DEF P

\* A shuffled buffer is as long as the whole elements that it holds.
LEMMA ShuffleKeepsLength ==
  ASSUME NEW Byte, NEW count \in Nat, NEW elem_size \in Nat \ {0},
         NEW in \in Seq(Byte), Len(in) >= count * elem_size
  PROVE  /\ byte_shuffle(in, count, elem_size) \in Seq(Byte)
         /\ Len(byte_shuffle(in, count, elem_size)) = count * elem_size
<1> DEFINE P(k) == ((k - 1) % count) * elem_size + (k - 1) \div count + 1
           n    == count * elem_size
<1>1. n \in Nat /\ n <= Len(in) OBVIOUS
<1>2. \A k \in 1 .. n : P(k) \in 1 .. n BY LooksAtWholeElements
<1>3. byte_shuffle(in, count, elem_size) = [k \in 1 .. n |-> in[P(k)]] BY DEF byte_shuffle
<1> HIDE DEF P, n
<1>4. \A k \in 1 .. n : in[P(k)] \in Byte
  <2>1. \A m \in 1 .. n : in[m] \in Byte BY <1>1
  <2> QED BY <1>2, <2>1
<1>5. [k \in 1 .. n |-> in[P(k)]] \in Seq(Byte) /\ Len([k \in 1 .. n |-> in[P(k)]]) = n
  BY <1>1, <1>4
<1> QED BY <1>3, <1>5 DEF n

\* The same for a block of any size: what is left after the last whole element stays
\* as it is. A block on its own is enough to get its elements back, which is what lets
\* get_slice() read some blocks of an array only.
THEOREM BlockIsSelfContained ==
  ASSUME NEW Byte, NEW elem_size \in Nat \ {0}, NEW chunk \in Seq(Byte)
  PROVE  OnWholeElements(byte_unshuffle,
                         OnWholeElements(byte_shuffle, chunk, elem_size), elem_size) = chunk
<1> DEFINE count == Len(chunk) \div elem_size
           n     == count * elem_size
           whole == SubSeq(chunk, 1, n)
           rest  == SubSeq(chunk, n + 1, Len(chunk))
           mid   == byte_shuffle(chunk, count, elem_size)
<1>0. Len(chunk) \in Nat OBVIOUS
<1>1. count \in Nat /\ n \in Nat /\ n <= Len(chunk)
  <2>1. /\ count \in Nat /\ Len(chunk) % elem_size \in 0 .. elem_size - 1
        /\ Len(chunk) = count * elem_size + (Len(chunk) % elem_size)
    BY <1>0, DivModIs
  <2> HIDE DEF count
  <2>2. n \in Nat BY <2>1
  <2> QED BY <1>0, <2>1, <2>2
<1> HIDE DEF count
<1>2. whole \in Seq(Byte) /\ Len(whole) = n /\ \A k \in 1 .. n : whole[k] = chunk[k]
  <2> HIDE DEF n
  <2> QED BY <1>0, <1>1
<1>3. rest \in Seq(Byte) /\ Len(rest) = Len(chunk) - n
      /\ \A k \in 1 .. Len(chunk) - n : rest[k] = chunk[n + k]
  <2> HIDE DEF n
  <2> QED BY <1>0, <1>1
<1>4. mid = byte_shuffle(whole, count, elem_size) /\ mid \in Seq(Byte) /\ Len(mid) = n
  <2>1. \A k \in 1 .. n : chunk[k] = whole[k] BY <1>2
  <2> HIDE DEF whole
  <2>2. mid = byte_shuffle(whole, count, elem_size) BY <1>1, <2>1, LooksAtWholeElements
  <2>3. mid \in Seq(Byte) /\ Len(mid) = n BY <1>1, ShuffleKeepsLength
  <2> QED BY <2>2, <2>3
<1>5. byte_unshuffle(mid, count, elem_size) = whole
  <2> HIDE DEF whole, mid
  <2> QED BY <1>1, <1>2, <1>4, UnshuffleUndoesShuffle
<1> DEFINE both == mid \o rest
<1>6. OnWholeElements(byte_shuffle, chunk, elem_size) = both
  BY DEF OnWholeElements, count
<1> HIDE DEF n, whole, rest, mid
<1>7. /\ both \in Seq(Byte) /\ Len(both) = Len(chunk)
      /\ \A k \in 1 .. n : both[k] = mid[k]
      /\ SubSeq(both, n + 1, Len(both)) = rest
  <2>1. both \in Seq(Byte) /\ Len(both) = Len(chunk) BY <1>0, <1>1, <1>3, <1>4
  <2>2. \A k \in 1 .. n : both[k] = mid[k] BY <1>0, <1>1, <1>3, <1>4
  <2>3. \A k \in 1 .. Len(chunk) - n : both[n + k] = rest[k] BY <1>0, <1>1, <1>3, <1>4
  <2>4. SubSeq(both, n + 1, Len(both)) = rest
    <3> HIDE DEF both
    <3>1. SubSeq(both, n + 1, Len(both)) = [k \in 1 .. Len(chunk) - n |-> both[n + k]]
      BY <1>0, <1>1, <2>1
    <3>2. rest = [k \in 1 .. Len(chunk) - n |-> rest[k]] BY <1>0, <1>1, <1>3
    <3> QED BY <2>3, <3>1, <3>2
  <2> QED BY <2>1, <2>2, <2>4
<1> HIDE DEF both
<1>8. byte_unshuffle(both, count, elem_size) = whole
  <2>1. \A k \in 1 .. count * elem_size : both[k] = mid[k] BY <1>7 DEF n
  <2>2. byte_unshuffle(both, count, elem_size) = byte_unshuffle(mid, count, elem_size)
    BY <1>1, <2>1, LooksAtWholeElements
  <2> QED BY <1>5, <2>2
<1>9. OnWholeElements(byte_unshuffle, both, elem_size) = whole \o rest
  BY <1>7, <1>8 DEF OnWholeElements, count, n
<1>10. whole \o rest = chunk
  <2>1. whole \o rest \in Seq(Byte) /\ Len(whole \o rest) = Len(chunk)
    BY <1>0, <1>1, <1>2, <1>3
  <2>2. ASSUME NEW k \in 1 .. Len(chunk) PROVE (whole \o rest)[k] = chunk[k]
    <3>1. CASE k <= n
      <4>1. k \in 1 .. n BY <1>1, <3>1
      <4>2. whole[k] = chunk[k] BY <1>2, <4>1
      <4>3. (whole \o rest)[k] = whole[k] BY <1>0, <1>1, <1>2, <1>3, <4>1
      <4> QED BY <4>2, <4>3
    <3>2. CASE k > n
      <4>1. k - n \in 1 .. Len(chunk) - n /\ n + (k - n) = k BY <1>0, <1>1, <3>2
      <4>2. rest[k - n] = chunk[k] BY <1>3, <4>1
      <4>3. (whole \o rest)[k] = rest[k - n] BY <1>0, <1>1, <1>2, <1>3, <3>2
      <4> QED BY <4>2, <4>3
    <3>3. k <= n \/ k > n BY <1>0, <1>1
    <3> QED BY <3>1, <3>2, <3>3, Zenon
  <2> DEFINE both2 == whole \o rest
  <2> HIDE DEF both2
  <2>3. \A k \in 1 .. Len(chunk) : both2[k] = chunk[k] BY <2>2 DEF both2
  <2>4. both2 \in Seq(Byte) /\ Len(both2) = Len(chunk) BY <2>1 DEF both2
  <2>5. both2 = chunk
    <3>1. both2 = [k \in 1 .. Len(chunk) |-> both2[k]] BY <1>0, <2>4
    <3>2. chunk = [k \in 1 .. Len(chunk) |-> chunk[k]] BY <1>0
    <3> QED BY <2>3, <3>1, <3>2
  <2> QED BY <2>5 DEF both2
<1> QED BY <1>6, <1>9, <1>10

--------------------------------------------------------------------------------
(* Blocks: the chunks of a buffer, and the buffer of the chunks.           *)

\* All chunks but the last are of the block size, and the last is not empty.
Chunked(E, chunks, bs) ==
  /\ chunks \in Seq(Seq(E))
  /\ \A i \in DOMAIN chunks : Len(chunks[i]) \in 1 .. bs /\ (i < Len(chunks) => Len(chunks[i]) = bs)

\* Where a chunk starts: the number of bytes before it.
Before(i, bs) == (i - 1) * bs

\* The chunks of a buffer.
IsCut(E, buf, chunks, bs) ==
  /\ Chunked(E, chunks, bs)
  /\ buf \in Seq(E)
  /\ Len(buf) = IF chunks = <<>> THEN 0
                ELSE Before(Len(chunks), bs) + Len(chunks[Len(chunks)])
  /\ \A i \in DOMAIN chunks :
       /\ Before(i, bs) + Len(chunks[i]) <= Len(buf)
       /\ \A j \in 1 .. Len(chunks[i]) : buf[Before(i, bs) + j] = chunks[i][j]

LEMMA BeforeFacts ==
  ASSUME NEW bs \in Nat \ {0}
  PROVE  /\ \A i \in Nat \ {0} : Before(i, bs) \in Nat /\ Before(i + 1, bs) = Before(i, bs) + bs
         /\ Before(1, bs) = 0
         /\ \A i, k \in Nat \ {0} : i <= k => Before(i, bs) <= Before(k, bs)
         /\ \A i, k \in Nat \ {0} : i < k => Before(i, bs) + bs <= Before(k, bs)
<1>1. ASSUME NEW i \in Nat \ {0}
      PROVE  Before(i, bs) \in Nat /\ Before(i + 1, bs) = Before(i, bs) + bs
  <2>1. i - 1 \in Nat OBVIOUS
  <2>2. (i - 1) * bs \in Nat BY <2>1
  <2>3. (i + 1 - 1) * bs = (i - 1) * bs + bs OBVIOUS
  <2> QED BY <2>2, <2>3 DEF Before
<1>2. ASSUME NEW i \in Nat \ {0}, NEW k \in Nat \ {0}, i <= k
      PROVE  Before(i, bs) <= Before(k, bs)
  <2>1. i - 1 <= k - 1 /\ i - 1 \in Nat /\ k - 1 \in Nat BY <1>2
  <2>2. (i - 1) * bs <= (k - 1) * bs BY <2>1
  <2> QED BY <2>2 DEF Before
<1>3. ASSUME NEW i \in Nat \ {0}, NEW k \in Nat \ {0}, i < k
      PROVE  Before(i, bs) + bs <= Before(k, bs)
  <2>1. i + 1 <= k /\ i + 1 \in Nat \ {0} BY <1>3
  <2>2. Before(i + 1, bs) <= Before(k, bs) BY <1>2, <2>1
  <2> QED BY <1>1, <2>2
<1>4. Before(1, bs) = 0 BY DEF Before
<1> QED BY <1>1, <1>2, <1>3, <1>4

\* Every byte of a buffer lies in one of its chunks.
LEMMA ByteInChunk ==
  ASSUME NEW E, NEW bs \in Nat \ {0}, NEW buf, NEW chunks, IsCut(E, buf, chunks, bs),
         NEW k \in 1 .. Len(buf)
  PROVE  \E i \in 1 .. Len(chunks) :
           \E j \in 1 .. Len(chunks[i]) : k = Before(i, bs) + j
<1> DEFINE q == (k - 1) \div bs
           r == (k - 1) % bs
           n == Len(chunks)
<1>0. Len(buf) \in Nat /\ n \in Nat /\ k \in Nat \ {0} /\ DOMAIN chunks = 1 .. n
      /\ \A i \in 1 .. n : Len(chunks[i]) \in Nat
  BY DEF IsCut, Chunked
<1>10. \A i \in 1 .. n : Len(chunks[i]) \in 1 .. bs /\ (i < n => Len(chunks[i]) = bs)
  <2>1. \A i \in DOMAIN chunks :
           Len(chunks[i]) \in 1 .. bs /\ (i < Len(chunks) => Len(chunks[i]) = bs)
    BY DEF IsCut, Chunked
  <2> QED BY <1>0, <2>1
<1>1. q \in Nat /\ r \in 0 .. bs - 1 /\ k - 1 = q * bs + r
  <2>1. k - 1 \in Nat BY <1>0
  <2> QED BY <2>1, DivModIs
<1> HIDE DEF q, r
<1>2. k = Before(q + 1, bs) + (r + 1)
  <2>1. Before(q + 1, bs) = q * bs BY <1>1 DEF Before
  <2>2. q * bs \in Nat BY <1>1
  <2> QED BY <1>0, <1>1, <2>1, <2>2
<1>3. n # 0 /\ chunks # <<>>
  <2>1. Len(buf) # 0 BY <1>0
  <2>2. chunks # <<>> BY <2>1 DEF IsCut
  <2> QED BY <2>2 DEF IsCut, Chunked
<1>4. Len(buf) = Before(n, bs) + Len(chunks[n]) BY <1>3 DEF IsCut
<1>11. n \in 1 .. n BY <1>0, <1>3
<1>5. Len(chunks[n]) \in 1 .. bs BY <1>10, <1>11
<1>6. Before(n, bs) \in Nat /\ Before(q + 1, bs) \in Nat
  <2>1. n \in Nat \ {0} /\ q + 1 \in Nat \ {0} BY <1>0, <1>1, <1>3
  <2> QED BY <2>1, BeforeFacts
<1>7. q + 1 <= n
  <2> SUFFICES ASSUME q + 1 > n PROVE FALSE BY <1>0, <1>1
  <2>1. Before(n, bs) + bs <= Before(q + 1, bs) BY <1>0, <1>1, <1>3, BeforeFacts
  <2>2. k <= Before(n, bs) + bs BY <1>0, <1>4, <1>5, <1>6
  <2>3. k >= Before(q + 1, bs) + 1 BY <1>1, <1>2, <1>6
  <2> QED BY <1>0, <1>6, <2>1, <2>2, <2>3
<1>8. r + 1 <= Len(chunks[q + 1])
  <2>1. CASE q + 1 < n
    <3>1. q + 1 \in 1 .. n BY <1>0, <1>1, <2>1
    <3>2. Len(chunks[q + 1]) = bs BY <1>10, <2>1, <3>1
    <3> QED BY <1>1, <3>2
  <2>2. CASE q + 1 = n
    <3>1. k = Before(n, bs) + (r + 1) /\ k <= Before(n, bs) + Len(chunks[n])
      BY <1>0, <1>2, <1>4, <2>2
    <3> DEFINE b == Before(n, bs)
               l == Len(chunks[n])
    <3>3. b \in Nat /\ l \in Nat /\ r \in Nat /\ k \in Nat BY <1>0, <1>1, <1>5, <1>6
    <3> HIDE DEF b, l
    <3>4. k = b + (r + 1) /\ k <= b + l BY <3>1 DEF b, l
    <3>2. r + 1 <= Len(chunks[n]) BY <3>3, <3>4 DEF l
    <3> QED BY <2>2, <3>2
  <2>3. q + 1 < n \/ q + 1 = n
    <3>1. n \in Nat /\ q \in Nat BY <1>0, <1>1
    <3> HIDE DEF n
    <3> QED BY <1>7, <3>1
  <2> QED BY <2>1, <2>2, <2>3, Zenon
<1>9. q + 1 \in 1 .. n /\ r + 1 \in 1 .. Len(chunks[q + 1]) BY <1>0, <1>1, <1>7, <1>8
<1> QED BY <1>2, <1>9

\* Chunks determine their buffer.
LEMMA OneBuffer ==
  ASSUME NEW E, NEW bs \in Nat \ {0}, NEW chunks, NEW buf, NEW other,
         IsCut(E, buf, chunks, bs), IsCut(E, other, chunks, bs)
  PROVE  buf = other
<1>1. Len(buf) = Len(other) /\ buf \in Seq(E) /\ other \in Seq(E) BY DEF IsCut
<1>2. ASSUME NEW k \in 1 .. Len(buf) PROVE buf[k] = other[k]
  <2>1. PICK i \in 1 .. Len(chunks) : \E j \in 1 .. Len(chunks[i]) : k = Before(i, bs) + j
    BY ByteInChunk
  <2>2. PICK j \in 1 .. Len(chunks[i]) : k = Before(i, bs) + j BY <2>1
  <2>3. i \in DOMAIN chunks BY DEF IsCut, Chunked
  <2> QED BY <2>2, <2>3 DEF IsCut
<1> QED BY <1>1, <1>2

\* A buffer has one cut with a block size.
LEMMA OneCut ==
  ASSUME NEW E, NEW bs \in Nat \ {0}, NEW chunks, NEW others, NEW buf,
         IsCut(E, buf, chunks, bs), IsCut(E, buf, others, bs)
  PROVE  chunks = others
<1> DEFINE n == Len(chunks)
           m == Len(others)
<1>0. n \in Nat /\ m \in Nat /\ DOMAIN chunks = 1 .. n /\ DOMAIN others = 1 .. m
      /\ chunks \in Seq(Seq(E)) /\ others \in Seq(Seq(E))
  BY DEF IsCut, Chunked
<1>1. /\ n # 0 => /\ Len(buf) = Before(n, bs) + Len(chunks[n])
                  /\ Len(chunks[n]) \in 1 .. bs /\ Before(n, bs) \in Nat
      /\ m # 0 => /\ Len(buf) = Before(m, bs) + Len(others[m])
                  /\ Len(others[m]) \in 1 .. bs /\ Before(m, bs) \in Nat
      /\ n = 0 => Len(buf) = 0
      /\ m = 0 => Len(buf) = 0
  <2>1. ASSUME NEW some, IsCut(E, buf, some, bs)
        PROVE  /\ Len(some) # 0 =>
                     /\ Len(buf) = Before(Len(some), bs) + Len(some[Len(some)])
                     /\ Len(some[Len(some)]) \in 1 .. bs /\ Before(Len(some), bs) \in Nat
               /\ Len(some) = 0 => Len(buf) = 0
    <3>1. Len(some) \in Nat /\ DOMAIN some = 1 .. Len(some) /\ some \in Seq(Seq(E))
      BY <2>1 DEF IsCut, Chunked
    <3>2. \A i \in DOMAIN some : Len(some[i]) \in 1 .. bs BY <2>1 DEF IsCut, Chunked
    <3>3. Len(some) = 0 <=> some = <<>> BY <3>1
    <3>4. Len(buf) = IF some = <<>> THEN 0
                     ELSE Before(Len(some), bs) + Len(some[Len(some)])
      BY <2>1 DEF IsCut
    <3>5. Len(some) # 0 => Len(some) \in DOMAIN some /\ Len(some) \in Nat \ {0} BY <3>1
    <3>6. Len(some) # 0 => Before(Len(some), bs) \in Nat BY <3>5, BeforeFacts
    <3> QED BY <3>2, <3>3, <3>4, <3>5, <3>6
  <2> QED BY <2>1
<1> HIDE DEF n, m
<1>2. n = m
  <2>1. CASE n = 0 \/ m = 0 BY <1>0, <1>1, <2>1
  <2>2. CASE n # 0 /\ m # 0 /\ n < m
    <3>1. Before(n, bs) + bs <= Before(m, bs) BY <1>0, <2>2, BeforeFacts
    <3> QED BY <1>1, <2>2, <3>1
  <2>3. CASE n # 0 /\ m # 0 /\ m < n
    <3>1. Before(m, bs) + bs <= Before(n, bs) BY <1>0, <2>3, BeforeFacts
    <3> QED BY <1>1, <2>3, <3>1
  <2> QED BY <1>0, <2>1, <2>2, <2>3
<1>3. ASSUME NEW i \in 1 .. n PROVE chunks[i] = others[i]
  <2>1. i \in DOMAIN chunks /\ i \in DOMAIN others BY <1>0, <1>2
  <2>2. chunks[i] \in Seq(E) /\ others[i] \in Seq(E) BY <1>0, <2>1
  <2>3. Len(chunks[i]) = Len(others[i])
    <3>1. CASE i < n
      <4>1. i < Len(chunks) /\ i < Len(others) BY <1>2, <3>1 DEF n, m
      <4> QED BY <2>1, <4>1 DEF IsCut, Chunked
    <3>2. CASE i = n
      <4>1. Len(chunks[i]) \in Nat /\ Len(others[i]) \in Nat BY <2>2
      <4> QED BY <1>0, <1>1, <1>2, <3>2, <4>1
    <3> QED BY <1>0, <3>1, <3>2
  <2>4. \A j \in 1 .. Len(chunks[i]) : chunks[i][j] = others[i][j] BY <2>1, <2>3 DEF IsCut
  <2> QED BY <2>2, <2>3, <2>4
<1> QED BY <1>0, <1>2, <1>3 DEF n, m

--------------------------------------------------------------------------------
(* compressBlocks() cuts a buffer, and FlattenSeq makes the buffer of its  *)
(* chunks.                                                                 *)

\* What FlattenSeq makes of chunks is the buffer that is cut into them.
LEMMA FlattenIsCut ==
  ASSUME NEW E, NEW bs \in Nat \ {0}, NEW chunks, Chunked(E, chunks, bs)
  PROVE  IsCut(E, FlattenSeq(chunks), chunks, bs)
<1> DEFINE n == Len(chunks)
           L(i) == Len(chunks[i])
<1>0. /\ n \in Nat /\ chunks \in Seq(Seq(E)) /\ DOMAIN chunks = 1 .. n
      /\ \A i \in 1 .. n : /\ chunks[i] \in Seq(E) /\ L(i) \in 1 .. bs /\ (i < n => L(i) = bs)
                           /\ Before(i, bs) \in Nat
  <2>1. /\ n \in Nat /\ chunks \in Seq(Seq(E)) /\ DOMAIN chunks = 1 .. n
        /\ \A i \in DOMAIN chunks : L(i) \in 1 .. bs /\ (i < n => L(i) = bs)
    BY DEF Chunked
  <2>2. \A i \in 1 .. n : chunks[i] \in Seq(E) BY <2>1
  <2>3. \A i \in 1 .. n : Before(i, bs) \in Nat BY <2>1, BeforeFacts
  <2> QED BY <2>1, <2>2, <2>3
<1>1. CASE n = 0
  <2>1. chunks = <<>> BY <1>0, <1>1
  <2>2. FlattenSeq(chunks) = <<>> BY <1>1, <2>1 DEF FlattenSeq
  <2>3. FlattenSeq(chunks) \in Seq(E) /\ Len(FlattenSeq(chunks)) = 0 BY <2>2
  <2>4. DOMAIN chunks = {} BY <1>0, <1>1
  <2> HIDE DEF n, L
  <2> QED BY <2>1, <2>3, <2>4 DEF IsCut
<1>2. CASE n # 0
  <2>1. PICK f \in [1 .. n -> Seq(E)] :
          /\ f[1] = chunks[1]
          /\ \A i \in 2 .. n : f[i] = f[i - 1] \o chunks[i]
          /\ FlattenSeq(chunks) = f[n]
    BY <1>0, <1>2, FlattenSteps
  <2> DEFINE Good(m) ==
               /\ Len(f[m]) = Before(m, bs) + L(m)
               /\ \A i \in 1 .. m :
                    /\ Before(i, bs) + L(i) <= Len(f[m])
                    /\ \A j \in 1 .. L(i) : f[m][Before(i, bs) + j] = chunks[i][j]
             S == {m \in 1 .. n : Good(m)}
  <2> HIDE DEF n
  <2>2. 1 \in S
    <3>1. 1 \in 1 .. n BY <1>0, <1>2
    <3>2. Before(1, bs) = 0 BY BeforeFacts
    <3>3. L(1) \in Nat /\ f[1] = chunks[1] BY <1>0, <2>1, <3>1
    <3> QED BY <3>1, <3>2, <3>3
  <2>3. ASSUME NEW m \in 1 .. n, m \in S, m < n PROVE m + 1 \in S
    <3>1. /\ m + 1 \in 1 .. n /\ m + 1 \in 2 .. n /\ m + 1 - 1 = m /\ m \in Nat \ {0}
          /\ \A i \in 1 .. m : i \in 1 .. n
      <4> HIDE DEF S
      <4> QED BY <1>0, <2>3
    <3>2. f[m + 1] = f[m] \o chunks[m + 1]
      <4> DEFINE k == m + 1
      <4>1. k \in 2 .. n /\ k - 1 = m BY <3>1
      <4> HIDE DEF k
      <4>2. f[k] = f[k - 1] \o chunks[k] BY <2>1, <4>1
      <4> QED BY <4>1, <4>2 DEF k
    <3>3. f[m] \in Seq(E) /\ chunks[m + 1] \in Seq(E) BY <1>0, <2>1, <3>1
    <3>4. Good(m) BY <2>3
    <3>5. L(m) = bs BY <1>0, <2>3
    <3>6. Before(m + 1, bs) = Before(m, bs) + bs /\ Before(m, bs) \in Nat BY <3>1, BeforeFacts
    <3>7. Len(f[m]) = Before(m + 1, bs) BY <3>4, <3>5, <3>6
    <3>8. Len(f[m + 1]) = Before(m + 1, bs) + L(m + 1)
      <4>1. Len(f[m + 1]) = Len(f[m]) + Len(chunks[m + 1]) BY <3>2, <3>3
      <4> QED BY <3>7, <4>1
    <3>9. \A k \in 1 .. Len(f[m]) : f[m + 1][k] = f[m][k] BY <3>2, <3>3
    <3>10. \A j \in 1 .. L(m + 1) : f[m + 1][Len(f[m]) + j] = chunks[m + 1][j] BY <3>2, <3>3
    <3>11. Len(f[m]) \in Nat /\ L(m + 1) \in Nat BY <3>3
    <3>12. ASSUME NEW i \in 1 .. m + 1
           PROVE  /\ Before(i, bs) + L(i) <= Len(f[m + 1])
                  /\ \A j \in 1 .. L(i) : f[m + 1][Before(i, bs) + j] = chunks[i][j]
      <4>1. CASE i = m + 1 BY <3>7, <3>8, <3>10, <3>11, <4>1
      <4>2. CASE i # m + 1
        <5>1. i \in 1 .. m BY <3>1, <4>2
        <5>2. i \in 1 .. n BY <3>1, <5>1
        <5>3. L(i) \in Nat /\ Before(i, bs) \in Nat BY <1>0, <5>2
        <5>4. /\ Before(i, bs) + L(i) <= Len(f[m])
              /\ \A j \in 1 .. L(i) : f[m][Before(i, bs) + j] = chunks[i][j]
          BY <3>4, <5>1
        <5> DEFINE b == Before(i, bs)
                   l == L(i)
        <5>5. b \in Nat /\ l \in Nat /\ b + l <= Len(f[m])
              /\ \A j \in 1 .. l : f[m][b + j] = chunks[i][j]
          BY <5>3, <5>4
        <5> HIDE DEF b, l
        <5>6. b + l <= Len(f[m + 1]) BY <3>7, <3>8, <3>11, <5>5
        <5>7. \A j \in 1 .. l : b + j \in 1 .. Len(f[m]) BY <3>11, <5>5
        <5>8. \A j \in 1 .. l : f[m + 1][b + j] = chunks[i][j] BY <3>9, <5>5, <5>7
        <5> QED BY <5>6, <5>8 DEF b, l
      <4> QED BY <4>1, <4>2
    <3>13. Good(m + 1) BY <3>8, <3>12
    <3> QED BY <3>1, <3>13
  <2>4. n \in S
    <3>1. 1 <= n => 1 \in S BY <2>2
    <3>2. \A m \in 1 .. n : m \in S /\ m < n => m + 1 \in S BY <2>3
    <3> HIDE DEF S
    <3>3. 1 .. n \subseteq S BY <1>0, <3>1, <3>2, IntervalInduction
    <3> QED BY <1>0, <1>2, <3>3
  <2>5. Good(n) /\ f[n] \in Seq(E) BY <1>0, <1>2, <2>1, <2>4
  <2>6. chunks # <<>> BY <1>0, <1>2 DEF n
  <2> QED BY <1>0, <2>1, <2>5, <2>6 DEF IsCut, n
<1> QED BY <1>1, <1>2

\* compressBlocks() cuts its buffer.
LEMMA CompressIsCut ==
  ASSUME NEW E, NEW bs \in Nat \ {0}, NEW buf \in Seq(E)
  PROVE  IsCut(E, buf, compressBlocks(buf, bs), bs)
<1> DEFINE n == NumBlocks(Len(buf), bs)
           L == Len(buf)
           End(i) == IF Before(i, bs) + bs <= L THEN Before(i, bs) + bs ELSE L
           chunks == compressBlocks(buf, bs)
<1>0. L \in Nat OBVIOUS
<1> HIDE DEF L
<1>1. n \in Nat /\ \E r \in 0 .. bs - 1 : L + bs - 1 = n * bs + r
  <2>1. L + bs - 1 \in Nat BY <1>0
  <2>2. n = (L + bs - 1) \div bs BY DEF NumBlocks, L
  <2> QED BY <2>1, <2>2, DivModIs
<1> HIDE DEF n
<1>2. n = 0 => L = 0
  <2> SUFFICES ASSUME n = 0 PROVE L = 0 OBVIOUS
  <2>1. n * bs = 0 OBVIOUS
  <2> QED BY <1>0, <1>1, <2>1
<1>3. n # 0 => L <= Before(n, bs) + bs
  <2> SUFFICES ASSUME n # 0 PROVE L <= Before(n, bs) + bs OBVIOUS
  <2>1. Before(n + 1, bs) = n * bs BY <1>1 DEF Before
  <2>2. Before(n + 1, bs) = Before(n, bs) + bs /\ Before(n, bs) \in Nat BY <1>1, BeforeFacts
  <2>3. L <= n * bs
    <3>1. PICK r \in 0 .. bs - 1 : L + bs - 1 = n * bs + r BY <1>1
    <3>2. n * bs \in Nat BY <1>1
    <3> QED BY <1>0, <3>1, <3>2
  <2> QED BY <2>1, <2>2, <2>3
<1>4. \A i \in 1 .. n : Before(i, bs) \in Nat /\ Before(i, bs) < L
  <2> SUFFICES ASSUME NEW i \in 1 .. n PROVE Before(i, bs) \in Nat /\ Before(i, bs) < L OBVIOUS
  <2>1. i \in Nat \ {0} /\ n \in Nat \ {0} /\ i <= n BY <1>1
  <2>2. /\ Before(i, bs) \in Nat /\ Before(n, bs) \in Nat /\ Before(i, bs) <= Before(n, bs)
        /\ Before(n + 1, bs) = Before(n, bs) + bs
    BY <2>1, BeforeFacts
  <2>3. Before(n + 1, bs) = n * bs BY <1>1 DEF Before
  <2>4. PICK r \in 0 .. bs - 1 : L + bs - 1 = n * bs + r BY <1>1
  <2>5. L + bs - 1 = Before(n, bs) + bs + r BY <2>2, <2>3, <2>4
  <2> QED BY <1>0, <2>2, <2>4, <2>5
<1>5. \A i \in 1 .. n : i < n => Before(i, bs) + bs <= L
  <2> SUFFICES ASSUME NEW i \in 1 .. n, i < n PROVE Before(i, bs) + bs <= L OBVIOUS
  <2>1. i \in Nat \ {0} /\ n \in Nat \ {0} /\ n \in 1 .. n BY <1>1
  <2>2. Before(i, bs) + bs <= Before(n, bs) /\ Before(i, bs) \in Nat BY <2>1, BeforeFacts
  <2> QED BY <1>0, <1>4, <2>1, <2>2
<1>6. chunks = [i \in 1 .. n |-> SubSeq(buf, Before(i, bs) + 1, End(i))]
  <2>1. ASSUME NEW i \in 1 .. n
        PROVE  SubSeq(buf, (i - 1) * bs + 1, Min({i * bs, Len(buf)}))
                 = SubSeq(buf, Before(i, bs) + 1, End(i))
    <3>1. i \in Nat \ {0} BY <1>1
    <3>2. i * bs = Before(i, bs) + bs /\ i * bs \in Nat
      <4>1. Before(i + 1, bs) = i * bs BY <3>1 DEF Before
      <4> QED BY <3>1, <4>1, BeforeFacts
    <3>3. Min({i * bs, L}) = End(i) BY <1>0, <3>2, MinOfTwo
    <3> QED BY <3>3 DEF Before, L
  <2> QED BY <2>1 DEF compressBlocks, n
<1>7. ASSUME NEW i \in 1 .. n
      PROVE  /\ chunks[i] \in Seq(E)
             /\ Len(chunks[i]) = End(i) - Before(i, bs)
             /\ Len(chunks[i]) \in 1 .. bs
             /\ i < n => Len(chunks[i]) = bs
             /\ i = n => Before(i, bs) + Len(chunks[i]) = L
             /\ Before(i, bs) + Len(chunks[i]) <= L
             /\ \A j \in 1 .. Len(chunks[i]) : buf[Before(i, bs) + j] = chunks[i][j]
  <2> DEFINE b == Before(i, bs)
             e == End(i)
  <2>1. b \in Nat /\ b < L /\ (i < n => b + bs <= L) /\ (i = n => L <= b + bs)
    BY <1>1, <1>3, <1>4, <1>5
  <2>2. e \in Nat /\ b < e /\ e <= L /\ e <= b + bs /\ (i < n => e = b + bs) /\ (i = n => e = L)
    <3> HIDE DEF b
    <3>1. e = IF b + bs <= L THEN b + bs ELSE L BY DEF b
    <3> HIDE DEF e
    <3> QED BY <1>0, <2>1, <3>1
  <2>3. chunks[i] = SubSeq(buf, b + 1, e) BY <1>6
  <2> HIDE DEF b, e, chunks
  <2>4. /\ SubSeq(buf, b + 1, e) \in Seq(E) /\ Len(SubSeq(buf, b + 1, e)) = e - b
        /\ \A j \in 1 .. e - b : SubSeq(buf, b + 1, e)[j] = buf[b + j]
    BY <1>0, <2>1, <2>2 DEF L
  <2>5. e - b \in 1 .. bs /\ (i < n => e - b = bs) /\ (i = n => b + (e - b) = L)
        /\ b + (e - b) <= L
    BY <1>0, <1>1, <2>1, <2>2
  <2>6. chunks[i] \in Seq(E) /\ Len(chunks[i]) = e - b
        /\ \A j \in 1 .. e - b : chunks[i][j] = buf[b + j]
    BY <2>3, <2>4
  <2> QED BY <2>5, <2>6 DEF b, e
<1>8. Len(chunks) = n /\ DOMAIN chunks = 1 .. n BY <1>1, <1>6
<1>9. chunks \in Seq(Seq(E))
  <2> HIDE DEF chunks
  <2>1. chunks = [i \in 1 .. n |-> chunks[i]] BY <1>6, <1>8
  <2>2. \A i \in 1 .. n : chunks[i] \in Seq(E) BY <1>7
  <2> QED BY <1>1, <2>1, <2>2
<1>10. chunks = <<>> <=> n = 0 BY <1>1, <1>8, <1>9
<1> HIDE DEF chunks
<1>11. Chunked(E, chunks, bs) BY <1>7, <1>8, <1>9 DEF Chunked
<1>12. L = IF chunks = <<>> THEN 0 ELSE Before(Len(chunks), bs) + Len(chunks[Len(chunks)])
  <2>1. n # 0 => n \in 1 .. n BY <1>1
  <2> QED BY <1>1, <1>2, <1>7, <1>8, <1>10, <2>1
<1> QED BY <1>7, <1>8, <1>11, <1>12 DEF IsCut, chunks, L

--------------------------------------------------------------------------------
(* An array on its way out and back.                                       *)

\* The chunks of a buffer make the buffer.
LEMMA FlattenUndoesCompress ==
  ASSUME NEW E, NEW bs \in Nat \ {0}, NEW buf \in Seq(E)
  PROVE  decompressBlocks(compressBlocks(buf, bs)) = buf
<1> DEFINE chunks == compressBlocks(buf, bs)
<1>1. IsCut(E, buf, chunks, bs) BY CompressIsCut
<1> HIDE DEF chunks
<1>2. IsCut(E, FlattenSeq(chunks), chunks, bs) BY <1>1, FlattenIsCut DEF IsCut
<1>3. FlattenSeq(chunks) = buf BY <1>1, <1>2, OneBuffer
<1> QED BY <1>3 DEF chunks, decompressBlocks

\* A buffer made of chunks is cut where they end.
LEMMA CompressUndoesFlatten ==
  ASSUME NEW E, NEW bs \in Nat \ {0}, NEW chunks, Chunked(E, chunks, bs)
  PROVE  compressBlocks(FlattenSeq(chunks), bs) = chunks
<1> DEFINE buf == FlattenSeq(chunks)
           again == compressBlocks(buf, bs)
<1>1. IsCut(E, buf, chunks, bs) BY FlattenIsCut
<1>2. buf \in Seq(E) BY <1>1 DEF IsCut
<1> HIDE DEF buf
<1>3. IsCut(E, buf, again, bs) BY <1>2, CompressIsCut
<1> HIDE DEF again
<1>4. again = chunks BY <1>1, <1>3, OneCut
<1> QED BY <1>4 DEF again, buf

\* Shuffling the whole elements of a chunk keeps its length.
LEMMA WholeElementsKeepLength ==
  ASSUME NEW E, NEW elem_size \in Nat \ {0}, NEW chunk \in Seq(E)
  PROVE  /\ OnWholeElements(byte_shuffle, chunk, elem_size) \in Seq(E)
         /\ Len(OnWholeElements(byte_shuffle, chunk, elem_size)) = Len(chunk)
<1> DEFINE count == Len(chunk) \div elem_size
           n     == count * elem_size
           mid   == byte_shuffle(chunk, count, elem_size)
           rest  == SubSeq(chunk, n + 1, Len(chunk))
<1>0. Len(chunk) \in Nat OBVIOUS
<1>1. count \in Nat /\ n \in Nat /\ n <= Len(chunk)
  <2>1. /\ count \in Nat /\ Len(chunk) % elem_size \in 0 .. elem_size - 1
        /\ Len(chunk) = count * elem_size + (Len(chunk) % elem_size)
    BY <1>0, DivModIs
  <2> HIDE DEF count
  <2>2. n \in Nat BY <2>1
  <2> QED BY <1>0, <2>1, <2>2
<1> HIDE DEF count
<1>2. mid \in Seq(E) /\ Len(mid) = n BY <1>1, ShuffleKeepsLength
<1>3. rest \in Seq(E) /\ Len(rest) = Len(chunk) - n
  <2> HIDE DEF n
  <2> QED BY <1>0, <1>1
<1>4. OnWholeElements(byte_shuffle, chunk, elem_size) = mid \o rest
  BY DEF OnWholeElements, count
<1> HIDE DEF mid, rest, n
<1>5. mid \o rest \in Seq(E) /\ Len(mid \o rest) = Len(chunk) BY <1>0, <1>1, <1>2, <1>3
<1> QED BY <1>4, <1>5

\* The chunks of an array, shuffled one by one, are cut where they were: the blocks
\* that are written are the shuffled chunks, and each is decoded on its own.
LEMMA BlocksAreShuffledChunks ==
  ASSUME NEW E, NEW bs \in Nat \ {0}, NEW elem_size \in Nat \ {0}, NEW buf \in Seq(E)
  PROVE  LET chunks   == compressBlocks(buf, bs)
             shuffled == [i \in DOMAIN chunks |->
                            OnWholeElements(byte_shuffle, chunks[i], elem_size)]
         IN  /\ Chunked(E, chunks, bs) /\ Chunked(E, shuffled, bs)
             /\ DOMAIN shuffled = DOMAIN chunks
             /\ \A i \in DOMAIN chunks : /\ chunks[i] \in Seq(E)
                                         /\ Len(shuffled[i]) = Len(chunks[i])
             /\ byte_shuffle_blocked(buf, elem_size, bs) = FlattenSeq(shuffled)
             /\ compressBlocks(byte_shuffle_blocked(buf, elem_size, bs), bs) = shuffled
<1> DEFINE chunks   == compressBlocks(buf, bs)
           shuffled == [i \in DOMAIN chunks |->
                          OnWholeElements(byte_shuffle, chunks[i], elem_size)]
<1>1. Chunked(E, chunks, bs)
  <2>1. IsCut(E, buf, chunks, bs) BY CompressIsCut
  <2> QED BY <2>1 DEF IsCut
<1>2. byte_shuffle_blocked(buf, elem_size, bs) = FlattenSeq(shuffled)
  BY DEF byte_shuffle_blocked, EachChunk
<1> HIDE DEF chunks
<1>3. chunks \in Seq(Seq(E)) /\ Len(chunks) \in Nat /\ DOMAIN chunks = 1 .. Len(chunks)
      /\ \A i \in DOMAIN chunks :
           /\ chunks[i] \in Seq(E)
           /\ Len(chunks[i]) \in 1 .. bs /\ (i < Len(chunks) => Len(chunks[i]) = bs)
  BY <1>1 DEF Chunked
<1>4. DOMAIN shuffled = DOMAIN chunks OBVIOUS
<1>5. \A i \in DOMAIN chunks : shuffled[i] \in Seq(E) /\ Len(shuffled[i]) = Len(chunks[i])
  BY <1>3, WholeElementsKeepLength
<1>6. shuffled \in Seq(Seq(E)) /\ Len(shuffled) = Len(chunks)
  <2> HIDE DEF shuffled
  <2>1. shuffled = [i \in 1 .. Len(chunks) |-> shuffled[i]] BY <1>3, <1>4 DEF shuffled
  <2>2. \A i \in 1 .. Len(chunks) : shuffled[i] \in Seq(E) BY <1>3, <1>5
  <2> QED BY <1>3, <2>1, <2>2
<1> HIDE DEF shuffled
<1>7. Chunked(E, shuffled, bs) BY <1>3, <1>4, <1>5, <1>6 DEF Chunked
<1>8. compressBlocks(FlattenSeq(shuffled), bs) = shuffled BY <1>7, CompressUndoesFlatten
<1> QED BY <1>1, <1>2, <1>3, <1>4, <1>5, <1>7, <1>8 DEF chunks, shuffled

\* The per-block shuffle is undone by the block size of the first block, which is
\* that of all: the reader needs no block size but what the file tells it.
LEMMA BlockedRoundTrip ==
  ASSUME NEW E, NEW bs \in Nat \ {0}, NEW elem_size \in Nat \ {0}, NEW buf \in Seq(E),
         NEW blocks, blocks = compressBlocks(byte_shuffle_blocked(buf, elem_size, bs), bs),
         blocks # <<>>
  PROVE  byte_unshuffle_blocked(decompressBlocks(blocks), elem_size, WrittenBlockSize(blocks))
           = buf
<1> DEFINE chunks   == compressBlocks(buf, bs)
           shuffled == [i \in DOMAIN chunks |->
                          OnWholeElements(byte_shuffle, chunks[i], elem_size)]
           back     == [i \in DOMAIN shuffled |->
                          OnWholeElements(byte_unshuffle, shuffled[i], elem_size)]
           wbs      == WrittenBlockSize(blocks)
<1>1. /\ Chunked(E, chunks, bs) /\ Chunked(E, shuffled, bs)
      /\ DOMAIN shuffled = DOMAIN chunks
      /\ \A i \in DOMAIN chunks : chunks[i] \in Seq(E)
      /\ blocks = shuffled
  BY BlocksAreShuffledChunks
<1>2. \A i \in DOMAIN chunks :
        /\ shuffled[i] = OnWholeElements(byte_shuffle, chunks[i], elem_size)
        /\ OnWholeElements(byte_unshuffle, shuffled[i], elem_size) = chunks[i]
  BY <1>1, BlockIsSelfContained
<1>3. back = chunks
  <2>1. chunks = [i \in DOMAIN chunks |-> chunks[i]] BY <1>1 DEF Chunked
  <2> QED BY <1>1, <1>2, <2>1
<1> HIDE DEF shuffled
<1>4. wbs \in 1 .. bs /\ Chunked(E, blocks, wbs)
  <2>1. /\ blocks \in Seq(Seq(E)) /\ Len(blocks) \in Nat /\ Len(blocks) # 0
        /\ DOMAIN blocks = 1 .. Len(blocks)
        /\ \A i \in DOMAIN blocks :
             Len(blocks[i]) \in 1 .. bs /\ (i < Len(blocks) => Len(blocks[i]) = bs)
    BY <1>1 DEF Chunked
  <2>2. 1 \in DOMAIN blocks BY <2>1
  <2>3. wbs \in 1 .. bs BY <2>1, <2>2 DEF WrittenBlockSize
  <2>4. CASE Len(blocks) = 1
    <3>1. \A i \in DOMAIN blocks : i = 1 BY <2>1, <2>4
    <3>2. wbs = Len(blocks[1]) BY DEF WrittenBlockSize
    <3> HIDE DEF wbs
    <3>3. \A i \in DOMAIN blocks :
            Len(blocks[i]) \in 1 .. wbs /\ (i < Len(blocks) => Len(blocks[i]) = wbs)
      BY <2>3, <2>4, <3>1, <3>2
    <3> QED BY <2>1, <2>3, <3>3 DEF Chunked
  <2>5. CASE Len(blocks) # 1
    <3>1. 1 < Len(blocks) BY <2>1, <2>5
    <3>2. wbs = bs BY <2>1, <2>2, <3>1 DEF WrittenBlockSize
    <3> QED BY <1>1, <2>3, <3>2
  <2> QED BY <2>4, <2>5
<1> HIDE DEF wbs
<1>5. compressBlocks(FlattenSeq(blocks), wbs) = blocks BY <1>4, CompressUndoesFlatten
<1>6. byte_unshuffle_blocked(FlattenSeq(blocks), elem_size, wbs) = FlattenSeq(back)
  BY <1>1, <1>5 DEF byte_unshuffle_blocked, EachChunk
<1>7. FlattenSeq(chunks) = buf BY FlattenUndoesCompress DEF decompressBlocks
<1> QED BY <1>3, <1>6, <1>7 DEF decompressBlocks, wbs

\* decode_array_bytes() returns what serialize_array_data() was given, for every
\* codec, element size and block size, and an array of any size.
THEOREM DecodeUndoesSerialize ==
  ASSUME NEW E, NEW codec \in Codecs, NEW count \in Nat, NEW elem_size \in Nat \ {0},
         NEW bs \in Nat \ {0}, NEW bytes \in Seq(E), Len(bytes) = count * elem_size
  PROVE  decode_array_bytes(
           compressBlocks(serialize_array_data(bytes, codec, elem_size, bs), bs),
           codec, elem_size) = bytes
<1> DEFINE blocks == compressBlocks(serialize_array_data(bytes, codec, elem_size, bs), bs)
<1>0. Len(bytes) \div elem_size = count BY DivModOf
<1>1. CASE codec = "block"
  <2>1. serialize_array_data(bytes, codec, elem_size, bs)
          = byte_shuffle_blocked(bytes, elem_size, bs)
    BY <1>1 DEF serialize_array_data, uses_block_shuffle, uses_global_shuffle
  <2>2. CASE blocks # <<>>
    <3>1. decode_array_bytes(blocks, codec, elem_size)
            = byte_unshuffle_blocked(decompressBlocks(blocks), elem_size,
                                     WrittenBlockSize(blocks))
      <4> HIDE DEF blocks
      <4> QED BY <1>1, <2>2
           DEF decode_array_bytes, uses_block_shuffle, uses_global_shuffle
    <3> QED BY <2>1, <2>2, <3>1, BlockedRoundTrip
  <2>3. CASE blocks = <<>>
    <3>1. decode_array_bytes(blocks, codec, elem_size) = <<>>
      <4> HIDE DEF blocks
      <4>1. decode_array_bytes(blocks, codec, elem_size) = decompressBlocks(blocks)
        BY <1>1, <2>3 DEF decode_array_bytes, uses_block_shuffle, uses_global_shuffle
      <4> QED BY <2>3, <4>1 DEF decompressBlocks, FlattenSeq
    <3> DEFINE chunks == compressBlocks(bytes, bs)
    <3> DEFINE shuffled == [i \in DOMAIN chunks |->
                              OnWholeElements(byte_shuffle, chunks[i], elem_size)]
    <3>2. DOMAIN blocks = DOMAIN chunks
      <4>1. DOMAIN shuffled = DOMAIN chunks OBVIOUS
      <4>2. compressBlocks(byte_shuffle_blocked(bytes, elem_size, bs), bs) = shuffled
        <5> HIDE DEF blocks
        <5>1. /\ Chunked(E, chunks, bs) /\ Chunked(E, shuffled, bs)
              /\ DOMAIN shuffled = DOMAIN chunks
              /\ \A i \in DOMAIN chunks : /\ chunks[i] \in Seq(E)
                                          /\ Len(shuffled[i]) = Len(chunks[i])
              /\ byte_shuffle_blocked(bytes, elem_size, bs) = FlattenSeq(shuffled)
              /\ compressBlocks(byte_shuffle_blocked(bytes, elem_size, bs), bs) = shuffled
          BY BlocksAreShuffledChunks
        <5> QED BY <5>1
      <4>3. blocks = shuffled BY <2>1, <4>2
      <4> HIDE DEF blocks, shuffled
      <4> QED BY <4>1, <4>3
    <3>3. chunks = <<>>
      <4>1. chunks \in Seq(Seq(E)) BY CompressIsCut DEF IsCut, Chunked
      <4> HIDE DEF blocks, chunks
      <4> QED BY <2>3, <3>2, <4>1
    <3>4. bytes = <<>>
      <4>1. FlattenSeq(chunks) = bytes BY FlattenUndoesCompress DEF decompressBlocks
      <4> HIDE DEF chunks
      <4> QED BY <3>3, <4>1 DEF FlattenSeq
    <3> QED BY <3>1, <3>4
  <2> QED BY <2>2, <2>3
<1>2. CASE codec = "global"
  <2> DEFINE mid == byte_shuffle(bytes, count, elem_size)
  <2>1. serialize_array_data(bytes, codec, elem_size, bs) = mid
    BY <1>0, <1>2 DEF serialize_array_data, uses_block_shuffle, uses_global_shuffle
  <2>2. mid \in Seq(E) /\ Len(mid) = count * elem_size
    <3>1. Len(bytes) >= count * elem_size BY Z3
    <3> QED BY <3>1, ShuffleKeepsLength
  <2>3. decompressBlocks(blocks) = mid
    <3> HIDE DEF mid
    <3> QED BY <2>1, <2>2, FlattenUndoesCompress
  <2>4. Len(mid) \div elem_size = count
    <3> HIDE DEF mid
    <3> QED BY <1>0, <2>2
  <2>5. decode_array_bytes(blocks, codec, elem_size) = byte_unshuffle(mid, count, elem_size)
    <3> HIDE DEF mid, blocks
    <3> QED BY <1>2, <2>3, <2>4
         DEF decode_array_bytes, uses_block_shuffle, uses_global_shuffle
  <2> QED BY <2>5, UnshuffleUndoesShuffle
<1>3. CASE codec = "plain"
  <2>1. serialize_array_data(bytes, codec, elem_size, bs) = bytes
    BY <1>3 DEF serialize_array_data, uses_block_shuffle, uses_global_shuffle
  <2>2. decompressBlocks(blocks) = bytes BY <2>1, FlattenUndoesCompress
  <2> HIDE DEF blocks
  <2>3. decode_array_bytes(blocks, codec, elem_size) = bytes
    BY <1>3, <2>2 DEF decode_array_bytes, uses_block_shuffle, uses_global_shuffle
  <2> QED BY <2>3 DEF blocks
<1> QED BY <1>1, <1>2, <1>3 DEF Codecs

--------------------------------------------------------------------------------
(* The size of a slice.                                                    *)

\* Length(s) is the number of steps from start that stay before stop: the shape that
\* get_slice() allocates is filled to its last element by the step loops, and not
\* beyond. (Without a step, or with stop <= start, nothing is allocated.)
THEOREM LengthCountsSteps ==
  ASSUME NEW start \in Nat, NEW stop \in Nat, NEW step \in Nat \ {0}
  PROVE  /\ Length(Slice(start, stop, step)) \in Nat
         /\ \A i \in Nat : i < Length(Slice(start, stop, step)) <=> start + i * step < stop
<1> DEFINE length == Length(Slice(start, stop, step))
           up     == stop - start + step - 1
<1>1. CASE stop <= start
  <2>1. length = 0 BY <1>1 DEF Length, Slice
  <2>2. \A i \in Nat : i * step >= 0 OBVIOUS
  <2>3. \A i \in Nat : ~(start + i * step < stop)
    <3> SUFFICES ASSUME NEW i \in Nat PROVE ~(start + i * step < stop) OBVIOUS
    <3>1. i * step \in Nat OBVIOUS
    <3> QED BY <1>1, <3>1
  <2> QED BY <2>1, <2>3
<1>2. CASE stop > start
  <2>1. length = up \div step BY <1>2 DEF Length, Slice
  <2>2. up \in Nat BY <1>2
  <2>3. /\ length \in Nat /\ up % step \in 0 .. step - 1
        /\ up = length * step + (up % step)
    BY <2>1, <2>2, DivModIs
  <2> DEFINE r == up % step
  <2> HIDE DEF length, r
  <2>4. r \in 0 .. step - 1 /\ length \in Nat /\ up = length * step + r BY <2>3 DEF r
  <2>5. ASSUME NEW i \in Nat PROVE i < length <=> start + i * step < stop
    <3>1. length * step \in Nat /\ i * step \in Nat BY <2>4
    <3>2. CASE i < length
      <4>1. (i + 1) * step <= length * step BY <2>4, <3>2
      <4>2. (i + 1) * step = i * step + step OBVIOUS
      <4> DEFINE a == i * step
                 b == length * step
      <4> HIDE DEF a, b
      <4>3. a + step <= b /\ a \in Nat /\ b \in Nat BY <3>1, <4>1, <4>2 DEF a, b
      <4>4. stop - start + step - 1 = b + r BY <2>4 DEF b
      <4>5. start + a < stop BY <2>4, <4>3, <4>4
      <4> QED BY <3>2, <4>5 DEF a
    <3>3. CASE i >= length
      <4>1. i * step >= length * step BY <2>4, <3>3
      <4> DEFINE a == i * step
                 b == length * step
      <4> HIDE DEF a, b
      <4>2. a >= b /\ a \in Nat /\ b \in Nat BY <3>1, <4>1 DEF a, b
      <4>3. stop - start + step - 1 = b + r BY <2>4 DEF b
      <4>4. start + a >= stop BY <2>4, <4>2, <4>3
      <4> QED BY <2>4, <3>3, <4>4 DEF a
    <3> QED BY <2>4, <3>2, <3>3
  <2> QED BY <2>4, <2>5 DEF length
<1>3. stop <= start \/ stop > start OBVIOUS
<1> QED BY <1>1, <1>2, <1>3, Zenon

--------------------------------------------------------------------------------
(* The product of the dimensions.                                          *)

\* Product goes through the dimensions from the first to the last.
LEMMA ProductSteps ==
  ASSUME NEW dims \in Seq(Nat)
  PROVE  \E f \in [0 .. Len(dims) -> Nat] :
           /\ f[0] = 1
           /\ \A i \in 1 .. Len(dims) : f[i] = f[i - 1] * dims[i]
           /\ Product(dims) = f[Len(dims)]
<1> DEFINE n == Len(dims)
           Value(g, s) == IF s = {} THEN 1 ELSE g[s \ {Max(s)}] * dims[Max(s)]
           Fits(g, m) == \A s \in SUBSET (1 .. m) : g[s] = Value(g, s)
           T == {m \in 0 .. n : \E g \in [SUBSET (1 .. m) -> Nat] : Fits(g, m)}
           Step(g) == [s \in SUBSET (1 .. n) |-> Value(g, s)]
<1>0. n \in Nat /\ DOMAIN dims = 1 .. n /\ \A i \in 1 .. n : dims[i] \in Nat OBVIOUS
<1> HIDE DEF n
<1>1. 0 .. n \subseteq T
  <2>1. 0 \in T
    <3> DEFINE g == [s \in SUBSET (1 .. 0) |-> 1]
    <3>1. \A s \in SUBSET (1 .. 0) : s = {} OBVIOUS
    <3>2. g \in [SUBSET (1 .. 0) -> Nat] /\ Fits(g, 0) BY <3>1
    <3>3. 0 \in 0 .. n BY <1>0
    <3> QED BY <3>2, <3>3
  <2>2. ASSUME NEW m \in 0 .. n, m \in T, m < n PROVE m + 1 \in T
    <3>1. PICK g \in [SUBSET (1 .. m) -> Nat] : Fits(g, m) BY <2>2
    <3>2. m \in Nat /\ m + 1 \in 0 .. n /\ m + 1 \in 1 .. n /\ dims[m + 1] \in Nat
      <4> HIDE DEF T
      <4>1. m \in Nat /\ m + 1 \in 0 .. n /\ m + 1 \in 1 .. n BY <1>0, <2>2
      <4> QED BY <1>0, <4>1
    <3> DEFINE h == [s \in SUBSET (1 .. m + 1) |->
                       IF m + 1 \in s THEN g[s \ {m + 1}] * dims[m + 1] ELSE g[s]]
    <3>3. \A s \in SUBSET (1 .. m + 1) :
            /\ m + 1 \in s => s \ {m + 1} \in SUBSET (1 .. m) /\ Max(s) = m + 1
            /\ m + 1 \notin s => s \in SUBSET (1 .. m)
      <4> SUFFICES ASSUME NEW s \in SUBSET (1 .. m + 1)
                   PROVE  /\ m + 1 \in s => s \ {m + 1} \in SUBSET (1 .. m) /\ Max(s) = m + 1
                          /\ m + 1 \notin s => s \in SUBSET (1 .. m)
        OBVIOUS
      <4>1. \A x \in 1 .. m + 1 : x # m + 1 => x \in 1 .. m BY <3>2
      <4>2. m + 1 \in s => Max(s) = m + 1
        <5>1. m + 1 \in Nat BY <3>2
        <5> QED BY <5>1, MaxIs
      <4> QED BY <4>1, <4>2
    <3>4. h \in [SUBSET (1 .. m + 1) -> Nat]
      <4>1. ASSUME NEW s \in SUBSET (1 .. m + 1)
            PROVE  (IF m + 1 \in s THEN g[s \ {m + 1}] * dims[m + 1] ELSE g[s]) \in Nat
        <5>1. CASE m + 1 \in s
          <6>1. g[s \ {m + 1}] \in Nat BY <3>1, <3>3, <5>1
          <6>2. g[s \ {m + 1}] * dims[m + 1] \in Nat BY <3>2, <6>1
          <6> QED BY <5>1, <6>2
        <5>2. CASE m + 1 \notin s BY <3>1, <3>3, <5>2
        <5> QED BY <5>1, <5>2
      <4> QED BY <4>1
    <3>5. Fits(h, m + 1)
      <4> SUFFICES ASSUME NEW s \in SUBSET (1 .. m + 1) PROVE h[s] = Value(h, s) OBVIOUS
      <4>1. CASE m + 1 \in s
        <5> DEFINE u == s \ {m + 1}
        <5>1. u \in SUBSET (1 .. m) /\ u \in SUBSET (1 .. m + 1) /\ m + 1 \notin u /\ s # {}
              /\ Max(s) = m + 1
          <6>1. u \in SUBSET (1 .. m) /\ Max(s) = m + 1 BY <3>3, <4>1
          <6> QED BY <4>1, <6>1
        <5>2. h[s] = g[u] * dims[m + 1] BY <4>1
        <5>3. h[u] = g[u]
          <6> HIDE DEF u
          <6> QED BY <5>1
        <5> HIDE DEF h
        <5> QED BY <5>1, <5>2, <5>3
      <4>2. CASE m + 1 \notin s
        <5> DEFINE u == s \ {Max(s)}
        <5>1. s \in SUBSET (1 .. m) BY <3>3, <4>2
        <5>2. h[s] = g[s] BY <4>2
        <5>3. u \in SUBSET (1 .. m + 1) /\ m + 1 \notin u BY <4>2
        <5>4. h[u] = g[u]
          <6> HIDE DEF u
          <6> QED BY <5>3
        <5>5. g[s] = Value(g, s) BY <3>1, <5>1
        <5> HIDE DEF h
        <5> QED BY <5>2, <5>4, <5>5
      <4> QED BY <4>1, <4>2
    <3> HIDE DEF h, Fits
    <3> QED BY <3>2, <3>4, <3>5
  <2> HIDE DEF T
  <2>3. 0 <= n => 0 \in T BY <2>1
  <2>4. \A m \in 0 .. n : m \in T /\ m < n => m + 1 \in T BY <2>2
  <2> QED BY <1>0, <2>3, <2>4, IntervalInduction
<1>2. PICK g \in [SUBSET (1 .. n) -> Nat] : Fits(g, n)
  <2>1. n \in T
    <3> HIDE DEF T
    <3> QED BY <1>0, <1>1
  <2> QED BY <2>1
<1>3. g = Step(g)
  <2>1. g = [s \in SUBSET (1 .. n) |-> g[s]] BY <1>2
  <2> QED BY <1>2, <2>1
<1> DEFINE iter == CHOOSE h : h = Step(h)
<1>4. iter = Step(iter)
  <2> HIDE DEF Step
  <2> QED BY <1>3
<1>5. Product(dims) = iter[1 .. n]
  BY <1>0 DEF Product, FoldLeft, MapThenFoldSet
<1> HIDE DEF iter
<1> DEFINE f == [m \in 0 .. n |-> iter[1 .. m]]
<1>6. f[0] = 1
  <2>1. 1 .. 0 = {} /\ {} \in SUBSET (1 .. n) /\ 0 \in 0 .. n BY <1>0
  <2>2. iter[{}] = 1 BY <1>4, <2>1
  <2> QED BY <2>1, <2>2
<1>7. ASSUME NEW i \in 1 .. n PROVE f[i] = f[i - 1] * dims[i]
  <2>1. i \in 0 .. n /\ i - 1 \in 0 .. n /\ i \in Nat BY <1>0
  <2>2. 1 .. i \in SUBSET (1 .. n) /\ 1 .. i # {} /\ i \in 1 .. i
    <3>1. i \in Nat /\ n \in Nat /\ 1 <= i /\ i <= n BY <1>0
    <3>2. \A x \in 1 .. i : x \in 1 .. n BY <3>1
    <3>3. i \in 1 .. i BY <3>1
    <3> QED BY <3>2, <3>3
  <2>3. Max(1 .. i) = i BY <2>1, <2>2, MaxIs
  <2>4. (1 .. i) \ {i} = 1 .. i - 1 BY <2>1
  <2>5. iter[1 .. i] = Value(iter, 1 .. i)
    <3> HIDE DEF Value
    <3>1. Step(iter)[1 .. i] = Value(iter, 1 .. i) BY <2>2
    <3> HIDE DEF Step
    <3> QED BY <1>4, <3>1
  <2>6. iter[1 .. i] = iter[1 .. i - 1] * dims[i] BY <2>2, <2>3, <2>4, <2>5
  <2> QED BY <2>1, <2>6
<1>8. f \in [0 .. n -> Nat]
  <2> DEFINE N == {m \in 0 .. n : f[m] \in Nat}
  <2> HIDE DEF f
  <2>1. 0 <= n => 0 \in N BY <1>0, <1>6
  <2>2. \A m \in 0 .. n : m \in N /\ m < n => m + 1 \in N
    <3> SUFFICES ASSUME NEW m \in 0 .. n, m \in N, m < n PROVE m + 1 \in N OBVIOUS
    <3> DEFINE k == m + 1
    <3>1. k \in 1 .. n /\ k \in 0 .. n /\ k - 1 = m BY <1>0
    <3>2. f[m] \in Nat OBVIOUS
    <3> HIDE DEF k, N
    <3>3. f[k] = f[k - 1] * dims[k] BY <1>7, <3>1
    <3>4. dims[k] \in Nat BY <1>0, <3>1
    <3>5. f[k] \in Nat BY <3>1, <3>2, <3>3, <3>4
    <3> QED BY <3>1, <3>5 DEF k, N
  <2> HIDE DEF N
  <2>3. 0 .. n \subseteq N BY <1>0, <2>1, <2>2, IntervalInduction
  <2>4. \A m \in 0 .. n : f[m] \in Nat BY <2>3 DEF N
  <2>5. f = [m \in 0 .. n |-> f[m]] BY DEF f
  <2> QED BY <2>4, <2>5
<1>9. Product(dims) = f[n] BY <1>0, <1>5
<1> HIDE DEF f
<1> QED BY <1>6, <1>7, <1>8, <1>9 DEF n

LEMMA ProductType ==
  ASSUME NEW dims \in Seq(Nat)
  PROVE  Product(dims) \in Nat
<1>1. PICK f \in [0 .. Len(dims) -> Nat] : Product(dims) = f[Len(dims)] BY ProductSteps
<1>2. Len(dims) \in 0 .. Len(dims) OBVIOUS
<1> QED BY <1>1, <1>2

--------------------------------------------------------------------------------
(* The file holds the array that was put, and get() reads it.              *)

\* A stored array of numbers: the blocks are those of the bytes that were put.
StoredNumbers ==
  array # None /\ array.kind = "numbers" =>
    /\ array.codec \in Codecs /\ array.elem \in Nat \ {0}
    /\ array.put \in Seq(Nat)
    /\ array.shape \in Seq(Nat) /\ array.shape # <<>>
    /\ Len(array.put) = Product(array.shape) * array.elem
    /\ \E bs \in Nat \ {0} :
         array.blocks =
           compressBlocks(serialize_array_data(array.put, array.codec, array.elem, bs), bs)

\* The answer to get() was decoded from the blocks that are stored.
AnsweredFromFile ==
  answer.of = "all" =>
    /\ array # None /\ array.kind = "numbers"
    /\ answer.data = decode_array_bytes(array.blocks, array.codec, array.elem)

GetInv == StoredNumbers /\ AnsweredFromFile

LEMMA GetInvInit == Init => GetInv
BY DEF Init, GetInv, StoredNumbers, AnsweredFromFile, NoQuestion

LEMMA PutNumbersStores ==
  ASSUME GetInv, NEW shape \in Shapes, NEW codec \in Codecs, NEW elem \in ElementSizes,
         NEW block_size \in BlockSizes, PutNumbers(shape, codec, elem, block_size)
  PROVE  GetInv'
<1> DEFINE count == Product(shape)
           bytes == [k \in 1 .. count * elem |-> k - 1]
           stored == [kind |-> "numbers", shape |-> shape, codec |-> codec, elem |-> elem,
                      put |-> bytes,
                      blocks |-> compressBlocks(serialize_array_data(bytes, codec, elem, block_size),
                                                block_size)]
<1>1. count \in Nat /\ elem \in Nat \ {0} /\ block_size \in Nat \ {0}
  BY SlicingAssumption, ProductType
<1>2. array' = stored /\ array = None /\ answer' = answer BY DEF PutNumbers
<1> HIDE DEF count
<1>3. bytes \in Seq(Nat) /\ Len(bytes) = count * elem
  <2>1. count * elem \in Nat BY <1>1
  <2> DEFINE m == count * elem
  <2> HIDE DEF m
  <2>2. [k \in 1 .. m |-> k - 1] \in Seq(Nat) /\ Len([k \in 1 .. m |-> k - 1]) = m BY <2>1 DEF m
  <2> QED BY <2>2 DEF m
<1> HIDE DEF bytes
<1>4. /\ stored.codec = codec /\ stored.elem = elem /\ stored.put = bytes
      /\ stored.shape = shape
      /\ stored.blocks = compressBlocks(serialize_array_data(bytes, codec, elem, block_size),
                                        block_size)
  OBVIOUS
<1> HIDE DEF stored
<1>5. StoredNumbers'
  <2>1. shape \in Seq(Nat) /\ shape # <<>> BY SlicingAssumption
  <2> QED BY <1>1, <1>2, <1>3, <1>4, <2>1 DEF StoredNumbers, count
<1>6. AnsweredFromFile' BY <1>2 DEF GetInv, AnsweredFromFile
<1> QED BY <1>5, <1>6 DEF GetInv

LEMMA GetInvKeeps == GetInv /\ [Next]_vars => GetInv'
<1> SUFFICES ASSUME GetInv, [Next]_vars PROVE GetInv' OBVIOUS
<1>1. ASSUME NEW shape \in Shapes, NEW codec \in Codecs, NEW elem \in ElementSizes,
             NEW block_size \in BlockSizes, PutNumbers(shape, codec, elem, block_size)
      PROVE  GetInv'
  BY <1>1, PutNumbersStores
<1>2. ASSUME NEW column \in Columns, NEW codec \in Codecs, NEW block_size \in BlockSizes,
             PutStrings(column, codec, block_size)
      PROVE  GetInv'
  <2>1. array = None /\ answer' = answer /\ array'.kind = "strings" BY <1>2 DEF PutStrings
  <2> QED BY <2>1 DEF GetInv, StoredNumbers, AnsweredFromFile
<1>3. CASE GetNumbers
  <2>1. /\ array # None /\ array.kind = "numbers" /\ array' = array
        /\ answer' = [of |-> "all",
                      data |-> decode_array_bytes(array.blocks, array.codec, array.elem)]
    BY <1>3 DEF GetNumbers
  <2>2. answer'.data = decode_array_bytes(array.blocks, array.codec, array.elem) BY <2>1
  <2> QED BY <2>1, <2>2 DEF GetInv, StoredNumbers, AnsweredFromFile
<1>4. ASSUME NEW slices, get_slice(slices) PROVE GetInv'
  <2>1. array' = array /\ answer'.of = "slice" BY <1>4 DEF get_slice
  <2> QED BY <2>1 DEF GetInv, StoredNumbers, AnsweredFromFile
<1>5. CASE TakeAnswer
  <2>1. array' = array /\ answer'.of = "nothing" BY <1>5 DEF TakeAnswer, NoQuestion
  <2> QED BY <2>1 DEF GetInv, StoredNumbers, AnsweredFromFile
<1>6. CASE UNCHANGED vars
  <2>1. array' = array /\ answer' = answer BY <1>6 DEF vars
  <2> QED BY <2>1 DEF GetInv, StoredNumbers, AnsweredFromFile
<1> QED BY <1>1, <1>2, <1>3, <1>4, <1>5, <1>6 DEF Next

\* get() decodes what put() was given (decode_array_bytes, decompressBlocks), for every
\* shape, prefilter, element size and block size: one that is no multiple of the
\* element size, a last block that is shorter and an array without elements included.
THEOREM GetIsWhatWasPut == Spec => []GetReturnsWhatWasPut
<1>1. GetInv => GetReturnsWhatWasPut
  <2> SUFFICES ASSUME GetInv, answer.of = "all" PROVE answer.data = array.put
    BY DEF GetReturnsWhatWasPut
  <2>1. /\ array # None /\ array.kind = "numbers"
        /\ answer.data = decode_array_bytes(array.blocks, array.codec, array.elem)
    BY DEF GetInv, AnsweredFromFile
  <2>2. /\ array.codec \in Codecs /\ array.elem \in Nat \ {0} /\ array.put \in Seq(Nat)
        /\ array.shape \in Seq(Nat) /\ Len(array.put) = Product(array.shape) * array.elem
        /\ \E bs \in Nat \ {0} :
             array.blocks =
               compressBlocks(serialize_array_data(array.put, array.codec, array.elem, bs), bs)
    BY <2>1 DEF GetInv, StoredNumbers
  <2>3. PICK count \in Nat : Len(array.put) = count * array.elem BY <2>2, ProductType
  <2>4. PICK bs \in Nat \ {0} :
          array.blocks =
            compressBlocks(serialize_array_data(array.put, array.codec, array.elem, bs), bs)
    BY <2>2
  <2>5. decode_array_bytes(
           compressBlocks(serialize_array_data(array.put, array.codec, array.elem, bs), bs),
           array.codec, array.elem) = array.put
    <3> DEFINE codec == array.codec
               elem  == array.elem
               put   == array.put
    <3>1. codec \in Codecs /\ elem \in Nat \ {0} /\ put \in Seq(Nat) /\ Len(put) = count * elem
      BY <2>2, <2>3
    <3> HIDE DEF codec, elem, put
    <3>2. decode_array_bytes(compressBlocks(serialize_array_data(put, codec, elem, bs), bs),
                             codec, elem) = put
      BY <3>1, DecodeUndoesSerialize
    <3> QED BY <3>2 DEF codec, elem, put
  <2> QED BY <2>1, <2>4, <2>5
<1> QED BY <1>1, GetInvInit, GetInvKeeps, PTL DEF Spec

--------------------------------------------------------------------------------
(* What is written.                                                        *)

\* Nothing is cut into no block, and a block needs something to hold.
LEMMA NoBytesNoBlocks ==
  ASSUME NEW E, NEW bs \in Nat \ {0}, NEW buf \in Seq(E)
  PROVE  compressBlocks(buf, bs) = <<>> <=> buf = <<>>
<1> DEFINE chunks == compressBlocks(buf, bs)
<1>1. IsCut(E, buf, chunks, bs) BY CompressIsCut
<1> HIDE DEF chunks
<1>2. chunks \in Seq(Seq(E)) BY <1>1 DEF IsCut, Chunked
<1>3. chunks = <<>> => Len(buf) = 0 BY <1>1 DEF IsCut
<1>4. chunks # <<>> => Len(buf) # 0
  <2> SUFFICES ASSUME chunks # <<>> PROVE Len(buf) # 0 OBVIOUS
  <2>1. 1 \in DOMAIN chunks BY <1>2
  <2>2. Len(chunks[1]) \in 1 .. bs BY <1>1, <2>1 DEF IsCut, Chunked
  <2>3. Before(1, bs) + Len(chunks[1]) <= Len(buf) BY <1>1, <2>1 DEF IsCut
  <2>4. Before(1, bs) = 0 BY BeforeFacts
  <2> QED BY <2>2, <2>3, <2>4
<1>5. Len(buf) = 0 <=> buf = <<>> OBVIOUS
<1> QED BY <1>3, <1>4, <1>5 DEF chunks

\* No array without elements has a block.
LEMMA NothingToSerialize ==
  ASSUME NEW codec \in Codecs, NEW elem_size \in Nat \ {0}, NEW bs \in Nat \ {0}
  PROVE  compressBlocks(serialize_array_data(<<>>, codec, elem_size, bs), bs) = <<>>
<1> DEFINE none == compressBlocks(<<>>, bs)
<1>0. <<>> \in Seq(Nat) OBVIOUS
<1>1. none = <<>> BY <1>0, NoBytesNoBlocks
<1>2. byte_shuffle_blocked(<<>>, elem_size, bs) = <<>>
  <2>1. byte_shuffle_blocked(<<>>, elem_size, bs)
          = FlattenSeq([i \in DOMAIN none |->
                          OnWholeElements(byte_shuffle, none[i], elem_size)])
    BY DEF byte_shuffle_blocked, EachChunk
  <2> HIDE DEF none
  <2>2. [i \in DOMAIN none |-> OnWholeElements(byte_shuffle, none[i], elem_size)] = <<>>
    BY <1>1
  <2>3. FlattenSeq(<<>>) = <<>> BY DEF FlattenSeq
  <2> QED BY <2>1, <2>2, <2>3
<1>3. byte_shuffle(<<>>, Len(<<>>) \div elem_size, elem_size) = <<>>
  <2>1. Len(<<>>) \div elem_size = 0
    <3>1. Len(<<>>) = 0 OBVIOUS
    <3>2. (0 * elem_size + 0) \div elem_size = 0 BY DivModOf
    <3> QED BY <3>1, <3>2
  <2>2. byte_shuffle(<<>>, 0, elem_size) = <<>> BY DEF byte_shuffle
  <2> QED BY <2>1, <2>2
<1>4. serialize_array_data(<<>>, codec, elem_size, bs) = <<>>
  BY <1>2, <1>3 DEF serialize_array_data, Codecs, uses_block_shuffle, uses_global_shuffle
<1> QED BY <1>1, <1>4

\* Serializing keeps the number of bytes: what is written is a buffer.
LEMMA SerializeType ==
  ASSUME NEW E, NEW codec \in Codecs, NEW count \in Nat, NEW elem_size \in Nat \ {0},
         NEW bs \in Nat \ {0}, NEW bytes \in Seq(E), Len(bytes) = count * elem_size
  PROVE  serialize_array_data(bytes, codec, elem_size, bs) \in Seq(E)
<1>1. byte_shuffle_blocked(bytes, elem_size, bs) \in Seq(E)
  <2> DEFINE chunks   == compressBlocks(bytes, bs)
             shuffled == [i \in DOMAIN chunks |->
                            OnWholeElements(byte_shuffle, chunks[i], elem_size)]
  <2>1. /\ Chunked(E, shuffled, bs)
        /\ byte_shuffle_blocked(bytes, elem_size, bs) = FlattenSeq(shuffled)
    BY BlocksAreShuffledChunks
  <2> HIDE DEF shuffled
  <2>2. IsCut(E, FlattenSeq(shuffled), shuffled, bs) BY <2>1, FlattenIsCut
  <2> QED BY <2>1, <2>2 DEF IsCut
<1>2. byte_shuffle(bytes, Len(bytes) \div elem_size, elem_size) \in Seq(E)
  <2>1. Len(bytes) \div elem_size = count BY DivModOf
  <2>2. Len(bytes) >= count * elem_size BY Z3
  <2> QED BY <2>1, <2>2, ShuffleKeepsLength
<1> QED
  BY <1>1, <1>2 DEF serialize_array_data, Codecs, uses_block_shuffle, uses_global_shuffle

--------------------------------------------------------------------------------
(* Places in an array of up to three dimensions.                           *)

\* The index tuples of an array.
Tuples(dims) == {t \in [1 .. Len(dims) -> Nat] : \A d \in 1 .. Len(dims) : t[d] < dims[d]}

\* Row-major order.
Precedes(n, t, u) == \E d \in 1 .. n : t[d] < u[d] /\ \A e \in 1 .. d - 1 : t[e] = u[e]

\* Two tuples that are not the same: one precedes the other.
LEMMA PrecedesOrEqual ==
  ASSUME NEW n \in Nat, NEW t \in [1 .. n -> Nat], NEW u \in [1 .. n -> Nat], t # u
  PROVE  Precedes(n, t, u) \/ Precedes(n, u, t)
<1> DEFINE T == {d \in 1 .. n : t[d] # u[d]}
<1>1. T # {} /\ T \subseteq Nat OBVIOUS
<1>2. PICK d \in T : \A e \in T : d <= e BY <1>1, LeastNat
<1>3. d \in 1 .. n /\ t[d] # u[d] /\ t[d] \in Nat /\ u[d] \in Nat OBVIOUS
<1>4. \A e \in 1 .. d - 1 : t[e] = u[e]
  <2> SUFFICES ASSUME NEW e \in 1 .. d - 1 PROVE t[e] = u[e] OBVIOUS
  <2>1. e \in 1 .. n /\ ~(d <= e) BY <1>3
  <2> QED BY <1>2, <2>1
<1>5. t[d] < u[d] \/ u[d] < t[d]
  <2> DEFINE x == t[d]
             y == u[d]
  <2>1. x \in Nat /\ y \in Nat /\ x # y BY <1>3
  <2> HIDE DEF x, y
  <2>2. x < y \/ y < x BY <2>1
  <2> QED BY <2>2 DEF x, y
<1> HIDE DEF T
<1> QED BY <1>3, <1>4, <1>5 DEF Precedes

\* The size of an array, dimension by dimension.
LEMMA ProductIs ==
  ASSUME NEW dims \in Seq(Nat)
  PROVE  /\ Len(dims) = 0 => Product(dims) = 1
         /\ Len(dims) = 1 => Product(dims) = dims[1]
         /\ Len(dims) = 2 => Product(dims) = dims[1] * dims[2]
         /\ Len(dims) = 3 => Product(dims) = dims[1] * dims[2] * dims[3]
<1>1. PICK f \in [0 .. Len(dims) -> Nat] :
        f[0] = 1 /\ (\A i \in 1 .. Len(dims) : f[i] = f[i - 1] * dims[i])
        /\ Product(dims) = f[Len(dims)]
  BY ProductSteps
<1>2. Len(dims) >= 1 => f[1] = f[0] * dims[1] /\ dims[1] \in Nat BY <1>1
<1>3. Len(dims) >= 2 => f[2] = f[1] * dims[2] BY <1>1
<1>4. Len(dims) >= 3 => f[3] = f[2] * dims[3] BY <1>1
<1>5. Len(dims) >= 1 => f[1] = dims[1]
  <2> SUFFICES ASSUME Len(dims) >= 1 PROVE f[1] = dims[1] OBVIOUS
  <2> DEFINE x == dims[1]
  <2>1. f[1] = f[0] * x /\ x \in Nat /\ f[0] = 1 BY <1>1, <1>2
  <2> HIDE DEF x
  <2>2. f[1] = 1 * x BY <2>1
  <2>3. 1 * x = x BY <2>1
  <2> QED BY <2>2, <2>3 DEF x
<1>6. Len(dims) = 0 => Product(dims) = 1 BY <1>1
<1>7. Len(dims) = 1 => Product(dims) = dims[1] BY <1>1, <1>5
<1>8. Len(dims) = 2 => Product(dims) = dims[1] * dims[2] BY <1>1, <1>3, <1>5
<1>9. Len(dims) = 3 => Product(dims) = dims[1] * dims[2] * dims[3] BY <1>1, <1>3, <1>4, <1>5
<1> QED BY <1>6, <1>7, <1>8, <1>9

\* flatIndex() adds up the places of a tuple, as in Horner's rule.
LEMMA FlatIndexIs ==
  ASSUME NEW shape \in Seq(Nat), NEW t \in [1 .. Len(shape) -> Nat]
  PROVE  /\ Len(shape) = 1 => flatIndex(t, shape) = t[1]
         /\ Len(shape) = 2 => flatIndex(t, shape) = t[1] * shape[2] + t[2]
         /\ Len(shape) = 3 =>
              flatIndex(t, shape) = (t[1] * shape[2] + t[2]) * shape[3] + t[3]
<1> DEFINE n == Len(shape)
           P(d) == Product(SubSeq(shape, d + 1, n))
           s == [d \in 1 .. n |-> t[d] * P(d)]
<1>0. n \in Nat /\ \A d \in 1 .. n : t[d] \in Nat /\ shape[d] \in Nat OBVIOUS
<1>1. P(n) = 1
  <2>1. SubSeq(shape, n + 1, n) = <<>> BY <1>0
  <2>2. <<>> \in Seq(Nat) /\ Len(<<>>) = 0 OBVIOUS
  <2>3. Product(<<>>) = 1 BY <2>2, ProductIs
  <2> QED BY <2>1, <2>3
<1>2. n >= 2 => P(n - 1) = shape[n]
  <2> SUFFICES ASSUME n >= 2 PROVE P(n - 1) = shape[n] OBVIOUS
  <2> DEFINE x == SubSeq(shape, n - 1 + 1, n)
  <2>1. x \in Seq(Nat) /\ Len(x) = 1 /\ x[1] = shape[n] BY <1>0
  <2> HIDE DEF x
  <2>2. Product(x) = shape[n] BY <2>1, ProductIs
  <2> QED BY <2>2 DEF x
<1>3. n >= 3 => P(n - 2) = shape[n - 1] * shape[n]
  <2> SUFFICES ASSUME n >= 3 PROVE P(n - 2) = shape[n - 1] * shape[n] OBVIOUS
  <2> DEFINE x == SubSeq(shape, n - 2 + 1, n)
  <2>1. x \in Seq(Nat) /\ Len(x) = 2 /\ x[1] = shape[n - 1] /\ x[2] = shape[n] BY <1>0
  <2> HIDE DEF x
  <2>2. Product(x) = x[1] * x[2] BY <2>1, ProductIs
  <2> QED BY <2>1, <2>2 DEF x
<1>4. flatIndex(t, shape) = Sum(s) BY DEF flatIndex
<1>5. <<>> \in Seq(Nat) /\ Sum(<<>>) = 0 BY SumEmpty
<1> HIDE DEF P
<1>6. CASE n = 1
  <2> DEFINE a == t[1] * P(1)
  <2>1. s = Append(<<>>, a) BY <1>6
  <2>2. a = t[1] * 1 BY <1>1, <1>6
  <2>5. t[1] \in Nat BY <1>0, <1>6
  <2>6. a = t[1] /\ a \in Nat BY <2>2, <2>5
  <2> HIDE DEF a, s
  <2>3. Sum(s) = 0 + a BY <1>5, <2>1, <2>6, SumAppend
  <2>4. Sum(s) = t[1] BY <2>3, <2>5, <2>6
  <2> QED BY <1>4, <1>6, <2>4
<1>7. CASE n = 2
  <2> DEFINE a == t[1] * P(1)
             b == t[2] * P(2)
             u == Append(<<>>, a)
  <2>1. s = Append(u, b) BY <1>7
  <2>2. t[1] \in Nat /\ t[2] \in Nat /\ shape[2] \in Nat BY <1>0, <1>7
  <2>3. a = t[1] * shape[2] BY <1>2, <1>7
  <2>4. b = t[2] * 1 BY <1>1, <1>7
  <2>5. a \in Nat /\ b = t[2] /\ b \in Nat BY <2>2, <2>3, <2>4
  <2> HIDE DEF a, b, s
  <2>6. u \in Seq(Nat) BY <2>5
  <2>7. Sum(u) = 0 + a BY <1>5, <2>5, SumAppend
  <2> HIDE DEF u
  <2>8. Sum(s) = Sum(u) + b BY <2>1, <2>5, <2>6, SumAppend
  <2>9. Sum(s) = t[1] * shape[2] + t[2] BY <2>3, <2>5, <2>7, <2>8
  <2> QED BY <1>4, <1>7, <2>9
<1>8. CASE n = 3
  <2> DEFINE a == t[1] * P(1)
             b == t[2] * P(2)
             c == t[3] * P(3)
             u == Append(<<>>, a)
             v == Append(u, b)
  <2>1. s = Append(v, c) BY <1>8
  <2>2. t[1] \in Nat /\ t[2] \in Nat /\ t[3] \in Nat /\ shape[2] \in Nat /\ shape[3] \in Nat
    BY <1>0, <1>8
  <2>3. a = t[1] * (shape[2] * shape[3]) BY <1>3, <1>8
  <2>4. b = t[2] * shape[3] BY <1>2, <1>8
  <2>5. c = t[3] * 1 BY <1>1, <1>8
  <2>6. a \in Nat /\ b \in Nat /\ c = t[3] /\ c \in Nat
    <3>1. shape[2] * shape[3] \in Nat BY <2>2
    <3>2. t[1] * (shape[2] * shape[3]) \in Nat BY <2>2, <3>1
    <3>3. t[2] * shape[3] \in Nat BY <2>2
    <3> QED BY <2>2, <2>3, <2>4, <2>5, <3>2, <3>3
  <2> HIDE DEF a, b, c, s
  <2>7. u \in Seq(Nat) BY <2>6
  <2>8. Sum(u) = 0 + a BY <1>5, <2>6, SumAppend
  <2> HIDE DEF u
  <2>9. v \in Seq(Nat) BY <2>6, <2>7
  <2>10. Sum(v) = Sum(u) + b BY <2>6, <2>7, SumAppend
  <2> HIDE DEF v
  <2>11. Sum(s) = Sum(v) + c BY <2>1, <2>6, <2>9, SumAppend
  <2>12. Sum(s) = a + b + c BY <2>6, <2>8, <2>10, <2>11
  <2>13. (t[1] * shape[2] + t[2]) * shape[3] = t[1] * (shape[2] * shape[3]) + t[2] * shape[3]
    BY <2>2
  <2>14. Sum(s) = (t[1] * shape[2] + t[2]) * shape[3] + t[3]
    BY <2>3, <2>4, <2>6, <2>12, <2>13
  <2> QED BY <1>4, <1>8, <2>14
<1> QED BY <1>6, <1>7, <1>8

\* A tuple that precedes another one has a smaller place.
LEMMA FlatOrder ==
  ASSUME NEW shape \in Seq(Nat), Len(shape) \in 1 .. 3,
         NEW t \in Tuples(shape), NEW u \in Tuples(shape), Precedes(Len(shape), t, u)
  PROVE  flatIndex(t, shape) < flatIndex(u, shape)
<1> DEFINE n == Len(shape)
<1>0. /\ t \in [1 .. n -> Nat] /\ u \in [1 .. n -> Nat]
      /\ \A d \in 1 .. n : t[d] \in Nat /\ u[d] \in Nat /\ shape[d] \in Nat
                           /\ t[d] < shape[d] /\ u[d] < shape[d]
  <2>1. /\ t \in [1 .. n -> Nat] /\ u \in [1 .. n -> Nat]
        /\ \A d \in 1 .. n : t[d] < shape[d] /\ u[d] < shape[d]
    BY Zenon DEF Tuples
  <2>2. \A d \in 1 .. n : t[d] \in Nat /\ u[d] \in Nat BY <2>1, Zenon
  <2>3. \A d \in 1 .. n : shape[d] \in Nat OBVIOUS
  <2> QED BY <2>1, <2>2, <2>3, Zenon
<1>1. PICK d \in 1 .. n : t[d] < u[d] /\ \A e \in 1 .. d - 1 : t[e] = u[e] BY DEF Precedes
<1>2. CASE n = 1
  <2>1. d = 1 BY <1>2
  <2> QED BY <1>0, <1>1, <1>2, <2>1, FlatIndexIs
<1>3. CASE n = 2
  <2>1. /\ t[1] \in Nat /\ t[2] \in Nat /\ u[1] \in Nat /\ u[2] \in Nat /\ shape[2] \in Nat
        /\ t[2] < shape[2]
    BY <1>0, <1>3
  <2>2. /\ flatIndex(t, shape) = t[1] * shape[2] + t[2]
        /\ flatIndex(u, shape) = u[1] * shape[2] + u[2]
    BY <1>0, <1>3, FlatIndexIs
  <2>3. t[1] < u[1] \/ (t[1] = u[1] /\ t[2] < u[2])
    <3>1. d = 1 \/ d = 2 BY <1>3
    <3> QED BY <1>1, <3>1
  <2>4. t[1] < u[1] => t[1] * shape[2] + t[2] < u[1] * shape[2] + u[2] BY <2>1, RowOrder
  <2>5. t[1] = u[1] /\ t[2] < u[2] => t[1] * shape[2] + t[2] < u[1] * shape[2] + u[2] BY <2>1
  <2> QED BY <2>2, <2>3, <2>4, <2>5
<1>4. CASE n = 3
  <2> DEFINE a == t[1] * shape[2] + t[2]
             b == u[1] * shape[2] + u[2]
  <2>1. /\ t[1] \in Nat /\ t[2] \in Nat /\ u[1] \in Nat /\ u[2] \in Nat /\ shape[2] \in Nat
        /\ t[3] \in Nat /\ u[3] \in Nat /\ shape[3] \in Nat
        /\ t[2] < shape[2] /\ t[3] < shape[3]
    BY <1>0, <1>4
  <2>2. /\ flatIndex(t, shape) = a * shape[3] + t[3]
        /\ flatIndex(u, shape) = b * shape[3] + u[3]
    BY <1>0, <1>4, FlatIndexIs
  <2>3. \/ t[1] < u[1]
        \/ t[1] = u[1] /\ t[2] < u[2]
        \/ t[1] = u[1] /\ t[2] = u[2] /\ t[3] < u[3]
    <3>1. d = 1 \/ d = 2 \/ d = 3 BY <1>4
    <3>2. d = 1 => t[1] < u[1] BY <1>1
    <3>3. d = 2 => t[1] = u[1] /\ t[2] < u[2] BY <1>1
    <3>4. d = 3 => t[1] = u[1] /\ t[2] = u[2] /\ t[3] < u[3] BY <1>1
    <3> QED BY <3>1, <3>2, <3>3, <3>4
  <2>10. u[2] < shape[2] BY <1>0, <1>4
  <2>4. a \in Nat /\ b \in Nat
    <3>1. a \in Nat BY <2>1, RowOrder
    <3>2. b \in Nat BY <2>1, <2>10, RowOrder
    <3> QED BY <3>1, <3>2
  <2>5. t[1] < u[1] => a < b BY <2>1, RowOrder
  <2>6. t[1] = u[1] /\ t[2] < u[2] => a < b BY <2>1, SameRow
  <2>7. t[1] = u[1] /\ t[2] = u[2] => a = b BY <2>1
  <2> HIDE DEF a, b
  <2>8. a < b => a * shape[3] + t[3] < b * shape[3] + u[3] BY <2>1, <2>4, RowOrder
  <2>9. a = b /\ t[3] < u[3] => a * shape[3] + t[3] < b * shape[3] + u[3]
    BY <2>1, <2>4, SameRow
  <2> QED BY <2>2, <2>3, <2>5, <2>6, <2>7, <2>8, <2>9
<1>5. n = 1 \/ n = 2 \/ n = 3 OBVIOUS
<1> QED BY <1>2, <1>3, <1>4, <1>5

\* Every place of an array has its tuple.
LEMMA FlatRange ==
  ASSUME NEW dims \in Seq(Nat), Len(dims) \in 1 .. 3
  PROVE  /\ \A t \in Tuples(dims) : flatIndex(t, dims) \in 0 .. Product(dims) - 1
         /\ \A p \in 0 .. Product(dims) - 1 : \E t \in Tuples(dims) : flatIndex(t, dims) = p
<1> DEFINE n == Len(dims)
<1>0. \A d \in 1 .. n : dims[d] \in Nat OBVIOUS
<1>1. ASSUME NEW t \in Tuples(dims)
      PROVE  flatIndex(t, dims) \in 0 .. Product(dims) - 1
  <2>0. /\ t \in [1 .. n -> Nat]
        /\ \A d \in 1 .. n : t[d] \in Nat /\ dims[d] \in Nat /\ t[d] < dims[d]
    BY DEF Tuples
  <2>1. CASE n = 1 BY <2>0, <2>1, FlatIndexIs, ProductIs
  <2>2. CASE n = 2
    <3>1. t[1] \in Nat /\ t[2] \in Nat /\ dims[1] \in Nat /\ dims[2] \in Nat
          /\ t[1] < dims[1] /\ t[2] < dims[2]
      BY <2>0, <2>2
    <3>2. t[1] * dims[2] + t[2] \in Nat /\ t[1] * dims[2] + t[2] < dims[1] * dims[2]
      BY <3>1, RowOrder
    <3>3. flatIndex(t, dims) = t[1] * dims[2] + t[2] /\ Product(dims) = dims[1] * dims[2]
      BY <2>0, <2>2, FlatIndexIs, ProductIs
    <3>4. dims[1] * dims[2] \in Nat BY <3>1
    <3> QED BY <3>2, <3>3, <3>4
  <2>3. CASE n = 3
    <3> DEFINE a == t[1] * dims[2] + t[2]
               b == dims[1] * dims[2]
    <3>1. t[1] \in Nat /\ t[2] \in Nat /\ dims[1] \in Nat /\ dims[2] \in Nat
          /\ t[3] \in Nat /\ dims[3] \in Nat
          /\ t[1] < dims[1] /\ t[2] < dims[2] /\ t[3] < dims[3]
      BY <2>0, <2>3
    <3>2. a \in Nat /\ a < b /\ b \in Nat
      <4>1. a \in Nat /\ a < b BY <3>1, RowOrder
      <4>2. b \in Nat BY <3>1, ProductOfTwo
      <4> QED BY <4>1, <4>2
    <3>3. flatIndex(t, dims) = a * dims[3] + t[3] /\ Product(dims) = b * dims[3]
      BY <2>0, <2>3, FlatIndexIs, ProductIs
    <3> HIDE DEF a, b
    <3>4. a * dims[3] + t[3] \in Nat /\ a * dims[3] + t[3] < b * dims[3] BY <3>1, <3>2, RowOrder
    <3>5. b * dims[3] \in Nat BY <3>1, <3>2
    <3> QED BY <3>3, <3>4, <3>5
  <2>4. n = 1 \/ n = 2 \/ n = 3 OBVIOUS
  <2> QED BY <2>1, <2>2, <2>3, <2>4
<1>2. ASSUME NEW p \in 0 .. Product(dims) - 1
      PROVE  \E t \in Tuples(dims) : flatIndex(t, dims) = p
  <2>1. CASE n = 1
    <3> DEFINE t == [d \in 1 .. n |-> p]
    <3>1. p \in Nat /\ p < dims[1] BY <1>0, <2>1, ProductIs
    <3>2. t \in Tuples(dims) /\ t[1] = p BY <2>1, <3>1 DEF Tuples
    <3>3. flatIndex(t, dims) = p BY <2>1, <3>2, FlatIndexIs DEF Tuples
    <3> QED BY <3>2, <3>3
  <2>2. CASE n = 2
    <3>1. dims[1] \in Nat /\ dims[2] \in Nat BY <1>0, <2>2
    <3>2. Product(dims) = dims[1] * dims[2] /\ dims[1] * dims[2] \in Nat
      BY <2>2, <3>1, ProductIs
    <3>3. p \in Nat /\ p < dims[1] * dims[2] BY <3>2
    <3> DEFINE x == dims[1]
               y == dims[2]
    <3>7. x \in Nat /\ y \in Nat /\ p < x * y BY <3>1, <3>3
    <3> HIDE DEF x, y
    <3>8. HasRow(p, y, x) BY <3>7, DivRow
    <3>4. PICK q \in Nat, r \in Nat : p = q * y + r /\ r < y /\ q < x
      BY <3>8, Zenon DEF HasRow, InRow
    <3> USE DEF x, y
    <3> DEFINE t == [d \in 1 .. n |-> IF d = 1 THEN q ELSE r]
    <3>5. t \in Tuples(dims) /\ t[1] = q /\ t[2] = r BY <2>2, <3>4 DEF Tuples
    <3>6. flatIndex(t, dims) = t[1] * dims[2] + t[2] BY <2>2, <3>5, FlatIndexIs DEF Tuples
    <3> HIDE DEF t
    <3> QED BY <3>4, <3>5, <3>6
  <2>3. CASE n = 3
    <3>1. dims[1] \in Nat /\ dims[2] \in Nat /\ dims[3] \in Nat BY <1>0, <2>3
    <3> DEFINE b == dims[1] * dims[2]
    <3>2. Product(dims) = b * dims[3] /\ b \in Nat
      <4>1. Product(dims) = b * dims[3] BY <2>3, ProductIs
      <4>2. b \in Nat BY <3>1, ProductOfTwo
      <4> QED BY <4>1, <4>2
    <3>8. b = dims[1] * dims[2] OBVIOUS
    <3> HIDE DEF b
    <3>9. b * dims[3] \in Nat BY <3>1, <3>2, ProductOfTwo, SMTT(30)
    <3>3. p \in Nat /\ p < b * dims[3] BY <3>2, <3>9
    <3> DEFINE x == dims[1]
               y == dims[2]
               z == dims[3]
    <3>10. x \in Nat /\ y \in Nat /\ z \in Nat /\ p < b * z /\ b = x * y BY <3>1, <3>3, <3>8
    <3> HIDE DEF x, y, z
    <3>12. HasRow(p, z, b) BY <3>2, <3>10, DivRow
    <3>4. PICK a \in Nat, r \in Nat : p = a * z + r /\ r < z /\ a < b
      BY <3>12, Zenon DEF HasRow, InRow
    <3>11. a < x * y BY <3>4, <3>10
    <3>13. HasRow(a, y, x) BY <3>10, <3>11, DivRow
    <3>5. PICK q \in Nat, s \in Nat : a = q * y + s /\ s < y /\ q < x
      BY <3>13, Zenon DEF HasRow, InRow
    <3> USE DEF x, y, z
    <3> DEFINE t == [d \in 1 .. n |-> IF d = 1 THEN q ELSE IF d = 2 THEN s ELSE r]
    <3>6. t \in Tuples(dims) /\ t[1] = q /\ t[2] = s /\ t[3] = r
      BY <2>3, <3>4, <3>5 DEF Tuples
    <3>7. flatIndex(t, dims) = (t[1] * dims[2] + t[2]) * dims[3] + t[3]
      BY <2>3, <3>6, FlatIndexIs DEF Tuples
    <3> HIDE DEF t
    <3> QED BY <3>4, <3>5, <3>6, <3>7
  <2>4. n = 1 \/ n = 2 \/ n = 3 OBVIOUS
  <2> QED BY <2>1, <2>2, <2>3, <2>4
<1> QED BY <1>1, <1>2

\* The place of the first of the tuples, and of the one that is t steps on.
Place(lo, step, t, shape) == flatIndex([d \in 1 .. Len(shape) |-> lo[d] + step[d] * t[d]], shape)

\* dims tuples, step apart from lo on, stay within a shape.
Within(dims, lo, step, shape) ==
  /\ shape \in Seq(Nat) /\ Len(shape) \in 1 .. 3
  /\ dims \in Seq(Nat) /\ Len(dims) = Len(shape)
  /\ lo \in [1 .. Len(shape) -> Nat] /\ step \in [1 .. Len(shape) -> Nat \ {0}]
  /\ \A t \in Tuples(dims) : \A d \in 1 .. Len(shape) : lo[d] + step[d] * t[d] < shape[d]

\* The place that is some steps on lies in the array.
LEMMA StepsOn ==
  ASSUME NEW dims, NEW lo, NEW step, NEW shape, Within(dims, lo, step, shape),
         NEW t \in Tuples(dims)
  PROVE  /\ [d \in 1 .. Len(shape) |-> lo[d] + step[d] * t[d]] \in Tuples(shape)
         /\ Place(lo, step, t, shape) \in 0 .. Product(shape) - 1
<1> DEFINE n == Len(shape)
           u == [d \in 1 .. n |-> lo[d] + step[d] * t[d]]
<1>1. \A d \in 1 .. n : lo[d] \in Nat /\ step[d] \in Nat /\ t[d] \in Nat
                        /\ lo[d] + step[d] * t[d] < shape[d]
  BY DEF Within, Tuples
<1>2. \A d \in 1 .. n : lo[d] + step[d] * t[d] \in Nat
  <2> SUFFICES ASSUME NEW d \in 1 .. n PROVE lo[d] + step[d] * t[d] \in Nat OBVIOUS
  <2> DEFINE p == step[d] * t[d]
  <2>1. p \in Nat BY <1>1, ProductOfTwo
  <2> HIDE DEF p
  <2>2. lo[d] + p \in Nat BY <1>1, <2>1
  <2> QED BY <2>2 DEF p
<1>3. u \in Tuples(shape) BY <1>1, <1>2 DEF Tuples
<1> HIDE DEF u
<1>4. flatIndex(u, shape) \in 0 .. Product(shape) - 1 BY <1>3, FlatRange DEF Within
<1> QED BY <1>3, <1>4 DEF Place, u

\* Tuples of steps in order have places in order.
LEMMA PlaceOrder ==
  ASSUME NEW dims, NEW lo, NEW step, NEW shape, Within(dims, lo, step, shape),
         NEW t \in Tuples(dims), NEW u \in Tuples(dims),
         flatIndex(t, dims) < flatIndex(u, dims)
  PROVE  Place(lo, step, t, shape) < Place(lo, step, u, shape)
<1> DEFINE n == Len(shape)
           T == [d \in 1 .. n |-> lo[d] + step[d] * t[d]]
           U == [d \in 1 .. n |-> lo[d] + step[d] * u[d]]
<1>1. n \in 1 .. 3 /\ Len(dims) = n /\ dims \in Seq(Nat) /\ shape \in Seq(Nat) BY DEF Within
<1>2. t \in [1 .. n -> Nat] /\ u \in [1 .. n -> Nat] BY <1>1 DEF Tuples
<1>3. flatIndex(t, dims) \in Nat /\ flatIndex(u, dims) \in Nat
  <2> HIDE DEF T, U, n
  <2>1. flatIndex(t, dims) \in 0 .. Product(dims) - 1 /\ flatIndex(u, dims) \in 0 .. Product(dims) - 1
    BY <1>1, FlatRange
  <2> QED BY <2>1
<1>4. t # u BY <1>3
<1>5. ~Precedes(n, u, t)
  <2> SUFFICES ASSUME Precedes(n, u, t) PROVE FALSE BY Zenon
  <2>1. flatIndex(u, dims) < flatIndex(t, dims) BY <1>1, FlatOrder
  <2> QED BY <1>3, <2>1
<1>6. PICK d \in 1 .. n : t[d] < u[d] /\ \A e \in 1 .. d - 1 : t[e] = u[e]
  <2>1. Precedes(n, t, u)
    <3>1. n \in Nat BY <1>1
    <3> QED BY <1>2, <1>4, <1>5, <3>1, PrecedesOrEqual
  <2> QED BY <2>1 DEF Precedes
<1>7. T[d] < U[d]
  <2> DEFINE x == t[d]
             y == u[d]
             z == step[d]
             w == lo[d]
  <2>1. x \in Nat /\ y \in Nat /\ x < y BY <1>2, <1>6
  <2>2. z \in Nat \ {0} /\ w \in Nat BY DEF Within
  <2>3. T[d] = w + z * x /\ U[d] = w + z * y OBVIOUS
  <2> HIDE DEF x, y, z, w, T, U
  <2>4. x * z + 0 < y * z + 0 BY <2>1, <2>2, RowOrder
  <2>5. z * x \in Nat /\ z * y \in Nat /\ z * x = x * z /\ z * y = y * z BY <2>1, <2>2
  <2> HIDE DEF n
  <2>6. z * x < z * y BY <2>4, <2>5
  <2>7. w + z * x < w + z * y BY <2>2, <2>5, <2>6
  <2> QED BY <2>3, <2>7
<1>8. \A e \in 1 .. d - 1 : T[e] = U[e]
  <2>1. \A e \in 1 .. d - 1 : e \in 1 .. n BY <1>1, <1>6
  <2> QED BY <1>6, <2>1
<1>9. T \in Tuples(shape) /\ U \in Tuples(shape) BY StepsOn
<1> HIDE DEF T, U
<1>10. Precedes(n, T, U) BY <1>6, <1>7, <1>8 DEF Precedes
<1>11. flatIndex(T, shape) < flatIndex(U, shape) BY <1>1, <1>9, <1>10, FlatOrder
<1> QED BY <1>11 DEF Place, T, U

\* The tuple of a place is one.
LEMMA OneTuple ==
  ASSUME NEW dims \in Seq(Nat), Len(dims) \in 1 .. 3, NEW t \in Tuples(dims), NEW u \in Tuples(dims),
         flatIndex(t, dims) = flatIndex(u, dims)
  PROVE  t = u
<1> DEFINE n == Len(dims)
<1>1. t \in [1 .. n -> Nat] /\ u \in [1 .. n -> Nat] /\ n \in Nat BY DEF Tuples
<1>2. flatIndex(t, dims) \in Nat /\ flatIndex(u, dims) \in Nat BY FlatRange
<1>3. ~Precedes(n, t, u)
  <2> SUFFICES ASSUME Precedes(n, t, u) PROVE FALSE OBVIOUS
  <2>1. flatIndex(t, dims) < flatIndex(u, dims) BY FlatOrder
  <2> QED BY <1>2, <2>1
<1>4. ~Precedes(n, u, t)
  <2> SUFFICES ASSUME Precedes(n, u, t) PROVE FALSE OBVIOUS
  <2>1. flatIndex(u, dims) < flatIndex(t, dims) BY FlatOrder
  <2> QED BY <1>2, <2>1
<1> QED BY <1>1, <1>3, <1>4, PrecedesOrEqual

\* The places of the tuples, in the order of the tuples.
Places(dims, lo, step, shape) == {Place(lo, step, t, shape) : t \in Tuples(dims)}

\* The places of the tuples in ascending order: each at the flat index of its tuple.
LEMMA AscendingPlaces ==
  ASSUME NEW dims, NEW lo, NEW step, NEW shape, Within(dims, lo, step, shape)
  PROVE  LET A == Places(dims, lo, step, shape)
         IN  /\ A \in SUBSET Nat /\ IsFiniteSet(A) /\ Product(dims) \in Nat
             /\ Ascending(A) \in [1 .. Product(dims) -> A]
             /\ \A t \in Tuples(dims) :
                  Ascending(A)[flatIndex(t, dims) + 1] = Place(lo, step, t, shape)
<1> DEFINE N == Product(dims)
           A == Places(dims, lo, step, shape)
           tup(p) == CHOOSE t \in Tuples(dims) : flatIndex(t, dims) = p
           s == [k \in 1 .. N |-> Place(lo, step, tup(k - 1), shape)]
<1>1. Len(dims) \in 1 .. 3 /\ dims \in Seq(Nat) BY DEF Within
<1>2. N \in Nat BY <1>1, ProductType
<1>3. \A p \in 0 .. N - 1 : tup(p) \in Tuples(dims) /\ flatIndex(tup(p), dims) = p
  <2> SUFFICES ASSUME NEW p \in 0 .. N - 1
               PROVE  tup(p) \in Tuples(dims) /\ flatIndex(tup(p), dims) = p
    OBVIOUS
  <2>1. \E t \in Tuples(dims) : flatIndex(t, dims) = p BY <1>1, FlatRange
  <2> QED BY <2>1
<1>4. \A t \in Tuples(dims) : /\ flatIndex(t, dims) \in 0 .. N - 1
                              /\ tup(flatIndex(t, dims)) = t
  <2> SUFFICES ASSUME NEW t \in Tuples(dims)
               PROVE  flatIndex(t, dims) \in 0 .. N - 1 /\ tup(flatIndex(t, dims)) = t
    OBVIOUS
  <2>1. flatIndex(t, dims) \in 0 .. N - 1 BY <1>1, FlatRange
  <2> DEFINE u == tup(flatIndex(t, dims))
  <2>2. u \in Tuples(dims) /\ flatIndex(u, dims) = flatIndex(t, dims) BY <1>3, <2>1
  <2> HIDE DEF u
  <2>3. u = t BY <1>1, <2>2, OneTuple
  <2> QED BY <2>1, <2>3 DEF u
<1> HIDE DEF tup, N
<1>5. \A t \in Tuples(dims) : Place(lo, step, t, shape) \in Nat
  <2> SUFFICES ASSUME NEW t \in Tuples(dims) PROVE Place(lo, step, t, shape) \in Nat OBVIOUS
  <2>1. Place(lo, step, t, shape) \in 0 .. Product(shape) - 1 BY StepsOn
  <2> QED BY <2>1
<1>0. \A k \in 1 .. N : k - 1 \in 0 .. N - 1 BY <1>2
<1>6. s \in [1 .. N -> Nat] BY <1>0, <1>3, <1>5
<1>7. \A i, j \in 1 .. N : i < j => s[i] < s[j]
  <2> SUFFICES ASSUME NEW i \in 1 .. N, NEW j \in 1 .. N, i < j PROVE s[i] < s[j] OBVIOUS
  <2>1. /\ tup(i - 1) \in Tuples(dims) /\ flatIndex(tup(i - 1), dims) = i - 1
        /\ tup(j - 1) \in Tuples(dims) /\ flatIndex(tup(j - 1), dims) = j - 1
    BY <1>0, <1>3
  <2>2. i - 1 < j - 1 BY <1>2
  <2>3. Place(lo, step, tup(i - 1), shape) < Place(lo, step, tup(j - 1), shape)
    BY <2>1, <2>2, PlaceOrder
  <2> QED BY <2>3
<1>8. \A t \in Tuples(dims) : /\ flatIndex(t, dims) + 1 \in 1 .. N
                              /\ s[flatIndex(t, dims) + 1] = Place(lo, step, t, shape)
  <2> SUFFICES ASSUME NEW t \in Tuples(dims)
               PROVE  /\ flatIndex(t, dims) + 1 \in 1 .. N
                      /\ s[flatIndex(t, dims) + 1] = Place(lo, step, t, shape)
    OBVIOUS
  <2> DEFINE p == flatIndex(t, dims)
  <2>1. p \in 0 .. N - 1 /\ tup(p) = t BY <1>4
  <2> HIDE DEF p
  <2>2. p + 1 \in 1 .. N /\ (p + 1) - 1 = p BY <1>2, <2>1
  <2>3. s[p + 1] = Place(lo, step, tup((p + 1) - 1), shape) BY <2>2
  <2> QED BY <2>1, <2>2, <2>3 DEF p
<1>9. A = {s[k] : k \in 1 .. N}
  <2>1. \A k \in 1 .. N : s[k] \in A BY <1>0, <1>3 DEF Places
  <2> HIDE DEF s
  <2>2. \A x \in A : \E k \in 1 .. N : x = s[k] BY <1>8 DEF Places
  <2> QED BY <2>1, <2>2
<1> HIDE DEF s, A
<1>10. A \in SUBSET Nat /\ IsFiniteSet(A) /\ Ascending(A) = s BY <1>2, <1>6, <1>7, <1>9, OneAscending
<1>11. s \in [1 .. N -> A] BY <1>6, <1>9
<1> QED BY <1>2, <1>8, <1>10, <1>11 DEF A, N
--------------------------------------------------------------------------------
(* The slices of all dimensions of an array, and the places that they name.*)

Ones(n) == [d \in 1 .. n |-> 1]
Naughts(n) == [d \in 1 .. n |-> 0]
Starts(spec) == [d \in 1 .. Len(spec) |-> spec[d].start]
Steps(spec) == [d \in 1 .. Len(spec) |-> spec[d].step]
Widths(spec) == [d \in 1 .. Len(spec) |-> Width(spec[d])]
Lengths(spec) == [d \in 1 .. Len(spec) |-> Length(spec[d])]
EveryStep(spec) == [d \in DOMAIN spec |-> [spec[d] EXCEPT !.step = 1]]

\* A slice in bounds for every dimension.
Bounded(shape, spec) ==
  /\ shape \in Seq(Nat) /\ Len(shape) \in 1 .. 3
  /\ spec \in [1 .. Len(shape) -> [start : Nat, stop : Nat, step : Nat \ {0}]]
  /\ \A d \in 1 .. Len(shape) : spec[d].start < spec[d].stop /\ spec[d].stop <= shape[d]

\* What a slice in bounds is, with the types the provers need.
LEMMA BoundedIs ==
  ASSUME NEW shape, NEW spec, Bounded(shape, spec)
  PROVE  /\ spec \in Seq([start : Nat, stop : Nat, step : Nat \ {0}])
         /\ Len(spec) = Len(shape) /\ DOMAIN spec = 1 .. Len(shape) /\ DOMAIN shape = 1 .. Len(shape)
         /\ Len(shape) \in 1 .. 3 /\ Len(shape) \in Nat \ {0} /\ shape \in Seq(Nat)
         /\ \A d \in 1 .. Len(shape) :
              /\ spec[d].start \in Nat /\ spec[d].stop \in Nat /\ spec[d].step \in Nat \ {0}
              /\ shape[d] \in Nat
              /\ spec[d].start < spec[d].stop /\ spec[d].stop <= shape[d]
<1> DEFINE K == [start : Nat, stop : Nat, step : Nat \ {0}]
           n == Len(shape)
<1>1. n \in 1 .. 3 /\ spec \in [1 .. n -> K] /\ shape \in Seq(Nat) BY DEF Bounded
<1>2. \A k \in K : k.start \in Nat /\ k.stop \in Nat /\ k.step \in Nat \ {0} OBVIOUS
<1> HIDE DEF K
<1>3. \A d \in 1 .. n : spec[d] \in K BY <1>1
<1>4. spec \in Seq(K) /\ Len(spec) = n /\ DOMAIN spec = 1 .. n BY <1>1
<1>5. \A d \in 1 .. n : shape[d] \in Nat BY <1>1
<1>6. DOMAIN shape = 1 .. n /\ n \in Nat \ {0} BY <1>1
<1> QED BY <1>1, <1>2, <1>3, <1>4, <1>5, <1>6 DEF Bounded, K

\* How many steps a slice of one dimension has, and how far it reaches.
LEMMA SliceReach ==
  ASSUME NEW s \in [start : Nat, stop : Nat, step : Nat \ {0}], s.start < s.stop
  PROVE  /\ Width(s) \in Nat \ {0} /\ s.start + Width(s) = s.stop
         /\ Length(s) \in Nat
         /\ \A i \in Nat : i < Length(s) <=> s.start + s.step * i < s.stop
         /\ \A i \in Nat : i < Length(s) <=> s.step * i < Width(s)
         /\ s.step = 1 => Length(s) = Width(s)
<1>1. s = Slice(s.start, s.stop, s.step) BY DEF Slice
<1>2. s.start \in Nat /\ s.stop \in Nat /\ s.step \in Nat \ {0} OBVIOUS
<1>3. /\ Length(s) \in Nat
      /\ \A i \in Nat : i < Length(s) <=> s.start + i * s.step < s.stop
  BY <1>1, <1>2, LengthCountsSteps
<1> DEFINE a == s.start
           b == s.stop
           c == s.step
<1>4. \A i \in Nat : i * c = c * i /\ c * i \in Nat BY <1>2
<1>5. Width(s) = b - a BY DEF Width
<1>6. a \in Nat /\ b \in Nat /\ c \in Nat \ {0} /\ a < b BY <1>2
<1>7. s.step = 1 => Length(s) = Width(s)
  <2> SUFFICES ASSUME c = 1 PROVE Length(s) = b - a BY <1>5
  <2>1. Length(s) = (b - a + c - 1) \div c BY <1>2 DEF Length
  <2> HIDE DEF a, b, c
  <2>2. b - a \in Nat BY <1>6
  <2>3. Length(s) = (b - a) \div 1 BY <1>6, <2>1
  <2>4. (b - a) \div 1 = b - a BY <2>2
  <2> QED BY <2>3, <2>4
<1>8. \A i \in Nat : i < Length(s) <=> a + c * i < b BY <1>3, <1>4
<1> HIDE DEF a, b, c
<1>9. \A i \in Nat : i < Length(s) <=> c * i < b - a
  <2> SUFFICES ASSUME NEW i \in Nat PROVE i < Length(s) <=> c * i < b - a OBVIOUS
  <2> DEFINE p == c * i
  <2>1. p \in Nat /\ (i < Length(s) <=> a + p < b) BY <1>4, <1>8
  <2> HIDE DEF p
  <2>2. a + p < b <=> p < b - a BY <1>6, <2>1
  <2> QED BY <2>1, <2>2 DEF p
<1>10. b - a \in Nat \ {0} /\ a + (b - a) = b BY <1>6
<1> QED BY <1>3, <1>5, <1>7, <1>8, <1>9, <1>10 DEF a, b, c

\* Tuples that are made of steps, one dimension at a time.
LEMMA SteppedTuples ==
  ASSUME NEW dims, NEW lo, NEW step, NEW shape, Within(dims, lo, step, shape),
         NEW U,
         \A u \in U : u \in [1 .. Len(shape) -> Nat],
         \A u \in U : \A d \in 1 .. Len(shape) : \E i \in Nat : i < dims[d] /\ u[d] = lo[d] + step[d] * i,
         \A t \in Tuples(dims) : [d \in 1 .. Len(shape) |-> lo[d] + step[d] * t[d]] \in U
  PROVE  {flatIndex(u, shape) : u \in U} = Places(dims, lo, step, shape)
<1> DEFINE n == Len(shape)
<1>1. ASSUME NEW u \in U PROVE \E t \in Tuples(dims) : u = [d \in 1 .. n |-> lo[d] + step[d] * t[d]]
  <2> DEFINE t == [d \in 1 .. n |-> CHOOSE i \in Nat : i < dims[d] /\ u[d] = lo[d] + step[d] * i]
  <2>1. \A d \in 1 .. n : t[d] \in Nat /\ t[d] < dims[d] /\ u[d] = lo[d] + step[d] * t[d]
    <3> SUFFICES ASSUME NEW d \in 1 .. n
                 PROVE  t[d] \in Nat /\ t[d] < dims[d] /\ u[d] = lo[d] + step[d] * t[d]
      OBVIOUS
    <3> DEFINE P(i) == i < dims[d] /\ u[d] = lo[d] + step[d] * i
    <3>1. \E i \in Nat : P(i) OBVIOUS
    <3>2. t[d] = CHOOSE i \in Nat : P(i) OBVIOUS
    <3> HIDE DEF P, t
    <3>3. t[d] \in Nat /\ P(t[d]) BY <3>1, <3>2
    <3> QED BY <3>3 DEF P
  <2>2. t \in Tuples(dims)
    <3>1. Len(dims) = n BY DEF Within
    <3>2. t \in [1 .. n -> Nat]
      <4>1. t = [d \in 1 .. n |-> t[d]] OBVIOUS
      <4> HIDE DEF t
      <4> QED BY <2>1, <4>1
    <3> HIDE DEF t, n
    <3> QED BY <2>1, <3>1, <3>2 DEF Tuples
  <2> HIDE DEF t
  <2>3. u = [d \in 1 .. n |-> u[d]] OBVIOUS
  <2>5. \A d \in 1 .. n : u[d] = lo[d] + step[d] * t[d] BY <2>1
  <2>4. u = [d \in 1 .. n |-> lo[d] + step[d] * t[d]]
    <3> HIDE DEF n
    <3> QED BY <2>3, <2>5, Zenon
  <2> QED BY <2>2, <2>4
<1>2. \A t \in Tuples(dims) : \E u \in U : Place(lo, step, t, shape) = flatIndex(u, shape)
  BY DEF Place
<1>3. \A u \in U : \E t \in Tuples(dims) : Place(lo, step, t, shape) = flatIndex(u, shape)
  <2> SUFFICES ASSUME NEW u \in U
               PROVE  \E t \in Tuples(dims) : Place(lo, step, t, shape) = flatIndex(u, shape)
    OBVIOUS
  <2>1. PICK t \in Tuples(dims) : u = [d \in 1 .. n |-> lo[d] + step[d] * t[d]] BY <1>1
  <2> QED BY <2>1 DEF Place
<1> QED BY <1>2, <1>3 DEF Places

\* The elements that a slice names are those of its steps.
LEMMA NamedWithin ==
  ASSUME NEW shape, NEW spec, Bounded(shape, spec)
  PROVE  /\ Within(Lengths(spec), Starts(spec), Steps(spec), shape)
         /\ Named(shape, spec) = Places(Lengths(spec), Starts(spec), Steps(spec), shape)
<1> DEFINE n == Len(shape)
           lo == Starts(spec)
           step == Steps(spec)
           dims == Lengths(spec)
           Kind == [start : Nat, stop : Nat, step : Nat \ {0}]
<1>1. /\ n \in 1 .. 3 /\ n \in Nat \ {0} /\ shape \in Seq(Nat) /\ Len(spec) = n
      /\ DOMAIN shape = 1 .. n
      /\ \A d \in 1 .. n : shape[d] \in Nat /\ spec[d] \in Kind /\ spec[d].start < spec[d].stop
                           /\ spec[d].stop <= shape[d]
  <2>1. spec \in [1 .. n -> Kind] BY DEF Bounded
  <2> HIDE DEF Kind
  <2> QED BY <2>1, BoundedIs
<1>2. \A d \in 1 .. n : /\ lo[d] = spec[d].start /\ step[d] = spec[d].step /\ dims[d] = Length(spec[d])
                        /\ lo[d] \in Nat /\ step[d] \in Nat \ {0} /\ dims[d] \in Nat
                        /\ \A i \in Nat : i < dims[d] <=> lo[d] + step[d] * i < spec[d].stop
  <2> SUFFICES ASSUME NEW d \in 1 .. n
               PROVE  /\ lo[d] = spec[d].start /\ step[d] = spec[d].step /\ dims[d] = Length(spec[d])
                      /\ lo[d] \in Nat /\ step[d] \in Nat \ {0} /\ dims[d] \in Nat
                      /\ \A i \in Nat : i < dims[d] <=> lo[d] + step[d] * i < spec[d].stop
    OBVIOUS
  <2>1. lo[d] = spec[d].start /\ step[d] = spec[d].step /\ dims[d] = Length(spec[d])
    BY <1>1 DEF Starts, Steps, Lengths
  <2>2. /\ Length(spec[d]) \in Nat
        /\ \A i \in Nat : i < Length(spec[d]) <=> spec[d].start + spec[d].step * i < spec[d].stop
    BY <1>1, SliceReach
  <2>3. spec[d].start \in Nat /\ spec[d].step \in Nat \ {0} BY <1>1
  <2> HIDE DEF lo, step, dims
  <2> QED BY <2>1, <2>2, <2>3
<1>3. /\ lo \in [1 .. n -> Nat] /\ step \in [1 .. n -> Nat \ {0}] /\ dims \in [1 .. n -> Nat]
      /\ dims \in Seq(Nat) /\ Len(dims) = n
  <2>1. /\ lo = [d \in 1 .. n |-> lo[d]] /\ step = [d \in 1 .. n |-> step[d]]
        /\ dims = [d \in 1 .. n |-> dims[d]]
    BY <1>1 DEF Starts, Steps, Lengths
  <2> HIDE DEF lo, step, dims
  <2>2. lo \in [1 .. n -> Nat] /\ step \in [1 .. n -> Nat \ {0}] /\ dims \in [1 .. n -> Nat]
    BY <1>2, <2>1
  <2> QED BY <1>1, <2>2, FunctionIsSeq
<1> HIDE DEF lo, step, dims, Kind
<1>4. \A d \in 1 .. n : spec[d].stop \in Nat BY BoundedIs
<1>5. Within(dims, lo, step, shape)
  <2> SUFFICES \A t \in Tuples(dims) : \A d \in 1 .. n : lo[d] + step[d] * t[d] < shape[d]
    BY <1>1, <1>3, Zenon DEF Within
  <2> SUFFICES ASSUME NEW t \in Tuples(dims), NEW d \in 1 .. n PROVE lo[d] + step[d] * t[d] < shape[d]
    OBVIOUS
  <2>1. t[d] \in Nat /\ t[d] < dims[d] BY <1>3 DEF Tuples
  <2>2. lo[d] + step[d] * t[d] < spec[d].stop BY <1>2, <2>1
  <2> DEFINE p == step[d] * t[d]
  <2>3. p \in Nat BY <1>2, <2>1
  <2> HIDE DEF p
  <2>4. lo[d] + p < spec[d].stop BY <2>2 DEF p
  <2>5. lo[d] + p < shape[d] BY <1>1, <1>2, <1>4, <2>3, <2>4
  <2> QED BY <2>5 DEF p
<1> DEFINE top == Max(Range(shape))
           U == {u \in [DOMAIN shape -> 0 .. top] :
                   \A d \in DOMAIN shape : /\ spec[d].start <= u[d] /\ u[d] < spec[d].stop
                                           /\ (u[d] - spec[d].start) % spec[d].step = 0}
<1>6. top \in Nat /\ \A d \in 1 .. n : shape[d] <= top
  <2>1. Range(shape) = {shape[d] : d \in 1 .. n} BY <1>1 DEF Range
  <2>2. shape \in [1 .. n -> Nat] BY <1>1
  <2> QED BY <1>1, <2>1, <2>2, MaxOfSome
<1> HIDE DEF top
<1>7. \A u \in U : u \in [1 .. n -> Nat] BY <1>1, <1>6
<1>8. ASSUME NEW u \in U, NEW d \in 1 .. n PROVE \E i \in Nat : i < dims[d] /\ u[d] = lo[d] + step[d] * i
  <2>1. /\ u[d] \in Nat /\ lo[d] <= u[d] /\ u[d] < spec[d].stop /\ (u[d] - lo[d]) % step[d] = 0
    BY <1>1, <1>2, <1>7
  <2> DEFINE x == u[d] - lo[d]
             c == step[d]
             i == x \div c
  <2>2. x \in Nat /\ c \in Nat \ {0} BY <1>2, <2>1
  <2>3. i \in Nat /\ x = i * c + (x % c) BY <2>2, DivModIs
  <2>4. u[d] = lo[d] + x /\ x % c = 0
    <3>1. x % c = 0 BY <2>1
    <3> DEFINE v == u[d]
               l == lo[d]
    <3>2. v \in Nat /\ l \in Nat BY <1>2, <2>1
    <3> HIDE DEF v, l
    <3>3. v = l + (v - l) BY <3>2
    <3> QED BY <3>1, <3>3 DEF v, l
  <2> HIDE DEF x, c, i
  <2>5. x = c * i
    <3> DEFINE p == i * c
    <3>1. p \in Nat /\ p = c * i /\ x = p + (x % c) BY <2>2, <2>3
    <3> HIDE DEF p
    <3> QED BY <2>2, <2>4, <3>1
  <2>6. u[d] = lo[d] + c * i BY <2>4, <2>5
  <2>7. i < dims[d] BY <1>2, <2>1, <2>3, <2>6 DEF c
  <2> QED BY <2>3, <2>6, <2>7 DEF c
<1>9. ASSUME NEW t \in Tuples(dims) PROVE [d \in 1 .. n |-> lo[d] + step[d] * t[d]] \in U
  <2> DEFINE u == [d \in 1 .. n |-> lo[d] + step[d] * t[d]]
  <2>1. ASSUME NEW d \in 1 .. n
        PROVE  /\ u[d] \in 0 .. top /\ spec[d].start <= u[d] /\ u[d] < spec[d].stop
               /\ (u[d] - spec[d].start) % spec[d].step = 0
    <3> DEFINE a == lo[d]
               c == step[d]
               i == t[d]
               p == c * i
    <3>1. i \in Nat /\ i < dims[d] BY <1>3 DEF Tuples
    <3>2. a + p < spec[d].stop BY <1>2, <3>1
    <3>3. a \in Nat /\ c \in Nat \ {0} BY <1>2
    <3>4. u[d] = a + p OBVIOUS
    <3> HIDE DEF a, c, i, u
    <3>5. p \in Nat /\ p = i * c + 0 BY <3>1, <3>3
    <3>6. 0 \in 0 .. c - 1 BY <3>3
    <3>11. (i * c + 0) % c = 0 BY <3>1, <3>3, <3>6, DivModOf
    <3> HIDE DEF p
    <3>7. p % c = 0 BY <3>5, <3>11
    <3>8. a + p \in Nat /\ a <= a + p /\ (a + p) - a = p BY <3>3, <3>5
    <3>9. a = spec[d].start /\ c = spec[d].step BY <1>2 DEF a, c
    <3>10. a + p <= top BY <1>1, <1>4, <1>6, <3>2, <3>8
    <3> QED BY <1>6, <3>2, <3>4, <3>7, <3>8, <3>9, <3>10
  <2>2. u = [d \in 1 .. n |-> u[d]] OBVIOUS
  <2> HIDE DEF u
  <2>3. u \in [DOMAIN shape -> 0 .. top] BY <1>1, <2>1, <2>2
  <2>4. u \in U BY <1>1, <2>1, <2>3
  <2> QED BY <2>4 DEF u
<1> HIDE DEF U
<1>10. {flatIndex(u, shape) : u \in U} = Places(dims, lo, step, shape)
  BY <1>5, <1>7, <1>8, <1>9, SteppedTuples
<1>11. Named(shape, spec) = {flatIndex(u, shape) : u \in U} BY DEF Named, U, top
<1> QED BY <1>5, <1>10, <1>11 DEF dims, lo, step

\* The elements that a slice names, and everything between its bounds.
LEMMA BoxWithin ==
  ASSUME NEW shape, NEW spec, Bounded(shape, spec)
  PROVE  /\ Bounded(shape, EveryStep(spec))
         /\ Within(Widths(spec), Starts(spec), Ones(Len(shape)), shape)
         /\ Named(shape, EveryStep(spec)) = Places(Widths(spec), Starts(spec), Ones(Len(shape)), shape)
         /\ \A d \in 1 .. Len(shape) : Widths(spec)[d] \in Nat \ {0}
<1> DEFINE n == Len(shape)
           each == EveryStep(spec)
           Kind == [start : Nat, stop : Nat, step : Nat \ {0}]
<1>1. /\ n \in 1 .. 3 /\ n \in Nat \ {0} /\ Len(spec) = n /\ DOMAIN spec = 1 .. n
      /\ \A d \in 1 .. n : spec[d] \in Kind /\ spec[d].start < spec[d].stop
                           /\ spec[d].stop <= shape[d]
  <2>1. spec \in [1 .. n -> Kind] BY DEF Bounded
  <2> HIDE DEF Kind
  <2> QED BY <2>1, BoundedIs
<1>2. \A d \in 1 .. n : /\ each[d] \in Kind /\ each[d].start = spec[d].start
                        /\ each[d].stop = spec[d].stop /\ each[d].step = 1
  BY <1>1 DEF EveryStep
<1>3. each \in [1 .. n -> Kind]
  <2>1. each = [d \in 1 .. n |-> each[d]] BY <1>1 DEF EveryStep
  <2> HIDE DEF each, Kind
  <2> QED BY <1>2, <2>1
<1>4. Len(each) = n
  <2> HIDE DEF each, Kind
  <2> QED BY <1>1, <1>3, FunctionIsSeq
<1>5. Bounded(shape, each)
  <2> HIDE DEF each
  <2> QED BY <1>1, <1>2, <1>3 DEF Bounded
<1>6. \A d \in 1 .. n : /\ Length(each[d]) = Width(spec[d]) /\ Width(spec[d]) \in Nat \ {0}
  <2> SUFFICES ASSUME NEW d \in 1 .. n
               PROVE  Length(each[d]) = Width(spec[d]) /\ Width(spec[d]) \in Nat \ {0}
    OBVIOUS
  <2>1. Width(spec[d]) \in Nat \ {0} BY <1>1, SliceReach
  <2>2. each[d].start < each[d].stop /\ each[d] \in Kind /\ each[d].step = 1 BY <1>1, <1>2
  <2>3. Width(each[d]) = Width(spec[d]) BY <1>2 DEF Width
  <2> HIDE DEF each
  <2>4. Length(each[d]) = Width(each[d]) BY <2>2, SliceReach
  <2> QED BY <2>1, <2>3, <2>4
<1>7. Lengths(each) = Widths(spec) BY <1>1, <1>4, <1>6 DEF Lengths, Widths
<1>8. Starts(each) = Starts(spec) BY <1>1, <1>2, <1>4 DEF Starts
<1>9. Steps(each) = Ones(n) BY <1>2, <1>4 DEF Steps, Ones
<1>10. \A d \in 1 .. n : Widths(spec)[d] \in Nat \ {0} BY <1>1, <1>6 DEF Widths
<1> QED BY <1>5, <1>7, <1>8, <1>9, <1>10, NamedWithin

\* The places of the first elements of the rows of a slice.
RowSpec(spec) ==
  [d \in 1 .. Len(spec) |->
     Slice(spec[d].start, IF d = Len(spec) THEN spec[d].start + 1 ELSE spec[d].stop, 1)]

RowDims(spec) ==
  [d \in 1 .. Len(spec) |-> IF d = Len(spec) THEN 1 ELSE Width(spec[d])]

\* RowStarts() lists these places, in order.
LEMMA RowsWithin ==
  ASSUME NEW shape, NEW spec, Bounded(shape, spec)
  PROVE  /\ Within(RowDims(spec), Starts(spec), Ones(Len(shape)), shape)
         /\ RowStarts(shape, spec)
              = Ascending(Places(RowDims(spec), Starts(spec), Ones(Len(shape)), shape))
<1> DEFINE n == Len(shape)
           rows == RowSpec(spec)
           Kind == [start : Nat, stop : Nat, step : Nat \ {0}]
<1>1. /\ n \in 1 .. 3 /\ n \in Nat \ {0} /\ Len(spec) = n /\ DOMAIN spec = 1 .. n
      /\ shape \in [1 .. n -> Nat] /\ DOMAIN shape = 1 .. n
      /\ \A d \in 1 .. n : /\ spec[d] \in Kind /\ spec[d].start < spec[d].stop
                           /\ spec[d].stop <= shape[d] /\ shape[d] \in Nat
                           /\ spec[d].start \in Nat /\ spec[d].stop \in Nat
  <2>1. spec \in [1 .. n -> Kind] BY DEF Bounded
  <2> HIDE DEF Kind
  <2>2. shape \in [1 .. n -> Nat] BY BoundedIs
  <2> QED BY <2>1, <2>2, BoundedIs
<1>2. \A d \in 1 .. n : /\ rows[d] \in Kind /\ rows[d].start = spec[d].start /\ rows[d].step = 1
                        /\ rows[d].stop = IF d = n THEN spec[d].start + 1 ELSE spec[d].stop
                        /\ rows[d].start < rows[d].stop /\ rows[d].stop <= shape[d]
                        /\ Width(rows[d]) = IF d = n THEN 1 ELSE Width(spec[d])
  <2> SUFFICES ASSUME NEW d \in 1 .. n
               PROVE  /\ rows[d] \in Kind /\ rows[d].start = spec[d].start /\ rows[d].step = 1
                      /\ rows[d].stop = IF d = n THEN spec[d].start + 1 ELSE spec[d].stop
                      /\ rows[d].start < rows[d].stop /\ rows[d].stop <= shape[d]
                      /\ Width(rows[d]) = IF d = n THEN 1 ELSE Width(spec[d])
    OBVIOUS
  <2> DEFINE stop == IF d = n THEN spec[d].start + 1 ELSE spec[d].stop
  <2>1. stop \in Nat /\ spec[d].start < stop /\ stop <= shape[d] BY <1>1
  <2>2. rows[d] = Slice(spec[d].start, stop, 1) BY <1>1 DEF RowSpec
  <2>3. Width(rows[d]) = IF d = n THEN 1 ELSE Width(spec[d])
    <3>1. Width(rows[d]) = stop - spec[d].start BY <2>2 DEF Slice, Width
    <3>2. spec[d].start + 1 - spec[d].start = 1 BY <1>1
    <3>3. d # n => stop = spec[d].stop OBVIOUS
    <3>4. d = n => stop = spec[d].start + 1 OBVIOUS
    <3> HIDE DEF stop, rows
    <3> DEFINE x == spec[d].start
    <3>7. x \in Nat BY <1>1
    <3>5. d = n => Width(rows[d]) = 1
      <4> SUFFICES ASSUME d = n PROVE stop - x = 1 BY <3>1
      <4>1. stop = x + 1 BY <3>4
      <4> HIDE DEF x, n
      <4> QED BY <3>7, <4>1
    <3>6. d # n => Width(rows[d]) = Width(spec[d]) BY <3>1, <3>3 DEF Width
    <3> QED BY <3>5, <3>6
  <2> HIDE DEF rows, stop
  <2>4. rows[d].start = spec[d].start /\ rows[d].stop = stop /\ rows[d].step = 1 /\ rows[d] \in Kind
    BY <1>1, <2>1, <2>2 DEF Slice
  <2> QED BY <2>1, <2>3, <2>4 DEF stop
<1>3. rows \in [1 .. n -> Kind]
  <2>1. rows = [d \in 1 .. n |-> rows[d]] BY <1>1 DEF RowSpec
  <2> HIDE DEF rows, Kind
  <2> QED BY <1>2, <2>1
<1>4. Len(rows) = n
  <2> HIDE DEF rows, Kind
  <2> QED BY <1>1, <1>3, FunctionIsSeq
<1>5. Bounded(shape, rows)
  <2>1. shape \in Seq(Nat) BY BoundedIs
  <2> HIDE DEF rows
  <2> QED BY <1>1, <1>2, <1>3, <2>1 DEF Bounded
<1>6. \A d \in 1 .. n : Length(rows[d]) = Width(rows[d])
  <2> SUFFICES ASSUME NEW d \in 1 .. n PROVE Length(rows[d]) = Width(rows[d]) OBVIOUS
  <2> HIDE DEF rows
  <2> QED BY <1>2, SliceReach
<1> HIDE DEF rows
<1>7. Lengths(rows) = RowDims(spec)
  <2>1. Lengths(rows) = [d \in 1 .. n |-> Length(rows[d])] BY <1>4, Zenon DEF Lengths
  <2>2. RowDims(spec) = [d \in 1 .. n |-> IF d = n THEN 1 ELSE Width(spec[d])]
    BY <1>1, Zenon DEF RowDims
  <2>3. \A d \in 1 .. n : Length(rows[d]) = IF d = n THEN 1 ELSE Width(spec[d])
    BY <1>2, <1>6, Zenon
  <2> QED BY <2>1, <2>2, <2>3, Zenon
<1>8. Starts(rows) = Starts(spec) BY <1>1, <1>2, <1>4 DEF Starts
<1>9. Steps(rows) = Ones(n) BY <1>2, <1>4 DEF Steps, Ones
<1> DEFINE top == Max(Range(shape))
           U == {u \in [DOMAIN shape -> 0 .. top] :
                   \A d \in DOMAIN shape : /\ rows[d].start <= u[d] /\ u[d] < rows[d].stop
                                           /\ (u[d] - rows[d].start) % rows[d].step = 0}
           outer == [1 .. n - 1 -> 0 .. Max({shape[d] : d \in 1 .. n})]
           T == {u \in outer : \A d \in 1 .. n - 1 : u[d] \in spec[d].start .. spec[d].stop - 1}
<1>10. Range(shape) = {shape[d] : d \in 1 .. n} BY <1>1 DEF Range
<1>11. top \in Nat /\ (\A d \in 1 .. n : shape[d] <= top) /\ outer = [1 .. n - 1 -> 0 .. top]
  BY <1>1, <1>10, MaxOfSome
<1> HIDE DEF top, outer
<1>17. n \in Nat \ {0} /\ n - 1 \in Nat /\ (n - 1) + 1 = n
       /\ \A d \in 1 .. n : d # n => d \in 1 .. n - 1
  <2>1. n \in Nat \ {0} BY <1>1
  <2> HIDE DEF n
  <2> QED BY <2>1
<1>12. ASSUME NEW t \in T PROVE Append(t, spec[n].start) \in U
  <2> DEFINE x == spec[n].start
             u == Append(t, x)
  <2>1. t \in [1 .. n - 1 -> Nat] /\ \A d \in 1 .. n - 1 : spec[d].start <= t[d] /\ t[d] < spec[d].stop
    <3>1. \A d \in 1 .. n - 1 : t[d] \in spec[d].start .. spec[d].stop - 1 /\ d \in 1 .. n BY <1>1
    <3>2. \A d \in 1 .. n - 1 : spec[d].start <= t[d] /\ t[d] < spec[d].stop
      <4> SUFFICES ASSUME NEW d \in 1 .. n - 1 PROVE spec[d].start <= t[d] /\ t[d] < spec[d].stop
        OBVIOUS
      <4> DEFINE a == spec[d].start
                 b == spec[d].stop
      <4>1. a \in Nat /\ b \in Nat /\ t[d] \in a .. b - 1 BY <1>1, <3>1
      <4> HIDE DEF a, b
      <4>2. a <= t[d] /\ t[d] < b BY <4>1
      <4> QED BY <4>2 DEF a, b
    <3> QED BY <1>11, <3>2
  <2>2. x \in Nat /\ n - 1 \in Nat BY <1>1
  <2>3. t \in Seq(Nat) /\ Len(t) = n - 1 BY <2>1, <2>2, FunctionIsSeq
  <2> HIDE DEF x
  <2>4. u \in [1 .. n -> Nat] /\ u[n] = x /\ \A d \in 1 .. n - 1 : u[d] = t[d]
    <3> DEFINE m == n
    <3>4. m \in Nat \ {0} /\ (m - 1) + 1 = m /\ Len(t) = m - 1 BY <1>17, <2>3
    <3> HIDE DEF n, m
    <3>1. u \in Seq(Nat) /\ Len(u) = m BY <2>2, <2>3, <3>4
    <3>2. u[m] = x /\ \A d \in 1 .. m - 1 : u[d] = t[d] BY <2>2, <2>3, <3>4
    <3>3. u \in [1 .. n -> Nat]
      <4> HIDE DEF u
      <4> QED BY <3>1 DEF m
    <3> QED BY <3>2, <3>3 DEF m
  <2> HIDE DEF u
  <2>5. ASSUME NEW d \in 1 .. n
        PROVE  /\ u[d] \in 0 .. top /\ rows[d].start <= u[d] /\ u[d] < rows[d].stop
               /\ (u[d] - rows[d].start) % rows[d].step = 0
    <3>1. rows[d].start <= u[d] /\ u[d] < rows[d].stop
      <4>1. CASE d = n
        <5>1. rows[d].start = x /\ rows[d].stop = x + 1 /\ u[d] = x BY <1>2, <2>4, <4>1 DEF x
        <5> QED BY <2>2, <5>1
      <4>2. CASE d # n
        <5>1. d \in 1 .. n - 1 BY <1>17, <4>2
        <5>2. rows[d].start = spec[d].start /\ rows[d].stop = spec[d].stop /\ u[d] = t[d]
          BY <1>2, <2>4, <4>2, <5>1
        <5> QED BY <2>1, <5>1, <5>2
      <4> QED BY <4>1, <4>2
    <3>2. rows[d].stop <= shape[d] /\ shape[d] <= top /\ rows[d].start \in Nat /\ u[d] \in Nat
      BY <1>1, <1>2, <1>11, <2>4
    <3>3. rows[d].stop \in Nat /\ shape[d] \in Nat BY <1>1, <1>2
    <3>4. (u[d] - rows[d].start) % 1 = 0
      <4>1. u[d] - rows[d].start \in Nat BY <3>1, <3>2
      <4> QED BY <4>1
    <3>5. u[d] <= top BY <1>11, <3>1, <3>2, <3>3
    <3> QED BY <1>2, <1>11, <3>1, <3>2, <3>4, <3>5
  <2>6. u \in [DOMAIN shape -> 0 .. top] BY <1>1, <2>4, <2>5
  <2>7. u \in U BY <1>1, <2>5, <2>6
  <2> QED BY <2>7 DEF u, x
<1>13. ASSUME NEW u \in U PROVE \E t \in T : u = Append(t, spec[n].start)
  <2>1. u \in [1 .. n -> 0 .. top]
        /\ \A d \in 1 .. n : rows[d].start <= u[d] /\ u[d] < rows[d].stop
    BY <1>1
  <2> DEFINE t == [d \in 1 .. n - 1 |-> u[d]]
             x == spec[n].start
  <2>2. n - 1 \in Nat /\ \A d \in 1 .. n - 1 : d \in 1 .. n /\ d # n BY <1>1
  <2>3. t \in [1 .. n - 1 -> 0 .. top] BY <2>1, <2>2
  <2>4. \A d \in 1 .. n - 1 : t[d] \in spec[d].start .. spec[d].stop - 1
    <3> SUFFICES ASSUME NEW d \in 1 .. n - 1 PROVE u[d] \in spec[d].start .. spec[d].stop - 1 OBVIOUS
    <3>1. spec[d].start <= u[d] /\ u[d] < spec[d].stop BY <1>2, <2>1, <2>2
    <3>5. d \in 1 .. n BY <2>2
    <3>6. u[d] \in 0 .. top BY <2>1, <3>5
    <3>7. spec[d].start \in Nat /\ spec[d].stop \in Nat BY <1>1, <3>5
    <3>2. spec[d].start \in Nat /\ spec[d].stop \in Nat /\ u[d] \in Nat
      BY <1>11, <3>6, <3>7
    <3> DEFINE a == spec[d].start
               b == spec[d].stop
               y == u[d]
    <3>3. a \in Nat /\ b \in Nat /\ y \in Nat /\ a <= y /\ y < b BY <3>1, <3>2
    <3> HIDE DEF a, b, y
    <3>4. y \in a .. b - 1 BY <3>3
    <3> QED BY <3>4 DEF a, b, y
  <2>5. t \in T BY <1>11, <2>3, <2>4
  <2>6. u[n] = x
    <3>1. n \in 1 .. n BY <1>1
    <3>2. rows[n].start = x /\ rows[n].stop = x + 1 /\ x \in Nat BY <1>1, <1>2, <3>1
    <3>3. u[n] \in Nat BY <1>11, <2>1, <3>1
    <3>4. x <= u[n] /\ u[n] < x + 1 BY <2>1, <3>1, <3>2
    <3> HIDE DEF x
    <3> QED BY <3>2, <3>3, <3>4
  <2>7. t \in Seq(Nat) /\ Len(t) = n - 1
    <3>1. t \in [1 .. n - 1 -> Nat] BY <2>3
    <3> HIDE DEF t
    <3> QED BY <2>2, <3>1, FunctionIsSeq
  <2>8. x \in Nat BY <1>1
  <2> HIDE DEF x
  <2>9. Append(t, x) = [d \in 1 .. n |-> IF d = n THEN x ELSE t[d]]
    <3> DEFINE m == n
               A == Append(t, x)
    <3>1. m \in Nat \ {0} /\ (m - 1) + 1 = m /\ Len(t) = m - 1 BY <1>17, <2>7
    <3> HIDE DEF t, n, m
    <3>2. A \in Seq(Nat) /\ Len(A) = m BY <2>7, <2>8, <3>1
    <3>3. \A d \in 1 .. m : A[d] = IF d = m THEN x ELSE t[d] BY <2>7, <2>8, <3>1
    <3>4. A = [d \in 1 .. m |-> A[d]]
      <4> HIDE DEF A
      <4> QED BY <3>2
    <3> HIDE DEF A
    <3>5. A = [d \in 1 .. m |-> IF d = m THEN x ELSE t[d]] BY <3>3, <3>4
    <3> QED BY <3>5 DEF A, m
  <2>10. u = [d \in 1 .. n |-> u[d]] BY <2>1
  <2>11. \A d \in 1 .. n : d # n => d \in 1 .. n - 1 BY <1>17
  <2>12. u = Append(t, x) BY <2>6, <2>9, <2>10, <2>11
  <2> QED BY <2>5, <2>12 DEF x
<1> HIDE DEF U, T
<1>14. {flatIndex(Append(t, spec[n].start), shape) : t \in T} = {flatIndex(u, shape) : u \in U}
  BY <1>12, <1>13
<1>15. Named(shape, rows) = {flatIndex(u, shape) : u \in U} BY DEF Named, U, top
<1>16. RowStarts(shape, spec) = Ascending({flatIndex(Append(t, spec[n].start), shape) : t \in T})
  BY DEF RowStarts, T, outer
<1> QED BY <1>5, <1>7, <1>8, <1>9, <1>14, <1>15, <1>16, NamedWithin

\* The places of the elements of a slice in the box around them.
PickSpec(spec) == [d \in 1 .. Len(spec) |-> Slice(0, Width(spec[d]), spec[d].step)]

\* StepFilter() picks these places.
LEMMA PickedWithin ==
  ASSUME NEW shape, NEW spec, Bounded(shape, spec)
  PROVE  /\ Within(Lengths(spec), Naughts(Len(shape)), Steps(spec), Widths(spec))
         /\ {flatIndex(t, Widths(spec)) :
               t \in {u \in [1 .. Len(spec) -> 0 .. Max(Range(Widths(spec)))] :
                        \A d \in 1 .. Len(spec) : u[d] < Widths(spec)[d] /\ u[d] % spec[d].step = 0}}
              = Places(Lengths(spec), Naughts(Len(shape)), Steps(spec), Widths(spec))
<1> DEFINE n == Len(shape)
           W == Widths(spec)
           pick == PickSpec(spec)
           Kind == [start : Nat, stop : Nat, step : Nat \ {0}]
<1>1. /\ n \in 1 .. 3 /\ n \in Nat \ {0} /\ Len(spec) = n /\ DOMAIN spec = 1 .. n
      /\ \A d \in 1 .. n : /\ spec[d] \in Kind /\ spec[d].start < spec[d].stop
                           /\ spec[d].start \in Nat /\ spec[d].stop \in Nat /\ spec[d].step \in Nat \ {0}
  <2>1. spec \in [1 .. n -> Kind] BY DEF Bounded
  <2> HIDE DEF Kind
  <2> QED BY <2>1, BoundedIs
<1>2. W \in [1 .. n -> Nat] /\ W \in Seq(Nat) /\ Len(W) = n /\ DOMAIN W = 1 .. n
      /\ \A d \in 1 .. n : W[d] \in Nat \ {0} /\ W[d] = Width(spec[d])
  <2>1. \A d \in 1 .. n : W[d] \in Nat \ {0} BY BoxWithin
  <2>2. W = [d \in 1 .. n |-> W[d]] /\ \A d \in 1 .. n : W[d] = Width(spec[d]) BY <1>1 DEF Widths
  <2> HIDE DEF W
  <2>3. W \in [1 .. n -> Nat] BY <2>1, <2>2
  <2> QED BY <1>1, <2>1, <2>2, <2>3, FunctionIsSeq
<1>3. \A d \in 1 .. n : /\ pick[d] \in Kind /\ pick[d].start = 0 /\ pick[d].stop = W[d]
                        /\ pick[d].step = spec[d].step /\ pick[d].start < pick[d].stop
                        /\ Length(pick[d]) = Length(spec[d])
  <2> SUFFICES ASSUME NEW d \in 1 .. n
               PROVE  /\ pick[d] \in Kind /\ pick[d].start = 0 /\ pick[d].stop = W[d]
                      /\ pick[d].step = spec[d].step /\ pick[d].start < pick[d].stop
                      /\ Length(pick[d]) = Length(spec[d])
    OBVIOUS
  <2>1. pick[d] = Slice(0, W[d], spec[d].step) BY <1>1, <1>2 DEF PickSpec
  <2> HIDE DEF W, pick
  <2>2. /\ pick[d] \in Kind /\ pick[d].start = 0 /\ pick[d].stop = W[d]
        /\ pick[d].step = spec[d].step /\ pick[d].start < pick[d].stop
    BY <1>1, <1>2, <2>1 DEF Slice
  <2>3. Length(pick[d]) = Length(spec[d])
    <3> DEFINE a == spec[d].start
               b == spec[d].stop
               c == spec[d].step
               w == W[d]
    <3>1. a \in Nat /\ b \in Nat /\ c \in Nat \ {0} /\ a < b /\ w = b - a BY <1>1, <1>2 DEF Width
    <3>2. Length(spec[d]) = IF c = 0 \/ b <= a THEN 0 ELSE (b - a + c - 1) \div c BY DEF Length
    <3>3. Length(pick[d]) = IF c = 0 \/ w <= 0 THEN 0 ELSE (w - 0 + c - 1) \div c
      BY <2>2 DEF Length
    <3> HIDE DEF a, b, c, w
    <3>4. w - 0 + c - 1 = b - a + c - 1 BY <3>1
    <3> QED BY <3>1, <3>2, <3>3, <3>4
  <2> QED BY <2>2, <2>3
<1>4. pick \in [1 .. n -> Kind] /\ Len(pick) = n
  <2>1. pick = [d \in 1 .. n |-> pick[d]] BY <1>1 DEF PickSpec
  <2> HIDE DEF pick, Kind, W
  <2>2. pick \in [1 .. n -> Kind] BY <1>3, <2>1
  <2> QED BY <1>1, <2>2, FunctionIsSeq
<1> HIDE DEF pick, W
<1>5. Bounded(W, pick)
  <2>1. \A d \in 1 .. n : W[d] <= W[d] BY <1>2
  <2>2. W \in Seq(Nat) /\ Len(W) = n /\ n \in 1 .. 3 BY <1>1, <1>2
  <2>3. pick \in [1 .. Len(W) -> Kind] BY <1>4, <2>2
  <2>4. \A d \in 1 .. Len(W) : pick[d].start < pick[d].stop /\ pick[d].stop <= W[d]
    BY <1>3, <2>1, <2>2
  <2> HIDE DEF n
  <2> QED BY <2>2, <2>3, <2>4 DEF Bounded
<1>6. Lengths(pick) = Lengths(spec) BY <1>1, <1>3, <1>4 DEF Lengths
<1>7. Starts(pick) = Naughts(n) BY <1>3, <1>4 DEF Starts, Naughts
<1>8. Steps(pick) = Steps(spec) BY <1>1, <1>3, <1>4 DEF Steps
<1> DEFINE top == Max(Range(W))
<1>9. Named(W, pick) = {flatIndex(t, W) : t \in {u \in [1 .. n -> 0 .. top] :
                          \A d \in 1 .. n : u[d] < W[d] /\ u[d] % spec[d].step = 0}}
  <2> DEFINE U == {u \in [DOMAIN W -> 0 .. top] :
                     \A d \in DOMAIN W : /\ pick[d].start <= u[d] /\ u[d] < pick[d].stop
                                         /\ (u[d] - pick[d].start) % pick[d].step = 0}
             V == {u \in [1 .. n -> 0 .. top] : \A d \in 1 .. n : u[d] < W[d] /\ u[d] % spec[d].step = 0}
  <2>1. top \in Nat
    <3>1. Range(W) = {W[d] : d \in 1 .. n} BY <1>2 DEF Range
    <3> QED BY <1>1, <1>2, <3>1, MaxOfSome
  <2> HIDE DEF top
  <2>2. U = V
    <3>1. ASSUME NEW u \in [1 .. n -> 0 .. top], NEW d \in 1 .. n
          PROVE  /\ pick[d].start <= u[d] /\ u[d] < pick[d].stop
                 /\ (u[d] - pick[d].start) % pick[d].step = 0
                 <=> u[d] < W[d] /\ u[d] % spec[d].step = 0
      <4>1. u[d] \in Nat BY <2>1
      <4>2. u[d] - 0 = u[d] /\ 0 <= u[d] BY <4>1
      <4> QED BY <1>3, <4>2
    <3> QED BY <1>2, <3>1
  <2>3. Named(W, pick) = {flatIndex(t, W) : t \in U} BY DEF Named, top
  <2> HIDE DEF U
  <2> QED BY <2>2, <2>3
<1> QED BY <1>1, <1>2, <1>5, <1>6, <1>7, <1>8, <1>9, NamedWithin DEF W

\* The innermost dimension: its elements are next to one another.
LEMMA LastDimension ==
  ASSUME NEW dims \in Seq(Nat), Len(dims) \in 1 .. 3, NEW c \in Nat, c = dims[Len(dims)],
         NEW rows \in Seq(Nat), Len(rows) = Len(dims), rows[Len(dims)] = 1,
         \A d \in 1 .. Len(dims) - 1 : rows[d] = dims[d]
  PROVE  /\ Product(dims) = Product(rows) * c
         /\ \A t \in Tuples(dims), r \in Tuples(rows) :
              (\A d \in 1 .. Len(dims) - 1 : r[d] = t[d])
                => flatIndex(t, dims) = flatIndex(r, rows) * c + t[Len(dims)]
<1> DEFINE n == Len(dims)
<1>0. n = 1 \/ n = 2 \/ n = 3 OBVIOUS
<1>1. \A d \in 1 .. n : dims[d] \in Nat /\ rows[d] \in Nat OBVIOUS
<1>2. Product(dims) = Product(rows) * c
  <2>1. CASE n = 1
    <3>1. Product(dims) = c /\ Product(rows) = 1 BY <2>1, ProductIs
    <3> QED BY <3>1
  <2>2. CASE n = 2
    <3>1. dims[1] \in Nat /\ rows[1] = dims[1] BY <1>1, <2>2
    <3>2. Product(dims) = dims[1] * c /\ Product(rows) = dims[1] * 1 BY <2>2, <3>1, ProductIs
    <3> QED BY <3>1, <3>2
  <2>3. CASE n = 3
    <3>1. dims[1] \in Nat /\ rows[1] = dims[1] /\ dims[2] \in Nat /\ rows[2] = dims[2] BY <1>1, <2>3
    <3>2. Product(dims) = dims[1] * dims[2] * c /\ Product(rows) = dims[1] * dims[2] * 1
      BY <2>3, <3>1, ProductIs
    <3>3. dims[1] * dims[2] \in Nat BY <3>1, ProductOfTwo
    <3> QED BY <3>2, <3>3
  <2> QED BY <1>0, <2>1, <2>2, <2>3
<1>3. ASSUME NEW t \in Tuples(dims), NEW r \in Tuples(rows), \A d \in 1 .. n - 1 : r[d] = t[d]
      PROVE  flatIndex(t, dims) = flatIndex(r, rows) * c + t[n]
  <2>0. /\ t \in [1 .. n -> Nat] /\ r \in [1 .. n -> Nat] /\ r[n] = 0 /\ t[n] \in Nat
        /\ \A d \in 1 .. n : t[d] \in Nat
    <3>1. t \in [1 .. n -> Nat] /\ r \in [1 .. n -> Nat] /\ r[n] < 1 BY DEF Tuples
    <3>2. r[n] \in Nat /\ t[n] \in Nat BY <3>1
    <3>3. r[n] = 0 BY <3>1, <3>2
    <3> QED BY <3>1, <3>2, <3>3
  <2>1. CASE n = 1
    <3>1. flatIndex(t, dims) = t[1] /\ flatIndex(r, rows) = 0 BY <2>0, <2>1, FlatIndexIs
    <3>2. 0 * c + t[1] = t[1] BY <2>0, <2>1
    <3> QED BY <2>1, <3>1, <3>2
  <2>2. CASE n = 2
    <3>1. r[1] = t[1] /\ t[1] \in Nat BY <1>3, <2>0, <2>2
    <3>6. flatIndex(t, dims) = t[1] * dims[2] + t[2] BY <2>0, <2>2, FlatIndexIs
    <3>7. flatIndex(r, rows) = r[1] * rows[2] + r[2]
      <4>1. Len(rows) = 2 /\ r \in [1 .. Len(rows) -> Nat] BY <2>0, <2>2
      <4> HIDE DEF n
      <4> QED BY <4>1, FlatIndexIs
    <3>8. dims[2] = c /\ rows[2] = 1 /\ r[2] = 0 BY <2>0, <2>2
    <3>2. flatIndex(t, dims) = t[1] * c + t[2] /\ flatIndex(r, rows) = t[1] * 1 + 0
      BY <3>1, <3>6, <3>7, <3>8
    <3>3. t[1] * 1 + 0 = t[1] BY <3>1
    <3>4. flatIndex(r, rows) = t[1] BY <3>2, <3>3
    <3>5. t[n] = t[2] BY <2>2
    <3> HIDE DEF n
    <3> QED BY <3>2, <3>4, <3>5, Zenon
  <2>3. CASE n = 3
    <3>1. r[1] = t[1] /\ r[2] = t[2] /\ t[1] \in Nat /\ t[2] \in Nat /\ rows[2] = dims[2] /\ dims[2] \in Nat
      BY <1>1, <1>3, <2>0, <2>3
    <3> DEFINE a == t[1] * dims[2] + t[2]
    <3>6. flatIndex(t, dims) = (t[1] * dims[2] + t[2]) * dims[3] + t[3] BY <2>0, <2>3, FlatIndexIs
    <3>7. flatIndex(r, rows) = (r[1] * rows[2] + r[2]) * rows[3] + r[3]
      <4>1. Len(rows) = 3 /\ r \in [1 .. Len(rows) -> Nat] BY <2>0, <2>3
      <4> HIDE DEF n, a
      <4> QED BY <4>1, FlatIndexIs
    <3>8. dims[3] = c /\ rows[3] = 1 /\ r[3] = 0 BY <2>0, <2>3
    <3>2. flatIndex(t, dims) = a * c + t[3] /\ flatIndex(r, rows) = a * 1 + 0
      BY <3>1, <3>6, <3>7, <3>8
    <3>3. a \in Nat
      <4> DEFINE p == t[1] * dims[2]
      <4>1. p \in Nat BY <3>1, ProductOfTwo
      <4>2. t[2] \in Nat BY <3>1
      <4> HIDE DEF p
      <4>3. p + t[2] \in Nat BY <4>1, <4>2
      <4> QED BY <4>3 DEF p
    <3> HIDE DEF a
    <3>4. a * 1 + 0 = a BY <3>3
    <3> QED BY <2>3, <3>2, <3>4
  <2> QED BY <1>0, <2>1, <2>2, <2>3
<1> QED BY <1>2, <1>3

\* A later index in the innermost dimension is as many places behind.
LEMMA LastIndex ==
  ASSUME NEW shape \in Seq(Nat), Len(shape) \in 1 .. 3,
         NEW t \in [1 .. Len(shape) -> Nat], NEW r \in [1 .. Len(shape) -> Nat],
         \A d \in 1 .. Len(shape) - 1 : r[d] = t[d], NEW i \in Nat, t[Len(shape)] = r[Len(shape)] + i
  PROVE  flatIndex(t, shape) = flatIndex(r, shape) + i
<1> DEFINE n == Len(shape)
<1>0. n = 1 \/ n = 2 \/ n = 3 OBVIOUS
<1>1. \A d \in 1 .. n : shape[d] \in Nat /\ t[d] \in Nat /\ r[d] \in Nat OBVIOUS
<1>2. CASE n = 1
  <2>1. flatIndex(t, shape) = t[1] /\ flatIndex(r, shape) = r[1] BY <1>2, FlatIndexIs
  <2> QED BY <1>2, <2>1
<1>3. CASE n = 2
  <2>1. t[1] = r[1] /\ t[1] \in Nat /\ shape[2] \in Nat /\ r[2] \in Nat /\ t[2] = r[2] + i BY <1>1, <1>3
  <2> DEFINE p == t[1] * shape[2]
  <2>2. p \in Nat BY <2>1, ProductOfTwo
  <2>3. flatIndex(t, shape) = p + t[2] /\ flatIndex(r, shape) = p + r[2]
    BY <1>3, <2>1, FlatIndexIs
  <2> HIDE DEF p
  <2> QED BY <2>1, <2>2, <2>3
<1>4. CASE n = 3
  <2>1. /\ t[1] = r[1] /\ t[2] = r[2] /\ t[1] \in Nat /\ t[2] \in Nat
        /\ shape[2] \in Nat /\ shape[3] \in Nat /\ r[3] \in Nat /\ t[3] = r[3] + i
    BY <1>1, <1>4
  <2> DEFINE p == t[1] * shape[2]
             q == (p + t[2]) * shape[3]
  <2>2. p \in Nat BY <2>1, ProductOfTwo
  <2>4. flatIndex(t, shape) = q + t[3] /\ flatIndex(r, shape) = q + r[3]
    BY <1>4, <2>1, FlatIndexIs
  <2> HIDE DEF p
  <2>5. p + t[2] \in Nat BY <2>1, <2>2, SMTT(30)
  <2>3. q \in Nat BY <2>1, <2>5, ProductOfTwo
  <2> HIDE DEF q
  <2> DEFINE y == r[3]
  <2>6. y \in Nat /\ t[3] = y + i BY <2>1
  <2> HIDE DEF y
  <2>7. q + (y + i) = (q + y) + i BY <2>3, <2>6
  <2>8. flatIndex(t, shape) = q + (y + i) /\ flatIndex(r, shape) = q + y
    BY <2>4, <2>6, Zenon DEF y
  <2> QED BY <2>7, <2>8, Zenon
<1> QED BY <1>0, <1>2, <1>3, <1>4

\* createSliceSpec: an accepted slice of an array with elements is in bounds.
LEMMA NormalizedIsBounded ==
  ASSUME NEW shape \in Seq(Nat), Len(shape) \in 1 .. 3, Product(shape) > 0,
         NEW slices \in Seq([start : Nat, stop : Nat, step : Nat \ {0}]), Accepted(shape, slices)
  PROVE  Bounded(shape, Normalized(shape, slices))
<1> DEFINE n == Len(shape)
           spec == Normalized(shape, slices)
           Kind == [start : Nat, stop : Nat, step : Nat \ {0}]
<1>1. n = 1 \/ n = 2 \/ n = 3 OBVIOUS
<1>2. \A d \in 1 .. n : shape[d] \in Nat \ {0}
  <2>1. \A d \in 1 .. n : shape[d] \in Nat OBVIOUS
  <2>2. CASE n = 1
    <3>1. shape[1] # 0 BY <2>2, ProductIs
    <3> QED BY <2>1, <2>2, <3>1
  <2>3. CASE n = 2
    <3>1. shape[1] \in Nat /\ shape[2] \in Nat BY <2>1, <2>3
    <3>2. shape[1] * shape[2] > 0 BY <2>3, ProductIs
    <3>3. shape[1] # 0 /\ shape[2] # 0 BY <3>1, <3>2
    <3> QED BY <2>1, <2>3, <3>3
  <2>4. CASE n = 3
    <3>1. shape[1] \in Nat /\ shape[2] \in Nat /\ shape[3] \in Nat BY <2>1, <2>4
    <3>2. shape[1] * shape[2] * shape[3] > 0 BY <2>4, ProductIs
    <3> DEFINE b == shape[1] * shape[2]
    <3>3. b \in Nat BY <3>1, ProductOfTwo
    <3>4. b # 0 /\ shape[3] # 0
      <4>1. b * shape[3] > 0 BY <3>2
      <4> HIDE DEF b
      <4> QED BY <3>1, <3>3, <4>1
    <3>5. shape[1] # 0 /\ shape[2] # 0 BY <3>1, <3>4
    <3> QED BY <2>1, <2>4, <3>4, <3>5
  <2> QED BY <1>1, <2>2, <2>3, <2>4
<1>3. ASSUME NEW d \in 1 .. n
      PROVE  spec[d] \in Kind /\ spec[d].start < spec[d].stop /\ spec[d].stop <= shape[d]
  <2>1. CASE d \in DOMAIN slices
    <3>1. spec[d] = slices[d] BY <2>1 DEF Normalized
    <3>2. InBounds(slices[d], shape[d]) BY <2>1 DEF Accepted
    <3>3. slices[d] \in Kind
      <4> HIDE DEF Kind
      <4>1. slices \in Seq(Kind) BY DEF Kind
      <4> QED BY <2>1, <4>1
    <3> QED BY <3>1, <3>2, <3>3 DEF InBounds
  <2>2. CASE d \notin DOMAIN slices
    <3>1. spec[d] = Slice(0, shape[d], 1) BY <2>2 DEF Normalized, slice_all
    <3>2. shape[d] \in Nat \ {0} BY <1>2
    <3> QED BY <3>1, <3>2 DEF Slice
  <2> QED BY <2>1, <2>2
<1>4. spec \in [1 .. n -> Kind]
  <2>1. spec = [d \in 1 .. n |-> spec[d]] BY DEF Normalized
  <2> HIDE DEF spec, Kind
  <2> QED BY <1>3, <2>1
<1>5. \A d \in 1 .. n : spec[d].start < spec[d].stop /\ spec[d].stop <= shape[d] BY <1>3
<1> HIDE DEF spec
<1>6. Bounded(shape, spec) BY <1>4, <1>5, Zenon DEF Bounded
<1> QED BY <1>6 DEF spec

\* No index smaller: not before.
LEMMA FlatMonotone ==
  ASSUME NEW shape \in Seq(Nat), Len(shape) \in 1 .. 3, NEW t \in Tuples(shape), NEW u \in Tuples(shape),
         \A d \in 1 .. Len(shape) : t[d] <= u[d]
  PROVE  flatIndex(t, shape) <= flatIndex(u, shape)
<1> DEFINE n == Len(shape)
<1>1. t \in [1 .. n -> Nat] /\ u \in [1 .. n -> Nat] /\ n \in Nat BY DEF Tuples
<1>2. flatIndex(t, shape) \in Nat /\ flatIndex(u, shape) \in Nat BY FlatRange
<1>3. ~Precedes(n, u, t)
  <2> SUFFICES ASSUME NEW d \in 1 .. n, u[d] < t[d] PROVE FALSE BY DEF Precedes
  <2>1. u[d] \in Nat /\ t[d] \in Nat /\ t[d] <= u[d] BY <1>1
  <2> QED BY <2>1
<1>4. CASE t = u BY <1>2, <1>4
<1>5. CASE t # u
  <2>1. Precedes(n, t, u) BY <1>1, <1>3, <1>5, PrecedesOrEqual
  <2>2. flatIndex(t, shape) < flatIndex(u, shape) BY <2>1, FlatOrder
  <2> QED BY <1>2, <2>2
<1> QED BY <1>4, <1>5

\* The first and the last element of a slice without steps.
FirstPlace(shape, spec) == flatIndex([d \in DOMAIN spec |-> spec[d].start], shape)
LastPlace(shape, spec) == flatIndex([d \in DOMAIN spec |-> spec[d].stop - 1], shape)

\* All elements of a slice without steps lie between its first and its last.
LEMMA BoxBounds ==
  ASSUME NEW shape, NEW spec, Bounded(shape, spec)
  PROVE  LET box == Named(shape, EveryStep(spec))
         IN  /\ FirstPlace(shape, spec) \in box /\ LastPlace(shape, spec) \in box
             /\ \A x \in box : FirstPlace(shape, spec) <= x /\ x <= LastPlace(shape, spec)
             /\ box \subseteq 0 .. Product(shape) - 1
<1> DEFINE n == Len(shape)
           lo == Starts(spec)
           W == Widths(spec)
           P(t) == Place(lo, Ones(n), t, shape)
           At(t) == [d \in 1 .. n |-> lo[d] + Ones(n)[d] * t[d]]
           zero == Naughts(n)
           top == [d \in 1 .. n |-> W[d] - 1]
<1>1. /\ n \in 1 .. 3 /\ n \in Nat \ {0} /\ Len(spec) = n /\ DOMAIN spec = 1 .. n /\ shape \in Seq(Nat)
      /\ \A d \in 1 .. n : /\ spec[d].start \in Nat /\ spec[d].stop \in Nat
                           /\ spec[d].start < spec[d].stop
  BY BoundedIs
<1>2. /\ Within(W, lo, Ones(n), shape) /\ Named(shape, EveryStep(spec)) = Places(W, lo, Ones(n), shape)
      /\ \A d \in 1 .. n : W[d] \in Nat \ {0} /\ lo[d] = spec[d].start
                           /\ W[d] = spec[d].stop - spec[d].start
  BY <1>1, BoxWithin DEF Starts, Widths, Width
<1>3. Len(W) = n BY <1>2 DEF Within
<1> HIDE DEF lo, W
<1>4. zero \in Tuples(W) /\ top \in Tuples(W)
  <2>1. \A d \in 1 .. n : 0 < W[d] /\ W[d] - 1 \in Nat /\ W[d] - 1 < W[d] BY <1>2
  <2> QED BY <1>3, <2>1 DEF Tuples, Naughts
<1>5. \A t \in Tuples(W) : /\ At(t) \in Tuples(shape) /\ P(t) = flatIndex(At(t), shape)
                           /\ P(t) \in 0 .. Product(shape) - 1
                           /\ \A d \in 1 .. n : At(t)[d] = lo[d] + t[d]
  <2> SUFFICES ASSUME NEW t \in Tuples(W)
               PROVE  /\ At(t) \in Tuples(shape) /\ P(t) = flatIndex(At(t), shape)
                      /\ P(t) \in 0 .. Product(shape) - 1
                      /\ \A d \in 1 .. n : At(t)[d] = lo[d] + t[d]
    OBVIOUS
  <2>1. At(t) \in Tuples(shape) /\ P(t) \in 0 .. Product(shape) - 1 BY <1>2, StepsOn
  <2>2. \A d \in 1 .. n : Ones(n)[d] * t[d] = t[d]
    <3>1. \A d \in 1 .. n : t[d] \in Nat /\ Ones(n)[d] = 1 BY <1>3 DEF Tuples, Ones
    <3> QED BY <3>1
  <2> QED BY <2>1, <2>2 DEF Place
<1>6. ASSUME NEW t \in Tuples(W) PROVE P(zero) <= P(t) /\ P(t) <= P(top)
  <2>1. \A d \in 1 .. n : /\ At(zero)[d] <= At(t)[d] /\ At(t)[d] <= At(top)[d]
    <3> SUFFICES ASSUME NEW d \in 1 .. n PROVE lo[d] + 0 <= lo[d] + t[d] /\ lo[d] + t[d] <= lo[d] + top[d]
      BY <1>4, <1>5 DEF Naughts
    <3>1. t[d] \in Nat /\ t[d] < W[d] /\ W[d] \in Nat /\ lo[d] \in Nat /\ top[d] = W[d] - 1
      BY <1>1, <1>2, <1>3 DEF Tuples
    <3> HIDE DEF top
    <3> QED BY <3>1
  <2>2. At(zero) \in Tuples(shape) /\ At(t) \in Tuples(shape) /\ At(top) \in Tuples(shape)
    BY <1>4, <1>5
  <2> HIDE DEF At, top, zero
  <2>3. flatIndex(At(zero), shape) <= flatIndex(At(t), shape) BY <1>1, <2>1, <2>2, FlatMonotone
  <2>4. flatIndex(At(t), shape) <= flatIndex(At(top), shape) BY <1>1, <2>1, <2>2, FlatMonotone
  <2> QED BY <1>4, <1>5, <2>3, <2>4 DEF P
<1>7. FirstPlace(shape, spec) = P(zero)
  <2>1. At(zero) = [d \in 1 .. n |-> At(zero)[d]] OBVIOUS
  <2>2. \A d \in 1 .. n : At(zero)[d] = spec[d].start
    <3> SUFFICES ASSUME NEW d \in 1 .. n PROVE At(zero)[d] = spec[d].start OBVIOUS
    <3>1. At(zero)[d] = lo[d] + 0 BY <1>4, <1>5 DEF Naughts
    <3>2. lo[d] \in Nat BY <1>1, <1>2
    <3> QED BY <1>2, <3>1, <3>2
  <2> HIDE DEF At, zero
  <2>3. At(zero) = [d \in 1 .. n |-> spec[d].start] BY <2>1, <2>2
  <2>4. P(zero) = flatIndex(At(zero), shape) BY <1>4, <1>5
  <2> QED BY <1>1, <2>3, <2>4 DEF FirstPlace
<1>8. LastPlace(shape, spec) = P(top)
  <2>1. At(top) = [d \in 1 .. n |-> At(top)[d]] OBVIOUS
  <2>2. \A d \in 1 .. n : At(top)[d] = spec[d].stop - 1
    <3> SUFFICES ASSUME NEW d \in 1 .. n PROVE At(top)[d] = spec[d].stop - 1 OBVIOUS
    <3> DEFINE a == spec[d].start
               b == spec[d].stop
    <3>1. At(top)[d] = lo[d] + top[d] BY <1>4, <1>5
    <3>2. lo[d] = a /\ top[d] = b - a - 1 /\ a \in Nat /\ b \in Nat BY <1>1, <1>2
    <3> HIDE DEF a, b, At, top
    <3>3. At(top)[d] = b - 1 BY <3>1, <3>2
    <3> QED BY <3>3 DEF b
  <2> HIDE DEF At, top
  <2>3. At(top) = [d \in 1 .. n |-> spec[d].stop - 1] BY <2>1, <2>2
  <2>4. P(top) = flatIndex(At(top), shape) BY <1>4, <1>5
  <2> QED BY <1>1, <2>3, <2>4 DEF LastPlace
<1>9. Places(W, lo, Ones(n), shape) = {P(t) : t \in Tuples(W)} BY DEF Places
<1> HIDE DEF P, zero, top
<1> DEFINE box == Named(shape, EveryStep(spec))
<1>10. box = {P(t) : t \in Tuples(W)} BY <1>2, <1>9
<1>11. \A x \in box : \E t \in Tuples(W) : x = P(t) BY <1>10
<1>12. P(zero) \in box /\ P(top) \in box BY <1>4, <1>10
<1> HIDE DEF box
<1>13. \A x \in box : P(zero) <= x /\ x <= P(top) BY <1>6, <1>11
<1>14. box \subseteq 0 .. Product(shape) - 1 BY <1>5, <1>11
<1> QED BY <1>7, <1>8, <1>12, <1>13, <1>14 DEF box

\* createBlockMap starts and ends with the first and the last element of the slice,
\* whichever of its three ways it takes to find them.
LEMMA SpanIs ==
  ASSUME NEW shape, NEW slices, Bounded(shape, Normalized(shape, slices)),
         slices \in Seq([start : Nat, stop : Nat, step : Nat \ {0}])
  PROVE  LET spec == Normalized(shape, slices)
         IN  /\ Span(shape, slices).first = FirstPlace(shape, spec)
             /\ Span(shape, slices).end = LastPlace(shape, spec) + 1
<1> DEFINE n == Len(shape)
           spec == Normalized(shape, slices)
           a(d) == spec[d].start
           b(d) == spec[d].stop
           A == [d \in 1 .. n |-> a(d)]
           B == [d \in 1 .. n |-> b(d) - 1]
           W == [d \in 1 .. n |-> Width(spec[d])]
<1> SUFFICES /\ Span(shape, slices).first = FirstPlace(shape, spec)
             /\ Span(shape, slices).end = LastPlace(shape, spec) + 1
  OBVIOUS
<1>0. Bounded(shape, spec) OBVIOUS
<1>1. /\ n \in 1 .. 3 /\ Len(spec) = n /\ DOMAIN spec = 1 .. n /\ shape \in Seq(Nat)
      /\ DOMAIN shape = 1 .. n
      /\ \A d \in 1 .. n : /\ a(d) \in Nat /\ b(d) \in Nat /\ a(d) < b(d)
                           /\ b(d) <= shape[d] /\ shape[d] \in Nat
  <2> HIDE DEF spec
  <2> QED BY <1>0, BoundedIs
<1> HIDE DEF a, b
<1>2. FirstPlace(shape, spec) = flatIndex(A, shape) /\ LastPlace(shape, spec) = flatIndex(B, shape)
  <2> HIDE DEF spec
  <2> QED BY <1>1 DEF FirstPlace, LastPlace, a, b
<1>3. W = [d \in 1 .. n |-> b(d) - a(d)] BY DEF a, b, Width
<1>4. \A d \in 1 .. n : b(d) - 1 \in Nat /\ b(d) - a(d) \in Nat BY <1>1
<1>5. A \in [1 .. n -> Nat] /\ B \in [1 .. n -> Nat] BY <1>1, <1>4
<1>6. W \in Seq(Nat) /\ Len(W) = n /\ \A d \in 1 .. n : W[d] = b(d) - a(d)
  <2>1. W \in [1 .. n -> Nat] /\ \A d \in 1 .. n : W[d] = b(d) - a(d) BY <1>3, <1>4
  <2>2. n \in Nat BY <1>1
  <2> HIDE DEF W
  <2> QED BY <2>1, <2>2, FunctionIsSeq
<1> DEFINE con == is_contiguous(shape, spec) /\ spec[1].start = 0
<1>7. CASE con
  <2>1. Span(shape, slices) = [first |-> 0, end |-> Product([d \in DOMAIN spec |-> Width(spec[d])])]
    BY <1>7 DEF Span
  <2>2. Span(shape, slices).first = 0 /\ Span(shape, slices).end = Product(W)
    <3>1. [d \in DOMAIN spec |-> Width(spec[d])] = W
      <4> HIDE DEF spec
      <4> QED BY <1>1
    <3> HIDE DEF spec, W
    <3> QED BY <2>1, <3>1
  <2>3. a(1) = 0 BY <1>7 DEF a
  <2>4. \A d \in 2 .. n : a(d) = 0 /\ b(d) = shape[d]
    <3> HIDE DEF spec
    <3> QED BY <1>7 DEF a, b, is_contiguous
  <2> HIDE DEF con, spec
  <2>5. CASE n = 1
    <3>1. A[1] = 0 /\ B[1] = b(1) - 1 /\ W[1] = b(1) - a(1) BY <1>6, <2>3, <2>5
    <3>2. flatIndex(A, shape) = A[1] /\ flatIndex(B, shape) = B[1] BY <1>1, <1>5, <2>5, FlatIndexIs
    <3>3. Product(W) = W[1] BY <1>6, <2>5, ProductIs
    <3>4. b(1) \in Nat BY <1>1, <2>5
    <3>5. W[1] = B[1] + 1
      <4> HIDE DEF W, B, n
      <4> QED BY <2>3, <3>1, <3>4
    <3> QED BY <1>2, <2>2, <3>1, <3>2, <3>3, <3>5
  <2>6. CASE n = 2
    <3> DEFINE x == b(1)
               y == shape[2]
    <3>1. /\ A[1] = 0 /\ A[2] = 0 /\ B[1] = x - 1 /\ B[2] = y - 1
          /\ W[1] = x - 0 /\ W[2] = y - 0
      BY <1>6, <2>3, <2>4, <2>6
    <3>2. x \in Nat \ {0} /\ y \in Nat \ {0}
      <4>1. a(1) < b(1) /\ a(2) < b(2) /\ b(1) \in Nat /\ b(2) \in Nat BY <1>1, <2>6
      <4>2. a(1) = 0 /\ a(2) = 0 /\ b(2) = shape[2] BY <2>3, <2>4, <2>6
      <4> QED BY <4>1, <4>2
    <3>3. flatIndex(A, shape) = A[1] * y + A[2] /\ flatIndex(B, shape) = B[1] * y + B[2]
      BY <1>1, <1>5, <2>6, FlatIndexIs
    <3>4. Product(W) = W[1] * W[2] BY <1>6, <2>6, ProductIs
    <3> HIDE DEF x, y, A, B, W
    <3>5. flatIndex(A, shape) = 0 * y + 0 /\ flatIndex(B, shape) = (x - 1) * y + (y - 1)
      BY <3>1, <3>3
    <3>6. Product(W) = x * y BY <3>1, <3>2, <3>4
    <3>7. 0 * y + 0 = 0 BY <3>2
    <3>8. (x - 1) * y = x * y - y BY <3>2
    <3>9. x * y \in Nat BY <3>2, ProductOfTwo
    <3>10. x * y - y + (y - 1) + 1 = x * y
      <4> DEFINE p == x * y
      <4>1. p \in Nat BY <3>9
      <4> HIDE DEF p
      <4>2. p - y + (y - 1) + 1 = p BY <3>2, <4>1
      <4> QED BY <4>2 DEF p
    <3> QED BY <1>2, <2>2, <3>5, <3>6, <3>7, <3>8, <3>10
  <2>7. CASE n = 3
    <3> DEFINE x == b(1)
               y == shape[2]
               z == shape[3]
    <3>1. /\ A[1] = 0 /\ A[2] = 0 /\ A[3] = 0 /\ B[1] = x - 1 /\ B[2] = y - 1 /\ B[3] = z - 1
          /\ W[1] = x - 0 /\ W[2] = y - 0 /\ W[3] = z - 0
      BY <1>6, <2>3, <2>4, <2>7
    <3>2. x \in Nat \ {0} /\ y \in Nat \ {0} /\ z \in Nat \ {0}
      <4>1. a(1) < b(1) /\ a(2) < b(2) /\ a(3) < b(3) /\ b(1) \in Nat /\ b(2) \in Nat /\ b(3) \in Nat
        BY <1>1, <2>7
      <4>2. a(1) = 0 /\ a(2) = 0 /\ b(2) = shape[2] /\ a(3) = 0 /\ b(3) = shape[3]
        BY <2>3, <2>4, <2>7
      <4> QED BY <4>1, <4>2
    <3>3. /\ flatIndex(A, shape) = (A[1] * y + A[2]) * z + A[3]
          /\ flatIndex(B, shape) = (B[1] * y + B[2]) * z + B[3]
      BY <1>1, <1>5, <2>7, FlatIndexIs
    <3>4. Product(W) = W[1] * W[2] * W[3] BY <1>6, <2>7, ProductIs
    <3> HIDE DEF x, y, z, A, B, W
    <3>5. /\ flatIndex(A, shape) = (0 * y + 0) * z + 0
          /\ flatIndex(B, shape) = ((x - 1) * y + (y - 1)) * z + (z - 1)
      BY <3>1, <3>3
    <3>6. Product(W) = x * y * z BY <3>1, <3>2, <3>4
    <3>7. (0 * y + 0) * z + 0 = 0 BY <3>2
    <3>8. (x - 1) * y + (y - 1) = x * y - 1
      <4>1. (x - 1) * y = x * y - y BY <3>2
      <4> DEFINE p == x * y
      <4>2. p \in Nat BY <3>2, ProductOfTwo
      <4> HIDE DEF p
      <4>3. p - y + (y - 1) = p - 1 BY <3>2, <4>2
      <4> QED BY <4>1, <4>3 DEF p
    <3> DEFINE p == x * y
    <3>9. p \in Nat BY <3>2, ProductOfTwo
    <3>10. flatIndex(B, shape) = (p - 1) * z + (z - 1) BY <3>5, <3>8
    <3>11. Product(W) = p * z BY <3>6
    <3> HIDE DEF p
    <3>12. (p - 1) * z = p * z - z BY <3>2, <3>9
    <3> DEFINE q == p * z
    <3>13. q \in Nat BY <3>2, <3>9, ProductOfTwo
    <3>14. flatIndex(B, shape) = q - z + (z - 1) /\ Product(W) = q BY <3>10, <3>11, <3>12
    <3> HIDE DEF q
    <3>15. q - z + (z - 1) + 1 = q BY <3>2, <3>13
    <3> QED BY <1>2, <2>2, <3>5, <3>7, <3>14, <3>15
  <2>8. n = 1 \/ n = 2 \/ n = 3 BY <1>1, SMTT(30)
  <2> QED BY <2>5, <2>6, <2>7, <2>8
<1>8. CASE ~con /\ is_full_rows(shape, slices)
  <2>1. Span(shape, slices) = [first |-> spec[1].start * shape[2], end |-> spec[1].stop * shape[2]]
    BY <1>8 DEF Span
  <2>2. n = 2 /\ spec[2] = slice_all(shape[2])
    <3>1. n = 2 /\ Len(slices) >= 2 /\ slices[2] = slice_all(shape[2]) BY <1>8 DEF is_full_rows
    <3>2. 2 \in DOMAIN slices
      <4> DEFINE K == [start : Nat, stop : Nat, step : Nat \ {0}]
      <4>1. slices \in Seq(K) OBVIOUS
      <4> HIDE DEF K
      <4>2. DOMAIN slices = 1 .. Len(slices) /\ Len(slices) \in Nat BY <4>1
      <4> QED BY <3>1, <4>2
    <3>3. 2 \in DOMAIN shape BY <1>1, <3>1
    <3> QED BY <3>1, <3>2, <3>3 DEF Normalized
  <2> DEFINE x == b(1)
             y == shape[2]
             w == a(1)
  <2>3. Span(shape, slices).first = w * y /\ Span(shape, slices).end = x * y BY <2>1 DEF a, b
  <2>4. a(2) = 0 /\ b(2) = y BY <2>2 DEF a, b, slice_all, Slice
  <2>5. /\ A[1] = w /\ A[2] = 0 /\ B[1] = x - 1 /\ B[2] = y - 1 BY <2>2, <2>4
  <2>6. x \in Nat \ {0} /\ y \in Nat \ {0} /\ w \in Nat
    <3>1. a(1) < b(1) /\ a(2) < b(2) /\ b(1) \in Nat /\ b(2) \in Nat /\ a(1) \in Nat BY <1>1, <2>2
    <3> HIDE DEF spec, con
    <3> QED BY <2>4, <3>1
  <2>7. flatIndex(A, shape) = A[1] * y + A[2] /\ flatIndex(B, shape) = B[1] * y + B[2]
    BY <1>1, <1>5, <2>2, FlatIndexIs
  <2> HIDE DEF x, y, w, A, B, W, con, spec
  <2>8. flatIndex(A, shape) = w * y + 0 /\ flatIndex(B, shape) = (x - 1) * y + (y - 1)
    BY <2>5, <2>7
  <2> DEFINE p == x * y
             q == w * y
  <2>9. p \in Nat /\ q \in Nat BY <2>6, ProductOfTwo
  <2>10. (x - 1) * y = p - y BY <2>6
  <2>11. flatIndex(A, shape) = q + 0 /\ flatIndex(B, shape) = p - y + (y - 1) BY <2>8, <2>10
  <2>12. Span(shape, slices).first = q /\ Span(shape, slices).end = p BY <2>3
  <2> HIDE DEF p, q
  <2>13. q + 0 = q /\ p - y + (y - 1) + 1 = p BY <2>6, <2>9
  <2> QED BY <1>2, <2>11, <2>12, <2>13
<1>9. CASE ~con /\ ~is_full_rows(shape, slices)
  <2>1. Span(shape, slices) =
          [first |-> flatIndex([d \in DOMAIN spec |-> spec[d].start], shape),
           end   |-> flatIndex([d \in DOMAIN spec |-> spec[d].stop - 1], shape) + 1]
    BY <1>9 DEF Span
  <2> HIDE DEF spec, con
  <2> QED BY <2>1 DEF FirstPlace, LastPlace
<1> QED BY <1>7, <1>8, <1>9
--------------------------------------------------------------------------------
(* Blocks, and the bytes of consecutive blocks.                            *)

\* Pieces of one size, one after the other.
Pieced(E, c, seqs) ==
  /\ c \in Nat /\ c # 0 /\ seqs \in Seq(Seq(E))
  /\ \A k \in DOMAIN seqs : Len(seqs[k]) = c

Joined(E, c, seqs, s) ==
  /\ s \in Seq(E) /\ Len(s) = Len(seqs) * c
  /\ \A k \in 1 .. Len(seqs), j \in 1 .. c : s[(k - 1) * c + j] = seqs[k][j]

\* FlattenSeq joins pieces of one size.
LEMMA EqualPieces ==
  ASSUME NEW E, NEW c, NEW seqs, Pieced(E, c, seqs)
  PROVE  Joined(E, c, seqs, FlattenSeq(seqs))
<1> USE DEF Pieced
<1> DEFINE n == Len(seqs)
<1>1. n \in Nat /\ DOMAIN seqs = 1 .. n OBVIOUS
<1>2. Chunked(E, seqs, c) BY DEF Chunked
<1>3. IsCut(E, FlattenSeq(seqs), seqs, c) BY <1>2, FlattenIsCut
<1>4. FlattenSeq(seqs) \in Seq(E) BY <1>3 DEF IsCut
<1>5. \A k \in 1 .. n, j \in 1 .. c : FlattenSeq(seqs)[(k - 1) * c + j] = seqs[k][j]
  BY <1>1, <1>3 DEF IsCut, Before
<1>6. Len(FlattenSeq(seqs)) = n * c
  <2>1. CASE n = 0
    <3>1. seqs = <<>> BY <2>1
    <3>2. Len(FlattenSeq(seqs)) = 0 BY <1>3, <3>1 DEF IsCut
    <3> QED BY <2>1, <3>2
  <2>2. CASE n # 0
    <3>1. seqs # <<>> /\ n \in DOMAIN seqs BY <1>1, <2>2
    <3>2. Len(FlattenSeq(seqs)) = (n - 1) * c + c BY <1>3, <3>1 DEF IsCut, Before
    <3>3. (n - 1) * c + c = n * c BY <1>1
    <3> QED BY <3>2, <3>3
  <2> QED BY <2>1, <2>2
<1> QED BY <1>4, <1>5, <1>6 DEF Joined

\* Blocks are cut at multiples of the length of the first.
LEMMA CutByFirst ==
  ASSUME NEW E, NEW bs \in Nat \ {0}, NEW buf, NEW chunks, IsCut(E, buf, chunks, bs), chunks # <<>>
  PROVE  /\ Len(chunks[1]) \in Nat \ {0}
         /\ IsCut(E, buf, chunks, Len(chunks[1]))
         /\ chunks = compressBlocks(buf, Len(chunks[1]))
<1> DEFINE n == Len(chunks)
           w == Len(chunks[1])
<1>1. /\ chunks \in Seq(Seq(E))
      /\ \A i \in DOMAIN chunks : Len(chunks[i]) \in 1 .. bs /\ (i < Len(chunks) => Len(chunks[i]) = bs)
  BY DEF IsCut, Chunked
<1>2. n \in Nat /\ DOMAIN chunks = 1 .. n /\ n # 0 /\ 1 \in 1 .. n BY <1>1
<1>3. w \in Nat \ {0} BY <1>1, <1>2
<1>4. IsCut(E, buf, chunks, w)
  <2>1. CASE n > 1
    <3>1. w = bs BY <1>1, <1>2, <2>1
    <3> QED BY <3>1
  <2>2. CASE n = 1
    <3>1. buf \in Seq(E) /\ Len(buf) = Before(1, bs) + w BY <1>2, <2>2 DEF IsCut
    <3>2. Before(1, bs) = 0 /\ Before(1, w) = 0 BY <1>3, BeforeFacts
    <3>3. \A i \in DOMAIN chunks : i = 1 BY <1>2, <2>2
    <3>4. \A j \in 1 .. Len(chunks[1]) : buf[Before(1, bs) + j] = chunks[1][j] BY <1>2 DEF IsCut
    <3>5. Chunked(E, chunks, w) BY <1>1, <1>3, <3>3, <2>2 DEF Chunked
    <3>6. Len(buf) = Before(1, w) + w BY <3>1, <3>2
    <3>7. \A j \in 1 .. Len(chunks[1]) : buf[Before(1, w) + j] = chunks[1][j] BY <3>2, <3>4
    <3>8. Before(1, w) + Len(chunks[1]) <= Len(buf) BY <3>6, <1>3, <3>2
    <3>9. Len(buf) = IF chunks = <<>> THEN 0
                ELSE Before(Len(chunks), w) + Len(chunks[Len(chunks)]) BY <3>6, <2>2
    <3>10. \A i \in DOMAIN chunks :
       /\ Before(i, w) + Len(chunks[i]) <= Len(buf)
       /\ \A j \in 1 .. Len(chunks[i]) : buf[Before(i, w) + j] = chunks[i][j]
      BY <3>3, <3>7, <3>8
    <3> QED BY <3>1, <3>5, <3>9, <3>10 DEF IsCut
  <2> QED BY <2>1, <2>2, <1>2
<1>5. buf \in Seq(E) BY DEF IsCut
<1> HIDE DEF w
<1>6. IsCut(E, buf, compressBlocks(buf, w), w) BY <1>3, <1>5, CompressIsCut
<1>7. chunks = compressBlocks(buf, w) BY <1>3, <1>4, <1>6, OneCut
<1> QED BY <1>3, <1>4, <1>7 DEF w

\* A block as get_slice sees it after it is decompressed.
Unshuffled(codec, block, elem) ==
  IF uses_block_shuffle(codec) THEN OnWholeElements(byte_unshuffle, block, elem) ELSE block

\* The blocks of a buffer that was shuffled block by block are shuffled blocks.
LEMMA BlocksOfShuffled ==
  ASSUME NEW E, NEW bs \in Nat \ {0}, NEW elem_size \in Nat \ {0}, NEW buf \in Seq(E),
         NEW blocks, blocks = compressBlocks(byte_shuffle_blocked(buf, elem_size, bs), bs)
  PROVE  blocks = [i \in DOMAIN compressBlocks(buf, bs) |->
                     OnWholeElements(byte_shuffle, compressBlocks(buf, bs)[i], elem_size)]
<1> DEFINE chunks   == compressBlocks(buf, bs)
           shuffled == [i \in DOMAIN chunks |->
                          OnWholeElements(byte_shuffle, chunks[i], elem_size)]
<1>1. /\ Chunked(E, chunks, bs) /\ Chunked(E, shuffled, bs)
      /\ DOMAIN shuffled = DOMAIN chunks
      /\ \A i \in DOMAIN chunks : chunks[i] \in Seq(E)
      /\ blocks = shuffled
  BY BlocksAreShuffledChunks
<1> QED BY <1>1

\* An array of numbers that get_slice takes, on its way to the file.
StoredAs(E, codec, elem, bs, put, blocks) ==
  /\ codec \in Codecs /\ ~uses_global_shuffle(codec) /\ elem \in Nat \ {0} /\ bs \in Nat \ {0}
  /\ put \in Seq(E) /\ blocks # <<>>
  /\ blocks = compressBlocks(serialize_array_data(put, codec, elem, bs), bs)

\* Every block, unshuffled, is a part of what was put.
BlocksAre(codec, elem, put, w, blocks) ==
  \A i \in 1 .. Len(blocks) :
    Unshuffled(codec, blocks[i], elem) = SubSeq(put, (i - 1) * w + 1, Min({i * w, Len(put)}))

\* A stored block on its own gives back its part of what was put.
LEMMA StoredBlocks ==
  ASSUME NEW E, NEW codec, NEW elem, NEW bs, NEW put, NEW blocks,
         StoredAs(E, codec, elem, bs, put, blocks)
  PROVE  LET w == WrittenBlockSize(blocks)
         IN  /\ w \in Nat \ {0}
             /\ Len(blocks) = NumBlocks(Len(put), w)
             /\ \A i \in 1 .. Len(blocks) : Unshuffled(codec, blocks[i], elem) \in Seq(E)
             /\ BlocksAre(codec, elem, put, w, blocks)
<1> USE DEF StoredAs
<1> DEFINE chunks == compressBlocks(put, bs)
           w == WrittenBlockSize(blocks)
<1>1. IsCut(E, put, chunks, bs) BY CompressIsCut
<1>2. chunks \in Seq(Seq(E)) BY <1>1 DEF IsCut, Chunked
<1>3. /\ DOMAIN blocks = DOMAIN chunks
      /\ \A i \in DOMAIN chunks : /\ Len(blocks[i]) = Len(chunks[i])
                                  /\ Unshuffled(codec, blocks[i], elem) = chunks[i]
  <2>1. CASE codec = "block"
    <3> DEFINE shuffled == [i \in DOMAIN chunks |-> OnWholeElements(byte_shuffle, chunks[i], elem)]
    <3>1. serialize_array_data(put, codec, elem, bs) = byte_shuffle_blocked(put, elem, bs)
      BY <2>1 DEF serialize_array_data, uses_block_shuffle
    <3>0. blocks = compressBlocks(byte_shuffle_blocked(put, elem, bs), bs) BY <3>1
    <3>2. /\ DOMAIN shuffled = DOMAIN chunks
          /\ \A i \in DOMAIN chunks : chunks[i] \in Seq(E) /\ Len(shuffled[i]) = Len(chunks[i])
          /\ blocks = shuffled
      <4>1. DOMAIN shuffled = DOMAIN chunks OBVIOUS
      <4>2. \A i \in DOMAIN chunks : chunks[i] \in Seq(E) BY BlocksAreShuffledChunks
      <4>3. \A i \in DOMAIN chunks : Len(shuffled[i]) = Len(chunks[i])
        BY <4>2, WholeElementsKeepLength
      <4>4. blocks = shuffled BY <3>0, BlocksOfShuffled
      <4> QED BY <4>1, <4>2, <4>3, <4>4
    <3>3. blocks = shuffled BY <3>2
    <3>4. \A i \in DOMAIN chunks : Unshuffled(codec, blocks[i], elem) = chunks[i]
      <4> SUFFICES ASSUME NEW i \in DOMAIN chunks
                   PROVE Unshuffled(codec, blocks[i], elem) = chunks[i] OBVIOUS
      <4>1. chunks[i] \in Seq(E) BY <3>2
      <4>2. blocks[i] = OnWholeElements(byte_shuffle, chunks[i], elem) BY <3>3
      <4> HIDE DEF chunks
      <4>3. OnWholeElements(byte_unshuffle, OnWholeElements(byte_shuffle, chunks[i], elem), elem)
              = chunks[i] BY <4>1, BlockIsSelfContained
      <4> QED BY <4>2, <4>3, <2>1 DEF Unshuffled, uses_block_shuffle
    <3> QED BY <3>2, <3>3, <3>4
  <2>2. CASE codec = "plain"
    <3>1. serialize_array_data(put, codec, elem, bs) = put
      BY <2>2 DEF serialize_array_data, uses_block_shuffle, uses_global_shuffle
    <3>2. blocks = chunks BY <3>1
    <3> QED BY <3>2, <2>2 DEF Unshuffled, uses_block_shuffle
  <2> QED BY <2>1, <2>2 DEF Codecs, uses_global_shuffle
<1>4. DOMAIN chunks = 1 .. Len(chunks) /\ Len(chunks) \in Nat BY <1>2
<1>5. chunks # <<>>
  <2>1. blocks = [i \in DOMAIN blocks |-> blocks[i]]
    BY DEF compressBlocks
  <2>2. CASE chunks = <<>>
    <3>1. DOMAIN blocks = {} BY <2>2, <1>3
    <3>2. blocks = <<>> BY <2>1, <3>1
    <3> QED BY <3>2
  <2> QED BY <2>2
<1>6. 1 \in DOMAIN chunks BY <1>2, <1>4, <1>5
<1>7. w = Len(chunks[1]) BY <1>3, <1>6 DEF WrittenBlockSize
<1> HIDE DEF chunks
<1>8. w \in Nat \ {0} /\ chunks = compressBlocks(put, w) BY <1>1, <1>5, <1>7, CutByFirst
<1>9. Len(blocks) = Len(chunks)
  <2>1. blocks = [i \in DOMAIN chunks |-> blocks[i]]
    <3>1. blocks = [i \in DOMAIN blocks |-> blocks[i]] BY DEF compressBlocks
    <3> QED BY <3>1, <1>3
  <2>2. blocks = [i \in 1 .. Len(chunks) |-> blocks[i]] BY <2>1, <1>4, Zenon
  <2> QED BY <2>2, <1>4
<1> HIDE DEF w
<1>10. Len(chunks) = NumBlocks(Len(put), w)
  <2> DEFINE m == NumBlocks(Len(put), w)
             g == [i \in 1 .. m |-> SubSeq(put, (i - 1) * w + 1, Min({i * w, Len(put)}))]
  <2>1. chunks = g BY <1>8 DEF compressBlocks
  <2>2. m \in Nat
    <3>1. Len(put) + w - 1 \in Nat BY <1>8
    <3> QED BY <3>1, <1>8, DivModIs DEF NumBlocks
  <2> HIDE DEF m
  <2>3. Len(g) = m BY <2>2
  <2> QED BY <2>1, <2>3 DEF m
<1>11. \A i \in 1 .. Len(chunks) : chunks[i] = SubSeq(put, (i - 1) * w + 1, Min({i * w, Len(put)}))
  BY <1>8, <1>10 DEF compressBlocks
<1>12. \A i \in 1 .. Len(chunks) : chunks[i] \in Seq(E) BY <1>2
<1>13. \A i \in 1 .. Len(blocks) :
         /\ Unshuffled(codec, blocks[i], elem) \in Seq(E)
         /\ Unshuffled(codec, blocks[i], elem) = SubSeq(put, (i - 1) * w + 1, Min({i * w, Len(put)}))
  BY <1>3, <1>4, <1>9, <1>11, <1>12
<1>14. BlocksAre(codec, elem, put, w, blocks) BY <1>13 DEF BlocksAre
<1> QED BY <1>8, <1>9, <1>10, <1>13, <1>14 DEF w

\* A buffer has the blocks that begin before its end.
LEMMA BlockCount ==
  ASSUME NEW len \in Nat, NEW w \in Nat \ {0}
  PROVE  /\ NumBlocks(len, w) \in Nat
         /\ \A i \in Nat : i < NumBlocks(len, w) <=> i * w < len
<1> DEFINE x == len + w - 1
<1>1. x \in Nat OBVIOUS
<1>2. x \div w \in Nat BY <1>1, DivModIs
<1>3. ASSUME NEW i \in Nat PROVE i < x \div w <=> i * w < len
  <2> DEFINE j == i + 1
             p == i * w
  <2>1. j \in Nat /\ p \in Nat BY ProductOfTwo
  <2>2. j * w = p + w OBVIOUS
  <2>3. j <= x \div w <=> j * w <= x
    <3> HIDE DEF x, j
    <3> QED BY <1>1, <2>1, DivBound
  <2>4. j <= x \div w <=> i < x \div w
    <3> HIDE DEF x
    <3> QED BY <1>2
  <2>5. p + w <= x <=> p < len
    <3> HIDE DEF p
    <3> QED BY <2>1
  <2> QED BY <2>2, <2>3, <2>4, <2>5, Zenon
<1> QED BY <1>2, <1>3 DEF NumBlocks

\* Consecutive blocks, one after the other: block i lies between begin[i] and stop[i + 1].
Stops(begin, stop, f, m, len) ==
  /\ \A i \in Nat : /\ begin[i] <= begin[i + 1]
                    /\ stop[i] = IF begin[i] <= len THEN begin[i] ELSE len
  /\ \A i \in f .. f + m - 1 : begin[i] < len

\* Block k of those read is the part of the buffer that it was cut from.
PiecesAt(put, begin, stop, f, m, plain) ==
  \A k \in 1 .. m : plain[k] = SubSeq(put, begin[f + k - 1] + 1, stop[f + k])

\* Blocks of a buffer, with the bounds that they were cut at.
Pieces(E, put, begin, stop, f, m, plain) ==
  /\ put \in Seq(E) /\ begin \in [Nat -> Nat] /\ stop \in [Nat -> Nat]
  /\ f \in Nat /\ m \in Nat /\ m # 0 /\ Stops(begin, stop, f, m, Len(put))
  /\ plain \in Seq(Seq(E)) /\ Len(plain) = m /\ PiecesAt(put, begin, stop, f, m, plain)

\* Consecutive blocks, one after the other, are one part of the buffer.
LEMMA PiecesJoin ==
  ASSUME NEW E, NEW put, NEW begin, NEW stop, NEW f, NEW m, NEW plain,
         Pieces(E, put, begin, stop, f, m, plain)
  PROVE  FlattenSeq(plain) = SubSeq(put, begin[f] + 1, stop[f + m])
<1> USE DEF Pieces
<1> DEFINE cut == [k \in 0 .. m |-> IF k = 0 THEN begin[f] ELSE stop[f + k]]
<1>0. \A k \in 0 .. m : f + k \in Nat OBVIOUS
<1>1. cut \in [0 .. m -> Nat]
  <2>1. \A k \in 0 .. m : (IF k = 0 THEN begin[f] ELSE stop[f + k]) \in Nat BY <1>0, Zenon
  <2> QED BY <2>1, Zenon
<1>2. ASSUME NEW k \in 1 .. m
      PROVE  cut[k - 1] = begin[f + k - 1] /\ cut[k] = stop[f + k]
             /\ f + k - 1 \in f .. f + m - 1 /\ f + k - 1 \in Nat /\ f + k = (f + k - 1) + 1
  <2>1. k - 1 \in 0 .. m /\ k \in 0 .. m /\ k # 0 OBVIOUS
  <2>2. cut[k] = stop[f + k] BY <2>1
  <2>3. f + k - 1 \in f .. f + m - 1 /\ f + k - 1 \in Nat /\ f + k = (f + k - 1) + 1 OBVIOUS
  <2>4. cut[k - 1] = begin[f + k - 1]
    <3>1. CASE k = 1
      <4>1. f + k - 1 = f BY <3>1
      <4> QED BY <2>1, <3>1, <4>1
    <3>2. CASE k # 1
      <4>1. k - 1 # 0 /\ f + (k - 1) = f + k - 1 BY <3>2
      <4>2. cut[k - 1] = stop[f + k - 1] BY <2>1, <4>1
      <4>3. stop[f + k - 1] = begin[f + k - 1]
        <5> DEFINE i == f + k - 1
        <5>1. i \in Nat /\ begin[i] < Len(put) BY <2>3 DEF Stops
        <5> HIDE DEF i
        <5>2. begin[i] \in Nat /\ begin[i] <= Len(put) BY <5>1
        <5>3. stop[i] = begin[i] BY <5>1, <5>2 DEF Stops
        <5> QED BY <5>3 DEF i
      <4> QED BY <4>2, <4>3
    <3> QED BY <3>1, <3>2
  <2> QED BY <2>2, <2>3, <2>4
<1> HIDE DEF cut
<1>3. ASSUME NEW k \in 1 .. m
      PROVE  cut[k - 1] <= cut[k] /\ cut[k] <= Len(put) /\ plain[k] = SubSeq(put, cut[k - 1] + 1, cut[k])
  <2> DEFINE i == f + k - 1
             len == Len(put)
             x == begin[i]
             y == begin[i + 1]
             z == stop[i + 1]
  <2>1. i \in Nat /\ i + 1 = f + k /\ cut[k - 1] = x /\ cut[k] = stop[f + k] /\ i \in f .. f + m - 1
    BY <1>2
  <2>2. cut[k] = z BY <2>1
  <2>3. plain[k] = SubSeq(put, cut[k - 1] + 1, cut[k]) BY <2>1 DEF PiecesAt
  <2>4. x < len BY <2>1 DEF Stops
  <2> HIDE DEF i
  <2>5. x \in Nat /\ y \in Nat /\ x <= y /\ z = IF y <= len THEN y ELSE len
    <3>1. i + 1 \in Nat BY <2>1
    <3>2. x \in Nat /\ y \in Nat BY <2>1, <3>1, Zenon
    <3>3. x <= y BY <2>1, Zenon DEF Stops
    <3>4. z = IF y <= len THEN y ELSE len BY <3>1, Zenon DEF Stops
    <3> QED BY <3>2, <3>3, <3>4
  <2>6. len \in Nat OBVIOUS
  <2> HIDE DEF x, y, z, len
  <2>7. x <= z /\ z <= len BY <2>4, <2>5, <2>6
  <2> QED BY <2>1, <2>2, <2>3, <2>7 DEF len
<1>4. FlattenSeq(plain) = SubSeq(put, cut[0] + 1, cut[m])
  <2>1. m \in Nat OBVIOUS
  <2>2. \A k \in 1 .. m : /\ cut[k - 1] <= cut[k] /\ cut[k] <= Len(put)
                          /\ plain[k] = SubSeq(put, cut[k - 1] + 1, cut[k])
    BY <1>3, Zenon
  <2>3. CutOut(E, put, m, cut, plain) BY <2>1, <2>2, <1>1 DEF CutOut
  <2> QED BY <2>3, FlattenCuts
<1>5. cut[0] = begin[f] /\ cut[m] = stop[f + m] BY DEF cut
<1> QED BY <1>4, <1>5

\* Consecutive blocks of one size, from block f on.
BlocksFrom(put, w, f, plain) ==
  \A k \in 1 .. Len(plain) :
    plain[k] = SubSeq(put, (f + k - 1) * w + 1, Min({(f + k) * w, Len(put)}))

\* The bytes of the blocks f .. g.
BytesFrom(put, w, f, g, bytes) == bytes = SubSeq(put, f * w + 1, Min({(g + 1) * w, Len(put)}))

\* The blocks f .. g, one after the other, are the bytes between their bounds.
LEMMA ReadBytes ==
  ASSUME NEW E, NEW put \in Seq(E), NEW w \in Nat, w # 0, NEW f \in Nat, NEW g \in Nat, f <= g,
         g < NumBlocks(Len(put), w), NEW plain \in Seq(Seq(E)), Len(plain) = g - f + 1,
         BlocksFrom(put, w, f, plain)
  PROVE  BytesFrom(put, w, f, g, FlattenSeq(plain))
<1> SUFFICES FlattenSeq(plain) = SubSeq(put, f * w + 1, Min({(g + 1) * w, Len(put)}))
  BY DEF BytesFrom
<1> DEFINE b == [i \in Nat |-> i * w]
           len == Len(put)
<1>1. \A i \in Nat : b[i] = i * w /\ b[i] \in Nat BY ProductOfTwo
<1>2. b \in [Nat -> Nat]
  <2>1. \A i \in Nat : i * w \in Nat BY ProductOfTwo
  <2> QED BY <2>1, Zenon
<1>3. \A i \in Nat : b[i] <= b[i + 1]
  <2> SUFFICES ASSUME NEW i \in Nat PROVE b[i] <= b[i + 1] OBVIOUS
  <2>1. b[i + 1] = b[i] + w OBVIOUS
  <2>2. b[i] \in Nat BY <1>1
  <2> HIDE DEF b
  <2> QED BY <2>1, <2>2
<1>4. \A i \in f .. g : b[i] < len
  <2> SUFFICES ASSUME NEW i \in f .. g PROVE b[i] < len OBVIOUS
  <2>1. i \in Nat /\ i < NumBlocks(len, w)
    <3>1. NumBlocks(len, w) \in Nat BY BlockCount
    <3>2. g < NumBlocks(len, w) OBVIOUS
    <3> HIDE DEF len
    <3> QED BY <3>1, <3>2
  <2>2. i * w < len BY <2>1, BlockCount
  <2> QED BY <2>1, <2>2, <1>1, Zenon
<1> DEFINE stop == [i \in Nat |-> Min({b[i], len})]
           m == g - f + 1
<1>5. len \in Nat /\ m \in Nat /\ m # 0 /\ f + m = g + 1 /\ f + m - 1 = g /\ Len(plain) = m OBVIOUS
<1>6. ASSUME NEW i \in Nat
      PROVE  Min({b[i], len}) = IF b[i] <= len THEN b[i] ELSE len
  <2>1. b[i] \in Nat BY <1>1
  <2> HIDE DEF b, len
  <2> DEFINE x == b[i]
  <2> HIDE DEF m, stop, x, len
  <2>3. x \in Int /\ len \in Int BY <2>1, <1>5 DEF x
  <2>4. Min({x, len}) = IF x <= len THEN x ELSE len BY <2>3, MinOfTwo
  <2> QED BY <2>4 DEF x
<1>7. \A i \in Nat : Min({b[i], len}) \in Nat
  <2> SUFFICES ASSUME NEW i \in Nat PROVE Min({b[i], len}) \in Nat OBVIOUS
  <2>1. b[i] \in Nat BY <1>1
  <2>2. Min({b[i], len}) = IF b[i] <= len THEN b[i] ELSE len BY <1>6
  <2> HIDE DEF b, len
  <2> QED BY <2>1, <2>2, <1>5
<1>8. stop \in [Nat -> Nat] BY <1>7, Zenon
<1>9. \A i \in Nat : stop[i] = IF b[i] <= len THEN b[i] ELSE len BY <1>6, Zenon
<1>10. ASSUME NEW k \in 1 .. m
       PROVE  plain[k] = SubSeq(put, b[f + k - 1] + 1, stop[f + k])
  <2>1. f + k - 1 \in Nat /\ f + k \in Nat OBVIOUS
  <2>2. b[f + k - 1] = (f + k - 1) * w /\ b[f + k] = (f + k) * w BY <2>1, <1>1, Zenon
  <2>3. plain[k] = SubSeq(put, (f + k - 1) * w + 1, Min({(f + k) * w, Len(put)}))
    BY DEF BlocksFrom
  <2>4. stop[f + k] = Min({b[f + k], len}) BY <2>1, Zenon
  <2> QED BY <2>2, <2>3, <2>4, Zenon
<1>11. b[f] = f * w /\ b[g + 1] = (g + 1) * w
  <2>1. g + 1 \in Nat OBVIOUS
  <2> QED BY <2>1, <1>1, Zenon
<1>12. stop[f + m] = Min({(g + 1) * w, len})
  <2>1. g + 1 \in Nat OBVIOUS
  <2> QED BY <2>1, <1>5, <1>11, Zenon
<1>13. \A i \in f .. f + m - 1 : b[i] < len BY <1>4, <1>5, Zenon
<1> HIDE DEF b, stop, m
<1>14. FlattenSeq(plain) = SubSeq(put, b[f] + 1, stop[f + m])
  <2>1. PiecesAt(put, b, stop, f, m, plain) BY <1>10 DEF PiecesAt
  <2>2. Stops(b, stop, f, m, Len(put)) BY <1>3, <1>9, <1>13 DEF Stops, len
  <2>3. Pieces(E, put, b, stop, f, m, plain) BY <1>2, <1>5, <1>8, <2>1, <2>2 DEF Pieces
  <2> QED BY <2>3, PiecesJoin
<1> QED BY <1>11, <1>12, <1>14, Zenon
--------------------------------------------------------------------------------
(* The rows of a slice, and what is copied for them.                       *)

\* The ranges of one row.
RangesOf(per_block, size, read, width, row) ==
  LET BlockFirst(i) == i * per_block
      BlockEnd(i)   == Min({BlockFirst(i) + per_block, size})
      touched == Ascending({i \in Range(read) : BlockEnd(i) > row /\ BlockFirst(i) < row + width})
      Lo(i)   == Max({BlockFirst(i), row})
  IN  [k \in DOMAIN touched |->
         LET i == touched[k]
         IN  [block |-> i - read[1],
              start |-> Lo(i) - BlockFirst(i),
              count |-> Min({BlockEnd(i), row + width}) - Lo(i)]]

\* They cut the part of the row that lies in the blocks read.
Cuts(f, n, c, row, width, ranges, cut) ==
  /\ ranges \in Seq([block : Nat, start : Nat, count : Nat])
  /\ cut \in [0 .. Len(ranges) -> Nat]
  /\ row <= cut[0] /\ cut[Len(ranges)] <= row + width
  /\ \A k \in 1 .. Len(ranges) :
       /\ ranges[k].block < n
       /\ cut[k - 1] <= cut[k] /\ cut[k] = cut[k - 1] + ranges[k].count
       /\ (f + ranges[k].block) * c + ranges[k].start = cut[k - 1]
       /\ cut[k] <= (f + ranges[k].block) * c + c /\ cut[k] <= row + width
  /\ f * c <= row /\ row + width <= (f + n) * c => cut[0] = row /\ cut[Len(ranges)] = row + width

\* The ranges of a row that createExtractionPlan makes cut it so.
LEMMA RowRanges ==
  ASSUME NEW c \in Nat \ {0}, NEW size \in Nat, NEW row \in Nat, NEW width \in Nat \ {0},
         row + width <= size, NEW f \in Nat, NEW n \in Nat
  PROVE  \E cut : Cuts(f, n, c, row, width, RangesOf(c, size, UpFrom(f, n), width, row), cut)
<1> DEFINE b[i \in Nat] == i * c
           u == row \div c
           v == (row + width - 1) \div c
           end == row + width
           p == IF f >= u THEN f ELSE u
           q == IF f + n - 1 <= v THEN f + n - 1 ELSE v
           m == IF p <= q THEN q - p + 1 ELSE 0
           hit == {i \in Range(UpFrom(f, n)) : Min({i * c + c, size}) > row /\ i * c < row + width}
<1>1. \A i \in Nat : b[i] = i * c /\ b[i] \in Nat BY ProductOfTwo
<1>2. \A i \in Nat : b[i + 1] = b[i] + c
  <2> SUFFICES ASSUME NEW i \in Nat PROVE b[i + 1] = b[i] + c OBVIOUS
  <2> QED BY DEF b
<1> HIDE DEF b
<1>3. end \in Nat /\ end - 1 \in Nat /\ row < end /\ end <= size OBVIOUS
<1>4. u \in Nat /\ v \in Nat BY <1>3, DivModIs
<1>5. \A i \in Nat : (u <= i <=> row < b[i] + c) /\ (i <= v <=> b[i] < end)
  <2> SUFFICES ASSUME NEW i \in Nat PROVE (u <= i <=> row < b[i] + c) /\ (i <= v <=> b[i] < end) OBVIOUS
  <2>1. u <= i <=> row < i * c + c BY DivBound
  <2>2. i <= v <=> i * c <= end - 1
    <3> HIDE DEF end
    <3>1. i <= (end - 1) \div c <=> i * c <= end - 1 BY <1>3, DivBound
    <3> QED BY <3>1 DEF end
  <2>3. i * c = b[i] /\ b[i] \in Nat BY <1>1
  <2> QED BY <2>1, <2>2, <2>3, <1>3
<1>6. Range(UpFrom(f, n)) = f .. f + n - 1
  <2>1. Range(UpFrom(f, n)) = {f + (k - 1) : k \in 1 .. n} BY DEF Range, UpFrom
  <2>2. ASSUME NEW i \in f .. f + n - 1 PROVE \E k \in 1 .. n : i = f + (k - 1)
    <3>1. i - f + 1 \in 1 .. n /\ f + ((i - f + 1) - 1) = i OBVIOUS
    <3> QED BY <3>1
  <2>3. \A k \in 1 .. n : f + (k - 1) \in f .. f + n - 1 OBVIOUS
  <2> QED BY <2>1, <2>2, <2>3
<1> HIDE DEF u, v, end
<1>7. p \in Nat /\ q \in Int /\ m \in Nat BY <1>4
<1>71. /\ f <= p /\ u <= p /\ (p = f \/ p = u)
       /\ q <= f + n - 1 /\ q <= v /\ (q = f + n - 1 \/ q = v)
  BY <1>4
<1> HIDE DEF p, q
<1>72. p <= q => m = q - p + 1 /\ m # 0 BY <1>7
<1>73. q < p => m = 0 BY <1>7
<1> HIDE DEF m
<1>74. \A k \in 1 .. m : p + k - 1 \in p .. q /\ k - 1 \in 0 .. m /\ k \in 0 .. m /\ 0 \in 0 .. m
                       /\ k # 0 /\ m # 0 /\ p + k \in Nat
  BY <1>7, <1>72, <1>73
<1>8. hit = p .. p + m - 1
  <2>1. ASSUME NEW i \in Nat PROVE Min({i * c + c, size}) > row /\ i * c < end <=> u <= i /\ i <= v
    <3>1. i * c = b[i] /\ b[i] \in Nat /\ b[i] + c \in Nat BY <1>1
    <3>2. Min({b[i] + c, size}) > row <=> row < b[i] + c
      <4>1. Min({b[i] + c, size}) = IF b[i] + c <= size THEN b[i] + c ELSE size BY <3>1, MinOfTwo
      <4> QED BY <3>1, <4>1, <1>3
    <3>3. Min({i * c + c, size}) = Min({b[i] + c, size}) BY <3>1, Zenon
    <3> QED BY <3>1, <3>2, <3>3, <1>5
  <2>2. \A i : i \in hit <=> i \in f .. f + n - 1 /\ u <= i /\ i <= v
    <3>1. \A i : i \in hit <=> i \in f .. f + n - 1 /\ Min({i * c + c, size}) > row /\ i * c < end
      BY <1>6 DEF end
    <3>2. \A i \in f .. f + n - 1 : i \in Nat OBVIOUS
    <3> HIDE DEF hit
    <3> QED BY <2>1, <3>1, <3>2
  <2> HIDE DEF hit
  <2>3. \A i : i \in hit <=> i \in p .. q
    <3>1. ASSUME NEW i, i \in hit PROVE i \in p .. q BY <3>1, <2>2, <1>4, <1>7, <1>71
    <3>2. ASSUME NEW i, i \in p .. q PROVE i \in hit BY <3>2, <2>2, <1>4, <1>7, <1>71
    <3> QED BY <3>1, <3>2
  <2>4. p .. q = p .. p + m - 1 BY <1>7, <1>72, <1>73
  <2> QED BY <2>3, <2>4
<1>9. Ascending(hit) = UpFrom(p, m) BY <1>7, <1>8, AscendingInterval
<1> DEFINE R == RangesOf(c, size, UpFrom(f, n), width, row)
           Lo(i) == Max({i * c, row})
           Hi(i) == Min({Min({i * c + c, size}), end})
<1>10. R = [k \in 1 .. m |-> [block |-> UpFrom(p, m)[k] - UpFrom(f, n)[1],
                              start |-> Lo(UpFrom(p, m)[k]) - UpFrom(p, m)[k] * c,
                              count |-> Hi(UpFrom(p, m)[k]) - Lo(UpFrom(p, m)[k])]]
  <2>1. DOMAIN UpFrom(p, m) = 1 .. m BY DEF UpFrom
  <2> HIDE DEF p, m
  <2>2. R = [k \in DOMAIN Ascending(hit) |-> [block |-> Ascending(hit)[k] - UpFrom(f, n)[1],
                              start |-> Lo(Ascending(hit)[k]) - Ascending(hit)[k] * c,
                              count |-> Hi(Ascending(hit)[k]) - Lo(Ascending(hit)[k])]]
    BY DEF RangesOf, end
  <2> HIDE DEF R, hit, Lo, Hi
  <2> QED BY <1>9, <2>1, <2>2
<1>11. \A k \in 1 .. m : UpFrom(p, m)[k] = p + k - 1 BY <1>7 DEF UpFrom
<1>12. m # 0 => n # 0 /\ UpFrom(f, n)[1] = f /\ f <= p
  <2>2. f <= p BY <1>71
  <2>4. m # 0 => n # 0 BY <1>7, <1>71, <1>73
  <2>5. n # 0 => UpFrom(f, n)[1] = f BY DEF UpFrom
  <2> QED BY <2>2, <2>4, <2>5
<1>13. ASSUME NEW k \in 1 .. m
       PROVE  LET i == p + k - 1
              IN  /\ i \in Nat /\ f <= i /\ i < f + n /\ u <= i /\ i <= v
                  /\ row < b[i] + c /\ b[i] < end /\ b[i] \in Nat
                  /\ Lo(i) = (IF b[i] <= row THEN row ELSE b[i])
                  /\ Hi(i) = (IF b[i] + c <= end THEN b[i] + c ELSE end)
                  /\ R[k] = [block |-> i - f, start |-> Lo(i) - b[i], count |-> Hi(i) - Lo(i)]
  <2> DEFINE i == p + k - 1
  <2>2. i \in p .. q /\ m # 0 BY <1>74
  <2>1. i \in Nat /\ m # 0 BY <2>2, <1>7
  <2>3. f <= p /\ u <= p /\ q <= f + n - 1 /\ q <= v BY <1>71
  <2>4. f <= i /\ i < f + n /\ u <= i /\ i <= v BY <2>1, <2>2, <2>3, <1>4, <1>7
  <2>5. row < b[i] + c /\ b[i] < end BY <2>1, <2>4, <1>5
  <2>6. i * c = b[i] /\ b[i] \in Nat /\ b[i] + c \in Nat BY <2>1, <1>1
  <2>7. Lo(i) = (IF b[i] <= row THEN row ELSE b[i])
    <3>1. Max({b[i], row}) = IF b[i] <= row THEN row ELSE b[i] BY <2>6, MaxOfTwo
    <3> QED BY <2>6, <3>1, Zenon
  <2>8. Hi(i) = (IF b[i] + c <= end THEN b[i] + c ELSE end)
    <3>1. Min({b[i] + c, size}) = IF b[i] + c <= size THEN b[i] + c ELSE size BY <2>6, MinOfTwo
    <3> DEFINE x == Min({b[i] + c, size})
    <3>2. x \in Nat BY <3>1, <2>6
    <3>3. Min({x, end}) = IF x <= end THEN x ELSE end
      <4> HIDE DEF x
      <4> QED BY <3>2, <1>3, MinOfTwo
    <3>4. Hi(i) = Min({x, end}) BY <2>6, Zenon
    <3> QED BY <3>1, <3>3, <3>4, <2>6, <1>3
  <2>9. UpFrom(p, m)[k] = i /\ UpFrom(f, n)[1] = f BY <1>11, <1>12, <2>1
  <2>10. R[k] = [block |-> i - f, start |-> Lo(i) - i * c, count |-> Hi(i) - Lo(i)]
    <3> HIDE DEF R, i, Lo, Hi
    <3>1. R[k] = [block |-> UpFrom(p, m)[k] - UpFrom(f, n)[1],
                              start |-> Lo(UpFrom(p, m)[k]) - UpFrom(p, m)[k] * c,
                              count |-> Hi(UpFrom(p, m)[k]) - Lo(UpFrom(p, m)[k])]
      BY <1>10
    <3> QED BY <3>1, <2>9, Zenon
  <2>11. R[k] = [block |-> i - f, start |-> Lo(i) - b[i], count |-> Hi(i) - Lo(i)]
    BY <2>6, <2>10, Zenon
  <2> QED BY <2>1, <2>4, <2>5, <2>6, <2>7, <2>8, <2>11
<1>14. R \in Seq([block : Nat, start : Nat, count : Nat]) /\ Len(R) = m
  <2>1. ASSUME NEW k \in 1 .. m PROVE R[k] \in [block : Nat, start : Nat, count : Nat]
    <3> DEFINE i == p + k - 1
    <3>1. /\ i \in Nat /\ f <= i /\ row < b[i] + c /\ b[i] < end /\ b[i] \in Nat
          /\ Lo(i) = (IF b[i] <= row THEN row ELSE b[i])
          /\ Hi(i) = (IF b[i] + c <= end THEN b[i] + c ELSE end)
          /\ R[k] = [block |-> i - f, start |-> Lo(i) - b[i], count |-> Hi(i) - Lo(i)]
      BY <1>13
    <3> HIDE DEF R, i, Lo, Hi, p, m
    <3>2. i - f \in Nat /\ Lo(i) - b[i] \in Nat /\ Hi(i) - Lo(i) \in Nat BY <3>1, <1>3
    <3> QED BY <3>1, <3>2
  <2>2. DOMAIN R = 1 .. m /\ R = [k \in 1 .. m |-> R[k]] BY <1>10
  <2> HIDE DEF R, p, m
  <2>3. R \in [1 .. m -> [block : Nat, start : Nat, count : Nat]] BY <2>1, <2>2
  <2> QED BY <2>3, <1>7, FunctionIsSeq
<1> DEFINE cut == [k \in 0 .. m |->
                     IF k = 0 THEN (IF m = 0 \/ b[p] <= row THEN row ELSE b[p])
                     ELSE (IF b[p + k] <= end THEN b[p + k] ELSE end)]
<1>15. cut \in [0 .. m -> Nat]
  <2> HIDE DEF p, m
  <2> QED BY <1>1, <1>3, <1>7
<1>16. row <= cut[0] /\ cut[m] <= end
  <2> HIDE DEF p, m
  <2> QED BY <1>1, <1>3, <1>7
<1>17. ASSUME NEW k \in 1 .. m
       PROVE  /\ R[k].block < n
              /\ cut[k - 1] <= cut[k] /\ cut[k] = cut[k - 1] + R[k].count
              /\ (f + R[k].block) * c + R[k].start = cut[k - 1]
              /\ cut[k] <= (f + R[k].block) * c + c /\ cut[k] <= end
  <2> DEFINE i == p + k - 1
  <2>1. /\ i \in Nat /\ f <= i /\ i < f + n /\ row < b[i] + c /\ b[i] < end /\ b[i] \in Nat
        /\ Lo(i) = (IF b[i] <= row THEN row ELSE b[i])
        /\ Hi(i) = (IF b[i] + c <= end THEN b[i] + c ELSE end)
        /\ R[k] = [block |-> i - f, start |-> Lo(i) - b[i], count |-> Hi(i) - Lo(i)]
    BY <1>13
  <2>2. R[k].block = i - f /\ R[k].start = Lo(i) - b[i] /\ R[k].count = Hi(i) - Lo(i)
    <3> HIDE DEF R, Lo, Hi, i
    <3> QED BY <2>1
  <2>3. f + R[k].block = i
    <3> HIDE DEF R, i
    <3> QED BY <2>1, <2>2
  <2>4. (f + R[k].block) * c = b[i] BY <2>1, <2>3, <1>1, Zenon
  <2>5. i + 1 = p + k /\ p + k \in Nat BY <1>7, <1>74
  <2>6. b[p + k] = b[i] + c BY <2>1, <2>5, <1>2
  <2>7. cut[k] = Hi(i)
    <3>1. k \in 0 .. m /\ k # 0 BY <1>74
    <3> HIDE DEF Hi, i, p, m
    <3>2. cut[k] = IF b[p + k] <= end THEN b[p + k] ELSE end BY <3>1
    <3> QED BY <3>2, <2>1, <2>6
  <2>8. cut[k - 1] = Lo(i)
    <3>1. k - 1 \in 0 .. m /\ 0 \in 0 .. m /\ m # 0 BY <1>74
    <3>2. CASE k = 1
      <4>1. i = p BY <3>2, <1>7
      <4> HIDE DEF Lo, i, p, m
      <4>2. cut[0] = IF b[p] <= row THEN row ELSE b[p] BY <3>1
      <4> QED BY <4>1, <4>2, <2>1, <3>2
    <3>3. CASE k # 1
      <4>1. k - 1 \in 1 .. m /\ k - 1 # 0 /\ p + (k - 1) = i BY <3>3, <1>7
      <4>2. row < b[p + (k - 1) - 1] + c /\ p + (k - 1) - 1 \in Nat BY <4>1, <1>13
      <4>3. (p + (k - 1) - 1) + 1 = i BY <4>1, <1>7
      <4>4. b[i] = b[p + (k - 1) - 1] + c BY <4>2, <4>3, <1>2
      <4>5. row < b[i] BY <4>2, <4>4
      <4> HIDE DEF Lo, i, p, m
      <4>6. cut[k - 1] = IF b[p + (k - 1)] <= end THEN b[p + (k - 1)] ELSE end BY <3>1, <4>1
      <4>7. cut[k - 1] = b[i] BY <4>1, <4>6, <2>1, <1>3
      <4>8. Lo(i) = b[i] BY <2>1, <4>5
      <4> QED BY <4>7, <4>8
    <3> QED BY <3>2, <3>3
  <2> HIDE DEF R, Lo, Hi, i, cut, p, m
  <2>11. Hi(i) <= end BY <2>1, <1>3
  <2>9. Lo(i) <= Hi(i) /\ Lo(i) \in Nat /\ Hi(i) \in Nat /\ Hi(i) <= b[i] + c BY <2>1, <1>3
  <2>10. i - f < n BY <2>1
  <2> QED BY <2>1, <2>2, <2>4, <2>7, <2>8, <2>9, <2>10, <2>11
<1>18. f * c <= row /\ row + width <= (f + n) * c => cut[0] = row /\ cut[m] = row + width
  <2> SUFFICES ASSUME f * c <= row, row + width <= (f + n) * c
               PROVE  cut[0] = row /\ cut[m] = end
    BY DEF end
  <2>1. b[f] <= row /\ f + n \in Nat /\ end <= b[f + n] /\ b[f] \in Nat BY <1>1 DEF end
  <2>2. n # 0 BY <2>1, <1>3
  <2>3. f + n - 1 \in Nat /\ (f + n - 1) + 1 = f + n BY <2>2
  <2>4. b[f + n] = b[f + n - 1] + c /\ b[f + n - 1] \in Nat BY <2>3, <1>1, <1>2
  <2>5. f <= u
    <3>1. f * c <= row BY <2>1
    <3>2. f <= row \div c <=> f * c <= row BY DivBound
    <3> QED BY <3>1, <3>2 DEF u
  <2>6. v <= f + n - 1
    <3>1. (end - 1) \div c <= f + n - 1 <=> end - 1 < (f + n - 1) * c + c BY <1>3, <2>3, DivBound
    <3>2. (f + n - 1) * c = b[f + n - 1] BY <2>3, <1>1
    <3>3. end - 1 < b[f + n - 1] + c BY <2>1, <2>4, <1>3
    <3>4. v = (end - 1) \div c BY DEF v, end
    <3> QED BY <3>1, <3>2, <3>3, <3>4
  <2>7. b[u] <= row
    <3>1. u <= row \div c <=> u * c <= row BY <1>4, DivBound
    <3>2. u * c <= row BY <3>1, <1>4 DEF u
    <3> QED BY <3>2, <1>1, <1>4
  <2>8. u <= v BY <2>7, <1>1, <1>3, <1>4, <1>5
  <2>9. p = u /\ q = v BY <2>3, <2>5, <2>6, <1>4 DEF p, q
  <2>10. m = v - u + 1 /\ m # 0 /\ p + m = v + 1 BY <2>8, <2>9, <1>4, <1>72
  <2> HIDE DEF p, q, m
  <2>11. cut[0] = row BY <2>7, <2>9, <1>7
  <2>12. b[v + 1] = b[v] + c /\ b[v] \in Nat BY <1>1, <1>2, <1>4
  <2>13. end - 1 < b[v] + c
    <3>1. (end - 1) \div c <= v <=> end - 1 < v * c + c BY <1>3, <1>4, DivBound
    <3>2. v = (end - 1) \div c BY DEF v, end
    <3>3. end - 1 < v * c + c BY <3>1, <3>2, <1>4
    <3> QED BY <3>3, <1>1, <1>4
  <2>14. cut[m] = IF b[p + m] <= end THEN b[p + m] ELSE end BY <2>10, <1>7
  <2>15. cut[m] = end BY <2>10, <2>12, <2>13, <2>14, <1>3
  <2> QED BY <2>11, <2>15
<1> HIDE DEF R, cut, p, m, b
<1>19. Cuts(f, n, c, row, width, R, cut) BY <1>14, <1>15, <1>16, <1>17, <1>18 DEF Cuts, end
<1> QED BY <1>19 DEF R

\* What extractElements copies for a range.
CopyOf(bytes, block_size, elem, r) ==
  LET src == r.block * block_size + r.start * elem
      len == r.count * elem
  IN  IF src + len <= Len(bytes) THEN SubSeq(bytes, src + 1, src + len)
      ELSE Zeros(len)

\* A range of elements in a block.
Range3 == [block : Nat, start : Nat, count : Nat]

\* A copied range is as long as the range, whether it is there or not.
LEMMA CopyLength ==
  ASSUME NEW bytes \in Seq(Int), NEW w \in Nat, NEW elem \in Nat, NEW r \in Range3
  PROVE  CopyOf(bytes, w, elem, r) \in Seq(Int) /\ Len(CopyOf(bytes, w, elem, r)) = r.count * elem
<1> DEFINE src == r.block * w + r.start * elem
           len == r.count * elem
<1>1. r.block \in Nat /\ r.start \in Nat /\ r.count \in Nat BY DEF Range3
<1>2. src \in Nat /\ len \in Nat
  <2>1. r.block * w \in Nat /\ r.start * elem \in Nat /\ r.count * elem \in Nat BY <1>1, ProductOfTwo
  <2> QED BY <2>1
<1>3. CopyOf(bytes, w, elem, r)
        = IF src + len <= Len(bytes) THEN SubSeq(bytes, src + 1, src + len) ELSE Zeros(len)
  BY DEF CopyOf
<1> HIDE DEF src, len
<1>4. CASE src + len <= Len(bytes)
  <2>1. src + len \in Nat /\ src <= src + len /\ (src + len) - src = len BY <1>2
  <2>2. SubSeq(bytes, src + 1, src + len) \in Seq(Int)
        /\ Len(SubSeq(bytes, src + 1, src + len)) = (src + len) - src
    BY <1>2, <1>4, <2>1, PartIs
  <2> QED BY <1>3, <1>4, <2>1, <2>2 DEF len
<1>5. CASE ~(src + len <= Len(bytes))
  <2>1. Zeros(len) \in [1 .. len -> Int] BY DEF Zeros, Zero
  <2>2. Zeros(len) \in Seq(Int) /\ Len(Zeros(len)) = len BY <1>2, <2>1, FunctionIsSeq
  <2> QED BY <1>3, <1>5, <2>2 DEF len
<1> QED BY <1>4, <1>5

\* What is copied for some ranges.
CopiesOf(bytes, w, elem, ranges) == [k \in 1 .. Len(ranges) |-> CopyOf(bytes, w, elem, ranges[k])]

\* What is copied for a row is no longer than the row.
LEMMA RowLength ==
  ASSUME NEW f, NEW n, NEW c, NEW row \in Nat, NEW width \in Nat, NEW ranges, NEW cut,
         Cuts(f, n, c, row, width, ranges, cut),
         NEW bytes \in Seq(Int), NEW w \in Nat, NEW elem \in Nat
  PROVE  /\ CopiesOf(bytes, w, elem, ranges) \in Seq(Seq(Int))
         /\ FlattenSeq(CopiesOf(bytes, w, elem, ranges)) \in Seq(Int)
         /\ Len(FlattenSeq(CopiesOf(bytes, w, elem, ranges))) <= width * elem
<1> DEFINE m == Len(ranges)
           copies == CopiesOf(bytes, w, elem, ranges)
           at == [k \in 0 .. m |-> cut[k] * elem]
<1>1. /\ ranges \in Seq(Range3) /\ m \in Nat /\ cut \in [0 .. m -> Nat]
      /\ row <= cut[0] /\ cut[m] <= row + width
      /\ \A k \in 1 .. m : cut[k] = cut[k - 1] + ranges[k].count
  BY DEF Cuts, Range3
<1>2. \A k \in 1 .. m : ranges[k] \in Range3 BY <1>1
<1>3. ASSUME NEW k \in 1 .. m
      PROVE  copies[k] \in Seq(Int) /\ Len(copies[k]) = ranges[k].count * elem
  <2>1. copies[k] = CopyOf(bytes, w, elem, ranges[k]) BY DEF CopiesOf
  <2>2. ranges[k] \in Range3 BY <1>2
  <2> DEFINE r == ranges[k]
  <2>3. r \in Range3 BY <2>2
  <2> HIDE DEF r
  <2>4. CopyOf(bytes, w, elem, r) \in Seq(Int) /\ Len(CopyOf(bytes, w, elem, r)) = r.count * elem
    BY <2>3, CopyLength
  <2> QED BY <2>1, <2>4, Zenon DEF r
<1>4. copies \in Seq(Seq(Int)) /\ Len(copies) = m
  <2>1. copies = [k \in 1 .. m |-> copies[k]] BY DEF CopiesOf
  <2> HIDE DEF copies, m
  <2>2. copies \in [1 .. m -> Seq(Int)] BY <1>3, <2>1
  <2> QED BY <1>1, <2>2, FunctionIsSeq
<1> HIDE DEF copies, m
<1>5. at \in [0 .. m -> Nat]
  <2>1. \A k \in 0 .. m : cut[k] * elem \in Nat
    <3> SUFFICES ASSUME NEW k \in 0 .. m PROVE cut[k] * elem \in Nat OBVIOUS
    <3>1. cut[k] \in Nat BY <1>1
    <3> QED BY <3>1, ProductOfTwo
  <2> QED BY <2>1, Zenon
<1>6. ASSUME NEW k \in 1 .. m PROVE at[k - 1] + Len(copies[k]) = at[k]
  <2>1. k \in 0 .. m /\ k - 1 \in 0 .. m BY <1>1
  <2>2. at[k] = cut[k] * elem /\ at[k - 1] = cut[k - 1] * elem BY <2>1
  <2> DEFINE x == cut[k - 1]
             y == ranges[k].count
  <2>3. x \in Nat /\ y \in Nat /\ cut[k] = x + y BY <1>1, <1>2, <2>1 DEF Range3
  <2>4. Len(copies[k]) = y * elem BY <1>3
  <2> HIDE DEF x, y
  <2>5. (x + y) * elem = x * elem + y * elem BY <2>3
  <2> QED BY <2>2, <2>3, <2>4, <2>5 DEF x
<1> HIDE DEF at
<1>7. FlattenSeq(copies) \in Seq(Int) /\ at[0] + Len(FlattenSeq(copies)) = at[m]
  <2>1. m \in Nat BY <1>1
  <2>2. LengthsAdd(Int, m, at, copies) BY <2>1, <1>4, <1>5, <1>6 DEF LengthsAdd
  <2> QED BY <2>2, FlattenLengths
<1>8. at[0] = cut[0] * elem /\ at[m] = cut[m] * elem BY <1>1 DEF at
<1>9. cut[0] \in Nat /\ cut[m] \in Nat BY <1>1
<1>10. row * elem <= at[0] /\ row * elem \in Nat
  <2> DEFINE x == cut[0]
  <2>1. x \in Nat /\ row <= x BY <1>1, <1>9
  <2> HIDE DEF x
  <2>2. row * elem \in Nat /\ row * elem <= x * elem BY <2>1, TimesKeepsOrder
  <2> QED BY <2>2, <1>8, Zenon DEF x
<1>11. at[m] <= (row + width) * elem
  <2> DEFINE x == cut[m]
             y == row + width
  <2>1. x \in Nat /\ x <= y /\ y \in Nat BY <1>1, <1>9
  <2> HIDE DEF x, y
  <2>2. x * elem <= y * elem BY <2>1, TimesKeepsOrder
  <2> QED BY <2>2, <1>8, Zenon DEF x, y
<1>12. (row + width) * elem = row * elem + width * elem /\ width * elem \in Nat BY ProductOfTwo
<1>13. Len(FlattenSeq(copies)) \in Nat /\ at[0] \in Nat /\ at[m] \in Nat BY <1>1, <1>5, <1>7
<1> DEFINE a == row * elem
           b == width * elem
<1> HIDE DEF a, b
<1>14. Len(FlattenSeq(copies)) <= b
  <2>1. a \in Nat /\ b \in Nat /\ a <= at[0] /\ at[m] <= a + b BY <1>10, <1>11, <1>12 DEF a, b
  <2> QED BY <2>1, <1>7, <1>13
<1> QED BY <1>4, <1>7, <1>14 DEF copies, b

\* Of an array of this size the n blocks from block f on.
ReadFrom(f, n, w, elem, size, put, bytes) ==
  /\ Len(put) = size * elem
  /\ bytes = SubSeq(put, f * w + 1, Min({(f + n) * w, Len(put)}))

\* A row that lies in the blocks read is copied as it was put.
RowRead(f, n, c, elem, size, row, width, put, bytes) ==
  /\ f \in Nat /\ n \in Nat /\ c \in Nat /\ elem \in Nat /\ size \in Nat
  /\ row \in Nat /\ width \in Nat
  /\ row + width <= size /\ f * c <= row /\ row + width <= (f + n) * c
  /\ put \in Seq(Int) /\ bytes \in Seq(Int)
  /\ ReadFrom(f, n, c * elem, elem, size, put, bytes)

\* It is copied as it was put.
LEMMA RowBytes ==
  ASSUME NEW f, NEW n, NEW c, NEW elem, NEW size, NEW row, NEW width, NEW put, NEW bytes,
         RowRead(f, n, c, elem, size, row, width, put, bytes),
         NEW ranges, NEW cut, Cuts(f, n, c, row, width, ranges, cut)
  PROVE  FlattenSeq(CopiesOf(bytes, c * elem, elem, ranges))
           = SubSeq(put, row * elem + 1, (row + width) * elem)
<1> USE DEF RowRead
<1> DEFINE m == Len(ranges)
           w == c * elem
           copies == CopiesOf(bytes, w, elem, ranges)
           at == [k \in 0 .. m |-> cut[k] * elem]
           first == f * w
           stop == Min({(f + n) * w, Len(put)})
<1>1. /\ ranges \in Seq(Range3) /\ m \in Nat /\ cut \in [0 .. m -> Nat]
      /\ \A k \in 1 .. m :
           /\ ranges[k].block < n
           /\ cut[k - 1] <= cut[k] /\ cut[k] = cut[k - 1] + ranges[k].count
           /\ (f + ranges[k].block) * c + ranges[k].start = cut[k - 1]
           /\ cut[k] <= (f + ranges[k].block) * c + c /\ cut[k] <= row + width
      /\ cut[0] = row /\ cut[m] = row + width
  BY DEF Cuts, Range3
<1>2. w \in Nat /\ first \in Nat /\ (f + n) * w \in Nat BY ProductOfTwo
<1>3. stop \in Nat /\ stop <= Len(put) /\ (stop = (f + n) * w \/ stop = Len(put))
  <2> DEFINE x == (f + n) * w
  <2> HIDE DEF x
  <2>1. x \in Nat /\ Len(put) \in Nat BY <1>2 DEF x
  <2> DEFINE len == Len(put)
  <2> HIDE DEF len
  <2>4. x \in Int /\ len \in Int BY <2>1 DEF len
  <2>5. Min({x, len}) = IF x <= len THEN x ELSE len BY <2>4, MinOfTwo
  <2>2. Min({x, Len(put)}) = IF x <= Len(put) THEN x ELSE Len(put) BY <2>5 DEF len
  <2>3. Min({x, Len(put)}) \in Nat /\ Min({x, Len(put)}) <= Len(put)
        /\ (Min({x, Len(put)}) = x \/ Min({x, Len(put)}) = Len(put))
    BY <2>1, <2>2
  <2> QED BY <2>3, Zenon DEF x
<1>4. bytes = SubSeq(put, first + 1, stop) BY DEF ReadFrom
<1>13. Len(put) = size * elem BY DEF ReadFrom
<1>5. copies \in Seq(Seq(Int)) BY <1>2, RowLength
<1>6. Len(copies) = m BY <1>1 DEF CopiesOf
<1>7. \A k \in 1 .. m : copies[k] = CopyOf(bytes, w, elem, ranges[k]) BY DEF CopiesOf
<1> HIDE DEF m, copies, stop
<1>8. at \in [0 .. m -> Nat]
  <2>1. \A k \in 0 .. m : cut[k] * elem \in Nat
    <3> SUFFICES ASSUME NEW k \in 0 .. m PROVE cut[k] * elem \in Nat OBVIOUS
    <3>1. cut[k] \in Nat BY <1>1
    <3> QED BY <3>1, ProductOfTwo
  <2> QED BY <2>1, Zenon
<1>9. \A k \in 0 .. m : at[k] = cut[k] * elem OBVIOUS
<1> HIDE DEF at
<1>10. ASSUME NEW k \in 1 .. m
       PROVE  at[k - 1] <= at[k] /\ at[k] <= Len(put) /\ copies[k] = SubSeq(put, at[k - 1] + 1, at[k])
  <2> DEFINE b == ranges[k].block
             s == ranges[k].start
             l == ranges[k].count
             x == cut[k - 1]
             y == cut[k]
             i == f + b
             src == b * w + s * elem
             len == l * elem
  <2>1. ranges[k] \in Range3 /\ k \in 0 .. m /\ k - 1 \in 0 .. m
    <3>1. ranges \in Seq(Range3) /\ m \in Nat BY <1>1
    <3> QED BY <3>1 DEF m
  <2>2. b \in Nat /\ s \in Nat /\ l \in Nat BY <2>1 DEF Range3
  <2>3. x \in Nat /\ y \in Nat BY <1>1, <2>1
  <2>4. b < n /\ x <= y /\ y = x + l /\ i * c + s = x /\ y <= i * c + c /\ y <= row + width BY <1>1
  <2>5. at[k - 1] = x * elem /\ at[k] = y * elem BY <1>9, <2>1
  <2>6. CopyOf(bytes, w, elem, ranges[k])
          = IF src + len <= Len(bytes) THEN SubSeq(bytes, src + 1, src + len) ELSE Zeros(len)
    BY DEF CopyOf
  <2> HIDE DEF b, s, l, x, y
  <2>7. src \in Nat /\ len \in Nat /\ b * w \in Nat /\ s * elem \in Nat
    <3> HIDE DEF w
    <3>1. b * w \in Nat /\ s * elem \in Nat /\ l * elem \in Nat BY <2>2, <1>2, ProductOfTwo
    <3> QED BY <3>1
  <2>8. first + src = x * elem
    <3>1. x = (f + b) * c + s BY <2>4
    <3>2. ((f + b) * c + s) * elem = f * (c * elem) + (b * (c * elem) + s * elem) BY <2>2
    <3> QED BY <3>1, <3>2
  <2>9. x * elem + len = y * elem
    <3>1. (x + l) * elem = x * elem + l * elem BY <2>2, <2>3
    <3> QED BY <2>4, <3>1
  <2>10. x * elem \in Nat /\ y * elem \in Nat /\ x * elem <= y * elem
    BY <2>3, <2>4, TimesKeepsOrder
  <2>11. y * elem <= Len(put)
    <3>1. y <= size BY <2>3, <2>4
    <3>2. y * elem <= size * elem BY <2>3, <3>1, TimesKeepsOrder
    <3> QED BY <3>2, <1>13
  <2>12. y * elem <= (f + n) * w
    <3>1. i + 1 \in Nat /\ i + 1 <= f + n /\ f + n \in Nat BY <2>2, <2>4
    <3> DEFINE j == i + 1
               z == j * c
    <3>2. z = i * c + c BY <2>2
    <3>3. z \in Nat BY <3>1, ProductOfTwo
    <3>4. y <= z BY <2>4, <3>2
    <3>5. z <= (f + n) * c
      <4> HIDE DEF j
      <4>1. j \in Nat /\ j <= f + n BY <3>1 DEF j
      <4> QED BY <4>1, <3>1, TimesKeepsOrder
    <3> DEFINE u == (f + n) * c
    <3>6. u \in Nat BY ProductOfTwo
    <3>7. u * elem = (f + n) * w OBVIOUS
    <3> HIDE DEF z, u
    <3>8. y * elem <= u * elem
      <4>1. y <= u BY <3>3, <3>4, <3>5, <3>6, <2>3 DEF u
      <4> QED BY <4>1, <3>6, <2>3, TimesKeepsOrder
    <3> QED BY <3>7, <3>8
  <2>13. y * elem <= stop BY <1>3, <2>11, <2>12
  <2> DEFINE p == x * elem
             q == y * elem
  <2>14. first <= stop /\ src <= src + len /\ first + (src + len) <= stop /\ src + len \in Nat
         /\ first + (src + len) = q /\ first + src = p
    <3> HIDE DEF src, len, first, p, q
    <3>1. first + src = p /\ p + len = q /\ p \in Nat /\ q \in Nat /\ q <= stop
      BY <2>8, <2>9, <2>10, <2>13 DEF p, q
    <3> QED BY <3>1, <2>7, <1>2, <1>3
  <2> HIDE DEF src, len, first, p, q
  <2>15. Len(bytes) = stop - first
         /\ SubSeq(bytes, src + 1, src + len) = SubSeq(put, (first + src) + 1, first + (src + len))
    <3> DEFINE e == src + len
    <3>1. e \in Nat /\ src <= e /\ first + e <= stop BY <2>14
    <3> HIDE DEF e
    <3>3. src \in Nat /\ first \in Nat /\ stop \in Nat /\ first <= stop /\ stop <= Len(put)
      BY <1>2, <1>3, <2>7, <2>14
    <3>2. Len(SubSeq(put, first + 1, stop)) = stop - first
         /\ SubSeq(SubSeq(put, first + 1, stop), src + 1, e) = SubSeq(put, (first + src) + 1, first + e)
      BY <3>1, <3>3, PartOfPart
    <3> QED BY <1>4, <3>2, Zenon DEF e
  <2>16. src + len <= Len(bytes)
    <3>1. src \in Nat /\ len \in Nat /\ first \in Nat /\ stop \in Nat BY <2>7, <1>2, <1>3
    <3>2. first + (src + len) <= stop /\ Len(bytes) = stop - first BY <2>14, <2>15
    <3> QED BY <3>1, <3>2
  <2>17. copies[k] = SubSeq(put, p + 1, q)
    <3>1. copies[k] = SubSeq(bytes, src + 1, src + len) BY <1>7, <2>6, <2>16
    <3> QED BY <3>1, <2>14, <2>15
  <2> QED BY <2>5, <2>10, <2>11, <2>17, Zenon DEF p, q
<1>11. FlattenSeq(copies) = SubSeq(put, at[0] + 1, at[m])
  <2>1. CutOut(Int, put, m, at, copies) BY <1>1, <1>5, <1>6, <1>8, <1>10 DEF CutOut
  <2> QED BY <2>1, FlattenCuts
<1>12. at[0] = row * elem /\ at[m] = (row + width) * elem
  <2>1. 0 \in 0 .. m /\ m \in 0 .. m /\ cut[0] = row /\ cut[m] = row + width BY <1>1
  <2> QED BY <2>1, <1>9, Zenon
<1> QED BY <1>11, <1>12 DEF copies

\* What is copied for a plan is what is copied for its rows, one after the other.
LEMMA CopiesOfPlan ==
  ASSUME NEW bytes \in Seq(Int), NEW w \in Nat, NEW elem \in Nat, NEW rr \in Seq(Seq(Range3))
  PROVE  /\ FlattenSeq(rr) \in Seq(Range3)
         /\ FlattenSeq(CopiesOf(bytes, w, elem, FlattenSeq(rr)))
              = FlattenSeq([i \in 1 .. Len(rr) |-> FlattenSeq(CopiesOf(bytes, w, elem, rr[i]))])
<1> DEFINE h == [r \in Range3 |-> CopyOf(bytes, w, elem, r)]
           plan == FlattenSeq(rr)
           n == Len(rr)
<1>1. \A r \in Range3 : CopyOf(bytes, w, elem, r) \in Seq(Int) BY CopyLength
<1>2. h \in [Range3 -> Seq(Int)] BY <1>1
<1>3. DOMAIN h = Range3 OBVIOUS
<1>4. plan \in Seq(Range3) BY FlattenType
<1>5. ASSUME NEW s \in Seq(Range3) PROVE Each(h, s) = CopiesOf(bytes, w, elem, s)
  <2>1. \A k \in 1 .. Len(s) : s[k] \in Range3 OBVIOUS
  <2>2. \A k \in 1 .. Len(s) : h[s[k]] = CopyOf(bytes, w, elem, s[k]) BY <2>1
  <2> HIDE DEF h
  <2> QED BY <2>2 DEF Each, CopiesOf
<1>6. n \in Nat /\ \A i \in 1 .. n : rr[i] \in Seq(Range3) OBVIOUS
<1> HIDE DEF h
<1>7. Each(h, plan) = FlattenSeq([i \in 1 .. n |-> Each(h, rr[i])]) BY <1>3, EachFlatten
<1> DEFINE ss == [i \in 1 .. n |-> Each(h, rr[i])]
<1>8. ss \in Seq(Seq(Seq(Int))) /\ Len(ss) = n
  <2>1. \A i \in 1 .. n : Each(h, rr[i]) \in Seq(Seq(Int)) BY <1>2, <1>6, EachType
  <2>2. ss \in [1 .. n -> Seq(Seq(Int))] BY <2>1
  <2> HIDE DEF ss, n
  <2> QED BY <1>6, <2>2, FunctionIsSeq
<1>9. \A i \in 1 .. n : ss[i] = CopiesOf(bytes, w, elem, rr[i]) BY <1>5, <1>6
<1> HIDE DEF ss
<1>10. FlattenSeq(FlattenSeq(ss)) = FlattenSeq([i \in 1 .. n |-> FlattenSeq(ss[i])])
  BY <1>8, FlattenTwice
<1>11. [i \in 1 .. n |-> FlattenSeq(ss[i])]
         = [i \in 1 .. n |-> FlattenSeq(CopiesOf(bytes, w, elem, rr[i]))]
  BY <1>9
<1>12. FlattenSeq(ss) = CopiesOf(bytes, w, elem, plan) BY <1>4, <1>5, <1>7 DEF ss
<1> QED BY <1>4, <1>10, <1>11, <1>12

\* Rows that are copied, none longer than the most that fits.
RowsCopied(bytes, w, elem, rr, total, most) ==
  /\ bytes \in Seq(Int) /\ w \in Nat /\ elem \in Nat /\ rr \in Seq(Seq(Range3))
  /\ total \in Nat /\ most \in Nat /\ Len(rr) * most = total * elem
  /\ \A i \in 1 .. Len(rr) : /\ FlattenSeq(CopiesOf(bytes, w, elem, rr[i])) \in Seq(Int)
                              /\ Len(FlattenSeq(CopiesOf(bytes, w, elem, rr[i]))) <= most

\* extractElements fills the box, and with whole rows it has nothing to pad.
LEMMA ExtractIs ==
  ASSUME NEW bytes, NEW w, NEW elem, NEW rr, NEW total, NEW most,
         RowsCopied(bytes, w, elem, rr, total, most)
  PROVE  LET box  == extractElements(bytes, FlattenSeq(rr), w, elem, total)
             rows == [i \in 1 .. Len(rr) |-> FlattenSeq(CopiesOf(bytes, w, elem, rr[i]))]
         IN  /\ box \in Seq(Int) /\ Len(box) = total * elem
             /\ Len(FlattenSeq(rows)) = total * elem => box = FlattenSeq(rows)
<1> USE DEF RowsCopied
<1> DEFINE n == Len(rr)
           rows == [i \in 1 .. n |-> FlattenSeq(CopiesOf(bytes, w, elem, rr[i]))]
           plan == FlattenSeq(rr)
           copied == FlattenSeq(CopiesOf(bytes, w, elem, plan))
           size == total * elem
           box == extractElements(bytes, plan, w, elem, total)
<1>1. plan \in Seq(Range3) /\ copied = FlattenSeq(rows) BY CopiesOfPlan
<1>2. n \in Nat OBVIOUS
<1>3. rows \in Seq(Seq(Int)) /\ Len(rows) = n
  <2>1. rows \in [1 .. n -> Seq(Int)] OBVIOUS
  <2> HIDE DEF rows, n
  <2> QED BY <2>1, <1>2, FunctionIsSeq
<1>4. \A i \in 1 .. n : Len(rows[i]) <= most OBVIOUS
<1>5. box = copied \o Zeros(size - Len(copied))
  <2>1. DOMAIN plan = 1 .. Len(plan) BY <1>1
  <2>2. CopiesOf(bytes, w, elem, plan) = [k \in DOMAIN plan |-> CopyOf(bytes, w, elem, plan[k])]
    BY <2>1 DEF CopiesOf
  <2> QED BY <2>2 DEF extractElements, CopyOf
<1> HIDE DEF rows, plan, box
<1>6. FlattenSeq(rows) \in Seq(Int) BY <1>3, FlattenType
<1>7. Len(FlattenSeq(rows)) <= n * most BY <1>3, <1>4, FlattenBounded
<1>8. n * most = size OBVIOUS
<1> HIDE DEF copied, n, size
<1>9. copied \in Seq(Int) /\ Len(copied) \in Nat /\ Len(copied) <= size BY <1>1, <1>6, <1>7, <1>8
<1>10. size \in Nat BY ProductOfTwo DEF size
<1> DEFINE z == size - Len(copied)
<1>11. z \in Nat /\ Len(copied) + z = size BY <1>9, <1>10
<1> HIDE DEF z
<1>12. Zeros(z) \in Seq(Int) /\ Len(Zeros(z)) = z
  <2>1. Zeros(z) \in [1 .. z -> Int] BY DEF Zeros, Zero
  <2> QED BY <1>11, <2>1, FunctionIsSeq
<1>13. box = copied \o Zeros(z) BY <1>5 DEF z
<1>14. box \in Seq(Int) /\ Len(box) = size BY <1>9, <1>11, <1>12, <1>13
<1>15. Len(copied) = size => box = copied
  <2> SUFFICES ASSUME Len(copied) = size PROVE box = copied OBVIOUS
  <2>1. z = 0 BY <1>9, <1>10, <1>11
  <2>2. Zeros(z) = <<>> BY <2>1, <1>12
  <2> QED BY <1>9, <1>13, <2>2
<1> QED BY <1>1, <1>14, <1>15 DEF box, size, rows, n, plan

\* The rows of a box: where they begin, what they hold, and where the elements of the
\* box lie in them.
LEMMA RowsAre ==
  ASSUME NEW shape, NEW spec, Bounded(shape, spec)
  PROVE  LET rows  == RowStarts(shape, spec)
             N     == Product(RowDims(spec))
             width == Width(spec[Len(spec)])
         IN  /\ N \in Nat /\ width \in Nat /\ width # 0 /\ Product(Widths(spec)) = N * width
             /\ rows \in [1 .. N -> Nat]
             /\ \A k \in 1 .. N : \A i \in Nat :
                  i < width => rows[k] + i \in Named(shape, EveryStep(spec))
             /\ \A t \in Tuples(Widths(spec)) : \E k \in 1 .. N : \E i \in Nat :
                  /\ i < width /\ flatIndex(t, Widths(spec)) = (k - 1) * width + i
                  /\ Place(Starts(spec), Ones(Len(shape)), t, shape) = rows[k] + i
<1> DEFINE n == Len(shape)
           rows == RowStarts(shape, spec)
           RD == RowDims(spec)
           W == Widths(spec)
           N == Product(RD)
           width == Width(spec[n])
           lo == Starts(spec)
           on == Ones(n)
           A == Places(RD, lo, on, shape)
           At(t) == [d \in 1 .. n |-> lo[d] + on[d] * t[d]]
<1>1. /\ Len(spec) = n /\ n \in 1 .. 3 /\ n \in Nat \ {0} /\ shape \in Seq(Nat)
      /\ \A d \in 1 .. n :
           spec[d].start \in Nat /\ spec[d].stop \in Nat /\ spec[d].start < spec[d].stop
  BY BoundedIs
<1>2. Within(RD, lo, on, shape) /\ rows = Ascending(A) BY RowsWithin
<1>3. /\ Within(W, lo, on, shape) /\ Named(shape, EveryStep(spec)) = Places(W, lo, on, shape)
      /\ \A d \in 1 .. n : W[d] \in Nat \ {0}
  BY BoxWithin
<1>4. RD \in Seq(Nat) /\ Len(RD) = n /\ W \in Seq(Nat) /\ Len(W) = n /\ lo \in [1 .. n -> Nat]
  BY <1>2, <1>3 DEF Within
<1>5. width \in Nat /\ width # 0 /\ W[n] = width
  <2>1. n \in 1 .. n BY <1>1
  <2>2. W[n] = width BY <1>1, <2>1 DEF Widths
  <2> QED BY <1>3, <2>1, <2>2
<1>6. RD[n] = 1 /\ \A d \in 1 .. n - 1 : RD[d] = W[d]
  <2>1. n \in 1 .. n /\ \A d \in 1 .. n - 1 : d \in 1 .. n /\ d # n BY <1>1
  <2> HIDE DEF n
  <2>2. RD = [d \in 1 .. n |-> IF d = n THEN 1 ELSE Width(spec[d])] BY <1>1 DEF RowDims
  <2>3. W = [d \in 1 .. n |-> Width(spec[d])] BY <1>1 DEF Widths
  <2> QED BY <2>1, <2>2, <2>3
<1>7. /\ Product(W) = N * width
      /\ \A t \in Tuples(W), r \in Tuples(RD) :
           (\A d \in 1 .. n - 1 : r[d] = t[d]) => flatIndex(t, W) = flatIndex(r, RD) * width + t[n]
  <2> HIDE DEF n, RD, W, width
  <2>1. Len(W) \in 1 .. 3 /\ width = W[Len(W)] /\ Len(RD) = Len(W) /\ RD[Len(W)] = 1
        /\ \A d \in 1 .. Len(W) - 1 : RD[d] = W[d]
    BY <1>1, <1>4, <1>5, <1>6
  <2>2. /\ Product(W) = Product(RD) * width
        /\ \A t \in Tuples(W), r \in Tuples(RD) :
             (\A d \in 1 .. Len(W) - 1 : r[d] = t[d])
               => flatIndex(t, W) = flatIndex(r, RD) * width + t[Len(W)]
    BY <1>4, <1>5, <2>1, LastDimension
  <2> QED BY <1>4, <2>2
<1>8. /\ A \in SUBSET Nat /\ N \in Nat /\ rows \in [1 .. N -> A]
      /\ \A t \in Tuples(RD) : rows[flatIndex(t, RD) + 1] = Place(lo, on, t, shape)
  BY <1>2, AscendingPlaces
<1>9. rows \in [1 .. N -> Nat]
  <2> HIDE DEF rows, A, N
  <2> QED BY <1>8
<1>10. \A t : Place(lo, on, t, shape) = flatIndex(At(t), shape) BY DEF Place
<1>11. \A d \in 1 .. n : on[d] = 1 BY <1>1 DEF Ones
<1> HIDE DEF on, lo, RD, W, rows, N, A, n, width
<1>12. ASSUME NEW t \in [1 .. n -> Nat] PROVE At(t) \in [1 .. n -> Nat] /\ \A d \in 1 .. n : At(t)[d] = lo[d] + t[d]
  <2>1. \A d \in 1 .. n : on[d] * t[d] = t[d] BY <1>11
  <2>2. \A d \in 1 .. n : At(t)[d] = lo[d] + t[d] BY <2>1
  <2>3. \A d \in 1 .. n : lo[d] + t[d] \in Nat BY <1>4
  <2>4. \A d \in 1 .. n : lo[d] + on[d] * t[d] \in Nat BY <2>1, <2>3
  <2>5. At(t) \in [1 .. n -> Nat] BY <2>4
  <2> QED BY <2>2, <2>5
<1>13. ASSUME NEW t \in [1 .. n -> Nat], NEW r \in [1 .. n -> Nat],
              \A d \in 1 .. n - 1 : r[d] = t[d], NEW i \in Nat, t[n] = r[n] + i
       PROVE  Place(lo, on, t, shape) = Place(lo, on, r, shape) + i
  <2> DEFINE x == At(t)
             y == At(r)
  <2>1. x \in [1 .. n -> Nat] /\ y \in [1 .. n -> Nat] BY <1>12
  <2>2. n \in 1 .. n /\ \A d \in 1 .. n - 1 : d \in 1 .. n BY <1>1
  <2>3. x[n] = lo[n] + t[n] /\ y[n] = lo[n] + r[n] BY <1>12, <2>2
  <2>4. \A d \in 1 .. n - 1 : x[d] = lo[d] + t[d] /\ y[d] = lo[d] + r[d]
    <3>1. \A d \in 1 .. n : x[d] = lo[d] + t[d] BY <1>12
    <3>2. \A d \in 1 .. n : y[d] = lo[d] + r[d] BY <1>12
    <3> HIDE DEF x, y
    <3> QED BY <2>2, <3>1, <3>2
  <2> HIDE DEF x, y
  <2>5. \A d \in 1 .. n - 1 : y[d] = x[d] BY <2>4, <1>13
  <2>6. x[n] = y[n] + i
    <3>1. lo[n] \in Nat /\ t[n] \in Nat /\ r[n] \in Nat BY <1>4, <2>2
    <3> QED BY <2>3, <3>1, <1>13
  <2>7. flatIndex(x, shape) = flatIndex(y, shape) + i
    <3>1. Len(shape) = n BY DEF n
    <3>2. shape \in Seq(Nat) /\ Len(shape) \in 1 .. 3 BY <1>1, <3>1
    <3>3. x \in [1 .. Len(shape) -> Nat] /\ y \in [1 .. Len(shape) -> Nat] BY <2>1, <3>1
    <3>4. (\A d \in 1 .. Len(shape) - 1 : y[d] = x[d]) /\ x[Len(shape)] = y[Len(shape)] + i
      BY <2>5, <2>6, <3>1
    <3> QED BY <3>2, <3>3, <3>4, LastIndex
  <2> QED BY <1>10, <2>7, Zenon DEF x, y
<1>14. ASSUME NEW k \in 1 .. N, NEW i \in Nat, i < width PROVE rows[k] + i \in Named(shape, EveryStep(spec))
  <2>1. rows[k] \in A BY <1>8
  <2>2. PICK r \in Tuples(RD) : rows[k] = Place(lo, on, r, shape) BY <2>1 DEF A, Places
  <2>3. r \in [1 .. n -> Nat] /\ \A d \in 1 .. n : r[d] < RD[d] BY <1>4 DEF Tuples
  <2> DEFINE t == [d \in 1 .. n |-> IF d = n THEN i ELSE r[d]]
  <2>4. t \in [1 .. n -> Nat] /\ t[n] = i /\ \A d \in 1 .. n - 1 : r[d] = t[d]
    <3>1. n \in 1 .. n /\ \A d \in 1 .. n - 1 : d \in 1 .. n /\ d # n BY <1>1
    <3> QED BY <2>3, <3>1
  <2>5. \A d \in 1 .. n : t[d] < W[d]
    <3> SUFFICES ASSUME NEW d \in 1 .. n PROVE t[d] < W[d] OBVIOUS
    <3>1. CASE d = n BY <3>1, <2>4, <1>5, <1>14
    <3>2. CASE d # n
      <4>1. d \in 1 .. n - 1 BY <3>2, <1>1
      <4>2. t[d] = r[d] /\ r[d] < RD[d] /\ RD[d] = W[d] BY <4>1, <2>3, <2>4, <1>6
      <4> QED BY <4>2
    <3> QED BY <3>1, <3>2
  <2> HIDE DEF t
  <2>6. t \in Tuples(W) BY <1>4, <2>4, <2>5 DEF Tuples
  <2>7. r[n] = 0
    <3>1. n \in 1 .. n BY <1>1
    <3>2. r[n] \in Nat /\ r[n] < 1 BY <2>3, <3>1, <1>6
    <3> QED BY <3>2
  <2>8. Place(lo, on, t, shape) = Place(lo, on, r, shape) + i
    <3>1. t[n] = r[n] + i BY <2>4, <2>7
    <3> QED BY <3>1, <2>3, <2>4, <1>13
  <2>9. Place(lo, on, t, shape) \in Places(W, lo, on, shape) BY <2>6 DEF Places
  <2> QED BY <2>2, <2>8, <2>9, <1>3, Zenon
<1>15. ASSUME NEW t \in Tuples(W)
       PROVE  \E k \in 1 .. N : \E i \in Nat :
                /\ i < width /\ flatIndex(t, W) = (k - 1) * width + i
                /\ Place(lo, on, t, shape) = rows[k] + i
  <2>1. t \in [1 .. n -> Nat] /\ \A d \in 1 .. n : t[d] < W[d] BY <1>4 DEF Tuples
  <2> DEFINE r == [d \in 1 .. n |-> IF d = n THEN 0 ELSE t[d]]
  <2>2. r \in [1 .. n -> Nat] /\ r[n] = 0 /\ \A d \in 1 .. n - 1 : r[d] = t[d]
    <3>1. n \in 1 .. n /\ \A d \in 1 .. n - 1 : d \in 1 .. n /\ d # n BY <1>1
    <3> QED BY <2>1, <3>1
  <2>3. \A d \in 1 .. n : r[d] < RD[d]
    <3> SUFFICES ASSUME NEW d \in 1 .. n PROVE r[d] < RD[d] OBVIOUS
    <3>1. CASE d = n BY <3>1, <2>2, <1>6
    <3>2. CASE d # n
      <4>1. d \in 1 .. n - 1 BY <3>2, <1>1
      <4>2. t[d] = r[d] /\ t[d] < W[d] /\ RD[d] = W[d] BY <4>1, <2>1, <2>2, <1>6
      <4> QED BY <4>2
    <3> QED BY <3>1, <3>2
  <2> HIDE DEF r
  <2>4. r \in Tuples(RD) BY <1>4, <2>2, <2>3 DEF Tuples
  <2>5. flatIndex(t, W) = flatIndex(r, RD) * width + t[n] BY <1>7, <2>2, <2>4
  <2>6. n \in 1 .. n BY <1>1
  <2>7. t[n] \in Nat /\ t[n] < width BY <1>5, <2>1, <2>6
  <2>8. Place(lo, on, t, shape) = Place(lo, on, r, shape) + t[n]
    <3>1. t[n] = r[n] + t[n] BY <2>2, <2>7
    <3> QED BY <3>1, <2>1, <2>2, <2>7, <1>13
  <2>9. flatIndex(r, RD) \in 0 .. N - 1
    <3>1. Len(RD) \in 1 .. 3 BY <1>1, <1>4
    <3> QED BY <1>4, <2>4, <3>1, FlatRange DEF N
  <2> DEFINE q == flatIndex(r, RD)
  <2>10. q + 1 \in 1 .. N /\ (q + 1) - 1 = q
    <3>1. q \in 0 .. N - 1 BY <2>9
    <3> HIDE DEF q
    <3> QED BY <3>1, <1>8
  <2>11. rows[q + 1] = Place(lo, on, r, shape) BY <1>8, <2>4
  <2> HIDE DEF q
  <2>12. flatIndex(t, W) = ((q + 1) - 1) * width + t[n] BY <2>5, <2>10 DEF q
  <2> QED BY <2>7, <2>8, <2>10, <2>11, <2>12
<1>16. Len(spec) = n BY <1>1
<1> QED BY <1>5, <1>7, <1>8, <1>9, <1>14, <1>15, <1>16 DEF n, width, N, W, RD, rows, lo, on
--------------------------------------------------------------------------------
(* From the blocks of an array to the box around a slice.                  *)

\* An array of numbers that get_slice takes, as put() and flush() stored it.
SlicedArray(a) ==
  /\ a.shape \in Seq(Nat) /\ Len(a.shape) \in 1 .. 3
  /\ a.elem \in Nat /\ a.elem # 0 /\ a.codec \in Codecs /\ ~uses_global_shuffle(a.codec)
  /\ a.put \in Seq(Nat) /\ Len(a.put) = Product(a.shape) * a.elem
  /\ a.blocks # <<>> /\ WrittenBlockSize(a.blocks) >= a.elem
  /\ \E bs \in Nat \ {0} :
       a.blocks = compressBlocks(serialize_array_data(a.put, a.codec, a.elem, bs), bs)

\* What the blocks of such an array are.
LEMMA BlocksOfSliced ==
  ASSUME NEW a, SlicedArray(a)
  PROVE  LET w == WrittenBlockSize(a.blocks)
             c == w \div a.elem
         IN  /\ w \in Nat \ {0} /\ c \in Nat \ {0} /\ (Aligned(a) => w = c * a.elem)
             /\ Len(a.blocks) \in Nat /\ Len(a.blocks) = NumBlocks(Len(a.put), w)
             /\ \A i \in 1 .. Len(a.blocks) : Unshuffled(a.codec, a.blocks[i], a.elem) \in Seq(Nat)
             /\ BlocksAre(a.codec, a.elem, a.put, w, a.blocks)
<1> DEFINE w == WrittenBlockSize(a.blocks)
           blocks == a.blocks
           put == a.put
           codec == a.codec
           elem == a.elem
           c == w \div elem
<1>1. /\ elem \in Nat \ {0} /\ codec \in Codecs /\ ~uses_global_shuffle(codec) /\ put \in Seq(Nat)
      /\ blocks # <<>> /\ w >= elem
  BY DEF SlicedArray
<1>2. PICK bs \in Nat \ {0} : blocks = compressBlocks(serialize_array_data(put, codec, elem, bs), bs)
  BY DEF SlicedArray
<1> HIDE DEF blocks, put, codec, elem
<1>3. LET v == WrittenBlockSize(blocks)
         IN  /\ v \in Nat \ {0}
             /\ Len(blocks) = NumBlocks(Len(put), v)
             /\ \A i \in 1 .. Len(blocks) : Unshuffled(codec, blocks[i], elem) \in Seq(Nat)
             /\ BlocksAre(codec, elem, put, v, blocks)
  <2>1. StoredAs(Nat, codec, elem, bs, put, blocks) BY <1>1, <1>2 DEF StoredAs
  <2> QED BY <2>1, StoredBlocks
<1>4. w = WrittenBlockSize(blocks) BY DEF blocks
<1>5. w \in Nat \ {0} BY <1>3, <1>4
<1> HIDE DEF w
<1>6. c \in Nat \ {0} /\ (w % elem = 0 => w = c * elem)
  <2>1. w \in Nat BY <1>5
  <2>2. c \in Nat /\ w % elem \in 0 .. elem - 1 /\ w = c * elem + (w % elem)
    BY <1>1, <2>1, DivModIs
  <2>3. c # 0
    <3>1. 1 <= w \div elem <=> 1 * elem <= w BY <1>1, <2>1, DivBound
    <3>2. 1 * elem = elem BY <1>1
    <3>3. 1 <= c BY <1>1, <2>1, <3>1, <3>2
    <3> QED BY <2>2, <3>3
  <2> DEFINE x == c * elem
             y == w % elem
  <2>4. x \in Nat BY <1>1, <2>2, ProductOfTwo
  <2> HIDE DEF x, c
  <2>5. y = 0 => w = x BY <2>1, <2>2, <2>4 DEF x
  <2> QED BY <2>2, <2>3, <2>5 DEF x
<1>7. Len(blocks) \in Nat
  <2>1. Len(put) \in Nat BY <1>1
  <2>2. NumBlocks(Len(put), w) \in Nat BY <1>5, <2>1, BlockCount
  <2> QED BY <1>3, <1>4, <2>2
<1>8. Aligned(a) <=> w % elem = 0 BY DEF Aligned, w, elem
<1> HIDE DEF c
<1> QED BY <1>3, <1>4, <1>5, <1>6, <1>7, <1>8 DEF w, blocks, put, codec, elem, c

\* The bytes that get_slice decompresses.
BytesRead(a, read) ==
  LET taken == readBlocks(a, read)
      plain == IF uses_block_shuffle(a.codec)
               THEN [k \in DOMAIN taken |-> OnWholeElements(byte_unshuffle, taken[k], a.elem)]
               ELSE taken
  IN  decompressBlocks(plain)

\* They are the unshuffled blocks, one after the other.
LEMMA BytesReadAre ==
  ASSUME NEW a, NEW read \in Seq(Nat)
  PROVE  BytesRead(a, read)
           = FlattenSeq([k \in 1 .. Len(read) |-> Unshuffled(a.codec, a.blocks[read[k] + 1], a.elem)])
<1>1. DOMAIN read = 1 .. Len(read) OBVIOUS
<1>2. CASE uses_block_shuffle(a.codec)
  <2>1. \A b : Unshuffled(a.codec, b, a.elem) = OnWholeElements(byte_unshuffle, b, a.elem)
    BY <1>2 DEF Unshuffled
  <2>2. BytesRead(a, read)
          = FlattenSeq([k \in 1 .. Len(read) |-> OnWholeElements(byte_unshuffle, a.blocks[read[k] + 1], a.elem)])
    <3> DEFINE taken == [k \in 1 .. Len(read) |-> a.blocks[read[k] + 1]]
    <3>1. readBlocks(a, read) = taken BY <1>1 DEF readBlocks
    <3>2. BytesRead(a, read) = FlattenSeq([k \in DOMAIN taken |-> OnWholeElements(byte_unshuffle, taken[k], a.elem)])
      BY <1>2, <3>1 DEF BytesRead, decompressBlocks
    <3>3. [k \in DOMAIN taken |-> OnWholeElements(byte_unshuffle, taken[k], a.elem)]
            = [k \in 1 .. Len(read) |-> OnWholeElements(byte_unshuffle, a.blocks[read[k] + 1], a.elem)]
      OBVIOUS
    <3> QED BY <3>2, <3>3, Zenon
  <2>3. \A k \in 1 .. Len(read) :
          Unshuffled(a.codec, a.blocks[read[k] + 1], a.elem)
            = OnWholeElements(byte_unshuffle, a.blocks[read[k] + 1], a.elem)
    BY <2>1, Zenon
  <2>4. [k \in 1 .. Len(read) |-> OnWholeElements(byte_unshuffle, a.blocks[read[k] + 1], a.elem)]
         = [k \in 1 .. Len(read) |-> Unshuffled(a.codec, a.blocks[read[k] + 1], a.elem)]
    BY <2>3, Zenon
  <2> QED BY <2>2, <2>4, Zenon
<1>3. CASE ~uses_block_shuffle(a.codec)
  <2>1. \A b : Unshuffled(a.codec, b, a.elem) = b BY <1>3 DEF Unshuffled
  <2>2. BytesRead(a, read) = FlattenSeq([k \in 1 .. Len(read) |-> a.blocks[read[k] + 1]])
    BY <1>1, <1>3 DEF BytesRead, readBlocks, decompressBlocks
  <2> QED BY <2>1, <2>2
<1> QED BY <1>2, <1>3

\* What get_slice reads for a slice: n blocks from block f.
MapOf(a, slices, f, n) ==
  LET c    == WrittenBlockSize(a.blocks) \div a.elem
      spec == Normalized(a.shape, slices)
  IN  /\ f \in Nat /\ n \in Nat
      /\ Ascending(createBlockMap(a, slices)) = UpFrom(f, n)
      /\ createBlockMap(a, slices) = f .. f + n - 1
      /\ n = 0 \/ f + n <= Len(a.blocks)
      /\ f = FirstPlace(a.shape, spec) \div c
      /\ Aligned(a) => /\ n # 0 /\ f + n - 1 = LastPlace(a.shape, spec) \div c
                       /\ f * c <= FirstPlace(a.shape, spec)
                       /\ LastPlace(a.shape, spec) < (f + n) * c

\* createBlockMap gives consecutive blocks; with whole elements in a block they reach
\* from the first element of the slice to its last.
LEMMA BlockMapIs ==
  ASSUME NEW a, SlicedArray(a), NEW slices \in Seq([start : Nat, stop : Nat, step : Nat \ {0}]),
         Bounded(a.shape, Normalized(a.shape, slices))
  PROVE  \E f, n \in Nat : MapOf(a, slices, f, n)
<1> DEFINE spec  == Normalized(a.shape, slices)
           w     == WrittenBlockSize(a.blocks)
           c     == w \div a.elem
           first == FirstPlace(a.shape, spec)
           last  == LastPlace(a.shape, spec)
           size  == Product(a.shape)
           L     == Len(a.blocks)
           elem  == a.elem
           f     == first \div c
           l     == last \div c
           g     == IF l <= L - 1 THEN l ELSE L - 1
           n     == IF f <= g THEN g - f + 1 ELSE 0
<1>1. /\ w \in Nat \ {0} /\ c \in Nat \ {0} /\ (Aligned(a) => w = c * elem)
      /\ L \in Nat /\ L = NumBlocks(Len(a.put), w)
  BY BlocksOfSliced
<1>2. /\ a.shape \in Seq(Nat) /\ elem \in Nat /\ elem # 0 /\ a.put \in Seq(Nat)
      /\ Len(a.put) = size * elem /\ a.blocks # <<>>
  BY DEF SlicedArray
<1>3. first \in 0 .. size - 1 /\ last \in 0 .. size - 1 /\ first <= last
  <2> DEFINE box == Named(a.shape, EveryStep(spec))
  <2>1. /\ first \in box /\ last \in box
        /\ \A x \in box : first <= x /\ x <= last
        /\ box \subseteq 0 .. size - 1
    BY BoxBounds
  <2> HIDE DEF box, first, last, size
  <2> QED BY <2>1
<1>4. size \in Nat BY <1>2, ProductType
<1>5. Span(a.shape, slices).first = first /\ Span(a.shape, slices).end = last + 1
  BY SpanIs
<1>6. EntryBlockSize(a.blocks) = w BY <1>2 DEF EntryBlockSize
<1>7. createBlockMap(a, slices) =
        {i \in 0 .. L - 1 : first \div c <= i /\ i <= (last + 1 - 1) \div c}
  <2> DEFINE s == Span(a.shape, slices)
             p == s.first \div c
             q == (s.end - 1) \div c
  <2>1. createBlockMap(a, slices) = {i \in 0 .. L - 1 : p <= i /\ i <= q}
    BY <1>6 DEF createBlockMap
  <2>2. p = first \div c /\ q = (last + 1 - 1) \div c
    <3>1. s.first = first /\ s.end = last + 1 BY <1>5
    <3> HIDE DEF s, first, last, c
    <3>2. s.first \div c = first \div c BY <3>1
    <3>3. s.end - 1 = last + 1 - 1
      <4>1. last \in Int BY <1>3, <1>4
      <4> QED BY <4>1, <3>1
    <3>4. (s.end - 1) \div c = (last + 1 - 1) \div c BY <3>3
    <3> QED BY <3>2, <3>4, Zenon
  <2> HIDE DEF p, q, s, first, last, c, L
  <2> QED BY <2>1, <2>2
<1> HIDE DEF first, last, size, elem, w
<1>8. last + 1 - 1 = last BY <1>3, <1>4
<1>9. f \in Nat /\ l \in Nat
  <2>1. first \in Nat /\ last \in Nat BY <1>3, <1>4
  <2> HIDE DEF c
  <2> QED BY <1>1, <2>1, DivModIs
<1>10. createBlockMap(a, slices) = {i \in 0 .. L - 1 : f <= i /\ i <= l}
  BY <1>7, <1>8
<1> HIDE DEF f, l, L, c
<1>11. n \in Nat /\ createBlockMap(a, slices) = f .. f + n - 1 /\ (n = 0 \/ f + n <= L)
  <2>1. g \in Int /\ g <= l /\ g <= L - 1 /\ \A i \in Nat : i <= l /\ i <= L - 1 => i <= g
    BY <1>1, <1>9
  <2> HIDE DEF g
  <2>2. n \in Nat /\ (n = 0 => g < f) /\ (n # 0 => g = f + n - 1) BY <1>9, <2>1
  <2> HIDE DEF n
  <2>3. createBlockMap(a, slices) = f .. g BY <1>1, <1>9, <1>10, <2>1
  <2>4. f .. g = f .. f + n - 1 BY <1>9, <2>1, <2>2
  <2> QED BY <1>1, <1>9, <2>1, <2>2, <2>3, <2>4
<1>12. Ascending(createBlockMap(a, slices)) = UpFrom(f, n)
  <2> HIDE DEF n
  <2> QED BY <1>9, <1>11, AscendingInterval
<1>13. ASSUME Aligned(a)
       PROVE n # 0 /\ f + n - 1 = l /\ f * c <= first /\ last < (f + n) * c
  <2>1. first \in Nat /\ last \in Nat /\ last + 1 <= size BY <1>3, <1>4
  <2>2. f * c <= first BY <1>1, <2>1, <1>9, DivBound DEF f
  <2>3. l * c <= last /\ last < l * c + c BY <1>1, <2>1, <1>9, DivBound DEF l
  <2>4. f <= l
    <3>1. f * c <= last BY <2>1, <2>2, <1>3, <1>1, <1>9, ProductOfTwo
    <3> QED BY <3>1, <1>1, <2>1, <1>9, DivBound DEF l
  <2>5. l * w < Len(a.put)
    <3>1. l * w = (l * c) * elem
      <4>1. w = c * elem BY <1>1, <1>13
      <4>2. l * (c * elem) = (l * c) * elem BY <1>1, <1>2, <1>9
      <4> QED BY <4>1, <4>2
    <3> DEFINE lc == l * c
    <3>2. lc \in Nat /\ lc <= last BY <2>3, <1>1, <1>9, ProductOfTwo
    <3> HIDE DEF lc
    <3>3. lc * elem <= last * elem BY <3>2, <2>1, <1>2, TimesKeepsOrder
    <3>4. last * elem + 0 < size * elem BY <1>2, <1>4, <2>1, RowOrder
    <3>5. lc * elem \in Nat /\ last * elem \in Nat /\ size * elem \in Nat
      BY <1>2, <1>4, <2>1, <3>2, ProductOfTwo
    <3>6. lc * elem < size * elem BY <3>3, <3>4, <3>5
    <3> QED BY <3>1, <3>6, <1>2 DEF lc
  <2>6. l < L
    <3>1. Len(a.put) \in Nat BY <1>2
    <3> QED BY <2>5, <3>1, <1>1, <1>9, BlockCount
  <2>7. n = l - f + 1 BY <2>4, <2>6, <1>1, <1>9
  <2> HIDE DEF n
  <2>8. n # 0 /\ f + n - 1 = l /\ f + n = l + 1 BY <2>4, <2>7, <1>9
  <2>9. (f + n) * c = l * c + c
    <3>1. (l + 1) * c = l * c + c BY <1>1, <1>9
    <3> QED BY <3>1, <2>8
  <2> QED BY <2>2, <2>3, <2>8, <2>9
<1>14. MapOf(a, slices, f, n)
  <2> HIDE DEF n
  <2>1. f = first \div c BY DEF f
  <2>2. l = last \div c BY DEF l
  <2> QED BY <1>9, <1>11, <1>12, <1>13, <2>1, <2>2 DEF MapOf, w, c, first, last, L, elem
<1>15. f \in Nat /\ n \in Nat BY <1>9, <1>11
<1> HIDE DEF n
<1> QED BY <1>14, <1>15

\* The bytes of these blocks.
LEMMA BytesOfMap ==
  ASSUME NEW a, SlicedArray(a), NEW slices, NEW f, NEW n, MapOf(a, slices, f, n)
  PROVE  LET w == WrittenBlockSize(a.blocks)
             c == w \div a.elem
         IN  /\ BytesRead(a, UpFrom(f, n)) \in Seq(Nat)
             /\ Aligned(a) => ReadFrom(f, n, c * a.elem, a.elem, Product(a.shape), a.put,
                                       BytesRead(a, UpFrom(f, n)))
<1> DEFINE w     == WrittenBlockSize(a.blocks)
           c     == w \div a.elem
           plain == [k \in 1 .. n |-> Unshuffled(a.codec, a.blocks[f + k], a.elem)]
<1>1. /\ w \in Nat \ {0} /\ c \in Nat \ {0} /\ (Aligned(a) => w = c * a.elem)
      /\ Len(a.blocks) \in Nat /\ Len(a.blocks) = NumBlocks(Len(a.put), w)
      /\ \A i \in 1 .. Len(a.blocks) : Unshuffled(a.codec, a.blocks[i], a.elem) \in Seq(Nat)
      /\ BlocksAre(a.codec, a.elem, a.put, w, a.blocks)
  BY BlocksOfSliced
<1>2. f \in Nat /\ n \in Nat /\ (n = 0 \/ f + n <= Len(a.blocks)) /\ (Aligned(a) => n # 0)
  BY DEF MapOf
<1>3. UpFrom(f, n) \in Seq(Nat) /\ Len(UpFrom(f, n)) = n
      /\ \A k \in 1 .. n : UpFrom(f, n)[k] + 1 = f + k
  <2>1. UpFrom(f, n) \in [1 .. n -> Nat] BY <1>2 DEF UpFrom
  <2>2. \A k \in 1 .. n : UpFrom(f, n)[k] + 1 = f + k BY <1>2 DEF UpFrom
  <2> QED BY <2>1, <2>2, <1>2, FunctionIsSeq
<1>4. BytesRead(a, UpFrom(f, n)) = FlattenSeq(plain)
  <2> DEFINE read == UpFrom(f, n)
  <2>1. BytesRead(a, read)
          = FlattenSeq([k \in 1 .. Len(read) |-> Unshuffled(a.codec, a.blocks[read[k] + 1], a.elem)])
    BY <1>3, BytesReadAre
  <2> HIDE DEF read
  <2>2. Len(read) = n /\ \A k \in 1 .. n : read[k] + 1 = f + k BY <1>3 DEF read
  <2>3. [k \in 1 .. Len(read) |-> Unshuffled(a.codec, a.blocks[read[k] + 1], a.elem)]
          = [k \in 1 .. n |-> Unshuffled(a.codec, a.blocks[read[k] + 1], a.elem)] BY <2>2
  <2>4. [k \in 1 .. n |-> Unshuffled(a.codec, a.blocks[read[k] + 1], a.elem)] = plain
    <3>1. \A k \in 1 .. n : Unshuffled(a.codec, a.blocks[read[k] + 1], a.elem)
                              = Unshuffled(a.codec, a.blocks[f + k], a.elem)
      BY <2>2, Zenon
    <3> QED BY <3>1, Zenon
  <2> QED BY <2>1, <2>3, <2>4, Zenon DEF read
<1> HIDE DEF w, c
<1>5. \A k \in 1 .. n : f + k \in 1 .. Len(a.blocks) BY <1>1, <1>2
<1>6. plain \in [1 .. n -> Seq(Nat)]
  <2>1. \A k \in 1 .. n : plain[k] \in Seq(Nat) BY <1>1, <1>5
  <2> QED BY <2>1
<1>7. plain \in Seq(Seq(Nat)) /\ Len(plain) = n BY <1>2, <1>6, FunctionIsSeq
<1>8. FlattenSeq(plain) \in Seq(Nat) BY <1>7, FlattenType
<1>9. ASSUME Aligned(a)
      PROVE  ReadFrom(f, n, c * a.elem, a.elem, Product(a.shape), a.put, FlattenSeq(plain))
  <2> DEFINE put == a.put
  <2>1. put \in Seq(Nat) /\ Len(put) = Product(a.shape) * a.elem BY DEF SlicedArray
  <2>2. BlocksFrom(put, w, f, plain)
    <3> SUFFICES ASSUME NEW k \in 1 .. n
                 PROVE plain[k] = SubSeq(put, (f + k - 1) * w + 1, Min({(f + k) * w, Len(put)}))
      BY <1>7 DEF BlocksFrom
    <3>1. f + k \in 1 .. Len(a.blocks) BY <1>5
    <3>2. plain[k] = Unshuffled(a.codec, a.blocks[f + k], a.elem) OBVIOUS
    <3> HIDE DEF plain
    <3>3. \A i \in 1 .. Len(a.blocks) :
            Unshuffled(a.codec, a.blocks[i], a.elem) = SubSeq(put, (i - 1) * w + 1, Min({i * w, Len(put)}))
      BY <1>1, Zenon DEF BlocksAre
    <3> HIDE DEF put
    <3>4. Unshuffled(a.codec, a.blocks[f + k], a.elem)
            = SubSeq(put, ((f + k) - 1) * w + 1, Min({(f + k) * w, Len(put)}))
      BY <3>1, <3>3, Zenon
    <3>5. (f + k) - 1 = f + k - 1 BY <1>2
    <3> QED BY <3>2, <3>4, <3>5, Zenon
  <2> DEFINE g == f + n - 1
  <2>3. g \in Nat /\ f <= g /\ g < NumBlocks(Len(put), w) /\ n = g - f + 1 /\ g + 1 = f + n
    BY <1>1, <1>2, <1>9
  <2> HIDE DEF plain, g, put
  <2>4. BytesFrom(put, w, f, g, FlattenSeq(plain))
    <3>1. w \in Nat /\ w # 0 /\ Len(plain) = g - f + 1 BY <1>1, <1>7, <2>3
    <3> QED BY <3>1, <1>2, <1>7, <2>1, <2>2, <2>3, ReadBytes
  <2>5. FlattenSeq(plain) = SubSeq(put, f * w + 1, Min({(f + n) * w, Len(put)})) BY <2>3, <2>4, Zenon DEF BytesFrom
  <2>6. w = c * a.elem BY <1>1, <1>9
  <2> QED BY <2>1, <2>5, <2>6 DEF ReadFrom, put
<1> HIDE DEF plain
<1> QED BY <1>4, <1>8, <1>9 DEF w, c

\* The elements between the bounds of the slice, as get_slice copies them.
Box(a, slices, read) ==
  extractElements(BytesRead(a, read), createExtractionPlan(a, slices, read),
                  WrittenBlockSize(a.blocks), a.elem, Product(Widths(Normalized(a.shape, slices))))

\* createExtractionPlan is the ranges of all rows, one row after the other.
LEMMA PlanIs ==
  ASSUME NEW a, NEW slices, NEW read, NEW N \in Nat,
         NEW rows, rows = RowStarts(a.shape, Normalized(a.shape, slices)), DOMAIN rows = 1 .. N
  PROVE  LET spec == Normalized(a.shape, slices)
         IN  createExtractionPlan(a, slices, read)
               = FlattenSeq([r \in 1 .. N |->
                   RangesOf(WrittenBlockSize(a.blocks) \div a.elem, Product(a.shape), read,
                            Width(spec[Len(spec)]), rows[r])])
<1> DEFINE spec == Normalized(a.shape, slices)
           c == WrittenBlockSize(a.blocks) \div a.elem
           size == Product(a.shape)
           width == Width(spec[Len(spec)])
<1>1. createExtractionPlan(a, slices, read)
        = FlattenSeq([r \in DOMAIN rows |-> RangesOf(c, size, read, width, rows[r])])
  BY ZenonT(40) DEF createExtractionPlan, RangesOf
<1> HIDE DEF spec, c, size, width
<1>2. [r \in DOMAIN rows |-> RangesOf(c, size, read, width, rows[r])]
        = [r \in 1 .. N |-> RangesOf(c, size, read, width, rows[r])]
  BY Zenon
<1>3. createExtractionPlan(a, slices, read)
        = FlattenSeq([r \in 1 .. N |-> RangesOf(c, size, read, width, rows[r])])
  BY <1>1, <1>2, Zenon
<1> QED BY <1>3, Zenon DEF spec, c, size, width

\* A row of the slice lies in the array, and between the bounds of the slice.
LEMMA RowIsIn ==
  ASSUME NEW shape, NEW spec, Bounded(shape, spec), NEW row \in Nat, NEW width \in Nat, width # 0,
         \A i \in Nat : i < width => row + i \in Named(shape, EveryStep(spec))
  PROVE  /\ row + width <= Product(shape)
         /\ FirstPlace(shape, spec) <= row /\ row + width <= LastPlace(shape, spec) + 1
<1> DEFINE box == Named(shape, EveryStep(spec))
           first == FirstPlace(shape, spec)
           last == LastPlace(shape, spec)
           size == Product(shape)
<1>1. /\ first \in box /\ last \in box
      /\ \A x \in box : first <= x /\ x <= last
      /\ box \subseteq 0 .. size - 1
  BY BoxBounds
<1>2. size \in Nat BY ProductType, BoundedIs
<1> DEFINE i == width - 1
<1>3. row + 0 \in box /\ row + i \in box /\ row + 0 = row /\ row + i + 1 = row + width BY DEF i
<1> HIDE DEF box, first, last, size, i
<1>4. first \in Nat /\ last \in Nat BY <1>1, <1>2
<1>5. row + i \in 0 .. size - 1 /\ row + i <= last /\ first <= row BY <1>1, <1>3
<1>6. i = width - 1 BY DEF i
<1> QED BY <1>2, <1>4, <1>5, <1>6 DEF first, last, size

\* The ranges of every row.
RangesAre(a, slices, f, n, N, rows, rr) ==
  LET spec  == Normalized(a.shape, slices)
      c     == WrittenBlockSize(a.blocks) \div a.elem
      width == Width(spec[Len(spec)])
  IN  /\ N \in Nat /\ rows \in [1 .. N -> Nat]
      /\ rr \in Seq(Seq(Range3)) /\ Len(rr) = N
      /\ \A r \in 1 .. N : \E cut : Cuts(f, n, c, rows[r], width, rr[r], cut)

\* The plan of a slice cuts each of its rows where the blocks read begin and end.
LEMMA PlanRanges ==
  ASSUME NEW a, SlicedArray(a), NEW slices, Bounded(a.shape, Normalized(a.shape, slices)),
         NEW f, NEW n, MapOf(a, slices, f, n)
  PROVE  LET spec == Normalized(a.shape, slices)
             rows == RowStarts(a.shape, spec)
             N    == Product(RowDims(spec))
         IN  \E rr : /\ RangesAre(a, slices, f, n, N, rows, rr)
                     /\ createExtractionPlan(a, slices, UpFrom(f, n)) = FlattenSeq(rr)
<1> DEFINE spec  == Normalized(a.shape, slices)
           rows  == RowStarts(a.shape, spec)
           N     == Product(RowDims(spec))
           width == Width(spec[Len(spec)])
           c     == WrittenBlockSize(a.blocks) \div a.elem
           size  == Product(a.shape)
           rr    == [r \in 1 .. N |-> RangesOf(c, size, UpFrom(f, n), width, rows[r])]
<1>1. /\ N \in Nat /\ width \in Nat /\ width # 0
      /\ rows \in [1 .. N -> Nat]
      /\ \A k \in 1 .. N : \A i \in Nat : i < width => rows[k] + i \in Named(a.shape, EveryStep(spec))
  BY RowsAre
<1>2. c \in Nat \ {0} BY BlocksOfSliced
<1>3. f \in Nat /\ n \in Nat BY DEF MapOf
<1>4. size \in Nat BY ProductType DEF SlicedArray
<1>5. \A r \in 1 .. N : rows[r] + width <= size
  <2> SUFFICES ASSUME NEW r \in 1 .. N PROVE rows[r] + width <= size OBVIOUS
  <2> DEFINE row == rows[r]
  <2>1. row \in Nat /\ \A i \in Nat : i < width => row + i \in Named(a.shape, EveryStep(spec)) BY <1>1
  <2> HIDE DEF row, width, spec, rows, N
  <2> QED BY <2>1, <1>1, RowIsIn DEF row, spec
<1>6. createExtractionPlan(a, slices, UpFrom(f, n)) = FlattenSeq(rr)
  <2>1. DOMAIN rows = 1 .. N BY <1>1
  <2> HIDE DEF N
  <2> QED BY <1>1, <2>1, PlanIs
<1> HIDE DEF N, rows, width, c, size
<1>7. \A r \in 1 .. N : \E cut : Cuts(f, n, c, rows[r], width, rr[r], cut)
  <2> SUFFICES ASSUME NEW r \in 1 .. N PROVE \E cut : Cuts(f, n, c, rows[r], width, rr[r], cut) OBVIOUS
  <2>1. rows[r] \in Nat /\ rows[r] + width <= size BY <1>1, <1>5
  <2>2. rr[r] = RangesOf(c, size, UpFrom(f, n), width, rows[r]) OBVIOUS
  <2> HIDE DEF rr
  <2>3. \E cut : Cuts(f, n, c, rows[r], width, RangesOf(c, size, UpFrom(f, n), width, rows[r]), cut)
    BY <1>1, <1>2, <1>3, <1>4, <2>1, RowRanges
  <2> QED BY <2>2, <2>3, Zenon
<1>8. \A r \in 1 .. N : rr[r] \in Seq(Range3)
  <2> HIDE DEF rr
  <2> QED BY <1>7, Zenon DEF Cuts, Range3
<1>9. rr \in [1 .. N -> Seq(Range3)] BY <1>8
<1>10. rr \in Seq(Seq(Range3)) /\ Len(rr) = N BY <1>1, <1>9, FunctionIsSeq
<1> HIDE DEF rr
<1>11. RangesAre(a, slices, f, n, N, rows, rr) BY <1>1, <1>7, <1>10 DEF RangesAre, c, width
<1> QED BY <1>6, <1>11 DEF N, rows

\* The box: an element in it is the element of the array at its place.
BoxOf(a, spec, box) ==
  \A t \in Tuples(Widths(spec)) : \A j \in 1 .. a.elem :
    box[flatIndex(t, Widths(spec)) * a.elem + j]
      = a.put[Place(Starts(spec), Ones(Len(a.shape)), t, a.shape) * a.elem + j]

\* A row of the array, as bytes.
RowPiece(elem, put, row, width, size, piece) ==
  /\ elem \in Nat /\ put \in Seq(Int) /\ row \in Nat /\ width \in Nat /\ size \in Nat
  /\ Len(put) = size * elem /\ row + width <= size
  /\ piece = SubSeq(put, row * elem + 1, (row + width) * elem)

\* Where an element of the row lies in it.
LEMMA PieceOfRow ==
  ASSUME NEW elem, NEW put, NEW row, NEW width, NEW size, NEW piece,
         RowPiece(elem, put, row, width, size, piece)
  PROVE  /\ Len(piece) = width * elem
         /\ \A i \in Nat, j \in 1 .. elem :
              i < width => /\ i * elem + j \in 1 .. width * elem
                           /\ piece[i * elem + j] = put[(row + i) * elem + j]
<1> USE DEF RowPiece
<1> DEFINE p == row * elem
           q == (row + width) * elem
<1>1. p \in Nat /\ q \in Nat /\ p <= q /\ q <= Len(put)
  <2>1. row + width \in Nat OBVIOUS
  <2>2. p <= q /\ p \in Nat /\ q \in Nat BY <2>1, TimesKeepsOrder
  <2>3. q <= size * elem BY <2>1, TimesKeepsOrder
  <2> QED BY <2>2, <2>3
<1>2. q - p = width * elem
  <2>1. (row + width) * elem = row * elem + width * elem OBVIOUS
  <2>2. width * elem \in Nat /\ row * elem \in Nat BY ProductOfTwo
  <2> QED BY <2>1, <2>2
<1> HIDE DEF p, q
<1>3. Len(piece) = q - p /\ \A j \in 1 .. q - p : piece[j] = put[p + j]
  BY <1>1, PartIs DEF p, q
<1>4. ASSUME NEW i \in Nat, NEW j \in 1 .. elem, i < width
      PROVE  i * elem + j \in 1 .. width * elem /\ piece[i * elem + j] = put[(row + i) * elem + j]
  <2> DEFINE k == i * elem
  <2>1. k \in Nat BY ProductOfTwo
  <2>2. k + elem <= width * elem
    <3>1. (i + 1) * elem = k + elem OBVIOUS
    <3>2. (i + 1) * elem <= width * elem BY <1>4, TimesKeepsOrder
    <3> QED BY <3>1, <3>2
  <2>3. (row + i) * elem = p + k BY DEF p
  <2> HIDE DEF k
  <2>4. k + j \in 1 .. q - p /\ p + (k + j) = (p + k) + j
    <3>1. width * elem \in Nat BY ProductOfTwo
    <3> DEFINE m == width * elem
    <3> HIDE DEF m
    <3>2. k + j \in 1 .. m BY <2>1, <2>2, <3>1 DEF m
    <3> QED BY <1>1, <1>2, <2>1, <3>2 DEF m
  <2>5. piece[k + j] = put[(p + k) + j] BY <1>3, <2>4
  <2> QED BY <1>2, <2>3, <2>4, <2>5 DEF k
<1> QED BY <1>2, <1>3, <1>4

\* extractElements makes this box, of the right size whatever the block size.
LEMMA BoxIs ==
  ASSUME NEW a, SlicedArray(a), NEW slices, Bounded(a.shape, Normalized(a.shape, slices)),
         NEW f, NEW n, MapOf(a, slices, f, n)
  PROVE  LET spec == Normalized(a.shape, slices)
             box  == Box(a, slices, UpFrom(f, n))
         IN  /\ box \in Seq(Int) /\ Len(box) = Product(Widths(spec)) * a.elem
             /\ Product(Widths(spec)) \in Nat
             /\ Aligned(a) => BoxOf(a, spec, box)
<1> DEFINE spec  == Normalized(a.shape, slices)
           rows  == RowStarts(a.shape, spec)
           N     == Product(RowDims(spec))
           width == Width(spec[Len(spec)])
           w     == WrittenBlockSize(a.blocks)
           c     == w \div a.elem
           size  == Product(a.shape)
           elem  == a.elem
           put   == a.put
           total == Product(Widths(spec))
           bytes == BytesRead(a, UpFrom(f, n))
           box   == Box(a, slices, UpFrom(f, n))
           most  == width * elem
<1>1. PICK rr : /\ RangesAre(a, slices, f, n, N, rows, rr)
                /\ createExtractionPlan(a, slices, UpFrom(f, n)) = FlattenSeq(rr)
  BY PlanRanges
<1>2. /\ N \in Nat /\ rows \in [1 .. N -> Nat]
      /\ rr \in Seq(Seq(Range3)) /\ Len(rr) = N
      /\ \A r \in 1 .. N : \E cut : Cuts(f, n, c, rows[r], width, rr[r], cut)
  BY <1>1 DEF RangesAre
<1>3. /\ width \in Nat /\ width # 0 /\ total = N * width
      /\ \A k \in 1 .. N : \A i \in Nat : i < width => rows[k] + i \in Named(a.shape, EveryStep(spec))
      /\ \A t \in Tuples(Widths(spec)) : \E k \in 1 .. N : \E i \in Nat :
           /\ i < width /\ flatIndex(t, Widths(spec)) = (k - 1) * width + i
           /\ Place(Starts(spec), Ones(Len(a.shape)), t, a.shape) = rows[k] + i
  BY RowsAre, SMTT(30)
<1>4. bytes \in Seq(Nat) /\ (Aligned(a) => ReadFrom(f, n, c * elem, elem, size, put, bytes))
  BY BytesOfMap
<1>5. bytes \in Seq(Int) BY <1>4
<1>6. w \in Nat \ {0} /\ c \in Nat \ {0} /\ (Aligned(a) => w = c * elem) BY BlocksOfSliced
<1>7. elem \in Nat /\ elem # 0 /\ put \in Seq(Nat) /\ Len(put) = size * elem /\ size \in Nat
  BY ProductType DEF SlicedArray
<1>8. put \in Seq(Int) BY <1>7
<1>9. f \in Nat /\ n \in Nat BY DEF MapOf
<1>10. box = extractElements(bytes, FlattenSeq(rr), w, elem, total) BY <1>1, Zenon DEF Box
<1>11. \A r \in 1 .. N : /\ rows[r] + width <= size
                         /\ FirstPlace(a.shape, spec) <= rows[r]
                         /\ rows[r] + width <= LastPlace(a.shape, spec) + 1
  <2> SUFFICES ASSUME NEW r \in 1 .. N
               PROVE  /\ rows[r] + width <= size
                      /\ FirstPlace(a.shape, spec) <= rows[r]
                      /\ rows[r] + width <= LastPlace(a.shape, spec) + 1
    OBVIOUS
  <2> DEFINE row == rows[r]
  <2>1. row \in Nat /\ \A i \in Nat : i < width => row + i \in Named(a.shape, EveryStep(spec))
    BY <1>2, <1>3
  <2> HIDE DEF row, width, spec, rows, N
  <2> QED BY <2>1, <1>3, RowIsIn DEF row, spec
<1> HIDE DEF rows, N, width, w, c, size, total, bytes, box, elem, put
<1> DEFINE pieces == [r \in 1 .. N |-> FlattenSeq(CopiesOf(bytes, w, elem, rr[r]))]
<1>12. most \in Nat /\ N * most = total * elem
  <2>1. N * (width * elem) = (N * width) * elem BY <1>2, <1>3, <1>7
  <2> QED BY <2>1, <1>3, <1>7, ProductOfTwo
<1>13. total \in Nat BY <1>2, <1>3, ProductOfTwo
<1> HIDE DEF most
<1>14. \A r \in 1 .. N : /\ FlattenSeq(CopiesOf(bytes, w, elem, rr[r])) \in Seq(Int)
                         /\ Len(FlattenSeq(CopiesOf(bytes, w, elem, rr[r]))) <= most
  <2> SUFFICES ASSUME NEW r \in 1 .. N
               PROVE  /\ FlattenSeq(CopiesOf(bytes, w, elem, rr[r])) \in Seq(Int)
                      /\ Len(FlattenSeq(CopiesOf(bytes, w, elem, rr[r]))) <= most
    OBVIOUS
  <2>1. PICK cut : Cuts(f, n, c, rows[r], width, rr[r], cut) BY <1>2
  <2>2. rows[r] \in Nat BY <1>2
  <2> QED BY <2>1, <2>2, <1>3, <1>5, <1>6, <1>7, RowLength DEF most
<1>15. /\ box \in Seq(Int) /\ Len(box) = total * elem
       /\ Len(FlattenSeq(pieces)) = total * elem => box = FlattenSeq(pieces)
  <2>1. Len(rr) * most = total * elem BY <1>2, <1>12
  <2>2. \A r \in 1 .. Len(rr) : /\ FlattenSeq(CopiesOf(bytes, w, elem, rr[r])) \in Seq(Int)
                                /\ Len(FlattenSeq(CopiesOf(bytes, w, elem, rr[r]))) <= most
    BY <1>2, <1>14
  <2> DEFINE x == extractElements(bytes, FlattenSeq(rr), w, elem, total)
             rows2 == [i \in 1 .. Len(rr) |-> FlattenSeq(CopiesOf(bytes, w, elem, rr[i]))]
  <2>3. x \in Seq(Int) /\ Len(x) = total * elem
        /\ (Len(FlattenSeq(rows2)) = total * elem => x = FlattenSeq(rows2))
    <3>1. RowsCopied(bytes, w, elem, rr, total, most)
      BY <2>1, <2>2, <1>2, <1>5, <1>6, <1>7, <1>12, <1>13 DEF RowsCopied
    <3> QED BY <3>1, ExtractIs
  <2>4. rows2 = pieces BY <1>2
  <2>5. x = box BY <1>10
  <2> QED BY <2>3, <2>4, <2>5, Zenon
<1>16. ASSUME Aligned(a) PROVE BoxOf(a, spec, box)
  <2>1. \A r \in 1 .. N : pieces[r] = SubSeq(put, rows[r] * elem + 1, (rows[r] + width) * elem)
    <3> SUFFICES ASSUME NEW r \in 1 .. N
                 PROVE pieces[r] = SubSeq(put, rows[r] * elem + 1, (rows[r] + width) * elem) OBVIOUS
    <3> DEFINE row == rows[r]
    <3>1. PICK cut : Cuts(f, n, c, row, width, rr[r], cut) BY <1>2
    <3>2. row \in Nat /\ row + width <= size BY <1>2, <1>11
    <3>3. f * c <= row /\ row + width <= (f + n) * c
      <4> DEFINE first == FirstPlace(a.shape, spec)
                 last == LastPlace(a.shape, spec)
                 fc == f * c
                 nc == (f + n) * c
      <4>1. fc <= first /\ last < nc BY <1>16 DEF MapOf, c, w
      <4>2. first <= row /\ row + width <= last + 1 BY <1>11
      <4>3. fc \in Nat /\ nc \in Nat
        <5>1. f + n \in Nat BY <1>9
        <5> QED BY <5>1, <1>6, <1>9, ProductOfTwo
      <4>4. first \in Nat /\ last \in Nat
        <5> DEFINE bx == Named(a.shape, EveryStep(spec))
        <5>1. first \in bx /\ last \in bx /\ bx \subseteq 0 .. Product(a.shape) - 1 BY BoxBounds
        <5>2. Product(a.shape) \in Nat BY <1>7 DEF size
        <5> HIDE DEF first, last, bx
        <5> QED BY <5>1, <5>2
      <4> HIDE DEF first, last, fc, nc, row
      <4>5. fc <= row /\ row + width <= nc BY <4>1, <4>2, <4>3, <4>4, <3>2, <1>3
      <4> QED BY <4>5 DEF fc, nc
    <3>4. ReadFrom(f, n, c * elem, elem, size, put, bytes) BY <1>4, <1>16
    <3> HIDE DEF row
    <3>5. FlattenSeq(CopiesOf(bytes, c * elem, elem, rr[r]))
            = SubSeq(put, row * elem + 1, (row + width) * elem)
      <4>1. RowRead(f, n, c, elem, size, row, width, put, bytes)
        BY <3>2, <3>3, <3>4, <1>3, <1>5, <1>6, <1>7, <1>8, <1>9 DEF RowRead
      <4> QED BY <3>1, <4>1, RowBytes
    <3>6. pieces[r] = FlattenSeq(CopiesOf(bytes, c * elem, elem, rr[r]))
      <4>1. w = c * elem BY <1>6, <1>16
      <4> QED BY <4>1, Zenon
    <3> QED BY <3>5, <3>6, Zenon DEF row
  <2>2. \A r \in 1 .. N :
          /\ Len(pieces[r]) = most
          /\ \A i \in Nat, j \in 1 .. elem :
               i < width => /\ i * elem + j \in 1 .. most
                            /\ pieces[r][i * elem + j] = put[(rows[r] + i) * elem + j]
    <3> SUFFICES ASSUME NEW r \in 1 .. N
                 PROVE  /\ Len(pieces[r]) = most
                        /\ \A i \in Nat, j \in 1 .. elem :
                             i < width => /\ i * elem + j \in 1 .. most
                                          /\ pieces[r][i * elem + j] = put[(rows[r] + i) * elem + j]
      OBVIOUS
    <3> DEFINE row == rows[r]
               piece == pieces[r]
    <3>1. row \in Nat /\ row + width <= size BY <1>2, <1>11
    <3>2. piece = SubSeq(put, row * elem + 1, (row + width) * elem) BY <2>1
    <3> HIDE DEF row, piece
    <3>3. /\ Len(piece) = width * elem
          /\ \A i \in Nat, j \in 1 .. elem :
               i < width => /\ i * elem + j \in 1 .. width * elem
                            /\ piece[i * elem + j] = put[(row + i) * elem + j]
      <4>1. RowPiece(elem, put, row, width, size, piece) BY <3>1, <3>2, <1>3, <1>7, <1>8 DEF RowPiece
      <4> QED BY <4>1, PieceOfRow
    <3> QED BY <3>3, Zenon DEF row, piece, most
  <2>3. pieces \in Seq(Seq(Int)) /\ Len(pieces) = N
    <3>1. pieces \in [1 .. N -> Seq(Int)] BY <1>14
    <3> HIDE DEF pieces
    <3> QED BY <3>1, <1>2, FunctionIsSeq
  <2>4. most # 0
    <3>1. 0 * elem + 0 < width * elem BY <1>3, <1>7, RowOrder
    <3> QED BY <3>1, <1>7 DEF most
  <2> HIDE DEF pieces
  <2>5. /\ Len(FlattenSeq(pieces)) = N * most
        /\ \A k \in 1 .. N, j \in 1 .. most : FlattenSeq(pieces)[(k - 1) * most + j] = pieces[k][j]
    <3>1. most \in Nat \ {0} /\ DOMAIN pieces = 1 .. N BY <1>12, <2>3, <2>4
    <3>2. \A k \in DOMAIN pieces : Len(pieces[k]) = most BY <2>2, <3>1
    <3>3. Pieced(Int, most, pieces) BY <2>3, <3>1, <3>2 DEF Pieced
    <3>4. Joined(Int, most, pieces, FlattenSeq(pieces)) BY <3>3, EqualPieces
    <3> QED BY <2>3, <3>4 DEF Joined
  <2>6. box = FlattenSeq(pieces) BY <1>12, <1>15, <2>5
  <2> SUFFICES ASSUME NEW t \in Tuples(Widths(spec)), NEW j \in 1 .. elem
               PROVE  box[flatIndex(t, Widths(spec)) * elem + j]
                       = put[Place(Starts(spec), Ones(Len(a.shape)), t, a.shape) * elem + j]
    BY DEF BoxOf, elem, put
  <2>7. PICK k \in 1 .. N : \E i \in Nat :
           /\ i < width /\ flatIndex(t, Widths(spec)) = (k - 1) * width + i
           /\ Place(Starts(spec), Ones(Len(a.shape)), t, a.shape) = rows[k] + i
    BY <1>3
  <2>8. PICK i \in Nat :
           /\ i < width /\ flatIndex(t, Widths(spec)) = (k - 1) * width + i
           /\ Place(Starts(spec), Ones(Len(a.shape)), t, a.shape) = rows[k] + i
    BY <2>7
  <2>9. ((k - 1) * width + i) * elem + j = (k - 1) * most + (i * elem + j)
    <3>1. k - 1 \in Nat BY <1>2
    <3> DEFINE kk == k - 1
    <3> HIDE DEF kk
    <3>2. (kk * width + i) * elem = kk * (width * elem) + i * elem BY <3>1, <1>3, <1>7 DEF kk
    <3>3. kk * (width * elem) \in Nat /\ i * elem \in Nat
      BY <3>1, <1>3, <1>7, <1>12, ProductOfTwo DEF kk, most
    <3>4. (kk * (width * elem) + i * elem) + j = kk * (width * elem) + (i * elem + j)
      BY <3>3, <1>7
    <3> QED BY <3>2, <3>4, Zenon DEF kk, most
  <2>10. i * elem + j \in 1 .. most /\ pieces[k][i * elem + j] = put[(rows[k] + i) * elem + j]
    BY <2>2, <2>8
  <2> DEFINE z == i * elem + j
  <2>11. box[(k - 1) * most + z] = pieces[k][z]
    <3>1. z \in 1 .. most BY <2>10
    <3> HIDE DEF z
    <3> QED BY <2>5, <2>6, <3>1, Zenon
  <2>12. box[((k - 1) * width + i) * elem + j] = put[(rows[k] + i) * elem + j]
    BY <2>9, <2>10, <2>11, Zenon
  <2> QED BY <2>8, <2>12, Zenon
<1> QED BY <1>13, <1>15, <1>16 DEF total, elem, box
--------------------------------------------------------------------------------
(* The steps of a slice.                                                   *)

\* Elements picked out of a buffer, one after the other.
PickedFrom(buf, elem, A) ==
  LET places == Ascending(A)
  IN  FlattenSeq([k \in DOMAIN places |-> SubSeq(buf, places[k] * elem + 1, (places[k] + 1) * elem)])

\* They are in the order of the tuples that name them.
InOrder(buf, elem, dims, lo, step, shape, data) ==
  /\ Len(data) = Product(dims) * elem
  /\ \A t \in Tuples(dims) : \A j \in 1 .. elem :
       data[flatIndex(t, dims) * elem + j] = buf[Place(lo, step, t, shape) * elem + j]

\* A buffer that holds the elements of an array.
HoldsElements(E, buf, elem, shape) ==
  elem \in Nat /\ elem # 0 /\ buf \in Seq(E) /\ Len(buf) = Product(shape) * elem

\* Picking in ascending order gives the order of the tuples.
LEMMA PickedAre ==
  ASSUME NEW dims, NEW lo, NEW step, NEW shape, Within(dims, lo, step, shape),
         NEW E, NEW buf, NEW elem, HoldsElements(E, buf, elem, shape)
  PROVE  /\ PickedFrom(buf, elem, Places(dims, lo, step, shape)) \in Seq(E)
         /\ InOrder(buf, elem, dims, lo, step, shape,
                    PickedFrom(buf, elem, Places(dims, lo, step, shape)))
<1> DEFINE A      == Places(dims, lo, step, shape)
           places == Ascending(A)
           m      == Product(dims)
           size   == Product(shape)
           pieces == [k \in 1 .. m |-> SubSeq(buf, places[k] * elem + 1, (places[k] + 1) * elem)]
           data   == FlattenSeq(pieces)
<1>1. /\ m \in Nat /\ places \in [1 .. m -> A]
      /\ \A t \in Tuples(dims) : places[flatIndex(t, dims) + 1] = Place(lo, step, t, shape)
  BY AscendingPlaces
<1>2. elem \in Nat /\ elem # 0 /\ buf \in Seq(E) /\ Len(buf) = size * elem BY DEF HoldsElements
<1>3. A \subseteq 0 .. size - 1
  <2>1. \A t \in Tuples(dims) : Place(lo, step, t, shape) \in 0 .. Product(shape) - 1 BY StepsOn
  <2> QED BY <2>1, Zenon DEF Places
<1>4. size \in Nat BY ProductType DEF Within
<1>5. PickedFrom(buf, elem, A) = data
  <2>1. DOMAIN places = 1 .. m BY <1>1
  <2> HIDE DEF m, A
  <2> QED BY <2>1, Zenon DEF PickedFrom
<1> HIDE DEF places, m, size, A
<1>6. \A k \in 1 .. m : /\ pieces[k] \in Seq(E) /\ Len(pieces[k]) = elem
                        /\ \A j \in 1 .. elem : pieces[k][j] = buf[places[k] * elem + j]
  <2> SUFFICES ASSUME NEW k \in 1 .. m
               PROVE  /\ pieces[k] \in Seq(E) /\ Len(pieces[k]) = elem
                      /\ \A j \in 1 .. elem : pieces[k][j] = buf[places[k] * elem + j]
    OBVIOUS
  <2> DEFINE p == places[k]
             a == p * elem
             b == (p + 1) * elem
             piece == pieces[k]
  <2>1. p \in Nat /\ p + 1 <= size
    <3>1. p \in A BY <1>1
    <3>2. p \in 0 .. size - 1 BY <3>1, <1>3
    <3> HIDE DEF p
    <3> QED BY <3>2, <1>4
  <2>2. piece = SubSeq(buf, a + 1, b) OBVIOUS
  <2>3. b = a + elem /\ a \in Nat BY <1>2, <2>1, ProductOfTwo
  <2>4. b <= Len(buf) BY <1>2, <1>4, <2>1, TimesKeepsOrder
  <2> HIDE DEF piece, a, b
  <2>5. b \in Nat /\ a <= b /\ b - a = elem BY <1>2, <2>3
  <2>6. piece \in Seq(E) /\ Len(piece) = b - a /\ \A j \in 1 .. b - a : piece[j] = buf[a + j]
    BY <1>2, <2>2, <2>3, <2>4, <2>5, PartIs
  <2>7. piece \in Seq(E) /\ Len(piece) = elem /\ \A j \in 1 .. elem : piece[j] = buf[a + j]
    BY <2>5, <2>6
  <2> QED BY <2>7 DEF piece, a
<1>7. pieces \in Seq(Seq(E)) /\ Len(pieces) = m /\ DOMAIN pieces = 1 .. m
  <2>1. pieces \in [1 .. m -> Seq(E)] BY <1>6
  <2> HIDE DEF pieces
  <2> QED BY <2>1, <1>1, FunctionIsSeq
<1> HIDE DEF pieces
<1>8. Pieced(E, elem, pieces) BY <1>2, <1>6, <1>7 DEF Pieced
<1>9. Joined(E, elem, pieces, data) BY <1>8, EqualPieces
<1>10. data \in Seq(E) /\ Len(data) = m * elem
       /\ \A k \in 1 .. m, j \in 1 .. elem : data[(k - 1) * elem + j] = pieces[k][j]
  BY <1>7, <1>9 DEF Joined
<1> HIDE DEF data
<1>11. ASSUME NEW t \in Tuples(dims), NEW j \in 1 .. elem
       PROVE  data[flatIndex(t, dims) * elem + j] = buf[Place(lo, step, t, shape) * elem + j]
  <2> DEFINE x == flatIndex(t, dims)
             k == x + 1
  <2>1. x \in 0 .. m - 1
    <3>1. dims \in Seq(Nat) /\ Len(dims) \in 1 .. 3 BY DEF Within
    <3> QED BY <3>1, FlatRange DEF m
  <2>2. places[k] = Place(lo, step, t, shape) BY <1>1
  <2> HIDE DEF x
  <2>3. k \in 1 .. m /\ k - 1 = x BY <1>1, <2>1
  <2> HIDE DEF k
  <2>4. data[(k - 1) * elem + j] = pieces[k][j] BY <1>10, <2>3
  <2>5. pieces[k][j] = buf[places[k] * elem + j] BY <1>6, <2>3
  <2>6. data[x * elem + j] = buf[Place(lo, step, t, shape) * elem + j]
    BY <2>2, <2>3, <2>4, <2>5, Zenon
  <2> QED BY <2>6 DEF x
<1>12. InOrder(buf, elem, dims, lo, step, shape, data) BY <1>10, <1>11 DEF InOrder, m
<1> QED BY <1>5, <1>10, <1>12 DEF A

\* The steps of a slice, taken out of its box.
LEMMA FilterIs ==
  ASSUME NEW shape, NEW spec, Bounded(shape, spec),
         NEW E, NEW box, NEW elem, HoldsElements(E, box, elem, Widths(spec))
  PROVE  /\ StepFilter(box, spec, elem) \in Seq(E)
         /\ InOrder(box, elem, Lengths(spec), Naughts(Len(shape)), Steps(spec), Widths(spec),
                    StepFilter(box, spec, elem))
<1> DEFINE n  == Len(spec)
           W  == Widths(spec)
           L  == Lengths(spec)
           lo == Naughts(Len(shape))
           st == Steps(spec)
           A  == {flatIndex(t, W) :
                    t \in {u \in [1 .. n -> 0 .. Max(Range(W))] :
                             \A d \in 1 .. n : u[d] < W[d] /\ u[d] % spec[d].step = 0}}
<1>1. Within(L, lo, st, W) /\ A = Places(L, lo, st, W) BY PickedWithin
<1>2. StepFilter(box, spec, elem)
        = IF \E d \in 1 .. n : spec[d].step > 1 THEN PickedFrom(box, elem, A) ELSE box
  BY DEF StepFilter, PickedFrom, Widths
<1>3. CASE \E d \in 1 .. n : spec[d].step > 1
  <2>1. StepFilter(box, spec, elem) = PickedFrom(box, elem, Places(L, lo, st, W))
    BY <1>1, <1>2, <1>3
  <2>2. /\ PickedFrom(box, elem, Places(L, lo, st, W)) \in Seq(E)
        /\ InOrder(box, elem, L, lo, st, W, PickedFrom(box, elem, Places(L, lo, st, W)))
    BY <1>1, PickedAre
  <2> QED BY <2>1, <2>2, Zenon
<1>4. CASE ~\E d \in 1 .. n : spec[d].step > 1
  <2>1. StepFilter(box, spec, elem) = box BY <1>2, <1>4
  <2>2. /\ n = Len(shape) /\ n \in 1 .. 3
        /\ \A d \in 1 .. n : /\ spec[d].start \in Nat /\ spec[d].stop \in Nat
                             /\ spec[d].step \in Nat \ {0} /\ spec[d].start < spec[d].stop
        /\ spec \in [1 .. Len(shape) -> [start : Nat, stop : Nat, step : Nat \ {0}]]
    BY BoundedIs DEF Bounded
  <2>3. \A d \in 1 .. n : spec[d].step = 1 BY <1>4, <2>2
  <2>4. L = W
    <3>1. \A d \in 1 .. n : Length(spec[d]) = Width(spec[d])
      <4> SUFFICES ASSUME NEW d \in 1 .. n PROVE Length(spec[d]) = Width(spec[d]) OBVIOUS
      <4>1. spec[d] \in [start : Nat, stop : Nat, step : Nat \ {0}] /\ spec[d].start < spec[d].stop
            /\ spec[d].step = 1
        BY <2>2, <2>3
      <4> QED BY <4>1, SliceReach
    <3> QED BY <3>1 DEF Lengths, Widths
  <2>5. \A t \in Tuples(L) : Place(lo, st, t, W) = flatIndex(t, W)
    <3> SUFFICES ASSUME NEW t \in Tuples(L) PROVE Place(lo, st, t, W) = flatIndex(t, W) OBVIOUS
    <3>1. Len(L) = n /\ Len(W) = n BY <2>2 DEF Lengths, Widths
    <3>2. t \in [1 .. n -> Nat] BY <3>1 DEF Tuples
    <3>3. [d \in 1 .. Len(W) |-> lo[d] + st[d] * t[d]] = t
      BY <2>2, <2>3, <3>1, <3>2 DEF Naughts, Steps
    <3> QED BY <3>3, Zenon DEF Place
  <2>6. InOrder(box, elem, L, lo, st, W, box)
    <3>1. Len(box) = Product(W) * elem BY DEF HoldsElements
    <3> HIDE DEF L, W, lo, st
    <3> QED BY <2>4, <2>5, <3>1 DEF InOrder
  <2>7. box \in Seq(E) BY DEF HoldsElements
  <2> QED BY <2>1, <2>6, <2>7, Zenon
<1> QED BY <1>3, <1>4

\* Two buffers of elements in the same order are the same.
LEMMA SameOrder ==
  ASSUME NEW dims \in Seq(Nat), Len(dims) \in 1 .. 3, NEW elem \in Nat, elem # 0,
         NEW x \in Seq(Int), NEW y \in Seq(Int),
         Len(x) = Product(dims) * elem, Len(y) = Product(dims) * elem,
         \A t \in Tuples(dims) : \A j \in 1 .. elem :
           x[flatIndex(t, dims) * elem + j] = y[flatIndex(t, dims) * elem + j]
  PROVE  x = y
<1> DEFINE m == Product(dims)
<1>1. m \in Nat BY ProductType
<1>2. \A p \in 0 .. m - 1 : \E t \in Tuples(dims) : flatIndex(t, dims) = p BY FlatRange
<1> HIDE DEF m
<1>3. \A k \in 1 .. m, j \in 1 .. elem : x[(k - 1) * elem + j] = y[(k - 1) * elem + j]
  <2> SUFFICES ASSUME NEW k \in 1 .. m, NEW j \in 1 .. elem
               PROVE x[(k - 1) * elem + j] = y[(k - 1) * elem + j] OBVIOUS
  <2> DEFINE p == k - 1
  <2>1. p \in 0 .. m - 1 BY <1>1
  <2> HIDE DEF p
  <2>2. PICK t \in Tuples(dims) : flatIndex(t, dims) = p BY <1>2, <2>1
  <2>3. x[p * elem + j] = y[p * elem + j] BY <2>2, Zenon
  <2> QED BY <2>3 DEF p
<1>4. Len(x) = m * elem /\ Len(y) = m * elem BY DEF m
<1> QED BY <1>1, <1>3, <1>4, SameBytes

\* From the array to the box and from the box to the steps, or at once.
LEMMA TwoSteps ==
  ASSUME NEW shape, NEW spec, Bounded(shape, spec), NEW t \in Tuples(Lengths(spec))
  PROVE  \E u \in Tuples(Widths(spec)) :
           /\ Place(Naughts(Len(shape)), Steps(spec), t, Widths(spec)) = flatIndex(u, Widths(spec))
           /\ Place(Starts(spec), Ones(Len(shape)), u, shape) = Place(Starts(spec), Steps(spec), t, shape)
<1> DEFINE n  == Len(shape)
           W  == Widths(spec)
           lo == Naughts(n)
           st == Steps(spec)
           u  == [d \in 1 .. Len(W) |-> lo[d] + st[d] * t[d]]
<1>1. Within(Lengths(spec), lo, st, W) BY PickedWithin
<1>2. u \in Tuples(W) BY <1>1, StepsOn
<1>3. Place(lo, st, t, W) = flatIndex(u, W) BY DEF Place
<1>4. /\ n \in 1 .. 3 /\ Len(spec) = n
      /\ \A d \in 1 .. n : spec[d].start \in Nat /\ spec[d].step \in Nat
  BY BoundedIs
<1>5. Len(W) = n /\ Len(Lengths(spec)) = n BY <1>4 DEF Widths, Lengths
<1>6. t \in [1 .. n -> Nat] BY <1>5 DEF Tuples
<1>7. [d \in 1 .. n |-> Starts(spec)[d] + Ones(n)[d] * u[d]]
        = [d \in 1 .. n |-> Starts(spec)[d] + st[d] * t[d]]
  <2> SUFFICES ASSUME NEW d \in 1 .. n
               PROVE Starts(spec)[d] + Ones(n)[d] * u[d] = Starts(spec)[d] + st[d] * t[d]
    OBVIOUS
  <2>1. lo[d] = 0 /\ st[d] = spec[d].step /\ Starts(spec)[d] = spec[d].start /\ Ones(n)[d] = 1
    BY <1>4 DEF Naughts, Steps, Starts, Ones
  <2>2. u[d] = lo[d] + st[d] * t[d] BY <1>5
  <2> DEFINE y == spec[d].step * t[d]
  <2>3. y \in Nat
    <3>1. spec[d].step \in Nat /\ t[d] \in Nat BY <1>4, <1>6
    <3> QED BY <3>1, ProductOfTwo
  <2> HIDE DEF u, lo, st, y
  <2>4. u[d] = y BY <2>1, <2>2, <2>3 DEF y
  <2> QED BY <2>1, <2>3, <2>4, <1>4 DEF y
<1>8. Place(Starts(spec), Ones(n), u, shape) = Place(Starts(spec), st, t, shape)
  BY <1>7, Zenon DEF Place
<1> QED BY <1>2, <1>3, <1>8

\* What get_slice answers, of an array of numbers.
LEMMA SliceOfArray ==
  ASSUME NEW a, SlicedArray(a), a.kind # "strings", NEW slices,
         Bounded(a.shape, Normalized(a.shape, slices)),
         NEW f, NEW n, MapOf(a, slices, f, n)
  PROVE  LET spec == Normalized(a.shape, slices)
             data == StepFilter(Box(a, slices, UpFrom(f, n)), spec, a.elem)
         IN  /\ Len(data) = Product(Lengths(spec)) * a.elem
             /\ Aligned(a) => data = Elements(a, Named(a.shape, spec))
<1> DEFINE spec  == Normalized(a.shape, slices)
           shape == a.shape
           elem  == a.elem
           put   == a.put
           box   == Box(a, slices, UpFrom(f, n))
           data  == StepFilter(box, spec, elem)
           L     == Lengths(spec)
           W     == Widths(spec)
           named == PickedFrom(put, elem, Named(shape, spec))
<1>1. /\ box \in Seq(Int) /\ Len(box) = Product(W) * elem
      /\ Aligned(a) => BoxOf(a, spec, box)
  BY BoxIs
<1>2. elem \in Nat /\ elem # 0 /\ put \in Seq(Nat) /\ Len(put) = Product(shape) * elem BY DEF SlicedArray
<1> HIDE DEF box
<1>3. HoldsElements(Int, box, elem, W) BY <1>1, <1>2 DEF HoldsElements
<1>4. HoldsElements(Int, put, elem, shape) BY <1>2 DEF HoldsElements
<1>5. data \in Seq(Int) /\ InOrder(box, elem, L, Naughts(Len(shape)), Steps(spec), W, data)
  <2> HIDE DEF spec
  <2> QED BY <1>3, FilterIs DEF spec
<1>6. named \in Seq(Int) /\ InOrder(put, elem, L, Starts(spec), Steps(spec), shape, named)
  <2>1. /\ Within(L, Starts(spec), Steps(spec), shape)
        /\ Named(shape, spec) = Places(L, Starts(spec), Steps(spec), shape)
    BY NamedWithin
  <2> DEFINE A == Places(L, Starts(spec), Steps(spec), shape)
  <2>2. /\ PickedFrom(put, elem, A) \in Seq(Int)
        /\ InOrder(put, elem, L, Starts(spec), Steps(spec), shape, PickedFrom(put, elem, A))
    BY <2>1, <1>4, PickedAre
  <2> QED BY <2>1, <2>2, Zenon
<1>7. Elements(a, Named(shape, spec)) = named BY DEF Elements, PickedFrom
<1>8. L \in Seq(Nat) /\ Len(L) \in 1 .. 3
  <2>1. Within(L, Starts(spec), Steps(spec), shape) BY NamedWithin
  <2> QED BY <2>1 DEF Within
<1>9. Len(data) = Product(L) * elem /\ Len(named) = Product(L) * elem BY <1>5, <1>6 DEF InOrder
<1>10. ASSUME Aligned(a) PROVE data = named
  <2>1. BoxOf(a, spec, box) BY <1>1, <1>10
  <2> HIDE DEF data, named
  <2>2. ASSUME NEW t \in Tuples(L), NEW j \in 1 .. elem
        PROVE  data[flatIndex(t, L) * elem + j] = named[flatIndex(t, L) * elem + j]
    <3>1. data[flatIndex(t, L) * elem + j]
            = box[Place(Naughts(Len(shape)), Steps(spec), t, W) * elem + j] BY <1>5 DEF InOrder
    <3>2. named[flatIndex(t, L) * elem + j] = put[Place(Starts(spec), Steps(spec), t, shape) * elem + j]
      BY <1>6 DEF InOrder
    <3>3. PICK u \in Tuples(W) :
            /\ Place(Naughts(Len(shape)), Steps(spec), t, W) = flatIndex(u, W)
            /\ Place(Starts(spec), Ones(Len(shape)), u, shape) = Place(Starts(spec), Steps(spec), t, shape)
      BY TwoSteps
    <3>4. box[flatIndex(u, W) * elem + j] = put[Place(Starts(spec), Ones(Len(shape)), u, shape) * elem + j]
      BY <2>1 DEF BoxOf
    <3> QED BY <3>1, <3>2, <3>3, <3>4, Zenon
  <2> HIDE DEF L
  <2> QED BY <1>2, <1>5, <1>6, <1>8, <1>9, <2>2, SameOrder
<1> QED BY <1>7, <1>9, <1>10, Zenon DEF box

\* The blocks of a slice, when no element crosses the end of a block.
LEMMA BlocksHold ==
  ASSUME NEW a, SlicedArray(a), Aligned(a), NEW slices,
         Bounded(a.shape, Normalized(a.shape, slices)),
         NEW f, NEW n, MapOf(a, slices, f, n)
  PROVE  LET spec  == Normalized(a.shape, slices)
             box   == Named(a.shape, EveryStep(spec))
             holds == {(x * a.elem) \div WrittenBlockSize(a.blocks) : x \in box}
         IN  /\ Min(holds) = f /\ Max(holds) = f + n - 1
             /\ Min(f .. f + n - 1) = f /\ Max(f .. f + n - 1) = f + n - 1
<1> DEFINE spec  == Normalized(a.shape, slices)
           box   == Named(a.shape, EveryStep(spec))
           w     == WrittenBlockSize(a.blocks)
           c     == w \div a.elem
           elem  == a.elem
           first == FirstPlace(a.shape, spec)
           last  == LastPlace(a.shape, spec)
           size  == Product(a.shape)
           holds == {(x * elem) \div w : x \in box}
           e     == f + n - 1
<1>1. w \in Nat \ {0} /\ c \in Nat \ {0} /\ w = c * elem BY BlocksOfSliced
<1>2. elem \in Nat \ {0} /\ size \in Nat BY ProductType DEF SlicedArray
<1>3. f \in Nat /\ n \in Nat /\ n # 0 /\ f = first \div c /\ f + n - 1 = last \div c BY DEF MapOf
<1>4. /\ first \in box /\ last \in box
      /\ \A x \in box : first <= x /\ x <= last
      /\ box \subseteq 0 .. size - 1
  BY BoxBounds
<1> HIDE DEF box, w, c, elem, first, last, size
<1>5. box \subseteq Nat BY <1>2, <1>4
<1>6. \A x \in box : (x * elem) \div w = x \div c
  <2> SUFFICES ASSUME NEW x \in box PROVE (x * elem) \div w = x \div c OBVIOUS
  <2>1. x \in Nat BY <1>5
  <2>2. (x * elem) \div (c * elem) = x \div c BY <1>1, <1>2, <2>1, DivScale
  <2> QED BY <1>1, <2>2
<1>7. \A x \in box : x \div c \in Nat /\ f <= x \div c /\ x \div c <= e
  <2> SUFFICES ASSUME NEW x \in box PROVE x \div c \in Nat /\ f <= x \div c /\ x \div c <= e OBVIOUS
  <2>1. x \in Nat /\ first \in Nat /\ last \in Nat /\ first <= x /\ x <= last BY <1>4, <1>5
  <2>2. x \div c \in Nat BY <1>1, <2>1, DivModIs
  <2> DEFINE q == x \div c
             fc == f * c
             qc == q * c
             ec == e * c
  <2>3. fc <= first BY <1>1, <1>3, <2>1, DivBound
  <2>4. fc \in Nat BY <1>1, <1>3, ProductOfTwo
  <2>5. fc <= x
    <3> HIDE DEF fc
    <3> QED BY <2>1, <2>3, <2>4
  <2>6. f <= q BY <1>1, <1>3, <2>1, <2>5, DivBound
  <2>7. e \in Nat /\ last < ec + c
    <3>1. e \in Nat BY <1>3
    <3> HIDE DEF e
    <3>2. e = last \div c BY <1>3 DEF e
    <3>3. last < ec + c BY <1>1, <2>1, <3>1, <3>2, DivBound
    <3> QED BY <3>1, <3>3
  <2>8. x < ec + c
    <3>1. ec \in Nat BY <1>1, <2>7, ProductOfTwo
    <3> HIDE DEF ec
    <3> QED BY <1>1, <2>1, <2>7, <3>1
  <2>9. q <= e
    <3> HIDE DEF e
    <3> QED BY <1>1, <2>1, <2>7, <2>8, DivBound
  <2> QED BY <2>2, <2>6, <2>9
<1>8. holds \subseteq Nat /\ f \in holds /\ e \in holds /\ \A h \in holds : f <= h /\ h <= e
  <2>1. \A h \in holds : h \in Nat /\ f <= h /\ h <= e
    <3> SUFFICES ASSUME NEW x \in box
                 PROVE (x * elem) \div w \in Nat /\ f <= (x * elem) \div w /\ (x * elem) \div w <= e
      OBVIOUS
    <3> HIDE DEF e
    <3> QED BY <1>6, <1>7
  <2>2. f = (first * elem) \div w /\ e = (last * elem) \div w BY <1>3, <1>4, <1>6
  <2>3. f \in holds /\ e \in holds
    <3> HIDE DEF e
    <3> QED BY <1>4, <2>2
  <2> HIDE DEF holds, e
  <2> QED BY <2>1, <2>3
<1> HIDE DEF holds
<1>9. e \in Nat /\ f \in f .. e /\ e \in f .. e /\ f .. e \subseteq Nat /\ \A h \in f .. e : f <= h /\ h <= e
  BY <1>3
<1> DEFINE I == f .. e
<1>14. I \subseteq Nat /\ f \in I /\ e \in I /\ \A h \in I : f <= h /\ h <= e BY <1>9
<1> HIDE DEF e, I
<1>10. Min(holds) = f BY <1>8, <1>9, MinOf
<1>11. Max(holds) = e BY <1>8, <1>9, MaxOf
<1>12. Min(I) = f BY <1>14, MinOf
<1>13. Max(I) = e BY <1>14, MaxOf
<1> QED BY <1>10, <1>11, <1>12, <1>13 DEF I, e, holds, w, box, elem
--------------------------------------------------------------------------------
(* Strings.                                                                *)

\* The strings of a column, each behind its length, and where they lie in the stream.
FieldOf(string) == <<LenField(Len(string))>> \o string

\* The strings lie in the stream where the walk over their lengths comes by.
StringsLieAt(column, stream, at) ==
  /\ at \in [0 .. Len(column) -> Nat] /\ at[0] = 2
  /\ \A i \in 1 .. Len(column) :
       /\ at[i] = at[i - 1] + 1 + Len(column[i])
       /\ stream[at[i - 1]][2] = Len(column[i])
       /\ SubSeq(stream, at[i - 1] + 1, at[i - 1] + Len(column[i])) = column[i]

\* A string behind its length.
LEMMA FieldIs ==
  ASSUME NEW C, NEW string \in Seq(C), NEW E, C \subseteq E, LenField(Len(string)) \in E
  PROVE  /\ FieldOf(string) \in Seq(E) /\ Len(FieldOf(string)) = 1 + Len(string)
         /\ FieldOf(string)[1] = LenField(Len(string))
         /\ \A j \in 1 .. Len(string) : FieldOf(string)[1 + j] = string[j]
<1> DEFINE head == <<LenField(Len(string))>>
<1>1. head \in Seq(E) /\ Len(head) = 1 /\ head[1] = LenField(Len(string)) OBVIOUS
<1>2. string \in Seq(E) OBVIOUS
<1> HIDE DEF head
<1>3. /\ head \o string \in Seq(E) /\ Len(head \o string) = 1 + Len(string)
      /\ (head \o string)[1] = head[1]
      /\ \A j \in 1 .. Len(string) : (head \o string)[1 + j] = string[j]
  <2>1. /\ head \o string \in Seq(E)
        /\ Len(head \o string) = Len(head) + Len(string)
        /\ \A i \in 1 .. Len(head) : (head \o string)[i] = head[i]
        /\ \A j \in 1 .. Len(string) : (head \o string)[Len(head) + j] = string[j]
    BY <1>1, <1>2, ConcatAt
  <2> QED BY <1>1, <2>1
<1> QED BY <1>1, <1>3 DEF FieldOf, head

\* Such a field, found in a stream.
LEMMA FieldInStream ==
  ASSUME NEW E, NEW stream \in Seq(E), NEW string \in Seq(E), NEW b \in Nat,
         b + Len(string) <= Len(stream), stream[b] = LenField(Len(string)),
         \A j \in 1 .. Len(string) : stream[b + j] = string[j]
  PROVE  /\ stream[b][2] = Len(string)
         /\ SubSeq(stream, b + 1, b + Len(string)) = string
<1> DEFINE l == Len(string)
           e == b + l
           part == SubSeq(stream, b + 1, e)
<1>1. l \in Nat /\ e \in Nat /\ b <= e /\ e <= Len(stream) /\ e - b = l OBVIOUS
<1>2. LenField(l)[2] = l BY DEF LenField
<1> HIDE DEF e
<1>3. part \in Seq(E) /\ Len(part) = e - b /\ \A j \in 1 .. e - b : part[j] = stream[b + j]
  BY <1>1, PartIs
<1> HIDE DEF part
<1>4. part = [j \in 1 .. l |-> part[j]] BY <1>1, <1>3
<1>5. string = [j \in 1 .. l |-> string[j]] OBVIOUS
<1>6. part = string BY <1>1, <1>3, <1>4, <1>5
<1> QED BY <1>2, <1>6 DEF part, e

\* serialize_strings() puts every string of a column behind its length.
LEMMA StreamIs ==
  ASSUME NEW C, NEW column \in Seq(Seq(C))
  PROVE  /\ \E E : serialize_strings(column) \in Seq(E)
         /\ \E at : StringsLieAt(column, serialize_strings(column), at)
<1> DEFINE n      == Len(column)
           whole  == LenField(FoldLeft(LAMBDA k, s : k + 1 + Len(s), 0, column))
           E      == C \cup {LenField(k) : k \in Nat} \cup {whole}
           fields == [i \in 1 .. n |-> FieldOf(column[i])]
           flat   == FlattenSeq(fields)
           stream == <<whole>> \o flat
<1>1. n \in Nat /\ \A i \in 1 .. n : column[i] \in Seq(C) /\ Len(column[i]) \in Nat OBVIOUS
<1>2. serialize_strings(column) = stream
  <2>1. [i \in DOMAIN column |-> <<LenField(Len(column[i]))>> \o column[i]] = fields BY DEF FieldOf
  <2> QED BY <2>1, Zenon DEF serialize_strings
<1>3. C \subseteq E /\ whole \in E /\ \A k \in Nat : LenField(k) \in E
  <2> HIDE DEF whole
  <2> QED OBVIOUS
<1> HIDE DEF E, whole
<1>4. \A i \in 1 .. n :
        /\ fields[i] \in Seq(E) /\ Len(fields[i]) = 1 + Len(column[i])
        /\ fields[i][1] = LenField(Len(column[i]))
        /\ \A j \in 1 .. Len(column[i]) : fields[i][1 + j] = column[i][j]
  <2> SUFFICES ASSUME NEW i \in 1 .. n
               PROVE  /\ fields[i] \in Seq(E) /\ Len(fields[i]) = 1 + Len(column[i])
                      /\ fields[i][1] = LenField(Len(column[i]))
                      /\ \A j \in 1 .. Len(column[i]) : fields[i][1 + j] = column[i][j]
    OBVIOUS
  <2> DEFINE string == column[i]
             field == fields[i]
  <2>1. string \in Seq(C) /\ LenField(Len(string)) \in E BY <1>1, <1>3
  <2>2. field = FieldOf(string) OBVIOUS
  <2> HIDE DEF string, field
  <2>3. /\ field \in Seq(E) /\ Len(field) = 1 + Len(string)
        /\ field[1] = LenField(Len(string))
        /\ \A j \in 1 .. Len(string) : field[1 + j] = string[j]
    BY <1>3, <2>1, <2>2, FieldIs
  <2> QED BY <2>3, Zenon DEF string, field
<1>5. fields \in Seq(Seq(E)) /\ Len(fields) = n
  <2>1. fields \in [1 .. n -> Seq(E)] BY <1>4
  <2> HIDE DEF fields, n
  <2> QED BY <1>1, <2>1, FunctionIsSeq
<1> HIDE DEF fields
<1>6. flat \in Seq(E) BY <1>5, FlattenType
<1>7. PICK lies : LiesAt(fields, flat, lies) BY <1>5, FlattenPlaces
<1> HIDE DEF flat
<1>8. /\ stream \in Seq(E) /\ Len(stream) = 1 + Len(flat)
      /\ \A j \in 1 .. Len(flat) : stream[1 + j] = flat[j]
  BY <1>3, <1>6, BehindHead, Zenon
<1> HIDE DEF stream
<1>9. /\ lies \in [0 .. n -> Nat] /\ lies[0] = 0
      /\ \A i \in 1 .. n :
           /\ lies[i] = lies[i - 1] + Len(fields[i]) /\ lies[i] <= Len(flat)
           /\ \A j \in 1 .. Len(fields[i]) : flat[lies[i - 1] + j] = fields[i][j]
  BY <1>5, <1>7 DEF LiesAt, PlacedUpTo
<1> DEFINE at == [i \in 0 .. n |-> 2 + lies[i]]
<1>10. at \in [0 .. n -> Nat] /\ at[0] = 2 BY <1>1, <1>9
<1>11. ASSUME NEW i \in 1 .. n
       PROVE  /\ at[i] = at[i - 1] + 1 + Len(column[i])
              /\ stream[at[i - 1]][2] = Len(column[i])
              /\ SubSeq(stream, at[i - 1] + 1, at[i - 1] + Len(column[i])) = column[i]
  <2> DEFINE string == column[i]
             field == fields[i]
             l == Len(string)
             p == lies[i - 1]
             q == lies[i]
  <2>1. string \in Seq(C) /\ string \in Seq(E) /\ l \in Nat
    <3>1. string \in Seq(C) BY <1>1
    <3> HIDE DEF string
    <3> QED BY <1>3, <3>1
  <2>2. p \in Nat /\ q \in Nat /\ Len(flat) \in Nat
    <3>1. i - 1 \in 0 .. n /\ i \in 0 .. n BY <1>1
    <3>2. p \in Nat /\ q \in Nat BY <1>9, <3>1, Zenon
    <3> QED BY <1>6, <3>2
  <2>3. q = p + Len(field) /\ q <= Len(flat) BY <1>9
  <2>4. \A j \in 1 .. Len(field) : flat[p + j] = field[j] BY <1>9
  <2>5. Len(field) = 1 + l BY <1>4
  <2>6. field[1] = LenField(l) /\ \A j \in 1 .. l : field[1 + j] = string[j] BY <1>4
  <2>7. at[i] = 2 + q /\ at[i - 1] = 2 + p BY <1>1
  <2> DEFINE b == at[i - 1]
  <2> HIDE DEF p, q, field, string, at
  <2>8. b \in Nat /\ b = 2 + p BY <2>2, <2>7
  <2>9. at[i] = b + 1 + l
    <3>1. l \in Nat BY <2>1
    <3> HIDE DEF b, l
    <3>2. at[i] = 2 + q /\ q = p + Len(field) /\ Len(field) = 1 + l BY <2>3, <2>5, <2>7
    <3>3. at[i] = 2 + (p + (1 + l)) BY <3>2, Zenon
    <3>4. p \in Nat BY <2>2
    <3>5. 2 + (p + (1 + l)) = 2 + p + 1 + l BY <3>1, <3>4
    <3> QED BY <3>3, <3>5, <2>8, Zenon
  <2>10. b + l <= Len(stream)
    <3>1. Len(stream) = 1 + Len(flat) BY <1>8
    <3> HIDE DEF b, l
    <3> QED BY <2>1, <2>2, <2>3, <2>5, <2>8, <3>1
  <2> HIDE DEF b
  <2>11. stream[b] = LenField(l)
    <3>1. flat[p + 1] = field[1] /\ p + 1 \in 1 .. Len(flat) BY <2>1, <2>2, <2>3, <2>4, <2>5
    <3> DEFINE x == p + 1
    <3>2. x \in 1 .. Len(flat) /\ 1 + x = b BY <2>2, <2>8, <3>1
    <3> HIDE DEF x
    <3>3. stream[1 + x] = flat[x] BY <1>8, <3>2
    <3> QED BY <2>6, <3>1, <3>2, <3>3, Zenon DEF x
  <2>12. \A j \in 1 .. l : stream[b + j] = string[j]
    <3> SUFFICES ASSUME NEW j \in 1 .. l PROVE stream[b + j] = string[j] OBVIOUS
    <3> DEFINE k == 1 + j
               x == p + k
    <3>1. k \in 1 .. Len(field) BY <2>1, <2>5
    <3> HIDE DEF k
    <3>2. flat[x] = field[k] BY <2>4, <3>1
    <3>3. x \in 1 .. Len(flat) BY <2>1, <2>2, <2>3, <2>5, <3>1
    <3>4. 1 + x = b + j BY <2>2, <2>8 DEF k
    <3> HIDE DEF x
    <3>5. stream[1 + x] = flat[x] BY <1>8, <3>3
    <3>6. field[k] = string[j] BY <2>6 DEF k
    <3> QED BY <3>2, <3>4, <3>5, <3>6, Zenon
  <2>13. stream \in Seq(E) BY <1>8
  <2>14. stream[b][2] = l /\ SubSeq(stream, b + 1, b + l) = string
    BY <2>1, <2>8, <2>10, <2>11, <2>12, <2>13, FieldInStream
  <2> QED BY <2>9, <2>14, Zenon DEF b, string
<1> HIDE DEF at
<1>12. StringsLieAt(column, stream, at) BY <1>10, <1>11 DEF StringsLieAt
<1> QED BY <1>2, <1>8, <1>12

\* Where the strings of a stream lie, as get_slice finds them.
Skipped(stream, stop) ==
  LET At[i \in 0 .. stop] == IF i = 0 THEN 2 ELSE At[i - 1] + 1 + stream[At[i - 1]][2]
  IN  At

\* The strings of a slice, cut out of the stream.
StringsOf(stream, s, At) ==
  LET kept == Ascending({i \in s.start .. s.stop - 1 : (i - s.start) % s.step = 0})
  IN  [k \in DOMAIN kept |->
         SubSeq(stream, At[kept[k]] + 1, At[kept[k]] + stream[At[kept[k]]][2])]

\* An answer to get_slice() of strings that is no refusal.
LEMMA StringsAnswer ==
  ASSUME NEW a, NEW slices, ~SliceOfStrings(a, slices).refused
  PROVE  LET n == a.shape[1]
             s == IF slices = <<>> THEN slice_all(n) ELSE slices[1]
             stream == decompressBlocks(a.blocks)
             got == SliceOfStrings(a, slices)
         IN  /\ got.data = StringsOf(stream, s, Skipped(stream, s.stop))
             /\ got.shape = <<Length(s)>>
             /\ a.blocks # <<>> /\ ~(Len(slices) > 1) /\ s.step # 0 /\ InBounds(s, n)
<1> DEFINE n == a.shape[1]
           s == IF slices = <<>> THEN slice_all(n) ELSE slices[1]
           stream == decompressBlocks(a.blocks)
           bad == \/ a.blocks = <<>>
                  \/ Len(slices) > 1
                  \/ s.step = 0
                  \/ ~InBounds(s, n)
           good == [refused |-> FALSE, read |-> 0 .. Len(a.blocks) - 1,
                    shape |-> <<Length(s)>>,
                    data  |-> StringsOf(stream, s, Skipped(stream, s.stop))]
<1>1. SliceOfStrings(a, slices) = IF bad THEN Refusal ELSE good
  BY DEF SliceOfStrings, StringsOf, Skipped
<1> HIDE DEF bad
<1>2. ~bad BY <1>1 DEF Refusal
<1>3. SliceOfStrings(a, slices) = good BY <1>1, <1>2
<1>4. /\ good.data = StringsOf(stream, s, Skipped(stream, s.stop))
      /\ good.shape = <<Length(s)>>
  OBVIOUS
<1> HIDE DEF good
<1>5. a.blocks # <<>> /\ ~(Len(slices) > 1) /\ s.step # 0 /\ InBounds(s, n) BY <1>2 DEF bad
<1> HIDE DEF s, stream
<1> QED BY <1>3, <1>4, <1>5 DEF s, stream

\* The walk over the lengths comes to every string.
LEMMA SkippedIs ==
  ASSUME NEW n \in Nat, NEW column, Len(column) = n, NEW stream, NEW at, StringsLieAt(column, stream, at),
         NEW stop \in 0 .. n
  PROVE  \A i \in 0 .. stop : Skipped(stream, stop)[i] = at[i]
<1> DEFINE At == Skipped(stream, stop)
           g == [i \in 0 .. stop |-> at[i]]
<1>1. /\ at \in [0 .. n -> Nat] /\ at[0] = 2
      /\ \A i \in 1 .. n : at[i] = at[i - 1] + 1 + stream[at[i - 1]][2]
  BY DEF StringsLieAt
<1>2. g = [i \in 0 .. stop |-> IF i = 0 THEN 2 ELSE g[i - 1] + 1 + stream[g[i - 1]][2]]
  <2>1. \A i \in 0 .. stop : g[i] = IF i = 0 THEN 2 ELSE g[i - 1] + 1 + stream[g[i - 1]][2]
    <3> SUFFICES ASSUME NEW i \in 0 .. stop
                 PROVE g[i] = IF i = 0 THEN 2 ELSE g[i - 1] + 1 + stream[g[i - 1]][2]
      OBVIOUS
    <3>1. CASE i = 0 BY <1>1, <3>1
    <3>2. CASE i # 0
      <4>1. i \in 1 .. n /\ i - 1 \in 0 .. stop BY <3>2
      <4>2. g[i] = at[i] /\ g[i - 1] = at[i - 1] BY <4>1
      <4> HIDE DEF g
      <4>3. at[i] = at[i - 1] + 1 + stream[at[i - 1]][2] BY <1>1, <4>1
      <4> QED BY <3>2, <4>2, <4>3
    <3> QED BY <3>1, <3>2
  <2>2. g = [i \in 0 .. stop |-> g[i]] OBVIOUS
  <2> HIDE DEF g
  <2> QED BY <2>1, <2>2
<1> HIDE DEF g
<1>3. At = [i \in 0 .. stop |-> IF i = 0 THEN 2 ELSE At[i - 1] + 1 + stream[At[i - 1]][2]]
  BY <1>2 DEF Skipped
<1> HIDE DEF At
<1> DEFINE T == {i \in 0 .. stop : At[i] = at[i]}
<1>4. \A i \in 0 .. stop : At[i] = IF i = 0 THEN 2 ELSE At[i - 1] + 1 + stream[At[i - 1]][2] BY <1>3, Zenon
<1>5. 0 <= stop => 0 \in T BY <1>1, <1>4
<1>6. \A i \in 0 .. stop : i \in T /\ i < stop => i + 1 \in T
  <2> SUFFICES ASSUME NEW i \in 0 .. stop, i \in T, i < stop PROVE i + 1 \in T OBVIOUS
  <2> DEFINE k == i + 1
  <2>1. k \in 0 .. stop /\ k # 0 /\ k - 1 = i /\ k \in 1 .. n OBVIOUS
  <2> HIDE DEF k
  <2>2. At[k] = At[i] + 1 + stream[At[i]][2] BY <1>4, <2>1
  <2>3. at[k] = at[i] + 1 + stream[at[i]][2] BY <1>1, <2>1
  <2>4. At[i] = at[i] OBVIOUS
  <2>5. At[k] = at[k] BY <2>2, <2>3, <2>4, Zenon
  <2> QED BY <2>1, <2>5 DEF k
<1> HIDE DEF T
<1>7. 0 .. stop \subseteq T BY <1>5, <1>6, IntervalInduction
<1> QED BY <1>7 DEF At, T

\* The numbers that a slice of one dimension names.
Kept(s) == {i \in s.start .. s.stop - 1 : (i - s.start) % s.step = 0}

\* They are the elements that the slice names.
LEMMA NamedOfOne ==
  ASSUME NEW n \in Nat, NEW s, Bounded(<<n>>, [d \in 1 .. 1 |-> s])
  PROVE  Named(<<n>>, [d \in 1 .. 1 |-> s]) = Kept(s)
<1> DEFINE shape == <<n>>
           spec  == [d \in 1 .. 1 |-> s]
           U     == {u \in [DOMAIN shape -> 0 .. Max(Range(shape))] :
                       \A d \in DOMAIN shape : /\ spec[d].start <= u[d] /\ u[d] < spec[d].stop
                                              /\ (u[d] - spec[d].start) % spec[d].step = 0}
<1>1. shape \in Seq(Nat) /\ Len(shape) = 1 /\ DOMAIN shape = 1 .. 1 /\ shape[1] = n OBVIOUS
<1>2. /\ s.start \in Nat /\ s.stop \in Nat /\ s.step \in Nat \ {0}
      /\ s.start < s.stop /\ s.stop <= n
  <2>1. /\ spec[1].start \in Nat /\ spec[1].stop \in Nat /\ spec[1].step \in Nat \ {0}
        /\ spec[1].start < spec[1].stop /\ spec[1].stop <= shape[1]
    <3>1. 1 \in 1 .. Len(shape) BY <1>1
    <3> HIDE DEF spec, shape
    <3> QED BY <3>1, BoundedIs DEF spec, shape
  <2>2. spec[1] = s OBVIOUS
  <2> QED BY <1>1, <2>1, <2>2
<1>3. Max(Range(shape)) = n
  <2>1. Range(shape) = {n} BY <1>1 DEF Range
  <2> DEFINE R == {n}
  <2>2. R \in SUBSET Int /\ n \in R /\ \A y \in R : y <= n OBVIOUS
  <2> HIDE DEF R
  <2>3. Max(R) = n BY <2>2, MaxOf
  <2> QED BY <2>1, <2>3 DEF R
<1>4. U = {u \in [1 .. 1 -> 0 .. n] : /\ s.start <= u[1] /\ u[1] < s.stop
                                     /\ (u[1] - s.start) % s.step = 0}
  <2>1. \A d \in 1 .. 1 : d = 1 /\ spec[d] = s OBVIOUS
  <2> HIDE DEF spec
  <2>2. U = {u \in [1 .. 1 -> 0 .. n] :
              \A d \in 1 .. 1 : /\ spec[d].start <= u[d] /\ u[d] < spec[d].stop
                                /\ (u[d] - spec[d].start) % spec[d].step = 0}
    BY <1>1, <1>3
  <2>3. \A u : (\A d \in 1 .. 1 : /\ spec[d].start <= u[d] /\ u[d] < spec[d].stop
                                  /\ (u[d] - spec[d].start) % spec[d].step = 0)
               <=> /\ s.start <= u[1] /\ u[1] < s.stop
                   /\ (u[1] - s.start) % s.step = 0
    BY <2>1
  <2> QED BY <2>2, <2>3
<1>5. Named(shape, spec) = {flatIndex(u, shape) : u \in U} BY DEF Named
<1> HIDE DEF U, spec
<1>6. \A u \in U : flatIndex(u, shape) = u[1]
  <2> SUFFICES ASSUME NEW u \in U PROVE flatIndex(u, shape) = u[1] OBVIOUS
  <2>1. u \in [1 .. Len(shape) -> Nat] BY <1>1, <1>4
  <2> HIDE DEF shape
  <2> QED BY <1>1, <2>1, FlatIndexIs
<1>7. Named(shape, spec) = {u[1] : u \in U} BY <1>5, <1>6
<1>8. \A i : i \in {u[1] : u \in U} <=> i \in Kept(s)
  <2> SUFFICES ASSUME NEW i PROVE i \in {u[1] : u \in U} <=> i \in Kept(s) OBVIOUS
  <2>1. ASSUME i \in {u[1] : u \in U} PROVE i \in Kept(s)
    <3>1. PICK u \in U : i = u[1] BY <2>1
    <3>2. i \in Nat /\ s.start <= i /\ i < s.stop /\ (i - s.start) % s.step = 0 BY <1>4, <3>1
    <3>3. i \in s.start .. s.stop - 1 BY <1>2, <3>2
    <3> QED BY <3>2, <3>3 DEF Kept
  <2>2. ASSUME i \in Kept(s) PROVE i \in {u[1] : u \in U}
    <3> DEFINE u == [d \in 1 .. 1 |-> i]
    <3>1. i \in s.start .. s.stop - 1 /\ (i - s.start) % s.step = 0 BY <2>2 DEF Kept
    <3>2. i \in 0 .. n /\ s.start <= i /\ i < s.stop BY <1>2, <3>1
    <3>3. u \in [1 .. 1 -> 0 .. n] /\ u[1] = i BY <3>2
    <3> HIDE DEF u
    <3>4. u \in U BY <1>4, <3>1, <3>2, <3>3
    <3> QED BY <3>3, <3>4
  <2> QED BY <2>1, <2>2
<1> QED BY <1>7, <1>8 DEF spec

\* The strings that get_slice takes out of the stream are those that the slice names.
LEMMA StringsAre ==
  ASSUME NEW C, NEW put \in Seq(Seq(C)), NEW s,
         Bounded(<<Len(put)>>, [d \in 1 .. 1 |-> s])
  PROVE  LET stream == serialize_strings(put)
             kept   == Ascending(Kept(s))
             data   == StringsOf(stream, s, Skipped(stream, s.stop))
         IN  /\ data = [k \in DOMAIN kept |-> put[kept[k] + 1]]
             /\ Len(data) = Product(Lengths([d \in 1 .. 1 |-> s]))
<1> DEFINE n      == Len(put)
           shape  == <<n>>
           spec   == [d \in 1 .. 1 |-> s]
           stream == serialize_strings(put)
           kept   == Ascending(Kept(s))
           At     == Skipped(stream, s.stop)
           data   == StringsOf(stream, s, At)
           m      == Product(Lengths(spec))
<1>1. n \in Nat OBVIOUS
<1>2. /\ Within(Lengths(spec), Starts(spec), Steps(spec), shape)
      /\ Named(shape, spec) = Places(Lengths(spec), Starts(spec), Steps(spec), shape)
  <2> HIDE DEF spec, shape
  <2> QED BY NamedWithin DEF spec, shape
<1>3. Named(shape, spec) = Kept(s) BY <1>1, NamedOfOne
<1>4. m \in Nat /\ kept \in [1 .. m -> Kept(s)]
  <2> DEFINE A == Places(Lengths(spec), Starts(spec), Steps(spec), shape)
  <2>1. m \in Nat /\ Ascending(A) \in [1 .. m -> A]
    <3> HIDE DEF spec, shape
    <3> QED BY <1>2, AscendingPlaces
  <2>2. A = Kept(s) BY <1>2, <1>3
  <2> HIDE DEF A, m
  <2> QED BY <2>1, <2>2
<1>5. PICK at : StringsLieAt(put, stream, at) BY StreamIs
<1>6. /\ s.start \in Nat /\ s.stop \in 0 .. n
  <2>1. /\ spec[1].start \in Nat /\ spec[1].stop \in Nat /\ spec[1].stop <= shape[1]
    <3>1. Len(shape) = 1 OBVIOUS
    <3>2. 1 \in 1 .. Len(shape) BY <3>1
    <3> HIDE DEF spec, shape
    <3> QED BY <3>2, BoundedIs DEF spec, shape
  <2>2. spec[1] = s /\ shape[1] = n OBVIOUS
  <2> QED BY <1>1, <2>1, <2>2
<1> HIDE DEF stream, m, kept
<1>7. \A i \in 0 .. s.stop : At[i] = at[i]
  <2> HIDE DEF At, n
  <2> QED BY <1>1, <1>5, <1>6, SkippedIs DEF At, n
<1>8. data = [k \in DOMAIN kept |->
                SubSeq(stream, At[kept[k]] + 1, At[kept[k]] + stream[At[kept[k]]][2])]
  BY DEF StringsOf, kept, Kept
<1> HIDE DEF At, data
<1>9. DOMAIN kept = 1 .. m BY <1>4
<1>10. \A k \in 1 .. m :
         SubSeq(stream, At[kept[k]] + 1, At[kept[k]] + stream[At[kept[k]]][2]) = put[kept[k] + 1]
  <2> SUFFICES ASSUME NEW k \in 1 .. m
               PROVE SubSeq(stream, At[kept[k]] + 1, At[kept[k]] + stream[At[kept[k]]][2])
                       = put[kept[k] + 1]
    OBVIOUS
  <2> DEFINE i == kept[k]
             j == i + 1
  <2>1. i \in s.start .. s.stop - 1
    <3>1. i \in Kept(s) BY <1>4
    <3> QED BY <3>1 DEF Kept
  <2>2. j \in 1 .. n /\ j - 1 = i /\ i \in 0 .. s.stop BY <1>6, <2>1
  <2> HIDE DEF i
  <2>3. At[i] = at[i] BY <1>7, <2>2
  <2> HIDE DEF j
  <2>4. stream[at[i]][2] = Len(put[j]) /\ SubSeq(stream, at[i] + 1, at[i] + Len(put[j])) = put[j]
    <3>1. /\ stream[at[j - 1]][2] = Len(put[j])
          /\ SubSeq(stream, at[j - 1] + 1, at[j - 1] + Len(put[j])) = put[j]
      BY <1>5, <2>2 DEF StringsLieAt
    <3>2. j - 1 = i BY <2>2
    <3> QED BY <3>1, <3>2, Zenon
  <2>5. SubSeq(stream, At[i] + 1, At[i] + stream[At[i]][2]) = put[j] BY <2>3, <2>4, Zenon
  <2> QED BY <2>5 DEF i, j
<1>11. data = [k \in DOMAIN kept |-> put[kept[k] + 1]] BY <1>8, <1>9, <1>10, Zenon
<1>12. Len(data) = m
  <2>1. data = [k \in 1 .. m |-> put[kept[k] + 1]] BY <1>9, <1>11
  <2> QED BY <1>4, <2>1
<1> QED BY <1>11, <1>12 DEF data, At, stream, kept, m
--------------------------------------------------------------------------------
(* What get_slice() refuses.                                               *)

\* The slices that a client asks for.
LEMMA AskedAre ==
  ASSUME NEW shape \in Seq(Nat), NEW steps \in SUBSET Nat, NEW slices \in Asked(shape, steps)
  PROVE  slices \in Seq([start : Nat, stop : Nat, step : steps \cup {1}])
<1> DEFINE n == Len(shape)
           Kind == [start : Nat, stop : Nat, step : steps \cup {1}]
<1>0. n \in Nat /\ \A d \in 1 .. n : shape[d] \in Nat OBVIOUS
<1>1. \A dim \in Nat : Requests(dim, steps) \subseteq Kind BY DEF Requests, Slice
<1> HIDE DEF Kind
<1>2. Min({n, 3}) \in Nat /\ Min({n, 3}) <= n BY <1>0, MinOfTwo
<1>3. \/ \E m \in 0 .. Min({n, 3}) : slices \in AskedOf(m, shape, steps)
      \/ slices = AskedTooMany(shape)
  BY DEF Asked
<1>4. ASSUME NEW m \in 0 .. Min({n, 3}), slices \in AskedOf(m, shape, steps) PROVE slices \in Seq(Kind)
  <2>1. m \in Nat /\ m <= n BY <1>0, <1>2
  <2>2. \A d \in 1 .. m : slices[d] \in Kind
    <3> SUFFICES ASSUME NEW d \in 1 .. m PROVE slices[d] \in Kind OBVIOUS
    <3>1. d \in 1 .. n BY <1>0, <2>1
    <3>2. slices[d] \in Requests(shape[d], steps) BY <1>4 DEF AskedOf
    <3> QED BY <1>0, <1>1, <3>1, <3>2
  <2>3. slices = [d \in 1 .. m |-> slices[d]] BY <1>4 DEF AskedOf
  <2> QED BY <2>1, <2>2, <2>3
<1>5. ASSUME slices = AskedTooMany(shape) PROVE slices \in Seq(Kind)
  <2>1. Slice(0, 1, 1) \in Kind BY DEF Slice, Kind
  <2>2. n + 1 \in Nat BY <1>0
  <2> DEFINE k == n + 1
             one == Slice(0, 1, 1)
  <2>3. k \in Nat /\ one \in Kind /\ slices = [d \in 1 .. k |-> one]
    BY <1>5, <2>1, <2>2 DEF AskedTooMany
  <2> HIDE DEF k, one
  <2>4. [d \in 1 .. k |-> one] \in Seq(Kind) BY <2>3
  <2> QED BY <2>3, <2>4
<1> HIDE DEF n
<1>6. slices \in Seq(Kind) BY <1>3, <1>4, <1>5
<1> QED BY <1>6 DEF Kind

\* A stored column of strings is one dimension, and its blocks are those of its stream.
StoredStrings ==
  array # None /\ array.kind = "strings" =>
    /\ array.codec \in Codecs
    /\ array.put \in Columns /\ array.shape = <<Len(array.put)>>
    /\ \E bs \in Nat \ {0} : array.blocks = compressBlocks(serialize_strings(array.put), bs)

\* There is no third kind of array, and no fourth kind of answer.
Kinds ==
  /\ array = None \/ array.kind \in {"numbers", "strings"}
  /\ answer.of \in {"nothing", "all", "slice"}

\* The answer to get_slice() was made of what is stored.
AnsweredSlice ==
  answer.of = "slice" =>
    /\ array # None
    /\ \/ /\ array.kind = "numbers"
          /\ answer.slices \in Asked(array.shape, 1 .. MaxStep)
          /\ answer.got = SliceOfNumbers(array, answer.slices)
       \/ /\ array.kind = "strings"
          /\ answer.slices \in Asked(array.shape, 0 .. MaxStep)
          /\ answer.got = SliceOfStrings(array, answer.slices)

SliceInv == GetInv /\ StoredStrings /\ Kinds /\ AnsweredSlice

LEMMA SliceInvInit == Init => SliceInv
<1> SUFFICES ASSUME Init PROVE SliceInv OBVIOUS
<1>1. GetInv BY GetInvInit
<1>2. array = None /\ answer.of = "nothing" BY DEF Init, NoQuestion
<1> QED BY <1>1, <1>2 DEF SliceInv, StoredStrings, Kinds, AnsweredSlice

LEMMA SliceInvKeeps == SliceInv /\ [Next]_vars => SliceInv'
<1> SUFFICES ASSUME SliceInv, [Next]_vars PROVE SliceInv' OBVIOUS
<1>0. GetInv' BY GetInvKeeps DEF SliceInv
<1>1. ASSUME NEW shape \in Shapes, NEW codec \in Codecs, NEW elem \in ElementSizes,
             NEW block_size \in BlockSizes, PutNumbers(shape, codec, elem, block_size)
      PROVE  StoredStrings' /\ Kinds' /\ AnsweredSlice'
  <2>1. array = None /\ answer' = answer /\ array'.kind = "numbers" BY <1>1 DEF PutNumbers
  <2> QED BY <2>1 DEF SliceInv, StoredStrings, Kinds, AnsweredSlice
<1>2. ASSUME NEW column \in Columns, NEW codec \in Codecs, NEW block_size \in BlockSizes,
             PutStrings(column, codec, block_size)
      PROVE  StoredStrings' /\ Kinds' /\ AnsweredSlice'
  <2>1. /\ array = None /\ answer' = answer /\ array'.kind = "strings"
        /\ array'.shape = <<Len(column)>> /\ array'.put = column /\ array'.codec = codec
        /\ array'.blocks = compressBlocks(serialize_strings(column), block_size)
    BY <1>2 DEF PutStrings
  <2>2. block_size \in Nat \ {0} BY SlicingAssumption
  <2> QED BY <2>1, <2>2 DEF SliceInv, StoredStrings, Kinds, AnsweredSlice
<1>3. CASE GetNumbers
  <2>1. array' = array /\ answer'.of = "all" BY <1>3 DEF GetNumbers
  <2> QED BY <1>0, <2>1 DEF SliceInv, StoredStrings, Kinds, AnsweredSlice
<1>4. ASSUME array # None, array.kind = "numbers",
             NEW slices \in Asked(array.shape, 1 .. MaxStep), get_slice(slices)
      PROVE  StoredStrings' /\ Kinds' /\ AnsweredSlice'
  <2>1. /\ array' = array /\ answer'.of = "slice" /\ answer'.slices = slices
        /\ answer'.got = SliceOfNumbers(array, slices)
    BY <1>4 DEF get_slice
  <2> QED BY <1>4, <2>1 DEF SliceInv, StoredStrings, Kinds, AnsweredSlice
<1>5. ASSUME array # None, array.kind = "strings",
             NEW slices \in Asked(array.shape, 0 .. MaxStep), get_slice(slices)
      PROVE  StoredStrings' /\ Kinds' /\ AnsweredSlice'
  <2>1. /\ array' = array /\ answer'.of = "slice" /\ answer'.slices = slices
        /\ answer'.got = SliceOfStrings(array, slices)
    BY <1>5 DEF get_slice
  <2> QED BY <1>5, <2>1 DEF SliceInv, StoredStrings, Kinds, AnsweredSlice
<1>6. CASE TakeAnswer
  <2>1. array' = array /\ answer'.of = "nothing" BY <1>6 DEF TakeAnswer, NoQuestion
  <2> QED BY <1>0, <2>1 DEF SliceInv, StoredStrings, Kinds, AnsweredSlice
<1>7. CASE UNCHANGED vars
  <2>1. array' = array /\ answer' = answer BY <1>7 DEF vars
  <2> QED BY <1>0, <2>1 DEF SliceInv, StoredStrings, Kinds, AnsweredSlice
<1> QED BY <1>0, <1>1, <1>2, <1>3, <1>4, <1>5, <1>6, <1>7 DEF Next, SliceInv

\* An array of numbers with blocks has elements, and get_slice() takes the size of its
\* first block for the block size.
LEMMA BlocksHoldElements ==
  ASSUME SliceInv, array # None, array.kind = "numbers", array.blocks # <<>>
  PROVE  /\ Product(array.shape) > 0
         /\ WrittenBlockSize(array.blocks) \in Nat
         /\ EntryBlockSize(array.blocks) = WrittenBlockSize(array.blocks)
<1>1. /\ array.codec \in Codecs /\ array.elem \in Nat \ {0} /\ array.put \in Seq(Nat)
      /\ array.shape \in Seq(Nat) /\ Len(array.put) = Product(array.shape) * array.elem
      /\ \E bs \in Nat \ {0} :
           array.blocks =
             compressBlocks(serialize_array_data(array.put, array.codec, array.elem, bs), bs)
  BY DEF SliceInv, GetInv, StoredNumbers
<1>2. Product(array.shape) \in Nat BY <1>1, ProductType
<1>3. array.blocks # <<>> => Product(array.shape) > 0
  <2> SUFFICES ASSUME Product(array.shape) = 0 PROVE array.blocks = <<>> BY <1>2
  <2>1. array.put = <<>>
    <3>1. Len(array.put) = 0 BY <1>1
    <3> QED BY <1>1, <3>1
  <2> QED BY <1>1, <2>1, NothingToSerialize
<1>4. array.blocks # <<>> => /\ WrittenBlockSize(array.blocks) \in Nat
                             /\ EntryBlockSize(array.blocks) = WrittenBlockSize(array.blocks)
  <2> SUFFICES ASSUME array.blocks # <<>>
               PROVE  /\ WrittenBlockSize(array.blocks) \in Nat
                      /\ EntryBlockSize(array.blocks) = WrittenBlockSize(array.blocks)
    OBVIOUS
  <2>1. PICK bs \in Nat \ {0} :
          array.blocks =
            compressBlocks(serialize_array_data(array.put, array.codec, array.elem, bs), bs)
    BY <1>1
  <2> DEFINE ser == serialize_array_data(array.put, array.codec, array.elem, bs)
  <2>2. ser \in Seq(Nat) BY <1>1, <1>2, SerializeType
  <2> HIDE DEF ser
  <2>3. Chunked(Nat, array.blocks, bs)
    <3>1. IsCut(Nat, ser, compressBlocks(ser, bs), bs) BY <2>2, CompressIsCut
    <3>2. array.blocks = compressBlocks(ser, bs) BY <2>1 DEF ser
    <3> QED BY <3>1, <3>2 DEF IsCut
  <2>4. array.blocks \in Seq(Seq(Nat)) BY <2>3 DEF Chunked
  <2>5. 1 \in DOMAIN array.blocks BY <2>4
  <2>6. Len(array.blocks[1]) \in Nat BY <2>4, <2>5
  <2> QED BY <2>6 DEF EntryBlockSize, WrittenBlockSize
<1> QED BY <1>3, <1>4

--------------------------------------------------------------------------------
(* What get_slice() answers.                                               *)

\* An answer to get_slice() of numbers that is no refusal.
NumbersGiven(a, slices, got) ==
  LET spec == Normalized(a.shape, slices)
      read == Ascending(createBlockMap(a, slices))
  IN  /\ got.read = Range(read)
      /\ got.shape = [d \in DOMAIN spec |-> Length(spec[d])]
      /\ got.data = StepFilter(extractElements(BytesRead(a, read),
                                               createExtractionPlan(a, slices, read),
                                               WrittenBlockSize(a.blocks), a.elem,
                                               Product([d \in DOMAIN spec |-> Width(spec[d])])),
                               spec, a.elem)
      /\ ~(Len(a.shape) > 3) /\ CodecSliceable(a) /\ a.blocks # <<>>
      /\ Accepted(a.shape, slices) /\ ~(EntryBlockSize(a.blocks) < a.elem)

\* SliceOfNumbers, when it does not refuse.
LEMMA NumbersAnswer ==
  ASSUME NEW a, NEW slices, ~SliceOfNumbers(a, slices).refused
  PROVE  NumbersGiven(a, slices, SliceOfNumbers(a, slices))
<1> DEFINE spec == Normalized(a.shape, slices)
           read == Ascending(createBlockMap(a, slices))
           data == StepFilter(extractElements(BytesRead(a, read),
                                              createExtractionPlan(a, slices, read),
                                              WrittenBlockSize(a.blocks), a.elem,
                                              Product([d \in DOMAIN spec |-> Width(spec[d])])),
                              spec, a.elem)
           lengths == [d \in DOMAIN spec |-> Length(spec[d])]
           bad == \/ Len(a.shape) > 3
                  \/ ~CodecSliceable(a)
                  \/ a.blocks = <<>>
                  \/ ~Accepted(a.shape, slices)
                  \/ EntryBlockSize(a.blocks) < a.elem
           good == [refused |-> FALSE, read |-> Range(read), shape |-> lengths, data |-> data]
<1>1. SliceOfNumbers(a, slices) = IF bad THEN Refusal ELSE good
  BY Zenon DEF SliceOfNumbers, BytesRead
<1> HIDE DEF bad
<1>2. ~bad BY <1>1 DEF Refusal
<1>3. SliceOfNumbers(a, slices) = good BY <1>1, <1>2
<1> HIDE DEF data, lengths, read
<1>4. good.read = Range(read) /\ good.shape = lengths /\ good.data = data OBVIOUS
<1> HIDE DEF good
<1>5. /\ ~(Len(a.shape) > 3) /\ CodecSliceable(a) /\ a.blocks # <<>>
      /\ Accepted(a.shape, slices) /\ ~(EntryBlockSize(a.blocks) < a.elem)
  BY <1>2 DEF bad
<1> QED BY <1>3, <1>4, <1>5, Zenon DEF NumbersGiven, data, lengths, read

\* A stored array of numbers that get_slice() does not refuse is one that it can slice.
LEMMA GivenIsSliced ==
  ASSUME SliceInv, array # None, array.kind = "numbers",
         NEW slices \in Asked(array.shape, 1 .. MaxStep),
         ~SliceOfNumbers(array, slices).refused
  PROVE  /\ SlicedArray(array)
         /\ slices \in Seq([start : Nat, stop : Nat, step : Nat \ {0}])
         /\ Bounded(array.shape, Normalized(array.shape, slices))
<1>1. /\ array.codec \in Codecs /\ array.elem \in Nat \ {0} /\ array.put \in Seq(Nat)
      /\ array.shape \in Seq(Nat) /\ array.shape # <<>>
      /\ Len(array.put) = Product(array.shape) * array.elem
      /\ \E bs \in Nat \ {0} :
           array.blocks =
             compressBlocks(serialize_array_data(array.put, array.codec, array.elem, bs), bs)
  BY DEF SliceInv, GetInv, StoredNumbers
<1>2. /\ ~(Len(array.shape) > 3) /\ CodecSliceable(array) /\ array.blocks # <<>>
      /\ Accepted(array.shape, slices) /\ ~(EntryBlockSize(array.blocks) < array.elem)
  BY NumbersAnswer DEF NumbersGiven
<1>3. Product(array.shape) > 0 /\ WrittenBlockSize(array.blocks) >= array.elem
  BY <1>1, <1>2, BlocksHoldElements
<1>4. Len(array.shape) \in 1 .. 3
  <2>1. Len(array.shape) \in Nat /\ Len(array.shape) # 0 BY <1>1
  <2>2. ~(Len(array.shape) > 3) BY <1>2
  <2> DEFINE m == Len(array.shape)
  <2> HIDE DEF m
  <2>3. m \in Nat /\ m # 0 /\ ~(m > 3) BY <2>1, <2>2 DEF m
  <2>4. m \in 1 .. 3 BY <2>3
  <2> QED BY <2>4 DEF m
<1>5. SlicedArray(array)
  <2>1. array.elem \in Nat /\ array.elem # 0 BY <1>1
  <2>2. ~uses_global_shuffle(array.codec) BY <1>2 DEF CodecSliceable
  <2> QED BY <1>1, <1>2, <1>3, <1>4, <2>1, <2>2, Zenon DEF SlicedArray
<1>6. slices \in Seq([start : Nat, stop : Nat, step : Nat \ {0}])
  <2>1. 1 .. MaxStep \in SUBSET Nat OBVIOUS
  <2> DEFINE Kind == [start : Nat, stop : Nat, step : (1 .. MaxStep) \cup {1}]
             Wide == [start : Nat, stop : Nat, step : Nat \ {0}]
  <2>2. slices \in Seq(Kind) BY <1>1, <2>1, AskedAre
  <2>3. Kind \subseteq Wide OBVIOUS
  <2> HIDE DEF Kind, Wide
  <2>4. slices \in Seq(Wide) BY <2>2, <2>3
  <2> QED BY <2>4 DEF Wide
<1>7. Bounded(array.shape, Normalized(array.shape, slices))
  BY <1>1, <1>2, <1>3, <1>4, <1>6, NormalizedIsBounded
<1> QED BY <1>5, <1>6, <1>7

\* The answer of get_slice() for numbers: as many elements as its shape says, and with
\* whole elements in the blocks those that the slice names, and no block outside those they lie in.
LEMMA NumbersAreNamed ==
  ASSUME SliceInv, array # None, array.kind = "numbers",
         NEW slices \in Asked(array.shape, 1 .. MaxStep),
         ~SliceOfNumbers(array, slices).refused
  PROVE  LET spec == Normalized(array.shape, slices)
             got  == SliceOfNumbers(array, slices)
             box  == Named(array.shape, EveryStep(spec))
             holds == {(x * array.elem) \div WrittenBlockSize(array.blocks) : x \in box}
         IN  /\ Len(got.data) = Product(got.shape) * array.elem
             /\ Aligned(array) => /\ got.data = Elements(array, Named(array.shape, spec))
                                  /\ Min(got.read) = Min(holds) /\ Max(got.read) = Max(holds)
<1> DEFINE spec == Normalized(array.shape, slices)
           got  == SliceOfNumbers(array, slices)
           box  == Named(array.shape, EveryStep(spec))
           holds == {(x * array.elem) \div WrittenBlockSize(array.blocks) : x \in box}
<1>1. /\ SlicedArray(array)
      /\ slices \in Seq([start : Nat, stop : Nat, step : Nat \ {0}])
      /\ Bounded(array.shape, spec)
  BY GivenIsSliced
<1>2. PICK f \in Nat, n \in Nat : MapOf(array, slices, f, n) BY <1>1, BlockMapIs
<1>3. NumbersGiven(array, slices, got) BY NumbersAnswer
<1> HIDE DEF got
<1>4. Ascending(createBlockMap(array, slices)) = UpFrom(f, n) BY <1>2 DEF MapOf
<1>5. DOMAIN spec = 1 .. Len(spec) /\ array.kind # "strings" BY <1>1, BoundedIs
<1>6. /\ [d \in DOMAIN spec |-> Length(spec[d])] = Lengths(spec)
      /\ [d \in DOMAIN spec |-> Width(spec[d])] = Widths(spec)
  BY <1>5, Zenon DEF Lengths, Widths
<1>7. got.shape = Lengths(spec) BY <1>3, <1>6, Zenon DEF NumbersGiven
<1>8. got.data = StepFilter(Box(array, slices, UpFrom(f, n)), spec, array.elem)
  BY <1>3, <1>4, <1>6, Zenon DEF NumbersGiven, Box
<1>9. got.read = f .. f + n - 1
  <2>1. got.read = Range(UpFrom(f, n)) BY <1>3, <1>4, Zenon DEF NumbersGiven
  <2> QED BY <2>1, RangeUpFrom
<1> HIDE DEF holds, spec
<1>10. /\ Len(got.data) = Product(Lengths(spec)) * array.elem
       /\ Aligned(array) => got.data = Elements(array, Named(array.shape, spec))
  BY <1>1, <1>2, <1>5, <1>8, SliceOfArray DEF spec
<1>11. Aligned(array) => /\ Min(holds) = f /\ Max(holds) = f + n - 1
                         /\ Min(f .. f + n - 1) = f /\ Max(f .. f + n - 1) = f + n - 1
  BY <1>1, <1>2, BlocksHold DEF spec, holds
<1>12. Aligned(array) => Min(got.read) = Min(holds) /\ Max(got.read) = Max(holds)
  BY <1>9, <1>11, Zenon
<1>13. Len(got.data) = Product(got.shape) * array.elem BY <1>7, <1>10, Zenon
<1> QED BY <1>10, <1>12, <1>13, Zenon DEF spec, got, holds

\* The blocks of a stream hold the stream, and none of them is empty.
LEMMA BlocksOfStream ==
  ASSUME NEW C, NEW column \in Seq(Seq(C)), NEW bs \in Nat \ {0}
  PROVE  LET blocks == compressBlocks(serialize_strings(column), bs)
         IN  /\ decompressBlocks(blocks) = serialize_strings(column)
             /\ \A i \in DOMAIN blocks : blocks[i] # <<>>
<1> DEFINE stream == serialize_strings(column)
           blocks == compressBlocks(stream, bs)
<1>1. PICK E : stream \in Seq(E) BY StreamIs
<1> HIDE DEF stream
<1>2. decompressBlocks(blocks) = stream BY <1>1, FlattenUndoesCompress DEF decompressBlocks
<1>3. IsCut(E, stream, blocks, bs) BY <1>1, CompressIsCut
<1> HIDE DEF blocks
<1>4. \A i \in DOMAIN blocks : blocks[i] # <<>>
  <2>1. \A i \in DOMAIN blocks : Len(blocks[i]) \in 1 .. bs BY <1>3 DEF IsCut, Chunked
  <2> QED BY <2>1
<1> QED BY <1>2, <1>4 DEF stream, blocks

\* The same for an array of numbers.
LEMMA BlocksOfNumbers ==
  ASSUME SliceInv, array # None, array.kind = "numbers"
  PROVE  \A i \in DOMAIN array.blocks : array.blocks[i] # <<>>
<1>1. /\ array.codec \in Codecs /\ array.elem \in Nat \ {0} /\ array.put \in Seq(Nat)
      /\ array.shape \in Seq(Nat) /\ Len(array.put) = Product(array.shape) * array.elem
  BY DEF SliceInv, GetInv, StoredNumbers
<1>2. PICK bs \in Nat \ {0} :
        array.blocks =
          compressBlocks(serialize_array_data(array.put, array.codec, array.elem, bs), bs)
  BY DEF SliceInv, GetInv, StoredNumbers
<1> DEFINE ser == serialize_array_data(array.put, array.codec, array.elem, bs)
           blocks == array.blocks
<1>3. Product(array.shape) \in Nat BY <1>1, ProductType
<1>4. ser \in Seq(Nat) BY <1>1, <1>3, SerializeType
<1>5. blocks = compressBlocks(ser, bs) BY <1>2
<1> HIDE DEF ser, blocks
<1>6. IsCut(Nat, ser, blocks, bs) BY <1>4, <1>5, CompressIsCut
<1>7. \A i \in DOMAIN blocks : Len(blocks[i]) \in 1 .. bs BY <1>6 DEF IsCut, Chunked
<1>8. \A i \in DOMAIN blocks : blocks[i] # <<>> BY <1>7
<1> QED BY <1>8 DEF blocks

\* A slice of strings that get_slice() does not refuse is in bounds, and one.
LEMMA StringsBounded ==
  ASSUME SliceInv, array # None, array.kind = "strings",
         NEW slices \in Asked(array.shape, 0 .. MaxStep),
         ~SliceOfStrings(array, slices).refused
  PROVE  LET n == array.shape[1]
             s == IF slices = <<>> THEN slice_all(n) ELSE slices[1]
         IN  /\ n = Len(array.put) /\ array.shape = <<n>>
             /\ Normalized(array.shape, slices) = [d \in 1 .. 1 |-> s]
             /\ Bounded(<<n>>, [d \in 1 .. 1 |-> s])
<1> DEFINE n == array.shape[1]
           s == IF slices = <<>> THEN slice_all(n) ELSE slices[1]
           Kind == [start : Nat, stop : Nat, step : (0 .. MaxStep) \cup {1}]
<1>1. array.put \in Columns /\ array.shape = <<Len(array.put)>> BY DEF SliceInv, StoredStrings
<1>2. Len(array.put) \in Nat BY <1>1, SlicingAssumption
<1>3. n = Len(array.put) /\ n \in Nat /\ array.shape = <<n>> BY <1>1, <1>2
<1>4. slices \in Seq(Kind)
  <2>1. 0 .. MaxStep \in SUBSET Nat BY SlicingAssumption
  <2>2. array.shape \in Seq(Nat) BY <1>1, <1>2
  <2> QED BY <2>1, <2>2, AskedAre
<1>5. ~(Len(slices) > 1) /\ s.step # 0 /\ InBounds(s, n) BY StringsAnswer
<1>6. \A k \in Kind : k.start \in Nat /\ k.stop \in Nat /\ k.step \in Nat
                      /\ k = [start |-> k.start, stop |-> k.stop, step |-> k.step]
  OBVIOUS
<1> HIDE DEF Kind
<1>7. ASSUME slices = <<>>
      PROVE  /\ Normalized(array.shape, slices) = [d \in 1 .. 1 |-> s]
             /\ s \in [start : Nat, stop : Nat, step : Nat \ {0}]
  <2>1. s = slice_all(n) BY <1>7
  <2>2. s \in [start : Nat, stop : Nat, step : Nat \ {0}] BY <1>3, <2>1 DEF slice_all, Slice
  <2>3. DOMAIN array.shape = 1 .. 1 /\ DOMAIN slices = {} BY <1>3, <1>7
  <2>4. Normalized(array.shape, slices) = [d \in 1 .. 1 |-> slice_all(array.shape[d])]
    BY <2>3 DEF Normalized
  <2>5. \A d \in 1 .. 1 : slice_all(array.shape[d]) = s BY <2>1
  <2>6. Normalized(array.shape, slices) = [d \in 1 .. 1 |-> s] BY <2>4, <2>5
  <2> QED BY <2>2, <2>6
<1>8. ASSUME slices # <<>>
      PROVE  /\ Normalized(array.shape, slices) = [d \in 1 .. 1 |-> s]
             /\ s \in [start : Nat, stop : Nat, step : Nat \ {0}]
  <2>1. Len(slices) = 1
    <3>1. Len(slices) \in Nat /\ Len(slices) # 0 BY <1>4, <1>8
    <3> QED BY <1>5, <3>1
  <2>2. DOMAIN slices = 1 .. 1 BY <1>4, <2>1
  <2>3. s = slices[1] BY <1>8
  <2>4. s \in Kind BY <1>4, <2>2, <2>3
  <2>5. s \in [start : Nat, stop : Nat, step : Nat \ {0}]
    <3>1. s.start \in Nat /\ s.stop \in Nat /\ s.step \in Nat \ {0}
          /\ s = [start |-> s.start, stop |-> s.stop, step |-> s.step]
      BY <1>5, <1>6, <2>4
    <3> HIDE DEF s
    <3> QED BY <3>1
  <2>6. DOMAIN array.shape = 1 .. 1 BY <1>3
  <2>7. Normalized(array.shape, slices) = [d \in 1 .. 1 |-> slices[d]]
    BY <2>2, <2>6 DEF Normalized
  <2>8. \A d \in 1 .. 1 : slices[d] = s BY <2>3
  <2>9. Normalized(array.shape, slices) = [d \in 1 .. 1 |-> s] BY <2>7, <2>8
  <2> QED BY <2>5, <2>9
<1>9. Normalized(array.shape, slices) = [d \in 1 .. 1 |-> s] BY <1>7, <1>8, Zenon
<1>10. s \in [start : Nat, stop : Nat, step : Nat \ {0}] BY <1>7, <1>8
<1>11. s.start < s.stop /\ s.stop <= n BY <1>5 DEF InBounds
<1> HIDE DEF s, n
<1>12. Bounded(<<n>>, [d \in 1 .. 1 |-> s])
  <2>1. <<n>> \in Seq(Nat) /\ Len(<<n>>) = 1 /\ <<n>>[1] = n BY <1>3
  <2>2. [d \in 1 .. 1 |-> s] \in [1 .. 1 -> [start : Nat, stop : Nat, step : Nat \ {0}]]
    BY <1>10
  <2>3. \A d \in 1 .. 1 : [e \in 1 .. 1 |-> s][d] = s /\ <<n>>[d] = n BY <2>1
  <2> QED BY <1>11, <2>1, <2>2, <2>3 DEF Bounded
<1> QED BY <1>3, <1>9, <1>12 DEF s, n

\* The answer of get_slice() for strings: those that the slice names.
LEMMA StringsAreNamed ==
  ASSUME SliceInv, array # None, array.kind = "strings",
         NEW slices \in Asked(array.shape, 0 .. MaxStep),
         ~SliceOfStrings(array, slices).refused
  PROVE  LET got == SliceOfStrings(array, slices)
         IN  /\ Len(got.data) = Product(got.shape)
             /\ got.data = Elements(array, Named(array.shape, Normalized(array.shape, slices)))
<1> DEFINE n == array.shape[1]
           s == IF slices = <<>> THEN slice_all(n) ELSE slices[1]
           got == SliceOfStrings(array, slices)
           put == array.put
           one == [d \in 1 .. 1 |-> s]
           stream == serialize_strings(put)
           kept == Ascending(Kept(s))
           data == StringsOf(stream, s, Skipped(stream, s.stop))
<1>1. /\ n = Len(put) /\ array.shape = <<n>>
      /\ Normalized(array.shape, slices) = one
      /\ Bounded(<<n>>, one)
  BY StringsBounded
<1>2. PICK C : put \in Seq(Seq(C))
  <2>1. put \in Columns BY DEF SliceInv, StoredStrings
  <2> QED BY <2>1, SlicingAssumption
<1>3. decompressBlocks(array.blocks) = stream
  <2>1. PICK bs \in Nat \ {0} : array.blocks = compressBlocks(stream, bs)
    BY DEF SliceInv, StoredStrings
  <2>2. decompressBlocks(compressBlocks(stream, bs)) = stream BY <1>2, BlocksOfStream
  <2> QED BY <2>1, <2>2, Zenon
<1>4. got.shape = <<Length(s)>>
      /\ got.data = StringsOf(decompressBlocks(array.blocks), s,
                              Skipped(decompressBlocks(array.blocks), s.stop))
  BY StringsAnswer
<1> HIDE DEF got, s, n, put
<1>5. got.data = data BY <1>3, <1>4, Zenon
<1>6. /\ data = [k \in DOMAIN kept |-> put[kept[k] + 1]]
      /\ Len(data) = Product(Lengths(one))
  <2>1. Bounded(<<Len(put)>>, one) BY <1>1
  <2> QED BY <1>2, <2>1, StringsAre
<1>7. Lengths(one) = <<Length(s)>>
  <2>1. Len(one) = 1 OBVIOUS
  <2>2. Lengths(one) = [d \in 1 .. 1 |-> Length(s)]
    <3>1. Lengths(one) = [d \in 1 .. 1 |-> Length(one[d])] BY <2>1, Zenon DEF Lengths
    <3>2. \A d \in 1 .. 1 : one[d] = s OBVIOUS
    <3> QED BY <3>1, <3>2
  <2> DEFINE x == Length(s)
  <2> HIDE DEF x
  <2>3. [d \in 1 .. 1 |-> x] = <<x>> OBVIOUS
  <2> QED BY <2>2, <2>3 DEF x
<1>8. Named(array.shape, one) = Kept(s)
  <2>1. n \in Nat BY <1>1, <1>2
  <2> QED BY <1>1, <2>1, NamedOfOne
<1> HIDE DEF data, one
<1>9. Elements(array, Named(array.shape, one)) = [k \in DOMAIN kept |-> put[kept[k] + 1]]
  BY <1>8 DEF Elements, put
<1>10. Len(got.data) = Product(got.shape) BY <1>4, <1>5, <1>6, <1>7, Zenon
<1>11. got.data = Elements(array, Named(array.shape, one)) BY <1>5, <1>6, <1>9, Zenon
<1> QED BY <1>1, <1>10, <1>11, Zenon DEF got

\* Every answer of get_slice() has the elements that its shape says, whatever the block
\* size, the codec and the steps; what is stored has no empty block.
THEOREM SliceTypes == Spec => []TypeOK
<1>1. SliceInv => TypeOK
  <2> SUFFICES ASSUME SliceInv PROVE TypeOK OBVIOUS
  <2>1. Kinds BY DEF SliceInv
  <2>2. ASSUME array # None PROVE array.codec \in Codecs /\ \A i \in DOMAIN array.blocks : array.blocks[i] # <<>>
    <3>1. CASE array.kind = "numbers"
      <4>1. array.codec \in Codecs BY <2>2, <3>1 DEF SliceInv, GetInv, StoredNumbers
      <4> QED BY <2>2, <3>1, <4>1, BlocksOfNumbers
    <3>2. CASE array.kind = "strings"
      <4>1. /\ array.codec \in Codecs /\ array.put \in Columns
            /\ \E bs \in Nat \ {0} : array.blocks = compressBlocks(serialize_strings(array.put), bs)
        BY <2>2, <3>2 DEF SliceInv, StoredStrings
      <4>2. PICK C : array.put \in Seq(Seq(C)) BY <4>1, SlicingAssumption
      <4>3. PICK bs \in Nat \ {0} : array.blocks = compressBlocks(serialize_strings(array.put), bs)
        BY <4>1
      <4>4. \A i \in DOMAIN array.blocks : array.blocks[i] # <<>>
        BY <4>2, <4>3, BlocksOfStream
      <4> QED BY <4>1, <4>4
    <3> QED BY <2>1, <2>2, <3>1, <3>2 DEF Kinds
  <2>3. ASSUME Served
        PROVE  Len(answer.got.data) =
                 Product(answer.got.shape) * (IF array.kind = "numbers" THEN array.elem ELSE 1)
    <3>1. answer.of = "slice" /\ ~answer.got.refused BY <2>3 DEF Served
    <3>2. AnsweredSlice BY DEF SliceInv
    <3>3. CASE array.kind = "numbers"
      <4>1. /\ array # None /\ answer.slices \in Asked(array.shape, 1 .. MaxStep)
            /\ answer.got = SliceOfNumbers(array, answer.slices)
        BY <3>1, <3>2, <3>3 DEF AnsweredSlice
      <4>2. Len(answer.got.data) = Product(answer.got.shape) * array.elem
        BY <3>1, <3>3, <4>1, NumbersAreNamed
      <4> QED BY <3>3, <4>2, Zenon
    <3>4. CASE array.kind = "strings"
      <4>1. /\ array # None /\ answer.slices \in Asked(array.shape, 0 .. MaxStep)
            /\ answer.got = SliceOfStrings(array, answer.slices)
        BY <3>1, <3>2, <3>4 DEF AnsweredSlice
      <4>2. Len(answer.got.data) = Product(answer.got.shape) BY <3>1, <3>4, <4>1, StringsAreNamed
      <4>3. answer.got.shape \in Seq(Nat)
        <5>1. answer.got.shape = <<Length(IF answer.slices = <<>> THEN slice_all(array.shape[1]) ELSE answer.slices[1])>>
          BY <3>1, <4>1, StringsAnswer
        <5> DEFINE s == IF answer.slices = <<>> THEN slice_all(array.shape[1]) ELSE answer.slices[1]
        <5>2. Bounded(<<array.shape[1]>>, [d \in 1 .. 1 |-> s]) BY <3>1, <3>4, <4>1, StringsBounded
        <5> HIDE DEF s
        <5>3. Length(s) \in Nat
          <6>1. [d \in 1 .. 1 |-> s][1] = s OBVIOUS
          <6>2. s \in [start : Nat, stop : Nat, step : Nat \ {0}] BY <5>2, <6>1 DEF Bounded
          <6>3. s.start < s.stop BY <5>2, <6>1 DEF Bounded
          <6> QED BY <6>2, <6>3, SliceReach
        <5> QED BY <5>1, <5>3 DEF s
      <4>4. Product(answer.got.shape) \in Nat BY <4>3, ProductType
      <4>5. Product(answer.got.shape) * 1 = Product(answer.got.shape) BY <4>4
      <4> QED BY <3>4, <4>2, <4>5
    <3> QED BY <3>1, <3>2, <3>3, <3>4 DEF AnsweredSlice
  <2> QED BY <2>1, <2>2, <2>3, Zenon DEF TypeOK, Kinds
<1> QED BY <1>1, SliceInvInit, SliceInvKeeps, PTL DEF Spec

\* get_slice() answers with the elements that the slice names, in order, as they were
\* put, and reads no block before the first and none after the last that holds an
\* element between the bounds of the slice: for every shape of up to three dimensions,
\* element size, block size that is a multiple of it, step, codec and configuration of
\* the handle that reads. Strings have no such bound on the block size.
THEOREM SliceIsWhatItNames == Spec => []SliceIsReference
<1>1. SliceInv => SliceIsReference
  <2> SUFFICES ASSUME SliceInv, Served, array.kind = "numbers" => Aligned(array)
               PROVE  /\ answer.got.data = Elements(array, Named(array.shape, Requested))
                      /\ array.kind = "numbers" => NoBlockBeyond
    BY DEF SliceIsReference
  <2>1. answer.of = "slice" /\ ~answer.got.refused BY DEF Served
  <2>2. AnsweredSlice BY DEF SliceInv
  <2>3. CASE array.kind = "numbers"
    <3>1. /\ array # None /\ answer.slices \in Asked(array.shape, 1 .. MaxStep)
          /\ answer.got = SliceOfNumbers(array, answer.slices)
      BY <2>1, <2>2, <2>3 DEF AnsweredSlice
    <3> DEFINE box   == Named(array.shape, EveryStep(Requested))
               holds == {(x * array.elem) \div WrittenBlockSize(array.blocks) : x \in box}
    <3>2. /\ answer.got.data = Elements(array, Named(array.shape, Requested))
          /\ Min(answer.got.read) = Min(holds) /\ Max(answer.got.read) = Max(holds)
      BY <2>1, <2>3, <3>1, NumbersAreNamed DEF Requested
    <3>3. NoBlockBeyond BY <3>2, Zenon DEF NoBlockBeyond, EveryStep
    <3> QED BY <3>2, <3>3
  <2>4. CASE array.kind = "strings"
    <3>1. /\ array # None /\ answer.slices \in Asked(array.shape, 0 .. MaxStep)
          /\ answer.got = SliceOfStrings(array, answer.slices)
      BY <2>1, <2>2, <2>4 DEF AnsweredSlice
    <3>2. answer.got.data = Elements(array, Named(array.shape, Requested))
      BY <2>1, <2>4, <3>1, StringsAreNamed DEF Requested
    <3> QED BY <2>4, <3>2
  <2> QED BY <2>1, <2>2, <2>3, <2>4 DEF AnsweredSlice
<1> QED BY <1>1, SliceInvInit, SliceInvKeeps, PTL DEF Spec
==================================================================================

------------------------------ MODULE Layers_proofs ------------------------------
(***************************************************************************)
(* Proofs about Layers: types, the bitmaps that fill the header exactly,   *)
(* and the key lists that agree with the metadata they stand for.          *)
(***************************************************************************)
EXTENDS Layers, TLAPS

LEMMA SeqDomain ==
  ASSUME NEW S, NEW s \in Seq(S)
  PROVE  DOMAIN s = 1 .. Len(s) /\ Len(s) \in Nat
  OBVIOUS

\* A name that is in the list has a position, counted here from 0.
LEMMA Ordinal ==
  ASSUME NEW S, NEW s \in Seq(S), NEW n, HasName(s, n)
  PROVE  /\ Lookup(s, n) - 1 \in 0 .. Len(s) - 1 /\ Lookup(s, n) - 1 \in Nat
         /\ Lookup(s, n) - 1 + 1 \in Nat /\ Lookup(s, n) - 1 + 1 <= Len(s)
<1>1. Lookup(s, n) \in DOMAIN s
  BY DEF Lookup, HasName
<1> QED BY <1>1, SeqDomain

\* Rounding up is monotone, one bit at a time.
LEMMA WordsGrow ==
  ASSUME NEW n \in Nat
  PROVE  /\ Words(n) \in Nat
         /\ Words(n + 1) \in Nat
         /\ Words(n) <= Words(n + 1)
<1>1. WordBits \in Nat /\ WordBits > 0
  BY LayersAssumption
<1>2. \A a \in Nat : a \div WordBits \in Nat
  BY <1>1
<1>3. \A a \in Nat : a \div WordBits <= (a + 1) \div WordBits
  BY <1>1
<1> QED
  BY <1>1, <1>2, <1>3 DEF Words

LEMMA WordsMono ==
  ASSUME NEW a \in Nat, NEW b \in Nat, a <= b
  PROVE  Words(a) <= Words(b)
<1>1. WordBits \in Nat /\ WordBits > 0
  BY LayersAssumption
<1>2. \A c, d \in Nat : c <= d => c \div WordBits <= d \div WordBits
  BY <1>1
<1>3. a + WordBits - 1 \in Nat /\ b + WordBits - 1 \in Nat
      /\ a + WordBits - 1 <= b + WordBits - 1
  BY <1>1
<1> QED BY <1>2, <1>3 DEF Words

--------------------------------------------------------------------------------
(* Metadata maps.                                                          *)

LEMMA MetasDef ==
  ASSUME NEW m
  PROVE  m \in Metas <=> DOMAIN m \subseteq MetaKeys /\ m \in [DOMAIN m -> MetaVals]
<1>1. ASSUME m \in Metas PROVE DOMAIN m \subseteq MetaKeys /\ m \in [DOMAIN m -> MetaVals]
  <2>1. PICK ks \in SUBSET MetaKeys : m \in [ks -> MetaVals]
    BY <1>1 DEF Metas
  <2> QED BY <2>1
<1>2. ASSUME DOMAIN m \subseteq MetaKeys, m \in [DOMAIN m -> MetaVals] PROVE m \in Metas
  BY <1>2 DEF Metas
<1> QED BY <1>1, <1>2

LEMMA SetMeta ==
  ASSUME NEW m \in Metas, NEW k \in MetaKeys, NEW v \in MetaVals
  PROVE  Set(m, k, v) \in Metas /\ DOMAIN Set(m, k, v) = DOMAIN m \cup {k}
<1>1. DOMAIN m \subseteq MetaKeys /\ m \in [DOMAIN m -> MetaVals]
  BY MetasDef
<1>2. DOMAIN Set(m, k, v) = DOMAIN m \cup {k}
  BY DEF Set
<1>3. Set(m, k, v) \in [DOMAIN m \cup {k} -> MetaVals]
  BY <1>1 DEF Set
<1> QED BY <1>1, <1>2, <1>3, MetasDef

LEMMA WithoutMeta ==
  ASSUME NEW m \in Metas, NEW k
  PROVE  Without(m, k) \in Metas /\ DOMAIN Without(m, k) = DOMAIN m \ {k}
<1>1. DOMAIN m \subseteq MetaKeys /\ m \in [DOMAIN m -> MetaVals]
  BY MetasDef
<1>2. DOMAIN Without(m, k) = DOMAIN m \ {k}
  BY DEF Without
<1>3. Without(m, k) \in [DOMAIN m \ {k} -> MetaVals]
  BY <1>1 DEF Without
<1> QED BY <1>1, <1>2, <1>3, MetasDef

LEMMA RestrictMeta ==
  ASSUME NEW m \in Metas, NEW ks, ks \subseteq DOMAIN m
  PROVE  [k \in ks |-> m[k]] \in Metas
<1>1. DOMAIN m \subseteq MetaKeys /\ m \in [DOMAIN m -> MetaVals]
  BY MetasDef
<1>2. [k \in ks |-> m[k]] \in [ks -> MetaVals]
  BY <1>1
<1> QED BY <1>1, <1>2, MetasDef

LEMMA NoMetaMeta == NoMeta \in Metas /\ DOMAIN NoMeta = {}
<1>1. DOMAIN NoMeta = {}
  BY DEF NoMeta
<1>2. NoMeta \in [{} -> MetaVals]
  BY DEF NoMeta
<1> QED BY <1>1, <1>2, MetasDef

--------------------------------------------------------------------------------
(* The inductive invariant.                                                *)

\* The bits of a layer of n arrays.
BitsOf(layer, n) == layer.present \subseteq 0 .. n - 1

\* A layer in memory: its metadata is there, or untouched in the file.
MetaOf(layer, l, fl) ==
  IF layer.loaded \/ ~layer.block
  THEN DOMAIN layer.meta = layer.keys
  ELSE /\ layer.meta = NoMeta /\ l # Base
       /\ fl # Absent /\ l \in DOMAIN fl.layers
       /\ DOMAIN fl.layers[l].meta = layer.keys

\* All layers of a dataset with n arrays over file fl.
LayersOf(ls, n, fl) ==
  /\ IsLayers(ls)
  /\ \A l \in DOMAIN ls : BitsOf(ls[l], n) /\ MetaOf(ls[l], l, fl)
WordsOf(ls, n) == \A l \in DOMAIN ls : ls[l].words = Words(n)

\* A file: every array is named, and every layer complete.
FileOf(fl) ==
  fl # Absent =>
    /\ fl.arrays \in Seq(Array) /\ fl.registry \subseteq Names /\ IsLayers(fl.layers)
    /\ \A i \in DOMAIN fl.arrays : fl.arrays[i].name \in fl.registry
    /\ \A l \in DOMAIN fl.layers :
         /\ BitsOf(fl.layers[l], Len(fl.arrays))
         /\ DOMAIN fl.layers[l].meta = fl.layers[l].keys
         /\ fl.layers[l].keys = {} \/ fl.layers[l].block

\* Arrays go without a name only when the registry is full, and stays full.
FullOrNamed == AllNamed \/ ~(Cardinality(m_key_registry) < RegistryLimit)

IInv == /\ TypeOK
        /\ LayersOf(layers, Len(arrays), file)
        /\ AllNamed => WordsOf(layers, Len(arrays))
        /\ FileOf(file)
        /\ FullOrNamed

--------------------------------------------------------------------------------
(* The helpers.                                                            *)

LEMMA FreshGood ==
  ASSUME NEW w \in Nat, NEW l, NEW fl
  PROVE  /\ FreshLayer(w) \in Layer
         /\ MetaOf(FreshLayer(w), l, fl)
         /\ FreshLayer(w).words = w /\ FreshLayer(w).present = {}
         /\ IsLayers([m \in {Base} |-> FreshLayer(w)])
  BY NoMetaMeta DEF FreshLayer, Layer, MetaOf, IsLayers, AllLayers

\* Loading brings in exactly the metadata that the header lists.
LEMMA LoadedGood ==
  ASSUME IInv, NEW l \in DOMAIN layers
  PROVE  /\ Loaded(l) \in Layer
         /\ Loaded(l).loaded
         /\ DOMAIN Loaded(l).meta = layers[l].keys
         /\ Loaded(l).keys = layers[l].keys
         /\ Loaded(l).words = layers[l].words
         /\ Loaded(l).present = layers[l].present
         /\ Loaded(l).block = layers[l].block
<1>1. layers[l] \in Layer /\ MetaOf(layers[l], l, file)
  BY DEF IInv, LayersOf, IsLayers
<1>2. CASE layers[l].loaded
  BY <1>1, <1>2 DEF Loaded, MetaOf
<1>3. CASE ~layers[l].loaded /\ ~layers[l].block
  <2>1. Loaded(l) = [layers[l] EXCEPT !.loaded = TRUE, !.meta = layers[l].meta]
    BY <1>3 DEF Loaded
  <2> QED BY <1>1, <1>3, <2>1 DEF Layer, MetaOf
<1>4. CASE ~layers[l].loaded /\ layers[l].block
  <2>1. Loaded(l) = [layers[l] EXCEPT !.loaded = TRUE, !.meta = file.layers[l].meta]
    BY <1>4 DEF Loaded
  <2>2. /\ file # Absent /\ l \in DOMAIN file.layers
        /\ DOMAIN file.layers[l].meta = layers[l].keys
    BY <1>1, <1>4 DEF MetaOf
  <2>3. file.layers[l].meta \in Metas
    BY <2>2 DEF IInv, TypeOK, IsLayers, Layer
  <2> QED BY <1>1, <2>1, <2>2, <2>3 DEF Layer
<1> QED BY <1>1, <1>2, <1>3, <1>4 DEF Layer

\* Serializing keeps bitmap and key list, and leaves no unread block in the file.
LEMMA SerializedGood ==
  ASSUME IInv, NEW l \in DOMAIN layers
  PROVE  /\ Serialized(l) \in Layer
         /\ MetaOf(Serialized(l), l, file)
         /\ Serialized(l).loaded \/ ~Serialized(l).block
         /\ DOMAIN Serialized(l).meta = Serialized(l).keys
         /\ Serialized(l).words = layers[l].words
         /\ Serialized(l).present = layers[l].present
<1>1. layers[l] \in Layer /\ MetaOf(layers[l], l, file)
  BY DEF IInv, LayersOf, IsLayers
<1>2. CASE layers[l].keys = {}
  <2>1. Serialized(l) = [layers[l] EXCEPT !.block = FALSE]
    BY <1>2 DEF Serialized
  <2>2. DOMAIN layers[l].meta = {}
    BY <1>1, <1>2, NoMetaMeta DEF MetaOf
  <2> QED BY <1>1, <1>2, <2>1, <2>2 DEF Layer, MetaOf
<1>3. CASE layers[l].keys # {}
  <2>1. Serialized(l) = [Loaded(l) EXCEPT !.block = TRUE]
    BY <1>3 DEF Serialized
  <2> QED BY <1>1, <2>1, LoadedGood, ZenonT(40) DEF Layer, MetaOf
<1> QED BY <1>2, <1>3

\* A new array: every bitmap has room for it.
LEMMA MarkNewGood ==
  ASSUME IInv, NEW n, n = Len(arrays)
  PROVE  /\ LayersOf(MarkNew(layers, n), n + 1, file)
         /\ WordsOf(layers, n) => WordsOf(MarkNew(layers, n), n + 1)
<1> DEFINE new == MarkNew(layers, n)
<1>1. n \in Nat /\ IsLayers(layers)
  BY SeqDomain DEF IInv, TypeOK
<1>2. DOMAIN new = DOMAIN layers
  BY DEF MarkNew
<1>3. ASSUME NEW l \in DOMAIN layers
      PROVE  /\ new[l] \in Layer
             /\ BitsOf(new[l], n + 1) /\ MetaOf(new[l], l, file)
             /\ layers[l].words = Words(n) => new[l].words = Words(n + 1)
  <2>1. layers[l] \in Layer /\ MetaOf(layers[l], l, file) /\ BitsOf(layers[l], n)
    BY DEF IInv, LayersOf, IsLayers
  <2> DEFINE w == Grown(layers[l].words, n)
             p == IF l = Base THEN layers[l].present \cup {n} ELSE layers[l].present
  <2>2. new[l] = [layers[l] EXCEPT !.words = w, !.present = p]
    BY DEF MarkNew
  <2>3. w \in Nat /\ (layers[l].words = Words(n) => w = Words(n + 1))
    BY <1>1, <2>1, WordsGrow DEF Layer, Grown
  <2>4. p \subseteq 0 .. (n + 1) - 1
    BY <1>1, <2>1 DEF BitsOf
  <2>5. p \in SUBSET Nat
    BY <1>1, <2>4
  <2> HIDE DEF w, p, new
  <2>6. new[l] \in Layer /\ new[l].words = w /\ new[l].present = p
    BY <2>1, <2>2, <2>3, <2>5 DEF Layer
  <2>7. MetaOf(new[l], l, file)
    BY <2>1, <2>2 DEF Layer, MetaOf
  <2> QED BY <2>3, <2>4, <2>6, <2>7 DEF BitsOf
<1>4. new = [l \in DOMAIN layers |-> new[l]]
  BY DEF MarkNew
<1> HIDE DEF new
<1>5. IsLayers(new)
  BY <1>1, <1>2, <1>3, <1>4 DEF IsLayers
<1>6. LayersOf(new, n + 1, file)
  BY <1>2, <1>3, <1>5 DEF LayersOf
<1>7. WordsOf(layers, n) => WordsOf(new, n + 1)
  BY <1>2, <1>3 DEF WordsOf
<1> QED BY <1>6, <1>7 DEF new

\* The presence of a key moves only between bits that exist.
LEMMA MarkOwnerGood ==
  ASSUME NEW ls, NEW as \in Seq(Array), NEW layer, NEW k, NEW fl,
         LayersOf(ls, Len(as), fl)
  PROVE  /\ LayersOf(MarkOwner(ls, as, layer, k), Len(as), fl)
         /\ WordsOf(ls, Len(as)) => WordsOf(MarkOwner(ls, as, layer, k), Len(as))
<1>1. CASE ~HasName(as, Plain(k))
  BY <1>1 DEF MarkOwner
<1>2. CASE HasName(as, Plain(k))
  <2> DEFINE bit == Lookup(as, Plain(k)) - 1
             new == MarkOwner(ls, as, layer, k)
  <2>1. bit + 1 \in Nat /\ bit + 1 <= Len(as)
    BY <1>2, Ordinal
  <2>2. bit \in 0 .. Len(as) - 1 /\ bit \in Nat
    BY <1>2, Ordinal
  <2>3. new = [l \in DOMAIN ls |->
                 IF l = layer
                 THEN [ls[l] EXCEPT !.words = Grown(@, bit), !.present = @ \cup {bit}]
                 ELSE IF l = Base
                 THEN [ls[l] EXCEPT !.words = Grown(@, bit), !.present = @ \ {bit}]
                 ELSE ls[l]]
    BY <1>2 DEF MarkOwner
  <2> HIDE DEF bit, new
  <2>4. ASSUME NEW l \in DOMAIN ls
        PROVE  /\ new[l] \in Layer
               /\ BitsOf(new[l], Len(as))
               /\ ls[l].words = Words(Len(as)) => new[l].words = Words(Len(as))
               /\ MetaOf(new[l], l, fl)
    <3>1. ls[l] \in Layer /\ BitsOf(ls[l], Len(as)) /\ MetaOf(ls[l], l, fl)
      BY DEF IsLayers, LayersOf
    <3> DEFINE w == Grown(ls[l].words, bit)
    <3>2. w \in Nat /\ (ls[l].words = Words(Len(as)) => w = Words(Len(as)))
      <4>1. Len(as) \in Nat
        BY SeqDomain
      <4>2. bit + 1 \in Nat /\ bit + 1 <= Len(as)
        BY <2>1
      <4> DEFINE x == Words(bit + 1)
                 y == Words(Len(as))
      <4>3. x <= y
        BY <4>1, <4>2, WordsMono
      <4>4. x \in Nat /\ y \in Nat
        BY <4>1, <4>2, WordsGrow
      <4>5. w = IF x > ls[l].words THEN x ELSE ls[l].words
        BY DEF Grown
      <4>6. ls[l].words \in Nat
        BY <3>1 DEF Layer
      <4> HIDE DEF w, x, y
      <4>7. w \in Nat /\ (ls[l].words = y => w = y)
        BY <4>3, <4>4, <4>5, <4>6
      <4> QED BY <4>7 DEF y
    <3> HIDE DEF w
    <3>3. CASE l = layer
      <4>1. new[l] = [ls[l] EXCEPT !.words = w, !.present = @ \cup {bit}]
        BY <2>3, <3>3 DEF w
      <4>2. ls[l].present \cup {bit} \subseteq 0 .. Len(as) - 1
        BY <2>2, <3>1 DEF BitsOf
      <4>3. ls[l].present \cup {bit} \in SUBSET Nat
        BY <2>2, <3>1 DEF Layer
      <4> QED BY <3>1, <3>2, <4>1, <4>2, <4>3 DEF Layer, BitsOf, MetaOf
    <3>4. CASE l # layer /\ l = Base
      <4>1. new[l] = [ls[l] EXCEPT !.words = w, !.present = @ \ {bit}]
        BY <2>3, <3>4 DEF w
      <4> QED BY <2>2, <3>1, <3>2, <4>1 DEF Layer, BitsOf, MetaOf
    <3>5. CASE l # layer /\ l # Base
      BY <2>3, <3>1, <3>5
    <3> QED BY <3>3, <3>4, <3>5
  <2>5. DOMAIN new = DOMAIN ls
    BY <2>3
  <2>6. IsLayers(new)
    BY <2>3, <2>4, <2>5 DEF IsLayers, LayersOf
  <2>7. LayersOf(new, Len(as), fl)
    BY <2>4, <2>5, <2>6 DEF LayersOf
  <2>8. WordsOf(ls, Len(as)) => WordsOf(new, Len(as))
    BY <2>4, <2>5 DEF WordsOf
  <2> QED BY <2>7, <2>8 DEF new
<1> QED BY <1>1, <1>2

--------------------------------------------------------------------------------
(* The steps.                                                              *)

\* What has to be shown of a step that does not write the file.
LEMMA MemoryStep ==
  ASSUME IInv, UNCHANGED file,
         isOpen' \in BOOLEAN, m_flushed' \in BOOLEAN, m_file_mode' \in {ReadOnly, ReadWrite},
         arrays' \in Seq(Array), m_key_registry' \subseteq Names, FullOrNamed',
         LayersOf(layers', Len(arrays'), file'),
         AllNamed' => WordsOf(layers', Len(arrays'))
  PROVE  IInv'
<1>1. TypeOK'
  BY DEF IInv, TypeOK, LayersOf
<1>2. FileOf(file')
  BY DEF IInv
<1> QED BY <1>1, <1>2 DEF IInv

\* A new name leaves every array named, or the full registry as it was.
LEMMA NameStep ==
  ASSUME IInv, NEW n \in Names, CanName(n), m_key_registry' = WithName(n), UNCHANGED arrays
  PROVE  m_key_registry' \subseteq Names /\ FullOrNamed' /\ (AllNamed' => AllNamed)
<1>1. CASE AllNamed
  BY <1>1 DEF IInv, TypeOK, WithName, FullOrNamed, AllNamed
<1>2. CASE ~AllNamed
  <2>1. m_key_registry' = m_key_registry
    BY <1>2 DEF IInv, FullOrNamed, CanName, WithName
  <2> QED BY <1>2, <2>1 DEF IInv, TypeOK, FullOrNamed, AllNamed
<1> QED BY <1>1, <1>2

\* Storing a value replaces one or appends one.
LEMMA StoredGood ==
  ASSUME IInv, NEW n \in Names, NEW v \in Vals
  PROVE  /\ Stored(n, v) \in Seq(Array)
         /\ HasName(arrays, n) =>
              /\ Len(Stored(n, v)) = Len(arrays)
              /\ \A i \in DOMAIN arrays : Stored(n, v)[i].name = arrays[i].name
         /\ ~HasName(arrays, n) =>
              /\ Len(Stored(n, v)) = Len(arrays) + 1
              /\ \A i \in DOMAIN arrays : Stored(n, v)[i] = arrays[i]
              /\ Stored(n, v)[Len(arrays) + 1].name = n
<1>1. arrays \in Seq(Array) /\ DOMAIN arrays = 1 .. Len(arrays) /\ Len(arrays) \in Nat
  BY SeqDomain DEF IInv, TypeOK
<1>2. CASE HasName(arrays, n)
  <2> DEFINE j == Lookup(arrays, n)
             r == [arrays[j] EXCEPT !.val = v]
  <2>1. j \in DOMAIN arrays
    BY <1>2 DEF Lookup, HasName
  <2>2. arrays[j] \in Array
    BY <1>1, <2>1
  <2>3. r \in Array /\ r.name = arrays[j].name
    BY <2>2 DEF Array
  <2>4. Stored(n, v) = [arrays EXCEPT ![j] = r]
    BY <1>2 DEF Stored
  <2> HIDE DEF j, r
  <2>5. [arrays EXCEPT ![j] = r] \in Seq(Array)
    BY <1>1, <2>1, <2>3
  <2> QED BY <1>1, <1>2, <2>1, <2>3, <2>4, <2>5
<1>3. CASE ~HasName(arrays, n)
  <2> DEFINE r == [name |-> n, val |-> v]
  <2>1. r \in Array /\ r.name = n
    BY DEF Array
  <2>2. Stored(n, v) = Append(arrays, r)
    BY <1>3 DEF Stored
  <2> HIDE DEF r
  <2>3. Append(arrays, r) \in Seq(Array) /\ Len(Append(arrays, r)) = Len(arrays) + 1
    BY <1>1, <2>1
  <2>4. \A i \in DOMAIN arrays : Append(arrays, r)[i] = arrays[i]
    BY <1>1, <2>1
  <2>5. Append(arrays, r)[Len(arrays) + 1] = r
    BY <1>1, <2>1
  <2> QED BY <1>3, <2>1, <2>2, <2>3, <2>4, <2>5
<1> QED BY <1>2, <1>3

\* The bitmaps after the array of name n is stored: put(), with or without room
\* in the key registry.
LEMMA PutStep ==
  ASSUME IInv, NEW n \in Names, NEW v \in Vals, arrays' = Stored(n, v), NEW ls,
         IF HasName(arrays, n) \/ ~CanName(n)
         THEN UNCHANGED m_key_registry /\ ls = layers
         ELSE m_key_registry' = WithName(n) /\ ls = MarkNew(layers, Len(arrays))
  PROVE  /\ arrays' \in Seq(Array) /\ m_key_registry' \subseteq Names /\ FullOrNamed'
         /\ LayersOf(ls, Len(arrays'), file)
         /\ AllNamed' => WordsOf(ls, Len(arrays'))
<1>0. /\ arrays \in Seq(Array) /\ DOMAIN arrays = 1 .. Len(arrays) /\ Len(arrays) \in Nat
      /\ m_key_registry \subseteq Names /\ FullOrNamed
      /\ LayersOf(layers, Len(arrays), file)
      /\ AllNamed => WordsOf(layers, Len(arrays))
  BY SeqDomain DEF IInv, TypeOK
<1>1. arrays' \in Seq(Array) /\ DOMAIN arrays' = 1 .. Len(arrays') /\ Len(arrays') \in Nat
  BY StoredGood, SeqDomain
<1>2. CASE HasName(arrays, n)
  <2>1. Len(arrays') = Len(arrays) /\ \A i \in DOMAIN arrays : arrays'[i].name = arrays[i].name
    BY <1>2, StoredGood
  <2>2. UNCHANGED m_key_registry /\ ls = layers
    BY <1>2
  <2>3. (AllNamed' <=> AllNamed) /\ FullOrNamed'
    BY <1>0, <1>1, <2>1, <2>2 DEF AllNamed, FullOrNamed
  <2> QED BY <1>0, <1>1, <2>1, <2>2, <2>3
<1>3. CASE ~HasName(arrays, n) /\ ~CanName(n)
  <2>1. /\ Len(arrays') = Len(arrays) + 1
        /\ \A i \in DOMAIN arrays : arrays'[i] = arrays[i]
        /\ arrays'[Len(arrays) + 1].name = n
    BY <1>3, StoredGood
  <2>2. UNCHANGED m_key_registry /\ ls = layers
    BY <1>3
  <2>3. ~AllNamed'
    BY <1>0, <1>1, <1>3, <2>1, <2>2 DEF AllNamed, CanName
  <2>4. FullOrNamed'
    BY <1>3, <2>2 DEF FullOrNamed, CanName
  <2>5. LayersOf(layers, Len(arrays'), file)
    BY <1>0, <2>1 DEF BitsOf, LayersOf
  <2> QED BY <1>0, <1>1, <2>2, <2>3, <2>4, <2>5
<1>4. CASE ~HasName(arrays, n) /\ CanName(n)
  <2>1. /\ Len(arrays') = Len(arrays) + 1
        /\ \A i \in DOMAIN arrays : arrays'[i] = arrays[i]
        /\ arrays'[Len(arrays) + 1].name = n
    BY <1>4, StoredGood
  <2>2. m_key_registry' = WithName(n) /\ ls = MarkNew(layers, Len(arrays))
    BY <1>4
  <2>3. AllNamed' => AllNamed
    BY <1>0, <1>1, <1>4, <2>1, <2>2 DEF AllNamed, WithName, HasName
  <2>4. FullOrNamed'
    <3>1. CASE AllNamed
      BY <1>0, <1>1, <2>1, <2>2, <3>1 DEF FullOrNamed, AllNamed, WithName
    <3>2. CASE ~AllNamed
      BY <1>0, <1>4, <2>2, <3>2 DEF FullOrNamed, CanName, WithName
    <3> QED BY <3>1, <3>2
  <2>5. /\ LayersOf(ls, Len(arrays) + 1, file)
        /\ WordsOf(layers, Len(arrays)) => WordsOf(ls, Len(arrays) + 1)
    BY <2>2, MarkNewGood
  <2>6. m_key_registry' \subseteq Names
    BY <1>0, <2>2 DEF WithName
  <2> QED BY <1>0, <1>1, <2>1, <2>3, <2>4, <2>5, <2>6
<1> QED BY <1>2, <1>3, <1>4

\* A step that keeps the arrays and, of every layer, the bitmap.
LEMMA LayersStep ==
  ASSUME IInv, UNCHANGED <<arrays, file, isOpen, m_file_mode>>, m_flushed' \in BOOLEAN,
         m_key_registry' \subseteq Names, FullOrNamed', AllNamed' => AllNamed,
         NEW g, layers' = [l \in DOMAIN layers |-> g[l]],
         \A l \in DOMAIN layers : /\ g[l] \in Layer
                                  /\ g[l].words = layers[l].words
                                  /\ g[l].present = layers[l].present
                                  /\ MetaOf(g[l], l, file)
  PROVE  IInv'
<1>1. LayersOf(layers, Len(arrays), file) /\ (AllNamed => WordsOf(layers, Len(arrays)))
  BY DEF IInv
<1>2. IsLayers(layers')
  BY <1>1 DEF LayersOf, IsLayers
<1>3. LayersOf(layers', Len(arrays'), file')
  BY <1>1, <1>2 DEF LayersOf, BitsOf
<1>4. WordsOf(layers, Len(arrays)) => WordsOf(layers', Len(arrays'))
  BY DEF WordsOf
<1>5. /\ isOpen' \in BOOLEAN /\ m_file_mode' \in {ReadOnly, ReadWrite}
      /\ arrays' \in Seq(Array)
  BY DEF IInv, TypeOK
<1> QED BY <1>1, <1>3, <1>4, <1>5, MemoryStep

\* A step that changes the metadata of one layer.
LEMMA LayerStep ==
  ASSUME IInv, UNCHANGED <<arrays, file, isOpen, m_file_mode>>, m_flushed' \in BOOLEAN,
         m_key_registry' \subseteq Names, FullOrNamed', AllNamed' => AllNamed,
         NEW l \in DOMAIN layers, NEW r \in Layer,
         r.words = layers[l].words, r.present = layers[l].present,
         DOMAIN r.meta = r.keys, r.loaded \/ ~r.block,
         layers' = [layers EXCEPT ![l] = r]
  PROVE  IInv'
<1> DEFINE g == [layers EXCEPT ![l] = r]
<1>1. LayersOf(layers, Len(arrays), file)
  BY DEF IInv
<1>2. \A m \in DOMAIN layers : layers[m] \in Layer /\ MetaOf(layers[m], m, file)
  BY <1>1 DEF LayersOf, IsLayers
<1>3. layers' = [m \in DOMAIN layers |-> g[m]]
  OBVIOUS
<1>4. g[l] = r /\ \A m \in DOMAIN layers : m # l => g[m] = layers[m]
  OBVIOUS
<1>5. MetaOf(r, l, file)
  BY DEF MetaOf
<1> HIDE DEF g
<1>6. \A m \in DOMAIN layers : /\ g[m] \in Layer
                               /\ g[m].words = layers[m].words
                               /\ g[m].present = layers[m].present
                               /\ MetaOf(g[m], m, file)
  BY <1>2, <1>4, <1>5
<1> QED BY <1>3, <1>6, LayersStep

\* The dataset without arrays.
LEMMA EmptyStep ==
  ASSUME isOpen' \in BOOLEAN, m_flushed' \in BOOLEAN, m_file_mode' \in {ReadOnly, ReadWrite},
         arrays' = <<>>, m_key_registry' = {},
         layers' = [l \in {Base} |-> FreshLayer(0)], FileOf(file')
  PROVE  IInv'
<1>1. Words(0) = 0
  BY LayersAssumption DEF Words
<1>2. /\ FreshLayer(0) \in Layer /\ MetaOf(FreshLayer(0), Base, file')
      /\ FreshLayer(0).words = 0 /\ FreshLayer(0).present = {}
      /\ IsLayers([m \in {Base} |-> FreshLayer(0)])
  BY FreshGood
<1>3. arrays' \in Seq(Array) /\ Len(arrays') = 0 /\ DOMAIN arrays' = {}
  OBVIOUS
<1>4. DOMAIN layers' = {Base} /\ layers'[Base] = FreshLayer(0)
  OBVIOUS
<1>5. LayersOf(layers', Len(arrays'), file')
  BY <1>2, <1>3, <1>4 DEF LayersOf, BitsOf
<1>6. WordsOf(layers', Len(arrays'))
  BY <1>1, <1>2, <1>3, <1>4 DEF WordsOf
<1>7. AllNamed' /\ FullOrNamed'
  BY <1>3 DEF AllNamed, FullOrNamed
<1>8. TypeOK'
  BY <1>3, <1>2 DEF TypeOK, FileOf
<1> QED BY <1>5, <1>6, <1>7, <1>8 DEF IInv

--------------------------------------------------------------------------------
(* What is written.                                                        *)

\* flush_internal() writes only complete layers.
LEMMA ImageGood ==
  ASSUME IInv, CanSerialize
  PROVE  FileOf(ImageNow)
<1> DEFINE r(l) == [Serialized(l) EXCEPT !.loaded = FALSE,
                                         !.meta = [k \in Serialized(l).keys |-> Serialized(l).meta[k]]]
           ls == [l \in DOMAIN layers |-> r(l)]
<1>1. /\ ImageNow.arrays = arrays /\ ImageNow.registry = m_key_registry
      /\ ImageNow.layers = ls
  BY DEF ImageNow
<1>2. /\ arrays \in Seq(Array) /\ m_key_registry \subseteq Names /\ IsLayers(layers)
      /\ LayersOf(layers, Len(arrays), file)
  BY DEF IInv, TypeOK
<1>3. \A i \in DOMAIN arrays : arrays[i].name \in m_key_registry
  BY DEF CanSerialize
<1>4. ASSUME NEW l \in DOMAIN layers
      PROVE  /\ r(l) \in Layer /\ BitsOf(r(l), Len(arrays))
             /\ DOMAIN r(l).meta = r(l).keys
             /\ r(l).keys = {} \/ r(l).block
  <2>1. /\ Serialized(l) \in Layer /\ DOMAIN Serialized(l).meta = Serialized(l).keys
        /\ Serialized(l).present = layers[l].present
    BY SerializedGood
  <2> DEFINE m == [k \in Serialized(l).keys |-> Serialized(l).meta[k]]
  <2>2. m \in Metas /\ DOMAIN m = Serialized(l).keys
    BY <2>1, RestrictMeta DEF Layer
  <2>3. Serialized(l).keys = {} \/ Serialized(l).block
    <3>1. CASE layers[l].keys = {}
      <4>1. Serialized(l) = [layers[l] EXCEPT !.block = FALSE]
        BY <3>1 DEF Serialized
      <4> QED BY <3>1, <4>1, <1>2 DEF IsLayers, Layer
    <3>2. CASE layers[l].keys # {}
      BY <3>2, LoadedGood DEF Serialized, Layer
    <3> QED BY <3>1, <3>2
  <2>4. BitsOf(layers[l], Len(arrays))
    BY <1>2 DEF LayersOf
  <2> HIDE DEF m
  <2>5. r(l) = [Serialized(l) EXCEPT !.loaded = FALSE, !.meta = m]
    BY DEF m
  <2> HIDE DEF r
  <2> QED BY <2>1, <2>2, <2>3, <2>4, <2>5 DEF Layer, BitsOf
<1> HIDE DEF r
<1>5. IsLayers(ls) /\ DOMAIN ls = DOMAIN layers
  BY <1>2, <1>4 DEF IsLayers
<1>6. \A l \in DOMAIN ls : ls[l] = r(l)
  OBVIOUS
<1> HIDE DEF ls
<1>7. \A l \in DOMAIN ls : /\ BitsOf(ls[l], Len(arrays))
                           /\ DOMAIN ls[l].meta = ls[l].keys
                           /\ ls[l].keys = {} \/ ls[l].block
  BY <1>4, <1>5, <1>6
<1> DEFINE image == ImageNow
<1>8. image.arrays = arrays /\ image.registry = m_key_registry /\ image.layers = ls
  BY <1>1
<1> HIDE DEF image
<1>9. /\ image.arrays \in Seq(Array) /\ image.registry \subseteq Names /\ IsLayers(image.layers)
      /\ \A i \in DOMAIN image.arrays : image.arrays[i].name \in image.registry
  BY <1>2, <1>3, <1>5, <1>8
<1>10. \A l \in DOMAIN image.layers :
         /\ BitsOf(image.layers[l], Len(image.arrays))
         /\ DOMAIN image.layers[l].meta = image.layers[l].keys
         /\ image.layers[l].keys = {} \/ image.layers[l].block
  BY <1>7, <1>8
<1>11. FileOf(image)
  BY <1>9, <1>10 DEF FileOf
<1> QED BY <1>11 DEF image

\* loadIndex() gives bitmaps of the right length, and metadata for the base layer.
LEMMA LoadGood ==
  ASSUME NEW fl, fl # Absent, FileOf(fl)
  PROVE  /\ LayersOf(LoadIndex(fl), Len(fl.arrays), fl)
         /\ WordsOf(LoadIndex(fl), Len(fl.arrays))
<1> DEFINE n == Len(fl.arrays)
           ls == LoadIndex(fl)
<1>1. /\ fl.arrays \in Seq(Array) /\ n \in Nat /\ IsLayers(fl.layers)
  BY SeqDomain DEF FileOf
<1>2. Words(n) \in Nat
  BY <1>1, WordsGrow
<1>3. DOMAIN ls = DOMAIN fl.layers
  BY DEF LoadIndex
<1>4. ls = [l \in DOMAIN ls |-> ls[l]]
  BY DEF LoadIndex
<1>5. ASSUME NEW l \in DOMAIN fl.layers
      PROVE  /\ ls[l] \in Layer /\ BitsOf(ls[l], n) /\ MetaOf(ls[l], l, fl)
             /\ ls[l].words = Words(n)
  <2>1. /\ fl.layers[l] \in Layer /\ BitsOf(fl.layers[l], n)
        /\ DOMAIN fl.layers[l].meta = fl.layers[l].keys
        /\ fl.layers[l].keys = {} \/ fl.layers[l].block
    BY DEF FileOf, IsLayers
  <2>2. CASE l = Base
    <3>1. ls[l] = [fl.layers[l] EXCEPT !.words = Words(n), !.loaded = TRUE]
      BY <2>1, <2>2 DEF LoadIndex, Layer
    <3> HIDE DEF ls, n
    <3> QED BY <1>2, <2>1, <3>1 DEF Layer, BitsOf, MetaOf
  <2>3. CASE l # Base
    <3>1. ls[l] = [fl.layers[l] EXCEPT !.words = Words(n), !.loaded = FALSE, !.meta = NoMeta]
      BY <2>3 DEF LoadIndex
    <3> HIDE DEF ls, n
    <3>2. ls[l] \in Layer
      BY <1>2, <2>1, <3>1, NoMetaMeta DEF Layer
    <3>3. MetaOf(ls[l], l, fl)
      BY <2>1, <2>3, <3>1, NoMetaMeta DEF Layer, MetaOf
    <3> QED BY <2>1, <3>1, <3>2, <3>3 DEF Layer, BitsOf
  <2> QED BY <2>2, <2>3
<1> HIDE DEF ls, n
<1>6. IsLayers(ls)
  BY <1>1, <1>3, <1>4, <1>5 DEF IsLayers
<1> QED BY <1>3, <1>5, <1>6 DEF LayersOf, WordsOf, ls, n

--------------------------------------------------------------------------------
(* One lemma per group of actions.                                         *)

LEMMA InitStep == Init => IInv
<1> SUFFICES ASSUME Init PROVE IInv
  OBVIOUS
<1>1. Words(0) = 0
  BY LayersAssumption DEF Words
<1>2. /\ FreshLayer(0) \in Layer /\ MetaOf(FreshLayer(0), Base, file)
      /\ FreshLayer(0).words = 0 /\ FreshLayer(0).present = {}
      /\ IsLayers([m \in {Base} |-> FreshLayer(0)])
  BY FreshGood
<1>3. arrays \in Seq(Array) /\ Len(arrays) = 0 /\ DOMAIN arrays = {}
  BY DEF Init
<1>4. layers = [l \in {Base} |-> FreshLayer(0)]
  BY DEF Init
<1>5. DOMAIN layers = {Base} /\ layers[Base] = FreshLayer(0)
  BY <1>4
<1>6. LayersOf(layers, Len(arrays), file)
  BY <1>2, <1>3, <1>4, <1>5 DEF LayersOf, BitsOf
<1>7. WordsOf(layers, Len(arrays))
  BY <1>1, <1>2, <1>3, <1>5 DEF WordsOf
<1>8. AllNamed /\ FullOrNamed
  BY <1>3 DEF AllNamed, FullOrNamed
<1>9. TypeOK /\ FileOf(file)
  BY <1>2, <1>3, <1>4 DEF Init, TypeOK, FileOf
<1> QED BY <1>6, <1>7, <1>8, <1>9 DEF IInv

LEMMA CreateStep ==
  ASSUME IInv, Create PROVE IInv'
<1>1. FileOf(file')
  BY DEF Create, FileOf
<1> QED BY <1>1, EmptyStep DEF Create

LEMMA OpenStep ==
  ASSUME IInv, NEW md \in {ReadOnly, ReadWrite}, Open(md) PROVE IInv'
<1>1. file # Absent /\ FileOf(file)
  BY DEF IInv, Open
<1>2. /\ arrays' = file.arrays /\ m_key_registry' = file.registry
      /\ layers' = LoadIndex(file) /\ file' = file
      /\ isOpen' \in BOOLEAN /\ m_flushed' \in BOOLEAN /\ m_file_mode' \in {ReadOnly, ReadWrite}
  BY DEF Open
<1>3. /\ arrays' \in Seq(Array) /\ m_key_registry' \subseteq Names
      /\ \A i \in DOMAIN arrays' : arrays'[i].name \in m_key_registry'
  BY <1>1, <1>2 DEF FileOf
<1>4. FullOrNamed'
  BY <1>3 DEF FullOrNamed, AllNamed
<1>5. /\ LayersOf(layers', Len(arrays'), file')
      /\ WordsOf(layers', Len(arrays'))
  BY <1>1, <1>2, LoadGood
<1> QED BY <1>2, <1>3, <1>4, <1>5, MemoryStep

LEMMA CloseStep ==
  ASSUME IInv, Destroy \/ Crash PROVE IInv'
<1>1. FileOf(file)
  BY DEF IInv
<1>2. FileOf(file')
  <2>1. CASE Crash
    BY <1>1, <2>1 DEF Crash
  <2>2. CASE Destroy
    BY <1>1, <2>2, ImageGood DEF Destroy
  <2> QED BY <2>1, <2>2
<1> QED BY <1>2, EmptyStep DEF Destroy, Crash

LEMMA PutKeeps ==
  ASSUME IInv, NEW k \in Keys, NEW v \in Vals, Put(k, v) PROVE IInv'
<1>1. Plain(k) \in Names
  BY DEF Plain, Names, AllLayers
<1>2. /\ arrays' \in Seq(Array) /\ m_key_registry' \subseteq Names /\ FullOrNamed'
      /\ LayersOf(layers', Len(arrays'), file)
      /\ AllNamed' => WordsOf(layers', Len(arrays'))
  BY <1>1, PutStep DEF Put
<1>3. file' = file /\ isOpen' \in BOOLEAN /\ m_flushed' \in BOOLEAN
      /\ m_file_mode' \in {ReadOnly, ReadWrite}
  BY DEF Put, IInv, TypeOK
<1> QED BY <1>2, <1>3, MemoryStep

LEMMA LayerPutKeeps ==
  ASSUME IInv, NEW l \in AllLayers, NEW k \in Keys, NEW v \in Vals, LayerPut(l, k, v)
  PROVE  IInv'
<1> DEFINE n == StorageKey[l][k]
           ls == IF HasName(arrays, n) \/ ~CanName(n) THEN layers
                 ELSE MarkNew(layers, Len(arrays))
<1>1. n \in Names
  BY DEF Names
<1>2. /\ arrays' = Stored(n, v)
      /\ IF HasName(arrays, n) \/ ~CanName(n)
         THEN UNCHANGED m_key_registry /\ ls = layers
         ELSE m_key_registry' = WithName(n) /\ ls = MarkNew(layers, Len(arrays))
      /\ layers' = ls \/ layers' = MarkOwner(ls, arrays', l, k)
  BY DEF LayerPut
<1>3. file' = file /\ isOpen' \in BOOLEAN /\ m_flushed' \in BOOLEAN
      /\ m_file_mode' \in {ReadOnly, ReadWrite}
  BY DEF LayerPut, IInv, TypeOK
<1> HIDE DEF n, ls
<1>4. /\ arrays' \in Seq(Array) /\ m_key_registry' \subseteq Names /\ FullOrNamed'
      /\ LayersOf(ls, Len(arrays'), file)
      /\ AllNamed' => WordsOf(ls, Len(arrays'))
  BY <1>1, <1>2, PutStep
<1>5. /\ LayersOf(layers', Len(arrays'), file)
      /\ WordsOf(ls, Len(arrays')) => WordsOf(layers', Len(arrays'))
  BY <1>2, <1>4, MarkOwnerGood
<1> QED BY <1>3, <1>4, <1>5, MemoryStep

LEMMA CreateLayerKeeps ==
  ASSUME IInv, NEW l \in NewLayers, CreateLayer(l) PROVE IInv'
<1> DEFINE w == Words(Len(arrays))
<1>1. /\ arrays \in Seq(Array) /\ Len(arrays) \in Nat /\ FullOrNamed
      /\ LayersOf(layers, Len(arrays), file)
      /\ AllNamed => WordsOf(layers, Len(arrays))
  BY SeqDomain DEF IInv, TypeOK
<1>2. w \in Nat
  BY <1>1, WordsGrow
<1>3. layers' = [m \in DOMAIN layers \cup {l} |-> IF m = l THEN FreshLayer(w) ELSE layers[m]]
  BY DEF CreateLayer
<1> HIDE DEF w
<1>4. /\ FreshLayer(w) \in Layer /\ MetaOf(FreshLayer(w), l, file)
      /\ FreshLayer(w).words = w /\ FreshLayer(w).present = {}
  BY <1>2, FreshGood
<1>5. DOMAIN layers' = DOMAIN layers \cup {l}
  BY <1>3
<1>6. layers'[l] = FreshLayer(w) /\ \A m \in DOMAIN layers : m # l => layers'[m] = layers[m]
  BY <1>3
<1>7. \A m \in DOMAIN layers' : /\ layers'[m] \in Layer
                                /\ BitsOf(layers'[m], Len(arrays))
                                /\ MetaOf(layers'[m], m, file)
  BY <1>1, <1>4, <1>5, <1>6 DEF LayersOf, IsLayers, BitsOf
<1>8. IsLayers(layers')
  BY <1>1, <1>3, <1>5, <1>7 DEF LayersOf, IsLayers, AllLayers
<1>9. LayersOf(layers', Len(arrays), file)
  BY <1>7, <1>8 DEF LayersOf
<1>10. WordsOf(layers, Len(arrays)) => WordsOf(layers', Len(arrays))
  BY <1>4, <1>5, <1>6 DEF WordsOf, w
<1>11. /\ UNCHANGED <<arrays, m_key_registry, file>>
       /\ isOpen' \in BOOLEAN /\ m_flushed' \in BOOLEAN /\ m_file_mode' \in {ReadOnly, ReadWrite}
       /\ m_key_registry \subseteq Names
  BY DEF CreateLayer, IInv, TypeOK
<1>12. FullOrNamed' /\ (AllNamed' <=> AllNamed)
  BY <1>1, <1>11 DEF FullOrNamed, AllNamed
<1> QED BY <1>1, <1>9, <1>10, <1>11, <1>12, MemoryStep

\* What the metadata operations leave alone.
LEMMA MetaFrame ==
  ASSUME IInv
  PROVE  /\ m_key_registry \subseteq Names /\ FullOrNamed /\ isOpen \in BOOLEAN
         /\ m_flushed \in BOOLEAN /\ m_file_mode \in {ReadOnly, ReadWrite}
         /\ Base \in DOMAIN layers
         /\ \A l \in DOMAIN layers : layers[l] \in Layer /\ MetaOf(layers[l], l, file)
  BY DEF IInv, TypeOK, LayersOf, IsLayers

\* A step that changes one layer's metadata and no name.
LEMMA SameNames ==
  ASSUME IInv, UNCHANGED <<arrays, m_key_registry>>
  PROVE  m_key_registry' \subseteq Names /\ FullOrNamed' /\ (AllNamed' => AllNamed)
  BY MetaFrame DEF FullOrNamed, AllNamed

LEMMA MetaPutKeeps ==
  ASSUME IInv, NEW k \in MetaKeys, NEW v \in MetaVals, MetaPut(k, v) PROVE IInv'
<1> DEFINE b == layers[Base]
           m == Set(b.meta, k, v)
           ks == b.keys \cup {k}
           r == [b EXCEPT !.meta = m, !.keys = ks]
<1>1. b \in Layer /\ MetaOf(b, Base, file)
  BY MetaFrame
<1>2. DOMAIN b.meta = b.keys
  BY <1>1 DEF MetaOf
<1>3. m \in Metas /\ DOMAIN m = ks
  BY <1>1, <1>2, SetMeta DEF Layer
<1>4. layers' = [layers EXCEPT ![Base] = r]
  <2>1. (IF k \in DOMAIN b.meta THEN b.keys ELSE b.keys \cup {k}) = ks
    BY <1>2
  <2> QED BY <2>1, MetaFrame DEF MetaPut
<1>5. b.loaded \/ ~b.block
  BY <1>1 DEF MetaOf
<1> HIDE DEF m, ks
<1>6. /\ r \in Layer /\ r.words = b.words /\ r.present = b.present
      /\ DOMAIN r.meta = r.keys /\ (r.loaded \/ ~r.block)
  BY <1>1, <1>3, <1>5 DEF Layer, ks
<1> HIDE DEF r
<1>7. Plain(k) \in Names
  BY DEF Plain, Names, AllLayers
<1>8. /\ CanName(Plain(k)) /\ m_key_registry' = WithName(Plain(k))
      /\ UNCHANGED <<arrays, file, isOpen, m_file_mode>> /\ m_flushed' \in BOOLEAN
  BY DEF MetaPut
<1>9. m_key_registry' \subseteq Names /\ FullOrNamed' /\ (AllNamed' => AllNamed)
  BY <1>7, <1>8, NameStep
<1> QED BY <1>4, <1>6, <1>8, <1>9, MetaFrame, LayerStep

LEMMA MetaRemoveKeeps ==
  ASSUME IInv, NEW k \in MetaKeys, MetaRemove(k) PROVE IInv'
<1> DEFINE b == layers[Base]
           m == Without(b.meta, k)
           r == [b EXCEPT !.meta = m, !.keys = @ \ {k}]
<1>1. b \in Layer /\ MetaOf(b, Base, file)
  BY MetaFrame
<1>2. DOMAIN b.meta = b.keys /\ (b.loaded \/ ~b.block)
  BY <1>1 DEF MetaOf
<1>3. m \in Metas /\ DOMAIN m = b.keys \ {k}
  BY <1>1, <1>2, WithoutMeta DEF Layer
<1>4. layers' = [layers EXCEPT ![Base] = r] \/ layers' = [layers EXCEPT ![Base] = b]
  <2>1. layers = [layers EXCEPT ![Base] = b]
    BY MetaFrame DEF IInv, TypeOK, IsLayers
  <2>2. layers' = [layers EXCEPT ![Base] = r] \/ layers' = layers
    BY MetaFrame DEF MetaRemove
  <2> QED BY <2>1, <2>2
<1> HIDE DEF m
<1>5. /\ r \in Layer /\ r.words = b.words /\ r.present = b.present
      /\ DOMAIN r.meta = r.keys /\ (r.loaded \/ ~r.block)
  BY <1>1, <1>2, <1>3 DEF Layer
<1> HIDE DEF r
<1>6. /\ UNCHANGED <<arrays, m_key_registry, file, isOpen, m_file_mode>>
      /\ m_flushed' \in BOOLEAN
  BY DEF MetaRemove
<1> QED BY <1>1, <1>2, <1>4, <1>5, <1>6, SameNames, MetaFrame, LayerStep

LEMMA MetaClearKeeps ==
  ASSUME IInv, MetaClear PROVE IInv'
<1> DEFINE b == layers[Base]
           r == [b EXCEPT !.meta = NoMeta, !.keys = {}]
<1>1. b \in Layer /\ MetaOf(b, Base, file)
  BY MetaFrame
<1>2. b.loaded \/ ~b.block
  BY <1>1 DEF MetaOf
<1>3. layers' = [layers EXCEPT ![Base] = r]
  BY MetaFrame DEF MetaClear
<1>4. /\ r \in Layer /\ r.words = b.words /\ r.present = b.present
      /\ DOMAIN r.meta = r.keys /\ (r.loaded \/ ~r.block)
  BY <1>1, <1>2, NoMetaMeta DEF Layer
<1> HIDE DEF r
<1>5. /\ UNCHANGED <<arrays, m_key_registry, file, isOpen, m_file_mode>>
      /\ m_flushed' \in BOOLEAN
  BY DEF MetaClear
<1> QED BY <1>3, <1>4, <1>5, SameNames, MetaFrame, LayerStep

LEMMA LayerMetaPutKeeps ==
  ASSUME IInv, NEW l \in AllLayers, NEW k \in MetaKeys, NEW v \in MetaVals,
         LayerMetaPut(l, k, v)
  PROVE  IInv'
<1> DEFINE b == Loaded(l)
           m == Set(b.meta, k, v)
           r == [b EXCEPT !.meta = m, !.keys = @ \cup {k}]
<1>1. l \in DOMAIN layers /\ CanName(Plain(k)) /\ m_key_registry' = WithName(Plain(k))
      /\ UNCHANGED <<arrays, file, isOpen, m_file_mode>> /\ m_flushed' \in BOOLEAN
      /\ layers' = [layers EXCEPT ![l] = r]
  BY DEF LayerMetaPut
<1>2. /\ b \in Layer /\ b.loaded /\ DOMAIN b.meta = b.keys
      /\ b.words = layers[l].words /\ b.present = layers[l].present
  BY <1>1, LoadedGood
<1> HIDE DEF b
<1>3. m \in Metas /\ DOMAIN m = b.keys \cup {k}
  BY <1>2, SetMeta DEF Layer
<1> HIDE DEF m
<1>4. /\ r \in Layer /\ r.words = b.words /\ r.present = b.present
      /\ DOMAIN r.meta = r.keys /\ r.loaded
  BY <1>2, <1>3 DEF Layer
<1> HIDE DEF r
<1>5. Plain(k) \in Names
  BY DEF Plain, Names, AllLayers
<1>6. m_key_registry' \subseteq Names /\ FullOrNamed' /\ (AllNamed' => AllNamed)
  BY <1>1, <1>5, NameStep
<1> QED BY <1>1, <1>2, <1>4, <1>6, LayerStep

LEMMA LayerMetaGetKeeps ==
  ASSUME IInv, NEW l \in AllLayers, NEW k \in MetaKeys, LayerMetaGet(l, k) PROVE IInv'
<1>1. PICK touched :
        layers' = [m \in DOMAIN layers |-> IF m \in touched THEN Loaded(m) ELSE layers[m]]
  BY DEF LayerMetaGet
<1> DEFINE g == [m \in DOMAIN layers |-> IF m \in touched THEN Loaded(m) ELSE layers[m]]
<1>2. ASSUME NEW m \in DOMAIN layers
      PROVE  /\ g[m] \in Layer /\ g[m].words = layers[m].words
             /\ g[m].present = layers[m].present /\ MetaOf(g[m], m, file)
  <2>1. CASE m \in touched
    BY <2>1, LoadedGood DEF MetaOf
  <2>2. CASE m \notin touched
    BY <2>2, MetaFrame
  <2> QED BY <2>1, <2>2
<1>3. layers' = [m \in DOMAIN layers |-> g[m]]
  BY <1>1
<1> HIDE DEF g
<1>4. /\ UNCHANGED <<arrays, m_key_registry, file, isOpen, m_file_mode, m_flushed>>
      /\ m_flushed' \in BOOLEAN
  BY MetaFrame DEF LayerMetaGet
<1>5. m_key_registry' \subseteq Names /\ FullOrNamed' /\ (AllNamed' => AllNamed)
  BY <1>4, SameNames
<1> QED BY <1>2, <1>3, <1>4, <1>5, LayersStep

LEMMA LayerMetaRemoveKeeps ==
  ASSUME IInv, NEW l \in AllLayers, NEW k \in MetaKeys, LayerMetaRemove(l, k) PROVE IInv'
<1> DEFINE b == layers[l]
           m == Without(b.meta, k)
           r == [b EXCEPT !.meta = m, !.keys = @ \ {k}]
<1>1. /\ l \in DOMAIN layers /\ k \in DOMAIN b.meta
      /\ layers' = [layers EXCEPT ![l] = r]
      /\ UNCHANGED <<arrays, m_key_registry, file, isOpen, m_file_mode>>
      /\ m_flushed' \in BOOLEAN
  BY DEF LayerMetaRemove
<1>2. b \in Layer /\ MetaOf(b, l, file)
  BY <1>1, MetaFrame
<1>3. DOMAIN b.meta = b.keys /\ (b.loaded \/ ~b.block)
  BY <1>1, <1>2, NoMetaMeta DEF MetaOf
<1>4. m \in Metas /\ DOMAIN m = b.keys \ {k}
  BY <1>2, <1>3, WithoutMeta DEF Layer
<1> HIDE DEF m
<1>5. /\ r \in Layer /\ r.words = b.words /\ r.present = b.present
      /\ DOMAIN r.meta = r.keys /\ (r.loaded \/ ~r.block)
  BY <1>2, <1>3, <1>4 DEF Layer
<1> HIDE DEF r
<1> QED BY <1>1, <1>5, SameNames, LayerStep

LEMMA FlushKeeps ==
  ASSUME IInv, Flush PROVE IInv'
<1> DEFINE g == [l \in DOMAIN layers |-> Serialized(l)]
<1>1. /\ CanSerialize /\ file' = ImageNow /\ layers' = g
      /\ UNCHANGED <<isOpen, m_file_mode, arrays, m_key_registry>>
      /\ m_flushed' \in BOOLEAN
  BY DEF Flush
<1>2. FileOf(file')
  BY <1>1, ImageGood
<1>3. ASSUME NEW l \in DOMAIN layers
      PROVE  /\ g[l] \in Layer /\ g[l].words = layers[l].words
             /\ g[l].present = layers[l].present /\ MetaOf(g[l], l, file')
  BY SerializedGood DEF MetaOf
<1>4. DOMAIN g = DOMAIN layers /\ g = [l \in DOMAIN g |-> g[l]]
  OBVIOUS
<1> HIDE DEF g
<1>5. LayersOf(layers, Len(arrays), file) /\ (AllNamed => WordsOf(layers, Len(arrays)))
  BY DEF IInv
<1>6. IsLayers(g)
  BY <1>3, <1>4, <1>5 DEF LayersOf, IsLayers
<1>7. LayersOf(g, Len(arrays), file')
  BY <1>3, <1>4, <1>5, <1>6 DEF LayersOf, BitsOf
<1>8. WordsOf(layers, Len(arrays)) => WordsOf(g, Len(arrays))
  BY <1>3, <1>4 DEF WordsOf
<1>9. TypeOK'
  BY <1>1, <1>2, <1>6 DEF IInv, TypeOK, FileOf
<1>10. FullOrNamed' /\ (AllNamed' => AllNamed)
  BY <1>1, SameNames
<1> QED BY <1>1, <1>2, <1>5, <1>7, <1>8, <1>9, <1>10 DEF IInv

LEMMA FlushThrowsKeeps ==
  ASSUME IInv, FlushThrows PROVE IInv'
<1> DEFINE g == [l \in DOMAIN layers |-> Serialized(l)]
<1>1. /\ layers' = g /\ UNCHANGED <<isOpen, m_file_mode, m_flushed, arrays, m_key_registry, file>>
      /\ m_flushed' \in BOOLEAN
  BY MetaFrame DEF FlushThrows
<1>2. \A l \in DOMAIN layers : /\ g[l] \in Layer /\ g[l].words = layers[l].words
                               /\ g[l].present = layers[l].present
                               /\ MetaOf(g[l], l, file)
  BY SerializedGood
<1>3. layers' = [l \in DOMAIN layers |-> g[l]]
  BY <1>1
<1> HIDE DEF g
<1> QED BY <1>1, <1>2, <1>3, SameNames, LayersStep

--------------------------------------------------------------------------------
(* What m_flushed stands for.                                              *)

\* The file a flushed dataset has: its arrays, and its layers' keys and metadata.
SavedOf ==
  isOpen /\ m_flushed =>
    /\ file # Absent /\ file.arrays = arrays /\ DOMAIN file.layers = DOMAIN layers
    /\ \A l \in DOMAIN layers : /\ file.layers[l].meta = Loaded(l).meta
                                /\ file.layers[l].keys = layers[l].keys
                                /\ file.layers[l].present = layers[l].present

\* Functions are equal when their domains and values are.
LEMMA MetaExt ==
  ASSUME NEW m \in Metas, NEW ks, DOMAIN m = ks
  PROVE  [k \in ks |-> m[k]] = m
<1>1. m \in [DOMAIN m -> MetaVals]
  BY MetasDef
<1> QED BY <1>1

\* Serializing a layer changes neither its keys nor what its metadata shows.
LEMMA SerializedShows ==
  ASSUME IInv, NEW l \in DOMAIN layers
  PROVE  /\ Serialized(l).keys = layers[l].keys
         /\ Serialized(l).meta = Loaded(l).meta
<1>1. layers[l] \in Layer /\ MetaOf(layers[l], l, file)
  BY MetaFrame
<1>2. CASE layers[l].keys = {}
  <2>1. Serialized(l) = [layers[l] EXCEPT !.block = FALSE]
    BY <1>2 DEF Serialized
  <2>2. DOMAIN layers[l].meta = {} /\ DOMAIN Loaded(l).meta = {}
    BY <1>1, <1>2, LoadedGood, NoMetaMeta DEF MetaOf
  <2>3. layers[l].meta \in Metas /\ Loaded(l).meta \in Metas
    BY <1>1, LoadedGood DEF Layer
  <2>4. \A m \in Metas : DOMAIN m = {} => m = [k \in {} |-> m[k]]
    BY MetaExt
  <2>5. layers[l].meta = Loaded(l).meta
    <3>1. \A m1, m2 : [k \in {} |-> m1[k]] = [k \in {} |-> m2[k]]
      OBVIOUS
    <3> QED BY <2>2, <2>3, <2>4, <3>1
  <2> QED BY <1>1, <2>1, <2>5 DEF Layer
<1>3. CASE layers[l].keys # {}
  BY <1>3, LoadedGood DEF Serialized, Layer
<1> QED BY <1>2, <1>3

LEMMA SavedKeeps == IInv /\ SavedOf /\ [Next]_vars => SavedOf'
<1> SUFFICES ASSUME IInv, SavedOf, [Next]_vars, isOpen', m_flushed'
             PROVE  SavedOf'
  BY DEF SavedOf
<1>1. \/ Flush \/ UNCHANGED vars
      \/ \E l \in AllLayers, k \in MetaKeys : LayerMetaGet(l, k)
  BY DEF Next, Create, Open, Put, LayerPut, CreateLayer, MetaPut, MetaRemove, MetaClear,
         LayerMetaPut, LayerMetaRemove, FlushThrows, Destroy, Crash
<1>2. CASE Flush
  <2>1. /\ file' = ImageNow /\ layers' = [l \in DOMAIN layers |-> Serialized(l)]
        /\ arrays' = arrays /\ CanSerialize
    BY <1>2 DEF Flush
  <2>2. /\ file'.arrays = arrays' /\ DOMAIN file'.layers = DOMAIN layers'
        /\ DOMAIN layers' = DOMAIN layers
    BY <2>1 DEF ImageNow
  <2>3. ASSUME NEW l \in DOMAIN layers
        PROVE  /\ file'.layers[l].meta = Loaded(l)'.meta
               /\ file'.layers[l].keys = layers'[l].keys
               /\ file'.layers[l].present = layers'[l].present
    <3> DEFINE s == Serialized(l)
    <3>1. /\ s \in Layer /\ DOMAIN s.meta = s.keys /\ (s.loaded \/ ~s.block)
      BY SerializedGood
    <3>2. layers'[l] = s
      BY <2>1
    <3>3. file'.layers[l] = [s EXCEPT !.loaded = FALSE, !.meta = [k \in s.keys |-> s.meta[k]]]
      BY <2>1 DEF ImageNow
    <3> HIDE DEF s
    <3>4. [k \in s.keys |-> s.meta[k]] = s.meta
      BY <3>1, MetaExt DEF Layer
    <3>5. Loaded(l)' = IF s.loaded THEN s ELSE [s EXCEPT !.loaded = TRUE, !.meta = @]
      BY <3>1, <3>2 DEF Loaded
    <3>6. Loaded(l)'.meta = s.meta
      BY <3>1, <3>5 DEF Layer
    <3> QED BY <3>1, <3>2, <3>3, <3>4, <3>6 DEF Layer
  <2>4. file' # Absent
    <3> DEFINE ls == ImageNow.layers
    <3>2. CASE ImageNow # Absent
      BY <2>1, <3>2
    <3>3. CASE ImageNow = Absent
      <4>1. /\ arrays \in Seq(Array) /\ m_key_registry \in SUBSET Names
        BY DEF IInv, TypeOK
      <4>2. ls \in [DOMAIN layers -> Layer]
        <5>1. ASSUME NEW l \in DOMAIN layers PROVE ls[l] \in Layer
          <6>1. /\ Serialized(l) \in Layer /\ DOMAIN Serialized(l).meta = Serialized(l).keys
            BY SerializedGood
          <6>2. [k \in Serialized(l).keys |-> Serialized(l).meta[k]] = Serialized(l).meta
            BY <6>1, MetaExt DEF Layer
          <6>3. ls[l] = [Serialized(l) EXCEPT !.loaded = FALSE,
                           !.meta = [k \in Serialized(l).keys |-> Serialized(l).meta[k]]]
            BY DEF ImageNow
          <6> QED BY <6>1, <6>2, <6>3 DEF Layer
        <5>2. ls = [l \in DOMAIN layers |-> ls[l]]
          BY DEF ImageNow
        <5> QED BY <5>1, <5>2
      <4>3. DOMAIN layers \in SUBSET AllLayers
        BY DEF IInv, TypeOK, IsLayers
      <4>4. ls \in UNION {[D -> Layer] : D \in SUBSET AllLayers}
        BY <4>2, <4>3
      <4>5. ImageNow = [arrays |-> arrays, registry |-> m_key_registry, layers |-> ls]
        BY DEF ImageNow
      <4> HIDE DEF ls
      <4>6. ImageNow \in Image
        BY <4>1, <4>4, <4>5 DEF Image
      <4> QED BY <3>3, <4>6, AbsentAssumption
    <3> QED BY <3>2, <3>3
  <2> QED BY <2>2, <2>3, <2>4 DEF SavedOf
<1>3. CASE UNCHANGED vars
  BY <1>3 DEF SavedOf, vars, Loaded
<1>4. CASE \E l \in AllLayers, k \in MetaKeys : LayerMetaGet(l, k)
  <2>1. PICK touched :
          layers' = [m \in DOMAIN layers |-> IF m \in touched THEN Loaded(m) ELSE layers[m]]
    BY <1>4 DEF LayerMetaGet
  <2>2. UNCHANGED <<isOpen, m_flushed, arrays, file>>
    BY <1>4 DEF LayerMetaGet
  <2>3. ASSUME NEW m \in DOMAIN layers
        PROVE  /\ Loaded(m)' = Loaded(m) /\ layers'[m].keys = layers[m].keys
               /\ layers'[m].present = layers[m].present
    <3>1. layers'[m] = IF m \in touched THEN Loaded(m) ELSE layers[m]
      BY <2>1
    <3>2. /\ Loaded(m).loaded /\ Loaded(m).keys = layers[m].keys
          /\ Loaded(m).present = layers[m].present
      BY LoadedGood
    <3>3. CASE m \in touched
      BY <3>1, <3>2, <3>3 DEF Loaded
    <3>4. CASE m \notin touched
      BY <2>2, <3>1, <3>4 DEF Loaded
    <3> QED BY <3>1, <3>2, <3>3, <3>4
  <2>4. DOMAIN layers' = DOMAIN layers
    BY <2>1
  <2> QED BY <2>2, <2>3, <2>4 DEF SavedOf
<1> QED BY <1>1, <1>2, <1>3, <1>4

--------------------------------------------------------------------------------
(* Whose array a bit is, and a name's only array.                          *)

Unique(as) == \A i, j \in DOMAIN as : as[i].name = as[j].name => i = j

\* A layer whose bit is set for a base array has an array of that key.
Owned(ls, as) ==
  \A l \in DOMAIN ls, i \in DOMAIN as, k \in Keys :
    i - 1 \in ls[l].present /\ as[i].name = Plain(k) => HasName(as, StorageKey[l][k])

BitsInv == /\ Unique(arrays) /\ Owned(layers, arrays)
           /\ file # Absent => Unique(file.arrays) /\ Owned(file.layers, file.arrays)

LEMMA FewerBits ==
  ASSUME NEW as, NEW ls, NEW new, Owned(ls, as),
         \A l \in DOMAIN new : \/ new[l].present = {}
                               \/ l \in DOMAIN ls /\ new[l].present \subseteq ls[l].present
  PROVE  Owned(new, as)
  BY DEF Owned

\* Storing keeps one array per name, and every name and other array where it was.
LEMMA StoredUnique ==
  ASSUME IInv, Unique(arrays), NEW n \in Names, NEW v \in Vals
  PROVE  /\ Unique(Stored(n, v)) /\ HasName(Stored(n, v), n)
         /\ DOMAIN arrays \subseteq DOMAIN Stored(n, v)
         /\ \A i \in DOMAIN arrays : /\ Stored(n, v)[i].name = arrays[i].name
                                     /\ arrays[i].name # n => Stored(n, v)[i] = arrays[i]
         /\ \A i \in DOMAIN Stored(n, v) :
              i \in DOMAIN arrays \/ Stored(n, v)[i].name = n
<1> DEFINE new == Stored(n, v)
<1>1. arrays \in Seq(Array) /\ DOMAIN arrays = 1 .. Len(arrays) /\ Len(arrays) \in Nat
  BY SeqDomain DEF IInv, TypeOK
<1>2. new \in Seq(Array) /\ DOMAIN new = 1 .. Len(new) /\ Len(new) \in Nat
  BY StoredGood, SeqDomain
<1>3. CASE HasName(arrays, n)
  <2>1. Len(new) = Len(arrays) /\ \A i \in DOMAIN arrays : new[i].name = arrays[i].name
    BY <1>3, StoredGood
  <2>2. Lookup(arrays, n) \in DOMAIN arrays /\ arrays[Lookup(arrays, n)].name = n
    BY <1>3 DEF Lookup, HasName
  <2>3. \A i \in DOMAIN arrays : arrays[i].name # n => new[i] = arrays[i]
    BY <1>1, <1>3, <2>2 DEF Stored
  <2> HIDE DEF new
  <2>4. Unique(new)
    BY <1>1, <1>2, <2>1 DEF Unique
  <2>5. HasName(new, n)
    BY <1>1, <1>2, <2>1, <2>2 DEF HasName
  <2> QED BY <1>1, <1>2, <2>1, <2>3, <2>4, <2>5 DEF new
<1>4. CASE ~HasName(arrays, n)
  <2>1. /\ Len(new) = Len(arrays) + 1
        /\ \A i \in DOMAIN arrays : new[i] = arrays[i]
        /\ new[Len(arrays) + 1].name = n
    BY <1>4, StoredGood
  <2> HIDE DEF new
  <2>2. \A i \in DOMAIN new : i \in DOMAIN arrays \/ i = Len(arrays) + 1
    BY <1>1, <1>2, <2>1
  <2>3. Unique(new)
    BY <1>1, <1>4, <2>1, <2>2 DEF Unique, HasName
  <2>4. HasName(new, n) /\ DOMAIN arrays \subseteq DOMAIN new
    BY <1>1, <1>2, <2>1 DEF HasName
  <2> QED BY <2>1, <2>2, <2>3, <2>4 DEF new
<1> QED BY <1>3, <1>4

\* A new array brings a bit of the base layer only, which is the array itself.
LEMMA NewBits ==
  ASSUME IInv, BitsInv, NEW n \in Names, NEW v \in Vals, NEW ls,
         IF HasName(arrays, n) \/ ~CanName(n) THEN ls = layers
         ELSE ls = MarkNew(layers, Len(arrays))
  PROVE  Owned(ls, Stored(n, v)) /\ DOMAIN ls = DOMAIN layers
<1> DEFINE new == Stored(n, v)
<1>1. arrays \in Seq(Array) /\ DOMAIN arrays = 1 .. Len(arrays) /\ Len(arrays) \in Nat
  BY SeqDomain DEF IInv, TypeOK
<1>2. /\ HasName(new, n) /\ DOMAIN arrays \subseteq DOMAIN new
      /\ \A i \in DOMAIN arrays : new[i].name = arrays[i].name
      /\ \A i \in DOMAIN new : i \in DOMAIN arrays \/ new[i].name = n
  BY StoredUnique DEF BitsInv
<1>3. new \in Seq(Array) /\ DOMAIN new = 1 .. Len(new) /\ Len(new) \in Nat
  BY StoredGood, SeqDomain
<1>9. \A l \in DOMAIN layers : layers[l] \in Layer /\ BitsOf(layers[l], Len(arrays))
  BY DEF IInv, LayersOf, IsLayers
<1>4. DOMAIN ls = DOMAIN layers
  BY DEF MarkNew
<1>5. \A l \in DOMAIN ls, b \in Nat :
        b \in ls[l].present => b \in layers[l].present \/ (l = Base /\ b = Len(arrays))
  <2> TAKE l \in DOMAIN ls, b \in Nat
  <2>1. CASE ls = layers
    BY <2>1
  <2>2. CASE ls = MarkNew(layers, Len(arrays))
    <3>1. ls[l] = [layers[l] EXCEPT !.words = Grown(@, Len(arrays)),
                                    !.present = IF l = Base THEN @ \cup {Len(arrays)} ELSE @]
      BY <1>4, <2>2 DEF MarkNew
    <3>2. ls[l].present = IF l = Base THEN layers[l].present \cup {Len(arrays)}
                          ELSE layers[l].present
      BY <1>4, <1>9, <3>1 DEF Layer
    <3> QED BY <3>2
  <2> QED BY <2>1, <2>2
<1> HIDE DEF new
<1>6. ASSUME NEW l \in DOMAIN ls, NEW i \in DOMAIN new, NEW k \in Keys,
             i - 1 \in ls[l].present, new[i].name = Plain(k)
      PROVE  HasName(new, StorageKey[l][k])
  <2>1. i - 1 \in Nat
    BY <1>3
  <2>2. CASE i - 1 \in layers[l].present
    <3>1. i \in DOMAIN arrays
      BY <1>1, <1>3, <1>4, <1>9, <2>2 DEF BitsOf
    <3>2. HasName(arrays, StorageKey[l][k])
      BY <1>2, <1>4, <1>6, <2>2, <3>1 DEF BitsInv, Owned
    <3> QED BY <1>2, <3>2 DEF HasName
  <2>3. CASE l = Base
    BY <1>6, <2>3 DEF HasName, Plain
  <2> QED BY <1>5, <1>6, <2>1, <2>2, <2>3
<1> QED BY <1>4, <1>6 DEF Owned, new

\* The bit that moves to a layer is of a key the layer has.
LEMMA OwnerBits ==
  ASSUME NEW ls, NEW as \in Seq(Array), NEW layer, NEW k \in Keys, Owned(ls, as), IsLayers(ls),
         HasName(as, StorageKey[layer][k])
  PROVE  Owned(MarkOwner(ls, as, layer, k), as)
<1>1. CASE ~HasName(as, Plain(k))
  BY <1>1 DEF MarkOwner
<1>2. CASE HasName(as, Plain(k))
  <2>1. PICK at : at = Lookup(as, Plain(k))
    OBVIOUS
  <2> DEFINE bit == at - 1
             new == MarkOwner(ls, as, layer, k)
  <2>2. at \in DOMAIN as /\ as[at].name = Plain(k) /\ DOMAIN as = 1 .. Len(as) /\ Len(as) \in Nat
    <3>1. Lookup(as, Plain(k)) \in DOMAIN as /\ as[Lookup(as, Plain(k))].name = Plain(k)
      BY <1>2 DEF Lookup, HasName
    <3>2. DOMAIN as = 1 .. Len(as) /\ Len(as) \in Nat
      BY SeqDomain
    <3> QED BY <2>1, <3>1, <3>2
  <2>3. new = [l \in DOMAIN ls |->
                 IF l = layer
                 THEN [ls[l] EXCEPT !.words = Grown(@, bit), !.present = @ \cup {bit}]
                 ELSE IF l = Base
                 THEN [ls[l] EXCEPT !.words = Grown(@, bit), !.present = @ \ {bit}]
                 ELSE ls[l]]
    BY <1>2, <2>1 DEF MarkOwner
  <2> HIDE DEF new
  <2>4. \A l \in DOMAIN ls : new[l].present \subseteq ls[l].present \cup (IF l = layer THEN {bit} ELSE {})
    BY <2>3 DEF IsLayers, Layer
  <2>5. ASSUME NEW l \in DOMAIN ls, NEW i \in DOMAIN as, NEW j \in Keys,
               i - 1 \in new[l].present, as[i].name = Plain(j)
        PROVE  HasName(as, StorageKey[l][j])
    <3>1. CASE i - 1 \in ls[l].present
      BY <2>5, <3>1 DEF Owned
    <3>2. CASE l = layer /\ i - 1 = bit
      <4>1. i = at
        BY <2>2, <3>2
      <4>2. Plain(j) = Plain(k)
        BY <2>2, <2>5, <4>1
      <4>3. j = k
        BY <4>2, SpellingAssumption DEF Plain
      <4> QED BY <3>2, <4>3
    <3> QED BY <2>4, <2>5, <3>1, <3>2
  <2>6. DOMAIN new = DOMAIN ls
    BY <2>3
  <2> QED BY <2>5, <2>6 DEF Owned, new
<1> QED BY <1>1, <1>2

LEMMA NoBits ==
  ASSUME arrays' = <<>>, file' # Absent => Unique(file'.arrays) /\ Owned(file'.layers, file'.arrays)
  PROVE  BitsInv'
<1>1. DOMAIN arrays' = {}
  OBVIOUS
<1> QED BY <1>1 DEF BitsInv, Unique, Owned

\* What a flush writes.
LEMMA ImageBits ==
  ASSUME IInv, BitsInv
  PROVE  Unique(ImageNow.arrays) /\ Owned(ImageNow.layers, ImageNow.arrays)
<1>1. ImageNow.arrays = arrays /\ DOMAIN ImageNow.layers = DOMAIN layers
  BY DEF ImageNow
<1>2. ASSUME NEW l \in DOMAIN layers
      PROVE  ImageNow.layers[l].present = layers[l].present
  <2>1. Serialized(l) \in Layer /\ Serialized(l).present = layers[l].present
    BY SerializedGood
  <2>2. ImageNow.layers[l] =
          [Serialized(l) EXCEPT !.loaded = FALSE,
             !.meta = [k \in Serialized(l).keys |-> Serialized(l).meta[k]]]
    BY DEF ImageNow
  <2> QED BY <2>1, <2>2 DEF Layer
<1> QED BY <1>1, <1>2, FewerBits DEF BitsInv

LEMMA BitsKeep == IInv /\ BitsInv /\ [Next]_vars => BitsInv'
<1> SUFFICES ASSUME IInv, BitsInv, [Next]_vars PROVE BitsInv'
  OBVIOUS
<1>0. /\ IsLayers(layers) /\ Base \in DOMAIN layers /\ \A l \in DOMAIN layers : layers[l] \in Layer
      /\ arrays \in Seq(Array)
  BY DEF IInv, TypeOK, IsLayers
<1>1. CASE Create \/ Crash
  BY <1>1, NoBits DEF Create, Crash, BitsInv
<1>2. CASE Destroy
  BY <1>2, NoBits, ImageBits DEF Destroy, BitsInv
<1>3. CASE \E md \in {ReadOnly, ReadWrite} : Open(md)
  <2>1. arrays' = file.arrays /\ layers' = LoadIndex(file) /\ file' = file /\ file # Absent
    BY <1>3 DEF Open
  <2>2. IsLayers(file.layers) /\ \A l \in DOMAIN file.layers : file.layers[l] \in Layer
    BY <2>1 DEF IInv, TypeOK, IsLayers
  <2>3. DOMAIN layers' = DOMAIN file.layers
    BY <2>1 DEF LoadIndex
  <2>4. ASSUME NEW l \in DOMAIN file.layers PROVE layers'[l].present = file.layers[l].present
    <3>1. layers'[l] = [file.layers[l] EXCEPT !.words = Words(Len(file.arrays)), !.loaded = l = Base,
                                              !.meta = IF l = Base THEN @ ELSE NoMeta]
      BY <2>1 DEF LoadIndex
    <3> QED BY <2>2, <3>1 DEF Layer
  <2>5. Owned(layers', file.arrays)
    BY <2>1, <2>3, <2>4, FewerBits DEF BitsInv
  <2> QED BY <2>1, <2>5 DEF BitsInv
<1>4. CASE \E k \in Keys, v \in Vals : Put(k, v)
  <2>1. PICK k \in Keys, v \in Vals : Put(k, v)
    BY <1>4
  <2>2. Plain(k) \in Names
    BY DEF Plain, Names, AllLayers
  <2>3. /\ arrays' = Stored(Plain(k), v) /\ file' = file
        /\ IF HasName(arrays, Plain(k)) \/ ~CanName(Plain(k)) THEN layers' = layers
           ELSE layers' = MarkNew(layers, Len(arrays))
    BY <2>1 DEF Put
  <2>4. Owned(layers', arrays') /\ Unique(arrays')
    BY <2>2, <2>3, NewBits, StoredUnique DEF BitsInv
  <2> QED BY <2>3, <2>4 DEF BitsInv
<1>5. CASE \E l \in AllLayers, k \in Keys, v \in Vals : LayerPut(l, k, v)
  <2>1. PICK l \in AllLayers, k \in Keys, v \in Vals : LayerPut(l, k, v)
    BY <1>5
  <2> DEFINE n == StorageKey[l][k]
             ls == IF HasName(arrays, n) \/ ~CanName(n) THEN layers
                   ELSE MarkNew(layers, Len(arrays))
  <2>2. n \in Names
    BY DEF Names
  <2>3. /\ arrays' = Stored(n, v) /\ file' = file
        /\ layers' = ls \/ layers' = MarkOwner(ls, arrays', l, k)
    BY <2>1 DEF LayerPut
  <2>4. /\ Owned(ls, arrays') /\ Unique(arrays') /\ HasName(arrays', n)
        /\ arrays' \in Seq(Array)
    BY <2>2, <2>3, NewBits, StoredUnique, StoredGood DEF BitsInv
  <2>5. IsLayers(ls)
    BY <1>0, MarkNewGood DEF LayersOf
  <2> HIDE DEF ls
  <2>6. Owned(layers', arrays')
    BY <2>3, <2>4, <2>5, OwnerBits
  <2> QED BY <2>3, <2>4, <2>6 DEF BitsInv
<1>6. ASSUME UNCHANGED <<arrays, file>>,
             \A l \in DOMAIN layers' : \/ layers'[l].present = {}
                                       \/ l \in DOMAIN layers /\ layers'[l].present \subseteq layers[l].present
      PROVE  BitsInv'
  BY <1>6, FewerBits DEF BitsInv
<1>7. CASE \E l \in NewLayers : CreateLayer(l)
  BY <1>6, <1>7 DEF CreateLayer, FreshLayer
<1>8. CASE \/ \E k \in MetaKeys, v \in MetaVals : MetaPut(k, v)
           \/ \E k \in MetaKeys : MetaRemove(k)
           \/ MetaClear
           \/ \E l \in AllLayers, k \in MetaKeys : LayerMetaRemove(l, k)
  <2>1. \/ layers' = layers
        \/ \E l \in DOMAIN layers : \E m, ks : layers' = [layers EXCEPT ![l].meta = m, ![l].keys = ks]
    <3>1. ASSUME NEW k \in MetaKeys, NEW v \in MetaVals, MetaPut(k, v)
          PROVE  \E m, ks : layers' = [layers EXCEPT ![Base].meta = m, ![Base].keys = ks]
      BY <3>1 DEF MetaPut
    <3>2. ASSUME NEW k \in MetaKeys, MetaRemove(k)
          PROVE  \/ layers' = layers
                 \/ \E m, ks : layers' = [layers EXCEPT ![Base].meta = m, ![Base].keys = ks]
      BY <3>2 DEF MetaRemove
    <3>3. ASSUME MetaClear
          PROVE  \E m, ks : layers' = [layers EXCEPT ![Base].meta = m, ![Base].keys = ks]
      BY <3>3 DEF MetaClear
    <3>4. ASSUME NEW l \in AllLayers, NEW k \in MetaKeys, LayerMetaRemove(l, k)
          PROVE  /\ l \in DOMAIN layers
                 /\ \E m, ks : layers' = [layers EXCEPT ![l].meta = m, ![l].keys = ks]
      BY <3>4 DEF LayerMetaRemove
    <3> QED BY <1>0, <1>8, <3>1, <3>2, <3>3, <3>4
  <2>3. DOMAIN layers' = DOMAIN layers /\ \A l \in DOMAIN layers : layers'[l].present = layers[l].present
    <3>1. CASE layers' = layers
      BY <3>1
    <3>2. ASSUME NEW l \in DOMAIN layers, NEW m, NEW ks,
                 layers' = [layers EXCEPT ![l].meta = m, ![l].keys = ks]
          PROVE  DOMAIN layers' = DOMAIN layers
                 /\ \A d \in DOMAIN layers : layers'[d].present = layers[d].present
      BY <1>0, <3>2 DEF Layer
    <3> QED BY <2>1, <3>1, <3>2
  <2>2. UNCHANGED <<arrays, file>>
    BY <1>8 DEF MetaPut, MetaRemove, MetaClear, LayerMetaRemove
  <2> QED BY <1>6, <2>2, <2>3
<1>9. CASE \/ \E l \in AllLayers, k \in MetaKeys, v \in MetaVals : LayerMetaPut(l, k, v)
           \/ \E l \in AllLayers, k \in MetaKeys : LayerMetaGet(l, k)
  <2>0. \A l \in DOMAIN layers : Loaded(l) \in Layer /\ Loaded(l).present = layers[l].present
    BY LoadedGood
  <2>1. DOMAIN layers' = DOMAIN layers /\ \A l \in DOMAIN layers : layers'[l].present = layers[l].present
    BY <1>0, <1>9, <2>0 DEF LayerMetaPut, LayerMetaGet, Layer
  <2>2. UNCHANGED <<arrays, file>>
    BY <1>9 DEF LayerMetaPut, LayerMetaGet
  <2> QED BY <1>6, <2>1, <2>2
<1>10. CASE Flush \/ FlushThrows
  <2>1. /\ arrays' = arrays /\ layers' = [l \in DOMAIN layers |-> Serialized(l)]
        /\ file' = file \/ file' = ImageNow
    BY <1>10 DEF Flush, FlushThrows
  <2>2. \A l \in DOMAIN layers : Serialized(l).present = layers[l].present
    BY SerializedGood
  <2>3. Owned(layers', arrays')
    BY <2>1, <2>2, FewerBits DEF BitsInv
  <2> QED BY <2>1, <2>3, ImageBits DEF BitsInv
<1>11. CASE UNCHANGED vars
  BY <1>11 DEF vars, BitsInv
<1> QED BY <1>1, <1>2, <1>3, <1>4, <1>5, <1>7, <1>8, <1>9, <1>10, <1>11 DEF Next

\* The only array of a name is what is found under it.
LEMMA ArrayNamedIs ==
  ASSUME NEW as, Unique(as), NEW n, NEW i \in DOMAIN as, as[i].name = n
  PROVE  ArrayNamed(as, n) = as[i].val
<1>1. HasName(as, n)
  BY DEF HasName
<1>2. Lookup(as, n) \in DOMAIN as /\ as[Lookup(as, n)].name = n
  BY <1>1 DEF Lookup, HasName
<1>3. Lookup(as, n) = i
  BY <1>2 DEF Unique
<1> QED BY <1>1, <1>3 DEF ArrayNamed

LEMMA StoredOther ==
  ASSUME IInv, BitsInv, NEW n \in Names, NEW v \in Vals, NEW other, other # n
  PROVE  ArrayNamed(Stored(n, v), other) = ArrayNamed(arrays, other)
<1> DEFINE new == Stored(n, v)
<1>1. /\ Unique(new) /\ DOMAIN arrays \subseteq DOMAIN new /\ Unique(arrays)
      /\ \A i \in DOMAIN arrays : /\ new[i].name = arrays[i].name
                                  /\ arrays[i].name # n => new[i] = arrays[i]
      /\ \A i \in DOMAIN new : i \in DOMAIN arrays \/ new[i].name = n
  BY StoredUnique DEF BitsInv
<1> HIDE DEF new
<1>2. CASE HasName(arrays, other)
  <2>1. PICK i \in DOMAIN arrays : arrays[i].name = other
    BY <1>2 DEF HasName
  <2>2. new[i] = arrays[i] /\ i \in DOMAIN new
    BY <1>1, <2>1
  <2>3. ArrayNamed(arrays, other) = arrays[i].val
    BY <1>1, <2>1, ArrayNamedIs
  <2>4. ArrayNamed(new, other) = new[i].val
    BY <1>1, <2>1, <2>2, ArrayNamedIs
  <2> QED BY <2>2, <2>3, <2>4 DEF new
<1>3. CASE ~HasName(arrays, other)
  <2>1. ~HasName(new, other)
    BY <1>1, <1>3 DEF HasName
  <2> QED BY <1>3, <2>1 DEF ArrayNamed, new
<1> QED BY <1>2, <1>3

--------------------------------------------------------------------------------
(* What a step may change of what a layer shows.                           *)

\* The metadata that layer l shows under key k.
ShownMeta(l, k) == <<OwnMeta(Loaded(l).meta, k), k \in layers[l].keys>>

LEMMA SetOther ==
  ASSUME NEW m, NEW k, NEW v, NEW j, j # k
  PROVE  OwnMeta(Set(m, k, v), j) = OwnMeta(m, j)
  BY DEF OwnMeta, Set

LEMMA WithoutOther ==
  ASSUME NEW m, NEW k, NEW j, j # k
  PROVE  OwnMeta(Without(m, k), j) = OwnMeta(m, j)
  BY DEF OwnMeta, Without

\* A layer of which nothing but the bitmap changes, over the same file.
SameButBits(old, new) ==
  new.keys = old.keys /\ new.meta = old.meta /\ new.loaded = old.loaded /\ new.block = old.block

LEMMA BitsShowNoMeta ==
  ASSUME IInv, IInv', file' = file, NEW l \in DOMAIN layers, l \in DOMAIN layers',
         SameButBits(layers[l], layers'[l]), NEW k
  PROVE  ShownMeta(l, k)' = ShownMeta(l, k)
<1>1. layers[l] \in Layer /\ layers'[l] \in Layer
  BY DEF IInv, TypeOK, IsLayers
<1>2. Loaded(l)'.meta = Loaded(l).meta
  BY <1>1 DEF Loaded, SameButBits, Layer
<1> QED BY <1>2 DEF ShownMeta, SameButBits

LEMMA MarkNewBits ==
  ASSUME NEW ls, IsLayers(ls), NEW idx, NEW l \in DOMAIN ls
  PROVE  SameButBits(ls[l], MarkNew(ls, idx)[l]) /\ DOMAIN MarkNew(ls, idx) = DOMAIN ls
  BY DEF MarkNew, SameButBits, IsLayers, Layer

LEMMA MarkOwnerBits ==
  ASSUME NEW ls, IsLayers(ls), NEW as, NEW layer, NEW k, NEW l \in DOMAIN ls
  PROVE  SameButBits(ls[l], MarkOwner(ls, as, layer, k)[l])
<1>1. ls[l] \in Layer
  BY DEF IsLayers
<1>2. CASE ~HasName(as, Plain(k))
  BY <1>2 DEF MarkOwner, SameButBits
<1>3. CASE HasName(as, Plain(k))
  <2> DEFINE bit == Lookup(as, Plain(k)) - 1
  <2>1. MarkOwner(ls, as, layer, k)[l] =
           IF l = layer THEN [ls[l] EXCEPT !.words = Grown(@, bit), !.present = @ \cup {bit}]
           ELSE IF l = Base THEN [ls[l] EXCEPT !.words = Grown(@, bit), !.present = @ \ {bit}]
           ELSE ls[l]
    BY <1>3 DEF MarkOwner
  <2> HIDE DEF bit
  <2> QED BY <1>1, <2>1 DEF SameButBits, Layer
<1> QED BY <1>2, <1>3

\* Of a layer whose metadata is in memory, or that has none in the file, the map in
\* memory is what it shows.
LEMMA InMemoryShows ==
  ASSUME NEW l \in DOMAIN layers, layers[l] \in Layer, layers[l].loaded \/ ~layers[l].block
  PROVE  Loaded(l).meta = layers[l].meta
  BY DEF Loaded, Layer

\* Storing an array.
LEMMA PutShows ==
  ASSUME IInv, IInv', NEW l \in DOMAIN layers, NEW k,
         \/ \E j \in Keys, v \in Vals : Put(j, v)
         \/ \E m \in AllLayers, j \in Keys, v \in Vals : LayerPut(m, j, v)
  PROVE  ShownMeta(l, k)' = ShownMeta(l, k)
<1>1. IsLayers(layers) /\ l \in DOMAIN layers
  BY DEF IInv, TypeOK
<1>2. file' = file
  BY DEF Put, LayerPut
<1>3. SameButBits(layers[l], layers[l])
  BY DEF SameButBits
<1>4. CASE \E j \in Keys, v \in Vals : Put(j, v)
  <2>1. layers' = layers \/ layers' = MarkNew(layers, Len(arrays))
    BY <1>4 DEF Put
  <2>2. l \in DOMAIN layers' /\ SameButBits(layers[l], layers'[l])
    BY <1>1, <1>3, <2>1, MarkNewBits
  <2> QED BY <1>2, <2>2, BitsShowNoMeta
<1>5. CASE \E m \in AllLayers, j \in Keys, v \in Vals : LayerPut(m, j, v)
  <2>1. PICK m \in AllLayers, j \in Keys, v \in Vals : LayerPut(m, j, v)
    BY <1>5
  <2>2. \/ layers' = layers \/ layers' = MarkOwner(layers, arrays', m, j)
        \/ layers' = MarkOwner(MarkNew(layers, Len(arrays)), arrays', m, j)
    BY <2>1 DEF LayerPut
  <2>3. m \in DOMAIN layers
    BY <2>1 DEF LayerPut
  <2> DEFINE ls == MarkNew(layers, Len(arrays))
  <2>4. IsLayers(ls) /\ DOMAIN ls = DOMAIN layers /\ SameButBits(layers[l], ls[l])
    BY <1>1, MarkNewBits, MarkNewGood DEF LayersOf
  <2>5. \A ms : IsLayers(ms) /\ l \in DOMAIN ms =>
          /\ SameButBits(ms[l], MarkOwner(ms, arrays', m, j)[l])
          /\ l \in DOMAIN MarkOwner(ms, arrays', m, j)
    <3> SUFFICES ASSUME NEW ms, IsLayers(ms), l \in DOMAIN ms
                 PROVE  /\ SameButBits(ms[l], MarkOwner(ms, arrays', m, j)[l])
                        /\ l \in DOMAIN MarkOwner(ms, arrays', m, j)
      OBVIOUS
    <3>1. l \in DOMAIN MarkOwner(ms, arrays', m, j)
      BY DEF MarkOwner
    <3> QED BY <3>1, MarkOwnerBits
  <2> HIDE DEF ls
  <2>6. l \in DOMAIN layers' /\ SameButBits(layers[l], layers'[l])
    BY <1>1, <1>3, <2>2, <2>4, <2>5 DEF SameButBits, ls
  <2> QED BY <1>2, <2>6, BitsShowNoMeta
<1> QED BY <1>4, <1>5

\* A flush, complete or not, writes and keeps in memory what the layers show.
LEMMA FlushShows ==
  ASSUME IInv, Flush \/ FlushThrows, NEW l \in DOMAIN layers, NEW k
  PROVE  ShownMeta(l, k)' = ShownMeta(l, k)
<1>1. layers'[l] = Serialized(l) /\ l \in DOMAIN layers'
  BY DEF Flush, FlushThrows
<1>2. /\ Serialized(l) \in Layer
      /\ Serialized(l).loaded \/ ~Serialized(l).block
      /\ Serialized(l).keys = layers[l].keys /\ Serialized(l).meta = Loaded(l).meta
  BY SerializedGood, SerializedShows
<1> DEFINE s == Serialized(l)
<1>3. Loaded(l)' = IF s.loaded THEN s ELSE [s EXCEPT !.loaded = TRUE, !.meta = @]
  BY <1>1, <1>2 DEF Loaded
<1> HIDE DEF s
<1>4. Loaded(l)'.meta = Loaded(l).meta
  BY <1>2, <1>3 DEF Layer, s
<1> QED BY <1>1, <1>2, <1>4 DEF ShownMeta

\* Lazy loading.
LEMMA MetaGetShows ==
  ASSUME IInv, NEW l \in DOMAIN layers, NEW k,
         \E m \in AllLayers, j \in MetaKeys : LayerMetaGet(m, j)
  PROVE  ShownMeta(l, k)' = ShownMeta(l, k)
<1>1. PICK touched :
        layers' = [m \in DOMAIN layers |-> IF m \in touched THEN Loaded(m) ELSE layers[m]]
  BY DEF LayerMetaGet
<1>2. file' = file
  BY DEF LayerMetaGet
<1>3. layers'[l] = IF l \in touched THEN Loaded(l) ELSE layers[l]
  BY <1>1
<1>4. Loaded(l).loaded /\ Loaded(l).keys = layers[l].keys
  BY LoadedGood
<1>5. CASE l \in touched
  BY <1>3, <1>4, <1>5 DEF Loaded, ShownMeta
<1>6. CASE l \notin touched
  BY <1>2, <1>3, <1>6 DEF Loaded, ShownMeta
<1> QED BY <1>5, <1>6

\* The metadata of a layer that a call rewrites in memory.
LEMMA RewrittenShows ==
  ASSUME IInv, IInv', NEW l \in DOMAIN layers, l \in DOMAIN layers', NEW k,
         layers'[l].loaded \/ ~layers'[l].block,
         OwnMeta(layers'[l].meta, k) = OwnMeta(Loaded(l).meta, k),
         k \in layers'[l].keys <=> k \in layers[l].keys
  PROVE  ShownMeta(l, k)' = ShownMeta(l, k)
<1>1. layers'[l] \in Layer
  BY DEF IInv, TypeOK, IsLayers
<1>2. Loaded(l)'.meta = layers'[l].meta
  BY <1>1 DEF Loaded, Layer
<1> QED BY <1>2 DEF ShownMeta

LEMMA BaseInMemory ==
  ASSUME IInv
  PROVE  /\ Base \in DOMAIN layers /\ layers[Base] \in Layer
         /\ layers[Base].loaded \/ ~layers[Base].block
         /\ Loaded(Base).meta = layers[Base].meta
<1>1. Base \in DOMAIN layers /\ layers[Base] \in Layer
  BY DEF IInv, TypeOK, IsLayers
<1>2. layers[Base].loaded \/ ~layers[Base].block
  BY <1>1 DEF IInv, LayersOf, MetaOf
<1> QED BY <1>1, <1>2, InMemoryShows

\* Metadata calls of the base layer.
LEMMA BaseMetaShows ==
  ASSUME IInv, IInv', NEW l \in DOMAIN layers, NEW k \in Keys \cup MetaKeys,
         ~MayChange(l, k),
         \/ \E j \in MetaKeys, v \in MetaVals : MetaPut(j, v)
         \/ \E j \in MetaKeys : MetaRemove(j)
         \/ MetaClear
  PROVE  ShownMeta(l, k)' = ShownMeta(l, k)
<1>1. file' = file /\ DOMAIN layers' = DOMAIN layers
  BY DEF MetaPut, MetaRemove, MetaClear
<1>2. CASE l # Base
  <2>1. layers'[l] = layers[l]
    BY <1>2 DEF MetaPut, MetaRemove, MetaClear
  <2> QED BY <1>1, <2>1, BitsShowNoMeta DEF SameButBits
<1>3. CASE l = Base
  <2>1. ~MetaClear
    BY <1>3 DEF MayChange
  <2>2. CASE \E j \in MetaKeys, v \in MetaVals : MetaPut(j, v)
    <3>1. PICK j \in MetaKeys, v \in MetaVals : MetaPut(j, v)
      BY <2>2
    <3>2. j # k
      BY <1>3, <3>1 DEF MayChange
    <3>3. layers' = [layers EXCEPT ![Base].meta = Set(@, j, v),
                                   ![Base].keys = IF j \in DOMAIN layers[Base].meta
                                                  THEN @ ELSE @ \cup {j}]
      BY <3>1 DEF MetaPut
    <3>4. /\ layers'[Base].meta = Set(layers[Base].meta, j, v)
          /\ layers'[Base].loaded = layers[Base].loaded
          /\ layers'[Base].block = layers[Base].block
          /\ layers'[Base].keys \in {layers[Base].keys, layers[Base].keys \cup {j}}
      BY <3>3, BaseInMemory DEF Layer
    <3> QED BY <1>1, <1>3, <3>2, <3>4, BaseInMemory, SetOther, RewrittenShows
  <2>3. CASE \E j \in MetaKeys : MetaRemove(j)
    <3>1. PICK j \in MetaKeys : MetaRemove(j)
      BY <2>3
    <3>2. j # k
      BY <1>3, <3>1 DEF MayChange
    <3>3. layers' = layers \/
            layers' = [layers EXCEPT ![Base].meta = Without(@, j), ![Base].keys = @ \ {j}]
      BY <3>1 DEF MetaRemove
    <3>4. CASE layers' = layers
      BY <1>1, <3>4, BitsShowNoMeta DEF SameButBits
    <3>5. CASE layers' = [layers EXCEPT ![Base].meta = Without(@, j), ![Base].keys = @ \ {j}]
      <4>1. /\ layers'[Base].meta = Without(layers[Base].meta, j)
            /\ layers'[Base].loaded = layers[Base].loaded
            /\ layers'[Base].block = layers[Base].block
            /\ layers'[Base].keys = layers[Base].keys \ {j}
        BY <3>5, BaseInMemory DEF Layer
      <4> QED BY <1>1, <1>3, <3>2, <4>1, BaseInMemory, WithoutOther, RewrittenShows
    <3> QED BY <3>3, <3>4, <3>5
  <2> QED BY <2>1, <2>2, <2>3
<1> QED BY <1>2, <1>3

\* Metadata calls of a layer.
LEMMA LayerMetaShows ==
  ASSUME IInv, IInv', NEW l \in DOMAIN layers, NEW k \in Keys \cup MetaKeys,
         ~MayChange(l, k),
         \/ \E m \in AllLayers, j \in MetaKeys, v \in MetaVals : LayerMetaPut(m, j, v)
         \/ \E m \in AllLayers, j \in MetaKeys : LayerMetaRemove(m, j)
  PROVE  ShownMeta(l, k)' = ShownMeta(l, k)
<1>1. file' = file /\ DOMAIN layers' = DOMAIN layers
  BY DEF LayerMetaPut, LayerMetaRemove
<1>2. layers[l] \in Layer
  BY DEF IInv, TypeOK, IsLayers
<1>3. CASE \E m \in AllLayers, j \in MetaKeys, v \in MetaVals : LayerMetaPut(m, j, v)
  <2>1. PICK m \in AllLayers, j \in MetaKeys, v \in MetaVals : LayerMetaPut(m, j, v)
    BY <1>3
  <2>2. layers' = [layers EXCEPT ![m] = [Loaded(m) EXCEPT !.meta = Set(@, j, v),
                                                          !.keys = @ \cup {j}]]
    BY <2>1 DEF LayerMetaPut
  <2>3. CASE l # m
    <3>1. layers'[l] = layers[l]
      BY <2>2, <2>3
    <3> QED BY <1>1, <3>1, BitsShowNoMeta DEF SameButBits
  <2>4. CASE l = m
    <3>1. j # k
      BY <2>1, <2>4 DEF MayChange
    <3>2. layers'[l] = [Loaded(l) EXCEPT !.meta = Set(@, j, v), !.keys = @ \cup {j}]
      BY <2>2, <2>4
    <3>3. Loaded(l) \in Layer /\ Loaded(l).loaded /\ Loaded(l).keys = layers[l].keys
      BY LoadedGood
    <3>4. /\ layers'[l].meta = Set(Loaded(l).meta, j, v) /\ layers'[l].loaded
          /\ layers'[l].keys = layers[l].keys \cup {j}
      BY <3>2, <3>3 DEF Layer
    <3> QED BY <1>1, <3>1, <3>4, SetOther, RewrittenShows
  <2> QED BY <2>3, <2>4
<1>4. CASE \E m \in AllLayers, j \in MetaKeys : LayerMetaRemove(m, j)
  <2>1. PICK m \in AllLayers, j \in MetaKeys : LayerMetaRemove(m, j)
    BY <1>4
  <2>2. /\ layers' = [layers EXCEPT ![m].meta = Without(@, j), ![m].keys = @ \ {j}]
        /\ j \in DOMAIN layers[m].meta
    BY <2>1 DEF LayerMetaRemove
  <2>3. CASE l # m
    <3>1. layers'[l] = layers[l]
      BY <2>2, <2>3
    <3> QED BY <1>1, <3>1, BitsShowNoMeta DEF SameButBits
  <2>4. CASE l = m
    <3>1. j # k
      BY <2>1, <2>4 DEF MayChange
    <3>2. layers[l].loaded \/ ~layers[l].block
      BY <2>2, <2>4, NoMetaMeta DEF IInv, LayersOf, MetaOf
    <3>3. /\ layers'[l].meta = Without(layers[l].meta, j)
          /\ layers'[l].loaded = layers[l].loaded /\ layers'[l].block = layers[l].block
          /\ layers'[l].keys = layers[l].keys \ {j}
      BY <1>2, <2>2, <2>4 DEF Layer
    <3>4. Loaded(l).meta = layers[l].meta
      BY <1>2, <3>2, InMemoryShows
    <3> QED BY <1>1, <3>1, <3>2, <3>3, <3>4, WithoutOther, RewrittenShows
  <2> QED BY <2>3, <2>4
<1> QED BY <1>3, <1>4

\* A new layer is not one of those there were.
LEMMA CreateShows ==
  ASSUME IInv, IInv', NEW l \in DOMAIN layers, NEW k, NEW m, CreateLayer(m)
  PROVE  ShownMeta(l, k)' = ShownMeta(l, k)
<1>1. l \in DOMAIN layers' /\ layers'[l] = layers[l] /\ file' = file
  BY DEF CreateLayer
<1> QED BY <1>1, BitsShowNoMeta DEF SameButBits

LEMMA MetaChangesByItsCalls ==
  ASSUME IInv, IInv', [Next]_vars, isOpen, isOpen', NEW l \in DOMAIN layers,
         NEW k \in Keys \cup MetaKeys, ~MayChange(l, k)
  PROVE  ShownMeta(l, k)' = ShownMeta(l, k)
<1>1. CASE UNCHANGED vars
  BY <1>1 DEF vars, ShownMeta, Loaded
<1>2. ~Create /\ ~Destroy /\ ~Crash /\ \A md \in {ReadOnly, ReadWrite} : ~Open(md)
  BY DEF Create, Open, Destroy, Crash
<1>3. CASE \/ \E j \in Keys, v \in Vals : Put(j, v)
           \/ \E m \in AllLayers, j \in Keys, v \in Vals : LayerPut(m, j, v)
  BY <1>3, PutShows
<1>4. CASE \E m \in NewLayers : CreateLayer(m)
  BY <1>4, CreateShows
<1>5. CASE \/ \E j \in MetaKeys, v \in MetaVals : MetaPut(j, v)
           \/ \E j \in MetaKeys : MetaRemove(j)
           \/ MetaClear
  BY <1>5, BaseMetaShows
<1>6. CASE \/ \E m \in AllLayers, j \in MetaKeys, v \in MetaVals : LayerMetaPut(m, j, v)
           \/ \E m \in AllLayers, j \in MetaKeys : LayerMetaRemove(m, j)
  BY <1>6, LayerMetaShows
<1>7. CASE \E m \in AllLayers, j \in MetaKeys : LayerMetaGet(m, j)
  BY <1>7, MetaGetShows
<1>8. CASE Flush \/ FlushThrows
  BY <1>8, FlushShows
<1> QED BY <1>1, <1>2, <1>3, <1>4, <1>5, <1>6, <1>7, <1>8, Zenon DEF Next

\* An array changes by a put() under its name.
LEMMA ArrayChangesByItsPut ==
  ASSUME IInv, BitsInv, [Next]_vars, isOpen, isOpen', NEW l \in DOMAIN layers,
         NEW k \in Keys \cup MetaKeys, ~MayChange(l, k)
  PROVE  OwnArray(arrays', l, k) = OwnArray(arrays, l, k)
<1>1. CASE arrays' = arrays
  BY <1>1
<1>2. CASE arrays' # arrays
  <2>1. \/ \E j \in Keys, v \in Vals : Put(j, v)
        \/ \E m \in AllLayers, j \in Keys, v \in Vals : LayerPut(m, j, v)
    BY <1>2 DEF Next, vars, Create, Open, CreateLayer, MetaPut, MetaRemove, MetaClear,
         LayerMetaPut, LayerMetaGet, LayerMetaRemove, Flush, FlushThrows, Destroy, Crash
  <2>2. CASE \E j \in Keys, v \in Vals : Put(j, v)
    <3>1. PICK j \in Keys, v \in Vals : Put(j, v)
      BY <2>2
    <3>2. /\ StorageKey[Base][j] \in Names /\ Base \in AllLayers
          /\ arrays' = Stored(StorageKey[Base][j], v)
      BY <3>1 DEF Put, Plain, Names, AllLayers
    <3>3. StorageKey[l][k] # StorageKey[Base][j]
      BY <3>1, <3>2 DEF MayChange
    <3> QED BY <3>2, <3>3, StoredOther DEF OwnArray
  <2>3. CASE \E m \in AllLayers, j \in Keys, v \in Vals : LayerPut(m, j, v)
    <3>1. PICK m \in AllLayers, j \in Keys, v \in Vals : LayerPut(m, j, v)
      BY <2>3
    <3>2. StorageKey[m][j] \in Names /\ arrays' = Stored(StorageKey[m][j], v)
      BY <3>1 DEF LayerPut, Names
    <3>3. StorageKey[l][k] # StorageKey[m][j]
      BY <3>1 DEF MayChange
    <3> QED BY <3>2, <3>3, StoredOther DEF OwnArray
  <2> QED BY <2>1, <2>2, <2>3
<1> QED BY <1>1, <1>2

--------------------------------------------------------------------------------
(* The theorems.                                                           *)

LEMMA StepKeeps == IInv /\ [Next]_vars => IInv'
<1> SUFFICES ASSUME IInv, [Next]_vars PROVE IInv'
  OBVIOUS
<1>1. CASE Create
  BY <1>1, CreateStep
<1>2. CASE \E md \in {ReadOnly, ReadWrite} : Open(md)
  BY <1>2, OpenStep
<1>3. CASE \E k \in Keys, v \in Vals : Put(k, v)
  BY <1>3, PutKeeps
<1>4. CASE \E l \in AllLayers, k \in Keys, v \in Vals : LayerPut(l, k, v)
  BY <1>4, LayerPutKeeps
<1>5. CASE \E l \in NewLayers : CreateLayer(l)
  BY <1>5, CreateLayerKeeps
<1>6. CASE \E k \in MetaKeys, v \in MetaVals : MetaPut(k, v)
  BY <1>6, MetaPutKeeps
<1>7. CASE \E k \in MetaKeys : MetaRemove(k)
  BY <1>7, MetaRemoveKeeps
<1>8. CASE MetaClear
  BY <1>8, MetaClearKeeps
<1>9. CASE \E l \in AllLayers, k \in MetaKeys, v \in MetaVals : LayerMetaPut(l, k, v)
  BY <1>9, LayerMetaPutKeeps
<1>10. CASE \E l \in AllLayers, k \in MetaKeys : LayerMetaGet(l, k)
  BY <1>10, LayerMetaGetKeeps
<1>11. CASE \E l \in AllLayers, k \in MetaKeys : LayerMetaRemove(l, k)
  BY <1>11, LayerMetaRemoveKeeps
<1>12. CASE Flush
  BY <1>12, FlushKeeps
<1>13. CASE FlushThrows
  BY <1>13, FlushThrowsKeeps
<1>14. CASE Destroy \/ Crash
  BY <1>14, CloseStep
<1>15. CASE UNCHANGED vars
  BY <1>15 DEF vars, IInv, TypeOK, FullOrNamed, AllNamed
<1> QED BY <1>1, <1>2, <1>3, <1>4, <1>5, <1>6, <1>7, <1>8, <1>9, <1>10, <1>11, <1>12,
           <1>13, <1>14, <1>15 DEF Next

\* The invariant holds whatever the order of put(), create_layer(), metadata
\* operations, flushes, crashes and reopening, for any keys, layers and limits.
THEOREM LayersInductive == Spec => []IInv
BY InitStep, StepKeeps, PTL DEF Spec

\* The variables keep their types: every layer's record is well formed in memory and in the file.
THEOREM LayersTypeOK == Spec => []TypeOK
<1>1. IInv => TypeOK
  BY DEF IInv
<1> QED BY <1>1, LayersInductive, PTL

\* Each bitmap has the words that calculateHeaderSize() reserves and loadIndex()
\* reads, and no bit beyond the arrays, unless put() met a full key registry.
THEOREM BitmapsAlwaysFillHeader == Spec => []BitmapsFillHeader
<1>1. IInv => BitmapsFillHeader
  BY DEF IInv, BitmapsFillHeader, LayersOf, WordsOf, BitsOf
<1> QED BY <1>1, LayersInductive, PTL

\* The keys the header lists for a layer are those whose values are in memory or
\* in the block of the file: serializing never misses a value.
THEOREM MetaAlwaysMatchesHeader == Spec => []MetaMatchesHeader
<1>1. IInv => MetaMatchesHeader
  BY LoadedGood DEF MetaMatchesHeader
<1> QED BY <1>1, LayersInductive, PTL

\* flush() throws only when put() left an array without a name.
THEOREM FlushAlwaysSucceeds == Spec => []FlushSucceeds
<1>1. IInv => FlushSucceeds
  <2> SUFFICES ASSUME IInv, AllNamed PROVE CanSerialize
    BY DEF FlushSucceeds
  <2>1. \A l \in DOMAIN layers : layers[l].keys \subseteq DOMAIN Loaded(l).meta
    BY LoadedGood
  <2>2. \A l \in DOMAIN layers : layers[l].words <= Words(Len(arrays))
    <3>1. WordsOf(layers, Len(arrays)) /\ Len(arrays) \in Nat
      BY SeqDomain DEF IInv, TypeOK
    <3>2. Words(Len(arrays)) \in Nat
      BY <3>1, WordsGrow
    <3> DEFINE w == Words(Len(arrays))
    <3>3. \A l \in DOMAIN layers : layers[l].words = w
      BY <3>1 DEF WordsOf
    <3> HIDE DEF w
    <3>4. w <= w
      BY <3>2 DEF w
    <3> QED BY <3>3, <3>4 DEF w
  <2> QED BY <2>1, <2>2 DEF CanSerialize, AllNamed
<1> QED BY <1>1, LayersInductive, PTL

\* A dataset that close() takes for flushed has every layer's arrays, metadata,
\* key list and presence bits in the file.
THEOREM FlushedIsAlwaysSaved == Spec => []FlushedIsSaved
<1>1. Init => SavedOf
  BY DEF Init, SavedOf
<1>2. Spec => []SavedOf
  BY <1>1, SavedKeeps, LayersInductive, PTL DEF Spec
<1>3. SavedOf => FlushedIsSaved
  BY DEF SavedOf, FlushedIsSaved, SavedShown, Shown
<1> QED BY <1>2, <1>3, PTL

LEMMA BitsAlways == Spec => []BitsInv
<1>1. Init => BitsInv
  <2> SUFFICES ASSUME Init PROVE BitsInv
    OBVIOUS
  <2>1. DOMAIN arrays = {} /\ file = Absent
    BY DEF Init
  <2> QED BY <2>1 DEF BitsInv, Unique, Owned
<1> QED BY <1>1, BitsKeep, LayersInductive, PTL DEF Spec

\* A bit that key_in_layer() (7830) finds is of an array the layer has, and a listed
\* key of metadata it has: what contains() confirms, get() returns.
THEOREM ContainsIsAlwaysReadable == Spec => []ContainsMeansReadable
<1>1. IInv /\ BitsInv => ContainsMeansReadable
  <2> SUFFICES ASSUME IInv, BitsInv, NEW l \in DOMAIN layers, NEW k \in Keys,
                      NEW inherit \in BOOLEAN, Contains(l, k, inherit)
               PROVE  CanGet(l, k, inherit)
    BY DEF ContainsMeansReadable
  <2>1. arrays \in Seq(Array) /\ DOMAIN arrays = 1 .. Len(arrays) /\ Len(arrays) \in Nat
        /\ Base \in DOMAIN layers
    BY SeqDomain DEF IInv, TypeOK, IsLayers
  <2>2. ASSUME NEW m \in DOMAIN layers, KeyInLayer(m, k)
        PROVE  OwnArray(arrays, m, k) # Missing \/ OwnMeta(Loaded(m).meta, k) # Missing
    <3>1. CASE HasName(arrays, Plain(k))
      <4> DEFINE i == Lookup(arrays, Plain(k))
      <4>1. i \in DOMAIN arrays /\ arrays[i].name = Plain(k)
        BY <3>1 DEF Lookup, HasName
      <4>2. i - 1 \in layers[m].present
        BY <2>2, <3>1 DEF KeyInLayer
      <4> HIDE DEF i
      <4>3. HasName(arrays, StorageKey[m][k])
        BY <4>1, <4>2 DEF BitsInv, Owned
      <4>4. PICK j \in DOMAIN arrays : arrays[j].name = StorageKey[m][k]
        BY <4>3 DEF HasName
      <4>5. OwnArray(arrays, m, k) = arrays[j].val
        BY <4>4, ArrayNamedIs DEF BitsInv, OwnArray
      <4>6. arrays[j] \in Array
        BY <2>1
      <4> QED BY <4>5, <4>6, LayersAssumption DEF Array
    <3>2. CASE ~HasName(arrays, Plain(k))
      <4>1. k \in layers[m].keys
        BY <2>2, <3>2 DEF KeyInLayer
      <4>2. k \in DOMAIN Loaded(m).meta /\ Loaded(m).meta \in Metas
        BY <4>1, LoadedGood DEF Layer
      <4>3. Loaded(m).meta[k] \in MetaVals
        BY <4>2, MetasDef
      <4> QED BY <4>2, <4>3, LayersAssumption DEF OwnMeta
    <3> QED BY <3>1, <3>2
  <2> QED BY <2>1, <2>2 DEF Contains, CanGet
<1> QED BY <1>1, LayersInductive, BitsAlways, PTL

\* Arrays, metadata and key list of a layer change by its own calls (7853, 9379, 9432,
\* 9522, 9559, 9626, 9767) or by put() under a name spelled the same, and by no lazy
\* load (6261) and no flush (6614), complete or not: for any spelling of the names that
\* keeps the keys of one layer apart.
THEOREM OnlyOwnCallsChangeLayers == Spec => OnlyOwnCallsChangeALayer
<1> DEFINE A == isOpen /\ isOpen' =>
       \A l \in DOMAIN layers, k \in Keys \cup MetaKeys :
         Shown[l][k] # Shown[l][k]' => MayChange(l, k)
<1>1. IInv /\ IInv' /\ BitsInv /\ [Next]_vars => [A]_vars
  <2> SUFFICES ASSUME IInv, IInv', BitsInv, [Next]_vars, isOpen, isOpen',
                      NEW l \in DOMAIN layers, NEW k \in Keys \cup MetaKeys,
                      ~MayChange(l, k)
               PROVE  Shown[l][k] = Shown[l][k]'
    OBVIOUS
  <2>1. l \in DOMAIN layers'
    BY DEF Next, vars, Create, Open, Put, LayerPut, MarkNew, MarkOwner, CreateLayer, MetaPut,
         MetaRemove, MetaClear, LayerMetaPut, LayerMetaGet, LayerMetaRemove, Flush,
         FlushThrows, Destroy, Crash
  <2>2. Shown[l][k] = [array |-> OwnArray(arrays, l, k), meta |-> OwnMeta(Loaded(l).meta, k),
                       listed |-> k \in layers[l].keys]
    BY DEF Shown
  <2>3. Shown[l][k]' = [array |-> OwnArray(arrays', l, k), meta |-> OwnMeta(Loaded(l)'.meta, k),
                        listed |-> k \in layers'[l].keys]
    BY <2>1 DEF Shown
  <2>4. OwnArray(arrays', l, k) = OwnArray(arrays, l, k)
    BY ArrayChangesByItsPut
  <2>5. ShownMeta(l, k)' = ShownMeta(l, k)
    BY MetaChangesByItsCalls
  <2>6. /\ OwnMeta(Loaded(l)'.meta, k) = OwnMeta(Loaded(l).meta, k)
        /\ (k \in layers'[l].keys) = (k \in layers[l].keys)
    BY <2>5 DEF ShownMeta
  <2> QED BY <2>2, <2>3, <2>4, <2>6, Zenon
<1> QED BY <1>1, LayersInductive, BitsAlways, PTL DEF Spec, OnlyOwnCallsChangeALayer
================================================================================

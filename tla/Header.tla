--------------------------------- MODULE Header ---------------------------------
(***************************************************************************)
(* The header of a file of a StarDataset (stards.h): a fixed part with     *)
(* counts, the key registry, the layer registry, the presence bitmaps and  *)
(* the index entries, written one after the other and read back by         *)
(* counting. Counts and lengths are written as 16 bit integers and read    *)
(* under limits of their own; the size of the header is computed before    *)
(* the arrays are compressed and must not be exceeded afterwards.          *)
(*                                                                         *)
(* A header is a sequence of fields, each with its size in bytes. Where    *)
(* the arrays lie is StarDataset, what is in a metadata block is Layers.   *)
(* Only flush writes the file, so it is the same whenever it is opened: a   *)
(* file is kept until the handle that wrote it goes on, and opened before.  *)
(***************************************************************************)
EXTENDS Numbers, Sequences, SequencesExt

CONSTANTS Keys, Layers, Base,  \* names given to put() and create_layer(); "__base__"
          NameLength(_),       \* bytes of a name
          Cut(_),              \* the name spelt by the bytes of a long one that are kept
          Shapes,              \* what put() is given: [dims, bytes] of an array
          BlockSizes,          \* the block_size of a configuration
          MaxLength, MaxCount, \* what a 16 bit length and a 16 bit count hold: 65535
          MaxDims, MaxBlocks,  \* what IndexEntry::read accepts: 100 and 10000
          WordBits,            \* bits of a bitmap word: 64
          MaxArrays,           \* bound on the arrays of a handle
          Absent, Garbage      \* no file; a header that cannot be read

\* All names, storage keys of layers and what is kept of a long name among them.
Names == Keys \cup Layers \cup {Base} \cup (Layers \X Keys)

ASSUME HeaderAssumption ==
  /\ {MaxLength, MaxCount, MaxDims, MaxBlocks, MaxArrays} \subseteq Nat
  /\ WordBits \in Nat \ {0} /\ BlockSizes \subseteq Nat \ {0}
  /\ Base \notin Layers
  /\ \A n \in Names : NameLength(n) \in Nat /\ Cut(n) \in Names
  /\ Shapes \subseteq [dims : Nat, bytes : Nat]

VARIABLES handle,  \* block_size, names, arrays, layers and presence in memory
          file,    \* the header flush wrote: counts, header_size and fields
          written, \* the handle whose flush wrote it
          thrown   \* the exception of the last call, "" for none

vars == <<handle, file, written, thrown>>

\* The key under which LayerView::put() stores an array: "__layer_<l>__:k".
StorageKey(l, k) == IF l = Base THEN k ELSE <<l, k>>

CeilDiv(n, d) == (n + d - 1) \div d
EmptyHandle(bs) ==
  [block_size |-> bs, names |-> <<>>, arrays |-> <<>>,
   layers |-> <<[name |-> Base, keys |-> {}]>>, presence |-> [l \in {Base} |-> <<>>]]

\* Places are found by name through a map that keeps the last one entered.
Named(h, n) == Contains(h.names, n)
NameAt(h, n) == SelectLastInSeq(h.names, LAMBDA x : x = n) - 1
ArrayAt(h, k) == SelectLastInSeq(h.arrays, LAMBDA a : a.key = k) - 1
LayerAt(h, l) == SelectLastInSeq(h.layers, LAMBDA x : x.name = l)
HasArray(h, k) == \E i \in DOMAIN h.arrays : h.arrays[i].key = k
HasLayer(h, l) == l \in DOMAIN h.presence

---------------------------------------------------------------------------
\* Registry and bitmaps.
Full(h, n) == ~Named(h, n) /\ Len(h.names) > MaxCount
WithName(h, n) == IF Named(h, n) THEN h ELSE [h EXCEPT !.names = Append(@, n)]

\* Mutant: the number of its name in the registry.
OrdinalInRegistry(h, k) == NameAt(h, k)
\* The number of an array among the arrays, by which bitmaps are indexed.
DataOrdinal(h, k) == ArrayAt(h, k)
Grown(words, n) == words \o [i \in 1 .. n - Len(words) |-> {}]
Marked(words, at, present) ==
  [Grown(words, at \div WordBits + 1) EXCEPT ![at \div WordBits + 1] =
     IF present THEN @ \cup {at % WordBits} ELSE @ \ {at % WordBits}]
Presence(h, l, k, present) ==
  IF HasArray(h, k)
  THEN [h EXCEPT !.presence[l] = Marked(@, DataOrdinal(h, k), present)]
  ELSE h
\* Mutant: the bitmap of a new layer is left to grow.
NoBitmap(h) == <<>>
EmptyBitmap(h) == [i \in 1 .. CeilDiv(Len(h.arrays), WordBits) |-> {}]

\* A new array enters the list before its name is registered, and stays there
\* when the registry refuses it; only a registered one gets its bits.
Listed(h, k, s) ==
  LET a == [key |-> k, dims |-> s.dims, bytes |-> s.bytes, blocks |-> 0, dirty |-> TRUE]
  IN  [h EXCEPT !.arrays = IF HasArray(h, k) THEN [@ EXCEPT ![ArrayAt(h, k) + 1] = a]
                           ELSE Append(@, a)]
WithBits(h, k) ==
  LET words == CeilDiv(DataOrdinal(h, k) + 1, WordBits)
      grown == [h EXCEPT !.presence = [l \in DOMAIN @ |-> Grown(@[l], words)]]
  IN  Presence(grown, Base, k, TRUE)
Stored(h, k, s) ==
  IF HasArray(h, k) THEN Listed(h, k, s)
  ELSE IF Full(h, k) THEN Listed(h, k, s)
  ELSE WithBits(WithName(Listed(h, k, s), k), k)
PutThrows(h, k) == ~HasArray(h, k) /\ Full(h, k)

---------------------------------------------------------------------------
\* Writing. A length is cut to 16 bits, and as many characters are written.
Length16(n) == NameLength(n) % (MaxLength + 1)
Spelt(n) == IF NameLength(n) <= MaxLength THEN n ELSE Cut(n)

KeyField(n) == [kind |-> "key", size |-> 2 + Length16(n) + 8, name |-> Spelt(n)]
LayerField(l) ==
  [kind |-> "layer", size |-> 2 + Length16(l.name) + 8 + 4 + 1 + 2,
   name |-> Spelt(l.name), count |-> Cardinality(l.keys) % (MaxCount + 1)]
IndexField(i) == [kind |-> "index", size |-> 2, at |-> i]
WordField(w) == [kind |-> "word", size |-> 8, bits |-> w]
EntryField(h, a) ==
  [kind |-> "entry", size |-> 2 + 8 + 8 + 1 + 8 + 8 * a.dims + 1 + 8 + 8 + 24 * a.blocks + 1,
   at |-> NameAt(h, a.key), dims |-> a.dims, bytes |-> a.bytes, blocks |-> a.blocks]

Map(Op(_), s) == [i \in DOMAIN s |-> Op(s[i])]
Fields(h) ==
  Map(KeyField, h.names)
  \o FlattenSeq(Map(LAMBDA l : <<LayerField(l)>> \o Map(IndexField, Ascending(l.keys)),
                    h.layers))
  \o FlattenSeq(Map(LAMBDA l : Map(WordField, h.presence[l.name]), h.layers))
  \o Map(LAMBDA a : EntryField(h, a), h.arrays)

FixedSize == 31
Serialized(fields) == FixedSize + Sum(Map(LAMBDA f : f.size, fields))

\* The size reserved for the header, from the handle and not from the fields.
HeaderSize(h) ==
  LET bitmap == 8 * CeilDiv(Len(h.arrays), WordBits)
      key(n) == 2 + NameLength(n) + 8
      layer(l) == 2 + NameLength(l.name) + 8 + 4 + 1 + 2 + 2 * Cardinality(l.keys)
      entry(a) == 2 + 43 + 8 * a.dims + 24 * a.blocks
  IN  FixedSize + Sum(Map(key, h.names)) + Sum(Map(layer, h.layers))
      + Len(h.layers) * bitmap + Sum(Map(entry, h.arrays))

\* The blocks of an array are counted twice: before it is compressed, for the
\* size of the header, and as it is compressed. Clean arrays keep theirs, and
\* so does an array for which the first count is zero.
Blocks(a, bs) == IF a.dirty THEN CeilDiv(a.bytes, bs) ELSE a.blocks
Estimated(h) ==
  [h EXCEPT !.arrays = Map(LAMBDA a : IF Blocks(a, h.block_size) = 0 THEN a
                                      ELSE [a EXCEPT !.blocks = Blocks(a, h.block_size)], @)]
CompressedBlocks(a, bs) == IF a.dirty THEN CeilDiv(a.bytes, bs) ELSE a.blocks
Compressed(h) ==
  [h EXCEPT !.arrays = Map(LAMBDA a : IF CompressedBlocks(a, h.block_size) = 0 THEN a
                                      ELSE [a EXCEPT !.blocks =
                                              CompressedBlocks(a, h.block_size)], @)]
Clean(h) == [h EXCEPT !.arrays = Map(LAMBDA a : [a EXCEPT !.dirty = FALSE], @)]

---------------------------------------------------------------------------
\* Reading: every part is found by counting the fields before it.
Selected(fields, kind) ==
  FlattenSeq([i \in DOMAIN fields |-> IF fields[i].kind = kind THEN <<fields[i]>> ELSE <<>>])
OfKind(f, kind) == Selected(f.fields, kind)
Aligned(f) ==
  LET copies(kind, n) == [i \in 1 .. n |-> kind]
      layer(l) == <<"layer">> \o copies("index", l.count)
  IN  Map(LAMBDA x : x.kind, f.fields) =
        copies("key", f.key_registry_count)
        \o FlattenSeq(Map(layer, OfKind(f, "layer")))
        \o copies("word", (f.layer_count + 1) * CeilDiv(f.entry_count, WordBits))
        \o copies("entry", f.entry_count)
EntryReadable(f, e) == e.dims <= MaxDims /\ e.blocks <= MaxBlocks /\ e.at < f.key_registry_count

\* The part of a sequence that belongs to the i-th of its owners.
Share(s, i, counts) ==
  LET before == Sum([j \in 1 .. i - 1 |-> counts[j]])
  IN  [j \in 1 .. counts[i] |-> s[before + j]]
ReadIndex(f, bs) ==
  LET names == Map(LAMBDA x : x.name, OfKind(f, "key"))
      layer == OfKind(f, "layer")
      array(e) == [key |-> names[e.at + 1], dims |-> e.dims, bytes |-> e.bytes,
                   blocks |-> e.blocks, dirty |-> FALSE]
      keys(i) == Map(LAMBDA x : x.at, Share(OfKind(f, "index"), i, Map(LAMBDA x : x.count, layer)))
      words(i) == Map(LAMBDA x : x.bits,
                      Share(OfKind(f, "word"), i,
                            Map(LAMBDA x : CeilDiv(f.entry_count, WordBits), layer)))
      last(l) == SelectLastInSeq(layer, LAMBDA x : x.name = l)
  IN  [block_size |-> bs, names |-> names,
       arrays |-> Map(array, OfKind(f, "entry")),
       layers |-> [i \in DOMAIN layer |-> [name |-> layer[i].name, keys |-> ToSet(keys(i))]],
       presence |-> [l \in ToSet(Map(LAMBDA x : x.name, layer)) |-> words(last(l))]]

\* Fields out of step are read as numbers that are no counts: the outcome is
\* an exception, or an index of nonsense.
LoadIndex(f, bs) ==
  IF Aligned(f) /\ \A e \in ToSet(OfKind(f, "entry")) : EntryReadable(f, e)
  THEN ReadIndex(f, bs) ELSE Garbage

---------------------------------------------------------------------------
Init == /\ \E bs \in BlockSizes : handle = EmptyHandle(bs)
        /\ file = Absent /\ written = Absent /\ thrown = ""

Create(bs) == /\ handle' = EmptyHandle(bs)
              /\ file' = Absent /\ written' = Absent /\ thrown' = ""

\* A file that cannot be read gives the caller no handle: it keeps its own.
Open(bs) ==
  /\ file # Absent
  /\ LET got == LoadIndex(file, bs)
     IN  IF got = Garbage THEN thrown' = "unreadable" /\ UNCHANGED handle
         ELSE thrown' = "" /\ handle' = got
  /\ UNCHANGED <<file, written>>

GoesOn == file' = Absent /\ written' = Absent

Bounded(k) == Len(handle.arrays) < MaxArrays \/ HasArray(handle, k)
Put(k, s) ==
  /\ Bounded(k)
  /\ handle' = Stored(handle, k, s)
  /\ thrown' = IF PutThrows(handle, k) THEN "full" ELSE ""
  /\ GoesOn

\* LayerView::put(): an exception of put() leaves the bits as they are.
LayerPut(l, k, s) ==
  LET key == StorageKey(l, k)
      put == Stored(handle, key, s)
  IN  /\ HasLayer(handle, l) /\ l # Base /\ Bounded(key)
      /\ IF PutThrows(handle, key) THEN handle' = put /\ thrown' = "full"
         ELSE /\ handle' = Presence(Presence(put, Base, k, FALSE), l, k, TRUE)
              /\ thrown' = ""
      /\ GoesOn

MetaPut(l, k) ==
  /\ HasLayer(handle, l)
  /\ IF Full(handle, k) THEN thrown' = "full" /\ UNCHANGED handle
     ELSE LET named == WithName(handle, k)
          IN  /\ handle' = [named EXCEPT !.layers[LayerAt(handle, l)].keys =
                              @ \cup {NameAt(named, k)}]
              /\ thrown' = ""
  /\ GoesOn

CreateLayer(l) ==
  /\ IF HasLayer(handle, l) THEN thrown' = "exists" /\ UNCHANGED handle
     ELSE /\ handle' = [handle EXCEPT !.layers = Append(@, [name |-> l, keys |-> {}]),
                                      !.presence =
                                        [m \in DOMAIN @ \cup {l} |->
                                           IF m = l THEN EmptyBitmap(handle) ELSE @[m]]]
          /\ thrown' = ""
  /\ GoesOn

\* flush(): the header must fit into what was reserved for it. A flush that
\* throws leaves the counts of blocks it made.
Flush ==
  LET now == Compressed(handle)
      size == HeaderSize(Estimated(handle))
      unnamed == \E i \in DOMAIN handle.arrays : ~Named(handle, handle.arrays[i].key)
      error == IF unnamed THEN "unnamed" ELSE IF Serialized(Fields(now)) > size THEN "too long"
               ELSE ""
  IN  /\ thrown' = error
      /\ IF error # "" THEN handle' = now /\ GoesOn
         ELSE /\ handle' = Clean(now)
              /\ written' = Clean(now)
              /\ file' = [header_size |-> size, entry_count |-> Len(now.arrays),
                          layer_count |-> Len(now.layers) - 1,
                          key_registry_count |-> Len(now.names), fields |-> Fields(now)]

Next == \/ \E bs \in BlockSizes : Create(bs) \/ Open(bs)
        \/ \E k \in Keys, s \in Shapes : Put(k, s) \/ \E l \in Layers : LayerPut(l, k, s)
        \/ \E k \in Keys, l \in Layers \cup {Base} : MetaPut(l, k)
        \/ \E l \in Layers : CreateLayer(l)
        \/ Flush

Spec == Init /\ [][Next]_vars

---------------------------------------------------------------------------
\* What the format can say, and open() accepts.
Encodable(h) ==
  /\ \A i \in DOMAIN h.names : NameLength(h.names[i]) <= MaxLength
  /\ \A i \in DOMAIN h.layers : /\ NameLength(h.layers[i].name) <= MaxLength
                                /\ Cardinality(h.layers[i].keys) <= MaxCount
  /\ \A i \in DOMAIN h.arrays : h.arrays[i].dims <= MaxDims /\ h.arrays[i].blocks <= MaxBlocks

\* The header of every flush whose names, counts, dimensions and blocks the
\* format can hold reads back as the registries, bitmaps and arrays that were
\* flushed: loadIndex() (5557) is the inverse of phase 3d of flush (7018).
ReadsBackWhatWasWritten ==
  written # Absent /\ Encodable(written)
    => LoadIndex(file, written.block_size) = written

\* The internal error of flush never occurs: calculateHeaderSize() reserves
\* at least the bytes that are serialized after compression (7079-7087).
HeaderFits == thrown # "too long"

\* What flush wrote without an error, open() reads. It does not hold: the limits
\* of IndexEntry::read (1397, 1417) are not checked by put() or flush.
WhatIsWrittenCanBeRead ==
  written # Absent /\ (\A i \in DOMAIN written.names : NameLength(written.names[i]) <= MaxLength)
    => LoadIndex(file, written.block_size) # Garbage

=================================================================================

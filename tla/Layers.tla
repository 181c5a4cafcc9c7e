--------------------------------- MODULE Layers ---------------------------------
(***************************************************************************)
(* Layers and metadata of a StarDataset (stards.h): arrays of a layer live *)
(* in the common array list under a prefixed key, a bitmap per layer says  *)
(* which arrays the layer overrides, and each layer has a metadata block   *)
(* of its own that is read from the file when it is first needed.          *)
(*                                                                         *)
(* How an array's bytes are laid out and copied is StarDataset; here an    *)
(* array is its value, and the file is what loadIndex() and                *)
(* load_layer_metadata() find in it.                                       *)
(***************************************************************************)
EXTENDS Integers, Sequences, FiniteSets

CONSTANTS Keys, MetaKeys,  \* keys of arrays and of metadata
          Vals, MetaVals,  \* values of arrays and of metadata
          Base,            \* "__base__"
          NewLayers,       \* the names create_layer() is given
          StorageKey,      \* how the name of an array is spelled, by layer and key:
                           \* "__layer_<l>__:k", or plain k for the base layer
          Missing, Absent, \* no such key, no such file
          ReadOnly, ReadWrite,
          WordBits,        \* bits of a bitmap word: 64
          RegistryLimit    \* the largest number of key names: 65536

ASSUME LayersAssumption ==
  /\ WordBits \in Nat \ {0} /\ RegistryLimit \in Nat
  /\ Base \notin NewLayers /\ Missing \notin Vals \cup MetaVals
  /\ ReadOnly # ReadWrite

\* Only the key varies behind the prefix of a layer.  Nothing keeps the names of two
\* layers apart: a base key, or a key and a layer with "__:" in them, can spell the
\* name of another layer's array.
ASSUME SpellingAssumption ==
  \A l \in NewLayers \cup {Base}, j, k \in Keys \cup MetaKeys :
    StorageKey[l][j] = StorageKey[l][k] => j = k

VARIABLES isOpen, m_file_mode, m_flushed,
          arrays,        \* m_hot and m_data_storage: names and values in order
          m_key_registry,\* every name used so far
          layers,        \* m_layer_metadata_registry, m_layer_presence and
                         \* m_layer_metadata_indices, by layer name
          file           \* what the path holds

vars == <<isOpen, m_file_mode, m_flushed, arrays, m_key_registry, layers, file>>

AllLayers == NewLayers \cup {Base}

\* The plain name of a key is that of its base array, and the one that metadata uses
\* in every layer.
Names == {StorageKey[l][k] : l \in AllLayers, k \in Keys \cup MetaKeys}
Plain(k) == StorageKey[Base][k]

\* Metadata: the keys a map holds, and their values.
Metas == UNION {[ks -> MetaVals] : ks \in SUBSET MetaKeys}
NoMeta == [k \in {} |-> Missing]

\* words and present are the bitmap, keys the registry's key_indices, block
\* whether the file has a metadata block, loaded and meta what is in memory.
Layer == [words : Nat, present : SUBSET Nat, keys : SUBSET MetaKeys, block : BOOLEAN,
          loaded : BOOLEAN, meta : Metas]

Array == [name : Names, val : Vals]
IsLayers(ls) == /\ Base \in DOMAIN ls /\ DOMAIN ls \subseteq AllLayers
                /\ ls \in [DOMAIN ls -> Layer]

\* What a file can hold; Absent is none of it.
Image == [arrays : Seq(Array), registry : SUBSET Names,
          layers : UNION {[ls -> Layer] : ls \in SUBSET AllLayers}]

ASSUME AbsentAssumption == Absent \notin Image

Lookup(seq, n) == CHOOSE i \in DOMAIN seq : seq[i].name = n
HasName(seq, n) == \E i \in DOMAIN seq : seq[i].name = n

\* Rounding up to whole words.
Words(bits) == (bits + WordBits - 1) \div WordBits

\* resize() of a bitmap that is too short for bit idx.
Grown(words, idx) == IF Words(idx + 1) > words THEN Words(idx + 1) ELSE words

Set(meta, k, v) == [j \in DOMAIN meta \cup {k} |-> IF j = k THEN v ELSE meta[j]]
Without(meta, k) == [j \in DOMAIN meta \ {k} |-> meta[j]]

--------------------------------------------------------------------------------
(* The parts of the operations.                                            *)

\* get_or_create(): a known name, or a new one when there is room.
CanName(n) == n \in m_key_registry \/ Cardinality(m_key_registry) < RegistryLimit
WithName(n) == m_key_registry \cup {n}

\* A mutant: the bit of a new array is its index in the key registry.
MarkNewAtRegistryIndex(ls, idx) ==
  LET bit == Cardinality(m_key_registry)
  IN [l \in DOMAIN ls |->
        [ls[l] EXCEPT !.words = Grown(@, bit),
                      !.present = IF l = Base THEN @ \cup {bit} ELSE @]]

\* A mutant: a new array is taken to be in every layer.
MarkNewEverywhere(ls, idx) ==
  [l \in DOMAIN ls |->
     [ls[l] EXCEPT !.words = Grown(@, idx),
                   !.present = @ \cup {idx}]]

\* The end of put() for a new array of ordinal idx: every bitmap has a bit for
\* it, set for the base layer only.
MarkNew(ls, idx) ==
  [l \in DOMAIN ls |->
     [ls[l] EXCEPT !.words = Grown(@, idx),
                   !.present = IF l = Base THEN @ \cup {idx} ELSE @]]

\* A mutant: the bit before that of the array.
MarkOwnerShifted(ls, as, layer, k) ==
  IF ~HasName(as, Plain(k)) THEN ls
  ELSE LET bit == Lookup(as, Plain(k)) - 2
       IN [ls EXCEPT ![layer].present = @ \cup {bit}]

\* set_layer_presence() after put() of a layer's key: the bit is that of the
\* base array of this name; without one nothing is recorded.
MarkOwner(ls, as, layer, k) ==
  IF ~HasName(as, Plain(k)) THEN ls
  ELSE LET bit == Lookup(as, Plain(k)) - 1
       IN [l \in DOMAIN ls |->
             IF l = layer THEN [ls[l] EXCEPT !.words = Grown(@, bit), !.present = @ \cup {bit}]
             ELSE IF l = Base THEN [ls[l] EXCEPT !.words = Grown(@, bit), !.present = @ \ {bit}]
             ELSE ls[l]]

\* The arrays once value v is stored under name n.
Stored(n, v) ==
  IF HasName(arrays, n) THEN [arrays EXCEPT ![Lookup(arrays, n)].val = v]
  ELSE Append(arrays, [name |-> n, val |-> v])

FreshLayer(words) == [words |-> words, present |-> {}, keys |-> {}, block |-> FALSE,
                      loaded |-> FALSE, meta |-> NoMeta]

\* load_layer_metadata(): the block of a layer that is not loaded yet.
Loaded(l) ==
  IF layers[l].loaded THEN layers[l]
  ELSE [layers[l] EXCEPT !.loaded = TRUE,
                         !.meta = IF layers[l].block THEN file.layers[l].meta ELSE @]

\* A mutant: a layer whose metadata was never needed is written as one without any.
SerializedIfLoaded(l) ==
  IF layers[l].loaded /\ layers[l].keys # {} THEN [layers[l] EXCEPT !.block = TRUE]
  ELSE [layers[l] EXCEPT !.block = FALSE, !.keys = {}]

\* flush_internal(), phase 3c: a layer with keys is loaded and written as a
\* block, one without has none.
Serialized(l) ==
  IF layers[l].keys = {} THEN [layers[l] EXCEPT !.block = FALSE]
  ELSE [Loaded(l) EXCEPT !.block = TRUE]

\* What makes flush_internal() throw: a key without a value (phase 3c), an array
\* without a name, or a header larger than calculateHeaderSize() (phase 3d).
CanSerialize ==
  /\ \A l \in DOMAIN layers : layers[l].keys \subseteq DOMAIN Loaded(l).meta
  /\ \A i \in DOMAIN arrays : arrays[i].name \in m_key_registry
  /\ \A l \in DOMAIN layers : layers[l].words <= Words(Len(arrays))

\* What a file of this dataset gives to loadIndex().
ImageNow ==
  [arrays |-> arrays, registry |-> m_key_registry,
   layers |-> [l \in DOMAIN layers |->
                 LET s == Serialized(l)
                 IN [s EXCEPT !.loaded = FALSE,
                              !.meta = [k \in s.keys |-> s.meta[k]]]]]

\* loadIndex(): the bitmaps are as long as the array count says; only the base
\* layer's metadata is loaded at once.
LoadIndex(image) ==
  [l \in DOMAIN image.layers |->
     [image.layers[l] EXCEPT !.words = Words(Len(image.arrays)),
                             !.loaded = l = Base,
                             !.meta = IF l = Base THEN @ ELSE NoMeta]]

--------------------------------------------------------------------------------
(* The operations.                                                         *)

Init == /\ isOpen = FALSE /\ m_file_mode = ReadOnly /\ m_flushed = FALSE
        /\ arrays = <<>> /\ m_key_registry = {}
        /\ layers = [l \in {Base} |-> FreshLayer(0)]
        /\ file = Absent

\* create(): the file is removed; the constructor adds the base layer.
Create ==
  /\ ~isOpen
  /\ isOpen' = TRUE /\ m_file_mode' = ReadWrite /\ m_flushed' = FALSE
  /\ arrays' = <<>> /\ m_key_registry' = {}
  /\ layers' = [l \in {Base} |-> FreshLayer(0)]
  /\ file' = Absent

\* open() of an existing file.
Open(mode) ==
  /\ ~isOpen /\ file # Absent
  /\ isOpen' = TRUE /\ m_file_mode' = mode /\ m_flushed' = FALSE
  /\ arrays' = file.arrays /\ m_key_registry' = file.registry
  /\ layers' = LoadIndex(file)
  /\ UNCHANGED file

\* put() of the dataset.  When the registry is full the new array is already in
\* the list when get_or_create() throws, and no bitmap grows.
Put(k, v) ==
  LET n == Plain(k)
  IN /\ isOpen
     /\ arrays' = Stored(n, v)
     /\ m_flushed' = FALSE
     /\ IF HasName(arrays, n) \/ ~CanName(n)
        THEN UNCHANGED <<m_key_registry, layers>>
        ELSE /\ m_key_registry' = WithName(n)
             /\ layers' = MarkNew(layers, Len(arrays))
     /\ UNCHANGED <<isOpen, m_file_mode, file>>

\* put() of a LayerView, the view of the base layer included: the same under the
\* layer's name, then the presence of the logical key moves to this layer.
LayerPut(l, k, v) ==
  LET n == StorageKey[l][k]
  IN /\ isOpen /\ l \in DOMAIN layers
     /\ arrays' = Stored(n, v)
     /\ m_flushed' = FALSE
     /\ IF HasName(arrays, n)
        THEN UNCHANGED m_key_registry /\ layers' = MarkOwner(layers, arrays', l, k)
        ELSE IF CanName(n)
        THEN /\ m_key_registry' = WithName(n)
             /\ layers' = MarkOwner(MarkNew(layers, Len(arrays)), arrays', l, k)
        ELSE UNCHANGED <<m_key_registry, layers>>
     /\ UNCHANGED <<isOpen, m_file_mode, file>>

\* A mutant: the new layer is not taken for a change.
CreateLayerStaysFlushed(l) ==
  /\ isOpen /\ l \notin DOMAIN layers
  /\ layers' = [m \in DOMAIN layers \cup {l} |->
                  IF m = l THEN FreshLayer(Words(Len(arrays))) ELSE layers[m]]
  /\ UNCHANGED <<isOpen, m_file_mode, m_flushed, arrays, m_key_registry, file>>

\* create_layer() of a name that does not exist.
CreateLayer(l) ==
  /\ isOpen /\ l \notin DOMAIN layers
  /\ layers' = [m \in DOMAIN layers \cup {l} |->
                  IF m = l THEN FreshLayer(Words(Len(arrays))) ELSE layers[m]]
  /\ m_flushed' = FALSE
  /\ UNCHANGED <<isOpen, m_file_mode, arrays, m_key_registry, file>>

\* MetadataAccessor::put(): the base layer, which is never checked for loaded.
MetaPut(k, v) ==
  /\ isOpen /\ CanName(Plain(k))
  /\ m_key_registry' = WithName(Plain(k))
  /\ layers' = [layers EXCEPT ![Base].meta = Set(@, k, v),
                              ![Base].keys = IF k \in DOMAIN layers[Base].meta
                                             THEN @ ELSE @ \cup {k}]
  /\ m_flushed' = FALSE
  /\ UNCHANGED <<isOpen, m_file_mode, arrays, file>>

\* MetadataAccessor::remove() of a key of the base layer; clear().
MetaRemove(k) ==
  /\ isOpen /\ Plain(k) \in m_key_registry
  /\ layers' = IF k \in DOMAIN layers[Base].meta
               THEN [layers EXCEPT ![Base].meta = Without(@, k), ![Base].keys = @ \ {k}]
               ELSE layers
  /\ m_flushed' = FALSE
  /\ UNCHANGED <<isOpen, m_file_mode, arrays, m_key_registry, file>>

MetaClear ==
  /\ isOpen
  /\ layers' = [layers EXCEPT ![Base].meta = NoMeta, ![Base].keys = {}]
  /\ m_flushed' = FALSE
  /\ UNCHANGED <<isOpen, m_file_mode, arrays, m_key_registry, file>>

\* A mutant: the block that is on disk is not loaded first.
LayerMetaPutUnloaded(l, k, v) ==
  /\ isOpen /\ l \in DOMAIN layers /\ CanName(Plain(k))
  /\ m_key_registry' = WithName(Plain(k))
  /\ layers' = [layers EXCEPT ![l] = [layers[l] EXCEPT !.meta = Set(@, k, v),
                                                       !.loaded = TRUE,
                                                       !.keys = @ \cup {k}]]
  /\ m_flushed' = FALSE
  /\ UNCHANGED <<isOpen, m_file_mode, arrays, file>>

\* LayerMetadataAccessor::put(): the block of the layer is loaded first.
LayerMetaPut(l, k, v) ==
  /\ isOpen /\ l \in DOMAIN layers /\ CanName(Plain(k))
  /\ m_key_registry' = WithName(Plain(k))
  /\ layers' = [layers EXCEPT ![l] = [Loaded(l) EXCEPT !.meta = Set(@, k, v),
                                                       !.keys = @ \cup {k}]]
  /\ m_flushed' = FALSE
  /\ UNCHANGED <<isOpen, m_file_mode, arrays, file>>

\* LayerMetadataAccessor::get() of a known name: it loads the block of its layer;
\* if the key is not there, with inheritance, the base layer is loaded too.
LayerMetaGet(l, k) ==
  /\ isOpen /\ l \in DOMAIN layers /\ Plain(k) \in m_key_registry
  /\ \E touched \in {{l}, {l, Base}} :
       /\ k \in layers[l].keys => touched = {l}
       /\ layers' = [m \in DOMAIN layers |-> IF m \in touched THEN Loaded(m) ELSE layers[m]]
  /\ UNCHANGED <<isOpen, m_file_mode, m_flushed, arrays, m_key_registry, file>>

\* LayerMetadataAccessor::remove() looks in memory only.
LayerMetaRemove(l, k) ==
  /\ isOpen /\ l \in DOMAIN layers
  /\ k \in DOMAIN layers[l].meta
  /\ layers' = [layers EXCEPT ![l].meta = Without(@, k), ![l].keys = @ \ {k}]
  /\ m_flushed' = FALSE
  /\ UNCHANGED <<isOpen, m_file_mode, arrays, m_key_registry, file>>

\* flush(), close(): the whole file is written again.  When serializing throws
\* the file keeps its content; the blocks already serialized stay loaded.
Flush ==
  /\ isOpen /\ m_file_mode = ReadWrite /\ ~m_flushed /\ CanSerialize
  /\ file' = ImageNow
  /\ layers' = [l \in DOMAIN layers |-> Serialized(l)]
  /\ m_flushed' = TRUE
  /\ UNCHANGED <<isOpen, m_file_mode, arrays, m_key_registry>>

FlushThrows ==
  /\ isOpen /\ m_file_mode = ReadWrite /\ ~m_flushed /\ ~CanSerialize
  /\ layers' = [l \in DOMAIN layers |-> Serialized(l)]
  /\ UNCHANGED <<isOpen, m_file_mode, m_flushed, arrays, m_key_registry, file>>

\* The destructor; a crash.
Destroy ==
  /\ isOpen
  /\ file' = IF m_file_mode = ReadWrite /\ ~m_flushed /\ CanSerialize THEN ImageNow ELSE file
  /\ isOpen' = FALSE /\ m_flushed' = FALSE
  /\ arrays' = <<>> /\ m_key_registry' = {}
  /\ layers' = [l \in {Base} |-> FreshLayer(0)]
  /\ m_file_mode' = ReadOnly

Crash ==
  /\ isOpen
  /\ isOpen' = FALSE /\ m_flushed' = FALSE
  /\ arrays' = <<>> /\ m_key_registry' = {}
  /\ layers' = [l \in {Base} |-> FreshLayer(0)]
  /\ m_file_mode' = ReadOnly
  /\ UNCHANGED file

Next == \/ Create
        \/ \E md \in {ReadOnly, ReadWrite} : Open(md)
        \/ \E k \in Keys, v \in Vals : Put(k, v)
        \/ \E l \in AllLayers, k \in Keys, v \in Vals : LayerPut(l, k, v)
        \/ \E l \in NewLayers : CreateLayer(l)
        \/ \E k \in MetaKeys, v \in MetaVals : MetaPut(k, v)
        \/ \E k \in MetaKeys : MetaRemove(k)
        \/ MetaClear
        \/ \E l \in AllLayers, k \in MetaKeys, v \in MetaVals : LayerMetaPut(l, k, v)
        \/ \E l \in AllLayers, k \in MetaKeys : LayerMetaGet(l, k)
        \/ \E l \in AllLayers, k \in MetaKeys : LayerMetaRemove(l, k)
        \/ Flush
        \/ FlushThrows
        \/ Destroy
        \/ Crash

Spec == Init /\ [][Next]_vars

--------------------------------------------------------------------------------
(* What must hold.                                                         *)

\* What a layer itself stores, arrays and metadata, in memory or in the file.
ArrayNamed(as, n) == IF HasName(as, n) THEN as[Lookup(as, n)].val ELSE Missing
OwnArray(as, l, k) == ArrayNamed(as, StorageKey[l][k])
OwnMeta(meta, k) == IF k \in DOMAIN meta THEN meta[k] ELSE Missing

Shown == [l \in DOMAIN layers |->
            [k \in Keys \cup MetaKeys |-> [array |-> OwnArray(arrays, l, k),
                             meta |-> OwnMeta(Loaded(l).meta, k),
                             listed |-> k \in layers[l].keys]]]
SavedShown == [l \in DOMAIN file.layers |->
                 [k \in Keys \cup MetaKeys |-> [array |-> OwnArray(file.arrays, l, k),
                                  meta |-> OwnMeta(file.layers[l].meta, k),
                                  listed |-> k \in file.layers[l].keys]]]

\* key_in_layer(), and LayerView::contains() and get() with or without inheritance.
KeyInLayer(l, k) ==
  IF HasName(arrays, Plain(k)) THEN Lookup(arrays, Plain(k)) - 1 \in layers[l].present
  ELSE k \in layers[l].keys
Contains(l, k, inherit) == KeyInLayer(l, k) \/ (inherit /\ KeyInLayer(Base, k))
CanGet(l, k, inherit) ==
  \E m \in {l} \cup (IF inherit THEN {Base} ELSE {}) :
    OwnArray(arrays, m, k) # Missing \/ OwnMeta(Loaded(m).meta, k) # Missing

\* Types of the variables.
TypeOK ==
  /\ isOpen \in BOOLEAN /\ m_flushed \in BOOLEAN
  /\ m_file_mode \in {ReadOnly, ReadWrite}
  /\ arrays \in Seq(Array) /\ m_key_registry \subseteq Names
  /\ IsLayers(layers)
  /\ file # Absent => /\ file.arrays \in Seq(Array) /\ file.registry \subseteq Names
                      /\ IsLayers(file.layers)

\* calculateHeaderSize() reserves a word for every WordBits arrays in every
\* layer's bitmap, and loadIndex() reads as many: whatever the order of put(),
\* create_layer() and reopening, each bitmap has that many words and no bit
\* beyond the arrays.
AllNamed == \A i \in DOMAIN arrays : arrays[i].name \in m_key_registry
BitmapsFillHeader ==
  AllNamed => \A l \in DOMAIN layers :
                /\ layers[l].words = Words(Len(arrays))
                /\ layers[l].present \subseteq 0 .. Len(arrays) - 1

\* The keys the header lists for a layer are those of its metadata, which is in
\* memory or, for a layer that was never needed, still in the block of the file:
\* flush never meets a listed key without a value.
MetaMatchesHeader ==
  \A l \in DOMAIN layers : DOMAIN Loaded(l).meta = layers[l].keys

\* So flush() throws only when put() left an array without a name, the key registry
\* being full: no order of layers, metadata, reopening and flushing breaks it.
FlushSucceeds == AllNamed => CanSerialize

\* When m_flushed makes close() a no-op, a reader of the file finds in every layer
\* the arrays, the metadata and the key list that this handle shows, and the bits that
\* say which arrays it holds.
FlushedIsSaved ==
  isOpen /\ m_flushed =>
    /\ file # Absent /\ SavedShown = Shown
    /\ \A l \in DOMAIN layers : file.layers[l].present = layers[l].present

\* The calls that may change what layer l shows under key k: put() of an array under
\* a name that is spelled the same, and the metadata calls of the layer.
MayChange(l, k) ==
  \/ \E m \in AllLayers, j \in Keys, v \in Vals :
       /\ StorageKey[m][j] = StorageKey[l][k]
       /\ LayerPut(m, j, v) \/ (m = Base /\ Put(j, v))
  \/ \E v \in MetaVals : LayerMetaPut(l, k, v) \/ (l = Base /\ MetaPut(k, v))
  \/ LayerMetaRemove(l, k)
  \/ l = Base /\ (MetaRemove(k) \/ MetaClear)

\* Nothing else changes an array, a metadata value or the key list of a layer: no call
\* on another layer that is not spelled the same, no get() and no flush, whichever
\* blocks are in memory and whichever are still in the file that the flush replaces,
\* and no flush that throws after some blocks were loaded.
OnlyOwnCallsChangeALayer ==
  [][isOpen /\ isOpen' =>
       \A l \in DOMAIN layers, k \in Keys \cup MetaKeys :
         Shown[l][k] # Shown[l][k]' => MayChange(l, k)]_vars

\* What src/README.md:583 promises of layers: "Each layer's data is independent (no
\* overwriting)".  It holds when no two names are spelled the same.
LayersAreIsolated ==
  [][isOpen /\ isOpen' =>
       \A l \in DOMAIN layers, k \in Keys :
         OwnArray(arrays, l, k) # OwnArray(arrays', l, k) =>
           \E v \in Vals : LayerPut(l, k, v) \/ (l = Base /\ Put(k, v))]_vars

\* What contains() confirms, get() of the array or of the metadata returns.
ContainsMeansReadable ==
  isOpen => \A l \in DOMAIN layers, k \in Keys, inherit \in BOOLEAN :
              Contains(l, k, inherit) => CanGet(l, k, inherit)

\* What a layer holds, its contains() confirms.
ContainsWhatItHolds ==
  isOpen => \A l \in DOMAIN layers, k \in Keys :
              OwnArray(arrays, l, k) # Missing => Contains(l, k, FALSE)
================================================================================

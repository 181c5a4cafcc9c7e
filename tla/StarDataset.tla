------------------------------ MODULE StarDataset ------------------------------
(***************************************************************************)
(* The persistence life cycle of one StarDataset handle (stards.h): how    *)
(* put() records an array, how flush_internal() lays out and rewrites the  *)
(* whole file, how loadIndex() and load_entry() read it back, and how      *)
(* save_to(), write_bytes(), close(), a refused or partial write and a     *)
(* crash act on both sides.                                                *)
(*                                                                         *)
(* A file is the list of its index entries, each with the position, size   *)
(* and codec tag the header gives and the bytes stored at that position;   *)
(* bytes remember the array and the codec that produced them.  Reading     *)
(* anything but exactly one stored block list yields Junk.                 *)
(***************************************************************************)
EXTENDS Integers, Sequences, FiniteSets

CONSTANTS Keys, Vals, Codecs, Paths,
          Empty,        \* the array of Vals with no elements (no blocks on disk)
          Junk,         \* decoding the wrong bytes
          Unloaded,     \* data_indices[i] = SIZE_MAX
          Missing, Absent, ReadOnly, ReadWrite,  \* as in StarCatalog
          Memory,       \* the byte array write_bytes() returns, open_bytes() takes
          Remote,       \* the paths that are S3 objects; the others are local
          DefaultCodec, \* StarConfig().compression, the config of every open()
          Weight,       \* compressed size of an array under a codec
          HeaderBytes, EntryBytes, \* header size: fixed part, part per array
          FixedBytes,   \* magic, version and header size, that loadIndex() checks for
          Misreads,     \* what the bytes behind the end of a file can be taken for
                        \* when its index is cut, and
          MaxCount,     \* how many entries, when their number is cut off as well
          Perils        \* the optional events this instance includes:
                        \* "save_to", "write_bytes", "refused" (S3 takes no upload),
                        \* "locked" (a local file cannot be opened for writing),
                        \* "partial" (a local write stops early, unnoticed),
                        \* "crash" (the process dies between two calls),
                        \* "torn" (or during a local write),
                        \* "outage" (S3 answers no read)

Data == Vals \cup {Junk}

ASSUME SizesAssumption ==
  /\ Weight \in [Data -> [Codecs -> Nat]]
  /\ \A v \in Data, c \in Codecs : Weight[v][c] = 0 <=> v = Empty
  /\ HeaderBytes \in Nat \ {0} /\ EntryBytes \in Nat \ {0}
  /\ FixedBytes \in 1 .. HeaderBytes

ASSUME NamesAssumption ==
  /\ Empty \in Vals /\ DefaultCodec \in Codecs
  /\ Memory \in Paths /\ Remote \subseteq Paths \ {Memory}
  /\ Junk \notin Vals /\ Unloaded \notin Data /\ Missing \notin Data
  /\ ReadOnly # ReadWrite

Files == Paths \ {Memory}

VARIABLES disk,         \* what every path holds
          isOpen,       \* whether the handle exists
          m_filename, m_file_mode,
          m_config,     \* m_config.compression
          m_flushed,
          entries       \* m_hot and m_cold, in m_hot order

vars == <<disk, isOpen, m_filename, m_file_mode, m_config, m_flushed, entries>>
handle == <<m_filename, m_file_mode, m_config>>

Bytes == [val : Data, codec : Codecs]
Stored == [key : Keys, pos : Nat, size : Nat, codec : Codecs, blocks : BOOLEAN,
           bytes : Bytes]
Image == [stored : Seq(Stored), length : Nat]
Entry == [key : Keys, dirty : BOOLEAN, data : Data \cup {Unloaded}, pos : Nat,
          size : Nat, codec : Codecs, blocks : BOOLEAN]

ASSUME MisreadAssumption ==
  /\ Misreads \subseteq {e \in Entry : ~e.dirty /\ e.data = Unloaded}
  /\ MaxCount \in Nat

ASSUME AbsentAssumption ==
  Absent \notin Data \cup Image /\ Absent \notin [Keys -> Data \cup {Missing, Absent}]

JunkBytes == [val |-> Junk, codec |-> DefaultCodec]

\* calculateHeaderSize() for n arrays.
HeaderSize(n) == HeaderBytes + n * EntryBytes

--------------------------------------------------------------------------------
(* Reading.                                                                *)

\* An array survives in the image if neither the header nor another array was
\* copied over it.
Intact(image, s) ==
  /\ HeaderSize(Len(image.stored)) <= s.pos
  /\ \A i \in DOMAIN image.stored :
       LET t == image.stored[i]
       IN t = s \/ t.size = 0 \/ t.pos + t.size <= s.pos \/ s.pos + s.size <= t.pos

\* The arrays that lie exactly at [pos, pos + size), a range that is not empty.
At(image, pos, size) ==
  {s \in {image.stored[i] : i \in DOMAIN image.stored} :
     size > 0 /\ s.pos = pos /\ s.size = size /\ Intact(image, s)}

\* The file holds its whole header.
HeaderWhole(image) == HeaderSize(Len(image.stored)) <= image.length

\* read_range() and decode_array_bytes(): the array found at [pos, pos + size)
\* of a file when the index says it has this codec; Absent when the range is not
\* there.  A block list of length zero decodes to the empty array.
ReadArray(image, pos, size, codec, blocks) ==
  LET at == At(image, pos, size)
  IN IF pos + size > image.length /\ size > 0 THEN Absent
     ELSE IF ~blocks THEN Empty
     ELSE IF \E s \in at : s.bytes.codec = codec
     THEN (CHOOSE s \in at : s.bytes.codec = codec).bytes.val
     ELSE Junk

\* m_key_to_index: of two entries with one key, the later one was entered last.
HasKey(seq, k) == \E i \in DOMAIN seq : seq[i].key = k
Lookup(seq, k) == CHOOSE i \in DOMAIN seq :
                    seq[i].key = k /\ \A j \in DOMAIN seq : seq[j].key = k => j <= i

\* What load_entry() finds for an entry of the open handle.
OnDisk(e) == IF disk[m_filename] = Absent THEN Absent
             ELSE ReadArray(disk[m_filename], e.pos, e.size, e.codec, e.blocks)

\* Mutants: index entries count as loaded, or as changed.
LoadIndexAsLoaded(image) ==
  [i \in DOMAIN image.stored |->
     [key |-> image.stored[i].key, dirty |-> FALSE, data |-> Missing,
      pos |-> image.stored[i].pos, size |-> image.stored[i].size,
      codec |-> image.stored[i].codec, blocks |-> image.stored[i].blocks]]
LoadIndexAsDirty(image) ==
  [i \in DOMAIN image.stored |->
     [key |-> image.stored[i].key, dirty |-> TRUE, data |-> Unloaded,
      pos |-> image.stored[i].pos, size |-> image.stored[i].size,
      codec |-> image.stored[i].codec, blocks |-> image.stored[i].blocks]]

\* loadIndex(): every index entry becomes a clean entry that is not loaded.
LoadIndex(image) ==
  [i \in DOMAIN image.stored |->
     [key |-> image.stored[i].key, dirty |-> FALSE, data |-> Unloaded,
      pos |-> image.stored[i].pos, size |-> image.stored[i].size,
      codec |-> image.stored[i].codec, blocks |-> image.stored[i].blocks]]

\* loadIndex() of a file cut within its header: the entries before the cut are as
\* written; for the others it parses what the short buffer does not hold, so that
\* any index can result (one marked stored_in_metadata is skipped).
Misread(image) ==
  LET counts == IF image.length < HeaderBytes THEN 0 .. MaxCount
                ELSE {n \in 0 .. Len(image.stored) : image.length < HeaderSize(n + 1)}
  IN UNION {{[i \in 1 .. n |-> IF HeaderSize(i) <= image.length
                               THEN LoadIndex(image)[i] ELSE rest[i]] :
               rest \in [1 .. n -> Misreads]} : n \in counts}

\* The indexes loadIndex() can return.  It checks that the fixed fields are there,
\* not that the header is.
Indexes(image) == IF image = Absent THEN {<<>>}
                  ELSE IF HeaderWhole(image) THEN {LoadIndex(image)}
                  ELSE IF FixedBytes <= image.length THEN Misread(image)
                  ELSE {}

--------------------------------------------------------------------------------
(* Writing: flush_internal() up to the sink.                               *)

\* Phase 3a: the bytes and size of one array.  A dirty array is compressed
\* again with the handle's codec; an array without blocks keeps the size it
\* had; a clean one is copied with an ifstream on m_filename, which finds
\* nothing behind a remote name.
Compressed(e, image) ==
  IF e.dirty
  THEN IF e.data = Empty
       THEN [bytes |-> JunkBytes, size |-> e.size, blocks |-> FALSE]
       ELSE [bytes |-> [val |-> e.data, codec |-> m_config],
             size |-> Weight[e.data][m_config], blocks |-> TRUE]
  ELSE LET at == IF e.pos + e.size <= image.length THEN At(image, e.pos, e.size) ELSE {}
       IN [bytes |-> IF at = {} THEN JunkBytes ELSE (CHOOSE s \in at : TRUE).bytes,
           size |-> e.size, blocks |-> e.blocks]

NoImage == [stored |-> <<>>, length |-> 0]

\* The file an ifstream on this path reads.
SourceImage(path) ==
  IF path \in Remote \/ disk[path] = Absent THEN NoImage ELSE disk[path]

\* A mutant: the first array lies where the index of a file without arrays ends.
PositionsNoIndex(sizes) ==
  LET P[i \in 1 .. Len(sizes) + 1] ==
        IF i = 1 THEN HeaderBytes ELSE P[i - 1] + sizes[i - 1]
  IN P

\* Phase 3b: arrays follow the header without gaps, in m_hot order.
Positions(sizes) ==
  LET P[i \in 1 .. Len(sizes) + 1] ==
        IF i = 1 THEN HeaderSize(Len(sizes)) ELSE P[i - 1] + sizes[i - 1]
  IN P

\* Phases 3a-3e for the entries es: the file image the sink receives when
\* m_filename is path.
ImageOf(es, path) ==
  LET out == [i \in DOMAIN es |-> Compressed(es[i], SourceImage(path))]
      pos == Positions([i \in DOMAIN es |-> out[i].size])
  IN [stored |-> [i \in DOMAIN es |->
                    [key |-> es[i].key, pos |-> pos[i], size |-> out[i].size,
                     codec |-> es[i].codec, blocks |-> out[i].blocks,
                     bytes |-> out[i].bytes]],
      length |-> pos[Len(es) + 1]]

\* A mutant: the layout reaches the file but not m_cold.
RelaidNothing(es, path) == es

\* Phases 3a and 3b write the new layout into m_cold before the sink runs.
Relaid(es, path) ==
  LET image == ImageOf(es, path)
  IN [i \in DOMAIN es |-> [es[i] EXCEPT !.pos = image.stored[i].pos,
                                        !.size = image.stored[i].size,
                                        !.blocks = image.stored[i].blocks]]

\* A mutant: a flushed array is dropped from memory, to be read again from m_filename.
CleanedAndFreed(es) ==
  [i \in DOMAIN es |-> [es[i] EXCEPT !.dirty = FALSE, !.data = Unloaded]]

\* After a successful sink every entry that was dirty is clean.
Cleaned(es) == [i \in DOMAIN es |-> [es[i] EXCEPT !.dirty = FALSE]]

\* The lengths at which a local write of the image can stop: anywhere in the
\* header, or before an array.  The file was truncated when it was opened.
Cuts(image) == 0 .. HeaderSize(Len(image.stored)) \cup
               {image.stored[i].pos : i \in DOMAIN image.stored}

\* A mutant: the flags are cleared before the sink is known to have worked.
RefusedButCleaned(es, dest) ==
  {[disk |-> d, entries |-> Cleaned(Relaid(es, dest)), flushed |-> TRUE] :
     d \in {disk, [disk EXCEPT ![dest] = ImageOf(es, dest)]}}

\* The sink for path dest can throw.
CanRefuse(dest) == (IF dest \in Remote THEN "refused" ELSE "locked") \in Perils

\* flush_internal() for the entries es with m_filename = dest: the results it can
\* have.  A refused sink throws before any flag is cleared.
FlushOutcomes(es, dest) ==
  LET image == ImageOf(es, dest)
      done(written) == [disk |-> [disk EXCEPT ![dest] = written],
                        entries |-> Cleaned(Relaid(es, dest)), flushed |-> TRUE]
  IN {done(image)}
     \cup {[disk |-> disk, entries |-> Relaid(es, dest), flushed |-> FALSE] :
              x \in {TRUE} \cap {CanRefuse(dest)}}
     \cup {done([image EXCEPT !.length = cut]) :
              cut \in IF "partial" \in Perils /\ dest \notin Remote THEN Cuts(image) ELSE {}}

--------------------------------------------------------------------------------
(* The operations.                                                         *)

Init == /\ disk = [p \in Paths |-> Absent]
        /\ isOpen = FALSE
        /\ m_filename \in Files
        /\ m_file_mode = ReadOnly
        /\ m_config = DefaultCodec
        /\ m_flushed = FALSE
        /\ entries = <<>>

\* The constructor: loadIndex() runs for create() too; m_flushed starts FALSE.
Construct(index, path, mode, codec) ==
  /\ isOpen' = TRUE
  /\ m_filename' = path /\ m_file_mode' = mode /\ m_config' = codec
  /\ m_flushed' = FALSE
  /\ entries' = index

\* create(): std::ifstream and std::remove() see local files only.
Create(path, codec) ==
  /\ ~isOpen /\ path \in Files
  /\ disk' = IF path \in Remote THEN disk ELSE [disk EXCEPT ![path] = Absent]
  /\ \E index \in Indexes(disk'[path]) : Construct(index, path, ReadWrite, codec)

\* open() and open_bytes(): no file is an error for a reader and a new file for
\* a writer; a file too short for the fixed fields is an error for both.  The
\* configuration is always the default one.
Open(path, mode) ==
  /\ ~isOpen
  /\ disk[path] = Absent => mode = ReadWrite
  /\ path = Memory => mode = ReadOnly /\ disk[Memory] # Absent
  /\ \E index \in Indexes(disk[path]) : Construct(index, path, mode, DefaultCodec)
  /\ UNCHANGED disk

\* The same when the read of the header of an existing object fails: nothing is
\* read, m_header_size stays 0, and a remote path opened for writing is taken
\* for an object that does not exist yet.
OpenUnreadable(path) ==
  /\ "outage" \in Perils
  /\ ~isOpen /\ path \in Remote /\ disk[path] # Absent
  /\ Construct(<<>>, path, ReadWrite, DefaultCodec)
  /\ UNCHANGED disk

\* A mutant: the block list of the old array stays.
PutKeepsBlocks(e, v) ==
  [e EXCEPT !.dirty = TRUE, !.data = v, !.pos = 0, !.codec = m_config]

\* What put() makes of an entry; compressed_sizes keeps its old value.
PutEntry(e, v) ==
  [e EXCEPT !.dirty = TRUE, !.data = v, !.pos = 0, !.codec = m_config, !.blocks = FALSE]

NewEntry(k) == [key |-> k, dirty |-> FALSE, data |-> Unloaded, pos |-> 0, size |-> 0,
                codec |-> m_config, blocks |-> FALSE]

\* A mutant: put() forgets m_flushed.
PutStaysFlushed(k, v) ==
  /\ isOpen
  /\ entries' = IF HasKey(entries, k)
                THEN [entries EXCEPT ![Lookup(entries, k)] = PutEntry(@, v)]
                ELSE Append(entries, PutEntry(NewEntry(k), v))
  /\ UNCHANGED <<disk, isOpen, handle, m_flushed>>

\* put() replaces the array of a known key in place and appends a new one.
Put(k, v) ==
  /\ isOpen
  /\ entries' = IF HasKey(entries, k)
                THEN [entries EXCEPT ![Lookup(entries, k)] = PutEntry(@, v)]
                ELSE Append(entries, PutEntry(NewEntry(k), v))
  /\ m_flushed' = FALSE
  /\ UNCHANGED <<disk, isOpen, handle>>

\* get() of an entry that is not loaded: load_entry() keeps what it decodes.
\* Wrong bytes may also make the decoder throw, which leaves no trace.
Get(k) ==
  /\ isOpen /\ HasKey(entries, k)
  /\ LET i == Lookup(entries, k)
     IN /\ entries[i].data = Unloaded
        /\ OnDisk(entries[i]) # Absent
        /\ entries' = [entries EXCEPT ![i].data = OnDisk(entries[i])]
  /\ UNCHANGED <<disk, isOpen, handle, m_flushed>>

\* flush(), and close() on an open handle: nothing to do when m_flushed; on a
\* read-only handle flush() throws and close() does nothing.
Flush ==
  /\ isOpen /\ m_file_mode = ReadWrite /\ ~m_flushed
  /\ \E o \in FlushOutcomes(entries, m_filename) :
       disk' = o.disk /\ entries' = o.entries /\ m_flushed' = o.flushed
  /\ UNCHANGED <<isOpen, handle>>

\* A mutant: nothing is saved when the handle goes.
DestroyDiscards ==
  /\ isOpen
  /\ isOpen' = FALSE /\ entries' = <<>> /\ m_flushed' = FALSE
  /\ UNCHANGED <<disk, handle>>

\* The destructor: flush_quiet(), whose errors are only printed.
Destroy ==
  /\ isOpen
  /\ IF m_file_mode = ReadWrite /\ ~m_flushed
     THEN \E o \in FlushOutcomes(entries, m_filename) : disk' = o.disk
     ELSE UNCHANGED disk
  /\ isOpen' = FALSE /\ entries' = <<>> /\ m_flushed' = FALSE
  /\ UNCHANGED handle

\* stage_all_entries_for_resave(): load and mark every entry up to the first one
\* that cannot be loaded; whether wrong bytes decode is the decoder's choice.
CanStop(i) ==
  /\ entries[i].data = Unloaded
  /\ \/ OnDisk(entries[i]) \in {Absent, Junk}
     \/ "outage" \in Perils /\ m_filename \in Remote
MustStop(i) == entries[i].data = Unloaded /\ OnDisk(entries[i]) = Absent
\* A mutant: only changed entries count.
StagedNothing(n) == entries

\* The entries once the first n are staged.
Staged(n) ==
  [i \in DOMAIN entries |->
     IF i > n THEN entries[i]
     ELSE [entries[i] EXCEPT !.dirty = TRUE,
             !.data = IF @ = Unloaded THEN OnDisk(entries[i]) ELSE @]]

StageAll == \A i \in DOMAIN entries : ~MustStop(i)

\* save_to() and write_bytes() when the staging throws: m_flushed is untouched.
StageFails ==
  /\ isOpen /\ {"save_to", "write_bytes"} \cap Perils # {}
  /\ \E n \in DOMAIN entries :
       /\ CanStop(n)
       /\ \A i \in 1 .. n - 1 : ~MustStop(i)
       /\ entries' = Staged(n - 1)
  /\ UNCHANGED <<disk, isOpen, handle, m_flushed>>

\* save_to() when the target is refused before flush(): no S3 credentials.
SaveToUnauthorized ==
  /\ isOpen /\ {"save_to", "refused"} \subseteq Perils
  /\ StageAll
  /\ entries' = Staged(Len(entries)) /\ m_flushed' = FALSE
  /\ UNCHANGED <<disk, isOpen, handle>>

\* A mutant: save_to() onto the file of a read-only handle.
SaveToAnywhere(target) ==
  /\ isOpen /\ "save_to" \in Perils /\ target \in Files
  /\ StageAll
  /\ \E o \in FlushOutcomes(Staged(Len(entries)), target) :
       disk' = o.disk /\ entries' = o.entries /\ m_flushed' = o.flushed
  /\ UNCHANGED <<isOpen, handle>>

\* save_to(): the flush of every entry while m_filename is the target.
SaveTo(target) ==
  /\ isOpen /\ "save_to" \in Perils /\ target \in Files
  /\ ~(target = m_filename /\ m_file_mode = ReadOnly)
  /\ StageAll
  /\ \E o \in FlushOutcomes(Staged(Len(entries)), target) :
       disk' = o.disk /\ entries' = o.entries /\ m_flushed' = o.flushed
  /\ UNCHANGED <<isOpen, handle>>

\* write_bytes(): m_flushed is saved after the staging has cleared it, and
\* restored; dirty flags and positions stay as the capture left them.
WriteBytes ==
  /\ isOpen /\ "write_bytes" \in Perils
  /\ StageAll
  /\ disk' = [disk EXCEPT ![Memory] = ImageOf(Staged(Len(entries)), m_filename)]
  /\ entries' = Cleaned(Relaid(Staged(Len(entries)), m_filename))
  /\ m_flushed' = FALSE
  /\ UNCHANGED <<isOpen, handle>>

\* The process dies between two calls: memory is gone, no destructor runs.
Crash ==
  /\ isOpen /\ "crash" \in Perils
  /\ isOpen' = FALSE /\ entries' = <<>> /\ m_flushed' = FALSE
  /\ disk' = [disk EXCEPT ![Memory] = Absent]
  /\ UNCHANGED handle

\* The process dies while flush_internal() writes the truncated local file.
CrashInFlush ==
  /\ "torn" \in Perils
  /\ isOpen /\ m_file_mode = ReadWrite /\ ~m_flushed /\ m_filename \notin Remote
  /\ \E cut \in Cuts(ImageOf(entries, m_filename)) :
       disk' = [disk EXCEPT ![m_filename] = [ImageOf(entries, m_filename) EXCEPT !.length = cut],
                            ![Memory] = Absent]
  /\ isOpen' = FALSE /\ entries' = <<>> /\ m_flushed' = FALSE
  /\ UNCHANGED handle

Next == \/ \E p \in Files, c \in Codecs : Create(p, c)
        \/ \E p \in Paths, md \in {ReadOnly, ReadWrite} : Open(p, md)
        \/ \E p \in Paths : OpenUnreadable(p)
        \/ \E k \in Keys, v \in Vals : Put(k, v)
        \/ \E k \in Keys : Get(k)
        \/ Flush
        \/ Destroy
        \/ StageFails
        \/ \E p \in Files : SaveTo(p)
        \/ SaveToUnauthorized
        \/ WriteBytes
        \/ Crash
        \/ CrashInFlush

Spec == Init /\ [][Next]_vars

--------------------------------------------------------------------------------
(* What must hold.                                                         *)

\* The value get() returns for an entry, and the map the handle shows.
ValueOf(e) == IF e.data = Unloaded THEN OnDisk(e) ELSE e.data
View == [k \in Keys |-> IF HasKey(entries, k)
                        THEN ValueOf(entries[Lookup(entries, k)]) ELSE Missing]

\* The map a new reader finds in a file whose header is whole (of a file cut
\* within it: the arrays where the lost index had them).
FileView(image) ==
  [k \in Keys |->
     IF HasKey(image.stored, k)
     THEN LET s == image.stored[Lookup(image.stored, k)]
          IN ReadArray(image, s.pos, s.size, s.codec, s.blocks)
     ELSE Missing]

\* Types of the variables.
TypeOK ==
  /\ disk \in [Paths -> {Absent} \cup Image]
  /\ isOpen \in BOOLEAN
  /\ m_filename \in Paths
  /\ m_file_mode \in {ReadOnly, ReadWrite}
  /\ m_config \in Codecs
  /\ m_flushed \in BOOLEAN
  /\ entries \in Seq(Entry)

\* flush_internal() indexes m_data_storage with data_indices[i] of every dirty
\* entry, without a check: a dirty entry must be loaded (SIZE_MAX otherwise).
DirtyIsLoaded == \A i \in DOMAIN entries : entries[i].dirty => entries[i].data # Unloaded

\* m_key_to_index finds every entry: no key has two, as long as no file is cut
\* within its header.
OneEntryPerKey ==
  {"partial", "torn"} \cap Perils = {} =>
    \A i, j \in DOMAIN entries : entries[i].key = entries[j].key => i = j

\* In every file, complete or cut short, the arrays follow the header in the order
\* of the index without overlap: what flush_internal() copies into the image is
\* never overwritten by what it copies later.
LaidOut(image) ==
  \A i, j \in DOMAIN image.stored :
    /\ HeaderSize(Len(image.stored)) <= image.stored[i].pos
    /\ i < j => image.stored[i].pos + image.stored[i].size <= image.stored[j].pos
WellLaidOut == \A p \in Paths : disk[p] # Absent => LaidOut(disk[p])

\* get_slice() accepts an entry that has blocks and always reads the file: it
\* must find there the array that get() returns, cached or not.
SliceReadsWhatGetReturns ==
  \A i \in DOMAIN entries :
    entries[i].blocks => OnDisk(entries[i]) = ValueOf(entries[i])

\* The next flush of a writable handle saves the arrays it shows, those copied
\* from the old file included.
FlushSavesView ==
  isOpen /\ m_file_mode = ReadWrite => FileView(ImageOf(entries, m_filename)) = View

\* When m_flushed makes close() a no-op, the file already holds the view.
FlushedIsSaved ==
  isOpen /\ m_flushed /\ m_file_mode = ReadWrite =>
    disk[m_filename] # Absent /\ HeaderWhole(disk[m_filename]) /\ FileView(disk[m_filename]) = View

\* The handle keeps the promise of StarCatalog.
Catalog == INSTANCE StarCatalog WITH
  view <- IF isOpen THEN View ELSE Absent,
  saved <- [p \in Paths |-> IF disk[p] = Absent THEN Absent ELSE FileView(disk[p])],
  file <- m_filename,
  mode <- m_file_mode,
  Crashes <- "crash" \in Perils
RefinesCatalog == Catalog!CatSpec

\* A handle opened for reading never changes its file, whatever is put, saved
\* elsewhere or captured.
ReadOnlyUntouched ==
  [][isOpen /\ m_file_mode = ReadOnly /\ m_filename \in Files =>
       disk'[m_filename] = disk[m_filename]]_vars

\* Serving a copy does not change what the handle reads: only put() does, and a
\* flush() that fails (its arrays are then looked for where they were to be).
OnlyPutChangesView ==
  [][/\ isOpen /\ isOpen'
     /\ ~(\E k \in Keys, v \in Vals : Put(k, v))
     /\ ~(Flush /\ ~m_flushed')
     => View' = View]_vars

\* An array becomes clean only when a store has received it; a local write that
\* stopped early, which the code does not notice, may have lost it.
CleanOnlyAfterStored ==
  [][isOpen /\ isOpen' =>
       \A k \in {k \in Keys : HasKey(entries, k)} :
         LET i == Lookup(entries, k)
         IN entries[i].dirty /\ ~entries'[i].dirty =>
              \E p \in Paths :
                /\ disk'[p] # Absent
                /\ FileView(disk'[p])[k] \in {entries[i].data, Absent}]_vars

\* A write of the local file that dies or stops early behind the header may lose
\* arrays, but what it leaves never lies: an array that was changed, or that the
\* old file still held where the handle looks for it, is there with its value or
\* unreadable.  Nothing like it holds of a file cut within its header, which
\* open() accepts with any index (Misread).
TornFlushNeverLies ==
  [][/\ isOpen /\ m_filename \notin Remote /\ disk'[m_filename] # disk[m_filename]
     /\ disk'[m_filename] # Absent /\ HeaderWhole(disk'[m_filename])
     => \A k \in {k \in Keys : HasKey(entries, k)} :
          LET e == entries[Lookup(entries, k)]
          IN e.dirty \/ OnDisk(e) \in {ValueOf(e)} \ {Absent} =>
               FileView(disk'[m_filename])[k] \in {ValueOf(e), Absent}]_vars

\* open() throws for a file that is corrupt, says its comment (stards.h:7403): no
\* handle shows arrays of a file that has lost part of its index.
OpenRefusesCutIndex ==
  [][~isOpen /\ isOpen' /\ disk[m_filename'] # Absent /\ disk' = disk
     /\ (m_filename' \notin Remote) => HeaderWhole(disk[m_filename'])]_vars

\* What save_to() and write_bytes() produce reads back as the view, for a handle
\* whose arrays all carry the codec it writes with.
DumpIsView(path) == FileView(disk'[path]) = View
DumpsRoundTripInOneCodec ==
  [][(\A i \in DOMAIN entries : entries[i].codec = m_config) =>
       /\ WriteBytes => DumpIsView(Memory)
       /\ \A p \in Files : m_flushed' /\ SaveTo(p) => DumpIsView(p)]_vars
================================================================================

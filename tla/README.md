# StarDS in TLA+

StarDS is a C++ library (one header, `src/StarDS/include/stards.h`) for files that
hold named n-dimensional arrays, with layers, metadata and block compression, read
and written locally, in memory, over HTTP or in S3. This directory models the parts
of it whose correctness depends on the order of things, checks them with TLC and
proves some of the results with TLAPS. Line numbers are those of `stards.h`.

## Inventory

| Component | State | Operations | What makes it correct |
|---|---|---|---|
| **Dataset persistence** (`StarDataset`, 5178-7969) | columns `m_hot`, `m_cold` (one row per array: key, dirty flag, index of the loaded data, position, size, codec, block list), `m_filename`, `m_file_mode`, `m_config`, `m_flushed` | `create`, `open`, `open_bytes`, `put`, `get`, `flush`, `save_to`, `write_bytes`, `close`, destructor | what was put is what a later reader gets, whatever was flushed, copied, captured and reopened in between |
| **Layers and metadata** (1024-1124, 5494-6397, 7670-7841, 9343-9860) | key registry, layer registry with the keys of each layer, a presence bitmap per layer, one lazily loaded metadata block per layer | `LayerView` put, get, contains; `create_layer`; metadata put, get, remove, clear | layers do not disturb each other; header, bitmaps and blocks agree whatever was loaded when |
| **Thread pool** (4088-4212, `prefetch` 8053-8138) | task queue, workers, condition variable, futures, `stop` | `enqueue`, `parallel_for`, `prefetch`, destructor | every call comes back after its tasks; no task outlives what it refers to; the destructor ends |
| **Dataset lock** (`m_mutex`, 5182) | a shared mutex | nearly every public operation; `get` gives it up and takes it again; `LayerView::put` takes it three times; `get_layer` takes it twice at once; `get_slice` not at all | what was checked under one hold still holds, or is checked again, under the next; every call returns |
| **Slicing** (8222-9273) | none | block map, extraction plan, reading, extraction | a slice is the elements of the array, from the blocks that were read |
| **Block codec** (963-990, 4269-4816) | none | split, shuffle, compress, and back | decoding inverts encoding, for every size and block size |
| **Range readers** (2992-3600, `reader` 5256) | mapping, cached object, region of the signer | `read_at`, `ensure_whole_cached`, `signed_get` | a short or failed answer is never taken for data; what is cached is the object; every call ends |
| **Encoding** of header, registries, index entries (332-384, 1326-1464, 5494-6001) | none | write, read | what is written can be read; counts fit their width |
| **Values**: `NDArray`, `ValueVariant`, paths | contents | accessors | - |
| **Credentials, S3 writer, signing** (2140-2550, 2688-2845) | credentials of the handle | `resolve`, `putObject` with one retry | an upload counts as done only when it is stored |
| **Tools** (`src/bin`), **bindings** (`src/bindings`), **site, notebooks, build** | none of their own | convert arguments and call the header | - |

How they interact. A `StarDataset` calls the codec to compress in `flush_internal()` and
to decompress in `load_entry()`, both through `parallel_for()` of its own pool; reads go
through one `RangeReader` that is dropped after every flush; a `LayerView` holds the
dataset and calls its `put()` and `get()` with a prefixed key, then
`set_layer_presence()`; the metadata accessors work on the dataset's registries under its
mutex. A flush always rewrites the whole file: header, metadata blocks, arrays.

What is hard to test, and where it bites, is the list `hazards` of `PROJECT.json`. The
themes: state that a flush for *another* destination leaves behind (`save_to`,
`write_bytes`); arrays that are copied from the old file while the layout moves; sinks
that fail, stop early or die; metadata that is in memory, on disk, or listed only; calls
of several threads that share the pool and the mutex.

## Modules

| Module | What it is |
|---|---|
| `StarCatalog` | abstract specification: a handle shows a map from keys to arrays, every file holds a map, flush and close copy the one to the other |
| `StarDataset` | the persistence life cycle of one handle, with files, layout, faults; implements `StarCatalog` |
| `MCStarDataset` | constants for TLC: compressed sizes, misread entries, key symmetry, constraints |
| `Layers`, `MCLayers` | layers, key registry, bitmaps, metadata blocks |
| `Pool`, `MCPool` | thread pool, `parallel_for`, `prefetch`, destructor |
| `DatasetLock`, `MCDatasetLock` | threads on one handle under `m_mutex`; implements `StarCatalog` as well |
| `Remote`, `MCRemote` | range readers, whole-object cache, S3 writer and credentials against a store with faults |
| `Header`, `MCHeader` | the header of a file, field by field, written and read back |
| `Numbers` | sums and ascending order, for the modules below |
| `Codec` | byte shuffle, partition into blocks, decoding, the string stream |
| `Slicing`, `MCSlicing` | `get_slice` over `Codec` |
| `Facts` | lemmas for the proofs: quotients, intervals, sums, ascending order, parts of sequences and sequences joined |
| `StarDataset_proofs`, `Layers_proofs`, `Pool_proofs`, `DatasetLock_proofs`, `Remote_proofs`, `Slicing_proofs` (with `Codec`), `Header_proofs` | theorems and proofs |

How they fit together. `StarCatalog` is what a caller may rely on: a map from keys to
arrays, saved by flush and close. `StarDataset` implements it with one caller and the whole
file; `DatasetLock` with many threads, where a flush and a load are one step because the
mutex is held over them. `Pool` is inside one such step (`prefetch` holds the mutex over
`parallel_for`-like calls), `Codec` inside the compression of an array, `Remote` below every
read and below the sink of a flush of `StarDataset`, whose fault actions (`refused`,
`outage`) are the failures `Remote` can end in, and `Header` is the part of the image that
`StarDataset` takes as a number of bytes and `Layers` as registries. A composition in one
module would multiply state spaces without a new interaction: the mutex, the file image and
`read_range()` are the only places where these parts meet.

### StarDataset

`entries` is `m_hot` and `m_cold` together, in the order of the columns; an entry has the
key, the dirty flag, the data (`Unloaded` for `data_indices[i] = SIZE_MAX`), position,
size, codec tag and whether it has blocks. `disk[p]` is what path `p` holds: the index
entries with the position, size and codec tag the header gives, the bytes that were
copied to that position, and the length of the file. Bytes remember the array and the
codec that made them; reading anything else than exactly one stored block list (a range
that was overwritten, a position between arrays, another codec) gives `Junk`, a range
beyond the length gives `Absent`. `Memory` is a path as well: the byte vector of
`write_bytes()` and `open_bytes()`.

| Action | Code |
|---|---|
| `Create`, `Open`, `OpenUnreadable` | `create` 7378, `open` 7405, `open_bytes` 7487, constructor 7521, `loadIndex` 5557. `create` removes an existing *local* file only. `open` looks only at the fixed fields (5580); of a header that is cut behind them it takes what there is for an index (5608-5650): `Indexes` and `Misread` below. It always has the default configuration, so a file written with another codec keeps that codec's tags |
| `Put` | 7853: an existing entry is reused, its block list cleared, its tag set to `m_config.compression`, its old size kept |
| `Get` | 7989 and `load_entry` 5433, for an array that is not loaded |
| `Flush`, `Destroy` | `flush` 6582, `close` 7628, destructor 7610, `flush_internal` 6614-7174: `Compressed` (phase 3a), `Positions` (3b), `ImageOf` (3d, 3e), `FlushOutcomes` (3f and the end) |
| `SaveTo`, `SaveToUnauthorized`, `StageFails` | 7209-7245 and `stage_all_entries_for_resave` 7196; the build with S3 (the build without lacks the guard for read-only handles) |
| `WriteBytes` | 7297 |
| `Crash`, `CrashInFlush` | the process ends between two calls, or while the truncated local file is being written |

Events that not every instance includes are listed in the constant `Perils`: `crash`, `save_to`
and `write_bytes` because what they leave behind breaks promises the rest keeps (see
Findings), and the faults `refused`, `locked`, `partial`, `torn`, `outage`. A write that
stops early (`partial`, `torn`) leaves a prefix of the new image, cut within the fixed fields,
within the header, behind it or before an array.

A file whose length is less than its header still opens, unless even the fixed fields
(`FixedBytes`) are cut. `loadIndex()` copies `m_header_size` bytes out of a shorter initial buffer
(5627) or takes a short second read as it is (5622), so the index it finds is not determined by
the file: as many entries as the header counts, or up to `MaxCount` when the count is cut too,
each either one the writer wrote or any of `Misreads`, a clean entry of which the code determines
neither key nor place nor size. A parse that throws is the other outcome. Nothing is promised of
such a file.

### Layers

`arrays` is the array list with names. `StorageKey[l][k]` is how the name is spelled: the key for
the base layer (`Plain(k)`, also the name metadata uses), `__layer_<l>__:k` for another. The code joins
the parts without escaping (9352, 9387), so two layers' names may be spelled the same, and in
the instance for TLC they are: the base key `k2` is the array `k1` of the layer. `m_key_registry` the
names used so far, `layers` one record per layer: bitmap words and bits, the listed
metadata keys, whether the file has a block, whether it is loaded, and the loaded map.
`WordBits` (64 in the code) and `RegistryLimit` (65536) are parameters, so that TLC
meets both limits. The bytes of arrays are `StarDataset`'s business: here an array is its
value and a flush is atomic.

| Action | Code |
|---|---|
| `Create`, `Open`, `Flush`, `FlushThrows`, `Destroy`, `Crash` | as above; `LoadIndex` 5660-5821; serializing 5921, 6989-7087 |
| `Put` | 7853-7969, with the order that leaves a nameless array when the registry is full |
| `LayerPut` | `LayerView::put` 9379 with both calls of `set_layer_presence` 7670, as one step (of one thread) |
| `CreateLayer` | 9593 |
| `MetaPut`, `MetaRemove`, `MetaClear` | `MetadataAccessor` 9432, 9522, 9559 |
| `LayerMetaPut`, `LayerMetaGet`, `LayerMetaRemove` | `LayerMetadataAccessor` 9626, 9680, 9767, with the lazy loading that put and get do and remove does not |

### Pool

`call[t]` is the call of thread `t`: kind, number of tasks, the task it is at, and whether
it is about to enqueue, to notify or to wait. `queue`, `worker`, `stop` are the members of
`ThreadPool`; `future` holds the outcomes of finished tasks whose call is still there. The
steps are those between two lock operations: `Enqueue` (with the mutex), `Notify` (after
it), `Wait` (`future.get()`), `Check` (a worker with the mutex: take, leave or sleep),
`RunTask`, `WakeSpuriously`, and `Stop`, `NotifyAll`, `Join` of the destructor.
`prefetch()` holds the dataset's exclusive lock, so one runs at a time, but `get_slice()`
calls `parallel_for()` without a lock, so calls share the pool. With `CanFail`, tasks
throw, and the reads of `prefetch()` come back short.

### DatasetLock

The threads share `data` (the loaded array of each name, `Unloaded` when it is only in the
file, `Missing` when there is no such array), the layers, the presence bits by name,
`m_flushed`, and the file in two parts: `file`, its arrays, and `header`, its layers and
bitmaps. `held[t]` is what thread `t` holds of `m_mutex`; `todo[t]` is the list of critical
sections its call still has to run. A section acts in one step while the thread holds the
mutex; `Acquire` is a step of its own, so other threads come in between. `Shared` says which
sections lock shared; `CanShare` is the mutex, with `WriterFirst` for the two policies the
standard leaves open. `seen[t]` is history: the arrays the looked-up name has had since the
lookup began.

| Action | Code |
|---|---|
| `FindSection`, `LoadSection`, `AnswerSection` | the up to three holds of `get` 7989-8021: index and type check under the shared lock, `load_entry` under the exclusive one after looking again, `std::get` under the shared one |
| `PutArray` | `put` 7853-7969 |
| `LayerPut` | `LayerView::put` 9379-9403: `put`, the bit of the base layer cleared, the bit of the layer set |
| `LayerGet`, `Fail` | `LayerView::get` 9343: every `runtime_error` leads to the base array, with inheritance |
| `SetLayerPresence` | 7670 |
| `CreateLayer`, `HasLayer`, `GetLayer` | 9593, 9584 (a recursive shared lock) |
| `Prefetch` | 8053, with the lock held throughout |
| `Flush`, `Destroy` | `flush` 6582, destructor 7610, which runs when no thread is in a call |

### Remote

The module is one handle and its object. `object` is the version the store holds, `home` the
region of the bucket; bytes carry the version and offset they come from, so that a wrong range,
a mixture of versions or an error page shows. `kind` picks the reader: `local` (mapped
file), `http` (libcurl, which does not look at the status), `fetch` (HTTP in the WebAssembly
build, which does) and `s3`. `call` is the `read_range()` or `putObject()` under way, with
its stage (make the reader, ask for the first bytes for the cache, ask for the range) and
attempt. The store may lose a request or its answer, be busy, answer a range with the
whole object, redirect to another region with or without naming it, hold another version at
each request, refuse expired credentials (`Faults`), or never answer: a step that needs an answer
(`Requests`) is never obliged to happen. `since` is history: the versions the object has had since
the handle's last flush and since its reader was made.

| Action | Code |
|---|---|
| `CreateReader`, `ReadWithoutRequest` | `reader` 5256, `LocalRangeReader` 2992-3096, `serve_from_cache` |
| `Get`, `Taken`, `IsWhole`, `Redirected`, `Followed` | `read_at` and `ensure_whole_cached` of the HTTP readers 3126-3260 and of S3 3296-3600, `signed_get` with its one retry |
| `LoadIndex`, `After`, `Accept` | who uses the bytes: `loadIndex` 5557-5789 with its second request for a long header, `load_entry`, `readBlocks` |
| `PutObject`, `PutDone`, `DropReader` | `S3Writer::putObject` 2688-2845, the end of `flush_internal` 7152 |
| `Open`, `BeginRead`, `Flush`, `Close`, `Resolve`, `ReadToken` | the calls of the handle, the credential chain 2140-2550 |
| `Replaced`, `Moved`, `Expire` | the world outside |

### Header

`handle` is the registries, bitmaps and index columns in memory, `file` the sequence of
fields a flush wrote, each with its size, between the counts of the fixed part. `Fields` is
the order of writing (6989-7087), `ReadIndex` reads the fields back by counting (5626-5821),
with 16 bit lengths (`Length16`, `Spelt`: a name too long is cut to the name its first bytes
spell) and the limits of `IndexEntry::read` (1326-1446). `HeaderSize` is computed from the
blocks before compression (5494-5555, 6657); `Flush` throws "too long" if the fields need
more. A file is kept until the handle that wrote it goes on: only a flush writes it, so when
it is opened makes no difference.

### Codec and Slicing

`array` is one stored array: shape, prefilter (`plain`, `global`, `block`), element size,
what was put, and its blocks; `answer` is the answer to the last question. The bytes of an
array are 0, 1, 2, ...: the code never looks at a byte, so when each of these is in its
place, any bytes would be. A base codec turns a block into its compressed bytes and back
and is left out.

| Definition | Code |
|---|---|
| `byte_shuffle`, `byte_unshuffle`, `OnWholeElements`, `EachChunk` | 600-613, 897-990 and the loop in `get_slice` 8436; the scalar kernels, which 590 calls the reference for the SIMD ones |
| `compressBlocks`, `decompressBlocks` | 4270-4516, 4544-4816 |
| `serialize_array_data`, `decode_array_bytes`, `serialize_strings` | 5893, 5373, 5829 |
| `Accepted`, `Normalized`, `is_contiguous`, `is_full_rows` | `createSliceSpec` 8694 |
| `Span`, `createBlockMap`, `readBlocks` | 8770, 9103. The blocks are always consecutive, so the second half of `readBlocks` is never reached |
| `RowStarts`, `createExtractionPlan`, `extractElements` | 8905, 9204: the four cases of the plan are one, rows cut at the ends of blocks |
| `StepFilter`, `SliceOfNumbers`, `SliceOfStrings`, `is_sliceable` | `get_slice` 8222-8521, `is_sliceable` 8540 (which only `SliceableSupportsSlices` below uses) |
| `PutNumbers`, `PutStrings`, `GetNumbers`, `get_slice` | a client's calls; the file is written and read in between |

## Runs

| Run | Instance | What it shows |
|---|---|---|
| `core` | 1 local file, 2 keys, 3 arrays (one empty), 2 codecs, no perils: not even a crash, so that a handle that goes has to save | `StarDataset` implements `StarCatalog` (`RefinesCatalog`); a flush always saves what the handle shows, arrays copied from the old file included (`FlushSavesView`); a skipped flush had nothing to save (`FlushedIsSaved`); files are laid out without overlap; a dirty entry is loaded; a slice reads what `get()` returns |
| `save_as` | 2 local files and the memory image, 2 keys, 2 arrays (one empty), two at a time while there is no copy and one beside a copy; `save_to` to either file, `write_bytes` and `open_bytes` at any moment, refusals and crashes | a read-only handle's file stays, the handle shows what it showed, the copy or image reads back |
| `faults` | a local file or an S3 object, 2 keys, 2 arrays (one empty); refused, locked, short and torn writes, an outage, crashes; files cut anywhere, and opened with any index when the cut is within the header | an array is clean only when a store has received it; a file cut behind its header has each array's value or nothing readable, never another value. Of a file cut within its header nothing is promised, and `TornHeader.cfg` shows why |
| `layers` | base and one layer, 2 keys of which one is spelled like the other's array in the layer, 2 values, words of 1 bit, 2 names in the registry | bitmaps fill exactly the words of the header; listed keys and metadata agree; a flush fails only after a put into a full registry; what is saved is what is shown, presence bits included; a layer's arrays, keys and metadata change only by its own calls and by a put under a name spelled the same; what `contains()` confirms, `get()` returns |
| `pool` | 2 threads with one call each of up to 3 tasks, 2 workers, failures | no task outlives the frame of a call that returned; the destructor drains the queue; every call comes back; the destructor ends |
| `slicing` | numbers in ten shapes of up to three dimensions (and one of four), elements of 1 and 2 bytes, blocks of 1 to 9 bytes, all prefilters; three columns of strings; all slices in bounds with steps of 1 to 3, and slices just out of bounds | a slice is the elements it names, whatever the blocks and the configuration of the reader, from no block before the first or behind the last that holds one (`SliceIsReference`); `get()` returns what was put for every block size (`GetReturnsWhatWasPut`); the answer has the size of its shape |
| `locks` | 2 threads with 2 calls each, 1 key, 1 layer, 2 arrays of two element types, every initial file; reads may fail | the calls of the threads behave as calls of one caller on the catalog (`RefinesCatalog`); `get()` answers with an array the name had during the call (`AnswersComeFromTheCall`); no array is left that no layer lists (`EveryArrayHasALayer`); every call returns |
| `remote` | an object that is absent or one of 3 versions of 3, 4 and 7 bytes, the initial read 3, the threshold 4; all four readers, 2 regions, all faults | the cache is one whole version (`CacheIsTheObject`); accepted bytes are of the object, in place, and no older than the reader and the last flush (`RangesAreOfTheObject`); an upload that ends a flush is stored (`SavedMeansStored`); every call whose requests end does so, also when the redirect redirects (`CallsEnd`) |
| `header` | 2 names, one too long for its length field, a layer, counts up to 2, bitmap words of 2 bits, 3 arrays of up to 3 blocks, 2 block sizes | what a flush writes reads back as it was, when the format can hold it (`ReadsBackWhatWasWritten`); the fields fit the space computed for them (`HeaderFits`) |
| `capture_loses_arrays`, `pool_dangling`, `header_lost` | the smallest instances of the above | the findings below |

Bounds, and why they are enough. The state of `StarDataset` is finite without a bound on
calls: two keys give every relation between arrays (before, after, replaced, moved), two
arrays of different sizes and an empty one make a change of an earlier array move a later
one, two codecs make tag and contents differ, and `MCWeight` gives every pair its own
size, so that a wrong position never looks right by chance. `save_as` needs two keys for a
staging that fails after it has marked an entry; `MCOneArrayBesideCopy` keeps only one array
once there is a copy, as the relations between arrays are those of `core`. The faults run
has one codec, as codecs play no part in a torn write. `FixedBytes` is less than the header of an
empty file, so that a cut falls before, at and behind the fixed fields and the counts; `MCMisreads`
are entries at the place of either array and one with blocks and no bytes, and `MaxCount` of two
gives an index with a key twice. `MCOneFile` has one of the two files at a time and `MCTwoEntries`
no more entries than keys. In `Layers` a word of one bit makes
each put cross a word boundary, and a registry of two names is full after two keys; the values
of arrays differ, so that one that is overwritten shows, and metadata have one, as their keys
are what is compared. `MCTwoArrays` bounds the array list; the step that exceeds it is still checked. In
`Pool`, `MaxTasks` bounds the tasks of a call and `MaxCalls` the calls of a thread: two
workers and three tasks give a worker with a task of its own, a worker that takes a second
one, and tasks left behind by a call that threw, which the other thread's call then meets in
the queue. In `Slicing`, seven elements of two bytes in blocks of 1 to 9 bytes give slices
that start, end and lie within, at, and across block ends, a short last block, rows that
cross blocks and blocks that hold several rows; with three dimensions every combination of
full and partial ones is there. `MaxStep` bounds the steps: three exceeds every extent but
the longest. In `DatasetLock` two calls per thread give a layer that is created, put into,
flushed and read in all interleavings with the other thread, and a `get()` that another
thread's put of the other type hits at each of its three holds; more threads and calls are
left to the proofs, which have no bound. In `Remote` a version is shorter than, as long as,
and longer than what is asked for first, its header fits the initial read or not, and one
version is just as long as some range that is asked for; the error page is shorter than the
threshold. `Header` needs names on both sides of the length limit, one array more than a
word has bits, as many names as the counts hold and one more, and one block more than the
limit.

Deadlock is checked where a handle can always be made anew (`StarDataset`, `Layers`, `Header`,
`Slicing`). It is not where the model may stop: after the bounded calls of `Pool` and
`DatasetLock` (there `CallsReturn` says that no call is stuck), and in `Remote` with no object
behind a closed local handle.

Fairness. `StarDataset`, `Layers`, `Slicing` and `Header` state none: nothing in them runs by
itself, so nothing must eventually happen, and a caller may stop at any time. `Pool` has weak
fairness for a caller inside a call, a worker that is awake and the destructor: they are
threads of the operating system, which runs every thread that can run, and the mutex is
held for bounded work only. There is none for starting a call, for a failure, or for a
spurious wake-up; liveness must not depend on those. `DatasetLock` has weak fairness for each
thread inside a call, for the same reason: a mutex that stays free is granted, and none that
it is granted to anyone in particular. `Remote` has weak fairness for the steps of a call that
need no answer, and no more: the code sets no time limit on a transfer (1661-1664, 2625-2639,
3184-3196, 3427-3435) and libcurl has none of its own, so a server that accepts a request and stays
silent holds the call for ever. That requests end is therefore not assumed of the code but the
condition of the property: `CallsEnd` is `RequestsEnd => ...`, and says that no answer, redirect or
lost request makes a call go round for ever. Nothing is assumed of what the answers are: the store may
fail, redirect and change for ever.

## Findings

Three runs show a disagreement between the code and its own comments:

* `capture_loses_arrays`: `write_bytes()` clears dirty flags and moves positions and puts
  only `m_flushed` and the mode back. `create`, `put`, `write_bytes`, `close` leaves a file
  without the array, although the comment at 7304 says that the dataset is unchanged.
* `pool_dangling`: `prefetch()` and `parallel_for()` throw while tasks that refer to their
  locals are still in the pool (8101, 4151; comments at 8050 and 4086).
* `header_lost`: `loadIndex()` does not look at how much of a long header its second request
  returned (5622), and `open()` returns a handle without the entries of the object, whose
  last flush then replaces it (comment at 7403).

Others are stated as properties that no run expects; TLC violates each with the configuration
named:

* `SaveAsLosesChanges.cfg` (`FlushedIsSaved` of `StarDataset`): `save_to()` another file sets
  `m_flushed`, so `close()` does not write the pending changes to the own file (comment at 7608).
* `RemoteCopiesZeros.cfg` (`FlushSavesView`): a flush of an S3 dataset copies unchanged arrays
  through an `ifstream` on the `s3://` name, which fails silently, and uploads zeros (6950-6957).
* `LayerKeysUnlisted.cfg` (`ContainsWhatItHolds` of `Layers`): an array that only a layer has
  is readable but not listed: `contains()` and `keys()` of the layer miss it (7678-7689, doc
  at 5112).
* `LocksPresenceLost.cfg` (`DestructorSavesAll` of `DatasetLock`): `set_layer_presence()` does
  not reset `m_flushed` (7670), so a flush of another thread between the sections of
  `LayerView::put()` is the last, and the bit of the layer is never written (comment at 7602).
* `LocksFallback.cfg` (`FallsBackOnlyWhenMissing`): `LayerView::get()` takes every
  `runtime_error` for a missing array, so that a failed read of the layer's array returns the
  array of the base layer (9343, comment at 9359).
* `TornHeader.cfg` (`OpenRefusesCutIndex` of `StarDataset`): a local file whose write was cut within
  the header opens, with an index of whatever was there (5580-5650, comment at 7403).
* `LayersCollide.cfg` (`LayersAreIsolated` of `Layers`): a base `put()` under a key spelled
  `__layer_<l>__:k` changes the array `k` of layer `l` (9352, 9387, `src/README.md:583`).
* `SliceableRefused.cfg` (`SliceableSupportsSlices` of `Slicing`): `is_sliceable()` is true for arrays of
  four dimensions, of which `get_slice()` refuses every slice (8540, comment at 8531). The same goes
  for arrays whose blocks are smaller than an element, and for empty columns of strings.
* `HeaderLimits.cfg` (`WhatIsWrittenCanBeRead` of `Header`): the writer accepts more blocks
  and longer names than the reader takes (1417, 7031; for dimensions, 1397).

And some are conditions in a property that holds, which fails when the condition is dropped:

* `SliceIsReference` excludes block sizes that are no multiple of the element size (`Aligned`):
  `elements_per_block` (8784) is rounded down and `get_slice()` returns shifted elements and
  zeros, silently, while `get()` is right (seven elements of two bytes in blocks of three).
* `SliceIsReference` asks for steps of at least one: a step of zero is refused for strings only
  (8338), so the model does not ask for it of numbers.
* `TornFlushNeverLies` excludes files cut within their header, as above.
* `OnlyOwnCallsChangeALayer` counts a put under a name spelled the same as a call of the layer.
* `CacheIsTheObject` and `RangesAreOfTheObject` exclude the libcurl HTTP reader, which takes an
  error page for data (3182-3249). `RangesAreOfTheObject` also allows the reader that uses
  `fetch()` the whole of an object just as long as the range asked for: it does not tell 200
  from 206 (3139).
* `CallsReturn` of `DatasetLock` needs `WriterFirst = FALSE`: with a mutex that prefers
  writers, `get_layer()` (9584) and a waiting `put()` block each other.
* `DumpsRoundTripInOneCodec` is limited to handles whose arrays all carry the codec the handle
  writes with: otherwise the index keeps a tag that the recompressed bytes no longer match.

## Proofs

| Theorem | Statement |
|---|---|
| `Inductive` (`StarDataset_proofs`) | the inductive invariant, for any keys, arrays, codecs, sizes, paths and perils |
| `TypeCorrect`, `DirtyAlwaysLoaded`, `KeysUnique`, `FilesLaidOut` | `TypeOK`, `DirtyIsLoaded`, `OneEntryPerKey`, `WellLaidOut` of `StarDataset` |
| `HandleRefinesCatalog` | `StarDataset` implements `StarCatalog`, for any keys, arrays, sizes, codecs and local paths, with no failure but a death between two calls (`Undisturbed`) |
| `FlushAlwaysSavesView`, `FlushedIsAlwaysInFile`, `SliceAlwaysReadsTheArray` | `FlushSavesView`, `FlushedIsSaved`, `SliceReadsWhatGetReturns`, under the same condition |
| `ReadOnlyStaysUntouched` | `ReadOnlyUntouched`, a property of steps, in every instance with all its perils |
| `DumpsAlwaysRoundTrip` | `DumpsRoundTripInOneCodec`, a property of steps: what `save_to()` and `write_bytes()` produce, under all perils but `partial` |
| `CleanMeansStored`, `TornFileNeverLies` | `CleanOnlyAfterStored` and `TornFlushNeverLies`, properties of steps, under every fault, for S3 as for local files, without `save_to` and `write_bytes` (`NoCopies`) |
| `CopiesChangeNothing` | `OnlyPutChangesView`, a property of steps, with `save_to`, `write_bytes`, refusals, outages and crashes, on local files that are written whole (`WholeLocalFiles`) |
| `LayersInductive` (`Layers_proofs`) | the inductive invariant of `Layers`, for any word size and registry limit |
| `LayersTypeOK`, `BitmapsAlwaysFillHeader`, `MetaAlwaysMatchesHeader`, `FlushAlwaysSucceeds`, `FlushedIsAlwaysSaved`, `ContainsIsAlwaysReadable`, `OnlyOwnCallsChangeLayers` | the properties of `Layers` that the run `layers` checks, the last one about steps |
| `PoolInductive` (`Pool_proofs`) | the inductive invariant of `Pool`, for any number of threads, workers, calls and tasks |
| `PoolTypeOK`, `FramesOutliveTheirTasks`, `DrainedAtTheEnd` | the safety properties of the run `pool` |
| `LockTypeOK`, `LookupsAreAnswered`, `ArraysAreListed` (`DatasetLock_proofs`) | the invariants of the run `locks`, for any number of threads, calls, keys and layers |
| `ThreadsRefineCatalog` (`DatasetLock_proofs`) | `DatasetLock` implements `StarCatalog`: its initial states are initial states, every step a step of the catalog or a stutter |
| `RemoteInductive` (`Remote_proofs`) | the inductive invariant of `Remote`, for any versions, sizes, thresholds and faults |
| `RemoteTypeOK`, `CacheIsAlwaysTheObject`, `RangesAreAlwaysOfTheObject`, `UploadsAreStored` | the safety properties of the run `remote`, two of them about steps |
| `UnshuffleUndoesShuffle`, `BlockIsSelfContained` (`Slicing_proofs`) | shuffling loses nothing, for any count and size of elements, and for a block of any size on its own |
| `DecodeUndoesSerialize` (`Slicing_proofs`) | decoding the blocks of an array gives the bytes that were serialized, for every codec, element size and block size |
| `GetIsWhatWasPut` (`Slicing_proofs`) | `GetReturnsWhatWasPut`, an invariant of the run `slicing`, for any shapes, columns, element and block sizes and steps |
| `HeaderAlwaysFits`, `HeaderReadsBack` (`Header_proofs`) | `HeaderFits` and `ReadsBackWhatWasWritten`, the invariants of the run `header`, for any names, layers, shapes, word size, limits and widths |
| `SliceTypes`, `SliceIsWhatItNames` (`Slicing_proofs`) | `TypeOK` and `SliceIsReference` of the run `slicing`: every answer has the size of its shape, and is what the slice names, from no block before the first or behind the last that holds one |
| `LengthCountsSteps` (`Slicing_proofs`) | `Length` is the number of steps before the stop, for any slice |

Assumptions, evaluated by TLC in every run: for `StarDataset`, `SizesAssumption` (sizes are
natural numbers, zero for the empty array only, and the fixed fields are part of the header),
`NamesAssumption` (the special values are different from arrays) and `AbsentAssumption` (so is the
absence of a file from files, arrays and maps of them: the reader's `std::optional` or exception
is never an array) and `MisreadAssumption` (a misread entry is clean and not loaded: `loadIndex()`
enters no other); for `Layers`, `LayersAssumption`, its own `AbsentAssumption` and
`SpellingAssumption` (behind one layer's prefix, different keys give different names; nothing is
assumed of two layers); for `Pool`, `PoolAssumption` and `PcAssumption` (bounds are natural
numbers, the names of a thread's and a worker's places are different, and no worker state is a
task); for `DatasetLock`, `LockNamesAssumption`; for `Remote`, `RemoteAssumption` (a version is at
least as long as its header, a header as its fixed part, and the initial read and an error page
too); for `Slicing`, `SlicingAssumption` (a shape is a sequence of at least one number, sizes and
steps are positive, a column is a sequence of strings); for `Header`, `HeaderAssumption` (limits,
lengths and sizes are natural numbers, a word has a bit, a block a byte, and what a cut name
spells is a name).

The theorems about steps of `StarDataset` have a condition on its perils, each the weakest the
code justifies, and the runs `save_as` and `faults` are instances of them. None can be dropped: a
write that stops early unnoticed (`partial`) gives no copy to read back; after a copy, arrays
count as clean that the own file does not have (`NoCopies`); and where a read may fall into a
file cut short, `get()` throws and the view is not what it was (`WholeLocalFiles`).

Argument for `StarDataset`. That files are laid out is not inductive alone: a reopened
file becomes entries, and entries become the next file. `IInv` therefore says that every
image is typed and follows the order of its index behind its header, and that the entries are
typed, and loaded when dirty. That no key is there twice is part of it for as long as headers are
whole (`HeadersWhole`: neither `partial` nor `torn`), as a misread index may have any keys; that
its entries are typed and clean (`MisreadGood`) is all the rest needs. The core is the lemma
`PositionsFacts`: `Positions` is a recursive function, and its values follow from the
recursion by induction on an interval (`IntervalInduction` of `Facts`, a set form of
induction without an operator parameter); from it, each position is at least the header
size and at most its successor minus the array's size. A torn write keeps the index of
the image, so the same lemma covers it.

`HandleRefinesCatalog` needs a second invariant, `Held`: every file is whole (within its
length, each array with blocks compressed with the codec that its index names), a changed
entry has its array and the codec of the handle, and a clean entry is the index entry at the
same place of the file, so that what is loaded, read or copied for it is one array
(`KeptValue`). That an array with blocks has a size is what makes its place in the file its
own (`AtWhole`); `FlushWhole` then says that the image of a flush is whole and has what every
entry shows, and `FlushCopies` that the entries it leaves are copies again. `get()` loads and
`flush()` relays without changing the view, so they are a stutter and a step of the catalog.
The condition `Undisturbed` cannot be dropped: the findings above are what `save_to()`,
`write_bytes()` and S3 paths do to these properties.

The theorems about faults cannot use `Held`, as a torn file is not whole. `Honest` says nothing of
what files hold, as a misread index has entries that no file backs, and of a changed entry only
that it has the codec of the handle. That an array with blocks has a size is shown of the arrays
that are promised: those that were changed, and those that the old file held where the handle
looks for them. What a dying write leaves is the index of the image with some of its arrays
(`EndLeaves`), and layout puts at most one array at a place (`AtMostOne`), so what is read there
is the array of the entry or nothing (`PrefixNeverLies`), key by key: other entries of the same
handle may be misread ones. `Servable`, for copies, keeps less of the codec and more of the file:
every array of every file, and of every entry still to be loaded, lies within the length, under
whatever codec. So staging reads what the view shows, and neither a copy nor a staging that fails
on the way changes it.

Argument for `Layers`. The bitmaps' length alone is not inductive: `put()` with a full registry
appends an array but grows no bitmap. `IInv` says that while all arrays are named every bitmap has
exactly `Words(Len(arrays))` words and no bit beyond the arrays, the same of the file, that the
keys of a layer's metadata, in memory or in the block, are the listed ones, and that a layer that
is not loaded but listed has a block in the file. `FlushAlwaysSucceeds` is what these three give
together: the three reasons for `flush_internal()` to throw while serializing are excluded, except
for a nameless array. `FlushedIsAlwaysSaved` needs one more conjunct, proved over `IInv`: with
`m_flushed` the file is the image of memory, presence bits included, whatever was loaded since.
`ContainsIsAlwaysReadable` and `OnlyOwnCallsChangeLayers` need `BitsInv`, again with the same of
the file: a name has one array, and a layer whose bit is set for a base array has an array of that
key. A new array sets the bit of the base layer only, which is its own, and `put()` of a layer
moves the bit of the key it has just stored.

Argument for `Pool`. That a call returns after its tasks is not inductive: `Inv` adds that a
task is at one place only, in the queue or in one worker (`Once`), that a future is ready only
for a task that is at neither and whose call is still there (`Futures`), that a pending task
of a live call is one the call has enqueued (`Tasks`), and that a waiting call has met the
futures of all tasks before the one it waits for (`Waited`). When the last future is met, all
tasks of the call are ready, so none is pending. `Ending` ties the destructor to the workers: a
worker exits only with `stop` set and an empty queue, and nothing is enqueued after `stop`.

Argument for `DatasetLock`. `Calling` says what the rest of a call can look like (`Well`): a
bit that is taken away is followed by the bit that is set, and a load by its answer.
`Listings` and `EveryArrayHasALayer` follow from it for every interleaving. `Lookups` says that
a lookup under way has seen what the name has now, and an array of the type it asks for since
it found one: so a load between the two holds of `get()` never brings back an old array, and
`bad_variant_access` means a replaced one. For the refinement, every action is mapped: put,
flush and the destructor to the action of the catalog, everything else to a stutter, where
loads stutter because the view of an unloaded array is that of the file.

Argument for `Remote`. `Calling` says that only a handle with a reader is past its creation, and
that uploads are of an open S3 handle; `Reading`, that the version in the store is one of those
since the reader was made and since the last flush, and that only a local reader maps a file. A
flush that is stored drops the reader, so its cache and the history start anew together.
`KeptIsWhole` is the heart of it: an answer to the request for the first bytes that passes the
test of `ensure_whole_cached()` is the object, because it is either as long as the total that came
with it or shorter than what was asked for. `ServedInPlace` does the same for ranges from a
buffer.

Argument for `Codec`. Both directions are permutations given by quotient and remainder: byte
`b` of element `i` goes from `i * size + b` to `b * count + i`. `DivModOf` and `DivModIs` say
that quotient and remainder are unique, `PlaceOfByte` that both places are within the
buffer, and `LooksAtWholeElements` that the bytes after the last whole element take no
part. A whole array is its blocks joined. `IsCut` says what cutting means without recursion: every
chunk but the last is of the block size, and byte `j` of chunk `i` is byte `(i - 1) * bs + j` of
the buffer. Joining (`FlattenSeq`, a fold) gives a buffer of which the chunks are a cut, by
induction on sequences (`SequenceInduction` of `Facts`), and cuts and buffers determine each
other (`OneCut`, `OneBuffer`). A block keeps its length when its whole elements are shuffled, so
the shuffled chunks are the chunks of the shuffled buffer (`BlocksAreShuffledChunks`), and with
`WrittenBlockSize` the reader cuts where the writer did: `DecodeUndoesSerialize`.

Argument for `Slicing`. `GetInv` says that a stored array of numbers has the blocks of what was
put, and that the answer to `get()` is decoded from them; `SliceInv`, that the answer to a slice
is what `get_slice()` gave for one of the questions asked, and that a stored column has the blocks
of its stream, none when it is empty. An array of numbers with blocks has elements, and
`get_slice()` takes the size of the first for the block size (`BlocksHoldElements`).

What a served slice answers, `SliceIsReference`, is proved along the way of the code, in up to
three dimensions at once. A set of index tuples `t` is given by a first tuple and a step for
every dimension, and the place of each in the array is its flat index (`Place`). Flat indices
keep the order of tuples (`FlatOrder`) and meet every place once (`FlatRange`, `OneTuple`), so
the places of any such set in ascending order are those of its tuples in row-major order
(`AscendingPlaces`). The rows of a slice, the box around it, the steps in the box and the
elements that the slice names are four such sets (`RowsWithin`, `BoxWithin`, `PickedWithin`,
`NamedWithin`), and going from the array to the box and from the box to the steps is the same as
going at once (`TwoSteps`). Between them lie the bytes: `createBlockMap()` gives consecutive blocks from
the first element to the last, whichever of its three ways it takes (`SpanIs`, `BlockMapIs`); a
stored block alone gives back its part of what was put (`StoredBlocks`), and consecutive blocks
one part (`ReadBytes`); the ranges of the plan cut every row where blocks end, without a gap
(`RowRanges`), so what is copied for a row is the row (`RowBytes`). `extractElements()` then
fills the box, with nothing to pad (`BoxIs`). Where a block ends within an element the box is
still of the right size (`RowLength` bounds each row), which is all that `TypeOK` asks. For
strings, the walk over the length fields comes to every string where `serialize_strings()` put
it (`StreamIs`, `SkippedIs`). `SliceInv` needed one more conjunct for `TypeOK`: `Kinds`, the
kinds of arrays and answers.

Argument for `Header`. `IsIndex` is what a handle in memory keeps: every layer has a bitmap,
finitely many keys, and no bitmap has more words than the arrays need; each has just as many,
unless the full registry refused an array its name, and then the registry is full for good.
`FileIsWritten` ties the file to the handle that wrote it. For the size, the fields are split
into their parts (keys, layers with their key indices, words, entries: `FieldsAreParts`), each
part is a sum of sizes, and each is at most its part of `calculateHeaderSize()`, as the blocks
estimated before the compression are as many as those compressed (`EstimatedIsCompressed`). To
read back, `SelectedParts` and `ShareIsPart` say that what the reader counts off for the i-th layer
is what was written for it, and `EncodableIsAligned` that no count is wrapped when the format can
hold the index. A file whose names are cut or whose counts wrapped still gives an index when it
is opened (`ReadIsIndex`), so the invariant holds behind it, too.

Only model-checked: liveness under fairness (`CallsReturn`, `JoinEnds`, `CallsEnd` under
`RequestsEnd`), which is out of the prover's reach, as is `ENABLED`. Every invariant and every
property of steps that a run checks is a theorem. The induction theorems of the library take an
operator and cannot be used either. Where a function of the model is recursive or a fold, the
lemmas of `Facts` state induction over a set of numbers, or over what sequences have in common,
without one.

## Plan

Done: `StarDataset` with `StarCatalog`, `Layers`, `Pool`, `Slicing` over `Codec`, `DatasetLock`,
`Remote`, `Header`. Left, in this order:

1. Metadata under the lock: the metadata accessors as calls of `DatasetLock`.
2. The metadata block in `Header`, with its 16 bit counts (5952).
3. Two handles on one local path, in `Remote`.

## Not modelled

Values (element types, shapes, strings), logging, configuration but for the codec and the options
above, request signing and the text of credential files, the memory reader and the `ifstream`
fallback of the local one, the command line tools, the bindings, the site and the build: they keep
no state that the properties here could tell apart. The tools and bindings convert arguments and
formats and call the header, one call after the other. The codec libraries are a size per array
and codec, and their output is recognised only by the decoder of the same codec. The parallel
writes of a flush are part of one step, as the caller holds the exclusive lock throughout.
`get_slice()` beside other threads is left out: it takes no lock, so that any outcome is possible.
Several handles on one local file, and several processes that write one, are not modelled; an
object that another program replaces is (`Remote`).

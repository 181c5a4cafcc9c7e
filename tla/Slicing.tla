--------------------------------- MODULE Slicing ---------------------------------
(***************************************************************************)
(* get_slice() of StarDataset (stards.h): from the slices a client asks    *)
(* for to the blocks that hold them, the ranges of elements to take out of *)
(* these blocks, and the elements left after the steps.                    *)
(*                                                                         *)
(* A client stores an array (put and flush) and then asks for one thing    *)
(* after the other: the whole array or a slice. The bytes of an array are  *)
(* 0, 1, 2, ...: every byte says where it belongs.                         *)
(***************************************************************************)
EXTENDS Codec, Numbers

CONSTANTS Shapes,          \* shapes of numeric arrays
          ElementSizes,    \* bytes of an element
          BlockSizes,      \* StarConfig::block_size when the array was written
          MaxStep,         \* bound on the step of a slice
          Columns,         \* columns of strings
          ConfigBlockSize, \* StarConfig::block_size of the handle that reads
          None             \* nothing stored yet, nothing asked

ASSUME SlicingAssumption ==
  /\ \A shape \in Shapes : shape \in Seq(Nat) /\ shape # <<>>
  /\ ElementSizes \cup BlockSizes \subseteq Nat \ {0}
  /\ MaxStep \in Nat \ {0} /\ ConfigBlockSize \in Nat \ {0}
  /\ \A column \in Columns : column \in Seq(Seq(UNION {Range(string) : string \in Range(column)}))

VARIABLES array,   \* the stored array: what it holds, and its blocks
          answer   \* the answer to the last question

vars == <<array, answer>>

Slice(start, stop, step) == [start |-> start, stop |-> stop, step |-> step]
slice_all(dim) == Slice(0, dim, 1)
Width(s) == s.stop - s.start

\* For a mutant: the length of a slice rounded down.
LengthFloor(s) == (s.stop - s.start) \div s.step

Length(s) == IF s.step = 0 \/ s.stop <= s.start THEN 0
             ELSE (s.stop - s.start + s.step - 1) \div s.step

Product(dims) == FoldLeft(LAMBDA x, y : x * y, 1, dims)

\* Row-major order: the stride of a dimension is the product of those after it.
flatIndex(indices, shape) ==
  LET n == Len(shape)
  IN  Sum([d \in 1 .. n |-> indices[d] * Product(SubSeq(shape, d + 1, n))])

--------------------------------------------------------------------------------
(* createSliceSpec: what is refused, and the slices of all dimensions.     *)

InBounds(s, dim) == s.start < dim /\ s.stop <= dim /\ s.start < s.stop

Accepted(shape, slices) ==
  /\ Len(slices) <= Len(shape)
  /\ \A d \in DOMAIN slices : InBounds(slices[d], shape[d])

Normalized(shape, slices) ==
  [d \in DOMAIN shape |-> IF d \in DOMAIN slices THEN slices[d] ELSE slice_all(shape[d])]

is_contiguous(shape, spec) ==
  \A d \in 2 .. Len(shape) : spec[d].start = 0 /\ spec[d].stop = shape[d]

is_full_rows(shape, slices) ==
  Len(shape) = 2 /\ Len(slices) >= 2 /\ slices[2] = slice_all(shape[2])

--------------------------------------------------------------------------------
(* createBlockMap: the blocks that a slice touches. They are consecutive,   *)
(* in the array and in the file.                                           *)

\* For a mutant: the block size of the handle that reads.
BlockSizeOfConfig(blocks) == ConfigBlockSize

EntryBlockSize(blocks) == IF blocks = <<>> THEN ConfigBlockSize ELSE WrittenBlockSize(blocks)

\* The first element of the slice, and the one after its last.
Span(shape, slices) ==
  LET spec == Normalized(shape, slices)
  IN  IF is_contiguous(shape, spec) /\ spec[1].start = 0
      THEN [first |-> 0, end |-> Product([d \in DOMAIN spec |-> Width(spec[d])])]
      ELSE IF is_full_rows(shape, slices)
      THEN [first |-> spec[1].start * shape[2], end |-> spec[1].stop * shape[2]]
      ELSE [first |-> flatIndex([d \in DOMAIN spec |-> spec[d].start], shape),
            end   |-> flatIndex([d \in DOMAIN spec |-> spec[d].stop - 1], shape) + 1]

\* The numbers of the blocks, from 0.
createBlockMap(a, slices) ==
  LET per_block == EntryBlockSize(a.blocks) \div a.elem
      span      == Span(a.shape, slices)
  IN  {i \in 0 .. Len(a.blocks) - 1 :
         span.first \div per_block <= i /\ i <= (span.end - 1) \div per_block}

\* The blocks in the order of their numbers. (The code also merges requests for blocks
\* that are apart, which createBlockMap never gives it.)
readBlocks(a, read) == [k \in DOMAIN read |-> a.blocks[read[k] + 1]]

--------------------------------------------------------------------------------
(* createExtractionPlan: every row of the slice (a run of elements of the   *)
(* innermost dimension), cut where blocks end. A range is a block (its     *)
(* place among those read), the element it starts at, and how many.        *)

RowStarts(shape, spec) ==
  LET n     == Len(shape)
      outer == [1 .. n - 1 -> 0 .. Max({shape[d] : d \in 1 .. n})]
  IN  Ascending({flatIndex(Append(t, spec[n].start), shape) :
                   t \in {u \in outer : \A d \in 1 .. n - 1 :
                                          u[d] \in spec[d].start .. spec[d].stop - 1}})

createExtractionPlan(a, slices, read) ==
  LET spec      == Normalized(a.shape, slices)
      per_block == WrittenBlockSize(a.blocks) \div a.elem
      BlockFirst(i) == i * per_block
      BlockEnd(i)   == Min({BlockFirst(i) + per_block, Product(a.shape)})
      width     == Width(spec[Len(spec)])
      Ranges(row) ==
        LET touched == Ascending({i \in Range(read) :
                                  BlockEnd(i) > row /\ BlockFirst(i) < row + width})
            Lo(i)   == Max({BlockFirst(i), row})
        IN  [k \in DOMAIN touched |->
               LET i == touched[k]
               IN  [block |-> i - read[1],
                    start |-> Lo(i) - BlockFirst(i),
                    count |-> Min({BlockEnd(i), row + width}) - Lo(i)]]
      rows == RowStarts(a.shape, spec)
  IN  FlattenSeq([r \in DOMAIN rows |-> Ranges(rows[r])])

\* A byte that nothing was copied to.
Zero == -1
Zeros(n) == [k \in 1 .. n |-> Zero]

\* A range that reaches beyond the decompressed bytes is skipped: its place in
\* the result stays zero.
extractElements(bytes, plan, block_size, elem, total) ==
  LET Copy(r) == LET src == r.block * block_size + r.start * elem
                     len == r.count * elem
                 IN  IF src + len <= Len(bytes) THEN SubSeq(bytes, src + 1, src + len)
                     ELSE Zeros(len)
      copied  == FlattenSeq([k \in DOMAIN plan |-> Copy(plan[k])])
  IN  copied \o Zeros(total * elem - Len(copied))

--------------------------------------------------------------------------------
(* get_slice.                                                              *)

\* The element of every step, out of a box of the given widths; without a step
\* above one the whole box.
StepFilter(bytes, spec, elem) ==
  LET n      == Len(spec)
      widths == [d \in 1 .. n |-> Width(spec[d])]
      picked == {t \in [1 .. n -> 0 .. Max(Range(widths))] :
                   \A d \in 1 .. n : t[d] < widths[d] /\ t[d] % spec[d].step = 0}
      places == Ascending({flatIndex(t, widths) : t \in picked})
  IN  IF \E d \in 1 .. n : spec[d].step > 1
      THEN FlattenSeq([k \in DOMAIN places |->
                         SubSeq(bytes, places[k] * elem + 1, (places[k] + 1) * elem)])
      ELSE bytes

\* Codecs that get_slice takes, for numbers.
CodecSliceable(a) == ~uses_global_shuffle(a.codec)

is_sliceable(a) == a.blocks # <<>> /\ (a.kind = "strings" \/ ~uses_global_shuffle(a.codec))

Refusal == [refused |-> TRUE]

SliceOfNumbers(a, slices) ==
  LET spec  == Normalized(a.shape, slices)
      read  == Ascending(createBlockMap(a, slices))
      taken == readBlocks(a, read)
      plain == IF uses_block_shuffle(a.codec)
               THEN [k \in DOMAIN taken |-> OnWholeElements(byte_unshuffle, taken[k], a.elem)]
               ELSE taken
      plan  == createExtractionPlan(a, slices, read)
      total == Product([d \in DOMAIN spec |-> Width(spec[d])])
      box   == extractElements(decompressBlocks(plain), plan,
                               WrittenBlockSize(a.blocks), a.elem, total)
  IN  IF \/ Len(a.shape) > 3
         \/ ~CodecSliceable(a)
         \/ a.blocks = <<>>
         \/ ~Accepted(a.shape, slices)
         \/ EntryBlockSize(a.blocks) < a.elem
      THEN Refusal
      ELSE [refused |-> FALSE, read |-> Range(read),
            shape |-> [d \in DOMAIN spec |-> Length(spec[d])],
            data  |-> StepFilter(box, spec, a.elem)]

\* Strings have no fixed width: the stream is read from its start, and the strings
\* of the slice are kept on the way. All blocks are read.
SliceOfStrings(a, slices) ==
  LET n      == a.shape[1]
      s      == IF slices = <<>> THEN slice_all(n) ELSE slices[1]
      stream == decompressBlocks(a.blocks)
      At[i \in 0 .. s.stop] ==  \* where the length of string i is
        IF i = 0 THEN 2 ELSE At[i - 1] + 1 + stream[At[i - 1]][2]
      kept   == Ascending({i \in s.start .. s.stop - 1 : (i - s.start) % s.step = 0})
  IN  IF \/ a.blocks = <<>>
         \/ Len(slices) > 1
         \/ s.step = 0
         \/ ~InBounds(s, n)
      THEN Refusal
      ELSE [refused |-> FALSE, read |-> 0 .. Len(a.blocks) - 1,
            shape |-> <<Length(s)>>,
            data  |-> [k \in DOMAIN kept |->
                         SubSeq(stream, At[kept[k]] + 1,
                                At[kept[k]] + stream[At[kept[k]]][2])]]

--------------------------------------------------------------------------------
(* Behaviour: an array is stored once, then asked for.                     *)

NoQuestion == [of |-> "nothing"]

Init == array = None /\ answer = NoQuestion

\* put() and flush() of an array of numbers.
PutNumbers(shape, codec, elem, block_size) ==
  /\ array = None
  /\ LET bytes == [k \in 1 .. Product(shape) * elem |-> k - 1]
     IN  array' = [kind |-> "numbers", shape |-> shape, codec |-> codec, elem |-> elem,
                   put |-> bytes,
                   blocks |-> compressBlocks(serialize_array_data(bytes, codec, elem, block_size),
                                             block_size)]
  /\ UNCHANGED answer

\* The same for a column of strings.
PutStrings(column, codec, block_size) ==
  /\ array = None
  /\ array' = [kind |-> "strings", shape |-> <<Len(column)>>, codec |-> codec,
               put |-> column, blocks |-> compressBlocks(serialize_strings(column), block_size)]
  /\ UNCHANGED answer

\* get() of the whole array from the file.
GetNumbers ==
  /\ array # None /\ answer = NoQuestion /\ array.kind = "numbers"
  /\ answer' = [of |-> "all", data |-> decode_array_bytes(array.blocks, array.codec, array.elem)]
  /\ UNCHANGED array

get_slice(slices) ==
  /\ answer' = [of |-> "slice", slices |-> slices,
                got |-> IF array.kind = "numbers" THEN SliceOfNumbers(array, slices)
                                                  ELSE SliceOfStrings(array, slices)]
  /\ UNCHANGED array

\* The client has its answer, and asks on.
TakeAnswer == answer # NoQuestion /\ answer' = NoQuestion /\ UNCHANGED array

\* What a client may ask for of a dimension: everything in bounds, and a start, a
\* stop and an order that are out of bounds. A step of zero is asked for of strings
\* only: for numbers the code does not refuse it, and writes past the result.
Requests(dim, steps) ==
  {Slice(start, stop, step) : start \in 0 .. dim - 1, stop \in 1 .. dim, step \in steps}
    \cup {Slice(dim, dim + 1, 1), Slice(0, dim + 1, 1), Slice(0, 0, 1)}

\* Slices for the first m dimensions, the others left to default.
AskedOf(m, shape, steps) ==
  {q \in [1 .. m -> UNION {Requests(shape[d], steps) : d \in 1 .. m}] :
     \A d \in 1 .. m : q[d] \in Requests(shape[d], steps)}

\* For one dimension too many.
AskedTooMany(shape) == [d \in 1 .. Len(shape) + 1 |-> Slice(0, 1, 1)]

Asked(shape, steps) ==
  (UNION {AskedOf(m, shape, steps) : m \in 0 .. Min({Len(shape), 3})}) \cup {AskedTooMany(shape)}

Next ==
  \/ \E shape \in Shapes, codec \in Codecs, elem \in ElementSizes, block_size \in BlockSizes :
       PutNumbers(shape, codec, elem, block_size)
  \/ \E column \in Columns, codec \in Codecs, block_size \in BlockSizes :
       PutStrings(column, codec, block_size)
  \/ GetNumbers
  \/ /\ array # None /\ array.kind = "numbers" /\ answer = NoQuestion
     /\ \E slices \in Asked(array.shape, 1 .. MaxStep) : get_slice(slices)
  \/ /\ array # None /\ array.kind = "strings" /\ answer = NoQuestion
     /\ \E slices \in Asked(array.shape, 0 .. MaxStep) : get_slice(slices)
  \/ TakeAnswer

Spec == Init /\ [][Next]_vars

--------------------------------------------------------------------------------
(* What a slice must be.                                                   *)

\* The question of the moment was a slice, and served.
Served == answer.of = "slice" /\ ~answer.got.refused

Requested == Normalized(array.shape, answer.slices)

\* The flat indices of the elements that a slice with these steps names.
Named(shape, spec) ==
  {flatIndex(t, shape) :
     t \in {u \in [DOMAIN shape -> 0 .. Max(Range(shape))] :
              \A d \in DOMAIN shape : /\ spec[d].start <= u[d] /\ u[d] < spec[d].stop
                                     /\ (u[d] - spec[d].start) % spec[d].step = 0}}

\* The elements of a set of flat indices, in order, as the client put them.
Elements(a, S) ==
  LET places == Ascending(S)
  IN  IF a.kind = "strings" THEN [k \in DOMAIN places |-> a.put[places[k] + 1]]
      ELSE FlattenSeq([k \in DOMAIN places |->
                         SubSeq(a.put, places[k] * a.elem + 1, (places[k] + 1) * a.elem)])

\* No element of the array crosses the end of a block.
Aligned(a) == WrittenBlockSize(a.blocks) % a.elem = 0

\* The answer has the elements that its shape says (NDArray is built from
\* output_shape and filled by the step loops of get_slice), whatever the block size.
TypeOK ==
  /\ array = None \/ /\ array.kind \in {"numbers", "strings"} /\ array.codec \in Codecs
                     /\ \A i \in DOMAIN array.blocks : array.blocks[i] # <<>>
  /\ answer.of \in {"nothing", "all", "slice"}
  /\ Served => Len(answer.got.data) =
                  Product(answer.got.shape) * (IF array.kind = "numbers" THEN array.elem ELSE 1)

\* get() decodes what put() was given, for every prefilter and every block size, one
\* that is no multiple of the element size included.
GetReturnsWhatWasPut == answer.of = "all" => answer.data = array.put

\* get_slice read no block before the first, and none after the last, that holds an
\* element between the bounds of the slice (createBlockMap).
NoBlockBeyond ==
  LET box   == Named(array.shape, [d \in DOMAIN Requested |-> [Requested[d] EXCEPT !.step = 1]])
      holds == {(x * array.elem) \div WrittenBlockSize(array.blocks) : x \in box}
  IN  Min(answer.got.read) = Min(holds) /\ Max(answer.got.read) = Max(holds)

\* A slice is the elements that it names, in order, as they were put: whatever
\* blocks they lie in, and whatever block size the reading handle is configured for,
\* and of numbers no block is read that lies before the first of them or after the last
\* (those between are read whether they hold an element or not, 8833). For numbers the
\* block size must be a multiple of the element size (get_slice).
SliceIsReference ==
  Served /\ (array.kind = "numbers" => Aligned(array))
    => /\ answer.got.data = Elements(array, Named(array.shape, Requested))
       /\ array.kind = "numbers" => NoBlockBeyond

\* "True if array supports get_slice()", says the comment of is_sliceable() (stards.h:8531):
\* a slice in bounds, with steps, of an array it calls sliceable is served.
SliceableSupportsSlices ==
  (/\ answer.of = "slice" /\ is_sliceable(array) /\ Accepted(array.shape, answer.slices)
   /\ \A d \in DOMAIN answer.slices : answer.slices[d].step # 0)
    => Served

================================================================================

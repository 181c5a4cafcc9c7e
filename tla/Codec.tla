---------------------------------- MODULE Codec ----------------------------------
(***************************************************************************)
(* How the elements of an array become the blocks of a file and come back  *)
(* (stards.h): the byte-shuffle prefilter, the partition into blocks, and  *)
(* the decoding of a whole array.                                          *)
(*                                                                         *)
(* A buffer is a sequence of bytes. What the code does with it does not    *)
(* depend on the bytes, so the models use arrays whose bytes are all       *)
(* different. The base codec (none, GZIP, LZ4) only turns a block into its *)
(* compressed bytes and back, and is left out; three prefilters remain:    *)
(* "plain" (none), "global" (GZIP_SHUFFLE, LZ4_SHUFFLE) and "block" (their  *)
(* variants with _BLOCK).                                                  *)
(***************************************************************************)
EXTENDS Integers, Sequences, SequencesExt

Codecs == {"plain", "global", "block"}

uses_global_shuffle(codec) == codec = "global"
uses_block_shuffle(codec) == codec = "block"

--------------------------------------------------------------------------------
(* Byte shuffle: all first bytes of count elements of elem_size bytes, then *)
(* all second bytes, and so on. Sequences count from 1, the code from 0.   *)

byte_shuffle(in, count, elem_size) ==
  [k \in 1 .. count * elem_size |->
     in[((k - 1) % count) * elem_size + (k - 1) \div count + 1]]

byte_unshuffle(in, count, elem_size) ==
  [k \in 1 .. count * elem_size |->
     in[((k - 1) % elem_size) * count + (k - 1) \div elem_size + 1]]

\* Apply(chunk, count, elem_size) on the part of a chunk that is whole elements;
\* the bytes after it stay as they are.
OnWholeElements(Apply(_, _, _), chunk, elem_size) ==
  LET count == Len(chunk) \div elem_size
  IN  Apply(chunk, count, elem_size) \o SubSeq(chunk, count * elem_size + 1, Len(chunk))

--------------------------------------------------------------------------------
(* Blocks.                                                                 *)

NumBlocks(size, block_size) == (size + block_size - 1) \div block_size

\* The buffer, cut every block_size bytes; the last block may be shorter.
\* Blocks lie one after the other in the file (their offsets add up).
compressBlocks(buf, block_size) ==
  [i \in 1 .. NumBlocks(Len(buf), block_size) |->
     SubSeq(buf, (i - 1) * block_size + 1, Min({i * block_size, Len(buf)}))]

decompressBlocks(blocks) == FlattenSeq(blocks)

\* The per-block variants cut a buffer at the same places as compressBlocks.
EachChunk(Apply(_, _, _), buf, elem_size, block_size) ==
  LET chunks == compressBlocks(buf, block_size)
  IN  FlattenSeq([i \in DOMAIN chunks |-> OnWholeElements(Apply, chunks[i], elem_size)])

byte_shuffle_blocked(buf, elem_size, block_size) ==
  EachChunk(byte_shuffle, buf, elem_size, block_size)

\* For a mutant: the blocks unshuffled as if they were one.
UnshuffleAtOnce(buf, elem_size, block_size) == OnWholeElements(byte_unshuffle, buf, elem_size)

byte_unshuffle_blocked(buf, elem_size, block_size) ==
  EachChunk(byte_unshuffle, buf, elem_size, block_size)

--------------------------------------------------------------------------------
(* An array on its way out and back.                                       *)

serialize_array_data(bytes, codec, elem_size, block_size) ==
  CASE uses_block_shuffle(codec)  -> byte_shuffle_blocked(bytes, elem_size, block_size)
    [] uses_global_shuffle(codec) -> byte_shuffle(bytes, Len(bytes) \div elem_size, elem_size)
    [] OTHER                      -> bytes

\* The size the blocks of an array were written with is that of its first block.
WrittenBlockSize(blocks) == Len(blocks[1])

decode_array_bytes(blocks, codec, elem_size) ==
  LET bytes == decompressBlocks(blocks)
  IN  CASE uses_block_shuffle(codec) /\ blocks # <<>> ->
             byte_unshuffle_blocked(bytes, elem_size, WrittenBlockSize(blocks))
        [] uses_global_shuffle(codec) ->
             byte_unshuffle(bytes, Len(bytes) \div elem_size, elem_size)
        [] OTHER -> bytes

(* A column of strings: its total length in four bytes, then every string  *)
(* behind its length. A field of four bytes is one cell here. Strings are  *)
(* never shuffled.                                                         *)
LenField(n) == <<"len", n>>

serialize_strings(column) ==
  <<LenField(FoldLeft(LAMBDA n, s : n + 1 + Len(s), 0, column))>>
    \o FlattenSeq([i \in DOMAIN column |-> <<LenField(Len(column[i]))>> \o column[i]])
================================================================================

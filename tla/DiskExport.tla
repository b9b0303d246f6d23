------------------------------ MODULE DiskExport ------------------------------
(***************************************************************************)
(* How one partition of image.raw becomes a file of its own:               *)
(* export_disk_image_file of aib/osbuild.py with truncate_partition_size,  *)
(* extract_part_of_file and convert_to_simg of aib/utils.py.               *)
(*                                                                         *)
(* A file is a function from its units to what they hold.  A unit is the   *)
(* granularity of holes and partition boundaries; blocks are of several,   *)
(* so that holes and the ends of files need not be aligned to blocks.      *)
(***************************************************************************)
EXTENDS Integers, Sequences

CONSTANTS
  Len0,     \* the length of image.raw
  Block,    \* block_size
  Chunk,    \* chunk_size: what one os.read asks for
  Batch,    \* read_chunk_size: the blocks convert_to_simg reads at a time
  Payload,  \* the contents that are not zero
  Hole, Zero, Unset

Value == {Hole, Zero} \cup Payload

ASSUME ExportAssumption ==
  /\ Len0 \in Nat
  /\ Block \in Nat \ {0} /\ Chunk \in Nat \ {0} /\ Batch \in Nat \ {0}
  /\ Hole # Zero /\ Hole \notin Payload /\ Zero \notin Payload
  /\ Unset \notin Value

Lesser(a, b) == IF a <= b THEN a ELSE b
WholeBlocks(n) == n \div Block
Blocks(n) == (n + Block - 1) \div Block
RoundUp(n) == Blocks(n) * Block

VARIABLES
  src, start, size,  \* image.raw, and the partition's place in it
  safe, fmt,         \* partition_is_safe_to_truncate; the output format
  pc,
  pos,               \* `pos' of both loops
  last,              \* last_data_end
  len,               \* the size that is extracted
  part,              \* part.img; past its end it is all hole
  rd, wr, rest,      \* the descriptors' positions, and `remaining'
  chunks,            \* the list convert_to_simg collects
  next,              \* the one it writes
  blk, lim, left,    \* the buffer: blk .. lim-1; blocks_remaining after it
  image, at,         \* what a reader of the .simg has when it is so far
  count, header      \* chunk_count, and the one the header has

jobVars  == <<src, start, size, safe, fmt>>
partVars == <<part, rd, wr, rest>>
simgVars == <<chunks, next, blk, lim, left, image, at, count, header>>
vars     == <<jobVars, pc, pos, last, len, partVars, simgVars>>

File == [0 .. Len0 - 1 -> Value]
End == start + size
NoEnd == -1
Width == RoundUp(Len0)

Init ==
  /\ src \in File
  /\ start \in 0 .. Len0 /\ size \in 0 .. Len0 - start
  /\ safe \in BOOLEAN /\ fmt \in {"raw", "simg"}
  /\ pc = IF safe THEN "truncate" ELSE "extract"
  /\ pos = start
  /\ last = NoEnd
  /\ len = size
  /\ part = [u \in 0 .. Len0 - 1 |-> Hole]
  /\ rd = 0 /\ wr = 0 /\ rest = 0
  /\ chunks = <<>> /\ next = 1
  /\ blk = 0 /\ lim = 0 /\ left = 0
  /\ image = [u \in 0 .. Width - 1 |-> Unset]
  /\ at = 0 /\ count = 0 /\ header = 0

Goto(l) == pc' = l

-----------------------------------------------------------------------------
(* truncate_partition_size                                                 *)

\* os.lseek(SEEK_DATA) and (SEEK_HOLE); the end of a file is a hole.
Data(f, p) == {u \in DOMAIN f : u >= p /\ f[u] # Hole}
IsSeekData(f, p, d) == d \in Data(f, p) /\ \A u \in Data(f, p) : d <= u
IsSeekHole(f, d, h) ==
  /\ h > d
  /\ \A u \in d .. h - 1 : f[u] # Hole
  /\ h \in DOMAIN f => f[h] = Hole

\* The extent of data at or after `pos', cut off at `end'.
Extent(d, h) ==
  /\ pos < start + len
  /\ IsSeekData(src, pos, d) /\ d < start + len
  /\ \E e \in 1 .. Len0 :
       IsSeekHole(src, d, e) /\ h = Lesser(e, start + len)
NoExtent == ~ \E u \in Data(src, pos) : u < start + len

TruncateInPlace ==
  /\ pc = "truncate"
  /\ \/ /\ \E d \in 0 .. Len0, h \in 0 .. Len0 :
             /\ Extent(d, h)
             /\ last' = h
             /\ pos' = d
             /\ Goto(IF h >= End THEN "sized" ELSE "truncate")
     \/ NoExtent /\ Goto("sized") /\ UNCHANGED <<pos, last>>
  /\ UNCHANGED <<jobVars, len, partVars, simgVars>>

TruncateStep ==
  /\ pc = "truncate"
  /\ \/ /\ \E d \in 0 .. Len0, h \in 0 .. Len0 :
             /\ Extent(d, h)
             /\ last' = h
             /\ pos' = h
             /\ Goto(IF h >= End THEN "sized" ELSE "truncate")
     \/ NoExtent /\ Goto("sized") /\ UNCHANGED <<pos, last>>
  /\ UNCHANGED <<jobVars, len, partVars, simgVars>>

Truncated == IF last = NoEnd THEN 0
             ELSE IF last < End THEN Lesser(RoundUp(last - start), size) ELSE size

\* An empty partition is skipped.
TruncateEnd ==
  /\ pc = "sized"
  /\ len' = Truncated
  /\ pos' = start
  /\ Goto(IF Truncated = 0 THEN "skipped" ELSE "extract")
  /\ UNCHANGED <<jobVars, last, partVars, simgVars>>

-----------------------------------------------------------------------------
(* extract_part_of_file                                                    *)

ExtractDense ==
  /\ pc = "extract"
  /\ \/ /\ \E d \in 0 .. Len0, h \in 0 .. Len0 :
             /\ Extent(d, h)
             /\ rd' = d
             /\ rest' = h - d
             /\ pos' = h
        /\ Goto("copy")
        /\ UNCHANGED wr
     \/ /\ NoExtent
        /\ Goto(IF fmt = "simg" THEN "collect" ELSE "done")
        /\ UNCHANGED <<pos, rd, wr, rest>>
  /\ UNCHANGED <<jobVars, last, len, part, simgVars>>

ExtractSeek ==
  /\ pc = "extract"
  /\ \/ /\ \E d \in 0 .. Len0, h \in 0 .. Len0 :
             /\ Extent(d, h)
             /\ rd' = d
             /\ wr' = d - start
             /\ rest' = h - d
             /\ pos' = h
        /\ Goto("copy")
     \/ /\ NoExtent     \* ftruncate to the size
        /\ Goto(IF fmt = "simg" THEN "collect" ELSE "done")
        /\ UNCHANGED <<pos, rd, wr, rest>>
  /\ UNCHANGED <<jobVars, last, len, part, simgVars>>

\* os.read and os.write, up to the end of the extent.
ExtractCopy ==
  LET n == Lesser(Chunk, rest) IN
  /\ pc = "copy"
  /\ part' = [u \in DOMAIN part |->
                IF u \in wr .. wr + n - 1 THEN src[rd + (u - wr)] ELSE part[u]]
  /\ rd' = rd + n
  /\ wr' = wr + n
  /\ rest' = rest - n
  /\ Goto(IF rest = n THEN "extract" ELSE "copy")
  /\ UNCHANGED <<jobVars, pos, last, len, simgVars>>

-----------------------------------------------------------------------------
(* convert_to_simg                                                         *)

Total == Blocks(len)

\* A unit of a block that is read: past the end of the file it is padding.
Unit(b, i) == IF b * Block + i >= len \/ part[b * Block + i] = Hole
                THEN Zero ELSE part[b * Block + i]

BlockStartsWithData(b) == b * Block < len /\ part[b * Block] # Hole

\* block_has_data, and is_all_zeros of a block that was read.
BlockHasData(b) ==
  \E i \in 0 .. Block - 1 : b * Block + i < len /\ part[b * Block + i] # Hole
IsAllZeros(b) == \A i \in 0 .. Block - 1 : Unit(b, i) = Zero

\* j is where the run of blocks that starts at i and is alike in P ends.
RunsTo(P(_), i, j, n) ==
  /\ i < j /\ j <= n
  /\ \A b \in i .. j - 1 : P(b) = P(i)
  /\ j < n => P(j) # P(i)

Collected == IF chunks = <<>> THEN 0
             ELSE chunks[Len(chunks)].first + chunks[Len(chunks)].n

\* The first pass: runs of blocks with and without data.
Collect ==
  /\ pc = "collect"
  /\ \/ /\ Collected < Total
        /\ \E j \in 1 .. Total :
             /\ RunsTo(BlockHasData, Collected, j, Total)
             /\ chunks' = Append(chunks, [data |-> BlockHasData(Collected),
                                          first |-> Collected,
                                          n |-> j - Collected])
        /\ UNCHANGED pc
     \/ Collected = Total /\ Goto("write") /\ UNCHANGED chunks
  /\ UNCHANGED <<jobVars, pos, last, len, partVars, next, blk, lim, left, image,
                 at, count, header>>

\* What the reader gets from a chunk of n blocks that follows the others: offsets
\* are implicit.
Emit(n, value(_, _)) ==
  /\ image' = [u \in DOMAIN image |->
                 IF u \div Block \in at .. at + n - 1
                   THEN value(u \div Block - at, u % Block) ELSE image[u]]
  /\ at' = at + n
  /\ count' = count + 1

DontCare(b, i) == Hole
Fill(b, i) == Zero
Raw(b, i) == Unit(blk + b, i)

WriteChunk ==
  /\ pc = "write"
  /\ IF next > Len(chunks)
       THEN /\ header' = count
            /\ Goto("done")
            /\ UNCHANGED <<next, blk, lim, left, image, at, count>>
       ELSE /\ next' = next + 1
            /\ IF chunks[next].data
                 THEN /\ blk' = chunks[next].first
                      /\ lim' = chunks[next].first
                      /\ left' = chunks[next].n
                      /\ Goto("data")
                      /\ UNCHANGED <<image, at, count>>
                 ELSE /\ Emit(chunks[next].n, DontCare)
                      /\ UNCHANGED <<pc, blk, lim, left>>
            /\ UNCHANGED header
  /\ UNCHANGED <<jobVars, pos, last, len, partVars, chunks>>

\* One batch of a chunk of data is read.
ReadBatch ==
  /\ pc = "data" /\ blk = lim
  /\ IF left = 0 THEN Goto("write") /\ UNCHANGED <<lim, left>>
     ELSE /\ lim' = lim + Lesser(Batch, left)
          /\ left' = left - Lesser(Batch, left)
          /\ UNCHANGED pc
  /\ UNCHANGED <<jobVars, pos, last, len, partVars, chunks, next, blk, image, at,
                 count, header>>

\* analyze_block_runs: a run of the batch is written as fill or as raw.
WriteRun ==
  /\ pc = "data" /\ blk < lim
  /\ \E j \in 1 .. lim :
       /\ RunsTo(IsAllZeros, blk, j, lim)
       /\ \/ IsAllZeros(blk) /\ Emit(j - blk, Fill)
          \/ ~IsAllZeros(blk) /\ Emit(j - blk, Raw)
       /\ blk' = j
  /\ UNCHANGED <<jobVars, pc, pos, last, len, partVars, chunks, next, lim, left,
                 header>>

Next == \/ TruncateStep \/ TruncateEnd
        \/ ExtractSeek \/ ExtractCopy
        \/ Collect \/ WriteChunk \/ ReadBatch \/ WriteRun

Spec == Init /\ [][Next]_vars

\* One process, which nothing stops.
FairSpec == Spec /\ WF_vars(Next)

-----------------------------------------------------------------------------
TypeOK ==
  /\ src \in File /\ part \in File
  /\ start \in 0 .. Len0 /\ size \in 0 .. Len0 - start
  /\ safe \in BOOLEAN /\ fmt \in {"raw", "simg"}
  /\ pc \in {"truncate", "sized", "skipped", "extract", "copy", "collect",
             "write", "data", "done"}
  /\ pos \in 0 .. Len0 /\ last \in NoEnd .. Len0 /\ len \in 0 .. size
  /\ rd \in 0 .. Len0 /\ wr \in 0 .. Len0 /\ rest \in 0 .. Len0
  /\ chunks \in Seq([data : BOOLEAN, first : Nat, n : Nat])
  /\ next \in 1 .. Len(chunks) + 1
  /\ blk \in 0 .. Total /\ lim \in 0 .. Total /\ left \in 0 .. Total
  /\ image \in [0 .. Width - 1 -> Value \cup {Unset}]
  /\ at \in 0 .. Total /\ count \in Nat /\ header \in Nat

Sized == pc \notin {"truncate", "sized"}

\* Truncating cuts off only what follows the last data of the partition, to a
\* whole number of blocks or not at all; a partition is skipped only if it is one
\* hole.
TruncateKeepsData ==
  Sized =>
    /\ \A u \in start .. End - 1 : src[u] # Hole => u < start + len
    /\ len = size \/ len % Block = 0
    /\ pc = "skipped" => \A u \in start .. End - 1 : src[u] = Hole

\* What has been extracted reads like the partition does, and its holes are holes:
\* the extents land where they were, whatever the chunks they are copied in.
ExtractIsFaithful ==
  pc \in {"collect", "write", "data", "done"} =>
    \A u \in 0 .. len - 1 : part[u] = src[start + u]

\* A sparse image has as many chunks and blocks as its header says, and writing it
\* to a device gives every unit of the partition its content; only units that are
\* holes keep what the device had.  Until the last write the header counts no
\* chunks: a file that was cut short is never read as a smaller image.
SparseIsFaithful ==
  /\ header # 0 => pc = "done" /\ at = Total
  /\ pc = "done" /\ fmt = "simg" =>
       /\ header = count /\ at = Total /\ len <= at * Block
       /\ \A u \in 0 .. Total * Block - 1 :
            \/ image[u] = Unit(u \div Block, u % Block)
            \/ image[u] = Hole /\ (u < len => part[u] = Hole)

\* Both loops and both passes end.
ExportEnds == <>(pc \in {"done", "skipped"})
=============================================================================

-------------------------- MODULE DiskExport_proofs --------------------------
(***************************************************************************)
(* Proofs about DiskExport: for image files and partitions of every size,  *)
(* and whatever the sizes of blocks and chunks, truncating keeps the data  *)
(* of a partition, and what is extracted, as a file or as a sparse image,  *)
(* reads like it.                                                          *)
(***************************************************************************)
EXTENDS DiskExport, TLAPS

-----------------------------------------------------------------------------
(* The operators.                                                          *)

\* Rounding up gives the next whole number of blocks.
LEMMA RoundUpBlocks ==
  ASSUME NEW n \in Nat
  PROVE  RoundUp(n) \in Nat /\ RoundUp(n) >= n /\ RoundUp(n) % Block = 0
<1> DEFINE q == (n + Block - 1) \div Block
<1>1. Block \in Nat \ {0}
  BY ExportAssumption
<1>2. q \in Nat /\ (q * Block) + ((n + Block - 1) % Block) = n + Block - 1
  BY <1>1, Z3
<1>3. (n + Block - 1) % Block < Block
  BY <1>1, Z3
<1>4. (q * Block) % Block = 0
  BY <1>1, <1>2, Z3
<1>5. RoundUp(n) = q * Block
  BY DEF RoundUp, Blocks
<1>6. q * Block \in Nat
  BY <1>1, <1>2
<1> QED
  BY <1>1, <1>2, <1>3, <1>4, <1>5, <1>6

\* An extent lies within what is searched; before it there is only hole.
LEMMA ExtentIsData ==
  ASSUME src \in File, pos \in Nat, start \in Nat, len \in Nat,
         start + len <= Len0,
         NEW d \in 0 .. Len0, NEW h \in 0 .. Len0, Extent(d, h)
  PROVE  /\ pos <= d /\ d < h /\ h <= start + len
         /\ \A u \in pos .. d - 1 : src[u] = Hole
<1>1. Len0 \in Nat
  BY ExportAssumption
<1>2. DOMAIN src = 0 .. Len0 - 1
  BY DEF File
<1>3. d \in Data(src, pos) /\ (\A u \in Data(src, pos) : d <= u) /\ d < start + len
  BY DEF Extent, IsSeekData
<1>4. pos <= d
  BY <1>3 DEF Data
<1>5. PICK e \in 1 .. Len0 : e > d /\ h = Lesser(e, start + len)
  BY DEF Extent, IsSeekHole
<1>6. d < h /\ h <= start + len
  BY <1>1, <1>3, <1>5 DEF Lesser
<1>7. ASSUME NEW u \in pos .. d - 1
      PROVE  src[u] = Hole
  <2>1. u \in DOMAIN src /\ u >= pos /\ u < d
    BY <1>1, <1>2
  <2>2. u \notin Data(src, pos)
    BY <1>3, <2>1
  <2> QED
    BY <2>1, <2>2 DEF Data
<1> QED
  BY <1>4, <1>6, <1>7

\* Without an extent there is only hole.
LEMMA NoExtentIsHole ==
  ASSUME src \in File, pos \in Nat, start \in Nat, len \in Nat,
         start + len <= Len0, NoExtent
  PROVE  \A u \in pos .. start + len - 1 : src[u] = Hole
<1>1. Len0 \in Nat
  BY ExportAssumption
<1>2. DOMAIN src = 0 .. Len0 - 1
  BY DEF File
<1> SUFFICES ASSUME NEW u \in pos .. start + len - 1
             PROVE  src[u] = Hole
  OBVIOUS
<1>3. u \in DOMAIN src /\ u >= pos /\ u < start + len
  BY <1>1, <1>2
<1>4. u \notin Data(src, pos)
  BY <1>3 DEF NoExtent
<1> QED
  BY <1>3, <1>4 DEF Data

-----------------------------------------------------------------------------
(* The invariant.                                                          *)

\* The types of what truncating and extracting work on.
ExtractType ==
  /\ src \in File /\ part \in File
  /\ start \in Nat /\ size \in Nat /\ start + size <= Len0
  /\ fmt \in {"raw", "simg"}
  /\ pc \in {"truncate", "sized", "skipped", "extract", "copy", "collect",
             "write", "data", "done"}
  /\ pos \in Nat /\ last \in Nat \cup {NoEnd} /\ len \in 0 .. size
  /\ rd \in Nat /\ wr \in Nat /\ rest \in Nat

\* While truncating, nothing but hole lies between last_data_end and `pos', and
\* nothing but hole before `pos' when there is no last_data_end.
Truncating ==
  pc \in {"truncate", "sized"} =>
    /\ len = size /\ pos \in start .. End
    /\ \A u \in 0 .. Len0 - 1 : part[u] = Hole
    /\ last = NoEnd => \A u \in start .. pos - 1 : src[u] = Hole
    /\ last # NoEnd => last = pos /\ start < pos
    /\ pc = "sized" => \A u \in pos .. End - 1 : src[u] = Hole

\* part.img is the partition up to a position, and hole from there on.
ExtractedTo(p) ==
  \A u \in 0 .. len - 1 :
    part[u] = IF start + u < p THEN src[start + u] ELSE Hole

Extracting ==
  /\ pc = "extract" => pos \in start .. start + len /\ ExtractedTo(pos)
  /\ pc = "copy" => /\ pos \in start .. start + len /\ rd \in start .. pos
                    /\ wr = rd - start /\ rest = pos - rd /\ rest > 0
                    /\ ExtractedTo(rd)

IInv == /\ ExtractType /\ Truncating /\ Extracting
        /\ TruncateKeepsData /\ ExtractIsFaithful

\* A fresh part.img is nothing but hole.
LEMMA InitIInv == Init => IInv
<1> SUFFICES ASSUME Init
             PROVE  IInv
  OBVIOUS
<1> USE ExportAssumption
<1>1. ExtractType
  <2>1. part \in File
    BY DEF Init, File, Value
  <2> QED
    BY <2>1 DEF Init, ExtractType, NoEnd
<1>2. Truncating
  BY DEF Init, Truncating, End, NoEnd
<1>3. Extracting
  BY DEF Init, Extracting, ExtractedTo
<1>4. TruncateKeepsData /\ ExtractIsFaithful
  BY DEF Init, TruncateKeepsData, ExtractIsFaithful, Sized, End
<1> QED
  BY <1>1, <1>2, <1>3, <1>4 DEF IInv

\* truncate_partition_size, one extent.
LEMMA TruncateStepIInv == IInv /\ TruncateStep => IInv'
<1> SUFFICES ASSUME IInv, TruncateStep
             PROVE  IInv'
  OBVIOUS
<1> USE DEF IInv
<1>1. Len0 \in Nat
  BY ExportAssumption
<1>2. /\ pc = "truncate" /\ pc' \in {"truncate", "sized"}
      /\ UNCHANGED <<src, start, size, safe, fmt, len, part, rd, wr, rest>>
  BY DEF TruncateStep, Goto, jobVars, partVars
<1>3. len = size /\ start + len = End /\ End \in Nat
  BY <1>2 DEF Truncating, ExtractType, End
<1>4. CASE NoExtent /\ Goto("sized") /\ UNCHANGED <<pos, last>>
  <2>1. \A u \in pos .. End - 1 : src[u] = Hole
    BY <1>3, <1>4, NoExtentIsHole DEF ExtractType
  <2>2. ExtractType'
    BY <1>2, <1>4 DEF ExtractType
  <2>3. Truncating'
    BY <1>2, <1>4, <2>1 DEF Truncating, Goto, End
  <2> QED
    BY <1>2, <1>4, <2>2, <2>3
       DEF Goto, Extracting, TruncateKeepsData, ExtractIsFaithful, Sized
<1>5. ASSUME NEW d \in 0 .. Len0, NEW h \in 0 .. Len0, Extent(d, h),
             last' = h, pos' = h, Goto(IF h >= End THEN "sized" ELSE "truncate")
      PROVE  IInv'
  <2>1. pos <= d /\ d < h /\ h <= End
    BY <1>3, <1>5, ExtentIsData DEF ExtractType
  <2>2. ExtractType'
    BY <1>1, <1>2, <1>5 DEF ExtractType
  <2>3. pos \in start .. End
    BY <1>2 DEF Truncating
  <2>4. start < h
    BY <2>1, <2>3, <1>3 DEF ExtractType
  <2>5. Truncating'
    BY <1>1, <1>2, <1>3, <1>5, <2>1, <2>4 DEF Truncating, Goto, End, ExtractType, NoEnd
  <2> QED
    BY <1>2, <2>2, <2>5
       DEF Extracting, TruncateKeepsData, ExtractIsFaithful, Sized
<1> QED
  BY <1>4, <1>5 DEF TruncateStep

\* What truncate_partition_size returns.
LEMMA TruncateEndIInv == IInv /\ TruncateEnd => IInv'
<1> SUFFICES ASSUME IInv, TruncateEnd
             PROVE  IInv'
  OBVIOUS
<1> USE DEF IInv
<1>1. Len0 \in Nat
  BY ExportAssumption
<1>2. /\ pc = "sized" /\ len' = Truncated /\ pos' = start
      /\ pc' = IF Truncated = 0 THEN "skipped" ELSE "extract"
      /\ UNCHANGED <<src, start, size, safe, fmt, last, part, rd, wr, rest>>
  BY DEF TruncateEnd, Goto, jobVars, partVars
<1>3. /\ start \in Nat /\ size \in Nat /\ start + size <= Len0 /\ End = start + size
      /\ pos \in start .. End
      /\ \A u \in pos .. End - 1 : src[u] = Hole
      /\ last = NoEnd => \A u \in start .. pos - 1 : src[u] = Hole
      /\ last # NoEnd => last = pos /\ start < pos
      /\ \A u \in 0 .. Len0 - 1 : part[u] = Hole
  BY <1>2 DEF ExtractType, Truncating, End
<1>4. /\ Truncated \in 0 .. size
      /\ Truncated = size \/ Truncated % Block = 0
      /\ \A u \in start .. End - 1 : src[u] # Hole => u < start + Truncated
      /\ Truncated = 0 => \A u \in start .. End - 1 : src[u] = Hole
  <2>1. CASE last = NoEnd
    <3>1. Truncated = 0 /\ 0 % Block = 0
      BY <2>1, ExportAssumption DEF Truncated
    <3>2. \A u \in start .. End - 1 : src[u] = Hole
      BY <1>3, <2>1
    <3> QED
      BY <1>3, <3>1, <3>2
  <2>2. CASE last # NoEnd /\ last < End
    <3>1. last = pos /\ last - start \in Nat /\ last - start > 0
      BY <1>3, <2>2
    <3>2. /\ RoundUp(last - start) \in Nat
          /\ RoundUp(last - start) >= last - start
          /\ RoundUp(last - start) % Block = 0
      BY <3>1, RoundUpBlocks
    <3>3. Truncated = Lesser(RoundUp(last - start), size)
      BY <2>2 DEF Truncated
    <3>4. Truncated = RoundUp(last - start) \/ Truncated = size
      BY <3>3 DEF Lesser
    <3>5. Truncated \in 0 .. size /\ Truncated >= last - start /\ Truncated # 0
      BY <1>3, <2>2, <3>1, <3>2, <3>3 DEF Lesser
    <3>6. \A u \in start .. End - 1 : src[u] # Hole => u < start + Truncated
      BY <1>3, <3>1, <3>5
    <3> QED
      BY <3>2, <3>4, <3>5, <3>6
  <2>3. CASE last # NoEnd /\ ~(last < End)
    <3>1. Truncated = size /\ size > 0
      BY <1>3, <2>3 DEF Truncated
    <3> QED
      BY <1>3, <3>1
  <2> QED
    BY <2>1, <2>2, <2>3
<1>5. ExtractType'
  BY <1>2, <1>3, <1>4 DEF ExtractType
<1>6. Truncating'
  BY <1>2 DEF Truncating
<1>7. Extracting'
  <2>1. \A u \in 0 .. len' - 1 : part'[u] = Hole /\ ~(start' + u < pos')
    BY <1>1, <1>2, <1>3, <1>4
  <2> QED
    BY <1>2, <1>3, <1>4, <2>1 DEF Extracting, ExtractedTo
<1>8. TruncateKeepsData'
  BY <1>2, <1>3, <1>4 DEF TruncateKeepsData, End
<1>9. ExtractIsFaithful'
  BY <1>2 DEF ExtractIsFaithful
<1> QED
  BY <1>5, <1>6, <1>7, <1>8, <1>9

\* The loop of extract_part_of_file: the hole before an extent is already there.
LEMMA ExtractSeekIInv == IInv /\ ExtractSeek => IInv'
<1> SUFFICES ASSUME IInv, ExtractSeek
             PROVE  IInv'
  OBVIOUS
<1> USE DEF IInv
<1>1. Len0 \in Nat
  BY ExportAssumption
<1>2. /\ pc = "extract"
      /\ UNCHANGED <<src, start, size, safe, fmt, last, len, part>>
  BY DEF ExtractSeek, jobVars
<1>3. /\ start \in Nat /\ len \in Nat /\ start + len <= Len0 /\ src \in File
      /\ pos \in start .. start + len /\ ExtractedTo(pos)
  BY <1>1, <1>2 DEF ExtractType, Extracting
<1>4. TruncateKeepsData' /\ Truncating'
  <2>1. pc' \in {"copy", "collect", "done"}
    BY DEF ExtractSeek, Goto
  <2> QED
    BY <1>2, <2>1 DEF TruncateKeepsData, Truncating, Sized, End
<1>5. CASE /\ NoExtent /\ Goto(IF fmt = "simg" THEN "collect" ELSE "done")
           /\ UNCHANGED <<pos, rd, wr, rest>>
  <2>1. \A u \in pos .. start + len - 1 : src[u] = Hole
    BY <1>3, <1>5, NoExtentIsHole
  <2>2. \A u \in 0 .. len - 1 : part[u] = src[start + u]
    <3> SUFFICES ASSUME NEW u \in 0 .. len - 1
                 PROVE  part[u] = src[start + u]
      OBVIOUS
    <3>1. CASE start + u < pos
      BY <1>3, <3>1 DEF ExtractedTo
    <3>2. CASE ~(start + u < pos)
      <4>1. start + u \in pos .. start + len - 1
        BY <1>3, <3>2
      <4> QED
        BY <1>3, <2>1, <3>2, <4>1 DEF ExtractedTo
    <3> QED
      BY <3>1, <3>2
  <2>3. pc' \in {"collect", "done"}
    BY <1>5 DEF Goto
  <2>4. ExtractType'
    BY <1>2, <1>5, <2>3 DEF ExtractType
  <2> QED
    BY <1>2, <1>4, <2>2, <2>3, <2>4 DEF Extracting, ExtractIsFaithful
<1>6. ASSUME NEW d \in 0 .. Len0, NEW h \in 0 .. Len0, Extent(d, h),
             rd' = d, wr' = d - start, rest' = h - d, pos' = h, Goto("copy")
      PROVE  IInv'
  <2>1. /\ pos <= d /\ d < h /\ h <= start + len
        /\ \A u \in pos .. d - 1 : src[u] = Hole
    BY <1>3, <1>6, ExtentIsData
  <2>2. ExtractType'
    BY <1>1, <1>2, <1>3, <1>6, <2>1 DEF ExtractType, Goto
  <2>3. ExtractedTo(d)
    <3> SUFFICES ASSUME NEW u \in 0 .. len - 1
                 PROVE  part[u] = IF start + u < d THEN src[start + u] ELSE Hole
      BY DEF ExtractedTo
    <3>1. part[u] = IF start + u < pos THEN src[start + u] ELSE Hole
      BY <1>3 DEF ExtractedTo
    <3>2. CASE start + u \in pos .. d - 1
      BY <1>3, <2>1, <3>1, <3>2
    <3>3. CASE start + u \notin pos .. d - 1
      BY <1>3, <2>1, <3>1, <3>3
    <3> QED
      BY <3>2, <3>3
  <2>4. Extracting'
    BY <1>2, <1>3, <1>6, <2>1, <2>3 DEF Extracting, ExtractedTo, Goto
  <2>5. ExtractIsFaithful'
    BY <1>6 DEF ExtractIsFaithful, Goto
  <2> QED
    BY <1>4, <2>2, <2>4, <2>5
<1> QED
  BY <1>5, <1>6 DEF ExtractSeek

\* One read and one write: the descriptors stay as far apart as the files are.
LEMMA ExtractCopyIInv == IInv /\ ExtractCopy => IInv'
<1> SUFFICES ASSUME IInv, ExtractCopy
             PROVE  IInv'
  OBVIOUS
<1> USE DEF IInv
<1> DEFINE n == Lesser(Chunk, rest)
<1>1. Len0 \in Nat /\ Chunk \in Nat \ {0}
  BY ExportAssumption
<1>2. /\ pc = "copy" /\ rd' = rd + n /\ wr' = wr + n /\ rest' = rest - n
      /\ part' = [u \in DOMAIN part |->
                    IF u \in wr .. wr + n - 1 THEN src[rd + (u - wr)] ELSE part[u]]
      /\ pc' = IF rest = n THEN "extract" ELSE "copy"
      /\ UNCHANGED <<src, start, size, safe, fmt, pos, last, len>>
  BY DEF ExtractCopy, Goto, jobVars
<1>3. /\ start \in Nat /\ len \in Nat /\ start + len <= Len0 /\ src \in File
      /\ part \in File
      /\ pos \in start .. start + len /\ rd \in start .. pos
      /\ wr = rd - start /\ rest = pos - rd /\ rest > 0 /\ ExtractedTo(rd)
  BY <1>1, <1>2 DEF ExtractType, Extracting
<1>4. n \in 1 .. rest
  BY <1>1, <1>3 DEF Lesser
<1> HIDE DEF n
<1>5. \A u \in wr .. wr + n - 1 : rd + (u - wr) = start + u /\ start + u \in 0 .. Len0 - 1
  BY <1>1, <1>3, <1>4
<1>6. part' \in File
  <2>1. ASSUME NEW u \in 0 .. Len0 - 1
        PROVE  part'[u] \in Value
    BY <1>1, <1>2, <1>3, <1>5, <2>1 DEF File
  <2> QED
    BY <1>2, <1>3, <2>1 DEF File
<1>7. ExtractType'
  BY <1>1, <1>2, <1>3, <1>4, <1>6 DEF ExtractType
<1>8. ExtractedTo(rd)'
  <2> SUFFICES ASSUME NEW u \in 0 .. len - 1
               PROVE  part'[u] = IF start + u < rd + n THEN src[start + u] ELSE Hole
    BY <1>2 DEF ExtractedTo
  <2>1. u \in DOMAIN part
    BY <1>1, <1>3 DEF File
  <2>2. CASE u \in wr .. wr + n - 1
    BY <1>2, <1>3, <1>4, <1>5, <2>1, <2>2
  <2>3. CASE u \notin wr .. wr + n - 1
    <3>1. part'[u] = part[u]
      BY <1>2, <2>1, <2>3
    <3>2. part[u] = IF start + u < rd THEN src[start + u] ELSE Hole
      BY <1>3 DEF ExtractedTo
    <3>3. (start + u < rd) <=> (start + u < rd + n)
      BY <1>3, <1>4, <2>3
    <3> QED
      BY <3>1, <3>2, <3>3
  <2> QED
    BY <2>2, <2>3
<1>9. Extracting'
  <2>1. rest = n => rd' = pos
    BY <1>2, <1>3, <1>4
  <2> QED
    BY <1>2, <1>3, <1>4, <1>8, <2>1 DEF Extracting, ExtractedTo
<1>10. Truncating' /\ TruncateKeepsData' /\ ExtractIsFaithful'
  BY <1>2 DEF Truncating, TruncateKeepsData, ExtractIsFaithful, Sized, End
<1> QED
  BY <1>7, <1>9, <1>10

\* convert_to_simg only reads part.img.
LEMMA ConvertIInv ==
  IInv /\ (Collect \/ WriteChunk \/ ReadBatch \/ WriteRun) => IInv'
<1> SUFFICES ASSUME IInv, Collect \/ WriteChunk \/ ReadBatch \/ WriteRun
             PROVE  IInv'
  OBVIOUS
<1>1. /\ pc \in {"collect", "write", "data"}
      /\ pc' \in {"collect", "write", "data", "done"}
      /\ UNCHANGED <<src, start, size, safe, fmt, pos, last, len, part, rd, wr, rest>>
  <2>1. CASE Collect
    BY <2>1 DEF Collect, Goto, jobVars, partVars
  <2>2. CASE WriteChunk
    BY <2>2 DEF WriteChunk, Goto, jobVars, partVars
  <2>3. CASE ReadBatch
    BY <2>3 DEF ReadBatch, Goto, jobVars, partVars
  <2>4. CASE WriteRun
    BY <2>4 DEF WriteRun, jobVars, partVars
  <2> QED
    BY <2>1, <2>2, <2>3, <2>4
<1> QED
  BY <1>1 DEF IInv, ExtractType, Truncating, Extracting, ExtractedTo,
              TruncateKeepsData, ExtractIsFaithful, Sized, End

\* The invariant is inductive.
LEMMA NextIInv == IInv /\ [Next]_vars => IInv'
<1> SUFFICES ASSUME IInv, [Next]_vars
             PROVE  IInv'
  OBVIOUS
<1>1. CASE UNCHANGED vars
  BY <1>1 DEF IInv, ExtractType, Truncating, Extracting, ExtractedTo,
              TruncateKeepsData, ExtractIsFaithful, Sized, End, vars, jobVars,
              partVars
<1>2. CASE TruncateStep
  BY <1>2, TruncateStepIInv
<1>3. CASE TruncateEnd
  BY <1>3, TruncateEndIInv
<1>4. CASE ExtractSeek
  BY <1>4, ExtractSeekIInv
<1>5. CASE ExtractCopy
  BY <1>5, ExtractCopyIInv
<1>6. CASE Collect \/ WriteChunk \/ ReadBatch \/ WriteRun
  BY <1>6, ConvertIInv
<1> QED
  BY <1>1, <1>2, <1>3, <1>4, <1>5, <1>6 DEF Next

-----------------------------------------------------------------------------
(* The sparse image.                                                       *)

\* Where the first k chunks end.
Reached(k) == IF k = 0 THEN 0 ELSE chunks[k].first + chunks[k].n

Run == [data : BOOLEAN, first : Nat, n : Nat]

\* The chunks are runs of blocks that follow each other.
Chained ==
  /\ chunks \in Seq(Run)
  /\ \A k \in 1 .. Len(chunks) :
       /\ chunks[k].first = Reached(k - 1)
       /\ Reached(k) <= Total
       /\ ~chunks[k].data => \A b \in chunks[k].first .. Reached(k) - 1 : ~BlockHasData(b)

\* A reader of what is written so far has the unit, or what its device had.
Good(u) == \/ image[u] = Unit(u \div Block, u % Block)
           \/ image[u] = Hole /\ (u < len => part[u] = Hole)

Written == /\ DOMAIN image = 0 .. Width - 1
           /\ \A u \in 0 .. Width - 1 : u \div Block < at => Good(u)

\* How far the chunk that is being written is.
Writing ==
  /\ at \in Nat /\ count \in Nat
  /\ next \in 1 .. Len(chunks) + 1
  /\ pc \notin {"collect", "write", "data", "done"} => chunks = <<>>
  /\ pc \notin {"write", "data", "done"} => at = 0 /\ count = 0 /\ next = 1
  /\ pc \in {"write", "data"} => Reached(Len(chunks)) = Total
  /\ pc = "write" => at = Reached(next - 1)
  /\ pc = "data" => /\ next > 1 /\ at = blk
                    /\ blk \in Nat /\ lim \in Nat /\ left \in Nat
                    /\ blk <= lim /\ lim + left = Reached(next - 1)
  /\ pc # "done" => header = 0
  /\ pc = "done" => \/ header = count /\ at = Total
                    \/ fmt = "raw" /\ header = 0

SparseInv == Chained /\ Written /\ Writing

\* Where a unit is: in its block.
LEMMA UnitPlace ==
  ASSUME NEW u \in Nat
  PROVE  /\ u \div Block \in Nat /\ u % Block \in 0 .. Block - 1
         /\ (u \div Block) * Block + (u % Block) = u
<1>1. Block \in Nat \ {0}
  BY ExportAssumption
<1>2. u \div Block \in Nat /\ ((u \div Block) * Block) + (u % Block) = u
  BY <1>1, Z3
<1>3. u % Block \in Nat /\ u % Block < Block
  BY <1>1, Z3
<1> QED
  BY <1>1, <1>2, <1>3

LEMMA TimesGrows ==
  ASSUME NEW a \in Nat, NEW b \in Nat, NEW c \in Nat, a <= b
  PROVE  a * c <= b * c
<1>1. PICK d \in Nat : b = a + d
  <2>1. b - a \in Nat /\ b = a + (b - a)
    OBVIOUS
  <2> QED
    BY <2>1
<1>2. b * c = a * c + d * c
  BY <1>1, Z3
<1>3. d * c \in Nat /\ a * c \in Nat
  BY <1>1
<1> QED
  BY <1>2, <1>3

\* The units of the first t blocks are in one of them.
LEMMA InBlocks ==
  ASSUME NEW t \in Nat, NEW u \in 0 .. t * Block - 1
  PROVE  u \div Block < t
<1>1. Block \in Nat \ {0} /\ u \in Nat /\ t * Block \in Nat
  BY ExportAssumption
<1>2. /\ u \div Block \in Nat /\ u % Block \in Nat
      /\ (u \div Block) * Block + (u % Block) = u
  BY <1>1, UnitPlace
<1>3. ASSUME t <= u \div Block PROVE FALSE
  <2>1. t * Block <= (u \div Block) * Block
    BY <1>1, <1>2, <1>3, TimesGrows
  <2>2. (u \div Block) * Block \in Nat
    BY <1>1, <1>2
  <2> QED
    BY <1>1, <1>2, <2>1, <2>2
<1> QED
  BY <1>2, <1>3

\* A longer file has no fewer blocks.
LEMMA BlocksGrow ==
  ASSUME NEW m \in Nat, NEW n \in Nat, m <= n
  PROVE  RoundUp(m) <= RoundUp(n)
<1> DEFINE a == m + Block - 1
           b == n + Block - 1
<1>1. Block \in Nat \ {0} /\ a \in Nat /\ b \in Nat /\ a <= b
  BY ExportAssumption
<1>2. /\ a \div Block \in Nat /\ (a \div Block) * Block + (a % Block) = a
      /\ a % Block \in 0 .. Block - 1
  BY <1>1, UnitPlace
<1>3. /\ b \div Block \in Nat /\ (b \div Block) * Block + (b % Block) = b
      /\ b % Block \in 0 .. Block - 1
  BY <1>1, UnitPlace
<1>4. ASSUME b \div Block < a \div Block PROVE FALSE
  <2>1. b \div Block + 1 <= a \div Block /\ b \div Block + 1 \in Nat
    BY <1>2, <1>3, <1>4
  <2>2. (b \div Block + 1) * Block <= (a \div Block) * Block
    BY <1>1, <1>2, <2>1, TimesGrows
  <2>3. (b \div Block + 1) * Block = (b \div Block) * Block + Block
    BY <1>1, <1>3, Z3
  <2>4. (a \div Block) * Block \in Nat /\ (b \div Block) * Block \in Nat
    BY <1>1, <1>2, <1>3
  <2> QED
    BY <1>1, <1>2, <1>3, <2>2, <2>3, <2>4
<1>5. a \div Block <= b \div Block
  BY <1>2, <1>3, <1>4
<1>6. (a \div Block) * Block <= (b \div Block) * Block
  BY <1>1, <1>2, <1>3, <1>5, TimesGrows
<1> QED
  BY <1>6 DEF RoundUp, Blocks

\* What the invariant says at its end.
LEMMA SparseEnds == IInv /\ SparseInv => SparseIsFaithful
<1> SUFFICES ASSUME IInv, SparseInv PROVE SparseIsFaithful
  OBVIOUS
<1>1. Len0 \in Nat /\ Block \in Nat \ {0}
  BY ExportAssumption
<1>2. len \in Nat /\ len <= Len0
  BY <1>1 DEF IInv, ExtractType
<1>3. Total * Block = RoundUp(len) /\ Width = RoundUp(Len0)
  BY DEF Total, Width, RoundUp
<1>4. /\ RoundUp(len) \in Nat /\ len <= RoundUp(len)
      /\ RoundUp(Len0) \in Nat /\ RoundUp(len) <= RoundUp(Len0)
  BY <1>1, <1>2, RoundUpBlocks, BlocksGrow
<1>5. Total \in Nat
  <2>1. len + Block - 1 \in Nat
    BY <1>1, <1>2
  <2> QED
    BY <2>1, UnitPlace DEF Total, Blocks
<1>6. header # 0 => pc = "done" /\ at = Total
  BY DEF SparseInv, Writing
<1>7. ASSUME pc = "done", fmt = "simg"
      PROVE  /\ header = count /\ at = Total /\ len <= at * Block
             /\ \A u \in 0 .. Total * Block - 1 : Good(u)
  <2>1. header = count /\ at = Total
    BY <1>7 DEF SparseInv, Writing
  <2>2. ASSUME NEW u \in 0 .. Total * Block - 1 PROVE Good(u)
    <3>1. u \div Block < at
      BY <1>5, <2>1, InBlocks
    <3>2. u \in 0 .. Width - 1
      BY <1>3, <1>4
    <3> QED
      BY <3>1, <3>2 DEF SparseInv, Written
  <2> QED
    BY <1>3, <1>4, <2>1, <2>2
<1> QED
  BY <1>6, <1>7 DEF SparseIsFaithful, Good

\* At first there are no chunks.
LEMMA InitSparse == Init => SparseInv
<1> SUFFICES ASSUME Init PROVE SparseInv
  OBVIOUS
<1>1. chunks = <<>> /\ at = 0 /\ Len(chunks) = 0
  BY DEF Init
<1>2. Chained
  BY <1>1 DEF Chained
<1>3. Written
  <2>1. \A u \in 0 .. Width - 1 : ~(u \div Block < at)
    BY <1>1, UnitPlace
  <2> QED
    BY <2>1 DEF Init, Written
<1>4. Writing
  BY <1>1 DEF Init, Writing, Reached
<1> QED
  BY <1>2, <1>3, <1>4 DEF SparseInv

\* Truncating and extracting come before the first chunk.
LEMMA ExtractSparse ==
  ASSUME IInv, SparseInv, TruncateStep \/ TruncateEnd \/ ExtractSeek \/ ExtractCopy
  PROVE  SparseInv'
<1>1. /\ pc \in {"truncate", "sized", "extract", "copy"}
      /\ pc' \in {"truncate", "sized", "skipped", "extract", "copy", "collect", "done"}
      /\ pc' = "done" => fmt = "raw"
      /\ UNCHANGED <<chunks, next, image, at, count, header, fmt>>
  BY DEF TruncateStep, TruncateEnd, ExtractSeek, ExtractCopy, Goto, simgVars, jobVars,
    IInv, ExtractType
<1>2. chunks = <<>> /\ at = 0 /\ Len(chunks) = 0 /\ header = 0 /\ count = 0 /\ next = 1
  BY <1>1 DEF SparseInv, Writing
<1>3. Chained'
  BY <1>1, <1>2 DEF Chained
<1>4. Written'
  <2>1. \A u \in 0 .. Width - 1 : ~(u \div Block < at)
    BY <1>2, UnitPlace
  <2> QED
    BY <1>1, <2>1 DEF SparseInv, Written, Width, RoundUp, Blocks
<1>5. Writing'
  BY <1>1, <1>2 DEF Writing
<1> QED
  BY <1>3, <1>4, <1>5 DEF SparseInv

\* While converting, part.img stays.
LEMMA PartStays ==
  ASSUME UNCHANGED <<part, len>>
  PROVE  /\ Total' = Total /\ Width' = Width
         /\ \A b : BlockHasData(b)' = BlockHasData(b)
         /\ \A b, i : Unit(b, i)' = Unit(b, i)
         /\ \A u : image'[u] = image[u] => (Good(u) => Good(u)')
BY DEF Total, Width, RoundUp, Blocks, BlockHasData, Unit, Good

\* The first pass keeps the runs.
LEMMA CollectSparse == ASSUME IInv, SparseInv, Collect PROVE SparseInv'
<1>1. /\ pc = "collect" /\ at = 0 /\ header = 0 /\ count = 0 /\ next = 1
      /\ UNCHANGED <<part, len, image, at, header, count, next, fmt>>
      /\ pc' \in {"collect", "write"}
  BY DEF Collect, SparseInv, Writing, Goto, partVars, jobVars
<1>2. Total' = Total /\ Width' = Width /\ \A b : BlockHasData(b)' = BlockHasData(b)
  BY <1>1, PartStays
<1>3. Written'
  <2>1. \A u \in 0 .. Width - 1 : ~(u \div Block < at)
    BY <1>1, UnitPlace
  <2> QED
    BY <1>1, <1>2, <2>1 DEF SparseInv, Written
<1>4. Collected = Reached(Len(chunks))
  <2>1. chunks = <<>> <=> Len(chunks) = 0
    BY DEF SparseInv, Chained
  <2> QED
    BY <2>1 DEF Collected, Reached
<1>5. CASE Collected = Total /\ pc' = "write" /\ UNCHANGED chunks
  <2>1. Chained'
    BY <1>2, <1>5 DEF SparseInv, Chained, Reached
  <2>2. Writing'
    BY <1>1, <1>2, <1>4, <1>5 DEF SparseInv, Writing, Reached
  <2> QED
    BY <1>3, <2>1, <2>2 DEF SparseInv
<1>6. ASSUME NEW j \in 1 .. Total, UNCHANGED pc,
             RunsTo(BlockHasData, Collected, j, Total),
             chunks' = Append(chunks, [data |-> BlockHasData(Collected),
                                       first |-> Collected,
                                       n |-> j - Collected])
      PROVE  SparseInv'
  <2>1. /\ Collected < j /\ j <= Total
        /\ \A b \in Collected .. j - 1 : BlockHasData(b) = BlockHasData(Collected)
    BY <1>6 DEF RunsTo
  <2>m. PICK m \in Nat : m = Len(chunks)
    BY DEF SparseInv, Chained
  <2>2. Collected \in Nat
    <3>1. CASE m = 0
      BY <1>4, <2>m, <3>1 DEF Reached
    <3>2. CASE m # 0
      <4>1. m \in 1 .. Len(chunks) /\ chunks \in Seq(Run)
        BY <2>m, <3>2 DEF SparseInv, Chained
      <4>2. chunks[m] \in Run
        BY <4>1
      <4> QED
        BY <1>4, <2>m, <3>2, <4>2 DEF Reached, Run
    <3> QED
      BY <3>1, <3>2
  <2>3. j - Collected \in Nat
    BY <2>1, <2>2
  <2> DEFINE new == [data |-> BlockHasData(Collected), first |-> Collected,
                     n |-> j - Collected]
  <2>4. new \in Run
    <3>1. BlockHasData(Collected) \in BOOLEAN
      BY DEF BlockHasData
    <3> QED
      BY <2>2, <2>3, <3>1 DEF Run
  <2>5. /\ chunks' \in Seq(Run)
        /\ Len(chunks') = m + 1
        /\ chunks'[m + 1] = new
        /\ \A k \in 1 .. m : chunks'[k] = chunks[k]
    BY <1>6, <2>m, <2>4 DEF SparseInv, Chained
  <2>6. \A k \in 0 .. m : Reached(k)' = Reached(k)
    BY <2>5 DEF Reached
  <2>7. Reached(m + 1)' = j
    BY <2>1, <2>2, <2>5, <2>m DEF Reached
  <2>8. ASSUME NEW k \in 1 .. Len(chunks')
        PROVE  /\ chunks'[k].first = Reached(k - 1)'
               /\ Reached(k)' <= Total
               /\ ~chunks'[k].data =>
                    \A b \in chunks'[k].first .. Reached(k)' - 1 : ~BlockHasData(b)
    <3>1. CASE k \in 1 .. m
      <4>1. k - 1 \in 0 .. m /\ k \in 0 .. m
        BY <2>m, <3>1
      <4> QED
        BY <2>m, <2>5, <2>6, <3>1, <4>1 DEF SparseInv, Chained
    <3>2. CASE k = m + 1
      <4>1. k - 1 = m /\ m \in 0 .. m
        BY <2>m, <3>2
      <4>2. chunks'[k].first = Collected /\ chunks'[k].data = BlockHasData(Collected)
        BY <2>5, <3>2
      <4>3. Reached(k - 1)' = Collected /\ Reached(k)' = j
        BY <1>4, <2>m, <2>6, <2>7, <3>2, <4>1
      <4> QED
        BY <2>1, <4>2, <4>3
    <3> QED
      BY <2>m, <2>5, <3>1, <3>2
  <2>9. Chained'
    BY <1>2, <2>5, <2>8 DEF Chained
  <2>10. Writing'
    BY <1>1, <1>6, <2>5, <2>m DEF Writing
  <2> QED
    BY <1>3, <2>9, <2>10 DEF SparseInv
<1>7. \/ \E j \in 1 .. Total :
            /\ RunsTo(BlockHasData, Collected, j, Total)
            /\ chunks' = Append(chunks, [data |-> BlockHasData(Collected),
                                         first |-> Collected,
                                         n |-> j - Collected])
            /\ UNCHANGED pc
      \/ Collected = Total /\ pc' = "write" /\ UNCHANGED chunks
  BY Zenon DEF Collect, Goto
<1> QED
  BY <1>5, <1>6, <1>7, Zenon

\* A chunk of n blocks follows the others.
LEMMA EmitWritten ==
  ASSUME UNCHANGED <<part, len>>, Written, at \in Nat, NEW n \in Nat, at' = at + n,
         DOMAIN image' = DOMAIN image,
         \A u \in 0 .. Width - 1 :
           IF u \div Block \in at .. at + n - 1 THEN Good(u)' ELSE image'[u] = image[u]
  PROVE  Written'
<1>1. /\ Width' = Width
      /\ \A u : image'[u] = image[u] => (Good(u) => Good(u)')
  BY PartStays
<1>2. ASSUME NEW u \in 0 .. Width - 1, u \div Block < at'
      PROVE  Good(u)'
  <2>1. u \div Block \in Nat
    BY UnitPlace
  <2>2. CASE u \div Block \in at .. at + n - 1
    BY <2>2
  <2>3. CASE u \div Block \notin at .. at + n - 1
    <3>1. u \div Block < at
      BY <1>2, <2>1, <2>3
    <3> QED
      BY <1>1, <2>3, <3>1 DEF Written
  <2> QED
    BY <2>2, <2>3
<1> QED
  BY <1>1, <1>2 DEF Written

\* The second pass takes up a chunk, or writes one without data.
LEMMA WriteChunkSparse == ASSUME IInv, SparseInv, WriteChunk PROVE SparseInv'
<1>1. /\ pc = "write" /\ at = Reached(next - 1) /\ header = 0
      /\ at \in Nat /\ count \in Nat /\ next \in 1 .. Len(chunks) + 1
      /\ Reached(Len(chunks)) = Total /\ chunks \in Seq(Run) /\ Len(chunks) \in Nat
      /\ UNCHANGED <<chunks, part, len, fmt>>
  BY DEF WriteChunk, SparseInv, Chained, Writing, partVars, jobVars
<1>2. /\ Total' = Total /\ Width' = Width
      /\ \A b : BlockHasData(b)' = BlockHasData(b)
      /\ \A k : Reached(k)' = Reached(k)
      /\ \A u : image'[u] = image[u] => (Good(u) => Good(u)')
  BY <1>1, PartStays DEF Reached
<1>3. Chained'
  BY <1>1, <1>2 DEF SparseInv, Chained
<1>4. ASSUME UNCHANGED <<image, at>> PROVE Written'
  BY <1>2, <1>4 DEF SparseInv, Written
<1>5. CASE next > Len(chunks)
  <2>1. /\ header' = count /\ pc' = "done"
        /\ UNCHANGED <<next, blk, lim, left, image, at, count>>
    BY <1>5 DEF WriteChunk, Goto
  <2>2. next - 1 = Len(chunks)
    BY <1>1, <1>5
  <2>3. Writing'
    BY <1>1, <1>2, <2>1, <2>2 DEF Writing
  <2> QED
    BY <1>3, <1>4, <2>1, <2>3 DEF SparseInv
<1>6. CASE ~(next > Len(chunks))
  <2>1. next \in 1 .. Len(chunks) /\ next' = next + 1 /\ header' = header
    BY <1>1, <1>6 DEF WriteChunk
  <2>2. PICK c : c = chunks[next]
    OBVIOUS
  <2>3. /\ c.first \in Nat /\ c.n \in Nat /\ c.first = at
        /\ Reached(next) = at + c.n
        /\ next' - 1 = next
    <3>1. chunks[next] \in Run /\ chunks[next].first = Reached(next - 1)
      BY <1>1, <2>1 DEF SparseInv, Chained
    <3> QED
      BY <1>1, <2>1, <2>2, <3>1 DEF Run, Reached
  <2>4. CASE c.data
    <3>1. /\ blk' = c.first /\ lim' = c.first /\ left' = c.n /\ pc' = "data"
          /\ UNCHANGED <<image, at, count>>
      BY <1>6, <2>2, <2>4 DEF WriteChunk, Goto
    <3>2. Writing'
      BY <1>1, <1>2, <2>1, <2>3, <3>1 DEF Writing
    <3> QED
      BY <1>3, <1>4, <3>1, <3>2 DEF SparseInv
  <2>5. CASE ~c.data
    <3>1. /\ pc' = pc /\ at' = at + c.n /\ count' = count + 1
          /\ image' = [u \in DOMAIN image |->
                         IF u \div Block \in at .. at + c.n - 1 THEN Hole ELSE image[u]]
      BY <1>6, <2>2, <2>5 DEF WriteChunk, Emit, DontCare
    <3>2. ASSUME NEW u \in 0 .. Width - 1, u \div Block \in at .. at + c.n - 1
          PROVE  Good(u)'
      <4>1. image'[u] = Hole
        BY <3>1, <3>2 DEF SparseInv, Written
      <4>2. ~BlockHasData(u \div Block)
        <5>1. ~chunks[next].data => \A b \in chunks[next].first .. Reached(next) - 1 : ~BlockHasData(b)
          BY <2>1 DEF SparseInv, Chained
        <5> QED
          BY <2>2, <2>3, <2>5, <3>2, <5>1
      <4>3. (u \div Block) * Block + (u % Block) = u /\ u % Block \in 0 .. Block - 1
        BY UnitPlace
      <4>4. u < len => part[u] = Hole
        BY <4>2, <4>3 DEF BlockHasData
      <4> QED
        BY <1>1, <4>1, <4>4 DEF Good
    <3>3. /\ DOMAIN image' = DOMAIN image
          /\ \A u \in 0 .. Width - 1 :
               u \div Block \notin at .. at + c.n - 1 => image'[u] = image[u]
      BY <3>1 DEF SparseInv, Written
    <3>4. Written'
      BY <1>1, <2>3, <3>1, <3>2, <3>3, EmitWritten DEF SparseInv
    <3>5. Writing'
      BY <1>1, <1>2, <2>1, <2>3, <3>1 DEF Writing
    <3> QED
      BY <1>3, <3>4, <3>5 DEF SparseInv
  <2> QED
    BY <2>4, <2>5
<1> QED
  BY <1>5, <1>6

\* Reading only moves the end of the buffer, up to the end of the chunk.
LEMMA ReadBatchSparse == ASSUME IInv, SparseInv, ReadBatch PROVE SparseInv'
<1>1. /\ pc = "data" /\ next > 1 /\ at = blk /\ blk = lim
      /\ blk \in Nat /\ left \in Nat /\ lim + left = Reached(next - 1)
      /\ header = 0 /\ count \in Nat /\ Reached(Len(chunks)) = Total
      /\ next \in 1 .. Len(chunks) + 1
      /\ UNCHANGED <<chunks, part, len, fmt, next, blk, image, at, count, header>>
  BY DEF ReadBatch, SparseInv, Writing, partVars, jobVars
<1>2. /\ Total' = Total /\ Width' = Width
      /\ \A b : BlockHasData(b)' = BlockHasData(b)
      /\ \A k : Reached(k)' = Reached(k)
      /\ \A u : image'[u] = image[u] => (Good(u) => Good(u)')
  BY <1>1, PartStays DEF Reached
<1>3. Chained' /\ Written'
  BY <1>1, <1>2 DEF SparseInv, Chained, Written
<1>4. CASE left = 0
  <2>1. pc' = "write" /\ UNCHANGED <<lim, left>>
    BY <1>4 DEF ReadBatch, Goto
  <2> QED
    BY <1>1, <1>2, <1>3, <1>4, <2>1 DEF SparseInv, Writing
<1>5. CASE left # 0
  <2>1. pc' = pc /\ lim' = lim + Lesser(Batch, left) /\ left' = left - Lesser(Batch, left)
    BY <1>5 DEF ReadBatch
  <2>2. Lesser(Batch, left) \in Nat /\ Lesser(Batch, left) <= left
    BY <1>1, ExportAssumption DEF Lesser
  <2>3. /\ lim' \in Nat /\ left' \in Nat /\ blk <= lim' /\ lim' + left' = lim + left
    BY <1>1, <2>1, <2>2
  <2> QED
    BY <1>1, <1>2, <1>3, <2>1, <2>3 DEF SparseInv, Writing
<1> QED
  BY <1>4, <1>5

\* A run of the buffer is written as zeros or as it is.
LEMMA WriteRunSparse == ASSUME IInv, SparseInv, WriteRun PROVE SparseInv'
<1>1. /\ pc = "data" /\ next > 1 /\ at = blk /\ blk < lim
      /\ blk \in Nat /\ lim \in Nat /\ left \in Nat /\ lim + left = Reached(next - 1)
      /\ header = 0 /\ count \in Nat /\ Reached(Len(chunks)) = Total
      /\ next \in 1 .. Len(chunks) + 1
      /\ UNCHANGED <<pc, chunks, part, len, fmt, next, lim, left, header>>
  BY DEF WriteRun, SparseInv, Writing, partVars, jobVars
<1>2. /\ Total' = Total /\ Width' = Width
      /\ \A b : BlockHasData(b)' = BlockHasData(b)
      /\ \A k : Reached(k)' = Reached(k)
      /\ \A b, i : Unit(b, i)' = Unit(b, i)
  BY <1>1, PartStays DEF Reached
<1>3. Chained'
  BY <1>1, <1>2 DEF SparseInv, Chained
<1>4. PICK j \in 1 .. lim :
        /\ RunsTo(IsAllZeros, blk, j, lim)
        /\ \/ IsAllZeros(blk) /\ Emit(j - blk, Fill)
           \/ ~IsAllZeros(blk) /\ Emit(j - blk, Raw)
        /\ blk' = j
  BY Zenon DEF WriteRun
<1>5. /\ blk < j /\ j <= lim /\ j - blk \in Nat
      /\ \A b \in blk .. j - 1 : IsAllZeros(b) = IsAllZeros(blk)
  BY <1>1, <1>4 DEF RunsTo
<1>6. /\ at' = at + (j - blk) /\ count' = count + 1
      /\ image' = [u \in DOMAIN image |->
                     IF u \div Block \in at .. at + (j - blk) - 1
                       THEN IF IsAllZeros(blk) THEN Zero
                            ELSE Unit(blk + (u \div Block - at), u % Block)
                       ELSE image[u]]
  <2>1. CASE IsAllZeros(blk)
    BY <1>4, <2>1 DEF Emit, Fill
  <2>2. CASE ~IsAllZeros(blk)
    BY <1>4, <2>2 DEF Emit, Raw
  <2> QED
    BY <2>1, <2>2
<1>7. ASSUME NEW u \in 0 .. Width - 1, u \div Block \in at .. at + (j - blk) - 1
      PROVE  Good(u)'
  <2>1. u \div Block \in Nat /\ u % Block \in 0 .. Block - 1
    BY UnitPlace
  <2>2. u \div Block \in blk .. j - 1 /\ blk + (u \div Block - at) = u \div Block
    BY <1>1, <1>5, <1>7, <2>1
  <2>3. image'[u] = IF IsAllZeros(blk) THEN Zero ELSE Unit(u \div Block, u % Block)
    BY <1>6, <1>7, <2>2 DEF SparseInv, Written
  <2>4. IsAllZeros(blk) => Unit(u \div Block, u % Block) = Zero
    BY <1>5, <2>1, <2>2 DEF IsAllZeros
  <2>5. image'[u] = Unit(u \div Block, u % Block)'
    BY <1>2, <2>3, <2>4
  <2> QED
    BY <2>5 DEF Good
<1>8. /\ DOMAIN image' = DOMAIN image
      /\ \A u \in 0 .. Width - 1 :
           u \div Block \notin at .. at + (j - blk) - 1 => image'[u] = image[u]
  BY <1>6 DEF SparseInv, Written
<1>9. Written'
  BY <1>1, <1>5, <1>6, <1>7, <1>8, EmitWritten DEF SparseInv
<1>10. Writing'
  BY <1>1, <1>2, <1>4, <1>5, <1>6 DEF Writing
<1> QED
  BY <1>3, <1>9, <1>10 DEF SparseInv

\* Every step keeps the invariant.
LEMMA NextSparse == IInv /\ SparseInv /\ [Next]_vars => SparseInv'
<1> SUFFICES ASSUME IInv, SparseInv, [Next]_vars PROVE SparseInv'
  OBVIOUS
<1>1. CASE UNCHANGED vars
  <2>1. UNCHANGED <<fmt, pc, len, part, chunks, next, blk, lim, left, image, at,
                    count, header>>
    BY <1>1 DEF vars, jobVars, partVars, simgVars
  <2>2. /\ Total' = Total /\ Width' = Width
        /\ \A b : BlockHasData(b)' = BlockHasData(b)
        /\ \A k : Reached(k)' = Reached(k)
        /\ \A u : image'[u] = image[u] => (Good(u) => Good(u)')
    BY <2>1, PartStays DEF Reached
  <2>3. Chained' /\ Written'
    BY <2>1, <2>2 DEF SparseInv, Chained, Written
  <2> QED
    BY <2>1, <2>2, <2>3 DEF SparseInv, Writing
<1> QED
  BY <1>1, ExtractSparse, CollectSparse, WriteChunkSparse, ReadBatchSparse,
    WriteRunSparse DEF Next

-----------------------------------------------------------------------------
(* The theorems.                                                           *)

\* truncate_partition_size never cuts off data, returns whole blocks or the size
\* it was given, and export_disk_image_file skips only what is all hole.
THEOREM TruncateSafe == Spec => []TruncateKeepsData
<1>1. IInv => TruncateKeepsData
  BY DEF IInv
<1> QED
  BY InitIInv, NextIInv, <1>1, PTL DEF Spec

\* What extract_part_of_file leaves reads like the partition, holes included,
\* whatever the chunk size and wherever the extents are.
THEOREM ExtractFaithful == Spec => []ExtractIsFaithful
<1>1. IInv => ExtractIsFaithful
  BY DEF IInv
<1> QED
  BY InitIInv, NextIInv, <1>1, PTL DEF Spec

\* Writing the .simg that convert_to_simg makes to a device gives every unit of
\* the partition its content, and its header counts what it holds.
THEOREM SparseFaithful == Spec => []SparseIsFaithful
BY InitIInv, NextIInv, InitSparse, NextSparse, SparseEnds, PTL DEF Spec
=============================================================================

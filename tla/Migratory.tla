----------------------------- MODULE Migratory ------------------------------
(***************************************************************************)
(* Migratory compression: Odess::ProcessTrace, Migratory and MLC            *)
(* (src/src/method/Odess.cc) and the baseline it is measured against,       *)
(* OriGenerate, OriLC and CompressLargeFile (src/src/method/absMethod.cc).  *)
(* Odess keeps every chunk, grouped by its first super feature; after the   *)
(* last backup main has the groups written to output.me and compressed in   *)
(* blocks, then the input files merged into ori and compressed likewise,    *)
(* and prints the ratio of the two sizes.                                   *)
(*                                                                          *)
(* A chunk is <<id, content>>, a file a sequence of contents; ori is the    *)
(* sequence of contents merged into it.                                     *)
(***************************************************************************)
EXTENDS Integers, Sequences, SequencesExt

CONSTANTS
  FileLists,  \* the lists of files, each the contents it is cut into
  BackupNum,  \* backups taken: the first BackupNum files
  Contents,
  Feature,    \* Feature[c]: superfeature[0] of content c
  ChunkSize,  \* ChunkSize[c], in bytes
  BlockSize,  \* blockSize of CompressLargeFile (128 MiB)
  LZ4Sizes,   \* bound: sizes a block may be compressed to
  MaxLost     \* bound: files OriGenerate cannot read any more

ASSUME MigratoryAssumption ==
  /\ BackupNum \in Nat
  /\ \A list \in FileLists : list \in Seq(Seq(Contents)) /\ BackupNum <= Len(list)
  /\ ChunkSize \in [Contents -> Nat] /\ DOMAIN Feature = Contents
  /\ BlockSize \in Nat \ {0} /\ LZ4Sizes \subseteq Nat \ {0} /\ MaxLost \in Nat

VARIABLES
  files,             \* readfileList
  phase,             \* where main is
  backup,            \* backups done
  read,              \* chunks of the current file processed
  hashTable,         \* feature -> its chunks, in the order they came
  insertionOrder,    \* features, in the order they came
  uniquechunkNum,    \* next chunk id
  logicalchunkSize,  \* bytes of all chunks
  me,                \* chunks in output.me
  ori,               \* contents in ori
  file,              \* files OriGenerate has looked at
  count,             \* files OriGenerate has merged
  skipped,           \* files it could not read (history)
  blocks,            \* lengths of the blocks compressed so far
  ans,               \* their compressed size
  MLCSize, oriLCSize \* results; 0 after a failure

odessVars == <<files, backup, read, hashTable, insertionOrder, uniquechunkNum, logicalchunkSize>>
oriVars == <<ori, file, count, skipped>>
lcVars == <<blocks, ans, MLCSize, oriLCSize>>
migratoryVars == <<phase, odessVars, me, oriVars, lcVars>>

Add(x, y) == x + y
Total(s) == FoldLeft(Add, 0, s)
Size(contents) == Total([k \in DOMAIN contents |-> ChunkSize[contents[k]]])
ContentsOf(chunks) == [k \in DOMAIN chunks |-> chunks[k][2]]

MigratoryInit ==
  /\ files \in FileLists
  /\ phase = "backups"
  /\ backup = 0 /\ read = 0
  /\ hashTable = [f \in {} |-> <<>>] /\ insertionOrder = <<>>
  /\ uniquechunkNum = 0 /\ logicalchunkSize = 0
  /\ me = <<>>
  /\ ori = <<>> /\ file = 0 /\ count = 0 /\ skipped = 0
  /\ blocks = <<>> /\ ans = 0 /\ MLCSize = 0 /\ oriLCSize = 0

-----------------------------------------------------------------------------
(* Grouping *)

\* Mutant: the order is recorded for every chunk.
Order_Always(f) == Append(insertionOrder, f)

\* A feature enters insertionOrder when its first chunk comes.
Order(f) == IF f \in DOMAIN hashTable THEN insertionOrder ELSE Append(insertionOrder, f)

\* Mutant: newest first.
Group_Newest(f, chunk) == <<chunk>> \o (IF f \in DOMAIN hashTable THEN hashTable[f] ELSE <<>>)

Group(f, chunk) == Append(IF f \in DOMAIN hashTable THEN hashTable[f] ELSE <<>>, chunk)

\* ProcessTrace with one chunk: nothing is deduplicated.
Process ==
  /\ phase = "backups" /\ backup < BackupNum /\ read < Len(files[backup + 1])
  /\ LET c == files[backup + 1][read + 1]
         f == Feature[c]
     IN  /\ insertionOrder' = Order(f)
         /\ hashTable' = [g \in DOMAIN hashTable \union {f} |->
              IF g = f THEN Group(f, <<uniquechunkNum, c>>) ELSE hashTable[g]]
         /\ logicalchunkSize' = logicalchunkSize + ChunkSize[c]
  /\ uniquechunkNum' = uniquechunkNum + 1
  /\ read' = read + 1
  /\ UNCHANGED <<files, phase, backup, me, oriVars, lcVars>>

EndBackup ==
  /\ phase = "backups" /\ backup < BackupNum /\ read = Len(files[backup + 1])
  /\ backup' = backup + 1 /\ read' = 0
  /\ UNCHANGED <<files, phase, hashTable, insertionOrder, uniquechunkNum,
                 logicalchunkSize, me, oriVars, lcVars>>

\* Migratory writes group after group; or output.me cannot be opened, and
\* MLC finds none to compress.
MigratoryStep ==
  /\ phase = "backups" /\ backup = BackupNum
  /\ \/ me' = FlattenSeq([k \in DOMAIN insertionOrder |-> hashTable[insertionOrder[k]]])
        /\ phase' = "MLC"
     \/ phase' = "OriGenerate" /\ UNCHANGED me
  /\ UNCHANGED <<odessVars, oriVars, lcVars>>

-----------------------------------------------------------------------------
(* The baseline *)

\* Mutant: one file too many.
Merging_OneMore == file < Len(files) /\ count <= BackupNum

\* OriGenerate goes through the whole list until backupNum files are merged.
Merging == file < Len(files) /\ count < BackupNum

MergeFile ==
  /\ phase = "OriGenerate" /\ Merging
  /\ ori' = ori \o files[file + 1]
  /\ file' = file + 1 /\ count' = count + 1
  /\ UNCHANGED <<phase, odessVars, me, skipped, lcVars>>

\* A file that cannot be opened or read is skipped and not counted.
SkipFile ==
  /\ phase = "OriGenerate" /\ Merging /\ skipped < MaxLost
  /\ file' = file + 1 /\ skipped' = skipped + 1
  /\ UNCHANGED <<phase, odessVars, me, ori, count, lcVars>>

\* The loop ends, or ori cannot be opened for writing and OriLC finds no file.
EndMerge ==
  /\ phase = "OriGenerate"
  /\ \/ ~Merging /\ phase' = "OriLC"
     \/ file = 0 /\ phase' = "done"
  /\ UNCHANGED <<odessVars, me, oriVars, lcVars>>

-----------------------------------------------------------------------------
(* CompressLargeFile, called by MLC with output.me and by OriLC with ori *)

Input == IF phase = "MLC" THEN Size(ContentsOf(me)) ELSE Size(ori)
Offset == Total(blocks)
Compressing == phase \in {"MLC", "OriLC"}

\* Return: the result, and on to the next call of main.
Finish(result) ==
  /\ IF phase = "MLC" THEN MLCSize' = result /\ UNCHANGED oriLCSize
                      ELSE oriLCSize' = result /\ UNCHANGED MLCSize
  /\ phase' = IF phase = "MLC" THEN "OriGenerate" ELSE "done"
  /\ blocks' = <<>> /\ ans' = 0
  /\ UNCHANGED <<odessVars, me, oriVars>>

\* Mutant: only whole blocks are compressed.
MoreBlocks_Whole == Offset + BlockSize <= Input

\* read() still finds bytes.
MoreBlocks == Offset < Input

CompressBlock ==
  /\ Compressing /\ MoreBlocks
  /\ blocks' = Append(blocks, IF Input - Offset < BlockSize THEN Input - Offset ELSE BlockSize)
  /\ \E z \in LZ4Sizes : ans' = ans + z
  /\ UNCHANGED <<phase, odessVars, me, oriVars, MLCSize, oriLCSize>>

\* The output cannot be opened, or LZ4 fails: 0 is returned.
CompressFails == Compressing /\ (MoreBlocks \/ blocks = <<>>) /\ Finish(0)

EndCompress == Compressing /\ ~MoreBlocks /\ Finish(ans)

\* main prints the sizes and returns.
Stopped == phase = "done" /\ UNCHANGED migratoryVars

MigratoryNext ==
  \/ Process \/ EndBackup \/ MigratoryStep
  \/ MergeFile \/ SkipFile \/ EndMerge
  \/ CompressBlock \/ CompressFails \/ EndCompress
  \/ Stopped

MigratorySpec == MigratoryInit /\ [][MigratoryNext]_migratoryVars

-----------------------------------------------------------------------------
(* Properties *)

\* What the backups hand over, one after the other.
Stream == FlattenSeq(SubSeq(files, 1, BackupNum))

\* output.me is a rearrangement of the chunks of all backups: each of them
\* once, none lost between the groups of different backups.
Rearranged ==
  me # <<>> =>
    /\ Len(me) = Len(Stream)
    /\ \A id \in 0 .. Len(Stream) - 1 : \E k \in DOMAIN me : me[k] = <<id, Stream[id + 1]>>

\* Similar chunks lie together, in the order they came, and the groups in the
\* order their first chunks came.
Grouped ==
  \A k, l \in DOMAIN me : k < l =>
    /\ Feature[me[k][2]] = Feature[me[l][2]] =>
         /\ me[k][1] < me[l][1]
         /\ \A j \in k .. l : Feature[me[j][2]] = Feature[me[k][2]]
    /\ \E j \in 1 .. k : Feature[me[j][2]] = Feature[me[k][2]] /\ me[j][1] <= me[l][1]

\* The two sizes main divides come from the same data: while every file stays
\* readable, ori holds the stream that went through the chunker, of the size
\* reported.
SameInput ==
  phase \in {"OriLC", "done"} /\ skipped = 0 /\ file > 0 =>
    /\ ori = Stream
    /\ Size(ori) = logicalchunkSize
    /\ me # <<>> => Size(ContentsOf(me)) = Size(ori)

\* A size that is reported stands for all of the file: compression ends only
\* when the blocks add up to it.
WholeFile ==
  [][Compressing /\ ~Compressing' /\ (MLCSize' # MLCSize \/ oriLCSize' # oriLCSize)
       => Offset = Input]_migratoryVars
=============================================================================

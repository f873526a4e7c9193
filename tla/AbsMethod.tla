----------------------------- MODULE AbsMethod ------------------------------
(***************************************************************************)
(* What the compression methods inherit from AbsMethod                      *)
(* (src/include/absmethod.h, src/src/method/absMethod.cc): the fingerprint  *)
(* index, the counters, and the way a chunk is stored and recorded through  *)
(* dataWrite.  DeltaDedup (Dedup, Finesse, NTransForm), Palantir and        *)
(* Locality extend this module with their ProcessTrace.                     *)
(*                                                                          *)
(* Fingerprints are taken to identify contents.  The store behind           *)
(* Chunk_Insert and Get_Chunk_Info is ContainerStore; here it is the        *)
(* sequence chunklist, as ContainerStore!ReadBack justifies.                *)
(***************************************************************************)
EXTENDS StoredChunks

CONSTANTS
  Contents,   \* what a chunk can hold
  ChunkSize,  \* ChunkSize[c]
  LZ4Size,    \* LZ4Size[c]: compressed size, 0 when LZ4_compress_fast fails
  Offered,    \* pairs <<content, HeaderFlag>> the chunker may hand over
  BackupNum   \* number of backups

Backups == 0 .. (BackupNum - 1)

\* LZ4_compress_fast is given a buffer of chunkSize bytes.
ASSUME AbsMethodAssumption ==
  /\ BackupNum \in Nat
  /\ ChunkSize \in [Contents -> Nat \ {0}] /\ LZ4Size \in [Contents -> Nat]
  /\ \A c \in Contents : LZ4Size[c] <= ChunkSize[c]
  /\ Offered \subseteq Contents \X BOOLEAN

VARIABLES
  backup,     \* the current backup
  FPindex,    \* content -> chunk id, for the fingerprints known
  chunklist,  \* the unique chunks; chunk id is element id + 1
  recipe,     \* RecipeMap: ids of data chunks per backup
  headers,    \* RecipeMap_header: ids of header chunks per backup
  stats,      \* the counters
  sentData,   \* contents of the data chunks handed over per backup (history)
  sentHeader  \* contents of the header chunks handed over per backup (history)

recipeVars == <<recipe, headers>>
sentVars == <<sentData, sentHeader>>
absVars == <<backup, FPindex, chunklist, stats, recipeVars, sentVars>>

Empty == [x \in {} |-> 0]

AbsInit ==
  /\ backup = 0
  /\ FPindex = Empty
  /\ chunklist = <<>>
  /\ recipe = [b \in Backups |-> <<>>] /\ headers = [b \in Backups |-> <<>>]
  /\ stats = [logical |-> 0, logicalNum |-> 0, unique |-> 0, base |-> 0,
              delta |-> 0, DedupReduct |-> 0, LocalReduct |-> 0, DeltaReduct |-> 0,
              baseNum |-> 0, deltaNum |-> 0, uniqueNum |-> 0]
  /\ sentData = [b \in Backups |-> <<>>] /\ sentHeader = [b \in Backups |-> <<>>]

Chunk(id) == ChunkAt(chunklist, id)
ChunkIds == IdsOf(chunklist)

\* Mutant: uniquechunkNum is counted up before it is used.
NewId_Early == stats.uniqueNum + 1

\* The id of the next unique chunk is uniquechunkNum.
NewId == stats.uniqueNum

FP_Known(c) == c \in DOMAIN FPindex

FP_Insert(c, id) ==
  FPindex' = [d \in DOMAIN FPindex \union {c} |-> IF d = c THEN id ELSE FPindex[d]]

\* The chunk Pop has returned (history).
HandedOver(c, h) ==
  IF h
  THEN sentHeader' = [sentHeader EXCEPT ![backup] = Append(@, c)] /\ UNCHANGED sentData
  ELSE sentData' = [sentData EXCEPT ![backup] = Append(@, c)] /\ UNCHANGED sentHeader

\* Recipe_Insert or Recipe_Header_Insert, by the HeaderFlag of the chunk.
Record(header, id) ==
  IF header
  THEN headers' = [headers EXCEPT ![backup] = Append(@, id)] /\ UNCHANGED recipe
  ELSE recipe' = [recipe EXCEPT ![backup] = Append(@, id)] /\ UNCHANGED headers

-----------------------------------------------------------------------------
(* Chunk entries and counters *)

Entry(c, h, bytes, flag, base, save) ==
  [content |-> c, bytes |-> bytes, deltaFlag |-> flag, basechunkID |-> base,
   HeaderFlag |-> h, chunkSize |-> ChunkSize[c], saveSize |-> save]

\* A chunk stored whole is compressed if LZ4 makes it fit.
BaseSave(c) == IF LZ4Size[c] > 0 THEN LZ4Size[c] ELSE ChunkSize[c]

BaseEntry(c, h) ==
  Entry(c, h, <<"whole", c>>, IF LZ4Size[c] > 0 THEN "NO_DELTA" ELSE "NO_LZ4",
        NoChunk, BaseSave(c))

\* Mutant: the saving of a duplicate is not counted.
DuplicateStats_NoReduct(size) ==
  stats' = [stats EXCEPT !.logical = @ + size, !.logicalNum = @ + 1]

DuplicateStats(size) ==
  stats' = [stats EXCEPT !.DedupReduct = @ + size,
                         !.logical = @ + size, !.logicalNum = @ + 1]

BaseStats(c) ==
  stats' = [stats EXCEPT
    !.baseNum = @ + 1, !.base = @ + BaseSave(c),
    !.LocalReduct = @ + (ChunkSize[c] - BaseSave(c)),
    !.uniqueNum = @ + 1, !.unique = @ + BaseSave(c),
    !.logical = @ + ChunkSize[c], !.logicalNum = @ + 1]

\* StatsDelta and what ProcessTrace adds for every unique chunk.
StatsDelta(c, save) ==
  stats' = [stats EXCEPT
    !.deltaNum = @ + 1, !.delta = @ + save,
    !.DeltaReduct = @ + (ChunkSize[c] - save),
    !.uniqueNum = @ + 1, !.unique = @ + save,
    !.logical = @ + ChunkSize[c], !.logicalNum = @ + 1]

-----------------------------------------------------------------------------
(* Properties of every method *)

Counters == {"logical", "logicalNum", "unique", "base", "delta", "DedupReduct",
             "LocalReduct", "DeltaReduct", "baseNum", "deltaNum", "uniqueNum"}

\* No content has come both as data and as a header.  A duplicate takes over the
\* HeaderFlag of the chunk stored first, and with it the recipe it enters.
Apart ==
  \A b, d \in Backups : \A i \in DOMAIN sentData[b], j \in DOMAIN sentHeader[d] :
    sentData[b][i] # sentHeader[d][j]

\* Following the recipes gives back what the chunker handed over.
Restorable ==
  \A b \in Backups : /\ RestoresTo(chunklist, recipe[b], sentData[b])
                     /\ RestoresTo(chunklist, headers[b], sentHeader[b])

\* The sizes PrintChunkInfo reports add up: what went in is what was stored
\* plus what deduplication, LZ4 and delta encoding saved; chunk numbers agree
\* with the chunks stored.
Accounting ==
  /\ stats.logical = stats.unique + stats.DedupReduct + stats.LocalReduct
                        + stats.DeltaReduct
  /\ stats.unique = stats.base + stats.delta
  /\ stats.uniqueNum = stats.baseNum + stats.deltaNum
  /\ stats.uniqueNum = Len(chunklist)

\* The memcpy of a delta into the chunk's own buffer stays within it: no
\* stored delta is longer than its chunk.
DeltaFits ==
  \A id \in ChunkIds :
    ~IsBase(Chunk(id)) => Chunk(id).saveSize <= Chunk(id).chunkSize
=============================================================================

----------------------------- MODULE DeltaDedup -----------------------------
(***************************************************************************)
(* The body of ProcessTrace in Dedup, Finesse and NTransForm                *)
(* (src/src/method/): a chunk whose fingerprint is known is a duplicate; a  *)
(* new chunk is stored as a delta against a similar base chunk found in the *)
(* super-feature index, or as a base chunk, LZ4 compressed if that helps;   *)
(* either way its id enters the recipe of the current backup.               *)
(***************************************************************************)
EXTENDS AbsMethod, FiniteSets

CONSTANTS
  Features,     \* Features[c][n]: the n-th super feature of content c
  FeatureVals,  \* values of a super feature
  SFNum,        \* FINESSE_SF_NUM
  DeltaGate,    \* chunks larger than this look for a base (576 in Finesse;
                \* 0 in NTransForm; no chunk is larger in Dedup)
  DeltaSizes,   \* sizes the delta encoder may report; 0 is a delta error
  Padding,      \* malloc may round the size of a buffer up by so many bytes
  JunkSizes,    \* bound: chunk sizes a read past the end of chunklist may find
  MaxChunks,    \* bound: chunks handed over per backup
  MaxErrors     \* bound: delta errors

ASSUME DeltaDedupAssumption ==
  /\ SFNum \in Nat /\ MaxChunks \in Nat /\ MaxErrors \in Nat
  /\ DeltaGate \in Nat /\ Padding \in Nat
  /\ DeltaSizes \subseteq Nat /\ JunkSizes \subseteq Nat
  /\ Features \in [Contents -> [1 .. SFNum -> FeatureVals]]

VARIABLES
  SFindex,    \* SFindex[n][f]: base chunks inserted under feature f, in order
  errors,     \* delta errors (history)
  overrun     \* a delta was copied over the end of its chunk's buffer

vars == <<absVars, SFindex, errors, overrun>>

Init ==
  /\ AbsInit
  /\ SFindex = [n \in 1 .. SFNum |-> [f \in FeatureVals |-> <<>>]]
  /\ errors = 0
  /\ overrun = FALSE

-----------------------------------------------------------------------------
(* The super-feature index *)

\* Features of c under which some chunk is indexed.
SFHits(c) == {n \in 1 .. SFNum : SFindex[n][Features[c][n]] # <<>>}

\* SF_Find (querySF in NTransForm): the newest chunk under the first feature that hits.
SFFind(c) ==
  LET n == CHOOSE m \in SFHits(c) : \A l \in SFHits(c) : m <= l
      ids == SFindex[n][Features[c][n]]
  IN  ids[Len(ids)]

\* Finesse skips small chunks; Dedup never looks.
LooksForBase(c) == ChunkSize[c] > DeltaGate

HasBase(c) == LooksForBase(c) /\ SFHits(c) # {}

SFInsert(c, id) ==
  SFindex' = [n \in 1 .. SFNum |->
                [SFindex[n] EXCEPT ![Features[c][n]] = Append(@, id)]]

-----------------------------------------------------------------------------
(* One chunk *)

\* The fingerprint is known: tmpChunk becomes a copy of the stored chunk's
\* entry (Get_Chunk_MetaInfo), HeaderFlag included.
Duplicate(c) ==
  /\ FP_Known(c) /\ FPindex[c] \in ChunkIds
  /\ Record(Chunk(FPindex[c]).HeaderFlag, FPindex[c])
  /\ DuplicateStats(Chunk(FPindex[c]).chunkSize)
  /\ UNCHANGED <<FPindex, SFindex, chunklist>>

\* After a delta error the index may name a chunk that was never stored:
\* Get_Chunk_MetaInfo then reads past the end of chunklist, and the id, the
\* flag and the size it copies are whatever lies there.
ReadPastEnd(c) ==
  /\ FP_Known(c) /\ FPindex[c] \notin ChunkIds
  /\ \E h \in BOOLEAN, id \in ChunkIds \union {NoChunk}, size \in JunkSizes :
       Record(h, id) /\ DuplicateStats(size)
  /\ UNCHANGED <<FPindex, SFindex, chunklist>>

\* A new chunk without a similar one: stored whole, and indexed as a base for
\* later chunks.
StoreBase(c, h) ==
  /\ ~FP_Known(c) /\ ~HasBase(c)
  /\ FP_Insert(c, NewId)
  /\ IF LooksForBase(c) THEN SFInsert(c, NewId) ELSE UNCHANGED SFindex
  /\ chunklist' = Append(chunklist, BaseEntry(c, h))
  /\ BaseStats(c)
  /\ Record(h, NewId)

DeltaEntry(c, h, base, save) ==
  Entry(c, h, <<"delta", c, ReferenceIn(chunklist, base)>>, "DELTA", base, save)

\* The delta is copied into the buffer of the chunk, malloc(cp); a buffer that
\* is too small holds it only if malloc happens to have rounded it up.
MayHold(c, save) == save <= ChunkSize[c] + Padding

\* Mutant: delta chunks are indexed as bases too.
StoreDeltaIndexed(c, h, save) ==
  /\ ~FP_Known(c) /\ HasBase(c) /\ save # 0 /\ MayHold(c, save)
  /\ FP_Insert(c, NewId)
  /\ SFInsert(c, NewId)
  /\ chunklist' = Append(chunklist, DeltaEntry(c, h, SFFind(c), save))
  /\ StatsDelta(c, save)
  /\ Record(h, NewId)

\* A new chunk with a similar one: xd3_encode against the base it finds.
StoreDelta(c, h, save) ==
  /\ ~FP_Known(c) /\ HasBase(c) /\ save # 0 /\ MayHold(c, save)
  /\ FP_Insert(c, NewId)
  /\ chunklist' = Append(chunklist, DeltaEntry(c, h, SFFind(c), save))
  /\ StatsDelta(c, save)
  /\ Record(h, NewId)
  /\ UNCHANGED SFindex

\* Nothing keeps a delta from being larger than its chunk: Finesse prints "bug"
\* and goes on, NTransForm does not look.  The memcpy then writes over what lies
\* behind the buffer on the heap, and nothing is known of what follows.
Overrun(c) ==
  /\ backup < BackupNum /\ ~overrun
  /\ ~FP_Known(c) /\ HasBase(c) /\ \E save \in DeltaSizes : save > ChunkSize[c]
  /\ overrun' = TRUE
  /\ UNCHANGED <<absVars, SFindex, errors>>

\* ProcessTrace with the chunk Pop has returned.
Process(c, h) ==
  /\ backup < BackupNum /\ ~overrun
  /\ Len(sentData[backup]) + Len(sentHeader[backup]) < MaxChunks
  /\ HandedOver(c, h)
  /\ UNCHANGED <<backup, errors, overrun>>
  /\ \/ Duplicate(c)
     \/ ReadPastEnd(c)
     \/ StoreBase(c, h)
     \/ \E save \in DeltaSizes : StoreDelta(c, h, save)

\* "delta error": the fingerprint has been entered, nothing is stored, and
\* ProcessTrace returns, which ends the backup.
DeltaError(c) ==
  /\ backup < BackupNum /\ ~overrun /\ errors < MaxErrors /\ 0 \in DeltaSizes
  /\ ~FP_Known(c) /\ HasBase(c)
  /\ FP_Insert(c, NewId)
  /\ errors' = errors + 1
  /\ backup' = backup + 1
  /\ UNCHANGED <<SFindex, chunklist, stats, recipeVars, sentVars, overrun>>

\* The queue is drained: ProcessTrace ends and main goes on to the next file.
EndBackup ==
  /\ backup < BackupNum /\ ~overrun
  /\ backup' = backup + 1
  /\ UNCHANGED <<FPindex, SFindex, chunklist, stats, recipeVars, sentVars, errors, overrun>>

Next ==
  \/ \E p \in Offered : Process(p[1], p[2]) \/ DeltaError(p[1]) \/ Overrun(p[1])
  \/ EndBackup

Spec == Init /\ [][Next]_vars

-----------------------------------------------------------------------------
(* Properties *)

\* Unless a delta error, an overrun of the heap or a header with the bytes of a
\* data chunk has come in between, following the recipes gives back what the
\* chunker handed over, data and headers apart and in order, although most
\* chunks are stored elsewhere, earlier, or as a delta that is decoded without
\* recursion.
RestoreCorrect == errors = 0 /\ ~overrun /\ Apart => Restorable

\* FPindex names the chunk that has the fingerprint, as FP_Find's callers take
\* it to; a delta error spoils one fingerprint at most, even where the id it
\* was given is given out again to another chunk.
FPindexSound ==
  Cardinality({c \in DOMAIN FPindex :
                 FPindex[c] \in ChunkIds => Chunk(FPindex[c]).content # c}) <= errors
=============================================================================

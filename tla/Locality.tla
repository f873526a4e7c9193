------------------------------ MODULE Locality ------------------------------
(***************************************************************************)
(* The body of LocalDedup::ProcessTrace (src/src/method/Locality.cc).  It   *)
(* keeps no feature index: a new chunk is taken to resemble the stored      *)
(* chunk as far behind the last duplicate (plchunk) as the new chunk is     *)
(* behind it in the stream (DedupGap).                                      *)
(*                                                                          *)
(* The delta is encoded against lz4ChunkBuffer, the buffer LZ4_compress_fast *)
(* writes to, and not against the chunk fetched: <<"scratch">>, bytes that  *)
(* are the content of no chunk.  A delta of size 0 makes StatsDelta divide  *)
(* by zero.  ids are 64-bit unsigned numbers that start from -1.  localError, *)
(* localFlag and the local sizes are never read and left out.               *)
(***************************************************************************)
EXTENDS AbsMethod

CONSTANTS
  DeltaSizes,  \* sizes the delta encoder may report; 0 is a delta error
  Word,        \* 2^64, the number of values of an id
  MaxChunks    \* bound: chunks handed over in all

ASSUME LocalityAssumption ==
  /\ DeltaSizes \subseteq Nat
  /\ MaxChunks \in Nat
  /\ Word \in Nat /\ Word > 2 * MaxChunks + 1

VARIABLES
  plchunk,    \* plchunk.chunkId: the last duplicate among the data chunks
  DedupGap,   \* unique chunks since the last duplicate
  Version,    \* backups done
  bugCount,   \* deltas longer than their chunk
  crash       \* "no", or why the process was killed

vars == <<absVars, plchunk, DedupGap, Version, bugCount, crash>>

Init ==
  /\ AbsInit
  /\ plchunk = Word - 1
  /\ DedupGap = 0
  /\ Version = 0
  /\ bugCount = 0
  /\ crash = "no"

-----------------------------------------------------------------------------
(* One chunk *)

\* The fingerprint is known: the run of unique chunks ends.  Duplicate headers
\* do not move plchunk.
Duplicate(c) ==
  /\ FP_Known(c)
  /\ LET m == Chunk(FPindex[c])
     IN  /\ Record(m.HeaderFlag, FPindex[c])
         /\ DuplicateStats(m.chunkSize)
         /\ plchunk' = IF m.HeaderFlag THEN plchunk ELSE FPindex[c]
  /\ DedupGap' = 0
  /\ UNCHANGED <<FPindex, chunklist, bugCount, crash>>

\* plchunk.chunkId + DedupGap, after DedupGap++ for the new chunk.
Neighbour == (plchunk + DedupGap + 1) % Word

\* Mutant: no check that the neighbour is older than the new chunk.
LocalityHit_Unchecked == Version > 0

\* The neighbour must be older than the chunk before the new one.
LocalityHit == Neighbour < (NewId - 1) % Word /\ Version > 0

\* Get_Chunk_MetaInfo(Neighbour) reads an element chunklist does not have.
OutOfRange(c) ==
  /\ ~FP_Known(c) /\ LocalityHit /\ Neighbour \notin ChunkIds
  /\ crash' = "range"
  /\ UNCHANGED <<FPindex, chunklist, stats, recipeVars, plchunk, DedupGap, bugCount>>

\* The chunk the code fetches: the base of the neighbour if that is a delta.
Fetched ==
  IF Chunk(Neighbour).deltaFlag = "LOCAL_DELTA"
  THEN Chunk(Neighbour).basechunkID ELSE Neighbour

TooLong(c, save) == save > ChunkSize[c]

\* The delta is stored with the neighbour as its base.
StoreLocalDelta(c, h, save) ==
  /\ ~FP_Known(c) /\ LocalityHit /\ Neighbour \in ChunkIds /\ Fetched \in ChunkIds
  /\ ~TooLong(c, save) /\ save # 0
  /\ FP_Insert(c, NewId)
  /\ chunklist' = Append(chunklist,
       Entry(c, h, <<"delta", c, <<"scratch">>>>, "LOCAL_DELTA", Neighbour, save))
  /\ StatsDelta(c, save)
  /\ Record(h, NewId)
  /\ DedupGap' = DedupGap + 1
  /\ UNCHANGED <<plchunk, bugCount, crash>>

\* StatsDelta divides by the size of an empty delta.
EmptyDelta(c) ==
  /\ ~FP_Known(c) /\ LocalityHit /\ Neighbour \in ChunkIds /\ 0 \in DeltaSizes
  /\ crash' = "division"
  /\ UNCHANGED <<FPindex, chunklist, stats, recipeVars, plchunk, DedupGap, bugCount>>

\* The chunk is stored whole.
SaveBase(c, h) ==
  /\ FP_Insert(c, NewId)
  /\ chunklist' = Append(chunklist, BaseEntry(c, h))
  /\ BaseStats(c)
  /\ Record(h, NewId)
  /\ DedupGap' = DedupGap + 1
  /\ UNCHANGED <<plchunk, crash>>

StoreInstead(c, h, save) ==
  /\ ~FP_Known(c) /\ LocalityHit /\ Neighbour \in ChunkIds /\ TooLong(c, save)
  /\ SaveBase(c, h)
  /\ bugCount' = bugCount + 1

NoNeighbour(c, h) ==
  /\ ~FP_Known(c) /\ ~LocalityHit
  /\ SaveBase(c, h)
  /\ UNCHANGED bugCount

\* ProcessTrace with the chunk Pop has returned.
Process(c, h) ==
  /\ crash = "no" /\ backup < BackupNum /\ stats.logicalNum < MaxChunks
  /\ HandedOver(c, h)
  /\ UNCHANGED <<backup, Version>>
  /\ \/ Duplicate(c)
     \/ OutOfRange(c)
     \/ EmptyDelta(c)
     \/ NoNeighbour(c, h)
     \/ \E save \in DeltaSizes : StoreLocalDelta(c, h, save) \/ StoreInstead(c, h, save)

\* The queue is drained; plchunk and DedupGap carry over to the next backup.
EndBackup ==
  /\ crash = "no" /\ backup < BackupNum
  /\ backup' = backup + 1 /\ Version' = Version + 1
  /\ UNCHANGED <<FPindex, chunklist, stats, recipeVars, sentVars, plchunk, DedupGap,
                 bugCount, crash>>

Next == (\E p \in Offered : Process(p[1], p[2])) \/ EndBackup

Spec == Init /\ [][Next]_vars

-----------------------------------------------------------------------------
(* Properties *)

\* The chunk taken for the neighbour is stored, although plchunk and DedupGap
\* are only counted and never compared with chunklist: the one read out of
\* range is the very first chunk, after backups without any, when chunkID - 1
\* wraps around.
RangeOnlyWhenEmpty == crash = "range" => chunklist = <<>>

\* main.cc offers to "restore backup if you need": following the recipes gives
\* back what was handed over, unless the process was killed or a header had
\* the bytes of a data chunk.
RestoreCorrect == crash = "no" /\ Apart => Restorable
=============================================================================

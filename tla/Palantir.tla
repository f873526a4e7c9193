------------------------------ MODULE Palantir ------------------------------
(***************************************************************************)
(* The body of Palantir::ProcessTrace (src/src/method/palantir.cc) and its  *)
(* super-feature index of three tiers.  The first tier keeps its entries;   *)
(* those of the others carry the Version (the number of the backup) they    *)
(* were last written in, and CleanIndex erases old ones when a backup ends. *)
(* A delta that does not beat the average LZ4 ratio is dropped ("false      *)
(* fit") and the chunk stored whole; a duplicate of a whole chunk refreshes *)
(* its index entries.                                                       *)
(*                                                                          *)
(* An index entry is a vector of at most one element.  CleanIndex erases    *)
(* the element and leaves the key with an empty vector; begin() then points *)
(* to the storage the vector keeps, where the erased element still lies.    *)
(***************************************************************************)
EXTENDS AbsMethod, FiniteSets

CONSTANTS
  SuperFeature, \* SuperFeature[c]: the sequence PalantirGetSF computes for c
  TierEnd,      \* TierEnd[t]: last position of tier t in it (3, 7, 13)
  Keep,         \* Keep[t]: CleanIndex erases below Version - Keep[t] (5 and 2)
  DeltaSizes,   \* sizes the delta encoder may report; 0 is a delta error
  JunkSizes,    \* bound: chunk sizes a read past the end of chunklist may find
  MaxChunks,    \* bound: chunks handed over in all
  MaxErrors     \* bound: delta errors

Tiers == 1 .. 3
CleanedTiers == 2 .. 3

ASSUME PalantirAssumption ==
  /\ MaxChunks \in Nat /\ MaxErrors \in Nat
  /\ TierEnd \in [Tiers -> Nat] /\ TierEnd[1] <= TierEnd[2] /\ TierEnd[2] <= TierEnd[3]
  /\ Keep \in [CleanedTiers -> Nat]
  /\ \A c \in Contents : DOMAIN SuperFeature[c] = 1 .. TierEnd[3]
  /\ DeltaSizes \subseteq Nat /\ JunkSizes \subseteq Nat

VARIABLES
  Version,    \* backups whose ProcessTrace ended normally
  SFindex,    \* SFindex[t]: feature -> [id, version, empty], for the keys there
  LZ4Ratio,   \* <<n, d>>: the ratio n / d a delta must reach
  baseOri,    \* basechunkOriSize
  SFcount,    \* SFNew, SFDelete and SFnum
  errors      \* delta errors (history)

vars == <<absVars, Version, SFindex, LZ4Ratio, baseOri, SFcount, errors>>

Init ==
  /\ AbsInit
  /\ Version = 0
  /\ SFindex = [t \in Tiers |-> Empty]
  /\ LZ4Ratio = <<2, 1>>
  /\ baseOri = 0
  /\ SFcount = [new |-> 0, deleted |-> 0, num |-> 0]
  /\ errors = 0

-----------------------------------------------------------------------------
(* The super-feature index *)

\* The positions of c's features that are keys of tier t: every feature is
\* looked up in every tier.  Emptied entries count (the first tier has none).
Hits(c, t) == {k \in 1 .. TierEnd[3] : SuperFeature[c][k] \in DOMAIN SFindex[t]}

Least(S) == CHOOSE x \in S : \A y \in S : x <= y

\* The chunk of the first feature found in the first tier where one is found;
\* (SF_Find) begin()->chunkid of an emptied entry is the id that was erased.
SFFind(c) ==
  LET tiers == {t \in Tiers : Hits(c, t) # {}}
      t == Least(tiers)
  IN  IF tiers = {} THEN NoChunk
      ELSE SFindex[t][SuperFeature[c][Least(Hits(c, t))]].id

\* The features of c that are inserted in tier t.
Keys(c, t) ==
  LET first == IF t = 1 THEN 1 ELSE TierEnd[t - 1] + 1
  IN  {SuperFeature[c][k] : k \in first .. TierEnd[t]}

Live(t) == {f \in DOMAIN SFindex[t] : ~SFindex[t][f].empty}

\* Adding up one number per tier.
TierSum(n) == n[1] + n[2] + n[3]

\* Mutant: a cleaned entry that is filled again is not counted.
NewEntries_Absent(c) ==
  TierSum([t \in Tiers |-> Cardinality(Keys(c, t) \ DOMAIN SFindex[t])])

\* What SF_Insert adds to SFNew: entries that were not there or are empty.
NewEntries(c) == TierSum([t \in Tiers |-> Cardinality(Keys(c, t) \ Live(t))])

\* SF_Insert: every entry of c now names chunk id, in this Version.
SFInsert(c, id) ==
  /\ SFindex' = [t \in Tiers |->
                   [f \in DOMAIN SFindex[t] \union Keys(c, t) |->
                      IF f \in Keys(c, t)
                      THEN [id |-> id, version |-> Version, empty |-> FALSE]
                      ELSE SFindex[t][f]]]
  /\ SFcount' = [SFcount EXCEPT !.new = @ + NewEntries(c)]

\* Mutant: an entry is kept for one backup more.
Expired_Late(t) == {f \in Live(t) : SFindex[t][f].version < Version - Keep[t] - 1}

\* What CleanIndex erases in a tier.
Expired(t) == {f \in Live(t) : SFindex[t][f].version < Version - Keep[t]}

Erased == Cardinality(Expired(2)) + Cardinality(Expired(3))

\* Erased entries keep their keys; ProcessTrace then takes stock in SFnum.
CleanIndex ==
  /\ SFindex' = [t \in Tiers |->
                   IF t \notin CleanedTiers THEN SFindex[t]
                   ELSE [f \in DOMAIN SFindex[t] |->
                           IF f \in Expired(t) THEN [SFindex[t][f] EXCEPT !.empty = TRUE]
                           ELSE SFindex[t][f]]]
  /\ SFcount' = [SFcount EXCEPT !.deleted = @ + Erased,
                                !.num = SFcount.new - (SFcount.deleted + Erased)]

-----------------------------------------------------------------------------
(* One chunk *)

\* Mutant: a duplicate is indexed whatever its form.
Refreshes_Always(chunk) == TRUE

\* A duplicate renews the index entries only if it is stored whole.
Refreshes(chunk) == IsBase(chunk)

\* tmpChunk becomes a copy of m, the stored chunk's entry, HeaderFlag included.
DuplicateOf(c, id, m) ==
  /\ Record(m.HeaderFlag, id)
  /\ DuplicateStats(m.chunkSize)
  /\ IF Refreshes(m) THEN SFInsert(c, id) ELSE UNCHANGED <<SFindex, SFcount>>
  /\ UNCHANGED <<FPindex, LZ4Ratio, baseOri, chunklist>>

\* The fingerprint is known.
Duplicate(c) ==
  /\ FP_Known(c) /\ FPindex[c] \in ChunkIds
  /\ DuplicateOf(c, FPindex[c], Chunk(FPindex[c]))

\* After a delta error the index may name a chunk that was never stored:
\* Get_Chunk_MetaInfo reads past the end of chunklist, and all it copies is
\* whatever lies there.
ReadPastEnd(c) ==
  /\ FP_Known(c) /\ FPindex[c] \notin ChunkIds
  /\ \E h \in BOOLEAN, flag \in {"NO_DELTA", "DELTA"},
        id \in ChunkIds \union {NoChunk}, size \in JunkSizes :
       DuplicateOf(c, id, [HeaderFlag |-> h, deltaFlag |-> flag, chunkSize |-> size])

\* The chunk is stored whole and indexed, and LZ4Ratio becomes the average.
SaveBase(c, h) ==
  /\ FP_Insert(c, NewId)
  /\ SFInsert(c, NewId)
  /\ chunklist' = Append(chunklist, BaseEntry(c, h))
  /\ BaseStats(c)
  /\ baseOri' = baseOri + ChunkSize[c]
  /\ LZ4Ratio' = <<baseOri + ChunkSize[c], stats.base + BaseSave(c)>>
  /\ Record(h, NewId)

NoSimilar(c, h) ==
  /\ ~FP_Known(c) /\ SFFind(c) = NoChunk
  /\ SaveBase(c, h)

\* Mutant: any delta is taken.
PoorFit_Never(c, save) == FALSE

\* chunkSize / saveSize < LZ4Ratio
PoorFit(c, save) == ChunkSize[c] * LZ4Ratio[2] < LZ4Ratio[1] * save

\* The delta is worse than what LZ4 gives on average.
FalseFit(c, h, save) ==
  /\ ~FP_Known(c) /\ SFFind(c) # NoChunk /\ save # 0 /\ PoorFit(c, save)
  /\ SaveBase(c, h)

StoreDelta(c, h, save) ==
  /\ ~FP_Known(c) /\ SFFind(c) # NoChunk /\ save # 0 /\ ~PoorFit(c, save)
  /\ FP_Insert(c, NewId)
  /\ chunklist' = Append(chunklist,
       Entry(c, h, <<"delta", c, ReferenceIn(chunklist, SFFind(c))>>, "DELTA",
             SFFind(c), save))
  /\ StatsDelta(c, save)
  /\ Record(h, NewId)
  /\ UNCHANGED <<SFindex, SFcount, LZ4Ratio, baseOri>>

\* ProcessTrace with the chunk Pop has returned.
Process(c, h) ==
  /\ backup < BackupNum /\ stats.logicalNum < MaxChunks
  /\ HandedOver(c, h)
  /\ UNCHANGED <<backup, Version, errors>>
  /\ \/ Duplicate(c)
     \/ ReadPastEnd(c)
     \/ NoSimilar(c, h)
     \/ \E save \in DeltaSizes : FalseFit(c, h, save) \/ StoreDelta(c, h, save)

\* "delta error": the fingerprint has been entered, nothing is stored, and
\* ProcessTrace returns without cleaning the index or counting the Version.
DeltaError(c) ==
  /\ backup < BackupNum /\ errors < MaxErrors /\ 0 \in DeltaSizes
  /\ ~FP_Known(c) /\ SFFind(c) # NoChunk
  /\ FP_Insert(c, NewId)
  /\ errors' = errors + 1
  /\ backup' = backup + 1
  /\ UNCHANGED <<chunklist, stats, recipeVars, sentVars, Version, SFindex, SFcount,
                 LZ4Ratio, baseOri>>

\* The queue is drained: the index is cleaned and the next file is taken.
EndBackup ==
  /\ backup < BackupNum
  /\ CleanIndex
  /\ Version' = Version + 1
  /\ backup' = backup + 1
  /\ UNCHANGED <<FPindex, chunklist, stats, recipeVars, sentVars, LZ4Ratio, baseOri, errors>>

Next ==
  \/ \E p \in Offered : Process(p[1], p[2]) \/ DeltaError(p[1])
  \/ EndBackup

Spec == Init /\ [][Next]_vars

-----------------------------------------------------------------------------
(* Properties.  Accounting and DeltaFits are those of AbsMethod: here nothing *)
(* compares a delta with its chunk, and DeltaFits rests on the average LZ4    *)
(* ratio never falling below 1.                                               *)

\* Unless a delta error or a header with the bytes of a data chunk has come in
\* between, following the recipes gives back what the chunker handed over,
\* although a base may be found through an entry CleanIndex has erased, bases
\* change as duplicates refresh the index, and deltas are decoded without
\* recursion.
RestoreCorrect == errors = 0 /\ Apart => Restorable

\* SFNew - SFDelete, from which the reported index size is computed, is the
\* number of entries that are there, emptied and refilled ones included.
SFnumExact ==
  SFcount.new - SFcount.deleted = TierSum([t \in Tiers |-> Cardinality(Live(t))])

\* No entry of a cleaned tier outlives its span of Versions, whatever delta
\* errors skip the cleaning.
Retention ==
  \A t \in CleanedTiers : \A f \in Live(t) :
    SFindex[t][f].version >= Version - 1 - Keep[t]

\* Whatever SF_Find returns, through a live, a refreshed or an erased entry, is
\* a chunk stored whole that shares a feature with c.
SimilarBase ==
  errors = 0 =>
    \A c \in {x \in Contents : SFFind(x) # NoChunk} :
      /\ SFFind(c) \in ChunkIds /\ IsBase(Chunk(SFFind(c)))
      /\ \E k, l \in 1 .. TierEnd[3] :
           SuperFeature[c][k] = SuperFeature[Chunk(SFFind(c)).content][l]
=============================================================================

-------------------------- MODULE DeltaDedupProofs --------------------------
(***************************************************************************)
(* The properties of DeltaDedup for every value of the constants: the       *)
(* counters add up (Accounting), a delta error spoils at most one           *)
(* fingerprint (FPindexSound), and what has gone well restores              *)
(* (RestoreCorrect).                                                        *)
(***************************************************************************)
EXTENDS DeltaDedup, MethodProofs, FiniteSetTheorems

-----------------------------------------------------------------------------
(* Accounting *)

LEMMA AccountInductive == AccountInv /\ [Next]_vars => AccountInv'
<1> SUFFICES ASSUME AccountInv, [Next]_vars PROVE AccountInv'
  OBVIOUS
<1> USE DEF AccountInv
<1>1. ASSUME UNCHANGED <<stats, chunklist>> PROVE AccountInv'
  BY <1>1, SameCounts DEF SizesInv, Chunk, ChunkIds
<1>2. ASSUME NEW size \in Nat, DuplicateStats(size), UNCHANGED chunklist PROVE AccountInv'
  BY <1>2, DuplicateCounts DEF SizesInv, Chunk, ChunkIds
<1>3. ASSUME NEW p \in Offered, Process(p[1], p[2]) PROVE AccountInv'
  <2>1. p[1] \in Contents /\ ChunkSize[p[1]] \in Nat
    BY AbsMethodAssumption, BaseSaveBounds DEF AbsMethodAssumption
  <2>2. CASE Duplicate(p[1])
    BY <1>2, <2>2 DEF Duplicate, SizesInv
  <2>3. CASE ReadPastEnd(p[1])
    BY <1>2, <2>3, DeltaDedupAssumption DEF ReadPastEnd, DeltaDedupAssumption
  <2>4. CASE StoreBase(p[1], p[2])
    <3>1. CountInv'
      BY <2>1, <2>4, BaseCounts DEF StoreBase
    <3>2. BaseEntry(p[1], p[2]).chunkSize \in Nat
      BY <2>1 DEF BaseEntry, Entry
    <3> QED BY <2>4, <3>1, <3>2, AppendSizes DEF StoreBase, CountInv
  <2>5. ASSUME NEW save \in DeltaSizes, StoreDelta(p[1], p[2], save) PROVE AccountInv'
    <3>1. save \in Int
      BY DeltaDedupAssumption DEF DeltaDedupAssumption
    <3>2. CountInv'
      BY <2>1, <2>5, <3>1, DeltaCounts DEF StoreDelta
    <3>3. DeltaEntry(p[1], p[2], SFFind(p[1]), save).chunkSize \in Nat
      BY <2>1 DEF DeltaEntry, Entry
    <3> QED BY <2>5, <3>2, <3>3, AppendSizes DEF StoreDelta, CountInv
  <2> QED BY <1>3, <2>2, <2>3, <2>4, <2>5 DEF Process
<1>4. ASSUME NEW p \in Offered, DeltaError(p[1]) PROVE AccountInv'
  BY <1>1, <1>4 DEF DeltaError
<1>5. CASE EndBackup
  BY <1>1, <1>5 DEF EndBackup
<1>6. ASSUME NEW p \in Offered, Overrun(p[1]) PROVE AccountInv'
  BY <1>1, <1>6 DEF Overrun, absVars
<1>7. CASE UNCHANGED vars
  BY <1>1, <1>7 DEF vars, absVars
<1> QED BY <1>3, <1>4, <1>5, <1>6, <1>7 DEF Next

LEMMA AccountInvariant == Spec => []AccountInv
<1>1. Init => AccountInv
  BY InitCounts DEF Init, AbsInit, AccountInv, SizesInv, ChunkIds, IdsOf
<1> QED BY <1>1, AccountInductive, PTL DEF Spec

\* The sizes and numbers PrintChunkInfo reports add up after every chunk, for
\* all chunk, LZ4 and delta sizes, whatever a read past the end of chunklist
\* finds and wherever delta errors end a backup.
THEOREM AccountingHolds == Spec => []Accounting
<1>1. AccountInv => Accounting
  BY CountsAccount DEF AccountInv
<1> QED BY <1>1, AccountInvariant, PTL

-----------------------------------------------------------------------------
(* FPindexSound *)

\* The fingerprints that lead to no chunk or to the wrong one.
Spoiled == {c \in DOMAIN FPindex : FPindex[c] \in ChunkIds => Chunk(FPindex[c]).content # c}

\* CountInv says that the id FP_Insert is given is the one past the list.
SpoiledInv ==
  /\ CountInv
  /\ errors \in Nat
  /\ IsFiniteSet(Spoiled) /\ Cardinality(Spoiled) <= errors

\* A chunk stored under the id its fingerprint was given leaves the spoiled
\* fingerprints as they were: one that names the same id, from an earlier delta
\* error, is another content, and so still wrong.
LEMMA StoreSpoilsNone ==
  ASSUME CountInv, NEW c, ~FP_Known(c), FP_Insert(c, NewId),
         NEW e, e.content = c, chunklist' = Append(chunklist, e)
  PROVE  Spoiled' = Spoiled
<1> DEFINE n == Len(chunklist)
<1>1. NewId = n
  BY DEF NewId, CountInv
<1>2. /\ Prolongs(chunklist', chunklist) /\ n \in IdsOf(chunklist')
      /\ ChunkAt(chunklist', n) = e
      /\ \A id \in IdsOf(chunklist') : id \in IdsOf(chunklist) \/ id = n
  BY AppendProlongs DEF CountInv
<1>3. /\ DOMAIN FPindex' = DOMAIN FPindex \union {c}
      /\ FPindex'[c] = n
      /\ \A d \in DOMAIN FPindex : d # c /\ FPindex'[d] = FPindex[d]
  BY <1>1 DEF FP_Insert, FP_Known
<1> DEFINE Wrong(d) == FPindex[d] \in IdsOf(chunklist)
                         => ChunkAt(chunklist, FPindex[d]).content # d
           WrongNow(d) == FPindex'[d] \in IdsOf(chunklist')
                            => ChunkAt(chunklist', FPindex'[d]).content # d
<1>4. ~WrongNow(c)
  BY <1>2, <1>3
<1>5. ASSUME NEW d \in DOMAIN FPindex PROVE WrongNow(d) <=> Wrong(d)
  <2>1. d # c /\ FPindex'[d] = FPindex[d]
    BY <1>3
  <2>2. CASE FPindex[d] \in IdsOf(chunklist)
    BY <1>2, <2>1, <2>2 DEF Prolongs
  <2>3. CASE FPindex[d] \notin IdsOf(chunklist)
    BY <1>2, <2>1, <2>3
  <2> QED BY <2>2, <2>3
<1>6. /\ Spoiled = {d \in DOMAIN FPindex : Wrong(d)}
      /\ Spoiled' = {d \in DOMAIN FPindex' : WrongNow(d)}
  BY DEF Spoiled, Chunk, ChunkIds
<1> HIDE DEF Wrong, WrongNow
<1> QED BY <1>3, <1>4, <1>5, <1>6

\* The fingerprint of a chunk that is not stored after all is the one more.
LEMMA ErrorSpoilsOne ==
  ASSUME CountInv, NEW c, ~FP_Known(c), FP_Insert(c, NewId), UNCHANGED chunklist
  PROVE  Spoiled' = Spoiled \union {c} /\ c \notin Spoiled
<1>1. /\ DOMAIN FPindex' = DOMAIN FPindex \union {c}
      /\ FPindex'[c] = Len(chunklist)
      /\ \A d \in DOMAIN FPindex : d # c /\ FPindex'[d] = FPindex[d]
  BY DEF FP_Insert, FP_Known, NewId, CountInv
<1>2. Len(chunklist) \notin ChunkIds
  BY AppendSeq DEF CountInv, ChunkIds, IdsOf
<1> DEFINE Wrong(d) == FPindex[d] \in ChunkIds => Chunk(FPindex[d]).content # d
           WrongNow(d) == FPindex'[d] \in ChunkIds => Chunk(FPindex'[d]).content # d
<1>3. WrongNow(c) /\ \A d \in DOMAIN FPindex : d # c /\ (WrongNow(d) <=> Wrong(d))
  BY <1>1, <1>2
<1>4. /\ Spoiled = {d \in DOMAIN FPindex : Wrong(d)}
      /\ Spoiled' = {d \in DOMAIN FPindex' : WrongNow(d)}
  BY DEF Spoiled, Chunk, ChunkIds
<1> HIDE DEF Wrong, WrongNow
<1> QED BY <1>1, <1>3, <1>4

LEMMA SpoiledInductive == AccountInv /\ SpoiledInv /\ [Next]_vars => SpoiledInv'
<1> SUFFICES ASSUME AccountInv, SpoiledInv, [Next]_vars PROVE SpoiledInv'
  OBVIOUS
<1>0. CountInv'
  BY AccountInductive DEF AccountInv
<1>1. ASSUME Spoiled' = Spoiled, errors' = errors PROVE SpoiledInv'
  BY <1>0, <1>1 DEF SpoiledInv
<1>2. ASSUME UNCHANGED <<FPindex, chunklist, errors>> PROVE SpoiledInv'
  BY <1>1, <1>2 DEF Spoiled, Chunk, ChunkIds
<1>3. ASSUME NEW p \in Offered, Process(p[1], p[2]) PROVE SpoiledInv'
  <2>1. CASE Duplicate(p[1]) \/ ReadPastEnd(p[1])
    BY <1>2, <1>3, <2>1 DEF Process, Duplicate, ReadPastEnd
  <2>2. CASE StoreBase(p[1], p[2])
    <3>1. BaseEntry(p[1], p[2]).content = p[1]
      BY DEF BaseEntry, Entry
    <3>2. Spoiled' = Spoiled
      BY <2>2, <3>1, StoreSpoilsNone DEF StoreBase, SpoiledInv
    <3> QED BY <1>1, <1>3, <3>2 DEF Process
  <2>3. ASSUME NEW save \in DeltaSizes, StoreDelta(p[1], p[2], save) PROVE SpoiledInv'
    <3>1. DeltaEntry(p[1], p[2], SFFind(p[1]), save).content = p[1]
      BY DEF DeltaEntry, Entry
    <3>2. Spoiled' = Spoiled
      BY <2>3, <3>1, StoreSpoilsNone DEF StoreDelta, SpoiledInv
    <3> QED BY <1>1, <1>3, <3>2 DEF Process
  <2> QED BY <1>3, <2>1, <2>2, <2>3 DEF Process
<1>4. ASSUME NEW p \in Offered, DeltaError(p[1]) PROVE SpoiledInv'
  <2>1. Spoiled' = Spoiled \union {p[1]} /\ p[1] \notin Spoiled
    BY <1>4, ErrorSpoilsOne DEF DeltaError, SpoiledInv
  <2>2. IsFiniteSet(Spoiled') /\ Cardinality(Spoiled') = Cardinality(Spoiled) + 1
    BY <2>1, FS_AddElement DEF SpoiledInv
  <2>3. errors' = errors + 1 /\ errors \in Nat /\ Cardinality(Spoiled) \in Nat
    BY <1>4, FS_CardinalityType DEF DeltaError, SpoiledInv
  <2> QED BY <1>0, <2>2, <2>3 DEF SpoiledInv
<1>5. CASE EndBackup
  BY <1>2, <1>5 DEF EndBackup
<1>6. ASSUME NEW p \in Offered, Overrun(p[1]) PROVE SpoiledInv'
  BY <1>2, <1>6 DEF Overrun, absVars
<1>7. CASE UNCHANGED vars
  BY <1>2, <1>7 DEF vars, absVars
<1> QED BY <1>3, <1>4, <1>5, <1>6, <1>7 DEF Next

\* There are never more fingerprints that FP_Find answers wrongly than there
\* were delta errors, for any number of contents, backups and errors, and
\* although the ids of chunks that were not stored are given out again.
THEOREM FPindexSoundHolds == Spec => []FPindexSound
<1>1. Init => SpoiledInv
  <2> SUFFICES ASSUME Init PROVE SpoiledInv
    OBVIOUS
  <2>1. Spoiled = {} /\ errors = 0
    BY DEF Init, AbsInit, Empty, Spoiled
  <2> QED BY <2>1, InitCounts, FS_EmptySet DEF Init, SpoiledInv
<1>2. SpoiledInv => FPindexSound
  BY DEF SpoiledInv, FPindexSound, Spoiled
<1> QED BY <1>1, <1>2, SpoiledInductive, AccountInvariant, PTL DEF Spec

-----------------------------------------------------------------------------
(* RestoreCorrect *)

\* The super-feature index names chunks that are stored whole.
BasesInv ==
  /\ SFindex \in [1 .. SFNum -> [FeatureVals -> Seq(Int)]]
  /\ \A n \in 1 .. SFNum, f \in FeatureVals : \A k \in 1 .. Len(SFindex[n][f]) :
       SFindex[n][f][k] \in ChunkIds /\ IsBase(Chunk(SFindex[n][f][k]))

\* Only until the first delta error: from then on a fingerprint may lead to a
\* chunk with another content.
CleanInv ==
  /\ backup \in Nat /\ errors \in Nat
  /\ errors = 0 => RestoreInv /\ BasesInv

\* What SF_Find returns is a chunk stored whole.
LEMMA FoundIsBase ==
  ASSUME BasesInv, NEW c \in Contents, HasBase(c)
  PROVE  SFFind(c) \in IdsOf(chunklist) /\ IsBase(ChunkAt(chunklist, SFFind(c)))
<1> DEFINE n == CHOOSE m \in SFHits(c) : \A l \in SFHits(c) : m <= l
           ids == SFindex[n][Features[c][n]]
<1>1. SFHits(c) \in SUBSET Nat /\ SFHits(c) # {}
  BY DeltaDedupAssumption DEF SFHits, HasBase, DeltaDedupAssumption
<1>2. n \in SFHits(c)
  BY <1>1, LeastExists
<1>3. n \in 1 .. SFNum /\ ids # <<>>
  BY <1>2 DEF SFHits
<1>4. Features[c][n] \in FeatureVals
  BY <1>3, DeltaDedupAssumption DEF DeltaDedupAssumption
<1>5. ids \in Seq(Int)
  BY <1>3, <1>4 DEF BasesInv
<1>6. Len(ids) \in 1 .. Len(ids)
  BY <1>3, <1>5
<1>7. SFFind(c) = ids[Len(ids)]
  BY DEF SFFind
<1> HIDE DEF n
<1> QED BY <1>3, <1>4, <1>6, <1>7 DEF BasesInv, Chunk, ChunkIds

LEMMA ProlongsBases ==
  ASSUME BasesInv, Prolongs(chunklist', chunklist), UNCHANGED SFindex
  PROVE  BasesInv'
BY DEF BasesInv, Prolongs, Chunk, ChunkIds

LEMMA InsertBases ==
  ASSUME BasesInv, Prolongs(chunklist', chunklist), NEW c \in Contents,
         NEW id \in IdsOf(chunklist'), IsBase(ChunkAt(chunklist', id)), SFInsert(c, id)
  PROVE  BasesInv'
<1>1. id \in Int
  BY DEF IdsOf
<1>2. ASSUME NEW n \in 1 .. SFNum
      PROVE  Features[c][n] \in FeatureVals /\ SFindex[n] \in [FeatureVals -> Seq(Int)]
  BY <1>2, DeltaDedupAssumption DEF DeltaDedupAssumption, BasesInv
<1>3. ASSUME NEW n \in 1 .. SFNum, NEW f \in FeatureVals
      PROVE  /\ SFindex'[n][f] \in Seq(Int)
             /\ \A k \in 1 .. Len(SFindex'[n][f]) :
                  /\ SFindex'[n][f][k] \in IdsOf(chunklist')
                  /\ IsBase(ChunkAt(chunklist', SFindex'[n][f][k]))
  <2> DEFINE ids == SFindex[n][f]
  <2>1. /\ ids \in Seq(Int)
        /\ \A k \in 1 .. Len(ids) : /\ ids[k] \in IdsOf(chunklist')
                                    /\ IsBase(ChunkAt(chunklist', ids[k]))
    BY <1>2, <1>3 DEF BasesInv, Prolongs, Chunk, ChunkIds
  <2>2. SFindex'[n] = [SFindex[n] EXCEPT ![Features[c][n]] = Append(@, id)]
    BY <1>3 DEF SFInsert
  <2>3. SFindex'[n][f] = ids \/ SFindex'[n][f] = Append(ids, id)
    BY <1>2, <1>3, <2>2
  <2>4. Append(ids, id) \in Seq(Int) /\ Len(Append(ids, id)) = Len(ids) + 1
    BY <1>1, <2>1
  <2>5. ASSUME NEW k \in 1 .. Len(Append(ids, id))
        PROVE  /\ Append(ids, id)[k] \in IdsOf(chunklist')
               /\ IsBase(ChunkAt(chunklist', Append(ids, id)[k]))
    <3> HIDE DEF ids
    <3>1. Append(ids, id)[k] = IF k = Len(ids) + 1 THEN id ELSE ids[k]
      BY ONLY <1>1, <2>1, <2>4, k \in 1 .. Len(Append(ids, id))
    <3> QED BY <2>1, <2>4, <2>5, <3>1
  <2> QED BY <2>1, <2>3, <2>4, <2>5
<1>4. /\ DOMAIN SFindex' = 1 .. SFNum
      /\ \A n \in 1 .. SFNum : /\ SFindex'[n] = [f \in FeatureVals |-> SFindex'[n][f]]
      /\ SFindex' = [n \in 1 .. SFNum |-> SFindex'[n]]
  BY <1>2 DEF SFInsert
<1>5. SFindex' \in [1 .. SFNum -> [FeatureVals -> Seq(Int)]]
  BY <1>3, <1>4
<1> QED BY <1>3, <1>5 DEF BasesInv, Chunk, ChunkIds

LEMMA CleanInductive ==
  ASSUME AccountInv, CleanInv, [Next]_vars
  PROVE  CleanInv'
<1>1. CountInv /\ backup \in Nat /\ errors \in Nat
  BY DEF AccountInv, CleanInv
<1>2. ASSUME backup' \in Nat, errors' = errors, errors = 0 => RestoreInv' /\ BasesInv'
      PROVE  CleanInv'
  BY <1>1, <1>2 DEF CleanInv
<1>3. ASSUME UNCHANGED <<FPindex, chunklist, recipeVars, sentVars, SFindex>>, errors = 0
      PROVE  RestoreInv' /\ BasesInv'
  BY <1>3, SameRestores DEF CleanInv, BasesInv, Chunk, ChunkIds
<1>4. ASSUME NEW p \in Offered, Process(p[1], p[2]) PROVE CleanInv'
  <2>1. /\ backup \in Backups /\ HandedOver(p[1], p[2]) /\ UNCHANGED <<backup, errors>>
        /\ p[1] \in Contents
    BY <1>1, <1>4, AbsMethodAssumption DEF Process, Backups, AbsMethodAssumption
  <2> SUFFICES ASSUME errors = 0 PROVE RestoreInv' /\ BasesInv'
    BY <1>1, <1>2, <2>1
  <2>2. RestoreInv /\ BasesInv
    BY DEF CleanInv
  <2>3. CASE Duplicate(p[1])
    BY <2>1, <2>2, <2>3, DuplicateRestores DEF Duplicate, BasesInv, Chunk, ChunkIds
  <2>4. ~ReadPastEnd(p[1])
    BY <2>2 DEF ReadPastEnd, FP_Known, RestoreInv, IndexInv
  <2>5. CASE StoreBase(p[1], p[2])
    <3> DEFINE e == BaseEntry(p[1], p[2])
    <3>1. /\ e.content = p[1] /\ e.HeaderFlag = p[2] /\ IsBase(e)
          /\ e.bytes = <<"whole", e.content>>
      BY DEF BaseEntry, Entry, IsBase
    <3>2. chunklist' = Append(chunklist, e) /\ FP_Insert(p[1], NewId) /\ Record(p[2], NewId)
      BY <2>5 DEF StoreBase
    <3>3. NewId = Len(chunklist) /\ IsSeq(chunklist)
      BY <1>1 DEF NewId, CountInv
    <3> HIDE DEF e
    <3>4. RestoreInv'
      BY <1>1, <2>1, <2>2, <3>1, <3>2, StoreRestores
    <3>5. /\ Prolongs(chunklist', chunklist) /\ Len(chunklist) \in IdsOf(chunklist')
          /\ ChunkAt(chunklist', Len(chunklist)) = e
      BY <3>2, <3>3, AppendProlongs
    <3>6. CASE UNCHANGED SFindex
      BY <2>2, <3>4, <3>5, <3>6, ProlongsBases
    <3>7. CASE SFInsert(p[1], NewId)
      BY <2>1, <2>2, <3>1, <3>3, <3>4, <3>5, <3>7, InsertBases
    <3> QED BY <2>5, <3>6, <3>7 DEF StoreBase
  <2>6. ASSUME NEW save \in DeltaSizes, StoreDelta(p[1], p[2], save)
        PROVE  RestoreInv' /\ BasesInv'
    <3> DEFINE e == DeltaEntry(p[1], p[2], SFFind(p[1]), save)
    <3>1. /\ e.content = p[1] /\ e.HeaderFlag = p[2] /\ ~IsBase(e)
          /\ e.basechunkID = SFFind(p[1])
          /\ e.bytes = <<"delta", e.content, ReferenceIn(chunklist, e.basechunkID)>>
      BY DEF DeltaEntry, Entry, IsBase
    <3>2. /\ chunklist' = Append(chunklist, e) /\ FP_Insert(p[1], NewId)
          /\ Record(p[2], NewId) /\ HasBase(p[1]) /\ UNCHANGED SFindex
      BY <2>6 DEF StoreDelta
    <3>3. /\ e.basechunkID \in IdsOf(chunklist)
          /\ IsBase(ChunkAt(chunklist, e.basechunkID))
      BY <2>1, <2>2, <3>1, <3>2, FoundIsBase
    <3> HIDE DEF e
    <3>4. RestoreInv'
      BY <1>1, <2>1, <2>2, <3>1, <3>2, <3>3, StoreRestores
    <3>5. Prolongs(chunklist', chunklist)
      BY <1>1, <3>2, AppendProlongs DEF CountInv
    <3> QED BY <2>2, <3>2, <3>4, <3>5, ProlongsBases
  <2> QED BY <1>4, <2>3, <2>4, <2>5, <2>6 DEF Process
<1>5. ASSUME NEW p \in Offered, DeltaError(p[1]) PROVE CleanInv'
  BY <1>1, <1>5 DEF DeltaError, CleanInv
<1>6. CASE EndBackup
  BY <1>1, <1>2, <1>3, <1>6 DEF EndBackup
<1>7. ASSUME NEW p \in Offered, Overrun(p[1]) PROVE CleanInv'
  BY <1>1, <1>2, <1>3, <1>7 DEF Overrun, absVars
<1>8. CASE UNCHANGED vars
  BY <1>1, <1>2, <1>3, <1>8 DEF vars, absVars
<1> QED BY <1>4, <1>5, <1>6, <1>7, <1>8 DEF Next

\* As long as no delta error and no overrun of the heap has occurred and no
\* content has come both as data and as a header, every recipe gives back what
\* was handed over, for all contents, features, sizes and backups.  A delta is
\* never made against another delta, because only chunks stored whole are indexed.
THEOREM RestoreCorrectHolds == Spec => []RestoreCorrect
<1>1. Init => CleanInv
  <2> SUFFICES ASSUME Init PROVE CleanInv
    OBVIOUS
  <2>1. BasesInv
    <3>1. <<>> \in Seq(Int)
      OBVIOUS
    <3>2. SFindex = [n \in 1 .. SFNum |-> [f \in FeatureVals |-> <<>>]]
      BY DEF Init
    <3> QED BY <3>1, <3>2 DEF BasesInv
  <2> QED BY <2>1, InitRestores DEF Init, AbsInit, CleanInv
<1>2. AccountInv /\ CleanInv /\ [Next]_vars => CleanInv'
  BY CleanInductive
<1>3. CleanInv => RestoreCorrect
  BY FollowingRestores DEF CleanInv, RestoreCorrect, RestoreInv
<1> QED BY <1>1, <1>2, <1>3, AccountInvariant, PTL DEF Spec
=============================================================================

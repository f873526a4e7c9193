-------------------------- MODULE SimilarityProofs --------------------------
(***************************************************************************)
(* The two ways to a base chunk, for every value of the constants.  By its  *)
(* place: in Locality the chunk taken for the neighbour, and the one        *)
(* fetched in its place, are in chunklist (RangeOnlyWhenEmpty), and the     *)
(* counters add up (Accounting).  By its features: the two tables of        *)
(* FeatureIndexTable stay inverse to each other (IndexInverse), and feeding *)
(* xxHash pieces gives the hash of the one call (StreamEqualsOneShot).      *)
(***************************************************************************)
EXTENDS Locality, Features, MethodProofs, FiniteSetTheorems, SequenceTheorems

-----------------------------------------------------------------------------
(* Locality *)

\* plchunk and DedupGap are only numbers: it is the comparison with chunkID - 1
\* that keeps the neighbour in range, as long as there are fewer chunks than ids.
NeighbourInv ==
  /\ AccountInv
  /\ stats.uniqueNum <= stats.logicalNum /\ stats.logicalNum <= MaxChunks
  /\ \A c \in DOMAIN FPindex : FPindex[c] \in ChunkIds
  /\ plchunk \in Int /\ DedupGap \in Int
  /\ \A id \in ChunkIds : Chunk(id).deltaFlag = "LOCAL_DELTA" => Chunk(id).basechunkID \in ChunkIds
  /\ RangeOnlyWhenEmpty

\* The remainder of a number below Word, and of any number.
LEMMA WordRemainder ==
  ASSUME NEW x \in Int
  PROVE  /\ x % Word \in 0 .. Word - 1
         /\ x \in 0 .. Word - 1 => x % Word = x
<1>1. Word \in Nat \ {0}
  BY LocalityAssumption DEF LocalityAssumption
<1> QED BY <1>1

\* Once a chunk is stored, a neighbour older than the last one is stored too.
LEMMA NeighbourStored ==
  ASSUME NeighbourInv, LocalityHit, chunklist # <<>>
  PROVE  Neighbour \in ChunkIds
<1>1. /\ stats.uniqueNum = Len(chunklist) /\ stats.uniqueNum \in Int
      /\ stats.logicalNum \in Int /\ IsSeq(chunklist)
  BY DEF NeighbourInv, AccountInv, CountInv, StatsInv
<1>2. stats.uniqueNum \in Nat \ {0}
  <2>1. PICK S : chunklist \in Seq(S)
    BY <1>1 DEF IsSeq
  <2> QED BY <1>1, <2>1
<1>3. stats.uniqueNum <= MaxChunks /\ MaxChunks \in Nat /\ Word \in Nat /\ Word > MaxChunks
  BY <1>1, LocalityAssumption DEF NeighbourInv, LocalityAssumption
<1>4. stats.uniqueNum - 1 \in 0 .. Word - 1
  BY ONLY <1>2, <1>3
<1>5. (stats.uniqueNum - 1) % Word = stats.uniqueNum - 1
  BY <1>4, WordRemainder
<1>6. Neighbour \in 0 .. Word - 1
  BY WordRemainder DEF NeighbourInv, Neighbour
<1>7. Neighbour < stats.uniqueNum - 1
  BY <1>5 DEF LocalityHit, NewId
<1>8. Neighbour \in 0 .. stats.uniqueNum - 1
  BY ONLY <1>2, <1>3, <1>6, <1>7
<1> QED BY <1>1, <1>8 DEF ChunkIds, IdsOf

\* A chunk is stored, whole or as a delta of a chunk that is there.
LEMMA StoreKeepsNeighbours ==
  ASSUME NeighbourInv, crash = "no", stats.logicalNum < MaxChunks,
         NEW c \in Contents, FP_Insert(c, NewId),
         NEW e, chunklist' = Append(chunklist, e), e.chunkSize \in Nat,
         e.deltaFlag = "LOCAL_DELTA" => e.basechunkID \in ChunkIds,
         CountInv', stats'.uniqueNum = stats.uniqueNum + 1,
         stats'.logicalNum = stats.logicalNum + 1,
         plchunk' = plchunk, DedupGap' = DedupGap + 1, crash' = crash
  PROVE  NeighbourInv'
<1>1. IsSeq(chunklist) /\ NewId = Len(chunklist) /\ SizesInv
  BY DEF NeighbourInv, AccountInv, CountInv, NewId
<1>2. /\ Prolongs(chunklist', chunklist) /\ Len(chunklist) \in IdsOf(chunklist')
      /\ ChunkAt(chunklist', Len(chunklist)) = e
      /\ \A id \in IdsOf(chunklist') : id \in IdsOf(chunklist) \/ id = Len(chunklist)
  BY <1>1, AppendProlongs
<1>3. AccountInv'
  BY <1>1, AppendSizes DEF AccountInv
<1>4. ASSUME NEW d \in DOMAIN FPindex' PROVE FPindex'[d] \in IdsOf(chunklist')
  BY <1>1, <1>2, <1>4 DEF FP_Insert, NeighbourInv, ChunkIds, Prolongs
<1>5. ASSUME NEW id \in IdsOf(chunklist'),
             ChunkAt(chunklist', id).deltaFlag = "LOCAL_DELTA"
      PROVE  ChunkAt(chunklist', id).basechunkID \in IdsOf(chunklist')
  <2>1. CASE id = Len(chunklist)
    BY <1>2, <1>5, <2>1 DEF ChunkIds, Prolongs
  <2>2. CASE id \in IdsOf(chunklist)
    BY <1>2, <1>5, <2>2 DEF NeighbourInv, ChunkIds, Chunk, Prolongs
  <2> QED BY <1>2, <2>1, <2>2
<1>6. /\ stats'.uniqueNum <= stats'.logicalNum /\ stats'.logicalNum <= MaxChunks
      /\ plchunk' \in Int /\ DedupGap' \in Int
  <2>1. /\ stats.uniqueNum \in Int /\ stats.logicalNum \in Int /\ MaxChunks \in Int
        /\ stats.uniqueNum <= stats.logicalNum /\ plchunk \in Int /\ DedupGap \in Int
    BY LocalityAssumption DEF NeighbourInv, AccountInv, CountInv, StatsInv, LocalityAssumption
  <2> QED BY <2>1
<1>7. RangeOnlyWhenEmpty'
  BY DEF RangeOnlyWhenEmpty
<1> QED BY <1>3, <1>4, <1>5, <1>6, <1>7 DEF NeighbourInv, ChunkIds, Chunk

LEMMA SaveBaseKeepsNeighbours ==
  ASSUME NeighbourInv, crash = "no", stats.logicalNum < MaxChunks,
         NEW c \in Contents, NEW h, SaveBase(c, h)
  PROVE  NeighbourInv'
<1>1. CountInv
  BY DEF NeighbourInv, AccountInv
<1>2. /\ CountInv'
      /\ stats'.uniqueNum = stats.uniqueNum + 1 /\ stats'.logicalNum = stats.logicalNum + 1
  BY <1>1, BaseCounts DEF SaveBase, BaseStats, CountInv, StatsInv, Counters
<1>3. /\ BaseEntry(c, h).chunkSize \in Nat
      /\ BaseEntry(c, h).deltaFlag # "LOCAL_DELTA"
  BY BaseSaveBounds DEF BaseEntry, Entry
<1> QED BY <1>2, <1>3, StoreKeepsNeighbours DEF SaveBase

LEMMA LocalDeltaKeepsNeighbours ==
  ASSUME NeighbourInv, crash = "no", stats.logicalNum < MaxChunks,
         NEW c \in Contents, NEW h, NEW save \in DeltaSizes, StoreLocalDelta(c, h, save)
  PROVE  NeighbourInv'
<1> DEFINE e == Entry(c, h, <<"delta", c, <<"scratch">>>>, "LOCAL_DELTA", Neighbour, save)
<1>1. CountInv /\ save \in Int
  BY LocalityAssumption DEF NeighbourInv, AccountInv, LocalityAssumption
<1>2. /\ chunklist' = Append(chunklist, e) /\ StatsDelta(c, save) /\ FP_Insert(c, NewId)
      /\ Neighbour \in ChunkIds
      /\ plchunk' = plchunk /\ DedupGap' = DedupGap + 1 /\ crash' = crash
  BY DEF StoreLocalDelta
<1>3. e.chunkSize \in Nat /\ e.basechunkID = Neighbour
  BY BaseSaveBounds DEF Entry
<1> HIDE DEF e
<1>4. /\ CountInv'
      /\ stats'.uniqueNum = stats.uniqueNum + 1 /\ stats'.logicalNum = stats.logicalNum + 1
  BY <1>1, <1>2, DeltaCounts DEF StatsDelta, CountInv, StatsInv, Counters
<1> QED BY <1>2, <1>3, <1>4, StoreKeepsNeighbours

LEMMA NeighbourInductive == NeighbourInv /\ [Next]_vars => NeighbourInv'
<1> SUFFICES ASSUME NeighbourInv, [Next]_vars PROVE NeighbourInv'
  OBVIOUS
<1>1. ASSUME UNCHANGED <<FPindex, chunklist, stats, plchunk, DedupGap>>,
             crash' = "range" => crash = "range" \/ chunklist = <<>>
      PROVE  NeighbourInv'
  BY <1>1, SameCounts DEF NeighbourInv, AccountInv, SizesInv, Chunk, ChunkIds,
     RangeOnlyWhenEmpty
<1>2. ASSUME NEW p \in Offered, Process(p[1], p[2]) PROVE NeighbourInv'
  <2>1. crash = "no" /\ stats.logicalNum < MaxChunks /\ p[1] \in Contents
    BY <1>2, AbsMethodAssumption DEF Process, AbsMethodAssumption
  <2>2. CASE Duplicate(p[1])
    <3> DEFINE id == FPindex[p[1]]
    <3>1. id \in ChunkIds /\ id \in Int /\ Chunk(id).chunkSize \in Nat
      BY <2>2 DEF Duplicate, FP_Known, NeighbourInv, AccountInv, SizesInv, ChunkIds, IdsOf
    <3>2. /\ DuplicateStats(Chunk(id).chunkSize) /\ UNCHANGED <<FPindex, chunklist, crash>>
          /\ plchunk' = plchunk \/ plchunk' = id
          /\ DedupGap' = 0
      BY <2>2 DEF Duplicate
    <3> HIDE DEF id
    <3>3. CountInv'
      BY <3>1, <3>2, DuplicateCounts DEF NeighbourInv, AccountInv
    <3>4. stats'.uniqueNum = stats.uniqueNum /\ stats'.logicalNum = stats.logicalNum + 1
      BY <3>2 DEF NeighbourInv, AccountInv, CountInv, StatsInv, DuplicateStats, Counters
    <3>5. stats'.uniqueNum <= stats'.logicalNum /\ stats'.logicalNum <= MaxChunks
      <4>1. /\ stats.uniqueNum \in Int /\ stats.logicalNum \in Int /\ MaxChunks \in Int
            /\ stats.uniqueNum <= stats.logicalNum
        BY LocalityAssumption DEF NeighbourInv, AccountInv, CountInv, StatsInv,
           LocalityAssumption
      <4> QED BY <2>1, <3>4, <4>1
    <3>6. AccountInv' /\ RangeOnlyWhenEmpty'
      BY <3>2, <3>3 DEF NeighbourInv, AccountInv, SizesInv, Chunk, ChunkIds, RangeOnlyWhenEmpty
    <3>7. plchunk' \in Int /\ DedupGap' \in Int
      BY <3>1, <3>2 DEF NeighbourInv
    <3> QED BY <3>2, <3>5, <3>6, <3>7 DEF NeighbourInv, Chunk, ChunkIds
  <2>3. CASE OutOfRange(p[1])
    <3>1. chunklist = <<>>
      BY <2>3, NeighbourStored DEF OutOfRange
    <3> QED BY <1>1, <2>3, <3>1 DEF OutOfRange
  <2>4. CASE EmptyDelta(p[1])
    BY <1>1, <2>4 DEF EmptyDelta
  <2>5. CASE NoNeighbour(p[1], p[2]) \/ \E save \in DeltaSizes : StoreInstead(p[1], p[2], save)
    BY <2>1, <2>5, SaveBaseKeepsNeighbours DEF NoNeighbour, StoreInstead
  <2>6. CASE \E save \in DeltaSizes : StoreLocalDelta(p[1], p[2], save)
    BY <2>1, <2>6, LocalDeltaKeepsNeighbours
  <2> QED BY <1>2, <2>2, <2>3, <2>4, <2>5, <2>6 DEF Process
<1>3. CASE EndBackup
  BY <1>1, <1>3 DEF EndBackup
<1>4. CASE UNCHANGED vars
  BY <1>1, <1>4 DEF vars, absVars
<1> QED BY <1>2, <1>3, <1>4 DEF Next

LEMMA NeighbourInvariant == Spec => []NeighbourInv
<1>1. Init => NeighbourInv
  <2> SUFFICES ASSUME Init PROVE NeighbourInv
    OBVIOUS
  <2>1. AccountInv /\ ChunkIds = {}
    BY InitCounts DEF Init, AbsInit, AccountInv, SizesInv, ChunkIds, IdsOf
  <2>2. /\ DOMAIN FPindex = {} /\ stats.uniqueNum = 0 /\ stats.logicalNum = 0
        /\ plchunk \in Int /\ DedupGap \in Int /\ crash = "no"
    BY LocalityAssumption DEF Init, AbsInit, Empty, LocalityAssumption
  <2> QED BY <2>1, <2>2, LocalityAssumption
          DEF NeighbourInv, RangeOnlyWhenEmpty, LocalityAssumption
<1> QED BY <1>1, NeighbourInductive, PTL DEF Spec

\* The chunk the neighbour's id names is read from chunklist whenever there is
\* one: for any number of chunks below half the range of an id and any mix of
\* duplicates, new chunks and ends of backups, at() can only throw on an empty
\* list.
THEOREM RangeOnlyWhenEmptyHolds == Spec => []RangeOnlyWhenEmpty
<1>1. NeighbourInv => RangeOnlyWhenEmpty
  BY DEF NeighbourInv
<1> QED BY <1>1, NeighbourInvariant, PTL

\* The second lookup, of the base of a neighbour that is a delta, is in range
\* as well.
THEOREM FetchedIsStored ==
  Spec => [](LocalityHit /\ chunklist # <<>> => Fetched \in ChunkIds)
<1>1. NeighbourInv /\ LocalityHit /\ chunklist # <<>> => Fetched \in ChunkIds
  <2> SUFFICES ASSUME NeighbourInv, LocalityHit, chunklist # <<>> PROVE Fetched \in ChunkIds
    OBVIOUS
  <2>1. Neighbour \in ChunkIds
    BY NeighbourStored
  <2> QED BY <2>1 DEF Fetched, NeighbourInv
<1> QED BY <1>1, NeighbourInvariant, PTL

\* The counters of Locality add up after every chunk, duplicates, local deltas
\* and deltas given up for being too long included.
THEOREM AccountingHolds == Spec => []Accounting
<1>1. NeighbourInv => Accounting
  BY CountsAccount DEF NeighbourInv, AccountInv
<1> QED BY <1>1, NeighbourInvariant, PTL

-----------------------------------------------------------------------------
(* FeatureIndexTable *)

tables == <<key_feature_table_, feature_key_table_>>

-----------------------------------------------------------------------------
(* The inductive invariant *)

\* The keys that have super-feature f.
KeysWith(f) == {k \in DOMAIN key_feature_table_ : f \in SuperFeaturesOf(key_feature_table_[k])}

\* Inverse needs that no super-feature of a key is missing in the other table.
TablesInv ==
  /\ IsFiniteSet(DOMAIN key_feature_table_) /\ DOMAIN key_feature_table_ \subseteq Keys
  /\ \A f \in DOMAIN feature_key_table_ : feature_key_table_[f] = KeysWith(f)
  /\ \A k \in DOMAIN key_feature_table_ :
       /\ DOMAIN key_feature_table_[k] = 1 .. SUPERFEATURE_NUM
       /\ SuperFeaturesOf(key_feature_table_[k]) \subseteq DOMAIN feature_key_table_

\* ExecuteDelete takes the key out wherever it was.
LEMMA WithoutKeyGone ==
  ASSUME TablesInv, NEW key
  PROVE  /\ DOMAIN WithoutKey(key) = DOMAIN feature_key_table_
         /\ \A f \in DOMAIN feature_key_table_ : WithoutKey(key)[f] = KeysWith(f) \ {key}
<1>1. ASSUME NEW f \in DOMAIN feature_key_table_
      PROVE  WithoutKey(key)[f] = KeysWith(f) \ {key}
  <2>1. feature_key_table_[f] = KeysWith(f)
    BY DEF TablesInv
  <2>2. CASE key \in DOMAIN key_feature_table_ /\ f \in SuperFeaturesOf(key_feature_table_[key])
    BY <2>1, <2>2 DEF WithoutKey
  <2>3. CASE ~(key \in DOMAIN key_feature_table_ /\ f \in SuperFeaturesOf(key_feature_table_[key]))
    <3>1. key \notin KeysWith(f)
      BY <2>3 DEF KeysWith
    <3>2. WithoutKey(key)[f] = feature_key_table_[f]
      BY <2>3 DEF WithoutKey
    <3> QED BY <2>1, <3>1, <3>2
  <2> QED BY <2>2, <2>3
<1> QED BY <1>1 DEF WithoutKey

LEMMA DeleteKeeps ==
  ASSUME TablesInv, Delete
  PROVE  TablesInv'
<1> DEFINE K == DOMAIN key_feature_table_
           F == DOMAIN feature_key_table_
<1>1. PICK key \in Keys :
        /\ feature_key_table_' = WithoutKey(key)
        /\ key_feature_table_' = [k \in K \ {key} |-> key_feature_table_[k]]
  BY DEF Delete, Restrict
<1>2. /\ DOMAIN key_feature_table_' = K \ {key} /\ DOMAIN feature_key_table_' = F
      /\ \A k \in K \ {key} : key_feature_table_'[k] = key_feature_table_[k]
      /\ \A f \in F : feature_key_table_'[f] = KeysWith(f) \ {key}
  BY <1>1, WithoutKeyGone
<1>3. IsFiniteSet(K \ {key}) /\ K \ {key} \subseteq Keys
  BY FS_Subset DEF TablesInv
<1>4. \A f \in F : feature_key_table_'[f] = KeysWith(f)'
  BY <1>2 DEF KeysWith
<1>5. \A k \in K \ {key} : /\ DOMAIN key_feature_table_'[k] = 1 .. SUPERFEATURE_NUM
                          /\ SuperFeaturesOf(key_feature_table_'[k]) \subseteq F
  BY <1>2 DEF TablesInv
<1> QED BY <1>2, <1>3, <1>4, <1>5 DEF TablesInv

\* Put deletes the key's old super-features before it enters the new ones.
LEMMA PutKeeps ==
  ASSUME TablesInv, Put
  PROVE  TablesInv'
<1> DEFINE K == DOMAIN key_feature_table_
           F == DOMAIN feature_key_table_
<1>1. PICK key \in Keys :
        LET sf == MakeSuperFeatures(features_')
            old == WithoutKey(key)
        IN  /\ key_feature_table_' = [k \in K \union {key} |->
                                        IF k = key THEN sf ELSE key_feature_table_[k]]
            /\ feature_key_table_' =
                 [f \in DOMAIN old \union SuperFeaturesOf(sf) |->
                    (IF f \in DOMAIN old THEN old[f] ELSE {})
                      \union (IF f \in SuperFeaturesOf(sf) THEN {key} ELSE {})]
  BY DEF Put, Old
<1> DEFINE sf == MakeSuperFeatures(features_')
           S == SuperFeaturesOf(sf)
<1>2. /\ DOMAIN key_feature_table_' = K \union {key}
      /\ key_feature_table_'[key] = sf
      /\ \A k \in K \ {key} : key_feature_table_'[k] = key_feature_table_[k]
  BY <1>1
<1>3. /\ DOMAIN feature_key_table_' = F \union S
      /\ \A f \in F \union S : feature_key_table_'[f] =
           (IF f \in F THEN KeysWith(f) \ {key} ELSE {}) \union (IF f \in S THEN {key} ELSE {})
  <2>1. DOMAIN WithoutKey(key) = F /\ \A f \in F : WithoutKey(key)[f] = KeysWith(f) \ {key}
    BY WithoutKeyGone
  <2> QED BY <1>1, <2>1
<1>4. DOMAIN sf = 1 .. SUPERFEATURE_NUM
  BY DEF MakeSuperFeatures
<1> HIDE DEF sf
<1>5. IsFiniteSet(K \union {key}) /\ K \union {key} \subseteq Keys
  BY FS_AddElement DEF TablesInv
<1>6. ASSUME NEW f \in F \union S
      PROVE  feature_key_table_'[f] = KeysWith(f)'
  <2>1. KeysWith(f)' = {k \in K \union {key} : f \in SuperFeaturesOf(key_feature_table_'[k])}
    BY <1>2 DEF KeysWith
  <2>2. \A k \in K \ {key} : f \in SuperFeaturesOf(key_feature_table_'[k]) <=> k \in KeysWith(f)
    BY <1>2 DEF KeysWith
  <2>3. f \in SuperFeaturesOf(key_feature_table_'[key]) <=> f \in S
    BY <1>2
  <2>4. f \notin F => KeysWith(f) = {}
    BY DEF TablesInv, KeysWith
  <2>5. KeysWith(f) \subseteq K
    BY DEF KeysWith
  <2> HIDE DEF S, F, K
  <2> QED BY <1>3, <2>1, <2>2, <2>3, <2>4, <2>5
<1>7. \A k \in K \union {key} : /\ DOMAIN key_feature_table_'[k] = 1 .. SUPERFEATURE_NUM
                               /\ SuperFeaturesOf(key_feature_table_'[k]) \subseteq F \union S
  BY <1>2, <1>4 DEF TablesInv
<1> QED BY <1>2, <1>3, <1>5, <1>6, <1>7 DEF TablesInv

LEMMA SameTables ==
  ASSUME TablesInv, UNCHANGED tables
  PROVE  TablesInv'
BY DEF TablesInv, KeysWith, tables

LEMMA TablesInvHolds == DetectSpec => []TablesInv
<1>1. DetectInit => TablesInv
  BY FS_EmptySet DEF DetectInit, FeaturesInit, TablesInv, KeysWith
<1>2. TablesInv /\ [DetectNext]_<<fvars, xvars>> => TablesInv'
  <2> SUFFICES ASSUME TablesInv, [DetectNext]_<<fvars, xvars>> PROVE TablesInv'
    OBVIOUS
  <2>1. CASE Delete
    BY <2>1, DeleteKeeps
  <2>2. CASE Put
    BY <2>2, PutKeeps
  <2>3. CASE Odess \/ PalantirGetSF \/ NTransForm \/ Finesse
    <3>1. UNCHANGED tables
      BY <2>3 DEF Odess, PalantirGetSF, NTransForm, Finesse, tables
    <3> QED BY <3>1, SameTables
  <2>4. CASE UNCHANGED fvars
    <3>1. UNCHANGED tables
      BY <2>4 DEF fvars, tables
    <3> QED BY <3>1, SameTables
  <2> QED BY <2>1, <2>2, <2>3, <2>4 DEF DetectNext, FeaturesNext
<1> QED BY <1>1, <1>2, PTL DEF DetectSpec

-----------------------------------------------------------------------------
(* What follows for the queries *)

\* What another key is found under at place i of sf.
Others(sf, key, i) == feature_key_table_[sf[i]] \ {key}

\* GetSimilarRecordsKeys returns similar records, and one if there is one.
LEMMA FindsSimilar ==
  ASSUME TablesInv, NEW key
  PROVE  /\ GetSimilarRecordsKeys(key) \subseteq Similar(key)
         /\ GetSimilarRecordsKeys(key) = {} => Similar(key) = {}
<1>1. CASE key \notin DOMAIN key_feature_table_
  BY <1>1 DEF GetSimilarRecordsKeys, Similar
<1>2. CASE key \in DOMAIN key_feature_table_
  <2> DEFINE K == DOMAIN key_feature_table_
             sf == key_feature_table_[key]
             SF(n) == SuperFeaturesOf(key_feature_table_[n])
  <2>1. DOMAIN sf = 1 .. SUPERFEATURE_NUM /\ K \subseteq Keys
    BY <1>2 DEF TablesInv
  <2>2. ASSUME NEW i \in DOMAIN sf
        PROVE  Others(sf, key, i) = {n \in K \ {key} : sf[i] \in SF(n)}
    <3>1. sf[i] \in SuperFeaturesOf(sf)
      BY DEF SuperFeaturesOf
    <3>2. feature_key_table_[sf[i]] = KeysWith(sf[i])
      BY <1>2, <3>1 DEF TablesInv
    <3> QED BY <3>2 DEF KeysWith, Others
  <2>3. GetSimilarRecordsKeys(key) =
          {k \in Keys : \E i \in DOMAIN sf :
             k \in Others(sf, key, i) /\ \A j \in 1 .. (i - 1) : Others(sf, key, j) = {}}
    BY <1>2 DEF GetSimilarRecordsKeys, Others
  <2>4. Similar(key) = {n \in K \ {key} : \E i \in DOMAIN sf : sf[i] \in SF(n)}
    BY <1>2 DEF Similar, SuperFeaturesOf
  <2> HIDE DEF K, sf, SF
  <2>5. GetSimilarRecordsKeys(key) \subseteq Similar(key)
    BY <2>2, <2>3, <2>4
  <2>6. ASSUME Similar(key) # {} PROVE GetSimilarRecordsKeys(key) # {}
    <3> DEFINE hits == {i \in DOMAIN sf : Others(sf, key, i) # {}}
    <3>1. hits # {} /\ hits \in SUBSET Nat
      BY <2>1, <2>2, <2>4, <2>6
    <3>2. PICK i \in hits : \A j \in hits : i <= j
      BY <3>1, LeastExists
    <3>3. \A j \in 1 .. (i - 1) : Others(sf, key, j) = {}
      BY <2>1, <3>2 DEF SUPERFEATURE_NUM
    <3>4. PICK k : k \in Others(sf, key, i)
      BY <3>2
    <3>5. k \in Keys
      BY <2>1, <2>2, <3>2, <3>4
    <3> QED BY <2>3, <3>2, <3>3, <3>4, <3>5
  <2> QED BY <2>5, <2>6
<1> QED BY <1>1, <1>2

\* A finite set has more than one element when two of them differ.
LEMMA MoreThanOne ==
  ASSUME NEW S, IsFiniteSet(S), NEW x \in S
  PROVE  Cardinality(S) > 1 <=> \E y \in S : y # x
<1>1. /\ IsFiniteSet(S \ {x}) /\ Cardinality(S \ {x}) = Cardinality(S) - 1
      /\ Cardinality(S) \in Nat /\ Cardinality(S \ {x}) \in Nat
  BY FS_RemoveElement, FS_CardinalityType
<1>2. Cardinality(S \ {x}) = 0 <=> S \ {x} = {}
  BY <1>1, FS_EmptySet
<1>3. S \ {x} = {} <=> ~ \E y \in S : y # x
  OBVIOUS
<1> QED BY <1>1, <1>2, <1>3

\* CountAllSimilarRecords counts the keys for which a similar one is found.
LEMMA CountedKeys ==
  ASSUME TablesInv
  PROVE  UNION {keys \in Range(feature_key_table_) : Cardinality(keys) > 1}
           = {k \in Keys : GetSimilarRecordsKeys(k) # {}}
<1> DEFINE K == DOMAIN key_feature_table_
           F == DOMAIN feature_key_table_
           SF(k) == SuperFeaturesOf(key_feature_table_[k])
           U == UNION {keys \in Range(feature_key_table_) : Cardinality(keys) > 1}
<1>1. \A f \in F : /\ feature_key_table_[f] = KeysWith(f) /\ IsFiniteSet(KeysWith(f))
  <2>1. \A f \in F : KeysWith(f) \subseteq K /\ feature_key_table_[f] = KeysWith(f)
    BY DEF KeysWith, TablesInv
  <2> QED BY <2>1, FS_Subset DEF TablesInv
<1>2. ASSUME NEW k
      PROVE  k \in U <=> \E f \in F : k \in KeysWith(f) /\ \E n \in KeysWith(f) : n # k
  <2>1. k \in U <=> \E f \in F : k \in feature_key_table_[f] /\ Cardinality(feature_key_table_[f]) > 1
    BY DEF Range
  <2>2. \A f \in F : k \in KeysWith(f) =>
          (Cardinality(KeysWith(f)) > 1 <=> \E n \in KeysWith(f) : n # k)
    BY <1>1, MoreThanOne
  <2> QED BY <1>1, <2>1, <2>2
<1>3. ASSUME NEW k \in Keys
      PROVE  GetSimilarRecordsKeys(k) # {} <=>
               \E f \in F : k \in KeysWith(f) /\ \E n \in KeysWith(f) : n # k
  <2>1. GetSimilarRecordsKeys(k) # {} <=>
          \E n : n # k /\ n \in K /\ k \in K /\ \E f \in SF(k) : f \in SF(n)
    <3>1. GetSimilarRecordsKeys(k) # {} <=> Similar(k) # {}
      BY FindsSimilar
    <3> QED BY <3>1 DEF Similar
  <2>2. k \in K => SF(k) \subseteq F
    BY DEF TablesInv
  <2>3. \A f : k \in KeysWith(f) <=> k \in K /\ f \in SF(k)
    BY DEF KeysWith
  <2>4. \A f, n : n \in KeysWith(f) <=> n \in K /\ f \in SF(n)
    BY DEF KeysWith
  <2> HIDE DEF K, F, SF
  <2> QED BY <2>1, <2>2, <2>3, <2>4
<1>4. \A k \in U : k \in Keys
  BY <1>2 DEF KeysWith, TablesInv
<1> HIDE DEF U
<1>5. U = {k \in Keys : GetSimilarRecordsKeys(k) # {}}
  BY <1>2, <1>3, <1>4
<1> QED BY <1>5 DEF U

\* The tables of FeatureIndexTable are inverse to each other,
\* GetSimilarRecordsKeys returns a similar record whenever there is one, and
\* CountAllSimilarRecords counts the records that have a similar one.
THEOREM IndexInverseHolds == DetectSpec => []IndexInverse
<1>1. ASSUME TablesInv  PROVE IndexInverse
  <2>1. \A f \in DOMAIN feature_key_table_ :
          feature_key_table_[f] = {k \in DOMAIN key_feature_table_ :
                                     f \in SuperFeaturesOf(key_feature_table_[k])}
    BY <1>1 DEF TablesInv, KeysWith
  <2>2. ASSUME NEW k \in Keys
        PROVE  /\ GetSimilarRecordsKeys(k) \subseteq Similar(k)
               /\ GetSimilarRecordsKeys(k) = {} => Similar(k) = {}
    BY <1>1, FindsSimilar
  <2>3. CountAllSimilarRecords = Cardinality({k \in Keys : GetSimilarRecordsKeys(k) # {}})
    BY <1>1, CountedKeys DEF CountAllSimilarRecords
  <2> QED BY <2>1, <2>2, <2>3 DEF IndexInverse
<1> QED BY <1>1, TablesInvHolds, PTL

-----------------------------------------------------------------------------
(* xxHash: a recursive function is known by its least counterexample *)

\* InputBytes a + 1 .. a + n of the input.
InputBytes(a, n) == [k \in 1 .. n |-> a + k]

\* v1 .. v4 after the first q stripes.
Lanes(w, q) ==
  [i \in 1 .. 4 |-> [k \in 1 .. q |-> InputBytes((k - 1) * (4 * w) + (i - 1) * w, w)]]

LEMMA InputBytesSeq ==
  ASSUME NEW a \in Nat, NEW n \in Nat
  PROVE  InputBytes(a, n) \in Seq(Nat) /\ Len(InputBytes(a, n)) = n
<1>1. InputBytes(a, n) \in [1 .. n -> Nat]
  BY DEF InputBytes
<1>2. InputBytes(a, n) \in Seq(Nat)
  BY <1>1, SeqDef
<1>3. DOMAIN InputBytes(a, n) = 1 .. n
  BY DEF InputBytes
<1> QED BY <1>2, <1>3, LenProperties

LEMMA InputBytesSub ==
  ASSUME NEW a \in Nat, NEW n \in Nat, NEW m \in 1 .. (n + 1), NEW l \in (m - 1) .. n
  PROVE  SubSeq(InputBytes(a, n), m, l) = InputBytes(a + m - 1, l - m + 1)
<1>1. l - m + 1 \in Nat /\ a + m - 1 \in Nat
  OBVIOUS
<1>2. CASE l < m
  <2>1. SubSeq(InputBytes(a, n), m, l) = << >>
    BY <1>2, SubSeqEmpty
  <2>2. InputBytes(a + m - 1, l - m + 1) = << >>
    BY <1>1, <1>2, InputBytesSeq, EmptySeq
  <2> QED BY <2>1, <2>2
<1>3. CASE m <= l
  <2> DEFINE s == InputBytes(a, n)
             t == InputBytes(a + m - 1, l - m + 1)
  <2>1. s \in Seq(Nat) /\ Len(s) = n /\ t \in Seq(Nat) /\ Len(t) = l - m + 1
    BY <1>1, InputBytesSeq
  <2>2. /\ SubSeq(s, m, l) \in Seq(Nat) /\ Len(SubSeq(s, m, l)) = l - m + 1
        /\ \A i \in 1 .. (l - m + 1) : SubSeq(s, m, l)[i] = s[m + i - 1]
    <3> HIDE DEF s, t
    <3>1. m \in Int /\ l \in Int /\ m \in 1 .. Len(s) /\ l \in m .. Len(s)
      BY <1>3, <2>1
    <3>2. \A i \in m .. l : s[i] \in Nat
      BY <2>1, <3>1, ElementOfSeq
    <3> QED BY ONLY <1>3, <2>1, <3>1, <3>2, SubSeqProperties
  <2>3. \A i \in 1 .. (l - m + 1) : s[m + i - 1] = t[i]
    BY <1>1, <1>3 DEF InputBytes
  <2> HIDE DEF s, t
  <2>4. SubSeq(s, m, l) = t
    BY <1>1, <2>1, <2>2, <2>3, SeqEqual
  <2> QED BY <2>4 DEF s, t
<1> QED BY <1>2, <1>3

LEMMA InputBytesConcat ==
  ASSUME NEW a \in Nat, NEW m \in Nat, NEW n \in Nat
  PROVE  InputBytes(a, m) \o InputBytes(a + m, n) = InputBytes(a, m + n)
<1> DEFINE s == InputBytes(a, m)
           t == InputBytes(a + m, n)
           u == InputBytes(a, m + n)
<1>1. /\ s \in Seq(Nat) /\ t \in Seq(Nat) /\ u \in Seq(Nat)
      /\ Len(s) = m /\ Len(t) = n /\ Len(u) = m + n
  <2>1. a + m \in Nat /\ m + n \in Nat
    OBVIOUS
  <2> QED BY <2>1, InputBytesSeq
<1>2. \A i \in 1 .. (m + n) : (s \o t)[i] = IF i <= m THEN s[i] ELSE t[i - m]
  <2> HIDE DEF s, t, u
  <2> QED BY <1>1, ConcatProperties
<1>3. \A i \in 1 .. (m + n) : (IF i <= m THEN s[i] ELSE t[i - m]) = u[i]
  BY DEF InputBytes
<1>4. s \o t \in Seq(Nat) /\ Len(s \o t) = m + n
  BY <1>1, ConcatProperties
<1> HIDE DEF s, t, u
<1>5. s \o t = u
  BY <1>1, <1>2, <1>3, <1>4, SeqEqual
<1> QED BY <1>5 DEF s, t, u

\* Widths of a word: multiples of it are linear for the solver.
LEMMA LanesType ==
  ASSUME NEW w \in {4, 8}, NEW q \in Nat, NEW i \in 1 .. 4
  PROVE  /\ Lanes(w, q)[i] \in Seq(Seq(Nat)) /\ Len(Lanes(w, q)[i]) = q
         /\ \A k \in 1 .. q : Lanes(w, q)[i][k] = InputBytes((k - 1) * (4 * w) + (i - 1) * w, w)
<1>1. Lanes(w, q)[i] = [k \in 1 .. q |-> InputBytes((k - 1) * (4 * w) + (i - 1) * w, w)]
  BY DEF Lanes
<1>2. ASSUME NEW k \in 1 .. q
      PROVE  (k - 1) * (4 * w) + (i - 1) * w \in Nat /\ w \in Nat
  <2>1. CASE w = 4
    BY <2>1
  <2>2. CASE w = 8
    BY <2>2
  <2> QED BY <2>1, <2>2
<1>3. \A k \in 1 .. q : InputBytes((k - 1) * (4 * w) + (i - 1) * w, w) \in Seq(Nat)
  BY <1>2, InputBytesSeq
<1>4. Lanes(w, q)[i] \in [1 .. q -> Seq(Nat)]
  BY <1>1, <1>3
<1>5. Lanes(w, q)[i] \in Seq(Seq(Nat))
  BY <1>4, SeqDef
<1>6. DOMAIN Lanes(w, q)[i] = 1 .. q
  BY <1>1
<1>7. Len(Lanes(w, q)[i]) = q
  BY <1>5, <1>6, LenProperties
<1> QED BY <1>1, <1>5, <1>7

LEMMA RoundLanes ==
  ASSUME NEW w \in {4, 8}, NEW q \in Nat
  PROVE  Round(w, Lanes(w, q), InputBytes(q * (4 * w), 4 * w)) = Lanes(w, q + 1)
<1> DEFINE s == InputBytes(q * (4 * w), 4 * w)
           L == Lanes(w, q)
           M == Lanes(w, q + 1)
<1>1. ASSUME NEW i \in 1 .. 4
      PROVE  SubSeq(s, (i - 1) * w + 1, i * w) = InputBytes(q * (4 * w) + (i - 1) * w, w)
  <2>1. /\ q * (4 * w) \in Nat /\ 4 * w \in Nat /\ (i - 1) * w + 1 \in 1 .. (4 * w + 1)
        /\ i * w \in ((i - 1) * w + 1 - 1) .. (4 * w)
        /\ q * (4 * w) + ((i - 1) * w + 1) - 1 = q * (4 * w) + (i - 1) * w
        /\ i * w - ((i - 1) * w + 1) + 1 = w
    <3>1. CASE w = 4
      BY <3>1
    <3>2. CASE w = 8
      BY <3>2
    <3> QED BY <3>1, <3>2
  <2> DEFINE a == q * (4 * w)
             n == 4 * w
             m == (i - 1) * w + 1
             l == i * w
  <2>2. /\ a \in Nat /\ n \in Nat /\ m \in 1 .. (n + 1) /\ l \in (m - 1) .. n
        /\ a + m - 1 = q * (4 * w) + (i - 1) * w /\ l - m + 1 = w
    BY <2>1
  <2> HIDE DEF a, n, m, l
  <2>3. SubSeq(InputBytes(a, n), m, l) = InputBytes(a + m - 1, l - m + 1)
    BY <2>2, InputBytesSub
  <2> QED BY <2>2, <2>3 DEF a, n, m, l
<1>2. ASSUME NEW i \in 1 .. 4
      PROVE  Append(L[i], InputBytes(q * (4 * w) + (i - 1) * w, w)) = M[i]
  <2> DEFINE b == InputBytes(q * (4 * w) + (i - 1) * w, w)
  <2>1. q * (4 * w) + (i - 1) * w \in Nat /\ w \in Nat /\ (q + 1 - 1) * (4 * w) = q * (4 * w)
    <3>1. CASE w = 4
      BY <3>1
    <3>2. CASE w = 8
      BY <3>2
    <3> QED BY <3>1, <3>2
  <2>2. b \in Seq(Nat)
    BY <2>1, InputBytesSeq
  <2>3. /\ L[i] \in Seq(Seq(Nat)) /\ Len(L[i]) = q
        /\ M[i] \in Seq(Seq(Nat)) /\ Len(M[i]) = q + 1
        /\ \A k \in 1 .. q : M[i][k] = L[i][k]
        /\ M[i][q + 1] = b
    <3>1. q + 1 \in Nat
      OBVIOUS
    <3>2. /\ L[i] \in Seq(Seq(Nat)) /\ Len(L[i]) = q
          /\ \A k \in 1 .. q : L[i][k] = InputBytes((k - 1) * (4 * w) + (i - 1) * w, w)
      BY LanesType
    <3>3. /\ M[i] \in Seq(Seq(Nat)) /\ Len(M[i]) = q + 1
          /\ \A k \in 1 .. (q + 1) : M[i][k] = InputBytes((k - 1) * (4 * w) + (i - 1) * w, w)
      BY <3>1, LanesType
    <3> HIDE DEF L, M
    <3>4. M[i][q + 1] = InputBytes((q + 1 - 1) * (4 * w) + (i - 1) * w, w)
      BY <3>3
    <3> QED BY <2>1, <3>2, <3>3, <3>4
  <2> HIDE DEF b, L, M
  <2>4. /\ Append(L[i], b) \in Seq(Seq(Nat)) /\ Len(Append(L[i], b)) = q + 1
        /\ \A k \in 1 .. q : Append(L[i], b)[k] = L[i][k]
        /\ Append(L[i], b)[q + 1] = b
    BY <2>2, <2>3, AppendProperties
  <2>5. \A k \in 1 .. (q + 1) : Append(L[i], b)[k] = M[i][k]
    BY <2>3, <2>4
  <2>6. Append(L[i], b) = M[i]
    BY <2>3, <2>4, <2>5, SeqEqual
  <2> QED BY <2>6 DEF b
<1>3. M = [i \in 1 .. 4 |-> M[i]]
  BY DEF Lanes
<1>4. Round(w, L, s) = [i \in 1 .. 4 |-> Append(L[i], SubSeq(s, (i - 1) * w + 1, i * w))]
  BY DEF Round
<1> HIDE DEF s, L, M
<1>5. Round(w, L, s) = [i \in 1 .. 4 |-> M[i]]
  BY <1>1, <1>2, <1>4
<1> QED BY <1>3, <1>5 DEF s, L, M

LEMMA RoundsLanes ==
  ASSUME NEW w \in {4, 8}, NEW q \in Nat, NEW n \in Nat
  PROVE  Rounds(w, Lanes(w, q), InputBytes(q * (4 * w), n)) = Lanes(w, q + n \div (4 * w))
<1> DEFINE s == InputBytes(q * (4 * w), n)
           N == n \div (4 * w)
           G == [k \in 0 .. N |-> Lanes(w, q + k)]
           Body(f) == [k \in 0 .. (Len(s) \div Stripe(w)) |->
                         IF k = 0 THEN Lanes(w, q)
                         ELSE Round(w, f[k - 1], SubSeq(s, (k - 1) * Stripe(w) + 1, k * Stripe(w)))]
           after == CHOOSE f : f = Body(f)
<1>1. N \in Nat /\ N * (4 * w) <= n /\ q * (4 * w) \in Nat /\ 4 * w \in Nat
  <2>1. CASE w = 4
    BY <2>1
  <2>2. CASE w = 8
    BY <2>2
  <2> QED BY <2>1, <2>2
<1>2. Len(s) \div Stripe(w) = N /\ Stripe(w) = 4 * w
  BY <1>1, InputBytesSeq DEF Stripe
<1>3. ASSUME NEW k \in 1 .. N
      PROVE  SubSeq(s, (k - 1) * Stripe(w) + 1, k * Stripe(w)) = InputBytes((q + k - 1) * (4 * w), 4 * w)
  <2> DEFINE a == q * (4 * w)
             m == (k - 1) * (4 * w) + 1
             l == k * (4 * w)
  <2>1. /\ m \in 1 .. (n + 1) /\ l \in (m - 1) .. n
        /\ a + m - 1 = (q + k - 1) * (4 * w) /\ l - m + 1 = 4 * w
    <3>1. CASE w = 4
      BY <1>1, <3>1
    <3>2. CASE w = 8
      BY <1>1, <3>2
    <3> QED BY <3>1, <3>2
  <2>2. a \in Nat
    BY <1>1
  <2> HIDE DEF a, m, l
  <2>3. SubSeq(InputBytes(a, n), m, l) = InputBytes(a + m - 1, l - m + 1)
    BY <2>1, <2>2, InputBytesSub
  <2> QED BY <1>2, <2>1, <2>3 DEF a, m, l
<1>4. \A k \in 1 .. N : Round(w, Lanes(w, q + k - 1), InputBytes((q + k - 1) * (4 * w), 4 * w)) = Lanes(w, q + k)
  <2> TAKE k \in 1 .. N
  <2>1. q + k - 1 \in Nat /\ q + k - 1 + 1 = q + k
    BY <1>1
  <2> HIDE DEF N
  <2> QED BY <2>1, RoundLanes
<1>5. Rounds(w, Lanes(w, q), s) = after[N]
  BY <1>2 DEF Rounds
<1> HIDE DEF s, N
<1>6. G = Body(G)
  <2>1. ASSUME NEW k \in 0 .. N
        PROVE  G[k] = IF k = 0 THEN Lanes(w, q)
                      ELSE Round(w, G[k - 1], SubSeq(s, (k - 1) * Stripe(w) + 1, k * Stripe(w)))
    <3>1. CASE k = 0
      BY <1>1, <3>1
    <3>2. CASE k # 0
      <4>1. k \in 1 .. N /\ k - 1 \in 0 .. N /\ q + (k - 1) = q + k - 1
        BY <1>1, <3>2
      <4>2. G[k] = Lanes(w, q + k) /\ G[k - 1] = Lanes(w, q + k - 1)
        BY <4>1
      <4> HIDE DEF G
      <4> QED BY <1>3, <1>4, <3>2, <4>1, <4>2
    <3> QED BY <3>1, <3>2
  <2>2. Body(G) = [k \in 0 .. N |-> IF k = 0 THEN Lanes(w, q)
                      ELSE Round(w, G[k - 1], SubSeq(s, (k - 1) * Stripe(w) + 1, k * Stripe(w)))]
    BY <1>2
  <2>3. G = [k \in 0 .. N |-> G[k]]
    OBVIOUS
  <2> HIDE DEF G, Body
  <2> QED BY <2>1, <2>2, <2>3
<1>7. after = Body(after)
  <2> HIDE DEF G, Body
  <2> QED BY <1>6
<1>8. ASSUME NEW k \in 0 .. N
      PROVE  after[k] = IF k = 0 THEN Lanes(w, q)
               ELSE Round(w, after[k - 1], SubSeq(s, (k - 1) * Stripe(w) + 1, k * Stripe(w)))
  <2> HIDE DEF after
  <2> QED BY <1>2, <1>7
<1> DEFINE Bad == {k \in 0 .. N : after[k] # Lanes(w, q + k)}
<1> HIDE DEF after
<1>9. Bad = {}
  <2> SUFFICES ASSUME Bad # {} PROVE FALSE
    OBVIOUS
  <2>1. PICK k \in Bad : \A j \in Bad : k <= j
    <3>1. Bad \in SUBSET Nat
      BY <1>1
    <3> HIDE DEF Bad
    <3> QED BY <3>1, LeastExists
  <2>2. k \in 0 .. N /\ after[k] # Lanes(w, q + k)
    OBVIOUS
  <2>3. CASE k = 0
    BY <1>1, <1>8, <2>2, <2>3
  <2>4. CASE k # 0
    <3>1. k \in 1 .. N /\ k - 1 \in 0 .. N /\ q + (k - 1) = q + k - 1 /\ ~(k <= k - 1)
      BY <1>1, <2>2, <2>4
    <3>2. after[k - 1] = Lanes(w, q + k - 1)
      BY <2>1, <3>1
    <3>3. after[k] = Round(w, Lanes(w, q + k - 1), InputBytes((q + k - 1) * (4 * w), 4 * w))
      BY <1>3, <1>8, <2>4, <3>1, <3>2
    <3> QED BY <1>4, <2>2, <3>1, <3>3
  <2> QED BY <2>3, <2>4
<1>10. after[N] = Lanes(w, q + N)
  BY <1>1, <1>9
<1> QED BY <1>5, <1>10 DEF s, N

-----------------------------------------------------------------------------
(* The inductive invariant *)

\* After q whole stripes and memsize more bytes.
Streamed(q) ==
  /\ width \in {4, 8} /\ q \in Nat /\ memsize \in 0 .. (4 * width - 1)
  /\ total_len = q * (4 * width) + memsize /\ fed = InputBytes(0, total_len)
  /\ v = Lanes(width, q)
  /\ mem \in [1 .. (4 * width) -> Nat]
  /\ \A k \in 1 .. memsize : mem[k] = q * (4 * width) + k

StreamInv == \E q \in Nat : Streamed(q)

LEMMA NoStripesLanes ==
  ASSUME NEW w \in {4, 8}
  PROVE  Lanes(w, 0) = NoStripes
<1>1. \A i \in 1 .. 4 : Lanes(w, 0)[i] = <<>>
  <2>1. \A i \in 1 .. 4 : Lanes(w, 0)[i] \in Seq(Seq(Nat)) /\ Len(Lanes(w, 0)[i]) = 0
    BY LanesType
  <2> QED BY <2>1, EmptySeq
<1>2. Lanes(w, 0) = [i \in 1 .. 4 |-> Lanes(w, 0)[i]]
  BY DEF Lanes
<1> QED BY <1>1, <1>2 DEF NoStripes

LEMMA ResetStreams ==
  ASSUME XXH_reset
  PROVE  StreamInv
<1>1. Streamed(0)
  <2>1. width \in {4, 8} /\ memsize = 0 /\ total_len = 0
    BY DEF XXH_reset
  <2>2. 0 * (4 * width) = 0 /\ 0 \in 0 .. (4 * width - 1) /\ Stripe(width) = 4 * width
    BY <2>1 DEF Stripe
  <2>3. fed = InputBytes(0, 0)
    BY InputBytesSeq, EmptySeq DEF XXH_reset
  <2>4. v = Lanes(width, 0)
    BY <2>1, NoStripesLanes DEF XXH_reset
  <2>5. mem \in [1 .. (4 * width) -> Nat]
    BY <2>2 DEF XXH_reset
  <2> QED BY <2>1, <2>2, <2>3, <2>4, <2>5 DEF Streamed
<1> QED BY <1>1 DEF StreamInv

\* Multiples of a stripe.
LEMMA StripeFacts ==
  ASSUME NEW w \in {4, 8}, NEW q \in Nat, NEW m \in 0 .. (4 * w - 1)
  PROVE  /\ 4 * w \in Nat /\ q * (4 * w) \in Nat
         /\ (q * (4 * w) + m) \div (4 * w) = q
         /\ (q + 1) * (4 * w) = q * (4 * w) + 4 * w
         /\ 0 * (4 * w) = 0
<1>1. CASE w = 4
  BY <1>1
<1>2. CASE w = 8
  BY <1>2
<1> QED BY <1>1, <1>2

LEMMA DigestExact ==
  ASSUME StreamInv
  PROVE  StreamEqualsOneShot
<1>1. PICK q \in Nat : Streamed(q)
  BY DEF StreamInv
<1> DEFINE S == 4 * width
           T == total_len
<1>2. /\ width \in {4, 8} /\ memsize \in 0 .. (S - 1) /\ T = q * S + memsize
      /\ fed = InputBytes(0, T) /\ v = Lanes(width, q) /\ mem \in [1 .. S -> Nat]
      /\ \A k \in 1 .. memsize : mem[k] = q * S + k
  BY <1>1 DEF Streamed
<1>3. S \in Nat /\ q * S \in Nat /\ T \div S = q /\ 0 * S = 0
  BY <1>2, StripeFacts
<1>4. T \in Nat /\ memsize \in Nat /\ q * S + 1 \in 1 .. (T + 1) /\ T \in (q * S + 1 - 1) .. T
      /\ 0 + (q * S + 1) - 1 = q * S /\ T - (q * S + 1) + 1 = memsize
  <2> HIDE DEF S, T
  <2>1. \A x \in Nat : \A y \in 0 .. (S - 1) : x + y \in Nat /\ y \in Nat /\ x + 1 \in 1 .. (x + y + 1)
          /\ x + y \in (x + 1 - 1) .. (x + y) /\ 0 + (x + 1) - 1 = x /\ x + y - (x + 1) + 1 = y
    BY <1>3
  <2> QED BY <1>2, <1>3, <2>1
<1>5. Rounds(width, NoStripes, fed) = Lanes(width, q)
  <2>1. Rounds(width, Lanes(width, 0), InputBytes(0 * S, T)) = Lanes(width, 0 + T \div S)
    BY <1>2, <1>4, RoundsLanes
  <2>2. 0 + T \div S = q
    BY <1>3
  <2> QED BY <1>2, <1>3, <2>1, <2>2, NoStripesLanes
<1>6. Len(fed) = T /\ Stripe(width) = S
  BY <1>2, <1>4, InputBytesSeq DEF Stripe
<1>7. SubSeq(fed, q * S + 1, T) = InputBytes(q * S, memsize)
  <2> DEFINE m == q * S + 1
  <2>1. m \in 1 .. (T + 1) /\ T \in (m - 1) .. T /\ 0 + m - 1 = q * S /\ T - m + 1 = memsize
    BY <1>4
  <2>2. 0 \in Nat /\ T \in Nat
    BY <1>4
  <2> HIDE DEF m, T
  <2>3. SubSeq(InputBytes(0, T), m, T) = InputBytes(0 + m - 1, T - m + 1)
    BY ONLY <2>1, <2>2, InputBytesSub
  <2> QED BY <1>2, <2>1, <2>3 DEF m
<1>8. SubSeq(mem, 1, memsize) = InputBytes(q * S, memsize)
  <2> DEFINE b == InputBytes(q * S, memsize)
  <2>1. b \in Seq(Nat) /\ Len(b) = memsize /\ \A k \in 1 .. memsize : b[k] = q * S + k
    <3>1. b \in Seq(Nat) /\ Len(b) = memsize
      BY <1>3, <1>4, InputBytesSeq
    <3> QED BY <3>1 DEF InputBytes
  <2>2. mem \in Seq(Nat) /\ Len(mem) = S
    <3>1. mem \in Seq(Nat)
      BY <1>2, <1>3, SeqDef
    <3> QED BY <1>2, <1>3, <3>1, LenProperties
  <2> HIDE DEF S, b
  <2>3. CASE memsize = 0
    <3>1. SubSeq(mem, 1, 0) = <<>>
      BY SubSeqEmpty
    <3>2. b = <<>>
      BY <2>1, <2>3, EmptySeq
    <3> QED BY <2>3, <3>1, <3>2 DEF b
  <2>4. CASE memsize # 0
    <3>1. 1 \in Int /\ memsize \in 1 .. S /\ memsize - 1 + 1 = memsize
      BY <1>2, <1>3, <1>4, <2>4
    <3>2. /\ SubSeq(mem, 1, memsize) \in Seq(Nat) /\ Len(SubSeq(mem, 1, memsize)) = memsize
          /\ \A i \in 1 .. memsize : SubSeq(mem, 1, memsize)[i] = mem[i]
      BY <2>2, <3>1, SubSeqProperties, ElementOfSeq
    <3>3. \A i \in 1 .. memsize : SubSeq(mem, 1, memsize)[i] = b[i]
      BY <1>2, <2>1, <3>2
    <3>4. SubSeq(mem, 1, memsize) = b
      BY <2>1, <3>2, <3>3, SeqEqual
    <3> QED BY <3>4 DEF b
  <2> QED BY <2>3, <2>4
<1>9. XXH(width, fed) = Avalanche(width, v, T, SubSeq(fed, q * S + 1, T))
  BY <1>2, <1>3, <1>5, <1>6 DEF XXH
<1> QED BY <1>7, <1>8, <1>9 DEF StreamEqualsOneShot, XXH_digest

\* The piece stays in mem.
LEMMA KeepStreams ==
  ASSUME NEW q \in Nat, Streamed(q), NEW n \in Nat, Keep(n), UNCHANGED width,
         fed' = fed \o Fresh(n), total_len' = total_len + n
  PROVE  Streamed(q)'
<1> DEFINE S == 4 * width
           T == total_len
<1>1. /\ width \in {4, 8} /\ memsize \in 0 .. (S - 1) /\ T = q * S + memsize
      /\ fed = InputBytes(0, T) /\ v = Lanes(width, q) /\ mem \in [1 .. S -> Nat]
      /\ \A k \in 1 .. memsize : mem[k] = q * S + k
  BY DEF Streamed
<1>2. S \in Nat /\ q * S \in Nat /\ Stripe(width) = S
  BY <1>1, StripeFacts DEF Stripe
<1>3. T \in Nat /\ Len(fed) = T /\ Fresh(n) = InputBytes(T, n)
  <2>1. T \in Nat
    BY <1>1, <1>2
  <2>2. Len(fed) = T
    BY <1>1, <2>1, InputBytesSeq
  <2> QED BY <2>1, <2>2 DEF Fresh, InputBytes
<1>4. fed' = InputBytes(0, T + n)
  <2>1. 0 + T = T
    BY <1>3
  <2>2. InputBytes(0, T) \o InputBytes(0 + T, n) = InputBytes(0, T + n)
    <3>1. T \in Nat /\ 0 \in Nat
      BY <1>3
    <3> HIDE DEF T
    <3> QED BY ONLY n \in Nat, <3>1, InputBytesConcat
  <2> QED BY <1>1, <1>3, <2>1, <2>2
<1>5. /\ memsize' = memsize + n /\ memsize + n < S /\ v' = v
      /\ mem' = Filled(memsize, InputBytes(T, n))
  BY <1>2, <1>3 DEF Keep
<1> DEFINE Q == q * S
<1>6. Q \in Nat /\ T = Q + memsize /\ \A k \in 1 .. memsize : mem[k] = Q + k
  BY <1>1, <1>2
<1>7. ASSUME NEW k \in 1 .. S
      PROVE  mem'[k] \in Nat /\ (k <= memsize + n => mem'[k] = Q + k)
  <2> HIDE DEF S, Q, T
  <2>1. DOMAIN mem = 1 .. S /\ DOMAIN InputBytes(T, n) = 1 .. n /\ memsize \in Nat
    BY <1>1, <1>2 DEF InputBytes
  <2>2. CASE k - memsize \in 1 .. n
    <3>1. mem'[k] = T + (k - memsize)
      BY <1>5, <2>1, <2>2 DEF Filled, InputBytes
    <3> QED BY <1>6, <2>1, <3>1
  <2>3. CASE k - memsize \notin 1 .. n
    <3>1. mem'[k] = mem[k]
      BY <1>5, <2>1, <2>3 DEF Filled
    <3>2. k <= memsize + n => k \in 1 .. memsize
      BY <2>1, <2>3
    <3>3. mem[k] \in Nat
      BY <1>1
    <3> QED BY <1>6, <3>1, <3>2, <3>3
  <2> QED BY <2>2, <2>3
<1>8. mem' \in [1 .. S -> Nat] /\ \A k \in 1 .. memsize' : mem'[k] = Q + k
  <2>1. mem' = [k \in 1 .. S |-> mem'[k]]
    <3>1. mem' = [k \in 1 .. S |-> IF k - memsize \in DOMAIN InputBytes(T, n) THEN InputBytes(T, n)[k - memsize] ELSE mem[k]]
      BY <1>1, <1>5 DEF Filled
    <3> HIDE DEF S, T
    <3> QED BY <3>1
  <2> HIDE DEF S, Q, T
  <2>2. \A k \in 1 .. memsize' : k \in 1 .. S /\ k <= memsize + n
    BY <1>1, <1>2, <1>5
  <2> QED BY <1>7, <2>1, <2>2
<1>9. memsize' \in 0 .. (S - 1) /\ total_len' = Q + memsize'
  <2> HIDE DEF S, Q
  <2> QED BY <1>1, <1>2, <1>5, <1>6
<1> QED BY <1>1, <1>4, <1>5, <1>8, <1>9 DEF Streamed

\* mem' and memsize' after the rest of the piece, r bytes from stripe q on.
LEMMA ConsumeStreams ==
  ASSUME NEW q \in Nat, Streamed(q), NEW n \in Nat, Consume(n), UNCHANGED width,
         fed' = fed \o Fresh(n), total_len' = total_len + n
  PROVE  \E p \in Nat : Streamed(p)'
<1> DEFINE S == 4 * width
           T == total_len
           Q == q * S
           begun == memsize > 0
           first == IF begun THEN Filled(memsize, Completing(n)) ELSE mem
           rest == SubSeq(Fresh(n), (IF begun THEN S - memsize ELSE 0) + 1, n)
           left == SubSeq(rest, (Len(rest) \div S) * S + 1, Len(rest))
           v1 == IF begun THEN Round(width, v, first) ELSE v
           p == IF begun THEN q + 1 ELSE q
           r == n - (IF begun THEN S - memsize ELSE 0)
<1>1. /\ width \in {4, 8} /\ memsize \in 0 .. (S - 1) /\ T = Q + memsize
      /\ fed = InputBytes(0, T) /\ v = Lanes(width, q) /\ mem \in [1 .. S -> Nat]
      /\ \A k \in 1 .. memsize : mem[k] = Q + k
  BY DEF Streamed
<1>2. S \in Nat /\ Q \in Nat /\ Stripe(width) = S /\ (q + 1) * S = Q + S
  BY <1>1, StripeFacts DEF Stripe
<1>3. T \in Nat /\ Len(fed) = T /\ Fresh(n) = InputBytes(T, n)
  <2>1. T \in Nat
    <3> HIDE DEF T, Q, S
    <3> QED BY <1>1, <1>2
  <2>2. Len(fed) = T
    BY <1>1, <2>1, InputBytesSeq
  <2> QED BY <2>1, <2>2 DEF Fresh, InputBytes
<1>4. fed' = InputBytes(0, T + n)
  <2>1. 0 + T = T
    BY <1>3
  <2>2. InputBytes(0, T) \o InputBytes(0 + T, n) = InputBytes(0, T + n)
    <3>1. T \in Nat /\ 0 \in Nat
      BY <1>3
    <3> HIDE DEF T
    <3> QED BY ONLY n \in Nat, <3>1, InputBytesConcat
  <2> QED BY <1>1, <1>3, <2>1, <2>2
<1>5. /\ memsize + n >= S
      /\ v' = Rounds(width, v1, rest)
      /\ mem' = [k \in 1 .. S |-> IF k \in DOMAIN left THEN left[k] ELSE first[k]]
      /\ memsize' = Len(left)
  BY <1>1, <1>2 DEF Consume, Kept
<1>6. p \in Nat /\ r \in Nat /\ p * S \in Nat /\ T + n = p * S + r
  <2>1. p \in Nat
    OBVIOUS
  <2>2. p * S \in Nat
    BY <1>1, <2>1, StripeFacts
  <2>3. CASE begun
    <3> HIDE DEF S, Q, T
    <3> QED BY <1>1, <1>2, <1>3, <1>5, <2>2, <2>3
  <2>4. CASE ~begun
    <3> HIDE DEF S, T
    <3> QED BY <1>1, <1>2, <1>3, <1>5, <2>2, <2>4
  <2> QED BY <2>1, <2>2, <2>3, <2>4
<1>7. rest = InputBytes(p * S, r)
  <2> DEFINE m == (IF begun THEN S - memsize ELSE 0) + 1
  <2>1. m \in 1 .. (n + 1) /\ n \in (m - 1) .. n /\ n - m + 1 = r /\ T + m - 1 = p * S
    <3>1. CASE begun
      <4> HIDE DEF S, Q, T
      <4> QED BY <1>1, <1>2, <1>3, <1>5, <3>1
    <3>2. CASE ~begun
      <4> HIDE DEF S, T
      <4> QED BY <1>1, <1>2, <1>3, <1>5, <3>2
    <3> QED BY <3>1, <3>2
  <2> HIDE DEF m, T, r
  <2>2. SubSeq(InputBytes(T, n), m, n) = InputBytes(T + m - 1, n - m + 1)
    BY <1>3, <2>1, InputBytesSub
  <2> QED BY <1>3, <2>1, <2>2 DEF m
<1>8. first \in [1 .. S -> Nat] /\ v1 = Lanes(width, p)
  <2>1. CASE ~begun
    BY <1>1, <2>1
  <2>2. CASE begun
    <3> DEFINE c == S - memsize
    <3>1. c \in 0 .. n /\ c \in Nat
      <4> HIDE DEF S
      <4> QED BY <1>1, <1>2, <1>5
    <3>2. Completing(n) = InputBytes(T, c)
      <4>1. 1 \in 1 .. (n + 1) /\ c \in (1 - 1) .. n /\ T + 1 - 1 = T /\ c - 1 + 1 = c
        <5> HIDE DEF c, T
        <5> QED BY <1>3, <3>1
      <4> HIDE DEF c, T
      <4>2. SubSeq(InputBytes(T, n), 1, c) = InputBytes(T + 1 - 1, c - 1 + 1)
        BY <1>3, <4>1, InputBytesSub
      <4>3. Completing(n) = SubSeq(InputBytes(T, n), 1, c)
        BY <1>2, <1>3 DEF Completing, c
      <4> QED BY <4>1, <4>2, <4>3
    <3>3. DOMAIN InputBytes(T, c) = 1 .. c
      BY DEF InputBytes
    <3>4. first = [k \in 1 .. S |-> IF k - memsize \in 1 .. c THEN T + (k - memsize) ELSE mem[k]]
      <4>1. Filled(memsize, InputBytes(T, c))
              = [k \in 1 .. S |-> IF k - memsize \in 1 .. c THEN InputBytes(T, c)[k - memsize] ELSE mem[k]]
        BY <1>1, <3>3 DEF Filled
      <4>2. \A j \in 1 .. c : InputBytes(T, c)[j] = T + j
        BY DEF InputBytes
      <4> HIDE DEF T, c, S
      <4> QED BY <2>2, <3>2, <4>1, <4>2
    <3>5. \A k \in 1 .. S : (IF k - memsize \in 1 .. c THEN T + (k - memsize) ELSE mem[k]) = Q + k
      <4> HIDE DEF T, Q, S
      <4> QED BY <1>1, <1>2
    <3>6. first = InputBytes(Q, S)
      <4> HIDE DEF first
      <4> QED BY <3>4, <3>5 DEF InputBytes
    <3>7. first \in [1 .. S -> Nat]
      <4> HIDE DEF first, S, Q
      <4> QED BY <1>2, <3>6 DEF InputBytes
    <3>8. Round(width, v, first) = Lanes(width, q + 1)
      <4> HIDE DEF first
      <4> QED BY <1>1, <3>6, RoundLanes
    <3> QED BY <2>2, <3>7, <3>8
  <2> QED BY <2>1, <2>2
<1> HIDE DEF first, v1, rest, p, r
<1> DEFINE d == r \div S
<1>9. /\ d \in Nat /\ d * S \in 0 .. r /\ r - d * S \in 0 .. (S - 1)
      /\ (p + d) * S = p * S + d * S
  <2>1. width \in {4, 8} /\ p \in Nat /\ r \in Nat
    BY <1>1, <1>6
  <2>2. CASE width = 4
    BY ONLY <2>1, <2>2
  <2>3. CASE width = 8
    BY ONLY <2>1, <2>3
  <2> QED BY <2>1, <2>2, <2>3
<1>10. v' = Lanes(width, p + d)
  BY <1>1, <1>5, <1>6, <1>7, <1>8, RoundsLanes
<1>11. left = InputBytes((p + d) * S, r - d * S)
  <2>1. Len(rest) = r
    BY <1>6, <1>7, InputBytesSeq
  <2> DEFINE a == p * S
             m == d * S + 1
  <2>2. a \in Nat /\ m \in 1 .. (r + 1) /\ r \in (m - 1) .. r /\ a + m - 1 = (p + d) * S /\ r - m + 1 = r - d * S
    <3> DEFINE D == d * S
               PS == p * S
               E == (p + d) * S
    <3>1. D \in 0 .. r /\ PS \in Nat /\ E = PS + D /\ r \in Nat
      BY <1>6, <1>9
    <3>2. a = PS /\ m = D + 1
      OBVIOUS
    <3> HIDE DEF D, PS, E, d, a, m
    <3>3. a \in Nat /\ m \in 1 .. (r + 1) /\ r \in (m - 1) .. r /\ a + m - 1 = E /\ r - m + 1 = r - D
      BY ONLY <3>1, <3>2
    <3> QED BY <3>3 DEF D, E
  <2>3. r \in Nat
    BY <1>6
  <2> HIDE DEF a, m, d
  <2>4. SubSeq(InputBytes(a, r), m, r) = InputBytes(a + m - 1, r - m + 1)
    BY <2>2, <2>3, InputBytesSub
  <2> QED BY <1>7, <2>1, <2>2, <2>4 DEF a, m, d
<1> DEFINE P == (p + d) * S
           R == r - d * S
<1>12. P \in Nat /\ R \in 0 .. (S - 1) /\ T + n = P + R /\ p + d \in Nat
  <2> DEFINE D == d * S
             PS == p * S
  <2>1. D \in 0 .. r /\ PS \in Nat /\ (p + d) * S = PS + D /\ T + n = PS + r /\ r - D \in 0 .. (S - 1)
    BY <1>6, <1>9
  <2>2. P = PS + D /\ R = r - D
    BY <2>1
  <2>3. p + d \in Nat
    BY <1>6, <1>9
  <2> HIDE DEF D, PS, d, P, R, S, T
  <2> QED BY <1>6, <2>1, <2>2, <2>3
<1>13. left \in Seq(Nat) /\ Len(left) = R /\ DOMAIN left = 1 .. R /\ \A k \in 1 .. R : left[k] = P + k
  <2>1. left = InputBytes(P, R) /\ P \in Nat /\ R \in Nat
    BY <1>11, <1>12
  <2> HIDE DEF left, P, R
  <2> QED BY <2>1, InputBytesSeq DEF InputBytes
<1> HIDE DEF left, P, R, S, T, Q, d
<1>14. mem' \in [1 .. S -> Nat] /\ \A k \in 1 .. R : mem'[k] = P + k
  <2>1. \A k \in 1 .. S : (IF k \in 1 .. R THEN left[k] ELSE first[k]) \in Nat
    <3>1. \A k \in 1 .. R : left[k] \in Nat
      BY <1>12, <1>13
    <3>2. \A k \in 1 .. S : first[k] \in Nat
      BY <1>8
    <3> QED BY <3>1, <3>2
  <2>2. mem' = [k \in 1 .. S |-> IF k \in 1 .. R THEN left[k] ELSE first[k]]
    BY <1>5, <1>13
  <2>3. \A k \in 1 .. R : k \in 1 .. S
    BY <1>2, <1>12
  <2> QED BY <1>13, <2>1, <2>2, <2>3
<1>15. memsize' = R /\ total_len' = P + R /\ fed' = InputBytes(0, P + R)
  BY <1>4, <1>5, <1>12, <1>13 DEF T
<1>16. PICK z \in Nat : z = p + d
  BY <1>12
<1>17. Streamed(z)'
  BY <1>1, <1>10, <1>12, <1>14, <1>15, <1>16 DEF Streamed, P, S
<1> QED BY <1>17

LEMMA UpdateStreams ==
  ASSUME StreamInv, XXH_update
  PROVE  StreamInv'
<1>1. PICK q \in Nat : Streamed(q)
  BY DEF StreamInv
<1>2. PICK n \in PieceSizes : /\ fed' = fed \o Fresh(n) /\ total_len' = total_len + n
                             /\ UNCHANGED width /\ (Keep(n) \/ Consume(n))
  BY DEF XXH_update
<1>3. n \in Nat
  BY XXHashAssumption
<1>4. CASE Keep(n)
  BY <1>1, <1>2, <1>3, <1>4, KeepStreams DEF StreamInv
<1>5. CASE Consume(n)
  BY <1>1, <1>2, <1>3, <1>5, ConsumeStreams DEF StreamInv
<1> QED BY <1>2, <1>4, <1>5

\* However the input is split into pieces, and whatever older bytes the buffer
\* still holds, XXH32_digest and XXH64_digest give the hash of the one call.
THEOREM StreamEqualsOneShotHolds == DetectSpec => []StreamEqualsOneShot
<1>1. DetectInit => StreamInv
  BY ResetStreams DEF DetectInit
<1>2. StreamInv /\ [DetectNext]_<<fvars, xvars>> => StreamInv'
  <2> SUFFICES ASSUME StreamInv, [DetectNext]_<<fvars, xvars>> PROVE StreamInv'
    OBVIOUS
  <2>1. CASE XXH_update
    BY <2>1, UpdateStreams
  <2>2. CASE UNCHANGED xvars
    BY <2>2 DEF StreamInv, Streamed, xvars
  <2> QED BY <2>1, <2>2 DEF DetectNext
<1> QED BY <1>1, <1>2, DigestExact, PTL DEF DetectSpec
=============================================================================

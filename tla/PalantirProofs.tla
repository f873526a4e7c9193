--------------------------- MODULE PalantirProofs ---------------------------
(***************************************************************************)
(* Two properties of Palantir for every value of the constants: how long    *)
(* an index entry stays (Retention), and that an accepted delta fits the    *)
(* buffer of its chunk (DeltaFits).                                         *)
(***************************************************************************)
EXTENDS Palantir, MethodProofs, FiniteSetTheorems

\* Retention needs the shape of the index: CleanIndex compares what is there.
AgeInv ==
  /\ Version \in Nat
  /\ DOMAIN SFindex = Tiers
  /\ \A t \in CleanedTiers : \A f \in DOMAIN SFindex[t] :
       /\ SFindex[t][f].version \in Int
       /\ SFindex[t][f].empty \/ SFindex[t][f].version >= Version - 1 - Keep[t]

-----------------------------------------------------------------------------
(* Retention *)

LEMMA InsertKeepsAge ==
  ASSUME AgeInv, NEW c, NEW id, SFInsert(c, id), Version' = Version
  PROVE  AgeInv'
<1> USE PalantirAssumption DEF PalantirAssumption
<1>1. Version' \in Nat /\ DOMAIN SFindex' = Tiers
  BY DEF AgeInv, SFInsert
<1>2. ASSUME NEW t \in CleanedTiers, NEW f \in DOMAIN SFindex'[t]
      PROVE  /\ SFindex'[t][f].version \in Int
             /\ SFindex'[t][f].empty \/ SFindex'[t][f].version >= Version - 1 - Keep[t]
  <2>1. t \in Tiers /\ Keep[t] \in Nat
    BY <1>2 DEF CleanedTiers, Tiers
  <2>2. CASE f \in Keys(c, t)
    <3>1. SFindex'[t][f] = [id |-> id, version |-> Version, empty |-> FALSE]
      BY <1>2, <2>1, <2>2 DEF SFInsert
    <3> QED BY <3>1, <2>1 DEF AgeInv
  <2>3. CASE f \notin Keys(c, t)
    <3>1. f \in DOMAIN SFindex[t] /\ SFindex'[t][f] = SFindex[t][f]
      BY <1>2, <2>1, <2>3 DEF SFInsert
    <3> QED BY <3>1, <1>2 DEF AgeInv
  <2> QED BY <2>2, <2>3
<1> QED BY <1>1, <1>2 DEF AgeInv

LEMMA CleanKeepsAge ==
  ASSUME AgeInv, CleanIndex, Version' = Version + 1
  PROVE  AgeInv'
<1> USE PalantirAssumption DEF PalantirAssumption
<1>1. Version' \in Nat /\ DOMAIN SFindex' = Tiers
  BY DEF AgeInv, CleanIndex
<1>2. ASSUME NEW t \in CleanedTiers, NEW f \in DOMAIN SFindex'[t]
      PROVE  /\ SFindex'[t][f].version \in Int
             /\ SFindex'[t][f].empty \/ SFindex'[t][f].version >= Version' - 1 - Keep[t]
  <2>1. t \in Tiers /\ Keep[t] \in Nat
    BY <1>2 DEF CleanedTiers, Tiers
  <2>2. /\ f \in DOMAIN SFindex[t]
        /\ SFindex'[t][f] = IF f \in Expired(t) THEN [SFindex[t][f] EXCEPT !.empty = TRUE]
                            ELSE SFindex[t][f]
    BY <1>2, <2>1 DEF CleanIndex
  <2>3. SFindex[t][f].version \in Int
    BY <1>2, <2>2 DEF AgeInv
  <2>4. CASE f \in Expired(t)
    BY <2>2, <2>3, <2>4
  <2>5. CASE f \notin Expired(t)
    <3>1. SFindex'[t][f] = SFindex[t][f]
      BY <2>2, <2>5
    <3>2. SFindex[t][f].empty \/ ~(SFindex[t][f].version < Version - Keep[t])
      BY <2>2, <2>5 DEF Expired, Live
    <3> QED BY <3>1, <3>2, <2>1, <2>3 DEF AgeInv
  <2> QED BY <2>4, <2>5
<1> QED BY <1>1, <1>2 DEF AgeInv

LEMMA AgeInductive == AgeInv /\ [Next]_vars => AgeInv'
<1> SUFFICES ASSUME AgeInv, [Next]_vars PROVE AgeInv'
  OBVIOUS
<1>1. ASSUME NEW p \in Offered, Process(p[1], p[2]) PROVE AgeInv'
  <2>1. Version' = Version
    BY <1>1 DEF Process
  <2>2. \/ UNCHANGED SFindex
        \/ \E id : SFInsert(p[1], id)
    BY <1>1 DEF Process, Duplicate, ReadPastEnd, DuplicateOf, NoSimilar, FalseFit,
       SaveBase, StoreDelta
  <2>3. CASE UNCHANGED SFindex
    BY <2>1, <2>3 DEF AgeInv
  <2>4. CASE \E id : SFInsert(p[1], id)
    BY <2>1, <2>4, InsertKeepsAge
  <2> QED BY <2>2, <2>3, <2>4
<1>2. ASSUME NEW p \in Offered, DeltaError(p[1]) PROVE AgeInv'
  BY <1>2 DEF DeltaError, AgeInv
<1>3. CASE EndBackup
  BY <1>3, CleanKeepsAge DEF EndBackup
<1>4. CASE UNCHANGED vars
  BY <1>4 DEF vars, AgeInv
<1> QED BY <1>1, <1>2, <1>3, <1>4 DEF Next

\* No entry of a cleaned tier outlives its span of Versions, for every number
\* of tiers' features, spans, backups and delta errors.
THEOREM RetentionHolds == Spec => []Retention
<1>1. Init => AgeInv
  BY DEF Init, AgeInv, Empty, Tiers, CleanedTiers
<1>2. AgeInv => Retention
  BY DEF AgeInv, Retention, Live
<1> QED BY <1>1, <1>2, AgeInductive, PTL DEF Spec

-----------------------------------------------------------------------------
(* DeltaFits *)

\* The average LZ4 ratio is at least 1, because no chunk is stored whole in
\* more bytes than it has.
RatioInv ==
  /\ DOMAIN stats = Counters
  /\ baseOri \in Nat /\ stats.base \in Nat /\ stats.base <= baseOri
  /\ LZ4Ratio \in (Nat \ {0}) \X (Nat \ {0}) /\ LZ4Ratio[2] <= LZ4Ratio[1]

FitInv == RatioInv /\ IsSeq(chunklist) /\ DeltaFits

\* A delta that reaches a ratio of at least 1 is no longer than its chunk.
LEMMA RatioBound ==
  ASSUME NEW n \in Nat, NEW d \in Nat \ {0}, d <= n,
         NEW size \in Nat, NEW save \in Nat, ~(size * d < n * save)
  PROVE  save <= size
<1>1. d * save <= n * save
  <2>1. (n - d) * save >= 0
    OBVIOUS
  <2> QED BY <2>1
<1>2. SUFFICES ASSUME save > size PROVE FALSE
  OBVIOUS
<1>3. d * save > d * size
  <2>1. d * (save - size) > 0
    BY <1>2
  <2> QED BY <2>1
<1> QED BY <1>1, <1>3

\* One more chunk, whole or no longer than its content, keeps DeltaFits.
LEMMA AppendFits ==
  ASSUME IsSeq(chunklist), DeltaFits, NEW e, chunklist' = Append(chunklist, e),
         IsBase(e) \/ e.saveSize <= e.chunkSize
  PROVE  IsSeq(chunklist') /\ DeltaFits'
<1>1. /\ IsSeq(chunklist') /\ Len(chunklist) \in Nat
      /\ Len(chunklist') = Len(chunklist) + 1
      /\ chunklist'[Len(chunklist) + 1] = e
      /\ \A k \in 1 .. Len(chunklist) : chunklist'[k] = chunklist[k]
  BY AppendSeq
<1>2. ASSUME NEW id \in 0 .. Len(chunklist') - 1, ~IsBase(chunklist'[id + 1])
      PROVE  chunklist'[id + 1].saveSize <= chunklist'[id + 1].chunkSize
  <2>1. CASE id = Len(chunklist)
    BY <1>1, <1>2, <2>1
  <2>2. CASE id \in 0 .. Len(chunklist) - 1
    <3>1. chunklist'[id + 1] = chunklist[id + 1]
      BY <1>1, <2>2
    <3> QED BY <1>2, <2>2, <3>1 DEF DeltaFits, Chunk, ChunkIds, IdsOf, ChunkAt
  <2> QED BY <1>1, <1>2, <2>1, <2>2
<1> QED BY <1>1, <1>2 DEF DeltaFits, Chunk, ChunkIds, IdsOf, ChunkAt

LEMMA SaveBaseFits ==
  ASSUME FitInv, NEW c \in Contents, NEW h, SaveBase(c, h)
  PROVE  FitInv'
<1>1. ChunkSize[c] \in Nat /\ BaseSave(c) \in Nat \ {0} /\ BaseSave(c) <= ChunkSize[c]
  BY BaseSaveBounds
<1>2. DOMAIN stats' = Counters /\ stats'.base = stats.base + BaseSave(c)
  BY <1>1 DEF SaveBase, BaseStats, FitInv, RatioInv, Counters
<1>3. RatioInv'
  <2>1. baseOri \in Nat /\ stats.base \in Nat /\ stats.base <= baseOri
    BY DEF FitInv, RatioInv
  <2>2. /\ baseOri' = baseOri + ChunkSize[c]
        /\ LZ4Ratio' = <<baseOri + ChunkSize[c], stats.base + BaseSave(c)>>
    BY DEF SaveBase
  <2>3. /\ baseOri + ChunkSize[c] \in Nat \ {0}
        /\ stats.base + BaseSave(c) \in Nat \ {0}
        /\ stats.base + BaseSave(c) <= baseOri + ChunkSize[c]
    BY ONLY <1>1, <2>1
  <2> QED BY <1>2, <2>2, <2>3 DEF RatioInv
<1>4. IsBase(BaseEntry(c, h))
  BY DEF IsBase, BaseEntry, Entry
<1>5. IsSeq(chunklist') /\ DeltaFits'
  BY <1>4, AppendFits DEF SaveBase, FitInv
<1> QED BY <1>3, <1>5 DEF FitInv

LEMMA StoreDeltaFits ==
  ASSUME FitInv, NEW c \in Contents, NEW h, NEW save \in DeltaSizes,
         StoreDelta(c, h, save)
  PROVE  FitInv'
<1>1. ChunkSize[c] \in Nat /\ save \in Nat
  BY BaseSaveBounds, PalantirAssumption DEF PalantirAssumption
<1>2. save <= ChunkSize[c]
  <2>1. /\ LZ4Ratio[1] \in Nat /\ LZ4Ratio[2] \in Nat \ {0}
        /\ LZ4Ratio[2] <= LZ4Ratio[1]
    BY DEF FitInv, RatioInv
  <2>2. ~(ChunkSize[c] * LZ4Ratio[2] < LZ4Ratio[1] * save)
    BY DEF StoreDelta, PoorFit
  <2> QED BY <1>1, <2>1, <2>2, RatioBound
<1>3. DOMAIN stats' = Counters /\ stats'.base = stats.base
  BY <1>1 DEF StoreDelta, StatsDelta, FitInv, RatioInv, Counters
<1>4. RatioInv'
  BY <1>3 DEF StoreDelta, FitInv, RatioInv
<1>5. PICK e : /\ chunklist' = Append(chunklist, e)
               /\ e.saveSize = save /\ e.chunkSize = ChunkSize[c]
  BY DEF StoreDelta, Entry
<1>6. IsSeq(chunklist') /\ DeltaFits'
  BY <1>2, <1>5, AppendFits DEF FitInv
<1> QED BY <1>4, <1>6 DEF FitInv

LEMMA FitInductive == FitInv /\ [Next]_vars => FitInv'
<1> SUFFICES ASSUME FitInv, [Next]_vars PROVE FitInv'
  OBVIOUS
<1>1. ASSUME UNCHANGED <<baseOri, LZ4Ratio, chunklist>>, DOMAIN stats' = Counters,
             stats'.base = stats.base
      PROVE  FitInv'
  BY <1>1 DEF FitInv, RatioInv, DeltaFits, Chunk, ChunkIds
<1>2. ASSUME NEW p \in Offered, Process(p[1], p[2]) PROVE FitInv'
  <2>1. p[1] \in Contents
    BY AbsMethodAssumption DEF AbsMethodAssumption
  <2>2. ASSUME NEW id, NEW m, DuplicateOf(p[1], id, m)
        PROVE  FitInv'
    <3>1. DOMAIN stats' = Counters /\ stats'.base = stats.base
      BY <2>2 DEF DuplicateOf, DuplicateStats, FitInv, RatioInv, Counters
    <3> QED BY <2>2, <3>1, <1>1 DEF DuplicateOf
  <2>3. CASE Duplicate(p[1])
    BY <2>2, <2>3 DEF Duplicate
  <2>4. CASE ReadPastEnd(p[1])
    BY <2>2, <2>4 DEF ReadPastEnd
  <2>5. CASE NoSimilar(p[1], p[2]) \/ \E save \in DeltaSizes : FalseFit(p[1], p[2], save)
    BY <2>1, <2>5, SaveBaseFits DEF NoSimilar, FalseFit
  <2>6. CASE \E save \in DeltaSizes : StoreDelta(p[1], p[2], save)
    BY <2>1, <2>6, StoreDeltaFits
  <2> QED BY <1>2, <2>3, <2>4, <2>5, <2>6 DEF Process
<1>3. ASSUME NEW p \in Offered, DeltaError(p[1]) PROVE FitInv'
  BY <1>1, <1>3 DEF DeltaError, FitInv, RatioInv
<1>4. CASE EndBackup
  BY <1>1, <1>4 DEF EndBackup, FitInv, RatioInv
<1>5. CASE UNCHANGED vars
  BY <1>1, <1>5 DEF vars, absVars, FitInv, RatioInv
<1> QED BY <1>2, <1>3, <1>4, <1>5 DEF Next

\* Every delta Palantir stores fits the buffer of its chunk, for all chunk
\* sizes, compressed sizes and delta sizes.
THEOREM DeltasFit == Spec => []DeltaFits
<1>1. Init => FitInv
  <2> SUFFICES ASSUME Init PROVE FitInv
    OBVIOUS
  <2>1. RatioInv
    BY DEF Init, AbsInit, RatioInv, Counters
  <2>2. chunklist = <<>>
    BY DEF Init, AbsInit
  <2>3. IsSeq(chunklist)
    BY <2>2, EmptyIsSeq
  <2>4. DeltaFits
    BY <2>2 DEF DeltaFits, ChunkIds, IdsOf
  <2> QED BY <2>1, <2>3, <2>4 DEF FitInv
<1>2. FitInv => DeltaFits
  BY DEF FitInv
<1> QED BY <1>1, <1>2, FitInductive, PTL DEF Spec

-----------------------------------------------------------------------------
(* SFnumExact *)

EntryFields == \A t \in Tiers : \A f \in DOMAIN SFindex[t] :
                 DOMAIN SFindex[t][f] = {"id", "version", "empty"}

\* What the sums need: the counters are numbers and every tier is finite.
SFnumInv ==
  /\ EntryFields
  /\ DOMAIN SFindex = Tiers
  /\ DOMAIN SFcount = {"new", "deleted", "num"}
  /\ SFcount.new \in Int /\ SFcount.deleted \in Int
  /\ \A t \in Tiers : IsFiniteSet(Live(t))
  /\ SFnumExact

LEMMA KeysFinite ==
  ASSUME NEW c, NEW t \in Tiers
  PROVE  IsFiniteSet(Keys(c, t))
<1> DEFINE first == IF t = 1 THEN 1 ELSE TierEnd[t - 1] + 1
           dom == first .. TierEnd[t]
           key == [k \in dom |-> SuperFeature[c][k]]
<1>1. first \in Int /\ TierEnd[t] \in Int
  BY PalantirAssumption DEF PalantirAssumption, Tiers
<1>2. IsFiniteSet(dom)
  BY <1>1, FS_Interval
<1>3. key \in Surjection(dom, Keys(c, t))
  BY DEF Surjection, Keys
<1> QED BY <1>2, <1>3, FS_Surjection

\* SF_Insert adds to a tier exactly the keys that were not live.
LEMMA LiveAfterInsert ==
  ASSUME NEW c, NEW id, SFInsert(c, id), NEW t \in Tiers, IsFiniteSet(Live(t))
  PROVE  /\ Live(t)' = Live(t) \union Keys(c, t) /\ IsFiniteSet(Live(t)')
         /\ Cardinality(Live(t)) \in Nat /\ Cardinality(Keys(c, t) \ Live(t)) \in Nat
         /\ Cardinality(Live(t)') = Cardinality(Live(t)) + Cardinality(Keys(c, t) \ Live(t))
<1>1. /\ DOMAIN SFindex'[t] = DOMAIN SFindex[t] \union Keys(c, t)
      /\ \A f \in DOMAIN SFindex'[t] :
           SFindex'[t][f].empty <=> f \notin Keys(c, t) /\ SFindex[t][f].empty
  BY DEF SFInsert
<1>2. Live(t)' = Live(t) \union Keys(c, t)
  BY <1>1 DEF Live
<1> DEFINE more == Keys(c, t) \ Live(t)
<1>3. IsFiniteSet(more)
  BY KeysFinite, FS_Difference
<1>4. Live(t)' = Live(t) \union more /\ Live(t) \intersect more = {}
  BY <1>2
<1>5. /\ IsFiniteSet(Live(t) \union more)
      /\ Cardinality(Live(t) \union more)
           = Cardinality(Live(t)) + Cardinality(more) - Cardinality(Live(t) \intersect more)
  BY <1>3, FS_Union
<1>6. Cardinality(Live(t)) \in Nat /\ Cardinality(more) \in Nat
  BY <1>3, FS_CardinalityType
<1>7. Cardinality(Live(t) \intersect more) = 0
  BY <1>4, FS_EmptySet
<1>8. Cardinality(Live(t) \union more) = Cardinality(Live(t)) + Cardinality(more)
  BY ONLY <1>5, <1>6, <1>7
<1> QED BY <1>2, <1>4, <1>5, <1>6, <1>8

\* CleanIndex removes from a tier what has expired; from the first, nothing.
LEMMA LiveAfterClean ==
  ASSUME EntryFields, CleanIndex, NEW t \in Tiers, IsFiniteSet(Live(t))
  PROVE  /\ IsFiniteSet(Live(t)') /\ Cardinality(Live(t)) \in Nat
         /\ t \notin CleanedTiers => Live(t)' = Live(t)
         /\ t \in CleanedTiers =>
              /\ Cardinality(Expired(t)) \in Nat
              /\ Cardinality(Live(t)') = Cardinality(Live(t)) - Cardinality(Expired(t))
<1>0. Cardinality(Live(t)) \in Nat
  BY FS_CardinalityType
<1>1. CASE t \notin CleanedTiers
  <2>1. SFindex'[t] = SFindex[t]
    BY <1>1 DEF CleanIndex
  <2> QED BY <1>0, <1>1, <2>1 DEF Live
<1>2. CASE t \in CleanedTiers
  <2>1. /\ DOMAIN SFindex'[t] = DOMAIN SFindex[t]
        /\ \A f \in DOMAIN SFindex[t] :
             SFindex'[t][f] = IF f \in Expired(t) THEN [SFindex[t][f] EXCEPT !.empty = TRUE]
                              ELSE SFindex[t][f]
    BY <1>2 DEF CleanIndex
  <2>2. \A f \in DOMAIN SFindex[t] : /\ f \in Expired(t) => SFindex'[t][f].empty
                                     /\ f \notin Expired(t) => SFindex'[t][f] = SFindex[t][f]
    BY <2>1 DEF EntryFields
  <2>3. Live(t)' = Live(t) \ Expired(t) /\ Live(t) \intersect Expired(t) = Expired(t)
    BY <2>1, <2>2 DEF Live, Expired
  <2>4. /\ IsFiniteSet(Live(t)')
        /\ Cardinality(Live(t)') = Cardinality(Live(t)) - Cardinality(Expired(t))
    BY <2>3, FS_Difference
  <2>5. IsFiniteSet(Expired(t))
    BY FS_Subset DEF Expired
  <2> QED BY <1>0, <1>2, <2>4, <2>5, FS_CardinalityType
<1> QED BY <1>1, <1>2

LEMMA InsertKeepsSFnum ==
  ASSUME SFnumInv, NEW c, NEW id, SFInsert(c, id)
  PROVE  SFnumInv'
<1> DEFINE live(t) == Cardinality(Live(t))
           more(t) == Cardinality(Keys(c, t) \ Live(t))
<1>1. \A t \in Tiers : IsFiniteSet(Live(t)) /\ IsFiniteSet(Live(t)')
  BY LiveAfterInsert DEF SFnumInv
<1>2. \A t \in Tiers : live(t) \in Nat /\ more(t) \in Nat
                       /\ Cardinality(Live(t)') = live(t) + more(t)
  BY LiveAfterInsert DEF SFnumInv
<1>3. DOMAIN SFindex' = Tiers /\ EntryFields'
  BY DEF SFInsert, SFnumInv, EntryFields
<1>4. /\ DOMAIN SFcount' = {"new", "deleted", "num"}
      /\ SFcount'.new = SFcount.new + NewEntries(c) /\ SFcount'.deleted = SFcount.deleted
  BY DEF SFInsert, SFnumInv
<1>5. /\ SFcount.new - SFcount.deleted = live(1) + live(2) + live(3)
      /\ SFcount.new \in Int /\ SFcount.deleted \in Int
  BY DEF SFnumInv, SFnumExact, TierSum, Tiers
<1>6. NewEntries(c) = more(1) + more(2) + more(3)
  BY DEF NewEntries, TierSum, Tiers
<1>7. TierSum([t \in Tiers |-> Cardinality(Live(t)')])
        = (live(1) + more(1)) + (live(2) + more(2)) + (live(3) + more(3))
  BY <1>2 DEF TierSum, Tiers
<1>8. /\ live(1) \in Nat /\ live(2) \in Nat /\ live(3) \in Nat
      /\ more(1) \in Nat /\ more(2) \in Nat /\ more(3) \in Nat
  BY <1>2 DEF Tiers
<1> HIDE DEF live, more
<1>9. /\ SFcount'.new \in Int /\ SFcount'.deleted \in Int
      /\ SFcount'.new - SFcount'.deleted
           = (live(1) + more(1)) + (live(2) + more(2)) + (live(3) + more(3))
  BY ONLY <1>4, <1>5, <1>6, <1>8
<1> QED BY <1>1, <1>3, <1>4, <1>7, <1>9 DEF SFnumInv, SFnumExact

LEMMA CleanKeepsSFnum ==
  ASSUME SFnumInv, CleanIndex
  PROVE  SFnumInv'
<1> DEFINE live(t) == Cardinality(Live(t))
           gone(t) == Cardinality(Expired(t))
<1>1. \A t \in Tiers : IsFiniteSet(Live(t)')
  BY LiveAfterClean DEF SFnumInv
<1>2. /\ live(1) \in Nat /\ live(2) \in Nat /\ live(3) \in Nat
      /\ gone(2) \in Nat /\ gone(3) \in Nat
      /\ Cardinality(Live(1)') = live(1)
      /\ Cardinality(Live(2)') = live(2) - gone(2)
      /\ Cardinality(Live(3)') = live(3) - gone(3)
  BY LiveAfterClean DEF SFnumInv, Tiers, CleanedTiers
<1>3. DOMAIN SFindex' = Tiers /\ EntryFields'
  BY DEF CleanIndex, SFnumInv, EntryFields
<1>4. /\ DOMAIN SFcount' = {"new", "deleted", "num"}
      /\ SFcount'.new = SFcount.new /\ SFcount'.deleted = SFcount.deleted + (gone(2) + gone(3))
  BY DEF CleanIndex, SFnumInv, Erased
<1>5. /\ SFcount.new - SFcount.deleted = live(1) + live(2) + live(3)
      /\ SFcount.new \in Int /\ SFcount.deleted \in Int
  BY DEF SFnumInv, SFnumExact, TierSum, Tiers
<1>6. TierSum([t \in Tiers |-> Cardinality(Live(t)')])
        = live(1) + (live(2) - gone(2)) + (live(3) - gone(3))
  BY <1>2 DEF TierSum, Tiers
<1> HIDE DEF live, gone
<1>7. /\ SFcount'.new \in Int /\ SFcount'.deleted \in Int
      /\ SFcount'.new - SFcount'.deleted
           = live(1) + (live(2) - gone(2)) + (live(3) - gone(3))
  BY ONLY <1>2, <1>4, <1>5
<1> QED BY <1>1, <1>3, <1>4, <1>6, <1>7 DEF SFnumInv, SFnumExact

LEMMA SFnumInductive == SFnumInv /\ [Next]_vars => SFnumInv'
<1> SUFFICES ASSUME SFnumInv, [Next]_vars PROVE SFnumInv'
  OBVIOUS
<1>1. ASSUME UNCHANGED <<SFindex, SFcount>> PROVE SFnumInv'
  BY <1>1 DEF SFnumInv, SFnumExact, Live, EntryFields
<1>2. ASSUME NEW p \in Offered, Process(p[1], p[2]) PROVE SFnumInv'
  <2>1. \/ UNCHANGED <<SFindex, SFcount>>
        \/ \E id : SFInsert(p[1], id)
    BY <1>2 DEF Process, Duplicate, ReadPastEnd, DuplicateOf, NoSimilar, FalseFit,
       SaveBase, StoreDelta
  <2> QED BY <1>1, <2>1, InsertKeepsSFnum
<1>3. ASSUME NEW p \in Offered, DeltaError(p[1]) PROVE SFnumInv'
  BY <1>1, <1>3 DEF DeltaError
<1>4. CASE EndBackup
  BY <1>4, CleanKeepsSFnum DEF EndBackup
<1>5. CASE UNCHANGED vars
  BY <1>1, <1>5 DEF vars
<1> QED BY <1>2, <1>3, <1>4, <1>5 DEF Next

\* SFNew - SFDelete is the number of live entries, for any features (repeated
\* within a chunk or shared between chunks), tiers and spans, whatever is
\* refreshed, emptied and filled again.
THEOREM SFnumExactHolds == Spec => []SFnumExact
<1>1. Init => SFnumInv
  <2> SUFFICES ASSUME Init PROVE SFnumInv
    OBVIOUS
  <2>1. \A t \in Tiers : Live(t) = {}
    BY DEF Init, Live, Empty
  <2>2. \A t \in Tiers : IsFiniteSet(Live(t)) /\ Cardinality(Live(t)) = 0
    BY <2>1, FS_EmptySet
  <2>3. TierSum([t \in Tiers |-> Cardinality(Live(t))]) = 0
    BY <2>2 DEF TierSum, Tiers
  <2> QED BY <2>2, <2>3 DEF Init, SFnumInv, SFnumExact, EntryFields, Empty
<1>2. SFnumInv => SFnumExact
  BY DEF SFnumInv
<1> QED BY <1>1, <1>2, SFnumInductive, PTL DEF Spec

-----------------------------------------------------------------------------
(* Accounting *)

LEMMA AccountInductive == AccountInv /\ [Next]_vars => AccountInv'
<1> SUFFICES ASSUME AccountInv, [Next]_vars PROVE AccountInv'
  OBVIOUS
<1> USE DEF AccountInv
<1>1. ASSUME UNCHANGED <<stats, chunklist>> PROVE AccountInv'
  BY <1>1, SameCounts DEF SizesInv, Chunk, ChunkIds
<1>2. ASSUME NEW c, NEW id, NEW m, DuplicateOf(c, id, m), m.chunkSize \in Nat
      PROVE  AccountInv'
  BY <1>2, DuplicateCounts DEF DuplicateOf, SizesInv, Chunk, ChunkIds
<1>3. ASSUME NEW p \in Offered, Process(p[1], p[2]) PROVE AccountInv'
  <2>1. p[1] \in Contents /\ ChunkSize[p[1]] \in Nat
    BY AbsMethodAssumption, BaseSaveBounds DEF AbsMethodAssumption
  <2>2. CASE Duplicate(p[1])
    BY <1>2, <2>2 DEF Duplicate, SizesInv
  <2>3. CASE ReadPastEnd(p[1])
    <3>1. PICK h \in BOOLEAN, flag \in {"NO_DELTA", "DELTA"},
               id \in ChunkIds \union {NoChunk}, size \in JunkSizes :
                 DuplicateOf(p[1], id, [HeaderFlag |-> h, deltaFlag |-> flag, chunkSize |-> size])
      BY <2>3 DEF ReadPastEnd
    <3>2. size \in Nat
      BY PalantirAssumption DEF PalantirAssumption
    <3> QED BY <1>2, <3>1, <3>2
  <2>4. ASSUME SaveBase(p[1], p[2]) PROVE AccountInv'
    <3>1. CountInv'
      BY <2>1, <2>4, BaseCounts DEF SaveBase
    <3>2. BaseEntry(p[1], p[2]).chunkSize \in Nat
      BY <2>1 DEF BaseEntry, Entry
    <3> QED BY <2>4, <3>1, <3>2, AppendSizes DEF SaveBase, CountInv
  <2>5. ASSUME NEW save \in DeltaSizes, StoreDelta(p[1], p[2], save) PROVE AccountInv'
    <3>1. save \in Int
      BY PalantirAssumption DEF PalantirAssumption
    <3>2. PICK e : chunklist' = Append(chunklist, e) /\ e.chunkSize = ChunkSize[p[1]]
      BY <2>5 DEF StoreDelta, Entry
    <3>3. CountInv'
      BY <2>1, <2>5, <3>1, <3>2, DeltaCounts DEF StoreDelta
    <3> QED BY <2>1, <3>2, <3>3, AppendSizes DEF CountInv
  <2> QED BY <1>3, <2>2, <2>3, <2>4, <2>5 DEF Process, NoSimilar, FalseFit
<1>4. ASSUME NEW p \in Offered, DeltaError(p[1]) PROVE AccountInv'
  BY <1>1, <1>4 DEF DeltaError
<1>5. CASE EndBackup
  BY <1>1, <1>5 DEF EndBackup
<1>6. CASE UNCHANGED vars
  BY <1>1, <1>6 DEF vars, absVars
<1> QED BY <1>3, <1>4, <1>5, <1>6 DEF Next

LEMMA AccountInvariant == Spec => []AccountInv
<1>1. Init => AccountInv
  BY InitCounts DEF Init, AbsInit, AccountInv, SizesInv, ChunkIds, IdsOf
<1> QED BY <1>1, AccountInductive, PTL DEF Spec

\* Palantir's counters add up too, false fits and delta errors included.
THEOREM AccountingHolds == Spec => []Accounting
<1>1. AccountInv => Accounting
  BY CountsAccount DEF AccountInv
<1> QED BY <1>1, AccountInvariant, PTL

-----------------------------------------------------------------------------
(* RestoreCorrect and SimilarBase *)

\* An index entry, live or emptied, names a chunk that is stored whole and has
\* the entry's key among its features.
NamesBase(list, id, f) ==
  /\ id \in IdsOf(list) /\ IsBase(ChunkAt(list, id))
  /\ \E l \in 1 .. TierEnd[3] : f = SuperFeature[ChunkAt(list, id).content][l]

BasesInv ==
  /\ DOMAIN SFindex = Tiers
  /\ \A t \in Tiers : \A f \in DOMAIN SFindex[t] :
       NamesBase(chunklist, SFindex[t][f].id, f)

\* Only until the first delta error: from then on a fingerprint may lead to a
\* chunk with another content.
CleanInv ==
  /\ backup \in Nat /\ errors \in Nat
  /\ errors = 0 => RestoreInv /\ BasesInv

\* What SF_Find returns is a chunk stored whole that shares a feature with c.
LEMMA FoundIsBase ==
  ASSUME BasesInv, NEW c, SFFind(c) # NoChunk
  PROVE  \E k \in 1 .. TierEnd[3] : NamesBase(chunklist, SFFind(c), SuperFeature[c][k])
<1> DEFINE tiers == {t \in Tiers : Hits(c, t) # {}}
           t == Least(tiers)
           k == Least(Hits(c, t))
<1>1. tiers # {} /\ SFFind(c) = SFindex[t][SuperFeature[c][k]].id
  BY DEF SFFind
<1>2. tiers \in SUBSET Nat
  BY DEF Tiers
<1>3. t \in tiers
  BY <1>1, <1>2, LeastExists DEF Least
<1>4. Hits(c, t) \in SUBSET Nat /\ Hits(c, t) # {} /\ t \in Tiers
  <2>1. \A u : Hits(c, u) \in SUBSET Nat
    BY PalantirAssumption DEF Hits
  <2> HIDE DEF t
  <2> QED BY ONLY <1>3, <2>1
<1>5. k \in Hits(c, t)
  BY <1>4, LeastExists DEF Least
<1>6. k \in 1 .. TierEnd[3] /\ SuperFeature[c][k] \in DOMAIN SFindex[t]
  BY <1>5 DEF Hits
<1> HIDE DEF t, k
<1> QED BY <1>1, <1>4, <1>6 DEF BasesInv

LEMMA ProlongsBases ==
  ASSUME BasesInv, Prolongs(chunklist', chunklist), UNCHANGED SFindex
  PROVE  BasesInv'
BY DEF BasesInv, NamesBase, Prolongs

LEMMA KeysAreFeatures ==
  ASSUME NEW c, NEW t \in Tiers, NEW f \in Keys(c, t)
  PROVE  \E l \in 1 .. TierEnd[3] : f = SuperFeature[c][l]
<1> DEFINE first == IF t = 1 THEN 1 ELSE TierEnd[t - 1] + 1
<1>1. PICK k \in first .. TierEnd[t] : f = SuperFeature[c][k]
  BY DEF Keys
<1>2. k \in 1 .. TierEnd[3]
  BY PalantirAssumption DEF PalantirAssumption, Tiers
<1> QED BY <1>1, <1>2

LEMMA InsertBases ==
  ASSUME BasesInv, Prolongs(chunklist', chunklist), NEW c,
         NEW id \in IdsOf(chunklist'), IsBase(ChunkAt(chunklist', id)),
         ChunkAt(chunklist', id).content = c, SFInsert(c, id)
  PROVE  BasesInv'
<1>1. DOMAIN SFindex' = Tiers
  BY DEF SFInsert
<1>2. ASSUME NEW t \in Tiers, NEW f \in DOMAIN SFindex'[t]
      PROVE  NamesBase(chunklist', SFindex'[t][f].id, f)
  <2>1. CASE f \in Keys(c, t)
    <3>1. SFindex'[t][f].id = id
      BY <1>2, <2>1 DEF SFInsert
    <3> QED BY <1>2, <2>1, <3>1, KeysAreFeatures DEF NamesBase
  <2>2. CASE f \notin Keys(c, t)
    <3>1. f \in DOMAIN SFindex[t] /\ SFindex'[t][f] = SFindex[t][f]
      BY <1>2, <2>2 DEF SFInsert
    <3>2. NamesBase(chunklist, SFindex[t][f].id, f)
      BY <1>2, <3>1 DEF BasesInv
    <3> QED BY <3>1, <3>2 DEF NamesBase, Prolongs
  <2> QED BY <2>1, <2>2
<1> QED BY <1>1, <1>2 DEF BasesInv

\* CleanIndex empties entries and changes none of their ids.
LEMMA CleanKeepsBases ==
  ASSUME BasesInv, CleanIndex, UNCHANGED chunklist
  PROVE  BasesInv'
<1>1. ASSUME NEW t \in Tiers
      PROVE  /\ DOMAIN SFindex'[t] = DOMAIN SFindex[t]
             /\ \A f \in DOMAIN SFindex[t] : SFindex'[t][f].id = SFindex[t][f].id
  BY <1>1 DEF CleanIndex
<1>2. DOMAIN SFindex' = Tiers
  BY DEF CleanIndex
<1> QED BY <1>1, <1>2 DEF BasesInv

LEMMA CleanInductive ==
  ASSUME AccountInv, CleanInv, [Next]_vars
  PROVE  CleanInv'
<1>1. CountInv /\ backup \in Nat /\ errors \in Nat
  BY DEF AccountInv, CleanInv
<1>2. ASSUME backup' \in Nat, errors' = errors, errors = 0 => RestoreInv' /\ BasesInv'
      PROVE  CleanInv'
  BY <1>1, <1>2 DEF CleanInv
<1>3. ASSUME NEW p \in Offered, Process(p[1], p[2]) PROVE CleanInv'
  <2>1. /\ backup \in Backups /\ HandedOver(p[1], p[2]) /\ UNCHANGED <<backup, errors>>
        /\ p[1] \in Contents
    BY <1>1, <1>3, AbsMethodAssumption DEF Process, Backups, AbsMethodAssumption
  <2> SUFFICES ASSUME errors = 0 PROVE RestoreInv' /\ BasesInv'
    BY <1>1, <1>2, <2>1
  <2>2. RestoreInv /\ BasesInv
    BY DEF CleanInv
  <2>3. CASE Duplicate(p[1])
    <3> DEFINE id == FPindex[p[1]]
    <3>1. /\ FP_Known(p[1]) /\ Record(Chunk(id).HeaderFlag, id)
          /\ IF IsBase(Chunk(id)) THEN SFInsert(p[1], id) ELSE UNCHANGED <<SFindex, SFcount>>
          /\ UNCHANGED <<FPindex, chunklist>>
      BY <2>3 DEF Duplicate, DuplicateOf, Refreshes
    <3>2. RestoreInv'
      BY <2>1, <2>2, <3>1, DuplicateRestores
    <3>3. id \in IdsOf(chunklist') /\ ChunkAt(chunklist', id).content = p[1]
      BY <2>2, <3>1 DEF RestoreInv, IndexInv, FP_Known, Chunk, ChunkIds
    <3>4. Prolongs(chunklist', chunklist)
      BY <3>1 DEF Prolongs
    <3>5. CASE IsBase(Chunk(id))
      BY <2>2, <3>1, <3>2, <3>3, <3>4, <3>5, InsertBases DEF Chunk
    <3>6. CASE ~IsBase(Chunk(id))
      BY <2>2, <3>1, <3>2, <3>4, <3>6, ProlongsBases
    <3> QED BY <3>5, <3>6
  <2>4. ~ReadPastEnd(p[1])
    BY <2>2 DEF ReadPastEnd, FP_Known, RestoreInv, IndexInv
  <2>5. ASSUME SaveBase(p[1], p[2]) PROVE RestoreInv' /\ BasesInv'
    <3> DEFINE e == BaseEntry(p[1], p[2])
    <3>1. /\ e.content = p[1] /\ e.HeaderFlag = p[2] /\ IsBase(e)
          /\ e.bytes = <<"whole", e.content>>
      BY DEF BaseEntry, Entry, IsBase
    <3>2. /\ chunklist' = Append(chunklist, e) /\ FP_Insert(p[1], NewId)
          /\ SFInsert(p[1], NewId) /\ Record(p[2], NewId)
      BY <2>5 DEF SaveBase
    <3>3. NewId = Len(chunklist) /\ IsSeq(chunklist)
      BY <1>1 DEF NewId, CountInv
    <3> HIDE DEF e
    <3>4. RestoreInv'
      BY <1>1, <2>1, <2>2, <3>1, <3>2, StoreRestores
    <3>5. /\ Prolongs(chunklist', chunklist) /\ Len(chunklist) \in IdsOf(chunklist')
          /\ ChunkAt(chunklist', Len(chunklist)) = e
      BY <3>2, <3>3, AppendProlongs
    <3>6. BasesInv'
      BY <2>2, <3>1, <3>2, <3>3, <3>5, InsertBases
    <3> QED BY <3>4, <3>6
  <2>6. ASSUME NEW save \in DeltaSizes, StoreDelta(p[1], p[2], save)
        PROVE  RestoreInv' /\ BasesInv'
    <3>1. PICK e :
            /\ chunklist' = Append(chunklist, e)
            /\ e.content = p[1] /\ e.HeaderFlag = p[2] /\ ~IsBase(e)
            /\ e.basechunkID = SFFind(p[1])
            /\ e.bytes = <<"delta", e.content, ReferenceIn(chunklist, e.basechunkID)>>
      <4> DEFINE e == Entry(p[1], p[2], <<"delta", p[1], ReferenceIn(chunklist, SFFind(p[1]))>>,
                            "DELTA", SFFind(p[1]), save)
      <4>1. chunklist' = Append(chunklist, e)
        BY <2>6 DEF StoreDelta
      <4>2. /\ e.content = p[1] /\ e.HeaderFlag = p[2] /\ ~IsBase(e)
            /\ e.basechunkID = SFFind(p[1])
            /\ e.bytes = <<"delta", e.content, ReferenceIn(chunklist, e.basechunkID)>>
        BY DEF Entry, IsBase
      <4> HIDE DEF e
      <4> QED BY <4>1, <4>2
    <3>2. /\ FP_Insert(p[1], NewId) /\ Record(p[2], NewId) /\ SFFind(p[1]) # NoChunk
          /\ UNCHANGED SFindex
      BY <2>6 DEF StoreDelta
    <3>3. /\ e.basechunkID \in IdsOf(chunklist)
          /\ IsBase(ChunkAt(chunklist, e.basechunkID))
      BY <2>2, <3>1, <3>2, FoundIsBase DEF NamesBase
    <3>4. RestoreInv'
      BY <1>1, <2>1, <2>2, <3>1, <3>2, <3>3, StoreRestores
    <3>5. Prolongs(chunklist', chunklist)
      BY <1>1, <3>1, AppendProlongs DEF CountInv
    <3> QED BY <2>2, <3>2, <3>4, <3>5, ProlongsBases
  <2> QED BY <1>3, <2>3, <2>4, <2>5, <2>6 DEF Process, NoSimilar, FalseFit
<1>4. ASSUME NEW p \in Offered, DeltaError(p[1]) PROVE CleanInv'
  BY <1>1, <1>4 DEF DeltaError, CleanInv
<1>5. CASE EndBackup
  <2>1. CleanIndex /\ UNCHANGED <<FPindex, chunklist, recipeVars, sentVars, errors>>
    BY <1>5 DEF EndBackup
  <2>2. backup' \in Nat
    BY <1>1, <1>5 DEF EndBackup
  <2>3. ASSUME errors = 0 PROVE RestoreInv' /\ BasesInv'
    BY <2>1, <2>3, SameRestores, CleanKeepsBases DEF CleanInv
  <2> QED BY <1>2, <2>1, <2>2, <2>3
<1>6. CASE UNCHANGED vars
  <2>1. ASSUME errors = 0 PROVE RestoreInv' /\ BasesInv'
    BY <1>6, <2>1, SameRestores DEF vars, absVars, CleanInv, BasesInv
  <2> QED BY <1>1, <1>2, <1>6, <2>1 DEF vars, absVars
<1> QED BY <1>3, <1>4, <1>5, <1>6 DEF Next

LEMMA CleanInvariant == Spec => []CleanInv
<1>1. Init => CleanInv
  <2> SUFFICES ASSUME Init PROVE CleanInv
    OBVIOUS
  <2>1. BasesInv
    BY DEF Init, BasesInv, Empty
  <2> QED BY <2>1, InitRestores DEF Init, AbsInit, CleanInv
<1>2. AccountInv /\ CleanInv /\ [Next]_vars => CleanInv'
  BY CleanInductive
<1> QED BY <1>1, <1>2, AccountInvariant, PTL DEF Spec

\* As long as no delta error has occurred and no content has come both as data
\* and as a header, every recipe gives back what was handed over, although a
\* base may be found through an entry that CleanIndex has emptied: its element
\* still names a chunk stored whole.
THEOREM RestoreCorrectHolds == Spec => []RestoreCorrect
<1>1. CleanInv => RestoreCorrect
  BY FollowingRestores DEF CleanInv, RestoreCorrect, RestoreInv
<1> QED BY <1>1, CleanInvariant, PTL

\* Whatever SF_Find returns, through a live, a refreshed or an erased entry, is
\* a stored whole chunk that shares a feature with the new one, for any features.
THEOREM SimilarBaseHolds == Spec => []SimilarBase
<1>1. ASSUME CleanInv PROVE SimilarBase
  <2> SUFFICES ASSUME errors = 0, NEW c \in Contents, SFFind(c) # NoChunk
               PROVE  /\ SFFind(c) \in ChunkIds /\ IsBase(Chunk(SFFind(c)))
                      /\ \E k, l \in 1 .. TierEnd[3] :
                           SuperFeature[c][k] = SuperFeature[Chunk(SFFind(c)).content][l]
    BY DEF SimilarBase
  <2>1. BasesInv
    BY <1>1 DEF CleanInv
  <2>2. PICK k \in 1 .. TierEnd[3] : NamesBase(chunklist, SFFind(c), SuperFeature[c][k])
    BY <2>1, FoundIsBase
  <2> QED BY <2>2 DEF NamesBase, Chunk, ChunkIds
<1> QED BY <1>1, CleanInvariant, PTL
=============================================================================

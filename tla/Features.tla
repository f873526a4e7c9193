------------------------------ MODULE Features ------------------------------
(***************************************************************************)
(* The resemblance detectors: FeatureGenerator with Odess' and Palantir's  *)
(* super-features and FeatureIndexTable                                    *)
(* (src/src/method/odess_similarity_detection.cc), FeatureGen of           *)
(* NTransForm (Ntrans_similarity.cc) and Finesse's GetSF (absMethod.cc).   *)
(* Each slides over the bytes of a chunk with a hash that is updated, not  *)
(* recomputed, and keeps extreme values of it.                             *)
(*                                                                         *)
(* The arithmetic is the code's with smaller word sizes and windows.       *)
(***************************************************************************)
EXTENDS XXHash, FiniteSetsExt, Functions

CONSTANTS
  Chunks,           \* the chunks to choose from, sequences of bytes
  Keys,             \* keys of FeatureIndexTable
  U64_BITS,         \* bits of a uint64_t
  U32_RANGE,        \* what a uint32_t can tell apart
  GEARmx(_),        \* the gear table
  kSampleRatioMask, \* one of so many hashes is sampled
  WINDOW_SIZE       \* bytes in a sliding window of NTransForm and Finesse

ASSUME FeaturesAssumption ==
  /\ U64_BITS \in Nat /\ U32_RANGE \in 2 .. 2 ^ U64_BITS /\ kSampleRatioMask \in Nat \ {0}
  /\ WINDOW_SIZE \in Nat \ {0}

VARIABLES
  features_,          \* FeatureGenerator: kept from call to call
  key_feature_table_, \* FeatureIndexTable: key -> super-features
  feature_key_table_, \* super-feature -> keys
  last                \* the extraction just made: method, chunk and its result

fvars == <<features_, key_feature_table_, feature_key_table_, last>>

U64_RANGE == 2 ^ U64_BITS
FEATURE_NUM == 12
SUPERFEATURE_NUM == 3
Feature == 0 .. (FEATURE_NUM - 1)

\* random_transform_args_a_, _b_, mSet and aSet: constants drawn once.
ArgA(j) == 2 * j + 3
ArgB(j) == 5 * j + 1

\* XXH64 of the features f[i] for the indices in the sequence.  XXHash's term
\* is one-to-one, so what is hashed stands for the hash.
HashOf(f, indices) == [k \in DOMAIN indices |-> f[indices[k]]]

-----------------------------------------------------------------------------
(* FeatureGenerator *)

\* The gear hash after each byte.
GearHashes(value) ==
  LET hash[i \in 0 .. Len(value)] ==
        IF i = 0 THEN 0 ELSE (2 * hash[i - 1] + GEARmx(value[i])) % U64_RANGE
  IN  hash

Transform(h, j) == (h * ArgA(j) + ArgB(j)) % U64_RANGE

\* OdessResemblanceDetect and PalantirResemblanceDetect: features f grow to the
\* largest transform of a sampled hash.
ResemblanceDetect(f, value) ==
  LET hash == GearHashes(value)
      sampled == {hash[i] : i \in {k \in 1 .. Len(value) : hash[k] % kSampleRatioMask = 0}}
  IN  [j \in Feature |-> Max({f[j]} \union {Transform(h, j) : h \in sampled})]

\* Mutant: the features of the chunk before are left.
CleanFeatures_Not == features_

CleanFeatures == [j \in Feature |-> 0]

\* Group number i of groups of n features.
Group(i, n) == [k \in 1 .. n |-> i * n + k - 1]

\* GroupFeaturesAsSuperFeatures.
MakeSuperFeatures(f) ==
  [i \in 1 .. SUPERFEATURE_NUM |-> HashOf(f, Group(i - 1, FEATURE_NUM \div SUPERFEATURE_NUM))]

\* PalantirMakeSF: three groups of four, four of three and six of two.
PalantirMakeSF(f) ==
  [i \in 1 .. 13 |-> CASE i <= 3 -> HashOf(f, Group(i - 1, FEATURE_NUM \div 3))
                       [] i \in 4 .. 7 -> HashOf(f, Group(i - 4, FEATURE_NUM \div 4))
                       [] OTHER -> HashOf(f, Group(i - 8, FEATURE_NUM \div 6))]

GenerateSuperFeatures(value) == MakeSuperFeatures(ResemblanceDetect(CleanFeatures, value))

-----------------------------------------------------------------------------
(* FeatureGen of NTransForm: a polynomial rolling hash, base polyBase_ *)

polyBase_ == 257

\* The hash of the first window, then of the next ones: the byte that leaves
\* is taken back and the next is added.  A window is recorded before the byte
\* behind it is added.
FpList(value) ==
  LET removed(b) == (-b * polyBase_ ^ (WINDOW_SIZE - 1)) % U64_RANGE
      start[i \in 0 .. WINDOW_SIZE] ==
        IF i = 0 THEN 0
        ELSE (start[i - 1] + value[i] * polyBase_ ^ (WINDOW_SIZE - i)) % U64_RANGE
      winFp[i \in 0 .. (Len(value) - WINDOW_SIZE)] ==
        IF i = 0 THEN start[WINDOW_SIZE]
        ELSE ((winFp[i - 1] + removed(value[i])) * polyBase_ + value[i + WINDOW_SIZE]) % U64_RANGE
  IN  IF Len(value) <= WINDOW_SIZE THEN <<>>
      ELSE [i \in 1 .. (Len(value) - WINDOW_SIZE) |-> winFp[i - 1]]

\* The first fingerprint with the largest transform, 0 if none is above 0;
\* stored in a uint32_t.
TargetFp(fps, i) ==
  LET Pi(k) == (fps[k] * ArgA(i) + ArgB(i)) % U32_RANGE
      best == {k \in DOMAIN fps : Pi(k) > 0 /\ \A n \in DOMAIN fps : Pi(n) <= Pi(k)}
  IN  IF best = {} THEN 0 ELSE fps[Min(best)] % U32_RANGE

getFeatureList(value) ==
  LET fps == FpList(value)
      feature == [i \in Feature |-> TargetFp(fps, i)]
  IN  [i \in 1 .. SUPERFEATURE_NUM |->
         HashOf(feature, [j \in 1 .. (FEATURE_NUM \div SUPERFEATURE_NUM) |-> (j - 1) * SUPERFEATURE_NUM + i - 1])]

-----------------------------------------------------------------------------
(* Finesse: the largest fingerprint of each of twelve sub-chunks *)

A == 37
MOD == 101
Apower == (A ^ (WINDOW_SIZE - 1)) % MOD

subchunkIndex(value, i) == (Len(value) * i) \div FEATURE_NUM

\* The first byte of the last window of sub-chunk i.
LastWindow(value, i) == subchunkIndex(value, i + 1) - WINDOW_SIZE

\* The fingerprints of the windows of sub-chunk i, rolled over it.
Fingerprints(value, i) ==
  LET from == subchunkIndex(value, i)
      start[k \in 0 .. WINDOW_SIZE] ==
        IF k = 0 THEN 0 ELSE (start[k - 1] * A + value[from + k]) % MOD
      fp[j \in from .. LastWindow(value, i)] ==
        IF j = from THEN start[WINDOW_SIZE]
        ELSE (((fp[j - 1] - ((value[j] * Apower) % MOD)) % MOD) * A + value[j + WINDOW_SIZE]) % MOD
  IN  Range(fp)

\* std::sort of each run of SUPERFEATURE_NUM features.
Sorted(f) ==
  [i \in Feature |->
     LET run == {k \in Feature : k \div SUPERFEATURE_NUM = i \div SUPERFEATURE_NUM}
         Below(x) == Cardinality({k \in run : f[k] < x})
         UpTo(x) == Cardinality({k \in run : f[k] <= x})
     IN  CHOOSE x \in {f[k] : k \in run} : Below(x) <= i % SUPERFEATURE_NUM /\ i % SUPERFEATURE_NUM < UpTo(x)]

\* GetSF.
FinesseSF(value) ==
  LET f == Sorted([i \in Feature |-> Max({0} \union Fingerprints(value, i))])
  IN  [i \in 1 .. SUPERFEATURE_NUM |->
         HashOf(f, [j \in 1 .. (FEATURE_NUM \div SUPERFEATURE_NUM) |-> (j - 1) * SUPERFEATURE_NUM + i - 1])]

-----------------------------------------------------------------------------
(* The calls *)

SuperFeaturesOf(s) == {s[i] : i \in DOMAIN s}

NoExtraction == [method |-> "none", chunk |-> <<>>, sf |-> <<>>]

FeaturesInit ==
  /\ features_ = [j \in Feature |-> 0]
  /\ key_feature_table_ = [k \in {} |-> <<>>]
  /\ feature_key_table_ = [f \in {} |-> {}]
  /\ last = NoExtraction

Extracted(method, value, sf) == last' = [method |-> method, chunk |-> value, sf |-> sf]

\* FeatureGenerator::GenerateSuperFeatures, from Odess.
Odess ==
  \E value \in Chunks :
    /\ features_' = ResemblanceDetect(CleanFeatures, value)
    /\ Extracted("odess", value, MakeSuperFeatures(features_'))
    /\ UNCHANGED <<key_feature_table_, feature_key_table_>>

PalantirGetSF ==
  \E value \in Chunks :
    /\ features_' = ResemblanceDetect(CleanFeatures, value)
    /\ Extracted("palantir", value, PalantirMakeSF(features_'))
    /\ UNCHANGED <<key_feature_table_, feature_key_table_>>

NTransForm ==
  \E value \in Chunks :
    /\ Extracted("ntrans", value, getFeatureList(value))
    /\ UNCHANGED <<features_, key_feature_table_, feature_key_table_>>

Finesse ==
  \E value \in Chunks :
    /\ Extracted("finesse", value, FinesseSF(value))
    /\ UNCHANGED <<features_, key_feature_table_, feature_key_table_>>

-----------------------------------------------------------------------------
(* FeatureIndexTable *)

\* ExecuteDelete: the key leaves both tables; a super-feature may stay with no
\* key.
WithoutKey(key) ==
  [f \in DOMAIN feature_key_table_ |->
     IF key \in DOMAIN key_feature_table_ /\ f \in SuperFeaturesOf(key_feature_table_[key])
     THEN feature_key_table_[f] \ {key} ELSE feature_key_table_[f]]

Delete ==
  \E key \in Keys :
    /\ feature_key_table_' = WithoutKey(key)
    /\ key_feature_table_' = Restrict(key_feature_table_, DOMAIN key_feature_table_ \ {key})
    /\ last' = NoExtraction
    /\ UNCHANGED features_

\* Mutant: the old super-features of the key are not deleted.
Old_Kept(key) == feature_key_table_

\* What is left of feature_key_table_ when Put inserts the key again.
Old(key) == WithoutKey(key)

Put ==
  \E value \in Chunks :
    /\ features_' = ResemblanceDetect(CleanFeatures, value)
    /\ \E key \in Keys :
         LET sf == MakeSuperFeatures(features_')
             old == Old(key)
         IN  /\ key_feature_table_' = [k \in DOMAIN key_feature_table_ \union {key} |->
                                         IF k = key THEN sf ELSE key_feature_table_[k]]
             /\ feature_key_table_' =
                  [f \in DOMAIN old \union SuperFeaturesOf(sf) |->
                     (IF f \in DOMAIN old THEN old[f] ELSE {})
                       \union (IF f \in SuperFeaturesOf(sf) THEN {key} ELSE {})]
    /\ last' = NoExtraction

\* GetSimilarRecordsKeys walks the super-features of the key in order and
\* returns the first other key it meets.  These are the keys it may return,
\* for an unordered_set is iterated in any order; none stands for "not found".
GetSimilarRecordsKeys(key) ==
  LET sf == key_feature_table_[key]
      Others(i) == feature_key_table_[sf[i]] \ {key}
  IN  IF key \notin DOMAIN key_feature_table_ THEN {}
      ELSE {k \in Keys : \E i \in DOMAIN sf :
              k \in Others(i) /\ \A j \in 1 .. (i - 1) : Others(j) = {}}

CountAllSimilarRecords ==
  Cardinality(UNION {keys \in Range(feature_key_table_) : Cardinality(keys) > 1})

FeaturesNext == Odess \/ PalantirGetSF \/ NTransForm \/ Finesse \/ Delete \/ Put

\* The detectors hash with XXH64 and in one call; feeding is exercised by
\* itself.
DetectInit == FeaturesInit /\ XXH_reset

DetectNext ==
  \/ width = 8 /\ fed = <<>> /\ FeaturesNext /\ UNCHANGED xvars
  \/ last.method = "none" /\ key_feature_table_ = <<>> /\ XXH_update /\ UNCHANGED fvars

DetectSpec == DetectInit /\ [][DetectNext]_<<fvars, xvars>>

-----------------------------------------------------------------------------
(* Properties *)

\* The gear hash at byte i: the shifts leave only the last U64_BITS bytes.
WindowGear(value, i) ==
  MapThenSumSet(LAMBDA d : 2 ^ d * GEARmx(value[i - d]), 0 .. (Min({i, U64_BITS}) - 1)) % U64_RANGE

\* The value of the window behind byte i as a polynomial in base b.
Polynomial(value, i, b, range) ==
  MapThenSumSet(LAMBDA k : value[i + k] * b ^ (WINDOW_SIZE - k), 1 .. WINDOW_SIZE) % range

\* Super-features without any rolling and without any state.
Reference(method, value) ==
  LET odess == [j \in Feature |->
                  Max({0} \union {Transform(h, j) : h \in
                        {g \in {WindowGear(value, i) : i \in 1 .. Len(value)} :
                           g % kSampleRatioMask = 0}})]
      ntrans == LET fps == [i \in 1 .. (Len(value) - WINDOW_SIZE) |->
                              Polynomial(value, i - 1, polyBase_, U64_RANGE)]
                IN  [i \in Feature |-> TargetFp(fps, i)]
      windows(i) == {j \in 0 .. (Len(value) - WINDOW_SIZE) :
                       /\ subchunkIndex(value, i) <= j
                       /\ j + WINDOW_SIZE <= subchunkIndex(value, i + 1)}
      finesse == Sorted([i \in Feature |->
                           Max({0} \union {Polynomial(value, j, A, MOD) : j \in windows(i)})])
      Columns(f) == [i \in 1 .. 3 |-> HashOf(f, <<i - 1, i + 2, i + 5, i + 8>>)]
  IN  CASE method = "odess" -> MakeSuperFeatures(odess)
        [] method = "palantir" -> PalantirMakeSF(odess)
        [] method = "ntrans" -> Columns(ntrans)
        [] method = "finesse" -> Columns(finesse)

References ==
  [method \in {"odess", "palantir", "ntrans", "finesse"} |->
     [value \in Chunks |-> Reference(method, value)]]

\* The super-features of a chunk depend on nothing but the chunk, and the
\* rolled hashes are those of the windows: chunks with equal content get equal
\* super-features whatever was processed before.
SFExact ==
  last.method = "none" \/ last.sf = References[last.method][last.chunk]

\* The other records that share a super-feature with the record of key k.
Similar(k) ==
  {n \in DOMAIN key_feature_table_ \ {k} :
     /\ k \in DOMAIN key_feature_table_
     /\ SuperFeaturesOf(key_feature_table_[k]) \intersect SuperFeaturesOf(key_feature_table_[n]) # {}}

\* The two tables of FeatureIndexTable are inverse to each other after any
\* sequence of Put and Delete, so that GetSimilarRecordsKeys returns a similar
\* record, finds one whenever there is one, and never a deleted or an outdated
\* one, and CountAllSimilarRecords counts the records for which it finds one.
IndexInverse ==
  /\ \A f \in DOMAIN feature_key_table_ :
       feature_key_table_[f] = {k \in DOMAIN key_feature_table_ :
                                  f \in SuperFeaturesOf(key_feature_table_[k])}
  /\ \A k \in Keys : /\ GetSimilarRecordsKeys(k) \subseteq Similar(k)
                     /\ GetSimilarRecordsKeys(k) = {} => Similar(k) = {}
  /\ CountAllSimilarRecords = Cardinality({k \in Keys : GetSimilarRecordsKeys(k) # {}})
=============================================================================

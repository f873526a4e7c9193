---------------------------- MODULE MethodProofs ----------------------------
(***************************************************************************)
(* What the proofs about the compression methods share: lemmas on the list  *)
(* of stored chunks, on the recipes that follow it and on the counters, for *)
(* the operations of AbsMethod.  DeltaDedupProofs, PalantirProofs and       *)
(* SimilarityProofs apply them to the steps of the three ProcessTraces.     *)
(***************************************************************************)
EXTENDS AbsMethod, TLAPS, WellFoundedInduction

\* A set of numbers has a least one: the first feature that hits.
LEMMA LeastExists ==
  ASSUME NEW S \in SUBSET Nat, S # {}
  PROVE  \E x \in S : \A y \in S : x <= y
<1>1. PICK x \in S : \A y \in S : <<y, x>> \notin OpToRel(<, Nat)
  BY NatLessThanWellFounded, WFMin
<1>2. ASSUME NEW y \in S PROVE x <= y
  <2>1. ~(y < x)
    BY <1>1, <1>2 DEF OpToRel
  <2> QED BY <2>1
<1> QED BY <1>2

-----------------------------------------------------------------------------
(* The list of chunks only grows *)

IsSeq(s) == \E S : s \in Seq(S)

LEMMA AppendSeq ==
  ASSUME NEW s, IsSeq(s), NEW e
  PROVE  /\ IsSeq(Append(s, e))
         /\ Len(s) \in Nat /\ Len(Append(s, e)) = Len(s) + 1
         /\ Append(s, e)[Len(s) + 1] = e
         /\ \A k \in 1 .. Len(s) : Append(s, e)[k] = s[k]
<1>1. PICK S : s \in Seq(S)
  BY DEF IsSeq
<1>2. s \in Seq(S \union {e}) /\ e \in S \union {e}
  BY <1>1
<1>3. Append(s, e) \in Seq(S \union {e})
  BY <1>2
<1> QED BY <1>2, <1>3 DEF IsSeq

LEMMA EmptyIsSeq == IsSeq(<<>>)
<1>1. <<>> \in Seq({})
  OBVIOUS
<1> QED BY <1>1 DEF IsSeq

\* longer has the chunks of list under the same ids, and perhaps more.
Prolongs(longer, list) ==
  /\ \A id \in IdsOf(list) : id \in IdsOf(longer) /\ ChunkAt(longer, id) = ChunkAt(list, id)

LEMMA AppendProlongs ==
  ASSUME NEW list, IsSeq(list), NEW e
  PROVE  /\ Prolongs(Append(list, e), list)
         /\ Len(list) \in IdsOf(Append(list, e))
         /\ ChunkAt(Append(list, e), Len(list)) = e
         /\ \A id \in IdsOf(Append(list, e)) : id \in IdsOf(list) \/ id = Len(list)
BY AppendSeq DEF Prolongs, IdsOf, ChunkAt

-----------------------------------------------------------------------------
(* Every stored chunk restores to its content *)

\* A chunk is whole, or a delta of a whole chunk made with that chunk's bytes:
\* this is why decoding without recursion is enough.
Decodable(list, id) ==
  LET e == ChunkAt(list, id)
  IN  IF IsBase(e) THEN e.bytes = <<"whole", e.content>>
      ELSE /\ e.basechunkID \in IdsOf(list) /\ IsBase(ChunkAt(list, e.basechunkID))
           /\ e.bytes = <<"delta", e.content, ChunkAt(list, e.basechunkID).bytes>>

AllDecodable(list) == \A id \in IdsOf(list) : Decodable(list, id)

LEMMA DecodableRestores ==
  ASSUME NEW list, AllDecodable(list), NEW id \in IdsOf(list)
  PROVE  RestoredFrom(list, id) = <<"whole", ChunkAt(list, id).content>>
<1> DEFINE e == ChunkAt(list, id)
           b == ChunkAt(list, e.basechunkID)
<1>1. CASE IsBase(e)
  BY <1>1 DEF AllDecodable, Decodable, RestoredFrom
<1>2. CASE ~IsBase(e)
  <2>1. /\ e.basechunkID \in IdsOf(list) /\ IsBase(b)
        /\ e.bytes = <<"delta", e.content, b.bytes>>
    BY <1>2 DEF AllDecodable, Decodable
  <2>2. b.bytes = <<"whole", b.content>>
    BY <2>1 DEF AllDecodable, Decodable
  <2>3. RestoredFrom(list, id) = Decode(e.bytes, b.bytes)
    BY <1>2, <2>1 DEF RestoredFrom, ReferenceIn
  <2>4. Decode(e.bytes, b.bytes) = <<"whole", e.content>>
    BY <2>1, <2>2 DEF Decode
  <2> QED BY <2>3, <2>4
<1> QED BY <1>1, <1>2

\* A whole chunk, or a delta against a whole chunk that is there, may be added.
LEMMA AppendDecodable ==
  ASSUME NEW list, IsSeq(list), AllDecodable(list), NEW e,
         \/ IsBase(e) /\ e.bytes = <<"whole", e.content>>
         \/ /\ ~IsBase(e)
            /\ e.basechunkID \in IdsOf(list) /\ IsBase(ChunkAt(list, e.basechunkID))
            /\ e.bytes = <<"delta", e.content, ReferenceIn(list, e.basechunkID)>>
  PROVE  AllDecodable(Append(list, e))
<1> DEFINE longer == Append(list, e)
<1>1. /\ Prolongs(longer, list)
      /\ ChunkAt(longer, Len(list)) = e
      /\ \A id \in IdsOf(longer) : id \in IdsOf(list) \/ id = Len(list)
  BY AppendProlongs
<1> HIDE DEF longer
<1>2. ASSUME NEW id \in IdsOf(list) PROVE Decodable(longer, id)
  <2>1. ChunkAt(longer, id) = ChunkAt(list, id) /\ Decodable(list, id)
    BY <1>1, <1>2 DEF Prolongs, AllDecodable
  <2>2. \A b \in IdsOf(list) : b \in IdsOf(longer) /\ ChunkAt(longer, b) = ChunkAt(list, b)
    BY <1>1 DEF Prolongs
  <2> QED BY <2>1, <2>2 DEF Decodable
<1>3. Decodable(longer, Len(list))
  BY <1>1 DEF Decodable, Prolongs, ReferenceIn
<1> QED BY <1>1, <1>2, <1>3 DEF AllDecodable, longer

-----------------------------------------------------------------------------
(* The recipes follow what was handed over *)

\* ids name, in order, stored chunks with these contents.
Follows(list, ids, contents) ==
  /\ ids \in Seq(Int) /\ contents \in Seq(Contents)
  /\ Len(ids) = Len(contents)
  /\ \A k \in 1 .. Len(ids) :
       ids[k] \in IdsOf(list) /\ ChunkAt(list, ids[k]).content = contents[k]

LEMMA FollowsProlonged ==
  ASSUME NEW list, NEW longer, Prolongs(longer, list),
         NEW ids, NEW contents, Follows(list, ids, contents)
  PROVE  Follows(longer, ids, contents)
BY DEF Follows, Prolongs

LEMMA FollowsAppend ==
  ASSUME NEW list, NEW ids, NEW contents, Follows(list, ids, contents),
         NEW id \in IdsOf(list), NEW c \in Contents, ChunkAt(list, id).content = c
  PROVE  Follows(list, Append(ids, id), Append(contents, c))
<1>1. id \in Int
  BY DEF IdsOf
<1>2. Append(ids, id) \in Seq(Int) /\ Append(contents, c) \in Seq(Contents)
  BY <1>1 DEF Follows
<1>3. /\ Len(ids) \in Nat /\ Len(Append(ids, id)) = Len(ids) + 1
      /\ Len(Append(contents, c)) = Len(contents) + 1 /\ Len(ids) = Len(contents)
  BY <1>1 DEF Follows
<1>4. ASSUME NEW k \in 1 .. Len(Append(ids, id))
      PROVE  /\ Append(ids, id)[k] \in IdsOf(list)
             /\ ChunkAt(list, Append(ids, id)[k]).content = Append(contents, c)[k]
  <2>1. CASE k = Len(ids) + 1
    BY <1>1, <1>3, <2>1 DEF Follows
  <2>2. CASE k \in 1 .. Len(ids)
    <3>1. Append(ids, id)[k] = ids[k] /\ Append(contents, c)[k] = contents[k]
      BY <1>1, <1>3, <2>2 DEF Follows
    <3> QED BY <2>2, <3>1 DEF Follows
  <2> QED BY <1>3, <2>1, <2>2
<1> QED BY <1>2, <1>3, <1>4 DEF Follows

\* The recipes of all backups.
RecipesFollow ==
  /\ recipe \in [Backups -> Seq(Int)] /\ headers \in [Backups -> Seq(Int)]
  /\ sentData \in [Backups -> Seq(Contents)] /\ sentHeader \in [Backups -> Seq(Contents)]
  /\ \A b \in Backups : /\ Follows(chunklist, recipe[b], sentData[b])
                        /\ Follows(chunklist, headers[b], sentHeader[b])

\* Recording under the chunk's own flag an id whose chunk has its content keeps
\* every recipe in step with what was handed over.
LEMMA RecordFollows ==
  ASSUME RecipesFollow, Prolongs(chunklist', chunklist), backup \in Backups,
         NEW c \in Contents, NEW h \in BOOLEAN, NEW id \in IdsOf(chunklist'),
         ChunkAt(chunklist', id).content = c,
         HandedOver(c, h), Record(h, id)
  PROVE  RecipesFollow'
<1>1. id \in Int
  BY DEF IdsOf
<1>2. \A b \in Backups : /\ Follows(chunklist', recipe[b], sentData[b])
                         /\ Follows(chunklist', headers[b], sentHeader[b])
  BY FollowsProlonged DEF RecipesFollow
<1>3. CASE h
  <2>1. /\ headers' = [headers EXCEPT ![backup] = Append(headers[backup], id)]
        /\ sentHeader' = [sentHeader EXCEPT ![backup] = Append(sentHeader[backup], c)]
        /\ UNCHANGED <<recipe, sentData>>
    BY <1>3 DEF Record, HandedOver
  <2>2. headers' \in [Backups -> Seq(Int)] /\ sentHeader' \in [Backups -> Seq(Contents)]
    BY <1>1, <2>1 DEF RecipesFollow
  <2>3. ASSUME NEW b \in Backups PROVE Follows(chunklist', headers'[b], sentHeader'[b])
    <3>1. CASE b = backup
      <4>1. /\ headers'[b] = Append(headers[b], id)
            /\ sentHeader'[b] = Append(sentHeader[b], c)
        BY <2>1, <3>1 DEF RecipesFollow
      <4> QED BY <1>2, <4>1, FollowsAppend
    <3>2. CASE b # backup
      <4>1. headers'[b] = headers[b] /\ sentHeader'[b] = sentHeader[b]
        BY <2>1, <3>2 DEF RecipesFollow
      <4> QED BY <1>2, <4>1
    <3> QED BY <3>1, <3>2
  <2> QED BY <1>2, <2>1, <2>2, <2>3 DEF RecipesFollow, Backups
<1>4. CASE ~h
  <2>1. /\ recipe' = [recipe EXCEPT ![backup] = Append(recipe[backup], id)]
        /\ sentData' = [sentData EXCEPT ![backup] = Append(sentData[backup], c)]
        /\ UNCHANGED <<headers, sentHeader>>
    BY <1>4 DEF Record, HandedOver
  <2>2. recipe' \in [Backups -> Seq(Int)] /\ sentData' \in [Backups -> Seq(Contents)]
    BY <1>1, <2>1 DEF RecipesFollow
  <2>3. ASSUME NEW b \in Backups PROVE Follows(chunklist', recipe'[b], sentData'[b])
    <3>1. CASE b = backup
      <4>1. /\ recipe'[b] = Append(recipe[b], id)
            /\ sentData'[b] = Append(sentData[b], c)
        BY <2>1, <3>1 DEF RecipesFollow
      <4> QED BY <1>2, <4>1, FollowsAppend
    <3>2. CASE b # backup
      <4>1. recipe'[b] = recipe[b] /\ sentData'[b] = sentData[b]
        BY <2>1, <3>2 DEF RecipesFollow
      <4> QED BY <1>2, <4>1
    <3> QED BY <3>1, <3>2
  <2> QED BY <1>2, <2>1, <2>2, <2>3 DEF RecipesFollow, Backups
<1> QED BY <1>3, <1>4

\* Recipes that follow what was handed over, over a list whose chunks decode.
LEMMA FollowingRestores ==
  ASSUME RecipesFollow, AllDecodable(chunklist)
  PROVE  Restorable
<1>1. ASSUME NEW ids, NEW contents, Follows(chunklist, ids, contents)
      PROVE  RestoresTo(chunklist, ids, contents)
  <2>1. Len(ids) = Len(contents) /\ DOMAIN ids = 1 .. Len(ids)
    BY <1>1 DEF Follows
  <2>2. ASSUME NEW k \in 1 .. Len(ids)
        PROVE  RestoredFrom(chunklist, ids[k]) = <<"whole", contents[k]>>
    <3>1. ids[k] \in IdsOf(chunklist) /\ ChunkAt(chunklist, ids[k]).content = contents[k]
      BY <1>1 DEF Follows
    <3> QED BY <3>1, DecodableRestores
  <2> QED BY <2>1, <2>2 DEF RestoresTo
<1> QED BY <1>1 DEF Restorable, RecipesFollow
-----------------------------------------------------------------------------
(* The counters *)

\* What the arithmetic on the counters needs of them.
StatsInv ==
  /\ DOMAIN stats = Counters
  /\ stats.logical \in Int /\ stats.logicalNum \in Int /\ stats.unique \in Int
  /\ stats.base \in Int /\ stats.delta \in Int /\ stats.DedupReduct \in Int
  /\ stats.LocalReduct \in Int /\ stats.DeltaReduct \in Int
  /\ stats.baseNum \in Int /\ stats.deltaNum \in Int /\ stats.uniqueNum \in Int

\* The equations of Accounting between counters.
Balanced ==
  /\ stats.logical = stats.unique + stats.DedupReduct + stats.LocalReduct
                        + stats.DeltaReduct
  /\ stats.unique = stats.base + stats.delta
  /\ stats.uniqueNum = stats.baseNum + stats.deltaNum

\* Accounting is inductive once the counters are known to be numbers.
CountInv == StatsInv /\ Balanced /\ IsSeq(chunklist) /\ stats.uniqueNum = Len(chunklist)

LEMMA CountsAccount == CountInv => Accounting
BY DEF CountInv, Balanced, Accounting

LEMMA BaseSaveBounds ==
  ASSUME NEW c \in Contents
  PROVE  /\ ChunkSize[c] \in Nat /\ BaseSave(c) \in Nat \ {0}
         /\ BaseSave(c) <= ChunkSize[c]
BY AbsMethodAssumption DEF AbsMethodAssumption, BaseSave

LEMMA InitCounts == AbsInit => CountInv
<1> SUFFICES ASSUME AbsInit PROVE CountInv
  OBVIOUS
<1>1. StatsInv
  BY DEF AbsInit, StatsInv, Counters
<1>2. chunklist = <<>> /\ IsSeq(chunklist)
  BY EmptyIsSeq DEF AbsInit
<1>3. Balanced /\ stats.uniqueNum = Len(chunklist)
  BY <1>2 DEF AbsInit, Balanced
<1> QED BY <1>1, <1>2, <1>3 DEF CountInv

LEMMA SameCounts ==
  ASSUME CountInv, UNCHANGED <<stats, chunklist>>
  PROVE  CountInv'
BY DEF CountInv, StatsInv, Balanced

LEMMA DuplicateCounts ==
  ASSUME CountInv, NEW size \in Int, DuplicateStats(size), UNCHANGED chunklist
  PROVE  CountInv'
<1>1. StatsInv /\ Balanced
  BY DEF CountInv
<1>2. /\ DOMAIN stats' = Counters
      /\ stats'.DedupReduct = stats.DedupReduct + size
      /\ stats'.logical = stats.logical + size
      /\ stats'.logicalNum = stats.logicalNum + 1
      /\ stats'.unique = stats.unique /\ stats'.uniqueNum = stats.uniqueNum
      /\ stats'.base = stats.base /\ stats'.baseNum = stats.baseNum
      /\ stats'.delta = stats.delta /\ stats'.deltaNum = stats.deltaNum
      /\ stats'.LocalReduct = stats.LocalReduct /\ stats'.DeltaReduct = stats.DeltaReduct
  BY <1>1 DEF StatsInv, DuplicateStats, Counters
<1>3. StatsInv'
  BY ONLY <1>1, <1>2, size \in Int DEF StatsInv
<1>4. Balanced'
  BY ONLY <1>1, <1>2, size \in Int DEF StatsInv, Balanced
<1>5. IsSeq(chunklist') /\ stats'.uniqueNum = Len(chunklist')
  BY <1>2 DEF CountInv
<1> QED BY <1>3, <1>4, <1>5 DEF CountInv

LEMMA BaseCounts ==
  ASSUME CountInv, NEW c \in Contents, BaseStats(c),
         NEW e, chunklist' = Append(chunklist, e)
  PROVE  CountInv'
<1>1. StatsInv /\ Balanced
  BY DEF CountInv
<1>2. /\ DOMAIN stats' = Counters
      /\ stats'.baseNum = stats.baseNum + 1
      /\ stats'.base = stats.base + BaseSave(c)
      /\ stats'.LocalReduct = stats.LocalReduct + (ChunkSize[c] - BaseSave(c))
      /\ stats'.uniqueNum = stats.uniqueNum + 1
      /\ stats'.unique = stats.unique + BaseSave(c)
      /\ stats'.logical = stats.logical + ChunkSize[c]
      /\ stats'.logicalNum = stats.logicalNum + 1
      /\ stats'.delta = stats.delta /\ stats'.deltaNum = stats.deltaNum
      /\ stats'.DedupReduct = stats.DedupReduct /\ stats'.DeltaReduct = stats.DeltaReduct
  BY <1>1 DEF StatsInv, BaseStats, Counters
<1>3. ChunkSize[c] \in Int /\ BaseSave(c) \in Int
  BY BaseSaveBounds
<1>4. StatsInv'
  BY ONLY <1>1, <1>2, <1>3 DEF StatsInv
<1>5. Balanced'
  BY ONLY <1>1, <1>2, <1>3 DEF StatsInv, Balanced
<1>6. /\ IsSeq(chunklist') /\ stats'.uniqueNum = Len(chunklist')
  BY <1>2, AppendSeq DEF CountInv
<1> QED BY <1>4, <1>5, <1>6 DEF CountInv

LEMMA DeltaCounts ==
  ASSUME CountInv, NEW c \in Contents, NEW save \in Int, StatsDelta(c, save),
         NEW e, chunklist' = Append(chunklist, e)
  PROVE  CountInv'
<1>1. StatsInv /\ Balanced
  BY DEF CountInv
<1>2. /\ DOMAIN stats' = Counters
      /\ stats'.deltaNum = stats.deltaNum + 1
      /\ stats'.delta = stats.delta + save
      /\ stats'.DeltaReduct = stats.DeltaReduct + (ChunkSize[c] - save)
      /\ stats'.uniqueNum = stats.uniqueNum + 1
      /\ stats'.unique = stats.unique + save
      /\ stats'.logical = stats.logical + ChunkSize[c]
      /\ stats'.logicalNum = stats.logicalNum + 1
      /\ stats'.base = stats.base /\ stats'.baseNum = stats.baseNum
      /\ stats'.DedupReduct = stats.DedupReduct /\ stats'.LocalReduct = stats.LocalReduct
  BY <1>1 DEF StatsInv, StatsDelta, Counters
<1>3. ChunkSize[c] \in Int /\ save \in Int
  BY BaseSaveBounds
<1>4. StatsInv'
  BY ONLY <1>1, <1>2, <1>3 DEF StatsInv
<1>5. Balanced'
  <2>1. stats'.logical = stats'.unique + stats'.DedupReduct + stats'.LocalReduct
                            + stats'.DeltaReduct
    BY ONLY <1>1, <1>2, <1>3 DEF StatsInv, Balanced
  <2>2. stats'.unique = stats'.base + stats'.delta
    BY ONLY <1>1, <1>2, <1>3 DEF StatsInv, Balanced
  <2>3. stats'.uniqueNum = stats'.baseNum + stats'.deltaNum
    BY ONLY <1>1, <1>2, <1>3 DEF StatsInv, Balanced
  <2> QED BY <2>1, <2>2, <2>3 DEF Balanced
<1>6. /\ IsSeq(chunklist') /\ stats'.uniqueNum = Len(chunklist')
  BY <1>2, AppendSeq DEF CountInv
<1> QED BY <1>4, <1>5, <1>6 DEF CountInv

\* What Get_Chunk_MetaInfo copies into tmpChunk has a size that is a number.
SizesInv == \A id \in ChunkIds : Chunk(id).chunkSize \in Nat

AccountInv == CountInv /\ SizesInv

LEMMA AppendSizes ==
  ASSUME IsSeq(chunklist), SizesInv, NEW e, e.chunkSize \in Nat,
         chunklist' = Append(chunklist, e)
  PROVE  SizesInv'
<1>1. /\ Prolongs(chunklist', chunklist) /\ ChunkAt(chunklist', Len(chunklist)) = e
      /\ \A id \in IdsOf(chunklist') : id \in IdsOf(chunklist) \/ id = Len(chunklist)
  BY AppendProlongs
<1>2. ASSUME NEW id \in IdsOf(chunklist') PROVE ChunkAt(chunklist', id).chunkSize \in Nat
  BY <1>1 DEF SizesInv, Chunk, ChunkIds, Prolongs
<1> QED BY <1>2 DEF SizesInv, Chunk, ChunkIds

-----------------------------------------------------------------------------
(* Steps that keep the backups restorable *)

\* The histories are sequences of contents.
SentInv ==
  sentData \in [Backups -> Seq(Contents)] /\ sentHeader \in [Backups -> Seq(Contents)]

\* Content c was handed over in sent, the history of data or of header chunks.
In(sent, c) == \E b \in Backups : \E k \in DOMAIN sent[b] : sent[b][k] = c

\* Content c was handed over with HeaderFlag h.
Came(data, header, c, h) == IF h THEN In(header, c) ELSE In(data, c)

Disjoint(data, header) == \A c : ~(In(data, c) /\ In(header, c))

Grown(data, header, data2, header2) ==
  \A c, h : Came(data, header, c, h) => Came(data2, header2, c, h)

\* Every known fingerprint leads to the stored chunk with its content, under
\* a flag it was handed over with.
IndexInv ==
  \A c \in DOMAIN FPindex : /\ FPindex[c] \in ChunkIds /\ Chunk(FPindex[c]).content = c
                            /\ Chunk(FPindex[c]).HeaderFlag \in BOOLEAN
                            /\ Came(sentData, sentHeader, c, Chunk(FPindex[c]).HeaderFlag)

RestoreInv ==
  /\ AllDecodable(chunklist)
  /\ SentInv
  /\ IndexInv
  /\ Apart => RecipesFollow

LEMMA ApartMeans ==
  (Apart <=> Disjoint(sentData, sentHeader)) /\ (Apart' <=> Disjoint(sentData', sentHeader'))
BY DEF Apart, Disjoint, In, Backups

\* A history with one more element.
Longer(sent, n, c) == [sent EXCEPT ![n] = Append(sent[n], c)]

\* One more element of a history keeps the others.
LEMMA InGrows ==
  ASSUME NEW sent \in [Backups -> Seq(Contents)], NEW n \in Backups, NEW c \in Contents
  PROVE  /\ Longer(sent, n, c) \in [Backups -> Seq(Contents)]
         /\ In(Longer(sent, n, c), c)
         /\ \A d : In(sent, d) => In(Longer(sent, n, c), d)
<1> DEFINE longer == [sent EXCEPT ![n] = Append(sent[n], c)]
<1>1. longer \in [Backups -> Seq(Contents)] /\ longer[n] = Append(sent[n], c)
  OBVIOUS
<1>2. sent[n] \in Seq(Contents)
  OBVIOUS
<1>3. /\ DOMAIN sent[n] = 1 .. Len(sent[n]) /\ Len(sent[n]) \in Nat
      /\ DOMAIN longer[n] = 1 .. (Len(sent[n]) + 1)
      /\ longer[n][Len(sent[n]) + 1] = c
      /\ \A k \in 1 .. Len(sent[n]) : longer[n][k] = sent[n][k]
  BY <1>1, <1>2
<1> HIDE DEF longer
<1>4. In(longer, c)
  BY <1>3 DEF In
<1>5. ASSUME NEW d, In(sent, d) PROVE In(longer, d)
  <2>1. PICK b \in Backups : \E k \in DOMAIN sent[b] : sent[b][k] = d
    BY <1>5 DEF In
  <2>2. PICK k \in DOMAIN sent[b] : sent[b][k] = d
    BY <2>1
  <2>3. CASE b = n
    <3>1. k \in 1 .. Len(sent[n]) /\ k \in DOMAIN longer[n]
      BY <1>3, <2>2, <2>3
    <3> QED BY <1>3, <2>2, <2>3, <3>1 DEF In
  <2>4. CASE b # n
    <3>1. longer[b] = sent[b]
      BY <2>4 DEF longer
    <3> QED BY <2>2, <3>1 DEF In
  <2> QED BY <2>3, <2>4
<1> QED BY <1>1, <1>4, <1>5 DEF Longer, longer

LEMMA HandOver ==
  ASSUME SentInv, backup \in Backups, NEW c \in Contents, NEW h \in BOOLEAN, HandedOver(c, h)
  PROVE  /\ SentInv'
         /\ Came(sentData', sentHeader', c, h)
         /\ Grown(sentData, sentHeader, sentData', sentHeader')
         /\ Apart' => Apart
<1>1. CASE h
  <2>1. /\ sentHeader' = Longer(sentHeader, backup, c)
        /\ sentData' = sentData
    BY <1>1 DEF HandedOver, Longer
  <2>2. /\ sentHeader' \in [Backups -> Seq(Contents)] /\ In(sentHeader', c)
        /\ \A d : In(sentHeader, d) => In(sentHeader', d)
    <3>1. sentHeader \in [Backups -> Seq(Contents)] /\ backup \in Backups /\ c \in Contents
      BY DEF SentInv
    <3> HIDE DEF In
    <3> QED BY ONLY <2>1, <3>1, InGrows
  <2>3. SentInv'
    BY <2>1, <2>2 DEF SentInv, Backups
  <2>4. Came(sentData', sentHeader', c, h)
    BY <1>1, <2>2 DEF Came
  <2>5. Grown(sentData, sentHeader, sentData', sentHeader')
    BY <2>1, <2>2 DEF Grown, Came
  <2>6. Disjoint(sentData', sentHeader') => Disjoint(sentData, sentHeader)
    BY <2>1, <2>2 DEF Disjoint
  <2> QED BY <2>3, <2>4, <2>5, <2>6, ApartMeans
<1>2. CASE ~h
  <2>1. /\ sentData' = Longer(sentData, backup, c)
        /\ sentHeader' = sentHeader
    BY <1>2 DEF HandedOver, Longer
  <2>2. /\ sentData' \in [Backups -> Seq(Contents)] /\ In(sentData', c)
        /\ \A d : In(sentData, d) => In(sentData', d)
    <3>1. sentData \in [Backups -> Seq(Contents)] /\ backup \in Backups /\ c \in Contents
      BY DEF SentInv
    <3> HIDE DEF In
    <3> QED BY ONLY <2>1, <3>1, InGrows
  <2>3. SentInv'
    BY <2>1, <2>2 DEF SentInv, Backups
  <2>4. Came(sentData', sentHeader', c, h)
    BY <1>2, <2>2 DEF Came
  <2>5. Grown(sentData, sentHeader, sentData', sentHeader')
    BY <2>1, <2>2 DEF Grown, Came
  <2>6. Disjoint(sentData', sentHeader') => Disjoint(sentData, sentHeader)
    BY <2>1, <2>2 DEF Disjoint
  <2> QED BY <2>3, <2>4, <2>5, <2>6, ApartMeans
<1> QED BY <1>1, <1>2

\* A content that came with two flags came as data and as a header.
LEMMA OneFlag ==
  ASSUME NEW data, NEW header, Disjoint(data, header), NEW c,
         NEW g \in BOOLEAN, NEW h \in BOOLEAN,
         Came(data, header, c, g), Came(data, header, c, h)
  PROVE  g = h
BY DEF Disjoint, Came

LEMMA InitRestores == AbsInit => RestoreInv
<1> SUFFICES ASSUME AbsInit PROVE RestoreInv
  OBVIOUS
<1>1. chunklist = <<>> /\ IdsOf(chunklist) = {}
  BY DEF AbsInit, IdsOf
<1>2. AllDecodable(chunklist)
  BY <1>1 DEF AllDecodable
<1>3. IndexInv
  BY DEF IndexInv, AbsInit, Empty
<1>4. RecipesFollow
  <2>1. /\ recipe = [b \in Backups |-> <<>>] /\ headers = [b \in Backups |-> <<>>]
        /\ sentData = [b \in Backups |-> <<>>] /\ sentHeader = [b \in Backups |-> <<>>]
    BY DEF AbsInit
  <2>2. <<>> \in Seq(Int) /\ <<>> \in Seq(Contents)
    OBVIOUS
  <2>3. Follows(chunklist, <<>>, <<>>)
    BY <2>2 DEF Follows
  <2> QED BY <2>1, <2>2, <2>3 DEF RecipesFollow
<1> QED BY <1>2, <1>3, <1>4 DEF RestoreInv, RecipesFollow, SentInv

LEMMA SameRestores ==
  ASSUME RestoreInv, UNCHANGED <<FPindex, chunklist, recipeVars, sentVars>>
  PROVE  RestoreInv'
BY DEF RestoreInv, IndexInv, SentInv, Came, In, Apart, RecipesFollow, Chunk, ChunkIds,
   recipeVars, sentVars, Backups

LEMMA DuplicateRestores ==
  ASSUME RestoreInv, backup \in Backups,
         NEW p \in Offered, FP_Known(p[1]), HandedOver(p[1], p[2]),
         Record(Chunk(FPindex[p[1]]).HeaderFlag, FPindex[p[1]]),
         UNCHANGED <<FPindex, chunklist>>
  PROVE  RestoreInv'
<1> DEFINE flag == Chunk(FPindex[p[1]]).HeaderFlag
<1>1. p[1] \in Contents /\ p[2] \in BOOLEAN
  BY AbsMethodAssumption DEF AbsMethodAssumption
<1>2. /\ FPindex[p[1]] \in IdsOf(chunklist)
      /\ ChunkAt(chunklist, FPindex[p[1]]).content = p[1]
      /\ flag \in BOOLEAN /\ Came(sentData, sentHeader, p[1], flag)
  BY DEF RestoreInv, IndexInv, FP_Known, Chunk, ChunkIds
<1>3. Prolongs(chunklist', chunklist)
  BY DEF Prolongs
<1>4. /\ SentInv' /\ Came(sentData', sentHeader', p[1], p[2]) /\ (Apart' => Apart)
      /\ Grown(sentData, sentHeader, sentData', sentHeader')
  BY <1>1, HandOver DEF RestoreInv
<1>5. ASSUME Apart' PROVE RecipesFollow'
  <2>1. Came(sentData', sentHeader', p[1], flag)
    BY <1>2, <1>4 DEF Grown
  <2>2. flag = p[2]
    BY <1>1, <1>2, <1>4, <1>5, <2>1, ApartMeans, OneFlag
  <2> QED BY <1>1, <1>2, <1>3, <1>4, <1>5, <2>2, RecordFollows DEF RestoreInv
<1>6. IndexInv'
  BY <1>4 DEF RestoreInv, IndexInv, Grown, Chunk, ChunkIds
<1> QED BY <1>4, <1>5, <1>6 DEF RestoreInv

\* A new chunk is stored whole, or as a delta of a chunk that is stored whole.
LEMMA StoreRestores ==
  ASSUME CountInv, RestoreInv, backup \in Backups,
         NEW p \in Offered, FP_Insert(p[1], NewId), HandedOver(p[1], p[2]),
         Record(p[2], NewId),
         NEW e, chunklist' = Append(chunklist, e), e.content = p[1], e.HeaderFlag = p[2],
         \/ IsBase(e) /\ e.bytes = <<"whole", e.content>>
         \/ /\ ~IsBase(e)
            /\ e.basechunkID \in IdsOf(chunklist)
            /\ IsBase(ChunkAt(chunklist, e.basechunkID))
            /\ e.bytes = <<"delta", e.content, ReferenceIn(chunklist, e.basechunkID)>>
  PROVE  RestoreInv'
<1>1. p[1] \in Contents /\ p[2] \in BOOLEAN /\ p = <<p[1], p[2]>>
  BY AbsMethodAssumption DEF AbsMethodAssumption
<1>2. IsSeq(chunklist) /\ NewId = Len(chunklist)
  BY DEF CountInv, NewId
<1>3. /\ Prolongs(chunklist', chunklist) /\ Len(chunklist) \in IdsOf(chunklist')
      /\ ChunkAt(chunklist', Len(chunklist)) = e
  BY <1>2, AppendProlongs
<1>4. AllDecodable(chunklist')
  BY <1>2, AppendDecodable DEF RestoreInv
<1>5. /\ SentInv' /\ Came(sentData', sentHeader', p[1], p[2]) /\ (Apart' => Apart)
      /\ Grown(sentData, sentHeader, sentData', sentHeader')
  BY <1>1, HandOver DEF RestoreInv
<1>6. ASSUME Apart' PROVE RecipesFollow'
  BY <1>1, <1>2, <1>3, <1>5, <1>6, RecordFollows DEF RestoreInv
<1>7. IndexInv'
  <2>1. ASSUME NEW c \in DOMAIN FPindex'
        PROVE  /\ FPindex'[c] \in IdsOf(chunklist')
               /\ ChunkAt(chunklist', FPindex'[c]).content = c
               /\ ChunkAt(chunklist', FPindex'[c]).HeaderFlag \in BOOLEAN
               /\ Came(sentData', sentHeader', c, ChunkAt(chunklist', FPindex'[c]).HeaderFlag)
    <3>1. CASE c = p[1]
      <4>1. FPindex'[c] = Len(chunklist)
        BY <1>2, <3>1 DEF FP_Insert
      <4> QED BY <1>1, <1>3, <1>5, <3>1, <4>1
    <3>2. CASE c # p[1]
      <4>1. c \in DOMAIN FPindex /\ FPindex'[c] = FPindex[c]
        BY <2>1, <3>2 DEF FP_Insert
      <4>2. /\ FPindex[c] \in IdsOf(chunklist)
            /\ ChunkAt(chunklist, FPindex[c]).content = c
            /\ ChunkAt(chunklist, FPindex[c]).HeaderFlag \in BOOLEAN
            /\ Came(sentData, sentHeader, c, ChunkAt(chunklist, FPindex[c]).HeaderFlag)
        BY <4>1 DEF RestoreInv, IndexInv, Chunk, ChunkIds
      <4> QED BY <1>3, <1>5, <4>1, <4>2 DEF Prolongs, Grown
    <3> QED BY <3>1, <3>2
  <2> QED BY <2>1 DEF IndexInv, Chunk, ChunkIds
<1> QED BY <1>4, <1>5, <1>6, <1>7 DEF RestoreInv
=============================================================================

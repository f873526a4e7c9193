---------------------------- MODULE ChunkerProofs ----------------------------
(***************************************************************************)
(* The properties of Chunker for every set of files and archives and every *)
(* block, window, container and chunk size: the chunks tile each file and   *)
(* the pieces MTar moves make up the archive (Partition), the window is     *)
(* invisible (WindowInvisible), every chunk fits a container                *)
(* (FitsContainer), the tar parser reads data as a header only if a member  *)
(* misled it (AstrayOnlyIfMisled), and an archive whose headers were        *)
(* separated is restored exactly (RestoreExact).                            *)
(***************************************************************************)
EXTENDS Chunker, SequenceTheorems, TLAPS

-----------------------------------------------------------------------------
(* The inductive invariant *)

Types == {"FIXED_SIZE", "FASTCDC", "GEARCDC", "TAR", "TAR_MultiHeader", "MTAR"}
Parsing == chunkType \in {"TAR", "TAR_MultiHeader", "MTAR"}

Tars == [type : {"FILE_HEADER", "FILE_CHUNK", "BIG_CHUNK"}, size : Nat, bigSize : Nat,
         bigOffset : Nat]

\* A file in hand, in the window or waiting to be read.
TypeInv ==
  /\ \E S : files \in Seq(S)
  /\ \A n \in 1 .. Len(files) : files[n].len \in Nat
  /\ chunkType \in Types /\ pass \in {"chunk", "data", "header"}
  /\ pass = "chunk" <=> chunkType # "MTAR"
  /\ normalSize \in Nat /\ (chunkType \in {"TAR", "TAR_MultiHeader"} => normalSize <= MaxChunk)
  /\ f \in Nat \ {0}
  /\ pc \in {"load", "read", "cut", "segment", "big", "done", "astray", "restore",
             "restoreBig", "finished"}
  /\ pc \in {"read", "cut", "segment", "big", "done"} => f <= Len(files)
  /\ pc \in {"segment", "big", "restore", "restoreBig"} => chunkType = "TAR_MultiHeader"
  /\ pc = "astray" => Parsing
  /\ totalOffset \in Nat /\ len \in Nat /\ localOffset \in Nat /\ cpSum \in Nat
  /\ end \in BOOLEAN /\ clipped \in BOOLEAN
  /\ tar \in Tars
  /\ Parsing => \A n \in 1 .. Len(files) : chunkType # "MTAR" \/ n >= f => WellFormed(files[n])

\* The window lies in the file, and the next cut in the window.
WindowInv ==
  /\ pc \notin {"segment", "big", "astray"} => cpSum = 0
  /\ pc = "read" => totalOffset <= files[f].len
  /\ pc \in {"cut", "segment", "big"} =>
       /\ totalOffset + len <= files[f].len
       /\ end => totalOffset + len = files[f].len
       /\ localOffset + cpSum <= len
  /\ pc = "segment" => localOffset + cpSum < len
  /\ pc = "big" => end \/ len - localOffset >= Margin
  /\ pc = "done" => totalOffset = files[f].len

\* The bytes the parser still takes for data.
Left(t) == CASE t.type = "FILE_HEADER" -> 0
             [] t.type = "FILE_CHUNK"  -> RoundUp(t.size)
             [] OTHER                  -> t.bigSize - t.bigOffset

\* From p on there are n bytes of data, then a header or the end.
DataAhead(archive, p, n) ==
  /\ p + n \in DOMAIN archive.header \union {archive.len}
  /\ \A o \in DOMAIN archive.header : o + BlockSize <= p \/ p + n <= o

\* At p, behind a header that misleads, the parser in state t expects no data.
Misguided(a, p, t) ==
  /\ t.type # "BIG_CHUNK" /\ Left(t) = 0
  /\ p - BlockSize \in DOMAIN a.header /\ Misleads(a.header[p - BlockSize])

\* The parser in state t knows what follows at p, unless it was misled there.
Guided(a, p, t) == DataAhead(a, p, Left(t)) \/ Misguided(a, p, t)

\* After a member was cut short the parser may only wrongly expect a header.
Synced(p) == \/ clipped /\ tar.type = "FILE_HEADER"
             \/ Guided(files[f], p, tar)

SyncInv ==
  Parsing =>
    /\ tar.type = "FILE_CHUNK" => tar.size <= ContainerMax
    /\ tar.type = "BIG_CHUNK" => tar.bigOffset <= tar.bigSize
    /\ tar.type = "FILE_CHUNK" /\ chunkType = "TAR_MultiHeader" =>
         pc = "segment" /\ localType = "FILE_HEADER"
    /\ pc \in {"cut", "segment", "big"} => Synced(Here)
    /\ pc = "read" => Synced(totalOffset)
    /\ pc \in {"load", "done"} => Left(tar) = 0

ClipInv ==
  chunkType \in {"FIXED_SIZE", "TAR", "MTAR"} \/ (chunkType = "FASTCDC" /\ Initialised) => ~clipped

\* What the chunks of file n cover: all of a file that is done, the file in
\* hand up to the next cut.
Covers(n) == IF pass # "chunk" \/ n > f \/ (n = f /\ pc = "load") THEN 0
             ELSE IF n < f \/ pc = "done" THEN files[n].len
             ELSE IF pc = "read" THEN totalOffset ELSE totalOffset + localOffset

PushedInv ==
  /\ DOMAIN pushed = 1 .. Len(files)
  /\ \A n \in 1 .. Len(files) :
       /\ pushed[n] \in [upto : Nat, gapless : BOOLEAN, largest : Nat]
       /\ chunkType # "TAR_MultiHeader" => pushed[n].upto = Covers(n) /\ pushed[n].gapless
       /\ chunkType # "GEARCDC" /\ Initialised => pushed[n].largest <= ContainerMax

\* Where MTar is in the archive.
Position == CASE pc = "load" -> 0 [] pc = "read" -> totalOffset
              [] pc = "cut" -> totalOffset + localOffset [] OTHER -> files[f].len

HeaderBytes(a) == UNION {o .. (o + BlockSize - 1) : o \in DOMAIN a.header}
Below(S, p) == {x \in S : x < p}

\* What is to be written by the time MTar is at p.
ToWrite(a, p) ==
  LET all == 0 .. (a.len - 1)
  IN  IF pass = "data" THEN Below(all \ HeaderBytes(a), p)
      ELSE (all \ HeaderBytes(a)) \union Below(HeaderBytes(a), p)

PieceBytes(s) == UNION {BytesOf(s[k]) : k \in DOMAIN s}
WrittenBytes == PieceBytes(rewritten)

MTarInv ==
  /\ rewritten \in Seq([from : Nat, to : Nat, at : Nat])
  /\ \A k \in 1 .. Len(rewritten) : rewritten[k].from < rewritten[k].to
  /\ pass # "chunk" /\ pc # "astray" /\ f <= Len(files) =>
       LET H == DOMAIN files[f].header
       IN  /\ WrittenBytes = ToWrite(files[f], Position)
           /\ \A k \in 1 .. Len(rewritten) :
                \/ rewritten[k].from \notin H /\ pass = "header"
                \/ (rewritten[k].from \in H <=> pass = "header") /\ rewritten[k].to <= Position
           /\ \A j, k \in 1 .. Len(rewritten) :
                j < k => \/ rewritten[k].from \in H /\ rewritten[j].from \notin H
                         \/ /\ rewritten[j].from \in H <=> rewritten[k].from \in H
                            /\ rewritten[j].to <= rewritten[k].from

ChunkerInv == TypeInv /\ WindowInv /\ SyncInv /\ ClipInv /\ PushedInv /\ MTarInv

-----------------------------------------------------------------------------
(* Sizes *)

LEMMA SizeFacts ==
  /\ BlockSize \in Nat \ {0} /\ ReadSize \in Nat \ {0} /\ Margin \in Nat \ {0}
  /\ ContainerMax \in Nat \ {0} /\ MultiHeaderSize \in Nat \ {0}
  /\ MinChunk \in Nat \ {0} /\ AvgChunk \in Nat \ {0} /\ MaxChunk \in Nat \ {0}
  /\ MinChunk < MaxChunk /\ AvgChunk <= MaxChunk /\ MaxChunk < ContainerMax
  /\ ContainerMax < Margin /\ Margin <= ReadSize /\ ContainerMax % BlockSize = 0
BY ChunkerAssumption DEF ChunkerAssumption

LEMMA LessQuotient ==
  ASSUME NEW d \in Nat, NEW q \in Nat, NEW B \in Nat \ {0}, d * B < (q + 1) * B
  PROVE  d * B <= q * B
<1>1. d <= q
  <2> SUFFICES ASSUME d >= q + 1 PROVE FALSE
    OBVIOUS
  <2>1. d - (q + 1) \in Nat /\ d = q + 1 + (d - (q + 1))
    OBVIOUS
  <2>2. PICK k \in Nat : d = q + 1 + k
    BY <2>1
  <2>3. d * B = (q + 1) * B + k * B /\ k * B \in Nat
    BY <2>2
  <2> QED BY <2>3
<1>2. q - d \in Nat /\ q = d + (q - d)
  BY <1>1
<1>3. PICK k \in Nat : q = d + k
  BY <1>2
<1>4. q * B = d * B + k * B /\ k * B \in Nat
  BY <1>3
<1> QED BY <1>4

LEMMA DivFacts ==
  ASSUME NEW x \in Nat, NEW B \in Nat \ {0}
  PROVE  /\ x \div B \in Nat /\ (x \div B) * B <= x /\ x < ((x \div B) + 1) * B
         /\ x % B = 0 => x = (x \div B) * B
OBVIOUS

\* Rounding up to blocks does not leave a container, which is whole blocks.
LEMMA RoundUpFacts ==
  ASSUME NEW n \in Nat
  PROVE  /\ RoundUp(n) \in Nat /\ n <= RoundUp(n)
         /\ n = 0 => RoundUp(n) = 0
         /\ n <= ContainerMax => RoundUp(n) <= ContainerMax
<1> DEFINE B == BlockSize
           x == n + B - 1
           d == x \div B
           q == ContainerMax \div B
<1>1. B \in Nat \ {0} /\ x \in Nat /\ ContainerMax \in Nat /\ ContainerMax % B = 0
  BY SizeFacts
<1>2. RoundUp(n) = d * B
  BY DEF RoundUp
<1> HIDE DEF B, d, q
<1>3. d \in Nat /\ d * B <= x /\ x < (d + 1) * B
  BY <1>1, DivFacts DEF d
<1>4. q \in Nat /\ ContainerMax = q * B
  BY <1>1, DivFacts DEF q
<1>5. d * B \in Nat /\ n <= d * B
  <2>1. (d + 1) * B = d * B + B /\ d * B \in Nat
    BY <1>1, <1>3
  <2> QED BY <1>1, <1>3, <2>1
<1>6. n = 0 => d * B = 0
  <2> SUFFICES ASSUME n = 0 PROVE d * B = 0
    OBVIOUS
  <2>1. d * B < (0 + 1) * B
    BY <1>1, <1>3
  <2>2. d * B <= 0 * B
    BY <1>1, <1>3, <2>1, LessQuotient
  <2> QED BY <1>1, <1>5, <2>2
<1>7. n <= ContainerMax => d * B <= q * B
  <2> SUFFICES ASSUME n <= ContainerMax PROVE d * B <= q * B
    OBVIOUS
  <2>1. (q + 1) * B = q * B + B /\ q * B \in Nat
    BY <1>1, <1>4
  <2>2. d * B < (q + 1) * B
    BY <1>1, <1>3, <1>4, <1>5, <2>1
  <2> QED BY <1>1, <1>3, <1>4, <2>2, LessQuotient
<1> QED BY <1>2, <1>4, <1>5, <1>6, <1>7

LEMMA BlockFits == BlockSize <= ContainerMax
<1> DEFINE q == ContainerMax \div BlockSize
<1>1. q \in Nat /\ ContainerMax = q * BlockSize
  BY SizeFacts, DivFacts
<1>2. q # 0
  <2>1. q = 0 => q * BlockSize = 0
    BY SizeFacts
  <2> QED BY <1>1, <2>1, SizeFacts
<1> HIDE DEF q
<1>3. q - 1 \in Nat /\ q * BlockSize = (q - 1) * BlockSize + BlockSize
      /\ (q - 1) * BlockSize \in Nat
  BY <1>1, <1>2, SizeFacts
<1> QED BY <1>1, <1>3, SizeFacts

-----------------------------------------------------------------------------
(* Headers and the parser *)

\* A header of an archive: its data follows it, up to a header or the end.
LEMMA HeaderFacts ==
  ASSUME NEW a, WellFormed(a), NEW o \in DOMAIN a.header
  PROVE  LET h == a.header[o]
         IN  /\ h.kind \in TypeFlags /\ h.size \in Nat
             /\ h.kind = "x" => h.size <= ContainerMax
             /\ DataSize(h) \in Nat
             /\ a.len \in Nat /\ o \in Nat
             /\ o + BlockSize + DataSize(h) <= a.len
             /\ DataAhead(a, o + BlockSize, DataSize(h))
<1> DEFINE h == a.header[o]
           H == DOMAIN a.header
<1>1. /\ a.len \in Nat /\ H \subseteq 0 .. (a.len - 1)
      /\ h.kind \in TypeFlags /\ h.size \in Nat
      /\ h.kind = "x" => h.size <= ContainerMax
      /\ o + BlockSize + DataSize(h) \in H \union {a.len}
      /\ \A q \in H : o < q => o + BlockSize + DataSize(h) <= q
  BY DEF WellFormed
<1>2. DataSize(h) \in Nat
  BY <1>1, RoundUpFacts DEF DataSize
<1>3. o + BlockSize + DataSize(h) <= a.len /\ o \in Nat
  BY <1>1, <1>2, SizeFacts
<1>4. ASSUME NEW q \in H
      PROVE  q + BlockSize <= o + BlockSize \/ o + BlockSize + DataSize(h) <= q
  BY <1>1, <1>2, <1>3, SizeFacts
<1>5. DataAhead(a, o + BlockSize, DataSize(h))
  BY <1>1, <1>4 DEF DataAhead
<1> QED BY <1>1, <1>2, <1>3, <1>5

LEMMA LeftFacts ==
  ASSUME NEW t \in Tars, t.type = "BIG_CHUNK" => t.bigOffset <= t.bigSize
  PROVE  Left(t) \in Nat
<1>1. t.type \in {"FILE_HEADER", "FILE_CHUNK", "BIG_CHUNK"} /\ t.size \in Nat
      /\ t.bigSize \in Nat /\ t.bigOffset \in Nat
  BY DEF Tars
<1> QED BY <1>1, RoundUpFacts DEF Left

\* What the parser takes from header h: the data that is left is the member's,
\* unless h misleads.
LEMMA ParsedFacts ==
  ASSUME NEW t \in Tars, t.type = "FILE_HEADER", NEW a, WellFormed(a),
         NEW o \in DOMAIN a.header
  PROVE  LET h == a.header[o]
             u == Parsed(t, h)
         IN  /\ u \in Tars
             /\ ~Misleads(h) => u.size = h.size /\ Left(u) = DataSize(h)
             /\ Misleads(h) => u.type # "BIG_CHUNK" /\ Left(u) = 0
             /\ u.type = "FILE_CHUNK" => u.size <= ContainerMax
             /\ u.type = "BIG_CHUNK" => u.bigOffset = 0 /\ u.size > 0
<1> DEFINE h == a.header[o]
           u == Parsed(t, h)
           big == h.kind = "REGTYPE" /\ h.size > ContainerMax
<1>1. /\ h.kind \in {"REGTYPE", "AREGTYPE", "x", "other"} /\ h.size \in Nat
      /\ h.kind = "x" => h.size <= ContainerMax
  BY HeaderFacts DEF TypeFlags
<1> HIDE DEF h
<1>2. /\ RoundUp(h.size) \in Nat /\ (h.size = 0 => RoundUp(h.size) = 0) /\ RoundUp(0) = 0
  BY <1>1, RoundUpFacts
<1>3. /\ u.size = IF h.kind = "AREGTYPE" THEN 0 ELSE h.size
      /\ u.type = IF big THEN "BIG_CHUNK" ELSE IF h.kind = "other" THEN "FILE_HEADER"
                  ELSE "FILE_CHUNK"
      /\ big => u.bigSize = RoundUp(h.size) /\ u.bigOffset = 0
  BY <1>1 DEF Parsed, NextSize, NextType, Tars
<1>4. u \in Tars
  BY <1>1, <1>2 DEF Parsed, NextSize, NextType, Tars
<1> HIDE DEF u
<1>5. CASE big
  <2>1. Left(u) = RoundUp(h.size) - 0
    BY <1>3, <1>5 DEF Left
  <2> QED BY <1>1, <1>2, <1>3, <1>4, <1>5, <2>1, SizeFacts DEF DataSize, Misleads, u, h
<1>6. CASE ~big /\ h.kind = "other"
  <2>1. Left(u) = 0 /\ u.type = "FILE_HEADER" /\ u.size = h.size
    BY <1>3, <1>6 DEF Left
  <2>2. ~Misleads(h) => DataSize(h) = 0
    BY <1>1, <1>2, <1>6 DEF DataSize, Misleads
  <2> QED BY <1>4, <2>1, <2>2 DEF u, h
<1>7. CASE h.kind = "AREGTYPE"
  <2>1. Left(u) = 0 /\ u.type = "FILE_CHUNK" /\ u.size = 0
    BY <1>2, <1>3, <1>7 DEF Left
  <2>2. ~Misleads(h) => h.size = 0 /\ DataSize(h) = 0
    BY <1>1, <1>2, <1>7 DEF DataSize, Misleads
  <2> QED BY <1>4, <2>1, <2>2, SizeFacts DEF u, h
<1>8. CASE ~big /\ h.kind \in {"REGTYPE", "x"}
  <2>1. Left(u) = RoundUp(h.size) /\ u.type = "FILE_CHUNK" /\ u.size = h.size
    BY <1>3, <1>8 DEF Left
  <2>2. DataSize(h) = RoundUp(h.size) /\ ~Misleads(h)
    BY <1>8 DEF DataSize, Misleads
  <2>3. h.size <= ContainerMax
    BY <1>1, <1>8, SizeFacts
  <2> QED BY <1>4, <2>1, <2>2, <2>3 DEF u, h
<1> QED BY <1>1, <1>5, <1>6, <1>7, <1>8

\* Taking k bytes of the data ahead leaves the rest ahead.
LEMMA Consumed ==
  ASSUME NEW a, WellFormed(a), NEW p \in Nat, NEW n \in Nat, NEW k \in Nat, k <= n,
         DataAhead(a, p, n)
  PROVE  DataAhead(a, p + k, n - k) /\ p + n <= a.len
<1>1. a.len \in Nat /\ DOMAIN a.header \subseteq 0 .. (a.len - 1)
  BY DEF WellFormed
<1>2. (p + k) + (n - k) = p + n
  OBVIOUS
<1>3. ASSUME NEW o \in DOMAIN a.header PROVE o + BlockSize <= p + k \/ p + n <= o
  <2>1. o \in Nat
    BY <1>1
  <2>2. o + BlockSize <= p \/ p + n <= o
    BY DEF DataAhead
  <2> QED BY <2>1, <2>2, SizeFacts
<1>4. p + n \in DOMAIN a.header \union {a.len}
  BY DEF DataAhead
<1>5. p + n <= a.len
  BY <1>1, <1>4
<1> QED BY <1>2, <1>3, <1>4, <1>5 DEF DataAhead

\* Content-defined cuts.
LEMMA FastCDCFacts ==
  ASSUME NEW n \in Nat, normalSize \in Nat, NEW c \in CutPointFastCDC(n)
  PROVE  /\ c \in Nat /\ c <= n /\ (n > 0 => c > 0)
         /\ Initialised => c <= MaxChunk
<1>1. CASE n <= MinChunk
  BY <1>1, SizeFacts DEF CutPointFastCDC
<1>2. CASE n > MinChunk
  BY <1>2, SizeFacts DEF CutPointFastCDC, Least, Initialised
<1> QED BY <1>1, <1>2, SizeFacts

\* The parser's own state stays sound.
TarOK(t) == /\ t \in Tars
            /\ t.type = "FILE_CHUNK" => t.size <= ContainerMax
            /\ t.type = "BIG_CHUNK" => t.bigOffset <= t.bigSize

\* What CutPointTarFast returns, whatever the window leaves.
LEMMA TarCut ==
  ASSUME NEW p \in Nat, NEW n \in Nat, TarOK(tar), normalSize \in Nat, WellFormed(files[f]),
         tar.type = "FILE_HEADER" => p \in DOMAIN files[f].header,
         NEW r \in CutPointTarFast(p, n)
  PROVE  /\ r.cp \in Nat /\ TarOK(r.tar)
         /\ tar.type = "FILE_HEADER" =>
              /\ r.cp = Least(BlockSize, n)
              /\ p + BlockSize + Left(r.tar) <= files[f].len
              /\ Guided(files[f], p + BlockSize, r.tar)
              /\ r.tar.type = "FILE_HEADER" \/ r.tar.size = 0 => Left(r.tar) = 0
         /\ tar.type = "FILE_CHUNK" =>
              r.cp = Least(RoundUp(tar.size), n) /\ r.tar.type = "FILE_HEADER"
         /\ tar.type = "BIG_CHUNK" =>
              /\ r.cp <= Left(tar) /\ Left(r.tar) = Left(tar) - r.cp
              /\ Initialised => r.cp <= MaxChunk
              /\ r.tar.type # "FILE_CHUNK"
<1> DEFINE left == tar.bigSize - tar.bigOffset
<1>0. tar \in Tars /\ tar.type \in {"FILE_HEADER", "FILE_CHUNK", "BIG_CHUNK"}
      /\ tar.size \in Nat /\ tar.bigSize \in Nat /\ tar.bigOffset \in Nat
  BY DEF TarOK, Tars
<1>1. CASE tar.type = "FILE_HEADER"
  <2> DEFINE h == files[f].header[p]
             u == Parsed(tar, h)
  <2>1. r = [cp |-> Least(BlockSize, n), tar |-> u]
    BY <1>1 DEF CutPointTarFast
  <2>2. r.cp = Least(BlockSize, n) /\ r.tar = u
    BY <2>1
  <2>3. /\ u \in Tars
        /\ ~Misleads(h) => Left(u) = DataSize(h)
        /\ Misleads(h) => u.type # "BIG_CHUNK" /\ Left(u) = 0
        /\ u.type = "FILE_CHUNK" => u.size <= ContainerMax
        /\ u.type = "BIG_CHUNK" => u.bigOffset = 0 /\ u.size > 0
    BY <1>0, <1>1, ParsedFacts
  <2>4. /\ p + BlockSize + DataSize(h) <= files[f].len
        /\ DataAhead(files[f], p + BlockSize, DataSize(h))
        /\ h.size \in Nat /\ DataSize(h) \in Nat /\ files[f].len \in Nat
    BY <1>1, HeaderFacts
  <2>5. /\ Guided(files[f], p + BlockSize, u)
        /\ p + BlockSize + Left(u) <= files[f].len
    <3>1. CASE ~Misleads(h)
      BY <2>3, <2>4, <3>1 DEF Guided
    <3>2. CASE Misleads(h)
      <4>1. (p + BlockSize) - BlockSize = p
        BY SizeFacts
      <4>2. Misguided(files[f], p + BlockSize, u)
        BY <1>1, <2>3, <3>2, <4>1 DEF Misguided
      <4> QED BY <2>3, <2>4, <3>2, <4>2, SizeFacts DEF Guided
    <3> QED BY <3>1, <3>2
  <2> HIDE DEF h, u
  <2>6. TarOK(u)
    BY <2>3 DEF TarOK, Tars
  <2>7. u.type = "FILE_HEADER" \/ u.size = 0 => Left(u) = 0
    <3>1. u.type \in {"FILE_HEADER", "FILE_CHUNK", "BIG_CHUNK"}
      BY <2>3 DEF Tars
    <3>2. CASE u.type = "FILE_HEADER"
      BY <3>2 DEF Left
    <3>3. CASE u.size = 0 /\ u.type = "FILE_CHUNK"
      BY <3>3, RoundUpFacts DEF Left
    <3>4. CASE u.size = 0 /\ u.type = "BIG_CHUNK"
      BY <3>4, <2>3
    <3> QED BY <3>1, <3>2, <3>3, <3>4
  <2>8. Least(BlockSize, n) \in Nat
    BY SizeFacts DEF Least
  <2> QED BY <1>1, <2>2, <2>6, <2>7, <2>8, <2>5
<1>2. CASE tar.type = "FILE_CHUNK"
  <2> DEFINE u == [tar EXCEPT !.type = "FILE_HEADER", !.size = BlockSize]
  <2>1. r = [cp |-> Least(RoundUp(tar.size), n), tar |-> u]
    BY <1>2 DEF CutPointTarFast
  <2>2. r.cp = Least(RoundUp(tar.size), n) /\ r.tar = u
    BY <2>1
  <2>3. u \in Tars /\ u.type = "FILE_HEADER"
    BY <1>0, SizeFacts DEF Tars
  <2> HIDE DEF u
  <2>4. TarOK(u)
    BY <2>3 DEF TarOK
  <2>5. Least(RoundUp(tar.size), n) \in Nat
    BY <1>0, RoundUpFacts DEF Least
  <2> QED BY <1>2, <2>2, <2>3, <2>4, <2>5
<1>3. CASE tar.type = "BIG_CHUNK" /\ left > MaxChunk
  <2>1. PICK c \in CutPointFastCDC(left) :
          r = [cp |-> c, tar |-> [tar EXCEPT !.bigOffset = @ + c]]
    BY <1>3 DEF CutPointTarFast
  <2> DEFINE u == [tar EXCEPT !.bigOffset = @ + c]
  <2>2. r.cp = c /\ r.tar = u
    BY <2>1
  <2>3. left \in Nat /\ Left(tar) = left
    BY <1>0, <1>3 DEF TarOK, Left
  <2> HIDE DEF left
  <2>4. c \in Nat /\ c <= left /\ (Initialised => c <= MaxChunk)
    BY <2>3, <1>3, FastCDCFacts
  <2>5. u \in Tars /\ u.type = "BIG_CHUNK" /\ u.bigSize = tar.bigSize
        /\ u.bigOffset = tar.bigOffset + c
    BY <1>0, <1>3, <2>4 DEF Tars
  <2> HIDE DEF u
  <2>6. TarOK(u) /\ Left(u) = left - c
    BY <1>0, <2>4, <2>5 DEF TarOK, Left, left
  <2> QED BY <1>3, <2>2, <2>3, <2>4, <2>5, <2>6
<1>4. CASE tar.type = "BIG_CHUNK" /\ ~(left > MaxChunk)
  <2> DEFINE u == [tar EXCEPT !.type = "FILE_HEADER"]
  <2>1. r = [cp |-> left, tar |-> u]
    BY <1>4 DEF CutPointTarFast
  <2>2. r.cp = left /\ r.tar = u
    BY <2>1
  <2>3. left \in Nat /\ Left(tar) = left
    BY <1>0, <1>4 DEF TarOK, Left
  <2>4. u \in Tars /\ u.type = "FILE_HEADER"
    BY <1>0 DEF Tars
  <2> HIDE DEF u, left
  <2>5. TarOK(u) /\ Left(u) = 0
    BY <2>4 DEF TarOK, Left
  <2> QED BY <1>4, <2>2, <2>3, <2>4, <2>5, SizeFacts
<1> QED BY <1>0, <1>1, <1>2, <1>3, <1>4

\* Where a header is due and the file goes on, there is one.
LEMMA HeaderHere ==
  ASSUME NEW p \in Nat, WellFormed(files[f]), tar.type = "FILE_HEADER",
         DataAhead(files[f], p, Left(tar)), p < files[f].len
  PROVE  p \in DOMAIN files[f].header
<1>1. Left(tar) = 0
  BY DEF Left
<1>2. p + 0 \in DOMAIN files[f].header \union {files[f].len}
  BY <1>1 DEF DataAhead
<1> QED BY <1>2

\* With enough of the window left, or the end of the file in it, no cut is made
\* by the window, and the parser stays right about what follows.
LEMMA TarCutFits ==
  ASSUME NEW p \in Nat, NEW n \in Nat, TarOK(tar), normalSize \in Nat, WellFormed(files[f]),
         Guided(files[f], p, tar), tar.type = "FILE_HEADER" => p \in DOMAIN files[f].header,
         p < files[f].len, p + n <= files[f].len,
         n >= ContainerMax \/ p + n = files[f].len,
         NEW r \in CutPointTarFast(p, n)
  PROVE  /\ r.cp \in Nat /\ TarOK(r.tar)
         /\ p + r.cp <= files[f].len /\ Guided(files[f], p + r.cp, r.tar)
         /\ tar.type = "FILE_HEADER" => p \in DOMAIN files[f].header /\ r.cp = BlockSize
         /\ tar.type # "FILE_HEADER" => r.cp <= Left(tar)
         /\ tar.type = "FILE_CHUNK" => r.cp = RoundUp(tar.size)
         /\ Initialised => r.cp <= ContainerMax
         /\ Initialised \/ p + n = files[f].len => r.cp <= n
<1>0. /\ tar.type \in {"FILE_HEADER", "FILE_CHUNK", "BIG_CHUNK"} /\ tar.size \in Nat
      /\ files[f].len \in Nat /\ Left(tar) \in Nat
  BY LeftFacts DEF TarOK, Tars, WellFormed
<1>1. p + Left(tar) <= files[f].len
  <2>1. 0 <= Left(tar)
    BY ONLY <1>0
  <2>2. CASE DataAhead(files[f], p, Left(tar))
    BY <1>0, <2>1, <2>2, Consumed
  <2>3. CASE Misguided(files[f], p, tar)
    BY <1>0, <2>3 DEF Misguided
  <2> QED BY <2>2, <2>3 DEF Guided
<1>2. tar.type = "FILE_HEADER" => p \in DOMAIN files[f].header
  OBVIOUS
<1>3. CASE tar.type = "FILE_HEADER"
  <2>1. /\ r.cp = Least(BlockSize, n) /\ TarOK(r.tar) /\ r.cp \in Nat
        /\ p + BlockSize + Left(r.tar) <= files[f].len
        /\ Guided(files[f], p + BlockSize, r.tar)
    BY <1>2, <1>3, TarCut
  <2>2. Left(r.tar) \in Nat
    BY <2>1, LeftFacts DEF TarOK
  <2>3. BlockSize <= n
    BY <1>0, <2>1, <2>2, SizeFacts, BlockFits
  <2>4. r.cp = BlockSize
    <3>1. Least(BlockSize, n) = BlockSize
      BY <2>3, SizeFacts DEF Least
    <3> QED BY <2>1, <3>1
  <2>5. p + BlockSize <= files[f].len
    BY <1>0, <2>1, <2>2, SizeFacts
  <2> QED BY <1>2, <1>3, <2>1, <2>3, <2>4, <2>5, BlockFits
<1>4. CASE tar.type = "FILE_CHUNK"
  <2>1. /\ r.cp = Least(RoundUp(tar.size), n) /\ r.tar.type = "FILE_HEADER" /\ r.cp \in Nat
        /\ TarOK(r.tar)
    BY <1>2, <1>4, TarCut
  <2>2. Left(tar) = RoundUp(tar.size) /\ Left(r.tar) = 0
    BY <1>4, <2>1 DEF Left
  <2>3. RoundUp(tar.size) \in Nat /\ RoundUp(tar.size) <= ContainerMax
    BY <1>0, <1>4, RoundUpFacts DEF TarOK
  <2>4. RoundUp(tar.size) <= n
    BY <1>0, <1>1, <2>2, <2>3, SizeFacts
  <2>5. r.cp = RoundUp(tar.size)
    BY <2>1, <2>3, <2>4 DEF Least
  <2>6. Left(tar) - r.cp = 0
    BY <2>2, <2>3, <2>5
  <2>7. Guided(files[f], p + r.cp, r.tar)
    <3>1. CASE DataAhead(files[f], p, Left(tar))
      <4>1. r.cp <= Left(tar)
        BY <2>2, <2>3, <2>5
      <4>2. DataAhead(files[f], p + r.cp, Left(tar) - r.cp)
        BY <1>0, <2>1, <3>1, <4>1, Consumed
      <4> QED BY <2>2, <2>6, <4>2 DEF Guided
    <3>2. CASE Misguided(files[f], p, tar)
      <4>1. r.cp = 0 /\ p + r.cp = p
        BY <2>2, <2>3, <2>5, <3>2 DEF Misguided
      <4>2. r.tar.type # "BIG_CHUNK" /\ Left(r.tar) = 0
        BY <2>1, <2>2
      <4> QED BY <3>2, <4>1, <4>2 DEF Misguided, Guided
    <3> QED BY <3>1, <3>2 DEF Guided
  <2> QED BY <1>0, <1>1, <1>4, <2>1, <2>2, <2>3, <2>4, <2>5, <2>7, <2>6
<1>5. CASE tar.type = "BIG_CHUNK"
  <2>1. /\ r.cp <= Left(tar) /\ Left(r.tar) = Left(tar) - r.cp /\ r.cp \in Nat
        /\ Initialised => r.cp <= MaxChunk
        /\ TarOK(r.tar)
    BY <1>2, <1>5, TarCut
  <2>2. Guided(files[f], p + r.cp, r.tar)
    <3>1. DataAhead(files[f], p, Left(tar))
      BY <1>5 DEF Guided, Misguided
    <3>2. DataAhead(files[f], p + r.cp, Left(tar) - r.cp)
      BY <1>0, <2>1, <3>1, Consumed
    <3> QED BY <2>1, <3>2 DEF Guided
  <2>3. p + r.cp <= files[f].len
    BY <1>0, <1>1, <2>1
  <2>4. Initialised => r.cp <= ContainerMax
    BY <2>1, SizeFacts
  <2>5. Initialised \/ p + n = files[f].len => r.cp <= n
    BY <1>0, <2>1, <2>3, <2>4, SizeFacts
  <2> QED BY <1>5, <2>1, <2>2, <2>3, <2>4, <2>5
<1> QED BY <1>0, <1>3, <1>4, <1>5

-----------------------------------------------------------------------------
(* The window *)

\* There is something to cut: the cut lies in the file and in the window, and
\* enough of the window is left or the file ends in it.
LEMMA CutFacts ==
  ASSUME TypeInv, WindowInv, pc = "cut", MoreToCut
  PROVE  LET n == len - localOffset
         IN  /\ f \in 1 .. Len(files) /\ files[f].len \in Nat
             /\ cpSum = 0 /\ Here = totalOffset + localOffset /\ Here \in Nat
             /\ n \in Nat \ {0} /\ Here < files[f].len /\ Here + n <= files[f].len
             /\ end => Here + n = files[f].len
             /\ end \/ n >= ContainerMax
             /\ pass = "chunk" => end \/ n >= Margin
<1>0. files \in Seq(Range(files))
  BY SeqDef DEF TypeInv, Range
<1>1. /\ f \in Nat \ {0} /\ f <= Len(files) /\ totalOffset \in Nat /\ len \in Nat
      /\ localOffset \in Nat /\ Len(files) \in Nat
  BY <1>0, LenProperties DEF TypeInv
<1>2. f \in 1 .. Len(files) /\ files[f].len \in Nat
  BY <1>1 DEF TypeInv
<1>3. /\ cpSum = 0 /\ totalOffset + len <= files[f].len
      /\ end => totalOffset + len = files[f].len
      /\ localOffset <= len
  BY <1>1 DEF WindowInv
<1>4. Here = totalOffset + localOffset
  BY <1>1, <1>3 DEF Here
<1>5. localOffset < len /\ (end \/ len - localOffset >= ContainerMax)
      /\ (pass = "chunk" => end \/ len - localOffset >= Margin)
  BY <1>1, SizeFacts DEF MoreToCut
<1> QED BY <1>1, <1>2, <1>3, <1>4, <1>5

\* At the end of the file the parser expects no more data.
LEMMA DoneAhead ==
  ASSUME WellFormed(files[f]), tar \in Tars,
         tar.type = "BIG_CHUNK" => tar.bigOffset <= tar.bigSize, Synced(files[f].len)
  PROVE  Left(tar) = 0
<1>1. CASE tar.type = "FILE_HEADER"
  BY <1>1 DEF Left
<1>2. CASE DataAhead(files[f], files[f].len, Left(tar))
  <2>1. Left(tar) \in Nat /\ files[f].len \in Nat
    BY LeftFacts DEF WellFormed
  <2>2. files[f].len + Left(tar) <= files[f].len
    BY <1>2, <2>1 DEF DataAhead, WellFormed
  <2> QED BY <2>1, <2>2
<1>3. CASE Misguided(files[f], files[f].len, tar)
  BY <1>3 DEF Misguided
<1> QED BY <1>1, <1>2, <1>3 DEF Synced, Guided

-----------------------------------------------------------------------------
(* Each action keeps the invariant *)

LEMMA FilesFacts ==
  ASSUME TypeInv
  PROVE  /\ Len(files) \in Nat
         /\ f <= Len(files) => f \in 1 .. Len(files) /\ files[f].len \in Nat
         /\ Parsing /\ f <= Len(files) => WellFormed(files[f])
<1>0. files \in Seq(Range(files))
  BY SeqDef DEF TypeInv, Range
<1>1. f \in Nat \ {0} /\ Len(files) \in Nat
  BY <1>0, LenProperties DEF TypeInv
<1> QED BY <1>1 DEF TypeInv

LEMMA FilesDomain ==
  ASSUME TypeInv
  PROVE  DOMAIN files = 1 .. Len(files)
BY LenProperties DEF TypeInv

LEMMA LoadKeeps == ChunkerInv /\ Load => ChunkerInv'
<1> SUFFICES ASSUME ChunkerInv, Load PROVE ChunkerInv'
  OBVIOUS
<1> USE DEF ChunkerInv, Load, input, parser, recipes, restorer
<1>1. TypeInv'
  BY DEF TypeInv, Parsing
<1>2. WindowInv'
  BY FilesFacts DEF WindowInv
<1>3. SyncInv'
  <2> SUFFICES ASSUME Parsing PROVE SyncInv'
    BY DEF SyncInv, Parsing
  <2>1. Left(tar) = 0 /\ WellFormed(files[f])
    BY FilesFacts DEF SyncInv
  <2>2. DataAhead(files[f], 0, 0)
    BY <2>1, SizeFacts DEF DataAhead, WellFormed
  <2> QED BY <2>1, <2>2 DEF SyncInv, Synced, Guided
<1>4. ClipInv'
  BY DEF ClipInv, Initialised
<1>5. PushedInv'
  <2>1. \A n \in 1 .. Len(files) : Covers(n)' = Covers(n)
    BY FilesFacts DEF Covers, TypeInv
  <2> QED BY <2>1 DEF PushedInv, Initialised
<1>6. MTarInv'
  BY DEF MTarInv, Position, ToWrite, WrittenBytes
<1> QED BY <1>1, <1>2, <1>3, <1>4, <1>5, <1>6

LEMMA ReadKeeps == ChunkerInv /\ Read => ChunkerInv'
<1> SUFFICES ASSUME ChunkerInv, Read PROVE ChunkerInv'
  OBVIOUS
<1> USE DEF ChunkerInv, Read, input, parser, recipes, restorer
<1>0. /\ f \in 1 .. Len(files) /\ files[f].len \in Nat /\ totalOffset <= files[f].len
      /\ totalOffset \in Nat /\ cpSum = 0
  BY FilesFacts DEF TypeInv, WindowInv
<1>1. TypeInv'
  BY <1>0, SizeFacts DEF TypeInv, Parsing, Least
<1>2. WindowInv'
  <2> DEFINE left == files[f].len - totalOffset
  <2>0. /\ len' = Least(ReadSize, left) /\ end' = (left < ReadSize)
        /\ pc' = IF left = 0 THEN "done" ELSE "cut"
        /\ localOffset' = IF pc' = "cut" THEN 0 ELSE localOffset
    OBVIOUS
  <2>1. left \in Nat /\ len' \in Nat /\ len' <= left /\ (end' => len' = left)
    <3>1. left \in Nat
      BY ONLY <1>0
    <3> HIDE DEF left
    <3>2. CASE left < ReadSize
      BY ONLY <2>0, <3>1, <3>2, SizeFacts DEF Least
    <3>3. CASE ~(left < ReadSize)
      <4>1. ~end'
        BY ONLY <2>0, <3>3, Zenon
      <4> QED BY ONLY <2>0, <3>1, <3>3, <4>1, SizeFacts DEF Least
    <3> QED BY <3>1, <3>2, <3>3
  <2>2. /\ (pc' = "cut" /\ localOffset' = 0) \/ (pc' = "done" /\ left = 0)
        /\ totalOffset + left = files[f].len
    BY ONLY <1>0, <2>0
  <2>3. totalOffset' = totalOffset /\ cpSum' = 0 /\ files' = files /\ f' = f
    BY <1>0
  <2>4. /\ totalOffset + len' <= files[f].len
        /\ end' => totalOffset + len' = files[f].len
    BY <1>0, <2>1, <2>2
  <2> HIDE DEF Read, left, ChunkerInv
  <2>5. CASE pc' = "cut" /\ localOffset' = 0
    BY <1>0, <2>1, <2>3, <2>4, <2>5 DEF WindowInv
  <2>6. CASE pc' = "done" /\ left = 0
    BY <1>0, <2>2, <2>3, <2>6 DEF WindowInv
  <2> QED BY <2>2, <2>5, <2>6
<1>3. SyncInv'
  <2> SUFFICES ASSUME Parsing PROVE SyncInv'
    BY DEF SyncInv, Parsing
  <2>1. Synced(totalOffset) /\ WellFormed(files[f])
    BY <1>0, FilesFacts DEF SyncInv
  <2>2. CASE pc' = "cut"
    <3>1. Here' = totalOffset
      BY <1>0, <2>2 DEF Here
    <3> QED BY <2>1, <2>2, <3>1 DEF SyncInv, Synced, Parsing
  <2>3. CASE pc' = "done"
    <3>1. totalOffset = files[f].len
      BY <1>0, <2>3
    <3>2. Left(tar) = 0
      BY <1>0, <2>1, <3>1, DoneAhead DEF SyncInv, TypeInv
    <3> QED BY <2>3, <3>2 DEF SyncInv, Parsing
  <2> QED BY <2>2, <2>3
<1>4. ClipInv'
  BY DEF ClipInv, Initialised
<1>5. PushedInv'
  BY <1>0 DEF PushedInv, Covers, Initialised
<1>6. MTarInv'
  <2>1. pass # "chunk" => Position' = Position
    BY <1>0 DEF Position
  <2> QED BY <2>1 DEF MTarInv, ToWrite, WrittenBytes
<1> QED BY <1>1, <1>2, <1>3, <1>4, <1>5, <1>6

LEMMA EndWindowKeeps == ChunkerInv /\ EndWindow => ChunkerInv'
<1> SUFFICES ASSUME ChunkerInv, EndWindow PROVE ChunkerInv'
  OBVIOUS
<1> USE DEF ChunkerInv, EndWindow, input, parser, recipes, restorer
<1>0. /\ f \in 1 .. Len(files) /\ files[f].len \in Nat /\ cpSum = 0
      /\ totalOffset \in Nat /\ len \in Nat /\ localOffset \in Nat /\ localOffset <= len
      /\ totalOffset + len <= files[f].len
      /\ end => totalOffset + len = files[f].len
  BY FilesFacts DEF TypeInv, WindowInv
<1>a. end => totalOffset' = files[f].len
  BY <1>0 DEF MoreToCut
<1>b. /\ totalOffset' = totalOffset + localOffset /\ totalOffset' \in Nat
      /\ totalOffset' <= files[f].len
  BY <1>0
<1>1. TypeInv'
  BY <1>0 DEF TypeInv, Parsing
<1>2. WindowInv'
  BY <1>0, <1>a, <1>b DEF WindowInv
<1>3. SyncInv'
  <2> SUFFICES ASSUME Parsing PROVE SyncInv'
    BY DEF SyncInv, Parsing
  <2>1. Here = totalOffset'
    BY <1>0 DEF Here
  <2>2. Synced(totalOffset') /\ WellFormed(files[f])
    BY <1>0, <2>1, FilesFacts DEF SyncInv
  <2>3. CASE pc' = "read"
    BY <2>2, <2>3 DEF SyncInv, Synced, Parsing
  <2>4. CASE pc' = "done"
    <3>1. Left(tar) = 0
      BY <1>a, <2>2, <2>4, DoneAhead DEF SyncInv, TypeInv
    <3> QED BY <2>4, <3>1 DEF SyncInv, Parsing
  <2> QED BY <2>3, <2>4
<1>4. ClipInv'
  BY DEF ClipInv, Initialised
<1>5. PushedInv'
  <2>1. \A n \in 1 .. Len(files) : Covers(n)' = Covers(n)
    BY <1>0, <1>a DEF Covers, TypeInv
  <2> QED BY <2>1 DEF PushedInv, Initialised
<1>6. MTarInv'
  <2>1. Position' = Position
    BY <1>0, <1>a DEF Position
  <2> QED BY <2>1 DEF MTarInv, ToWrite, WrittenBytes
<1> QED BY <1>1, <1>2, <1>3, <1>4, <1>5, <1>6

LEMMA DoneKeeps == ChunkerInv /\ Done => ChunkerInv'
<1> SUFFICES ASSUME ChunkerInv, Done PROVE ChunkerInv'
  OBVIOUS
<1> USE DEF ChunkerInv, Done, input, window, parser, recipes, restorer
<1>0. f \in 1 .. Len(files) /\ Len(files) \in Nat
  BY FilesFacts DEF TypeInv
<1>1. TypeInv'
  BY <1>0 DEF TypeInv, Parsing
<1>2. WindowInv'
  BY DEF WindowInv
<1>3. SyncInv'
  BY DEF SyncInv, Parsing
<1>4. ClipInv'
  BY DEF ClipInv, Initialised
<1>5. PushedInv'
  <2>1. \A n \in 1 .. Len(files) : Covers(n)' = Covers(n)
    BY <1>0 DEF Covers
  <2> QED BY <2>1 DEF PushedInv, Initialised
<1>6. MTarInv'
  BY DEF MTarInv
<1> QED BY <1>1, <1>2, <1>3, <1>4, <1>5, <1>6

LEMMA StartSegmentKeeps == ChunkerInv /\ StartSegment => ChunkerInv'
<1> SUFFICES ASSUME ChunkerInv, StartSegment PROVE ChunkerInv'
  OBVIOUS
<1> USE DEF ChunkerInv, StartSegment, input, window, recipes, restorer
<1>0. /\ f \in 1 .. Len(files) /\ cpSum = 0 /\ localOffset \in Nat /\ len \in Nat
      /\ len - localOffset \in Nat \ {0} /\ (end \/ len - localOffset >= Margin)
  BY CutFacts DEF TypeInv
<1>1. TypeInv'
  BY <1>0 DEF TypeInv, Parsing
<1>2. WindowInv'
  BY <1>0 DEF WindowInv
<1>3. SyncInv'
  <2>1. Here' = Here
    BY <1>0 DEF Here
  <2> QED BY <2>1 DEF SyncInv, Parsing, Synced
<1>4. ClipInv'
  BY DEF ClipInv, Initialised
<1>5. PushedInv'
  BY DEF PushedInv, Initialised
<1>6. MTarInv'
  BY DEF MTarInv, TypeInv
<1> QED BY <1>1, <1>2, <1>3, <1>4, <1>5, <1>6

LEMMA EndSegmentKeeps == ChunkerInv /\ EndSegment => ChunkerInv'
<1> SUFFICES ASSUME ChunkerInv, EndSegment PROVE ChunkerInv'
  OBVIOUS
<1> USE DEF ChunkerInv, EndSegment, CloseSegment, input, restorer
<1>0. /\ f \in 1 .. Len(files) /\ chunkType = "TAR_MultiHeader"
      /\ totalOffset \in Nat /\ len \in Nat /\ localOffset \in Nat /\ cpSum \in Nat
      /\ pc' = "cut"
  BY FilesFacts DEF TypeInv
<1>1. TypeInv'
  BY <1>0 DEF TypeInv, Parsing
<1>2. WindowInv'
  BY <1>0 DEF WindowInv
<1>3. SyncInv'
  <2>1. Here' = Here
    BY <1>0 DEF Here
  <2>2. tar.type # "FILE_CHUNK"
    BY <1>0 DEF SegmentOpen, SyncInv, Parsing
  <2> QED BY <1>0, <2>1, <2>2 DEF SyncInv, Parsing, Synced
<1>4. ClipInv'
  BY DEF ClipInv, Initialised
<1>5. PushedInv'
  BY <1>0 DEF PushedInv, Initialised
<1>6. MTarInv'
  BY <1>0 DEF MTarInv, TypeInv
<1> QED BY <1>1, <1>2, <1>3, <1>4, <1>5, <1>6

LEMMA EndBigKeeps == ChunkerInv /\ EndBig => ChunkerInv'
<1> SUFFICES ASSUME ChunkerInv, EndBig PROVE ChunkerInv'
  OBVIOUS
<1> USE DEF ChunkerInv, EndBig, input, recipes, restorer
<1>0. /\ f \in 1 .. Len(files) /\ chunkType = "TAR_MultiHeader"
      /\ totalOffset \in Nat /\ len \in Nat /\ localOffset \in Nat /\ cpSum \in Nat
      /\ pc' = "cut"
  BY FilesFacts DEF TypeInv
<1>1. TypeInv'
  BY <1>0 DEF TypeInv, Parsing
<1>2. WindowInv'
  BY <1>0 DEF WindowInv
<1>3. SyncInv'
  <2>1. Here' = Here
    BY <1>0 DEF Here
  <2> QED BY <1>0, <2>1 DEF SyncInv, Parsing, Synced
<1>4. ClipInv'
  BY DEF ClipInv, Initialised
<1>5. PushedInv'
  BY <1>0 DEF PushedInv, Initialised
<1>6. MTarInv'
  BY <1>0 DEF MTarInv, TypeInv
<1> QED BY <1>1, <1>2, <1>3, <1>4, <1>5, <1>6

\* The parser goes astray, or restoreHeaderFile is at work.
Aside == GoAstray \/ BeginRestore \/ RestoreHeader \/ RestoreBig \/ EndRestore

LEMMA AsideKeeps == ChunkerInv /\ Aside => ChunkerInv'
<1> SUFFICES ASSUME ChunkerInv, Aside PROVE ChunkerInv'
  OBVIOUS
<1> USE DEF ChunkerInv
<1>0. /\ UNCHANGED <<input, window, parser, recipes>>
      /\ f' \in Nat \ {0}
      /\ \/ /\ pc \in {"cut", "segment"} /\ pc' = "astray" /\ Parsing /\ f' = f
            /\ tar.type = "FILE_HEADER"
         \/ /\ pc \notin {"segment", "big", "astray"} /\ chunkType = "TAR_MultiHeader"
            /\ pc' \in {"restore", "restoreBig", "finished"}
         \/ pc = "load" /\ pc' = "finished" /\ f' = f /\ f > Len(files)
  <2>1. f \in Nat \ {0} /\ (pc = "segment" \/ pc = "restore" \/ pc = "restoreBig"
                             => chunkType = "TAR_MultiHeader")
    BY DEF TypeInv
  <2>2. CASE GoAstray
    <3>1. chunkType = "TAR" \/ pass # "chunk" => Parsing
      BY DEF TypeInv, Parsing
    <3>2. pc \in {"cut", "segment"} /\ Parsing
      BY <2>1, <2>2, <3>1 DEF GoAstray, ParserDue, Parsing
    <3> QED BY <2>1, <2>2, <3>2 DEF GoAstray, Lost, parser, recipes
  <2>3. CASE BeginRestore
    BY <2>1, <2>3, FilesFacts DEF BeginRestore, parser, recipes
  <2>4. CASE RestoreHeader
    BY <2>1, <2>4 DEF RestoreHeader, parser, recipes
  <2>5. CASE RestoreBig
    BY <2>1, <2>5 DEF RestoreBig, parser, recipes
  <2>6. CASE EndRestore
    BY <2>1, <2>6 DEF EndRestore, parser, recipes
  <2> QED BY <2>2, <2>3, <2>4, <2>5, <2>6 DEF Aside
<1>a. Len(files) \in Nat /\ f \in Nat
  BY FilesFacts DEF TypeInv
<1> USE <1>0 DEF input, window, parser, recipes
<1>1. TypeInv'
  BY DEF TypeInv, Parsing
<1>2. WindowInv'
  BY DEF WindowInv
<1>3. SyncInv'
  BY DEF SyncInv, Parsing
<1>4. ClipInv'
  BY DEF ClipInv, Initialised
<1>5. PushedInv'
  <2>1. CASE chunkType = "TAR_MultiHeader"
    BY <2>1 DEF PushedInv, Initialised
  <2>2. CASE pc = "load" /\ pc' = "finished" /\ f' = f /\ f > Len(files)
    <3>1. \A n \in 1 .. Len(files) : Covers(n)' = Covers(n)
      BY <1>a, <2>2 DEF Covers
    <3> QED BY <2>2, <3>1 DEF PushedInv, Initialised
  <2>3. CASE pc \in {"cut", "segment"} /\ pc' = "astray" /\ f' = f
    <3>1. \A n \in 1 .. Len(files) : Covers(n)' = Covers(n)
      BY <1>a, <2>3 DEF Covers
    <3> QED BY <2>3, <3>1 DEF PushedInv, Initialised
  <2> QED BY <2>1, <2>2, <2>3
<1>6. MTarInv'
  <2>1. CASE chunkType = "TAR_MultiHeader"
    BY <2>1 DEF MTarInv, TypeInv
  <2>2. CASE pc = "load" /\ pc' = "finished" /\ f' = f /\ f > Len(files)
    BY <1>a, <2>2 DEF MTarInv
  <2>3. CASE pc' = "astray"
    BY <2>3 DEF MTarInv
  <2> QED BY <2>1, <2>2, <2>3
<1> QED BY <1>1, <1>2, <1>3, <1>4, <1>5, <1>6

LEMMA ResetFacts ==
  ASSUME tar \in Tars, ResetParser
  PROVE  tar' \in Tars /\ tar'.type = "FILE_HEADER" /\ Left(tar') = 0
BY DEF ResetParser, Tars, Left

\* A header block holds the byte it starts at.
LEMMA HeaderFirst ==
  ASSUME NEW a, NEW p \in Nat, p \in DOMAIN a.header
  PROVE  p \in HeaderBytes(a)
<1>1. p \in p .. (p + BlockSize - 1)
  BY SizeFacts
<1> QED BY <1>1 DEF HeaderBytes

LEMMA HeaderBytesIn ==
  ASSUME NEW a, WellFormed(a)
  PROVE  HeaderBytes(a) \subseteq 0 .. (a.len - 1)
<1> SUFFICES ASSUME NEW x \in HeaderBytes(a) PROVE x \in 0 .. (a.len - 1)
  OBVIOUS
<1>1. PICK o \in DOMAIN a.header : x \in o .. (o + BlockSize - 1)
  BY DEF HeaderBytes
<1>2. /\ DataSize(a.header[o]) \in Nat /\ a.len \in Nat /\ o \in Nat
      /\ o + BlockSize + DataSize(a.header[o]) <= a.len
  BY HeaderFacts
<1> QED BY <1>1, <1>2, SizeFacts

LEMMA SecondPassKeeps == ChunkerInv /\ SecondPass => ChunkerInv'
<1> SUFFICES ASSUME ChunkerInv, SecondPass PROVE ChunkerInv'
  OBVIOUS
<1> USE DEF ChunkerInv, SecondPass, window, recipes, restorer
<1>0. /\ f \in 1 .. Len(files) /\ chunkType = "MTAR" /\ WellFormed(files[f])
      /\ files[f].len \in Nat
      /\ tar' \in Tars /\ tar'.type = "FILE_HEADER" /\ Left(tar') = 0
  BY FilesFacts, ResetFacts DEF TypeInv, Parsing
<1> USE <1>0
<1>1. TypeInv'
  BY DEF TypeInv, Parsing
<1>2. WindowInv'
  BY DEF WindowInv
<1>3. SyncInv'
  BY DEF SyncInv, Parsing
<1>4. ClipInv'
  BY DEF ClipInv, Initialised
<1>5. PushedInv'
  <2>1. \A n \in 1 .. Len(files) : Covers(n)' = Covers(n)
    BY DEF Covers
  <2> QED BY <2>1 DEF PushedInv, Initialised
<1>6. MTarInv'
  <2> DEFINE H == DOMAIN files[f].header
             a == files[f]
             all == 0 .. (a.len - 1)
  <2>1. /\ rewritten \in Seq([from : Nat, to : Nat, at : Nat])
        /\ \A k \in 1 .. Len(rewritten) : rewritten[k].from < rewritten[k].to
        /\ WrittenBytes = ToWrite(a, Position)
        /\ \A k \in 1 .. Len(rewritten) : rewritten[k].from \notin H
        /\ \A j, k \in 1 .. Len(rewritten) : j < k =>
             \/ rewritten[k].from \in H /\ rewritten[j].from \notin H
             \/ /\ rewritten[j].from \in H <=> rewritten[k].from \in H
                /\ rewritten[j].to <= rewritten[k].from
    <3>1. MTarInv /\ pass = "data" /\ pc = "done" /\ f <= Len(files)
      OBVIOUS
    <3>2. /\ rewritten \in Seq([from : Nat, to : Nat, at : Nat])
          /\ \A k \in 1 .. Len(rewritten) : rewritten[k].from < rewritten[k].to
      BY ONLY <3>1 DEF MTarInv
    <3>3. WrittenBytes = ToWrite(files[f], Position)
      BY ONLY <3>1 DEF MTarInv
    <3>4. \A k \in 1 .. Len(rewritten) : rewritten[k].from \notin DOMAIN files[f].header
      BY ONLY <3>1 DEF MTarInv
    <3>5. \A j, k \in 1 .. Len(rewritten) : j < k =>
             \/ rewritten[k].from \in H /\ rewritten[j].from \notin H
             \/ /\ rewritten[j].from \in H <=> rewritten[k].from \in H
                /\ rewritten[j].to <= rewritten[k].from
      BY ONLY <3>1, Zenon DEF MTarInv
    <3> QED BY ONLY <3>2, <3>3, <3>4, <3>5
  <2>2. Position = a.len /\ Position' = 0
    BY DEF Position
  <2>3. HeaderBytes(a) \subseteq all
    BY HeaderBytesIn
  <2>4. Below(all \ HeaderBytes(a), a.len) = all \ HeaderBytes(a)
    BY DEF Below
  <2>5. Below(HeaderBytes(a), 0) = {}
    BY <2>3 DEF Below
  <2>6. WrittenBytes = all \ HeaderBytes(a)
    BY <2>1, <2>2, <2>4 DEF ToWrite
  <2>7. WrittenBytes' = WrittenBytes /\ ToWrite(a, 0)' = all \ HeaderBytes(a)
    BY <2>5 DEF WrittenBytes, ToWrite
  <2>8. ToWrite(files[f], Position)' = all \ HeaderBytes(a)
    BY <2>2, <2>5 DEF ToWrite
  <2> QED BY <2>1, <2>6, <2>7, <2>8 DEF MTarInv
<1> QED BY <1>1, <1>2, <1>3, <1>4, <1>5, <1>6

LEMMA WrittenNat ==
  ASSUME MTarInv
  PROVE  Written \in Nat
<1>1. rewritten \in Seq([from : Nat, to : Nat, at : Nat])
      /\ \A k \in 1 .. Len(rewritten) : rewritten[k].from < rewritten[k].to
  BY DEF MTarInv
<1>2. CASE rewritten = <<>>
  BY <1>2 DEF Written
<1>3. CASE rewritten # <<>>
  <2> DEFINE q == rewritten[Len(rewritten)]
  <2>1. Len(rewritten) \in 1 .. Len(rewritten)
    BY <1>1, <1>3, EmptySeq, LenProperties
  <2>2. q \in [from : Nat, to : Nat, at : Nat] /\ q.from < q.to
    BY <1>1, <2>1, ElementOfSeq
  <2> HIDE DEF q
  <2>3. q.at + (q.to - q.from) \in Nat
    BY <2>2
  <2> QED BY <1>3, <2>3 DEF Written, q
<1> QED BY <1>2, <1>3

LEMMA EndMTarKeeps == ChunkerInv /\ EndMTar => ChunkerInv'
<1> SUFFICES ASSUME ChunkerInv, EndMTar PROVE ChunkerInv'
  OBVIOUS
<1> DEFINE v == [len |-> Written, header |-> NoHeaders]
           S == Range(files)
<1>0. /\ f \in 1 .. Len(files) /\ chunkType = "MTAR" /\ Len(files) \in Nat
      /\ tar' \in Tars /\ tar'.type = "FILE_HEADER" /\ Left(tar') = 0
      /\ files \in Seq(S)
  BY FilesFacts, ResetFacts, SeqDef DEF ChunkerInv, EndMTar, TypeInv, Range
<1>a. Written \in Nat
  BY WrittenNat DEF ChunkerInv
<1>b. files' = [files EXCEPT ![f] = v]
  BY DEF EndMTar
<1> HIDE DEF v, S
<1>c. /\ files' \in Seq(S \union {v}) /\ Len(files') = Len(files)
      /\ \A n \in 1 .. Len(files) : files'[n] = IF n = f THEN v ELSE files[n]
  <2>1. files \in Seq(S \union {v})
    BY <1>0, SeqMonotonic
  <2> QED BY <1>0, <1>b, <2>1, ExceptSeq
<1>d. v.len \in Nat
  BY <1>a DEF v
<1>e. /\ rewritten' = <<>> /\ pc' = "load" /\ pc = "done" /\ pass = "header"
      /\ UNCHANGED <<normalSize, totalOffset, len, end, localOffset, cpSum, pushed, clipped>>
      /\ \/ f < Len(files) /\ f' = f + 1 /\ pass' = "data" /\ chunkType' = "MTAR"
         \/ f' = 1 /\ pass' = "chunk" /\ chunkType' = "FASTCDC"
  BY <1>0 DEF EndMTar, window
<1> USE <1>0, <1>c, <1>d, <1>e DEF ChunkerInv
<1>1. TypeInv'
  <2>1. \E T : files' \in Seq(T)
    OBVIOUS
  <2>2. \A n \in 1 .. Len(files') : files'[n].len \in Nat
    BY DEF TypeInv
  <2>3. chunkType' = "MTAR" =>
          \A n \in 1 .. Len(files') : n >= f' => WellFormed(files'[n])
    BY DEF TypeInv, Parsing
  <2>4. /\ normalSize' \in Nat /\ totalOffset' \in Nat /\ len' \in Nat /\ localOffset' \in Nat
        /\ cpSum' \in Nat /\ end' \in BOOLEAN /\ clipped' \in BOOLEAN
    BY DEF TypeInv
  <2> QED BY <2>1, <2>2, <2>3, <2>4 DEF TypeInv, Parsing, Types
<1>2. WindowInv'
  BY DEF WindowInv
<1>3. SyncInv'
  BY DEF SyncInv, Parsing
<1>4. ClipInv'
  BY DEF ClipInv
<1>5. PushedInv'
  <2>1. \A n \in 1 .. Len(files) : Covers(n) = 0
    BY DEF Covers
  <2>2. \A n \in 1 .. Len(files) : Covers(n)' = 0
    BY DEF Covers
  <2> QED BY <2>1, <2>2 DEF PushedInv, Initialised
<1>6. MTarInv'
  <2>1. rewritten' \in Seq([from : Nat, to : Nat, at : Nat]) /\ Len(rewritten') = 0
        /\ DOMAIN rewritten' = {}
    OBVIOUS
  <2>2. CASE pass' = "chunk"
    BY <2>1, <2>2 DEF MTarInv
  <2>3. CASE pass' = "data" /\ f' = f + 1 /\ f < Len(files)
    <3> DEFINE a == files'[f']
    <3>1. WrittenBytes' = {}
      BY <2>1 DEF WrittenBytes, PieceBytes
    <3>2. Position' = 0
      BY DEF Position
    <3>3. Below((0 .. (a.len - 1)) \ HeaderBytes(a), 0) = {}
      BY DEF Below
    <3>4. ToWrite(files[f], Position)' = {}
      BY <2>3, <3>2, <3>3 DEF ToWrite
    <3> QED BY <2>1, <3>1, <3>4 DEF MTarInv
  <2> QED BY <2>2, <2>3
<1> QED BY <1>1, <1>2, <1>3, <1>4, <1>5, <1>6

\* A chunk of cp bytes is pushed where the last one ended.
PushesOn(cp) ==
  /\ UNCHANGED <<files, chunkType, normalSize, pass, f, totalOffset>>
  /\ chunkType # "TAR_MultiHeader" =>
       /\ pass = "chunk" /\ pc = "cut" /\ pc' = "cut" /\ cp > 0
       /\ Here = totalOffset + localOffset /\ localOffset' = localOffset + cp
  /\ chunkType # "GEARCDC" /\ Initialised => cp <= ContainerMax

LEMMA Pushing ==
  ASSUME TypeInv, PushedInv, f \in 1 .. Len(files), Here \in Nat, NEW cp \in Nat,
         Emit(cp), PushesOn(cp)
  PROVE  PushedInv'
<1> DEFINE old == pushed[f]
           g == old.gapless /\ old.upto = Here /\ cp > 0
           m == IF cp > old.largest THEN cp ELSE old.largest
           rec == [upto |-> Here + cp, gapless |-> g, largest |-> m]
<1>1. /\ DOMAIN pushed = 1 .. Len(files)
      /\ \A n \in 1 .. Len(files) : pushed[n] \in [upto : Nat, gapless : BOOLEAN, largest : Nat]
  BY DEF PushedInv
<1>2. pushed' = [pushed EXCEPT ![f] = rec]
  BY DEF Emit
<1>3. /\ rec \in [upto : Nat, gapless : BOOLEAN, largest : Nat]
      /\ rec.upto = Here + cp /\ rec.gapless = g /\ rec.largest = m
  <2>1. old \in [upto : Nat, gapless : BOOLEAN, largest : Nat]
    BY <1>1
  <2>2. m \in Nat /\ g \in BOOLEAN /\ Here + cp \in Nat
    BY <2>1
  <2> HIDE DEF m, g
  <2> QED BY <2>2
<1> HIDE DEF rec
<1>4. /\ DOMAIN pushed' = 1 .. Len(files)
      /\ \A n \in 1 .. Len(files) : pushed'[n] = IF n = f THEN rec ELSE pushed[n]
  BY <1>1, <1>2
<1>5. totalOffset \in Nat /\ localOffset \in Nat
  BY DEF TypeInv
<1> SUFFICES ASSUME NEW n \in 1 .. Len(files)
             PROVE  /\ pushed'[n] \in [upto : Nat, gapless : BOOLEAN, largest : Nat]
                    /\ chunkType # "TAR_MultiHeader" => pushed'[n].upto = Covers(n)'
                    /\ chunkType # "TAR_MultiHeader" => pushed'[n].gapless
                    /\ chunkType # "GEARCDC" /\ Initialised => pushed'[n].largest <= ContainerMax
  BY <1>4 DEF PushedInv, PushesOn, Initialised
<1>6. CASE n # f
  <2>1. chunkType # "TAR_MultiHeader" => Covers(n)' = Covers(n)
    BY <1>6 DEF Covers, PushesOn
  <2> QED BY <1>4, <1>6, <2>1 DEF PushedInv, PushesOn
<1>7. CASE n = f
  <2>1. chunkType # "TAR_MultiHeader" =>
          /\ Covers(n) = Here /\ Covers(n)' = Here + cp /\ cp > 0
    BY <1>5, <1>7 DEF Covers, PushesOn
  <2>2. chunkType # "TAR_MultiHeader" => old.gapless /\ old.upto = Here
    BY <1>7, <2>1 DEF PushedInv, PushesOn
  <2>3. chunkType # "TAR_MultiHeader" => g
    BY <2>1, <2>2
  <2>4. chunkType # "GEARCDC" /\ Initialised => m <= ContainerMax
    <3>1. chunkType # "GEARCDC" /\ Initialised => old.largest <= ContainerMax
      BY DEF PushedInv
    <3> QED BY <3>1 DEF PushesOn
  <2>5. pushed'[n] = rec
    BY <1>4, <1>7
  <2> HIDE DEF g, m
  <2> QED BY <1>3, <1>7, <2>1, <2>3, <2>4, <2>5
<1> QED BY <1>6, <1>7

LEMMA CutPlainKeeps == ChunkerInv /\ CutPlain => ChunkerInv'
<1> SUFFICES ASSUME ChunkerInv, CutPlain PROVE ChunkerInv'
  OBVIOUS
<1> DEFINE n == len - localOffset
<1>1. PICK cp \in CASE chunkType = "FIXED_SIZE" -> {Least(AvgChunk, n)}
                    [] chunkType = "FASTCDC" -> CutPointFastCDC(n)
                    [] chunkType = "GEARCDC" -> CutPointGear(n)
                    [] OTHER -> {} :
         /\ Emit(cp)
         /\ localOffset' = localOffset + cp
         /\ clipped' = (clipped \/ Clips(cp))
  BY DEF CutPlain
<1>2. chunkType \in {"FIXED_SIZE", "FASTCDC", "GEARCDC"}
  BY <1>1
<1>3. /\ pc = "cut" /\ MoreToCut /\ pc' = "cut"
      /\ UNCHANGED <<files, chunkType, normalSize, pass, f, pc, totalOffset, len, end, tar,
                     localType, headerBuffer, cpSum, rewritten>>
  BY DEF CutPlain, input, parser
<1>4. /\ f \in 1 .. Len(files) /\ files[f].len \in Nat /\ cpSum = 0
      /\ Here = totalOffset + localOffset /\ Here \in Nat /\ n \in Nat \ {0}
      /\ end \/ n >= ContainerMax
      /\ pass = "chunk" => end \/ n >= Margin
  BY <1>3, CutFacts DEF ChunkerInv
<1>5. /\ totalOffset \in Nat /\ localOffset \in Nat /\ len \in Nat /\ normalSize \in Nat
      /\ pass = "chunk" /\ clipped \in BOOLEAN
  BY <1>2 DEF ChunkerInv, TypeInv
<1> HIDE DEF n
<1>6. /\ cp \in Nat /\ 0 < cp /\ cp <= n
      /\ chunkType = "FIXED_SIZE" => cp <= MaxChunk
      /\ chunkType = "FASTCDC" /\ Initialised => cp <= MaxChunk
  <2>1. CASE chunkType = "FIXED_SIZE"
    <3>1. cp = Least(AvgChunk, n)
      BY <1>1, <2>1
    <3> QED BY <1>4, <2>1, <3>1, SizeFacts DEF Least
  <2>2. CASE chunkType = "FASTCDC"
    <3>1. cp \in CutPointFastCDC(n)
      BY <1>1, <2>2
    <3>2. n \in Nat /\ n > 0 /\ normalSize \in Nat
      BY <1>4, <1>5
    <3>3. cp \in Nat /\ cp <= n /\ (n > 0 => cp > 0) /\ (Initialised => cp <= MaxChunk)
      BY ONLY <3>1, <3>2, FastCDCFacts
    <3> QED BY ONLY <2>2, <3>2, <3>3
  <2>3. CASE chunkType = "GEARCDC"
    <3>1. cp \in 1 .. n
      BY <1>1, <2>3 DEF CutPointGear
    <3> QED BY <1>4, <2>3, <3>1
  <2> QED BY <1>2, <2>1, <2>2, <2>3
<1>7. ~Parsing /\ ~Parsing'
  BY <1>2, <1>3 DEF Parsing
<1>8. TypeInv'
  <2>1. localOffset' \in Nat /\ clipped' \in BOOLEAN
    BY <1>1, <1>5, <1>6
  <2> HIDE DEF Parsing
  <2> QED BY <1>3, <1>7, <2>1 DEF ChunkerInv, TypeInv
<1>9. WindowInv'
  <2>1. localOffset' + cpSum' <= len'
    BY <1>1, <1>3, <1>4, <1>5, <1>6 DEF n
  <2> QED BY <1>3, <1>4, <2>1 DEF ChunkerInv, WindowInv
<1>10. SyncInv'
  BY <1>7 DEF SyncInv
<1>11. ClipInv'
  <2> SUFFICES ASSUME chunkType = "FIXED_SIZE" \/ (chunkType = "FASTCDC" /\ Initialised)
               PROVE  ~clipped'
    BY <1>2, <1>3 DEF ClipInv, Initialised
  <2>1. ~clipped
    BY DEF ChunkerInv, ClipInv
  <2>2. cp <= MaxChunk
    BY <1>6
  <2>3. end \/ cp < n
    <3>1. cp \in Nat /\ n \in Nat /\ (end \/ n >= Margin)
      BY <1>4, <1>5, <1>6
    <3>2. n >= Margin => cp < n
      BY ONLY <2>2, <3>1, SizeFacts
    <3> QED BY ONLY <3>1, <3>2
  <2>4. ~Clips(cp)
    BY <1>4, <1>5, <1>6, <2>3 DEF Clips, n
  <2> QED BY <1>1, <2>1, <2>4
<1>12. PushedInv'
  <2>1. PushesOn(cp)
    <3>1. chunkType # "GEARCDC" /\ Initialised => cp <= ContainerMax
      BY ONLY <1>2, <1>6, SizeFacts
    <3>2. localOffset' = localOffset + cp /\ Here = totalOffset + localOffset /\ cp > 0
      BY <1>1, <1>4, <1>6
    <3> QED BY ONLY <1>3, <1>5, <3>1, <3>2 DEF PushesOn
  <2> QED BY <1>1, <1>4, <1>6, <2>1, Pushing DEF ChunkerInv
<1>13. MTarInv'
  BY <1>3, <1>5 DEF ChunkerInv, MTarInv
<1> QED BY <1>8, <1>9, <1>10, <1>11, <1>12, <1>13 DEF ChunkerInv

\* The parser's state as ChunkerInv knows it.
LEMMA TarOKFacts ==
  ASSUME TypeInv, SyncInv, Parsing
  PROVE  TarOK(tar)
BY DEF TypeInv, SyncInv, TarOK

LEMMA CutTarKeeps == ChunkerInv /\ CutTar => ChunkerInv'
<1> SUFFICES ASSUME ChunkerInv, CutTar PROVE ChunkerInv'
  OBVIOUS
<1> DEFINE n == len - localOffset
<1>1. PICK r \in CutPointTarFast(Here, n) :
         /\ IF r.cp = 0 THEN UNCHANGED <<data, pushed>> ELSE Emit(r.cp)
         /\ localOffset' = localOffset + r.cp
         /\ tar' = r.tar
         /\ clipped' = (clipped \/ (r.cp > 0 /\ Clips(r.cp)))
  BY DEF CutTar
<1>2. /\ pc = "cut" /\ MoreToCut /\ pc' = "cut" /\ chunkType = "TAR" /\ Parsing
      /\ UNCHANGED <<files, chunkType, normalSize, pass, f, pc, totalOffset, len, end,
                     localType, headerBuffer, cpSum, rewritten>>
  BY DEF CutTar, input, Parsing
<1>3. /\ f \in 1 .. Len(files) /\ files[f].len \in Nat /\ cpSum = 0
      /\ Here = totalOffset + localOffset /\ Here \in Nat /\ n \in Nat \ {0}
      /\ Here < files[f].len /\ Here + n <= files[f].len
      /\ end => Here + n = files[f].len
      /\ pass = "chunk" => end \/ n >= Margin
  BY <1>2, CutFacts DEF ChunkerInv
<1>4. /\ totalOffset \in Nat /\ localOffset \in Nat /\ len \in Nat /\ normalSize \in Nat
      /\ pass = "chunk" /\ Initialised /\ ~clipped
  BY <1>2 DEF ChunkerInv, TypeInv, ClipInv, Initialised
<1>5. /\ WellFormed(files[f]) /\ TarOK(tar) /\ Guided(files[f], Here, tar)
      /\ tar.type = "FILE_HEADER" => Here \in DOMAIN files[f].header
  BY <1>2, <1>3, <1>4, FilesFacts, TarOKFacts DEF ChunkerInv, SyncInv, Synced, CutTar, Lost
<1> HIDE DEF n
<1>6. /\ r.cp \in Nat /\ r.cp <= n /\ r.cp <= ContainerMax /\ TarOK(r.tar)
      /\ Guided(files[f], Here + r.cp, r.tar)
  <2>1. n \in Nat /\ (n >= ContainerMax \/ Here + n = files[f].len)
    BY <1>3, <1>4, SizeFacts
  <2> QED BY <1>3, <1>4, <1>5, <2>1, TarCutFits
<1>7. ~Clips(r.cp)
  BY <1>3, <1>4, <1>6, SizeFacts DEF Clips, n
<1>8. TypeInv'
  <2>1. localOffset' \in Nat /\ clipped' \in BOOLEAN /\ tar' \in Tars
    BY <1>1, <1>4, <1>6 DEF TarOK
  <2> QED BY <1>2, <2>1 DEF ChunkerInv, TypeInv, Parsing
<1>9. WindowInv'
  <2>1. localOffset + r.cp + 0 <= len
    <3>1. r.cp \in Nat /\ r.cp <= len - localOffset /\ localOffset \in Nat /\ len \in Nat
      BY <1>4, <1>6 DEF n
    <3> QED BY ONLY <3>1
  <2>2. localOffset' + cpSum' <= len'
    BY <1>1, <1>2, <1>3, <2>1
  <2> QED BY <1>2, <1>3, <2>2 DEF ChunkerInv, WindowInv
<1>10. SyncInv'
  <2>1. Here' = Here + r.cp
    BY <1>1, <1>2, <1>3, <1>4, <1>6 DEF Here
  <2>2. Synced(Here)'
    BY <1>1, <1>2, <1>6, <2>1 DEF Synced
  <2> QED BY <1>1, <1>2, <1>6, <2>2 DEF SyncInv, TarOK
<1>11. ClipInv'
  BY <1>1, <1>4, <1>7 DEF ClipInv
<1>12. PushedInv'
  <2>1. CASE r.cp = 0
    <3>1. localOffset' = localOffset /\ pushed' = pushed
      BY <1>1, <1>4, <2>1
    <3>2. \A k \in 1 .. Len(files) : Covers(k)' = Covers(k)
      BY <1>2, <3>1 DEF Covers
    <3> QED BY <1>2, <3>1, <3>2 DEF ChunkerInv, PushedInv, Initialised
  <2>2. CASE r.cp # 0
    <3>1. PushesOn(r.cp) /\ Emit(r.cp)
      BY <1>1, <1>2, <1>3, <1>4, <1>6, <2>2 DEF PushesOn
    <3> QED BY <1>3, <1>6, <3>1, Pushing DEF ChunkerInv
  <2> QED BY <2>1, <2>2
<1>13. MTarInv'
  BY <1>2, <1>4 DEF ChunkerInv, MTarInv
<1> QED BY <1>8, <1>9, <1>10, <1>11, <1>12, <1>13 DEF ChunkerInv

\* In a segment or a big member.
LEMMA SegmentFacts ==
  ASSUME ChunkerInv, pc \in {"segment", "big"}
  PROVE  LET n == len - localOffset - cpSum
         IN  /\ chunkType = "TAR_MultiHeader" /\ Parsing /\ pass = "chunk" /\ Initialised
             /\ f \in 1 .. Len(files) /\ files[f].len \in Nat /\ WellFormed(files[f])
             /\ totalOffset \in Nat /\ localOffset \in Nat /\ cpSum \in Nat /\ len \in Nat
             /\ normalSize \in Nat /\ TarOK(tar) /\ Here \in Nat /\ n \in Nat
             /\ Here + n <= files[f].len /\ (end => Here + n = files[f].len)
             /\ clipped \in BOOLEAN
<1>1. /\ chunkType = "TAR_MultiHeader" /\ Parsing /\ pass = "chunk" /\ Initialised
      /\ totalOffset \in Nat /\ localOffset \in Nat /\ cpSum \in Nat /\ len \in Nat
      /\ normalSize \in Nat /\ f <= Len(files) /\ clipped \in BOOLEAN
  BY DEF ChunkerInv, TypeInv, Parsing, Initialised
<1>2. f \in 1 .. Len(files) /\ files[f].len \in Nat /\ WellFormed(files[f]) /\ TarOK(tar)
  BY <1>1, FilesFacts, TarOKFacts DEF ChunkerInv
<1>3. /\ totalOffset + len <= files[f].len /\ localOffset + cpSum <= len
      /\ end => totalOffset + len = files[f].len
  BY DEF ChunkerInv, WindowInv
<1> DEFINE n == len - localOffset - cpSum
<1>4. totalOffset + localOffset + cpSum \in Nat /\ n \in Nat
      /\ totalOffset + localOffset + cpSum + n = totalOffset + len
  BY ONLY <1>1, <1>3
<1> HIDE DEF n
<1>5. /\ Here \in Nat /\ Here + n <= files[f].len
      /\ end => Here + n = files[f].len
  BY ONLY <1>3, <1>4 DEF Here
<1> QED BY ONLY <1>1, <1>2, <1>4, <1>5 DEF n

LEMMA SegmentHeaderKeeps == ChunkerInv /\ SegmentHeader => ChunkerInv'
<1> SUFFICES ASSUME ChunkerInv, SegmentHeader PROVE ChunkerInv'
  OBVIOUS
<1> DEFINE n == len - localOffset - cpSum
           cutShort(r) == r.cp < BlockSize \/ (r.tar.type # "FILE_HEADER" /\ r.tar.size > 0)
<1>1. PICK r \in CutPointTarFast(Here, n) :
         IF localOffset + cpSum + r.cp = len
         THEN /\ CloseSegment(Append(headerBuffer, Here), cpSum + r.cp)
              /\ tar' = [r.tar EXCEPT !.type = "FILE_HEADER"]
              /\ clipped' = (clipped \/ r.cp < BlockSize
                               \/ (r.tar.type # "FILE_HEADER" /\ r.tar.size > 0))
         ELSE /\ headerBuffer' = Append(headerBuffer, Here)
              /\ cpSum' = cpSum + r.cp
              /\ tar' = r.tar
              /\ UNCHANGED <<pc, localOffset, headers, clipped>>
  BY DEF SegmentHeader
<1>2. /\ pc = "segment" /\ localType' = "FILE_HEADER" /\ tar.type = "FILE_HEADER"
      /\ Here \in DOMAIN files[f].header
      /\ UNCHANGED <<files, chunkType, normalSize, pass, f, totalOffset, len, end,
                     data, pushed, rewritten>>
  BY DEF SegmentHeader, input, Lost
<1>3. /\ chunkType = "TAR_MultiHeader" /\ Parsing /\ pass = "chunk"
      /\ f \in 1 .. Len(files) /\ files[f].len \in Nat /\ WellFormed(files[f])
      /\ totalOffset \in Nat /\ localOffset \in Nat /\ cpSum \in Nat /\ len \in Nat
      /\ normalSize \in Nat /\ TarOK(tar) /\ Here \in Nat /\ n \in Nat
      /\ clipped \in BOOLEAN
  BY <1>2, SegmentFacts
<1>4. localOffset + cpSum < len
  BY <1>2 DEF ChunkerInv, WindowInv
<1>5. Here = totalOffset + localOffset + cpSum
  BY DEF Here
<1> HIDE DEF n
<1>6. /\ r.cp \in Nat /\ TarOK(r.tar) /\ r.cp = Least(BlockSize, n)
      /\ Guided(files[f], Here + BlockSize, r.tar)
      /\ r.tar.type = "FILE_HEADER" \/ r.tar.size = 0 => Left(r.tar) = 0
  BY <1>2, <1>3, TarCut
<1>7. CASE localOffset + cpSum + r.cp = len
  <2>1. /\ localOffset' = len /\ cpSum' = 0 /\ pc' = "cut"
        /\ tar' = [r.tar EXCEPT !.type = "FILE_HEADER"]
        /\ clipped' = (clipped \/ cutShort(r))
    BY <1>1, <1>3, <1>6, <1>7 DEF CloseSegment
  <2>2. tar' \in Tars /\ tar'.type = "FILE_HEADER" /\ Left(tar') = 0
    BY <1>6, <2>1 DEF TarOK, Tars, Left
  <2>3. Here' = Here + r.cp
    <3>1. Here' = totalOffset + (localOffset + cpSum + r.cp) + 0
      BY <1>2, <1>7, <2>1 DEF Here
    <3>2. totalOffset \in Nat /\ localOffset \in Nat /\ cpSum \in Nat /\ r.cp \in Nat
      BY <1>3, <1>6
    <3>3. totalOffset + (localOffset + cpSum + r.cp) + 0 = totalOffset + localOffset + cpSum + r.cp
      BY ONLY <3>2
    <3> QED BY ONLY <1>5, <3>1, <3>3
  <2>4. Synced(Here)'
    <3>1. CASE clipped'
      BY <2>2, <3>1 DEF Synced
    <3>2. CASE ~clipped'
      <4>1. ~cutShort(r)
        BY <2>1, <3>2
      <4>2. r.tar.size = 0 \/ r.tar.type = "FILE_HEADER"
        BY <1>6, <4>1 DEF TarOK, Tars
      <4>3. r.cp = BlockSize
        BY <1>3, <1>6, <4>1, SizeFacts DEF Least
      <4>4. Guided(files[f], Here + BlockSize, tar')
        BY <1>6, <2>2, <4>2 DEF Guided, Misguided
      <4> QED BY <1>2, <2>3, <4>3, <4>4 DEF Synced
    <3> QED BY <3>1, <3>2
  <2>5. TypeInv'
    <3>1. clipped' \in BOOLEAN
      BY <1>3, <2>1
    <3> HIDE DEF cutShort
    <3> QED BY <1>2, <1>3, <2>1, <2>2, <3>1 DEF ChunkerInv, TypeInv, Parsing
  <2>6. WindowInv'
    BY <1>2, <1>3, <2>1 DEF ChunkerInv, WindowInv
  <2>7. SyncInv'
    BY <2>1, <2>2, <2>4 DEF SyncInv
  <2>8. ClipInv'
    BY <1>2, <1>3 DEF ClipInv
  <2>9. PushedInv'
    BY <1>2, <1>3 DEF ChunkerInv, PushedInv, Initialised
  <2>10. MTarInv'
    BY <1>2, <1>3 DEF ChunkerInv, MTarInv
  <2> QED BY <2>5, <2>6, <2>7, <2>8, <2>9, <2>10 DEF ChunkerInv
<1>8. CASE localOffset + cpSum + r.cp # len
  <2>1. cpSum' = cpSum + r.cp /\ tar' = r.tar /\ UNCHANGED <<pc, localOffset, clipped>>
    BY <1>1, <1>8
  <2>2. r.cp = BlockSize /\ r.cp < n
    <3>1. localOffset + cpSum + n = len
      BY ONLY <1>3 DEF n
    <3>2. r.cp # n
      BY <1>8, <3>1
    <3> QED BY ONLY <1>3, <1>6, <3>2, SizeFacts DEF Least
  <2>3. Here' = Here + BlockSize
    BY <1>2, <1>3, <1>5, <2>1, <2>2, SizeFacts DEF Here
  <2>4. Synced(Here)'
    BY <1>2, <1>6, <2>1, <2>3 DEF Synced
  <2>5. TypeInv'
    BY <1>2, <1>3, <1>6, <2>1 DEF ChunkerInv, TypeInv, Parsing, TarOK
  <2>6. WindowInv'
    <3>1. localOffset' + cpSum' < len'
      <4>1. localOffset + (cpSum + r.cp) < len
        BY ONLY <1>3, <1>6, <2>2 DEF n
      <4> QED BY ONLY <1>2, <2>1, <4>1
    <3>2. localOffset' + cpSum' <= len'
      <4>1. localOffset + (cpSum + r.cp) <= len
        BY ONLY <1>3, <1>6, <2>2 DEF n
      <4> QED BY ONLY <1>2, <2>1, <4>1
    <3> QED BY <1>2, <2>1, <3>1, <3>2 DEF ChunkerInv, WindowInv
  <2>7. SyncInv'
    BY <1>2, <1>6, <2>1, <2>4 DEF SyncInv, TarOK
  <2>8. ClipInv'
    BY <1>2, <1>3 DEF ClipInv
  <2>9. PushedInv'
    BY <1>2, <1>3 DEF ChunkerInv, PushedInv, Initialised
  <2>10. MTarInv'
    BY <1>2, <1>3 DEF ChunkerInv, MTarInv
  <2> QED BY <2>5, <2>6, <2>7, <2>8, <2>9, <2>10 DEF ChunkerInv
<1> QED BY <1>7, <1>8

\* Data pushed by a segment or of a big member.
LEMMA PushingApart ==
  ASSUME ChunkerInv, pc \in {"segment", "big"}, NEW cp \in Nat, cp <= ContainerMax,
         UNCHANGED <<files, chunkType, normalSize, pass, f, totalOffset>>,
         IF cp = 0 THEN pushed' = pushed \/ Emit(cp) ELSE Emit(cp)
  PROVE  PushedInv'
<1>1. /\ chunkType = "TAR_MultiHeader" /\ f \in 1 .. Len(files) /\ Here \in Nat
  BY SegmentFacts
<1>2. CASE pushed' = pushed
  BY <1>1, <1>2 DEF ChunkerInv, PushedInv, Initialised
<1>3. CASE Emit(cp)
  <2>1. PushesOn(cp)
    BY <1>1 DEF PushesOn
  <2> QED BY <1>1, <1>3, <2>1, Pushing DEF ChunkerInv
<1> QED BY <1>2, <1>3

LEMMA SegmentDataKeeps == ChunkerInv /\ SegmentData => ChunkerInv'
<1> SUFFICES ASSUME ChunkerInv, SegmentData PROVE ChunkerInv'
  OBVIOUS
<1> DEFINE n == len - localOffset - cpSum
<1>1. PICK r \in CutPointTarFast(Here, n) :
         /\ IF r.cp = 0 THEN UNCHANGED <<data, pushed>> ELSE Emit(r.cp)
         /\ clipped' = (clipped \/ r.cp < RoundUp(tar.size))
         /\ tar' = r.tar
         /\ IF r.cp > 0 /\ localOffset + cpSum + r.cp = len
            THEN CloseSegment(headerBuffer, cpSum + r.cp)
            ELSE /\ cpSum' = cpSum + r.cp
                 /\ UNCHANGED <<pc, localOffset, headers, headerBuffer>>
  BY DEF SegmentData
<1>2. /\ pc = "segment" /\ tar.type = "FILE_CHUNK"
      /\ UNCHANGED <<files, chunkType, normalSize, pass, f, totalOffset, len, end, rewritten>>
  BY DEF SegmentData, input
<1>3. /\ chunkType = "TAR_MultiHeader" /\ Parsing /\ pass = "chunk"
      /\ f \in 1 .. Len(files) /\ files[f].len \in Nat /\ WellFormed(files[f])
      /\ totalOffset \in Nat /\ localOffset \in Nat /\ cpSum \in Nat /\ len \in Nat
      /\ normalSize \in Nat /\ TarOK(tar) /\ Here \in Nat /\ n \in Nat
      /\ clipped \in BOOLEAN
  BY <1>2, SegmentFacts
<1>4. localOffset + cpSum < len /\ Guided(files[f], Here, tar)
  BY <1>2, <1>3 DEF ChunkerInv, WindowInv, SyncInv, Synced
<1>5. Here = totalOffset + localOffset + cpSum
  BY DEF Here
<1> HIDE DEF n
<1>6. /\ r.cp \in Nat /\ TarOK(r.tar) /\ r.cp = Least(RoundUp(tar.size), n)
      /\ r.tar.type = "FILE_HEADER"
  BY <1>2, <1>3, TarCut
<1>7. /\ RoundUp(tar.size) \in Nat /\ RoundUp(tar.size) <= ContainerMax
      /\ Left(tar) = RoundUp(tar.size) /\ Left(r.tar) = 0
  <2>1. tar.size \in Nat /\ tar.size <= ContainerMax
    BY <1>2, <1>3 DEF TarOK, Tars
  <2> QED BY <1>2, <1>6, <2>1, RoundUpFacts DEF Left
<1>8. r.cp <= n /\ r.cp <= RoundUp(tar.size) /\ r.cp <= ContainerMax
  BY <1>3, <1>6, <1>7, SizeFacts DEF Least
<1>9. /\ localOffset' \in Nat /\ cpSum' \in Nat
      /\ localOffset' + cpSum' = localOffset + cpSum + r.cp
      /\ \/ pc' = "cut" /\ cpSum' = 0 /\ localOffset' + cpSum' <= len
         \/ pc' = "segment" /\ localOffset' + cpSum' < len
  <2>0. localOffset \in Nat /\ cpSum \in Nat /\ r.cp \in Nat /\ len \in Nat
        /\ r.cp <= len - localOffset - cpSum
    BY <1>3, <1>6, <1>8 DEF n
  <2>1. CASE r.cp > 0 /\ localOffset + cpSum + r.cp = len
    <3>1. localOffset' = localOffset + (cpSum + r.cp) /\ cpSum' = 0 /\ pc' = "cut"
      BY <1>1, <2>1 DEF CloseSegment
    <3>2. /\ localOffset + (cpSum + r.cp) \in Nat
          /\ localOffset + (cpSum + r.cp) + 0 = localOffset + cpSum + r.cp
          /\ localOffset + (cpSum + r.cp) + 0 <= len
      BY ONLY <2>0, <2>1
    <3> QED BY ONLY <3>1, <3>2
  <2>2. CASE ~(r.cp > 0 /\ localOffset + cpSum + r.cp = len)
    <3>1. cpSum' = cpSum + r.cp /\ localOffset' = localOffset /\ pc' = "segment"
      BY <1>1, <1>2, <2>2
    <3>2. /\ cpSum + r.cp \in Nat
          /\ localOffset + (cpSum + r.cp) = localOffset + cpSum + r.cp
          /\ localOffset + (cpSum + r.cp) < len
      BY ONLY <1>4, <2>0, <2>2
    <3> QED BY ONLY <2>0, <3>1, <3>2
  <2> QED BY <2>1, <2>2
<1>10. Here' = Here + r.cp
  <2>1. Here' = totalOffset + localOffset' + cpSum'
    BY <1>2 DEF Here
  <2>2. totalOffset \in Nat /\ localOffset \in Nat /\ cpSum \in Nat /\ r.cp \in Nat
    BY <1>3, <1>6
  <2>3. /\ localOffset' \in Nat /\ cpSum' \in Nat
        /\ localOffset' + cpSum' = localOffset + cpSum + r.cp
    BY <1>9
  <2>4. totalOffset + localOffset' + cpSum' = totalOffset + localOffset + cpSum + r.cp
    <3>1. PICK l \in Nat, c \in Nat : l = localOffset' /\ c = cpSum'
      BY <2>3
    <3>2. l + c = localOffset + cpSum + r.cp
      BY <2>3, <3>1
    <3>3. totalOffset + l + c = totalOffset + localOffset + cpSum + r.cp
      BY ONLY <2>2, <3>2
    <3> QED BY ONLY <3>1, <3>3
  <2> QED BY ONLY <1>5, <2>1, <2>4
<1>11. Synced(Here)'
  <2>1. CASE r.cp < RoundUp(tar.size)
    <3>1. clipped' /\ tar'.type = "FILE_HEADER"
      BY <1>1, <1>6, <2>1
    <3> QED BY <3>1 DEF Synced
  <2>2. CASE r.cp = RoundUp(tar.size)
    <3>1. r.cp <= Left(tar) /\ Left(tar) - r.cp = 0 /\ Left(tar) \in Nat
      BY ONLY <1>7, <2>2
    <3>2. Guided(files[f], Here + r.cp, r.tar)
      <4>1. CASE DataAhead(files[f], Here, Left(tar))
        <5>1. DataAhead(files[f], Here + r.cp, Left(tar) - r.cp)
          BY <1>3, <1>6, <3>1, <4>1, Consumed
        <5> QED BY <1>7, <3>1, <5>1 DEF Guided
      <4>2. CASE Misguided(files[f], Here, tar)
        <5>1. Here + r.cp = Here
          BY <1>3, <1>7, <2>2, <4>2 DEF Misguided
        <5> QED BY <1>6, <1>7, <4>2, <5>1 DEF Misguided, Guided
      <4> QED BY <1>4, <4>1, <4>2 DEF Guided
    <3> QED BY <1>1, <1>2, <1>10, <3>2 DEF Synced
  <2> QED BY <1>6, <1>7, <1>8, <2>1, <2>2
<1>12. TypeInv'
  <2>1. clipped' \in BOOLEAN /\ tar' \in Tars
    BY <1>1, <1>3, <1>6 DEF TarOK
  <2> QED BY <1>2, <1>3, <1>9, <2>1 DEF ChunkerInv, TypeInv, Parsing
<1>13. WindowInv'
  <2>1. totalOffset + len <= files[f].len /\ (end => totalOffset + len = files[f].len)
    BY <1>2 DEF ChunkerInv, WindowInv
  <2>2. localOffset' + cpSum' <= len
    <3>1. localOffset' + cpSum' \in Nat /\ len \in Nat
      <4>1. localOffset + cpSum + r.cp \in Nat
        BY ONLY <1>3, <1>6
      <4> QED BY <1>3, <1>9, <4>1
    <3>2. localOffset' + cpSum' <= len \/ localOffset' + cpSum' < len
      BY <1>9
    <3> QED BY ONLY <3>1, <3>2
  <2> QED BY <1>2, <1>9, <2>1, <2>2 DEF WindowInv
<1>14. SyncInv'
  BY <1>1, <1>6, <1>9, <1>11 DEF SyncInv
<1>15. ClipInv'
  BY <1>2, <1>3 DEF ClipInv
<1>16. PushedInv'
  BY <1>1, <1>2, <1>6, <1>8, PushingApart
<1>17. MTarInv'
  BY <1>2, <1>3 DEF ChunkerInv, MTarInv
<1> QED BY <1>12, <1>13, <1>14, <1>15, <1>16, <1>17 DEF ChunkerInv

LEMMA BigDataKeeps == ChunkerInv /\ BigData => ChunkerInv'
<1> SUFFICES ASSUME ChunkerInv, BigData PROVE ChunkerInv'
  OBVIOUS
<1> DEFINE n == len - localOffset - cpSum
<1>1. PICK r \in CutPointTarFast(Here, n) :
         /\ Emit(r.cp)
         /\ tar' = r.tar
         /\ IF localOffset + cpSum + r.cp = len
            THEN pc' = "cut" /\ localOffset' = len /\ cpSum' = 0
            ELSE cpSum' = cpSum + r.cp /\ UNCHANGED <<pc, localOffset>>
  BY DEF BigData
<1>2. /\ pc = "big" /\ tar.type # "FILE_HEADER" /\ cpSum < ContainerMax - MaxChunk
      /\ UNCHANGED <<files, chunkType, normalSize, pass, f, totalOffset, len, end, rewritten,
                     clipped>>
  BY DEF BigData, BigOpen, input
<1>3. /\ chunkType = "TAR_MultiHeader" /\ Parsing /\ pass = "chunk" /\ Initialised
      /\ f \in 1 .. Len(files) /\ files[f].len \in Nat /\ WellFormed(files[f])
      /\ totalOffset \in Nat /\ localOffset \in Nat /\ cpSum \in Nat /\ len \in Nat
      /\ normalSize \in Nat /\ TarOK(tar) /\ Here \in Nat /\ n \in Nat
      /\ Here + n <= files[f].len /\ (end => Here + n = files[f].len)
  BY <1>2, SegmentFacts
<1>4. tar.type = "BIG_CHUNK" /\ DataAhead(files[f], Here, Left(tar))
      /\ (end \/ len - localOffset >= Margin)
  <2>1. tar.type = "BIG_CHUNK" /\ Synced(Here) /\ (end \/ len - localOffset >= Margin)
    BY <1>2, <1>3 DEF ChunkerInv, SyncInv, WindowInv, TarOK, Tars
  <2> QED BY <2>1 DEF Synced, Guided, Misguided
<1>5. Here = totalOffset + localOffset + cpSum
  BY DEF Here
<1> HIDE DEF n
<1>6. /\ r.cp \in Nat /\ TarOK(r.tar) /\ r.cp <= Left(tar) /\ Left(r.tar) = Left(tar) - r.cp
      /\ r.cp <= MaxChunk /\ r.tar.type # "FILE_CHUNK"
  BY <1>3, <1>4, TarCut
<1>7. /\ DataAhead(files[f], Here + r.cp, Left(r.tar)) /\ Here + Left(tar) <= files[f].len
      /\ Left(tar) \in Nat
  <2>1. Left(tar) \in Nat
    BY <1>3, LeftFacts DEF TarOK
  <2> QED BY <1>3, <1>4, <1>6, <2>1, Consumed
<1>8. localOffset + cpSum + r.cp <= len
  <2>0. localOffset \in Nat /\ cpSum \in Nat /\ r.cp \in Nat /\ len \in Nat
    BY <1>3, <1>6
  <2>1. CASE end
    <3>1. r.cp <= n
      BY ONLY <1>3, <1>6, <1>7, <2>1
    <3> QED BY ONLY <2>0, <3>1 DEF n
  <2>2. CASE len - localOffset >= Margin
    <3>1. cpSum < ContainerMax - MaxChunk /\ r.cp <= MaxChunk
      BY <1>2, <1>6
    <3> QED BY ONLY <2>0, <2>2, <3>1, SizeFacts
  <2> QED BY <1>4, <2>1, <2>2
<1>9. /\ localOffset' \in Nat /\ cpSum' \in Nat
      /\ localOffset' + cpSum' = localOffset + cpSum + r.cp
      /\ \/ pc' = "cut" /\ cpSum' = 0
         \/ pc' = "big" /\ localOffset' = localOffset
  <2>1. CASE localOffset + cpSum + r.cp = len
    BY <1>1, <1>3, <1>6, <2>1
  <2>2. CASE localOffset + cpSum + r.cp # len
    <3>1. cpSum' = cpSum + r.cp /\ pc' = "big" /\ localOffset' = localOffset
      BY <1>1, <1>2, <2>2
    <3>2. localOffset \in Nat /\ cpSum \in Nat /\ r.cp \in Nat
      BY <1>3, <1>6
    <3>3. /\ cpSum + r.cp \in Nat
          /\ localOffset + (cpSum + r.cp) = localOffset + cpSum + r.cp
      BY ONLY <3>2
    <3> QED BY ONLY <3>1, <3>2, <3>3
  <2> QED BY <2>1, <2>2
<1>10. Here' = Here + r.cp
  <2>1. Here' = totalOffset + localOffset' + cpSum'
    BY <1>2 DEF Here
  <2>2. totalOffset \in Nat /\ localOffset \in Nat /\ cpSum \in Nat /\ r.cp \in Nat
    BY <1>3, <1>6
  <2>3. /\ localOffset' \in Nat /\ cpSum' \in Nat
        /\ localOffset' + cpSum' = localOffset + cpSum + r.cp
    BY <1>9
  <2>4. totalOffset + localOffset' + cpSum' = totalOffset + localOffset + cpSum + r.cp
    <3>1. PICK l \in Nat, c \in Nat : l = localOffset' /\ c = cpSum'
      BY <2>3
    <3>2. l + c = localOffset + cpSum + r.cp
      BY <2>3, <3>1
    <3>3. totalOffset + l + c = totalOffset + localOffset + cpSum + r.cp
      BY ONLY <2>2, <3>2
    <3> QED BY ONLY <3>1, <3>3
  <2> QED BY ONLY <1>5, <2>1, <2>4
<1>11. Synced(Here)'
  <2>1. Guided(files[f], Here + r.cp, r.tar)
    BY <1>7 DEF Guided
  <2> QED BY <1>1, <1>2, <1>10, <2>1 DEF Synced
<1>12. TypeInv'
  BY <1>1, <1>2, <1>3, <1>6, <1>9 DEF ChunkerInv, TypeInv, Parsing, TarOK
<1>13. WindowInv'
  BY <1>2, <1>3, <1>8, <1>9 DEF ChunkerInv, WindowInv
<1>14. SyncInv'
  BY <1>1, <1>6, <1>9, <1>11 DEF SyncInv, TarOK
<1>15. ClipInv'
  BY <1>2, <1>3 DEF ClipInv
<1>16. PushedInv'
  <2>1. r.cp <= ContainerMax
    BY <1>6, SizeFacts
  <2> QED BY <1>1, <1>2, <1>6, <2>1, PushingApart
<1>17. MTarInv'
  BY <1>2, <1>3 DEF ChunkerInv, MTarInv
<1> QED BY <1>12, <1>13, <1>14, <1>15, <1>16, <1>17 DEF ChunkerInv

\* A header block is header bytes, data ahead is none.
LEMMA BytesAhead ==
  ASSUME NEW a, WellFormed(a), NEW p \in Nat, NEW k \in Nat
  PROVE  /\ p \in DOMAIN a.header /\ k = BlockSize => p .. (p + k - 1) \subseteq HeaderBytes(a)
         /\ \A n \in Nat : k <= n /\ DataAhead(a, p, n) =>
              \A x \in p .. (p + k - 1) : x \notin HeaderBytes(a)
<1>1. p \in DOMAIN a.header /\ k = BlockSize => p .. (p + k - 1) \subseteq HeaderBytes(a)
  BY DEF HeaderBytes
<1>2. ASSUME NEW n \in Nat, k <= n, DataAhead(a, p, n), NEW x \in p .. (p + k - 1),
             x \in HeaderBytes(a)
      PROVE  FALSE
  <2>1. PICK o \in DOMAIN a.header : x \in o .. (o + BlockSize - 1)
    BY <1>2 DEF HeaderBytes
  <2>2. o \in Nat
    BY DEF WellFormed
  <2>3. o + BlockSize <= p \/ p + n <= o
    BY <1>2 DEF DataAhead
  <2> QED BY <1>2, <2>1, <2>2, <2>3, SizeFacts
<1> QED BY <1>1, <1>2

LEMMA BelowGrows ==
  ASSUME NEW S, S \subseteq Nat, NEW p \in Nat, NEW k \in Nat, p .. (p + k - 1) \subseteq S
  PROVE  \A x : x \in Below(S, p + k) <=> x \in Below(S, p) \/ x \in p .. (p + k - 1)
<1>1. \A x \in Nat : x < p + k <=> x < p \/ x \in p .. (p + k - 1)
  OBVIOUS
<1> QED BY <1>1, Zenon DEF Below

LEMMA BelowStays ==
  ASSUME NEW S, S \subseteq Nat, NEW p \in Nat, NEW k \in Nat,
         (p .. (p + k - 1)) \intersect S = {}
  PROVE  Below(S, p + k) = Below(S, p)
<1>1. \A x \in Nat : x < p + k <=> x < p \/ x \in p .. (p + k - 1)
  OBVIOUS
<1>2. \A x \in S : x \in Nat /\ x \notin p .. (p + k - 1)
  OBVIOUS
<1> QED BY <1>1, <1>2, Zenon DEF Below

LEMMA AppendBytes ==
  ASSUME NEW T, NEW s \in Seq(T), NEW e
  PROVE  \A x : x \in PieceBytes(Append(s, e)) <=> x \in PieceBytes(s) \/ x \in BytesOf(e)
<1> DEFINE t == Append(s, e)
           m == Len(s)
<1>1. m \in Nat /\ DOMAIN s = 1 .. m
  BY LenProperties
<1>2. DOMAIN t = 1 .. (m + 1) /\ t[m + 1] = e /\ \A k \in 1 .. m : t[k] = s[k]
  BY <1>1, AppendProperties
<1> HIDE DEF t, m
<1>3. /\ \A k : k \in DOMAIN t <=> k \in DOMAIN s \/ k = m + 1
      /\ \A k \in DOMAIN s : BytesOf(t[k]) = BytesOf(s[k])
      /\ BytesOf(t[m + 1]) = BytesOf(e)
  <2>1. \A k : k \in 1 .. (m + 1) <=> k \in 1 .. m \/ k = m + 1
    BY <1>1
  <2> QED BY <1>1, <1>2, <2>1
<1>4. \A x : x \in PieceBytes(t) <=> x \in PieceBytes(s) \/ x \in BytesOf(e)
  BY ONLY <1>3, Zenon DEF PieceBytes
<1> QED BY <1>4 DEF t

LEMMA CutMTarKeeps == ChunkerInv /\ CutMTar => ChunkerInv'
<1> SUFFICES ASSUME ChunkerInv, CutMTar PROVE ChunkerInv'
  OBVIOUS
<1> DEFINE n == len - localOffset
           p == Here
           a == files[f]
           H == DOMAIN a.header
           writes == tar.type = "FILE_HEADER" <=> pass = "header"
           piece(cp) == [from |-> p, to |-> p + cp, at |-> Written]
           Pieces == [from : Nat, to : Nat, at : Nat]
<1>1. PICK r \in CutPointTarFast(Here, n) :
         /\ rewritten' = IF r.cp > 0 /\ writes THEN Append(rewritten, piece(r.cp))
                         ELSE rewritten
         /\ localOffset' = localOffset + r.cp
         /\ tar' = r.tar
         /\ clipped' = (clipped \/ (tar.type = "FILE_CHUNK" /\ r.cp < RoundUp(tar.size)))
         /\ pc' = IF localOffset' > len THEN "astray" ELSE "cut"
  BY DEF CutMTar
<1>2. /\ pc = "cut" /\ MoreToCut /\ pass # "chunk" /\ chunkType = "MTAR" /\ Parsing
      /\ UNCHANGED <<files, chunkType, normalSize, pass, f, totalOffset, len, end, cpSum, pushed>>
  BY DEF CutMTar, input, Parsing, ChunkerInv, TypeInv
<1>3. /\ f \in 1 .. Len(files) /\ a.len \in Nat /\ cpSum = 0
      /\ p = totalOffset + localOffset /\ p \in Nat /\ n \in Nat \ {0}
      /\ p < a.len /\ p + n <= a.len
      /\ end => p + n = a.len
      /\ end \/ n >= ContainerMax
  BY <1>2, CutFacts DEF ChunkerInv
<1>4. /\ totalOffset \in Nat /\ localOffset \in Nat /\ len \in Nat /\ normalSize \in Nat
      /\ ~clipped /\ pass \in {"data", "header"}
  BY <1>2 DEF ChunkerInv, TypeInv, ClipInv
<1>5. /\ WellFormed(a) /\ TarOK(tar) /\ Guided(a, p, tar)
      /\ tar.type = "FILE_HEADER" => p \in H
  BY <1>2, <1>3, <1>4, FilesFacts, TarOKFacts DEF ChunkerInv, SyncInv, Synced, CutMTar, Lost
<1>6. /\ r.cp \in Nat /\ TarOK(r.tar)
      /\ p + r.cp <= a.len /\ Guided(a, p + r.cp, r.tar)
      /\ tar.type = "FILE_HEADER" => p \in H /\ r.cp = BlockSize
      /\ tar.type # "FILE_HEADER" => r.cp <= Left(tar)
      /\ tar.type = "FILE_CHUNK" => r.cp = RoundUp(tar.size)
  <2> HIDE DEF n
  <2>1. n \in Nat /\ (n >= ContainerMax \/ p + n = a.len)
    BY <1>3
  <2> QED BY <1>3, <1>4, <1>5, <2>1, TarCutFits
<1>7. ~clipped'
  <2>1. tar.type = "FILE_CHUNK" => ~(r.cp < RoundUp(tar.size))
    BY <1>6
  <2> QED BY <1>1, <1>4, <2>1
<1>8. Left(tar) \in Nat /\ Written \in Nat
  BY <1>5, LeftFacts, WrittenNat DEF TarOK, ChunkerInv
<1>9. TypeInv'
  <2>1. localOffset' \in Nat /\ clipped' \in BOOLEAN /\ tar' \in Tars
        /\ pc' \in {"cut", "astray"}
    <3>1. clipped' \in BOOLEAN
      BY <1>1, <1>4
    <3> QED BY <1>1, <1>4, <1>6, <3>1 DEF TarOK
  <2> QED BY <1>2, <1>3, <2>1 DEF ChunkerInv, TypeInv, Parsing
<1>10. WindowInv'
  <2>1. pc' = "cut" => localOffset' + cpSum' <= len'
    BY <1>1, <1>2, <1>3, <1>4, <1>6
  <2>2. pc' \in {"cut", "astray"}
    BY <1>1
  <2> QED BY <1>2, <1>3, <2>1, <2>2 DEF ChunkerInv, WindowInv
<1>11. SyncInv'
  <2>1. Here' = p + r.cp
    <3>1. Here' = totalOffset + (localOffset + r.cp) + 0
      BY <1>1, <1>2, <1>3 DEF Here
    <3>2. totalOffset \in Nat /\ localOffset \in Nat /\ r.cp \in Nat
          /\ p = totalOffset + localOffset
      BY <1>3, <1>4, <1>6
    <3> HIDE DEF p
    <3>3. totalOffset + (localOffset + r.cp) + 0 = p + r.cp
      BY ONLY <3>2
    <3> QED BY ONLY <3>1, <3>3
  <2>2. Synced(Here)'
    BY <1>1, <1>2, <1>6, <2>1 DEF Synced
  <2>3. pc' \in {"cut", "astray"}
    BY <1>1
  <2> QED BY <1>1, <1>2, <1>6, <2>2, <2>3 DEF SyncInv, TarOK
<1>12. ClipInv'
  BY <1>7 DEF ClipInv
<1>13. PushedInv'
  <2>1. \A k \in 1 .. Len(files) : Covers(k)' = Covers(k)
    BY <1>2 DEF Covers
  <2> QED BY <1>2, <2>1 DEF ChunkerInv, PushedInv, Initialised
<1>14. MTarInv'
  <2> DEFINE D == p .. (p + r.cp - 1)
             HB == HeaderBytes(a)
             all == 0 .. (a.len - 1)
             L == Len(rewritten)
  <2>1. /\ rewritten \in Seq(Pieces) /\ L \in Nat
        /\ \A k \in 1 .. L : rewritten[k].from < rewritten[k].to
    BY LenProperties DEF ChunkerInv, MTarInv
  <2>2. WrittenBytes = ToWrite(a, p)
    <3>1. Position = p
      BY <1>2, <1>3 DEF Position
    <3> QED BY <1>2, <1>3, <3>1 DEF ChunkerInv, MTarInv
  <2>3. \A k \in 1 .. L :
          \/ rewritten[k].from \notin H /\ pass = "header"
          \/ (rewritten[k].from \in H <=> pass = "header") /\ rewritten[k].to <= p
    <3>1. Position = p
      BY <1>2, <1>3 DEF Position
    <3>2. MTarInv /\ pass # "chunk" /\ pc = "cut" /\ f <= Len(files)
      BY <1>2, <1>3 DEF ChunkerInv
    <3>3. \A k \in 1 .. L :
            \/ rewritten[k].from \notin H /\ pass = "header"
            \/ (rewritten[k].from \in H <=> pass = "header") /\ rewritten[k].to <= Position
      BY ONLY <3>2, Zenon DEF MTarInv
    <3> QED BY ONLY <3>1, <3>3
  <2>4. \A j, k \in 1 .. L :
          j < k => \/ rewritten[k].from \in H /\ rewritten[j].from \notin H
                   \/ /\ rewritten[j].from \in H <=> rewritten[k].from \in H
                      /\ rewritten[j].to <= rewritten[k].from
    <3>1. MTarInv /\ pass # "chunk" /\ pc = "cut" /\ f <= Len(files)
      BY <1>2, <1>3 DEF ChunkerInv
    <3> QED BY ONLY <3>1, Zenon DEF MTarInv
  <2>5. (tar.type = "FILE_HEADER" => D \subseteq HB)
        /\ (tar.type # "FILE_HEADER" => \A x \in D : x \notin HB)
    <3> HIDE DEF a, p
    <3>1. CASE tar.type = "FILE_HEADER"
      BY <1>3, <1>5, <1>6, <3>1, BytesAhead
    <3>2. CASE tar.type # "FILE_HEADER" /\ DataAhead(a, p, Left(tar))
      BY <1>3, <1>5, <1>6, <1>8, <3>2, BytesAhead
    <3>3. CASE tar.type # "FILE_HEADER" /\ Misguided(a, p, tar)
      <4>1. r.cp = 0 /\ p \in Nat
        BY <1>3, <1>6, <1>8, <3>3 DEF Misguided
      <4>2. D = {}
        BY ONLY <4>1
      <4> QED BY <3>3, <4>2
    <3> QED BY <1>5, <3>1, <3>2, <3>3 DEF Guided
  <2>6. HB \subseteq all /\ D \subseteq all /\ all \subseteq Nat
    <3> HIDE DEF a, p
    <3>1. p \in Nat /\ r.cp \in Nat /\ a.len \in Nat /\ p + r.cp <= a.len
      BY <1>3, <1>6
    <3>2. D \subseteq all /\ all \subseteq Nat
      BY ONLY <3>1
    <3> QED BY <1>5, <3>2, HeaderBytesIn
  <2>7. ToWrite(a, p + r.cp) = IF writes THEN ToWrite(a, p) \union D ELSE ToWrite(a, p)
    <3> HIDE DEF D, HB, all, a, p
    <3>1. CASE tar.type = "FILE_HEADER"
      <4>1. /\ HB \subseteq Nat /\ D \subseteq HB
            /\ all \ HB \subseteq Nat /\ D \intersect (all \ HB) = {}
        BY <2>5, <2>6, <3>1
      <4>2. Below(HB, p + r.cp) = Below(HB, p) \union D
        <5>1. p \in Nat /\ r.cp \in Nat
          BY <1>3, <1>6
        <5>2. \A x : x \in Below(HB, p + r.cp) <=> x \in Below(HB, p) \/ x \in D
          BY ONLY <4>1, <5>1, BelowGrows DEF D
        <5> QED BY ONLY <5>2
      <4>3. Below(all \ HB, p + r.cp) = Below(all \ HB, p)
        BY <1>3, <1>6, <4>1, BelowStays DEF D
      <4> QED BY <1>4, <3>1, <4>2, <4>3 DEF ToWrite, all, HB
    <3>2. CASE tar.type # "FILE_HEADER"
      <4>1. /\ HB \subseteq Nat /\ D \intersect HB = {}
            /\ all \ HB \subseteq Nat /\ D \subseteq all \ HB
        BY <2>5, <2>6, <3>2
      <4>2. Below(HB, p + r.cp) = Below(HB, p)
        BY <1>3, <1>6, <4>1, BelowStays DEF D
      <4>3. Below(all \ HB, p + r.cp) = Below(all \ HB, p) \union D
        <5>1. p \in Nat /\ r.cp \in Nat
          BY <1>3, <1>6
        <5>2. \A x : x \in Below(all \ HB, p + r.cp) <=> x \in Below(all \ HB, p) \/ x \in D
          BY ONLY <4>1, <5>1, BelowGrows DEF D
        <5> QED BY ONLY <5>2
      <4> QED BY <1>4, <3>2, <4>2, <4>3 DEF ToWrite, all, HB
    <3> QED BY <3>1, <3>2
  <2>8. pc' = "cut" => Position' = p + r.cp
    <3>1. pc' = "cut" => Position' = totalOffset + (localOffset + r.cp)
      BY <1>1, <1>2 DEF Position
    <3>2. totalOffset \in Nat /\ localOffset \in Nat /\ r.cp \in Nat
          /\ p = totalOffset + localOffset
      BY <1>3, <1>4, <1>6
    <3> HIDE DEF p
    <3>3. totalOffset + (localOffset + r.cp) = p + r.cp
      BY ONLY <3>2
    <3> QED BY ONLY <3>1, <3>3
  <2>9. CASE r.cp > 0 /\ writes
    <3> DEFINE e == piece(r.cp)
               s == Append(rewritten, e)
    <3>1. rewritten' = s
      BY <1>1, <2>9
    <3>2. e \in Pieces /\ e.from = p /\ e.to = p + r.cp /\ e.from < e.to
      BY <1>3, <1>6, <1>8, <2>9
    <3> HIDE DEF e
    <3>3. /\ s \in Seq(Pieces) /\ Len(s) = L + 1 /\ s[L + 1] = e
          /\ \A k \in 1 .. L : s[k] = rewritten[k]
      BY <2>1, <3>2, AppendProperties
    <3>4. WrittenBytes' = WrittenBytes \union D
      <4>1. BytesOf(e) = D
        <5>1. BytesOf(e) = e.from .. (e.to - 1)
          BY DEF BytesOf
        <5> HIDE DEF p
        <5>2. e.to - 1 = p + r.cp - 1
          BY <1>3, <1>6, <3>2
        <5> QED BY <3>2, <5>1, <5>2
      <4>2. \A x : x \in PieceBytes(s) <=> x \in PieceBytes(rewritten) \/ x \in BytesOf(e)
        <5> HIDE DEF Pieces, L
        <5>1. rewritten \in Seq(Pieces)
          BY <2>1
        <5> QED BY ONLY <5>1, AppendBytes, Zenon
      <4> HIDE DEF s, D
      <4> QED BY ONLY <3>1, <4>1, <4>2 DEF WrittenBytes
    <3> HIDE DEF s, L
    <3>5. p \in H <=> pass = "header"
      <4>1. p \in H => p \in HB
        BY <1>3, HeaderFirst
      <4>2. p \in D
        BY <1>3, <1>6, <2>9
      <4> QED BY <1>6, <2>5, <2>9, <4>1, <4>2
    <3>6. \A k \in 1 .. (L + 1) : k \in 1 .. L \/ k = L + 1
      BY <2>1
    <3>7. \A k \in 1 .. L + 1 : s[k].from < s[k].to
      BY <2>1, <3>2, <3>3, <3>6
    <3>8. \A k \in 1 .. L + 1 :
            \/ s[k].from \notin H /\ pass = "header"
            \/ (s[k].from \in H <=> pass = "header") /\ s[k].to <= p + r.cp
      <4> SUFFICES ASSUME NEW k \in 1 .. (L + 1)
                   PROVE  \/ s[k].from \notin H /\ pass = "header"
                          \/ (s[k].from \in H <=> pass = "header") /\ s[k].to <= p + r.cp
        OBVIOUS
      <4>1. CASE k = L + 1
        BY <1>3, <1>6, <3>2, <3>3, <3>5, <4>1
      <4>2. CASE k \in 1 .. L
        <5>1. s[k] = rewritten[k] /\ rewritten[k] \in Pieces
          BY <2>1, <3>3, <4>2, ElementOfSeq
        <5>2. rewritten[k].to <= p => rewritten[k].to <= p + r.cp
          <6> HIDE DEF p
          <6>1. p \in Nat /\ r.cp \in Nat /\ rewritten[k].to \in Nat
            BY <1>3, <1>6, <5>1
          <6> QED BY ONLY <6>1
        <5> QED BY <2>3, <4>2, <5>1, <5>2
      <4> QED BY <3>6, <4>1, <4>2
    <3>9. \A j, k \in 1 .. (L + 1) :
            j < k => \/ s[k].from \in H /\ s[j].from \notin H
                     \/ /\ s[j].from \in H <=> s[k].from \in H
                        /\ s[j].to <= s[k].from
      <4> SUFFICES ASSUME NEW j \in 1 .. (L + 1), NEW k \in 1 .. (L + 1), j < k
                   PROVE  \/ s[k].from \in H /\ s[j].from \notin H
                          \/ /\ s[j].from \in H <=> s[k].from \in H
                             /\ s[j].to <= s[k].from
        OBVIOUS
      <4>1. j \in 1 .. L /\ s[j] = rewritten[j]
        <5>1. j \in 1 .. L
          BY <2>1
        <5> QED BY <3>3, <5>1
      <4>2. CASE k = L + 1
        <5>1. s[k].from = p
          BY <3>2, <3>3, <4>2
        <5> QED BY <1>4, <2>3, <3>5, <4>1, <5>1
      <4>3. CASE k \in 1 .. L
        BY <2>4, <3>3, <4>1, <4>3
      <4> QED BY <3>6, <4>2, <4>3
    <3>10. CASE pc' = "astray"
      BY <3>1, <3>3, <3>7, <3>10 DEF MTarInv
    <3>11. CASE pc' = "cut"
      <4>1. Position' = p + r.cp
        BY <2>8, <3>11
      <4>2. ToWrite(files[f], Position)' = ToWrite(a, p + r.cp)
        BY <1>2, <4>1 DEF ToWrite
      <4>3. WrittenBytes' = ToWrite(files[f], Position)'
        BY <2>2, <2>7, <2>9, <3>4, <4>2
      <4> QED BY <1>2, <3>1, <3>3, <3>7, <3>8, <3>9, <4>1, <4>3 DEF MTarInv
    <3> QED BY <1>1, <3>10, <3>11
  <2>10. CASE ~(r.cp > 0 /\ writes)
    <3>1. rewritten' = rewritten
      BY <1>1, <2>10
    <3>2. ToWrite(a, p + r.cp) = ToWrite(a, p)
      <4>1. CASE ~writes
        BY ONLY <2>7, <4>1
      <4>2. CASE r.cp = 0
        <5> HIDE DEF p, a
        <5>1. p + r.cp = p
          BY <1>3, <4>2
        <5> QED BY ONLY <5>1
      <4> QED BY <1>6, <2>10, <4>1, <4>2
    <3>3. CASE pc' = "astray"
      BY <2>1, <3>1, <3>3 DEF MTarInv
    <3>4. CASE pc' = "cut"
      <4>1. Position' = p + r.cp
        BY <2>8, <3>4
      <4>2. ToWrite(files[f], Position)' = ToWrite(a, p + r.cp)
        BY <1>2, <4>1 DEF ToWrite
      <4>3. WrittenBytes' = ToWrite(files[f], Position)'
        BY <2>2, <3>1, <3>2, <4>2 DEF WrittenBytes
      <4>4. \A k \in 1 .. L :
              \/ rewritten[k].from \notin H /\ pass = "header"
              \/ (rewritten[k].from \in H <=> pass = "header") /\ rewritten[k].to <= p + r.cp
        <5> SUFFICES ASSUME NEW k \in 1 .. L, rewritten[k].to <= p
                     PROVE  rewritten[k].to <= p + r.cp
          BY <2>3
        <5>1. rewritten[k] \in Pieces
          BY <2>1, ElementOfSeq
        <5>2. p \in Nat /\ r.cp \in Nat /\ rewritten[k].to \in Nat /\ rewritten[k].to <= p
          BY <1>3, <1>6, <5>1
        <5> HIDE DEF p
        <5> QED BY ONLY <5>2
      <4> QED BY <1>2, <2>1, <2>4, <3>1, <4>1, <4>3, <4>4 DEF MTarInv
    <3> QED BY <1>1, <3>3, <3>4
  <2> QED BY <2>9, <2>10
<1> QED BY <1>9, <1>10, <1>11, <1>12, <1>13, <1>14 DEF ChunkerInv

LEMMA CalNormalSizeFacts == CalNormalSize \in Nat /\ CalNormalSize <= MaxChunk
<1> DEFINE half == (MinChunk + 1) \div 2
<1>1. half \in Nat
  BY SizeFacts
<1> HIDE DEF half
<1> DEFINE off == Least(AvgChunk, MinChunk + half)
<1>2. off \in Nat /\ off <= AvgChunk
  BY <1>1, SizeFacts DEF Least
<1> HIDE DEF off
<1>3. AvgChunk - off \in Nat
  BY <1>2, SizeFacts
<1>4. Least(MaxChunk, AvgChunk - off) \in Nat /\ Least(MaxChunk, AvgChunk - off) <= MaxChunk
  BY <1>3, SizeFacts DEF Least
<1> QED BY <1>4 DEF CalNormalSize, off, half

LEMMA InitHolds == Init => ChunkerInv
<1> SUFFICES ASSUME Init PROVE ChunkerInv
  OBVIOUS
<1>1. PICK u \in Uses : files = u.files /\ chunkType = u.type
  BY DEF Init
<1>2. /\ chunkType \in Types
      /\ files \in Seq({files[n] : n \in DOMAIN files})
      /\ \A n \in 1 .. Len(files) : files[n].len \in Nat
      /\ Parsing => \A n \in 1 .. Len(files) : WellFormed(files[n])
  BY <1>1, FilesAssumption DEF Types, Parsing
<1>3. Len(files) \in Nat /\ DOMAIN files = 1 .. Len(files)
  BY <1>2, LenProperties
<1>4. /\ normalSize \in Nat /\ (chunkType # "MTAR" => normalSize <= MaxChunk)
  BY CalNormalSizeFacts, ChunkerAssumption DEF Init, ChunkerInit
<1>5. tar \in Tars /\ tar.type = "FILE_HEADER" /\ Left(tar) = 0
  BY DEF Init, ChunkerInit, Tars, Left
<1> USE DEF Init
<1>6. TypeInv
  <2>1. \E S : files \in Seq(S)
    BY <1>2
  <2>2. /\ pass = IF chunkType = "MTAR" THEN "data" ELSE "chunk"
        /\ f = 1 /\ pc = "load" /\ totalOffset = 0 /\ len = 0 /\ end = FALSE
        /\ localOffset = 0 /\ cpSum = 0 /\ clipped = FALSE
    OBVIOUS
  <2>3. /\ pass \in {"chunk", "data", "header"} /\ (pass = "chunk" <=> chunkType # "MTAR")
        /\ chunkType \in {"TAR", "TAR_MultiHeader"} => normalSize <= MaxChunk
    BY ONLY <1>4, <2>2
  <2>4. /\ f \in Nat \ {0} /\ totalOffset \in Nat /\ len \in Nat /\ localOffset \in Nat
        /\ cpSum \in Nat
    BY ONLY <2>2
  <2>a. end \in BOOLEAN /\ clipped \in BOOLEAN
    BY ONLY <2>2, Zenon
  <2>5. Parsing => \A n \in 1 .. Len(files) :
                     chunkType # "MTAR" \/ n >= f => WellFormed(files[n])
    BY ONLY <1>2
  <2>6. pc = "load"
    BY ONLY <2>2
  <2> QED BY ONLY <1>2, <1>4, <1>5, <2>1, <2>3, <2>4, <2>a, <2>5, <2>6 DEF TypeInv
<1>7. WindowInv
  BY DEF WindowInv
<1>8. SyncInv
  BY <1>5 DEF SyncInv
<1>9. ClipInv
  BY DEF ClipInv
<1>10. PushedInv
  <2>1. \A n \in 1 .. Len(files) : Covers(n) = 0
    BY <1>3 DEF Covers
  <2>2. /\ DOMAIN pushed = 1 .. Len(files)
        /\ \A n \in 1 .. Len(files) : pushed[n] = [upto |-> 0, gapless |-> TRUE, largest |-> 0]
    BY <1>3
  <2> QED BY <2>1, <2>2, SizeFacts DEF PushedInv
<1>11. MTarInv
  <2>1. rewritten \in Seq([from : Nat, to : Nat, at : Nat]) /\ Len(rewritten) = 0
        /\ DOMAIN rewritten = {}
    OBVIOUS
  <2>2. CASE pass = "chunk"
    BY <2>1, <2>2 DEF MTarInv
  <2>3. CASE pass = "data"
    <3>1. WrittenBytes = {}
      BY <2>1 DEF WrittenBytes, PieceBytes
    <3>2. Below((0 .. (files[f].len - 1)) \ HeaderBytes(files[f]), 0) = {}
      BY DEF Below
    <3>3. ToWrite(files[f], Position) = {}
      BY <2>3, <3>2 DEF ToWrite, Position
    <3> QED BY <2>1, <3>1, <3>3 DEF MTarInv
  <2> QED BY <2>2, <2>3
<1> QED BY <1>6, <1>7, <1>8, <1>9, <1>10, <1>11 DEF ChunkerInv

LEMMA NextKeeps == ChunkerInv /\ [Next]_vars => ChunkerInv'
<1> SUFFICES ASSUME ChunkerInv, [Next]_vars PROVE ChunkerInv'
  OBVIOUS
<1>1. CASE Load
  BY <1>1, LoadKeeps
<1>2. CASE Read
  BY <1>2, ReadKeeps
<1>3. CASE CutPlain
  BY <1>3, CutPlainKeeps
<1>4. CASE CutTar
  BY <1>4, CutTarKeeps
<1>5. CASE EndWindow
  BY <1>5, EndWindowKeeps
<1>6. CASE Done
  BY <1>6, DoneKeeps
<1>7. CASE StartSegment
  BY <1>7, StartSegmentKeeps
<1>8. CASE SegmentHeader
  BY <1>8, SegmentHeaderKeeps
<1>9. CASE SegmentData
  BY <1>9, SegmentDataKeeps
<1>10. CASE EndSegment
  BY <1>10, EndSegmentKeeps
<1>11. CASE BigData
  BY <1>11, BigDataKeeps
<1>12. CASE EndBig
  BY <1>12, EndBigKeeps
<1>13. CASE GoAstray \/ restoreHeaderFile
  BY <1>13, AsideKeeps DEF Aside, restoreHeaderFile
<1>14. CASE CutMTar
  BY <1>14, CutMTarKeeps
<1>15. CASE SecondPass
  BY <1>15, SecondPassKeeps
<1>16. CASE EndMTar
  BY <1>16, EndMTarKeeps
<1>17. CASE UNCHANGED vars
  <2> USE <1>17 DEF vars, input, window, parser, recipes, ChunkerInv
  <2>1. TypeInv' /\ WindowInv' /\ ClipInv'
    BY DEF TypeInv, Parsing, WindowInv, ClipInv, Initialised
  <2>2. SyncInv'
    BY DEF SyncInv, Parsing, Synced, Here
  <2>3. PushedInv'
    BY DEF PushedInv, Covers, Initialised
  <2>4. MTarInv'
    BY DEF MTarInv, WrittenBytes, ToWrite, Position
  <2> QED BY <2>1, <2>2, <2>3, <2>4
<1> QED BY <1>1, <1>2, <1>3, <1>4, <1>5, <1>6, <1>7, <1>8, <1>9, <1>10, <1>11, <1>12, <1>13,
           <1>14, <1>15, <1>16, <1>17 DEF Next, Chunking, CutPointTarHeader, MTar, Stopped

\* ChunkerInv holds of Chunking, MTar and restoreHeaderFile together.
THEOREM ChunkerInvHolds == Spec => []ChunkerInv
BY InitHolds, NextKeeps, PTL DEF Spec

-----------------------------------------------------------------------------
(* The properties *)

\* Every chunk a chunker other than Gear pushes fits into the container buffer
\* of dataWrite, a piece of a big tar member included.
THEOREM FitsContainerHolds == Spec => []FitsContainer
<1>1. ChunkerInv => FitsContainer
  <2> SUFFICES ASSUME ChunkerInv PROVE FitsContainer
    OBVIOUS
  <2>1. DOMAIN files = 1 .. Len(files)
    BY FilesDomain DEF ChunkerInv
  <2> QED BY <2>1 DEF ChunkerInv, PushedInv, FitsContainer
<1> QED BY <1>1, ChunkerInvHolds, PTL

\* No chunk of a fixed size, of FastCDC or of a tar archive ends where the
\* window of Chunking ends, unless the file ends there.
THEOREM WindowInvisibleHolds == Spec => []WindowInvisible
<1>1. ChunkerInv => WindowInvisible
  BY DEF ChunkerInv, TypeInv, Types, ClipInv, WindowInvisible
<1> QED BY <1>1, ChunkerInvHolds, PTL

\* CutPointTarFast and CutPointTarHeader find a header wherever they expect one,
\* except right behind the header of a member with data whose typeflag they
\* take for that of a member without.
THEOREM AstrayOnlyIfMisledHolds == Spec => []AstrayOnlyIfMisled
<1>1. ASSUME ChunkerInv, ~clipped, ParserDue, Lost PROVE Misguided(files[f], Here, tar)
  <2>1. tar.type = "FILE_HEADER" /\ Here \notin DOMAIN files[f].header
    BY <1>1 DEF Lost
  <2>2. CASE (chunkType = "TAR" \/ pass # "chunk") /\ pc = "cut" /\ MoreToCut
    <3>1. Parsing /\ f \in 1 .. Len(files) /\ Here \in Nat /\ Here < files[f].len
      BY <1>1, <2>2, CutFacts DEF ChunkerInv, TypeInv, Parsing
    <3>2. WellFormed(files[f]) /\ Guided(files[f], Here, tar)
      BY <1>1, <2>2, <3>1, FilesFacts DEF ChunkerInv, SyncInv, Synced
    <3> QED BY <2>1, <3>1, <3>2, HeaderHere DEF Guided
  <2>3. CASE pc = "segment" /\ SegmentOpen
    <3>1. /\ Parsing /\ WellFormed(files[f]) /\ Here \in Nat /\ files[f].len \in Nat
          /\ totalOffset \in Nat /\ localOffset \in Nat /\ cpSum \in Nat /\ len \in Nat
      BY <1>1, <2>3, SegmentFacts
    <3>2. localOffset + cpSum < len /\ totalOffset + len <= files[f].len
      BY <1>1, <2>3 DEF ChunkerInv, WindowInv
    <3>3. Here < files[f].len
      BY <3>1, <3>2 DEF Here
    <3>4. Guided(files[f], Here, tar)
      BY <1>1, <2>3, <3>1 DEF ChunkerInv, SyncInv, Synced
    <3> QED BY <2>1, <3>1, <3>3, <3>4, HeaderHere DEF Guided
  <2> QED BY <1>1, <2>2, <2>3 DEF ParserDue
<1>2. ChunkerInv => AstrayOnlyIfMisled
  BY <1>1 DEF AstrayOnlyIfMisled, Misguided
<1> QED BY <1>2, ChunkerInvHolds, PTL

\* The chunks pushed tile every file, and what MTar writes is the archive with
\* its headers behind its data.
THEOREM PartitionHolds == Spec => []Partition
<1>1. ASSUME ChunkerInv, chunkType # "TAR_MultiHeader", NEW n \in DOMAIN files
      PROVE  /\ pushed[n].gapless
             /\ n < f /\ pass = "chunk" => pushed[n].upto = files[n].len
             /\ n = f /\ pc = "cut" /\ pass = "chunk" => pushed[n].upto = Here
  <2>1. n \in 1 .. Len(files) /\ Len(files) \in Nat /\ f \in Nat
    BY <1>1, FilesDomain, FilesFacts DEF ChunkerInv, TypeInv
  <2>3. pushed[n].gapless /\ (pass = "chunk" => pushed[n].upto = Covers(n))
    BY <1>1, <2>1 DEF ChunkerInv, PushedInv
  <2>4. n < f /\ pass = "chunk" => Covers(n) = files[n].len
    BY <2>1 DEF Covers
  <2>5. n = f /\ pc = "cut" /\ pass = "chunk" => Covers(n) = Here
    BY <1>1, <2>1 DEF Covers, Here, ChunkerInv, TypeInv, WindowInv
  <2> QED BY <2>3, <2>4, <2>5
<1>2. ASSUME ChunkerInv, pc = "done", pass = "header" PROVE MTarComplete
  <2> DEFINE a == files[f]
             H == DOMAIN a.header
             all == 0 .. (a.len - 1)
  <2>1. f <= Len(files) /\ WellFormed(a)
    BY <1>2, FilesFacts DEF ChunkerInv, TypeInv, Parsing
  <2>2. DOMAIN rewritten = 1 .. Len(rewritten)
    BY <1>2, LenProperties DEF ChunkerInv, MTarInv
  <2>3. WrittenBytes = all
    <3>1. WrittenBytes = ToWrite(a, Position) /\ Position = a.len
      BY <1>2, <2>1 DEF ChunkerInv, MTarInv, Position
    <3>2. HeaderBytes(a) \subseteq all
      BY <2>1, HeaderBytesIn
    <3>3. Below(HeaderBytes(a), a.len) = HeaderBytes(a)
      <4>1. \A x \in all : x < a.len
        BY <2>1 DEF WellFormed
      <4> HIDE DEF all
      <4> QED BY <3>2, <4>1 DEF Below
    <3>4. ToWrite(a, a.len) = (all \ HeaderBytes(a)) \union HeaderBytes(a)
      BY <1>2, <3>3 DEF ToWrite
    <3> HIDE DEF all
    <3> QED BY <3>1, <3>2, <3>4
  <2>4. \A j, k \in 1 .. Len(rewritten) :
          j < k => \/ rewritten[k].from \in H /\ rewritten[j].from \notin H
                   \/ /\ rewritten[j].from \in H <=> rewritten[k].from \in H
                      /\ rewritten[j].to <= rewritten[k].from
    <3>1. MTarInv /\ pass = "header" /\ pc = "done" /\ f <= Len(files)
      BY <1>2, <2>1 DEF ChunkerInv
    <3> QED BY ONLY <3>1 DEF MTarInv
  <2> QED BY <2>2, <2>3, <2>4 DEF MTarComplete, WrittenBytes, PieceBytes
<1>3. ChunkerInv => Partition
  BY <1>1, <1>2 DEF Partition
<1> QED BY <1>3, ChunkerInvHolds, PTL

-----------------------------------------------------------------------------
(* Separating headers and data, and putting them together again *)

Pieces == [from : Nat, to : Nat]

IsBig(h) == h.kind = "REGTYPE" /\ h.size > ContainerMax

\* Where the member of the header at o ends.
After(a, o) == o + BlockSize + DataSize(a.header[o])

\* At o there is a header that says what follows it.
Guides(a, o) == o \in DOMAIN a.header /\ ~Misleads(a.header[o])

\* s are headers of the archive one after the other, the first at x.
Chained(a, s, x) ==
  /\ s \in Seq(Nat) /\ Len(s) >= 1 /\ s[1] = x
  /\ \A k \in 1 .. Len(s) : Guides(a, s[k])
  /\ \A k \in 1 .. (Len(s) - 1) : s[k + 1] = After(a, s[k])

\* Where the header behind those of s is due.
EndOf(a, s) == After(a, s[Len(s)])

\* Where the first header of header chunk i is due.
StartOf(a, hs, i) == IF i = 1 THEN 0 ELSE EndOf(a, hs[i - 1])

\* The header chunks hs have the headers from the first on, none left out.
Walked(a, hs) ==
  /\ hs \in Seq(Seq(Nat))
  /\ \A i \in 1 .. Len(hs) : Chained(a, hs[i], StartOf(a, hs, i))

\* Piece d is data of the member of o: all of it unless the member is big.
Owns(a, o, d) ==
  /\ o + BlockSize <= d.from /\ d.from < d.to /\ d.to <= After(a, o)
  /\ ~IsBig(a.header[o]) => d.from = o + BlockSize /\ d.to = After(a, o)

\* The pieces of ds are the data below p, in order.
DataBelow(a, ds, p) ==
  /\ ds \in Seq(Pieces)
  /\ \A j \in 1 .. Len(ds) : ds[j].to <= p /\ \E o \in DOMAIN a.header : Owns(a, o, ds[j])
  /\ \A j, k \in 1 .. Len(ds) : j < k => ds[j].to <= ds[k].from
  /\ \A o \in DOMAIN a.header : \A x \in (o + BlockSize) .. (After(a, o) - 1) :
       x < p => \E j \in 1 .. Len(ds) : ds[j].from <= x /\ x < ds[j].to

\* All of the archive is in its header chunks and data chunks.
Complete(a, hs, ds) ==
  /\ Walked(a, hs) /\ StartOf(a, hs, Len(hs) + 1) = a.len
  /\ DataBelow(a, ds, a.len)

\* The parser, in state t, is at p in the data of the member of o.
InMember(a, o, t, p) ==
  /\ o + BlockSize <= p /\ p + Left(t) = After(a, o)
  /\ t.type = "FILE_CHUNK" => p = o + BlockSize /\ ~IsBig(a.header[o])
  /\ t.type = "BIG_CHUNK" => IsBig(a.header[o]) /\ Left(t) > 0

\* Where the header behind those collected is due.
Due(a, hs, buffer) == IF buffer = <<>> THEN StartOf(a, hs, Len(hs) + 1) ELSE EndOf(a, buffer)

\* Up to p the archive is in its header and data chunks and in buffer.
InHand(a, hs, ds, buffer, t, p) ==
  /\ Walked(a, hs) /\ DataBelow(a, ds, p)
  /\ buffer \in Seq(Nat)
  /\ buffer # <<>> => Chained(a, buffer, StartOf(a, hs, Len(hs) + 1))
  /\ Due(a, hs, buffer) = p + Left(t)
  /\ t.type # "FILE_HEADER" => \E o \in DOMAIN a.header : InMember(a, o, t, p)

\* How far the file in hand is cut.
Reached == CASE pc = "load" -> 0 [] pc \in {"read", "done"} -> totalOffset [] OTHER -> Here

BackupInv ==
  /\ \A n \in 1 .. Len(files) : n < f => Complete(files[n], headers[n], data[n])
  /\ \A n \in 1 .. Len(files) : n > f => headers[n] = <<>> /\ data[n] = <<>>
  /\ f <= Len(files) => InHand(files[f], headers[f], data[f], headerBuffer, tar, Reached)
  /\ pc # "segment" => headerBuffer = <<>>
  /\ pc = "segment" /\ headerBuffer = <<>> => tar.type = "FILE_HEADER"
  /\ MultiHeader = <<>> /\ MultiHeaderOffset = 0 /\ HeaderP = 0 /\ DataP = 0
  /\ \A n \in 1 .. Len(files) : out[n] = <<>>

\* Where the restored file ends so far.
Built(s) == IF s = <<>> THEN 0 ELSE s[Len(s)].to

\* The header to be read next, from a new header chunk or from buffer, is at x.
Ahead(a, hs, p, buffer, offset, x) ==
  \/ offset = Len(buffer) * BlockSize /\ x = StartOf(a, hs, p + 1)
  \/ /\ p \in 1 .. Len(hs) /\ buffer = hs[p]
     /\ \E k \in 1 .. (Len(buffer) - 1) : offset = k * BlockSize /\ x = buffer[k + 1]

\* The first q pieces are below x, the others not.
Split(ds, q, x) ==
  /\ q \in 0 .. Len(ds)
  /\ \A j \in 1 .. Len(ds) : IF j <= q THEN ds[j].to <= x ELSE x <= ds[j].from

\* The archive is restored to the end of s, which lies big bytes before the end
\* of a big member, unless big is 0.
RestoredTo(a, hs, ds, s, p, q, buffer, offset, big) ==
  /\ s \in Seq(Pieces) /\ Built(s) \in Nat /\ Tiles(s, Built(s))
  /\ p \in 0 .. Len(hs) /\ big \in Nat
  /\ Split(ds, q, Built(s))
  /\ Ahead(a, hs, p, buffer, offset, Built(s) + big)
  /\ big # 0 => \E o \in DOMAIN a.header :
                  /\ o + BlockSize <= Built(s) /\ Built(s) + big = After(a, o)
                  /\ IsBig(a.header[o])

\* What is left of the big member being restored.
Pending == IF pc = "restoreBig" THEN BigLeft ELSE 0

RestoreInv ==
  /\ \A n \in 1 .. Len(files) : Complete(files[n], headers[n], data[n])
  /\ \A n \in 1 .. Len(files) : n < f => Tiles(out[n], files[n].len)
  /\ \A n \in 1 .. Len(files) : n > f => out[n] = <<>>
  /\ MultiHeader \in Seq(Nat)
  /\ f <= Len(files) => RestoredTo(files[f], headers[f], data[f], out[f], HeaderP, DataP,
                                   MultiHeader, MultiHeaderOffset, Pending)
  /\ pc = "restoreBig" => f <= Len(files) /\ BigLeft # 0
  /\ pc = "finished" => f > Len(files)

\* The parser is about to go astray.
Misled == /\ pc \in {"read", "cut", "segment"} /\ f <= Len(files)
          /\ Misguided(files[f], Reached, tar)

\* While archives are cut with their headers apart every byte is in hand, and
\* while they are restored what is written tiles them.
RebuildInv ==
  chunkType = "TAR_MultiHeader" /\ ~clipped /\ pc # "astray" /\ ~Misled =>
    /\ DOMAIN headers = 1 .. Len(files) /\ DOMAIN data = 1 .. Len(files)
    /\ DOMAIN out = 1 .. Len(files)
    /\ pc \in {"load", "read", "cut", "segment", "big", "done"} => BackupInv
    /\ pc \in {"restore", "restoreBig", "finished"} => RestoreInv

-----------------------------------------------------------------------------
(* Multiples of a block *)

LEMMA MulCancel ==
  ASSUME NEW k \in Nat, NEW l \in Nat, NEW B \in Nat \ {0}, k * B = l * B
  PROVE  k = l
<1>1. ASSUME NEW i \in Nat, NEW j \in Nat, i < j PROVE i * B # j * B
  <2>1. j - i - 1 \in Nat /\ j = i + 1 + (j - i - 1)
    BY <1>1
  <2>2. PICK d \in Nat : j = i + 1 + d
    BY <2>1
  <2>3. j * B = i * B + B + d * B /\ d * B \in Nat /\ i * B \in Nat
    BY <2>2
  <2> QED BY ONLY <2>3, B \in Nat \ {0}
<1>2. ~(k < l)
  BY <1>1
<1>3. ~(l < k)
  BY <1>1
<1> QED BY <1>2, <1>3

LEMMA MulDiv ==
  ASSUME NEW k \in Nat, NEW B \in Nat \ {0}
  PROVE  (k * B) \div B = k
<1>1. k * B \in Nat
  OBVIOUS
<1>2. PICK x \in Nat : x = k * B
  BY <1>1
<1>3. x \div B \in Nat /\ (x \div B) * B <= x /\ x < ((x \div B) + 1) * B
  BY DivFacts
<1>4. PICK d \in Nat : d = x \div B
  BY <1>3
<1>5. k * B < (d + 1) * B
  BY <1>2, <1>3, <1>4
<1>6. k * B <= d * B
  BY <1>5, LessQuotient
<1>7. d * B <= k * B
  BY <1>2, <1>3, <1>4
<1>8. d * B = k * B
  <2>1. d * B \in Nat
    OBVIOUS
  <2> QED BY ONLY <1>1, <1>6, <1>7, <2>1
<1>9. d = k
  BY <1>8, MulCancel
<1> QED BY <1>2, <1>4, <1>9

-----------------------------------------------------------------------------
(* Members of an archive *)

\* A member ends at a header or at the end, and the next header is not before.
LEMMA MemberFacts ==
  ASSUME NEW a, WellFormed(a), NEW o \in DOMAIN a.header
  PROVE  /\ o \in Nat /\ a.len \in Nat /\ After(a, o) \in Nat /\ DataSize(a.header[o]) \in Nat
         /\ After(a, o) = o + BlockSize + DataSize(a.header[o])
         /\ o + BlockSize <= After(a, o) /\ After(a, o) <= a.len
         /\ After(a, o) \in DOMAIN a.header \union {a.len}
         /\ \A q \in DOMAIN a.header : o < q => After(a, o) <= q
<1>1. /\ DataSize(a.header[o]) \in Nat /\ a.len \in Nat /\ o \in Nat
      /\ o + BlockSize + DataSize(a.header[o]) <= a.len
  BY HeaderFacts
<1>2. /\ o + BlockSize + DataSize(a.header[o]) \in DOMAIN a.header \union {a.len}
      /\ \A q \in DOMAIN a.header : o < q => o + BlockSize + DataSize(a.header[o]) <= q
  BY DEF WellFormed
<1> QED BY <1>1, <1>2, SizeFacts DEF After

\* The size in a header that guides says whether data follows, and whether it
\* is big.
LEMMA ParsedKind ==
  ASSUME NEW t \in Tars, t.type = "FILE_HEADER", NEW a, WellFormed(a),
         NEW o, Guides(a, o)
  PROVE  LET h == a.header[o]
             u == Parsed(t, h)
         IN  /\ u.size = h.size /\ h.size \in Nat
             /\ h.size = 0 <=> DataSize(h) = 0
             /\ u.type = "BIG_CHUNK" <=> IsBig(h)
             /\ IsBig(h) => h.size > 0 /\ u.bigSize = DataSize(h)
             /\ ~IsBig(h) /\ h.size > 0 => u.type = "FILE_CHUNK"
<1> DEFINE h == a.header[o]
           u == Parsed(t, h)
<1>1. /\ h.kind \in {"REGTYPE", "AREGTYPE", "x", "other"} /\ h.size \in Nat
      /\ h.kind \in {"AREGTYPE", "other"} => h.size = 0
  <2>1. o \in DOMAIN a.header /\ ~Misleads(h)
    BY DEF Guides
  <2>2. h.kind \in {"REGTYPE", "AREGTYPE", "x", "other"} /\ h.size \in Nat
    BY <2>1, HeaderFacts DEF TypeFlags
  <2> QED BY <2>1, <2>2 DEF Misleads
<1> HIDE DEF h
<1>2. /\ RoundUp(h.size) \in Nat /\ h.size <= RoundUp(h.size)
      /\ (h.size = 0 => RoundUp(h.size) = 0)
  BY <1>1, RoundUpFacts
<1>3. /\ u.size = h.size
      /\ u.type = IF IsBig(h) THEN "BIG_CHUNK" ELSE IF h.kind = "other" THEN "FILE_HEADER"
                  ELSE "FILE_CHUNK"
      /\ IsBig(h) => u.bigSize = RoundUp(h.size)
  BY <1>1 DEF Parsed, NextSize, NextType, Tars, IsBig
<1> HIDE DEF u
<1>4. h.size = 0 <=> DataSize(h) = 0
  BY <1>1, <1>2 DEF DataSize
<1>5. IsBig(h) => h.size > 0 /\ DataSize(h) = RoundUp(h.size)
  BY <1>1, SizeFacts DEF IsBig, DataSize
<1>6. ~IsBig(h) /\ h.size > 0 => h.kind # "other"
  BY <1>1
<1>7. /\ u.size = h.size /\ h.size \in Nat
      /\ h.size = 0 <=> DataSize(h) = 0
      /\ u.type = "BIG_CHUNK" <=> IsBig(h)
      /\ IsBig(h) => h.size > 0 /\ u.bigSize = DataSize(h)
      /\ ~IsBig(h) /\ h.size > 0 => u.type = "FILE_CHUNK"
  BY ONLY <1>1, <1>3, <1>4, <1>5, <1>6
<1> QED BY <1>7 DEF u, h

\* The next header joins those collected.
LEMMA ChainAppend ==
  ASSUME NEW a, NEW s, NEW x, Chained(a, s, x), NEW p \in Nat, Guides(a, p),
         EndOf(a, s) = p
  PROVE  Chained(a, Append(s, p), x) /\ EndOf(a, Append(s, p)) = After(a, p)
<1>1. /\ s \in Seq(Nat) /\ Len(s) >= 1 /\ s[1] = x /\ Len(s) \in Nat
      /\ \A k \in 1 .. Len(s) : Guides(a, s[k])
      /\ \A k \in 1 .. (Len(s) - 1) : s[k + 1] = After(a, s[k])
      /\ After(a, s[Len(s)]) = p
  BY DEF Chained, EndOf
<1> DEFINE e == Append(s, p)
<1>2. /\ e \in Seq(Nat) /\ Len(e) = Len(s) + 1 /\ e[Len(s) + 1] = p
      /\ \A k \in 1 .. Len(s) : e[k] = s[k]
  BY <1>1
<1> HIDE DEF e
<1>3. \A k \in 1 .. Len(e) : Guides(a, e[k])
  <2>1. \A k \in 1 .. Len(e) : k \in 1 .. Len(s) \/ k = Len(s) + 1
    BY <1>1, <1>2
  <2> QED BY <1>1, <1>2, <2>1
<1>4. ASSUME NEW k \in 1 .. (Len(e) - 1) PROVE e[k + 1] = After(a, e[k])
  <2>1. CASE k = Len(s)
    BY <1>1, <1>2, <2>1
  <2>2. CASE k # Len(s)
    <3>1. k \in 1 .. (Len(s) - 1) /\ k \in 1 .. Len(s) /\ k + 1 \in 1 .. Len(s)
      BY <1>1, <1>2, <2>2
    <3> QED BY <1>1, <1>2, <3>1
  <2> QED BY <2>1, <2>2
<1>5. Len(e) >= 1 /\ e[1] = x
  BY <1>1, <1>2
<1>6. Chained(a, e, x) /\ EndOf(a, e) = After(a, p)
  BY <1>2, <1>3, <1>4, <1>5 DEF Chained, EndOf
<1> QED BY <1>6 DEF e

LEMMA ChainStart ==
  ASSUME NEW a, NEW p \in Nat, Guides(a, p)
  PROVE  Chained(a, Append(<<>>, p), p) /\ EndOf(a, Append(<<>>, p)) = After(a, p)
<1> DEFINE e == Append(<<>>, p)
<1>1. e \in Seq(Nat) /\ Len(e) = 1 /\ e[1] = p
  OBVIOUS
<1> HIDE DEF e
<1>2. Chained(a, e, p) /\ EndOf(a, e) = After(a, p)
  BY <1>1 DEF Chained, EndOf
<1> QED BY <1>2 DEF e

\* A header chunk is pushed.
LEMMA WalkAppend ==
  ASSUME NEW a, NEW hs, Walked(a, hs), NEW b, Chained(a, b, StartOf(a, hs, Len(hs) + 1))
  PROVE  /\ Walked(a, Append(hs, b))
         /\ StartOf(a, Append(hs, b), Len(Append(hs, b)) + 1) = EndOf(a, b)
<1>1. hs \in Seq(Seq(Nat)) /\ b \in Seq(Nat) /\ Len(hs) \in Nat
  BY DEF Walked, Chained
<1> DEFINE e == Append(hs, b)
<1>2. /\ e \in Seq(Seq(Nat)) /\ Len(e) = Len(hs) + 1 /\ e[Len(hs) + 1] = b
      /\ \A i \in 1 .. Len(hs) : e[i] = hs[i]
  BY <1>1
<1> HIDE DEF e
<1>3. \A i \in 1 .. Len(hs) + 1 : StartOf(a, e, i) = StartOf(a, hs, i)
  <2> SUFFICES ASSUME NEW i \in 1 .. Len(hs) + 1 PROVE StartOf(a, e, i) = StartOf(a, hs, i)
    OBVIOUS
  <2>1. CASE i = 1
    BY <2>1 DEF StartOf
  <2>2. CASE i # 1
    <3>1. i - 1 \in 1 .. Len(hs)
      BY <1>1, <2>2
    <3> QED BY <1>2, <2>2, <3>1 DEF StartOf
  <2> QED BY <2>1, <2>2
<1>4. ASSUME NEW i \in 1 .. Len(e) PROVE Chained(a, e[i], StartOf(a, e, i))
  <2>1. CASE i = Len(hs) + 1
    BY <1>1, <1>2, <1>3, <2>1
  <2>2. CASE i # Len(hs) + 1
    <3>1. i \in 1 .. Len(hs) /\ i \in 1 .. Len(hs) + 1
      BY <1>1, <1>2, <2>2
    <3> QED BY <1>2, <1>3, <3>1 DEF Walked
  <2> QED BY <2>1, <2>2
<1>5. StartOf(a, e, Len(e) + 1) = EndOf(a, b)
  BY <1>1, <1>2 DEF StartOf
<1>6. Walked(a, e)
  BY <1>2, <1>4 DEF Walked
<1> QED BY <1>5, <1>6 DEF e

-----------------------------------------------------------------------------
(* Data chunks *)

\* A header block has no data.
LEMMA BelowHeader ==
  ASSUME NEW a, WellFormed(a), NEW ds, NEW p \in Nat, DataBelow(a, ds, p),
         p \in DOMAIN a.header
  PROVE  DataBelow(a, ds, p + BlockSize)
<1>1. /\ ds \in Seq(Pieces) /\ Len(ds) \in Nat
      /\ \A j \in 1 .. Len(ds) : ds[j] \in Pieces
  BY DEF DataBelow
<1>2. ASSUME NEW j \in 1 .. Len(ds) PROVE ds[j].to <= p + BlockSize
  <2>1. ds[j].to \in Nat /\ ds[j].to <= p
    BY <1>1 DEF DataBelow, Pieces
  <2> QED BY <2>1, SizeFacts
<1>3. ASSUME NEW o \in DOMAIN a.header, NEW x \in (o + BlockSize) .. (After(a, o) - 1),
             x < p + BlockSize
      PROVE  x < p
  <2>1. o \in Nat /\ After(a, o) \in Nat /\ (o < p => After(a, o) <= p)
    BY MemberFacts
  <2> QED BY <1>3, <2>1, SizeFacts
<1>4. ASSUME NEW o \in DOMAIN a.header, NEW x \in (o + BlockSize) .. (After(a, o) - 1),
             x < p + BlockSize
      PROVE  \E j \in 1 .. Len(ds) : ds[j].from <= x /\ x < ds[j].to
  BY <1>3, <1>4 DEF DataBelow
<1> QED BY <1>1, <1>2, <1>4 DEF DataBelow

\* The data of a member, or a piece of it, is pushed.
LEMMA BelowPiece ==
  ASSUME NEW a, NEW ds, NEW p \in Nat, NEW c \in Nat, DataBelow(a, ds, p), WellFormed(a),
         NEW o \in DOMAIN a.header, NEW d, d = [from |-> p, to |-> p + c], Owns(a, o, d)
  PROVE  DataBelow(a, Append(ds, d), p + c)
<1>1. /\ ds \in Seq(Pieces) /\ Len(ds) \in Nat
      /\ \A j \in 1 .. Len(ds) : ds[j] \in Pieces
  BY DEF DataBelow
<1>2. d \in Pieces /\ d.from = p /\ d.to = p + c
  BY DEF Pieces
<1> DEFINE e == Append(ds, d)
<1>3. /\ e \in Seq(Pieces) /\ Len(e) = Len(ds) + 1 /\ e[Len(ds) + 1] = d
      /\ \A j \in 1 .. Len(ds) : e[j] = ds[j]
  BY <1>1, <1>2
<1> HIDE DEF e
<1>4. \A j \in 1 .. Len(e) : j \in 1 .. Len(ds) \/ j = Len(ds) + 1
  BY <1>1, <1>3
<1>5. ASSUME NEW j \in 1 .. Len(e)
      PROVE  e[j].to <= p + c /\ \E q \in DOMAIN a.header : Owns(a, q, e[j])
  <2>1. CASE j = Len(ds) + 1
    BY <1>2, <1>3, <2>1
  <2>2. CASE j \in 1 .. Len(ds)
    <3>1. ds[j].to \in Nat /\ ds[j].to <= p /\ \E q \in DOMAIN a.header : Owns(a, q, ds[j])
      BY <1>1, <2>2 DEF DataBelow, Pieces
    <3> QED BY <1>3, <2>2, <3>1
  <2> QED BY <1>4, <2>1, <2>2
<1>6. ASSUME NEW j \in 1 .. Len(e), NEW k \in 1 .. Len(e), j < k PROVE e[j].to <= e[k].from
  <2>1. j \in 1 .. Len(ds)
    BY <1>1, <1>3, <1>6
  <2>2. CASE k = Len(ds) + 1
    BY <1>2, <1>3, <2>1, <2>2 DEF DataBelow
  <2>3. CASE k \in 1 .. Len(ds)
    BY <1>3, <1>6, <2>1, <2>3 DEF DataBelow
  <2> QED BY <1>4, <2>2, <2>3
<1>7. ASSUME NEW q \in DOMAIN a.header, NEW x \in (q + BlockSize) .. (After(a, q) - 1),
             x < p + c
      PROVE  \E j \in 1 .. Len(e) : e[j].from <= x /\ x < e[j].to
  <2>1. CASE x < p
    <3>1. PICK j \in 1 .. Len(ds) : ds[j].from <= x /\ x < ds[j].to
      BY <2>1 DEF DataBelow
    <3>2. j \in 1 .. Len(e) /\ e[j] = ds[j]
      BY <1>1, <1>3
    <3> QED BY <3>1, <3>2
  <2>2. CASE ~(x < p)
    <3>1. q \in Nat /\ After(a, q) \in Nat
      BY MemberFacts
    <3>2. x \in Int
      BY <3>1, SizeFacts
    <3>3. Len(ds) + 1 \in 1 .. Len(e)
      BY <1>1, <1>3
    <3> QED BY <1>2, <1>3, <1>7, <2>2, <3>2, <3>3
  <2> QED BY <2>1, <2>2
<1>8. DataBelow(a, e, p + c)
  BY <1>3, <1>5, <1>6, <1>7 DEF DataBelow
<1> QED BY <1>8 DEF e

LEMMA BelowNone ==
  ASSUME NEW a, WellFormed(a)
  PROVE  DataBelow(a, <<>>, 0)
<1>1. ASSUME NEW o \in DOMAIN a.header, NEW x \in (o + BlockSize) .. (After(a, o) - 1)
      PROVE  ~(x < 0)
  <2>1. o \in Nat /\ After(a, o) \in Nat
    BY MemberFacts
  <2> QED BY <2>1, SizeFacts
<1>2. <<>> \in Seq(Pieces) /\ Len(<<>>) = 0
  OBVIOUS
<1> QED BY <1>1, <1>2 DEF DataBelow

-----------------------------------------------------------------------------
(* Cutting an archive *)

\* With nothing left of the member it was in, the parser may expect a header.
LEMMA HandReset ==
  ASSUME NEW a, NEW hs, NEW ds, NEW b, NEW t, NEW u, NEW p, InHand(a, hs, ds, b, t, p),
         Left(t) = 0, u.type = "FILE_HEADER"
  PROVE  InHand(a, hs, ds, b, u, p)
<1>1. Left(u) = 0
  BY DEF Left
<1> QED BY <1>1 DEF InHand

\* The header at p joins the header buffer.
LEMMA HandHeader ==
  ASSUME NEW a, WellFormed(a), NEW hs, NEW ds, NEW b, NEW t \in Tars, NEW p \in Nat,
         InHand(a, hs, ds, b, t, p), t.type = "FILE_HEADER", Guides(a, p)
  PROVE  /\ InHand(a, hs, ds, Append(b, p), Parsed(t, a.header[p]), p + BlockSize)
         /\ Append(b, p) # <<>>
<1> DEFINE e == Append(b, p)
           u == Parsed(t, a.header[p])
           x == StartOf(a, hs, Len(hs) + 1)
<1>1. /\ Walked(a, hs) /\ DataBelow(a, ds, p) /\ b \in Seq(Nat)
      /\ b # <<>> => Chained(a, b, x)
      /\ Due(a, hs, b) = p + Left(t)
  BY DEF InHand
<1>2. Left(t) = 0
  BY DEF Left
<1>3. Due(a, hs, b) = p
  BY <1>1, <1>2
<1>4. e \in Seq(Nat) /\ e # <<>>
  <2>1. Len(e) = Len(b) + 1 /\ Len(b) \in Nat /\ e \in Seq(Nat)
    BY <1>1
  <2> QED BY <2>1
<1>5. Chained(a, e, x) /\ EndOf(a, e) = After(a, p)
  <2>1. CASE b = <<>>
    <3>1. x = p
      BY <1>3, <2>1 DEF Due
    <3> QED BY <2>1, <3>1, ChainStart
  <2>2. CASE b # <<>>
    <3>1. EndOf(a, b) = p
      BY <1>3, <2>2 DEF Due
    <3> QED BY <1>1, <2>2, <3>1, ChainAppend
  <2> QED BY <2>1, <2>2
<1>6. p \in DOMAIN a.header /\ ~Misleads(a.header[p])
  BY DEF Guides
<1>7. /\ p \in Nat /\ DataSize(a.header[p]) \in Nat
      /\ After(a, p) = p + BlockSize + DataSize(a.header[p])
  BY <1>6, MemberFacts
<1>8. Left(u) = DataSize(a.header[p])
  BY <1>6, ParsedFacts
<1>9. /\ u.type = "BIG_CHUNK" <=> IsBig(a.header[p])
      /\ IsBig(a.header[p]) => a.header[p].size > 0
      /\ a.header[p].size \in Nat /\ (a.header[p].size = 0 <=> DataSize(a.header[p]) = 0)
  BY ParsedKind
<1> HIDE DEF e, u, x
<1>10. p + BlockSize + Left(u) = After(a, p)
  BY <1>7, <1>8
<1>11. InMember(a, p, u, p + BlockSize)
  <2>1. u.type = "BIG_CHUNK" => Left(u) > 0
    BY <1>7, <1>8, <1>9
  <2>2. p + BlockSize <= p + BlockSize
    BY SizeFacts
  <2>3. u.type = "FILE_CHUNK" => ~IsBig(a.header[p])
    BY <1>9
  <2>4. u.type = "BIG_CHUNK" => IsBig(a.header[p])
    BY <1>9
  <2> QED BY ONLY <1>10, <2>1, <2>2, <2>3, <2>4 DEF InMember
<1>12. DataBelow(a, ds, p + BlockSize)
  BY <1>6, <1>1, BelowHeader
<1>13. InHand(a, hs, ds, e, u, p + BlockSize)
  <2>1. Due(a, hs, e) = p + BlockSize + Left(u)
    BY <1>4, <1>5, <1>10 DEF Due
  <2> QED BY <1>6, <1>1, <1>4, <1>5, <1>11, <1>12, <2>1 DEF InHand, x
<1> QED BY <1>4, <1>13 DEF e, u

\* The header chunk is pushed.
LEMMA HandClose ==
  ASSUME NEW a, NEW hs, NEW ds, NEW b, NEW t, NEW p, InHand(a, hs, ds, b, t, p), b # <<>>
  PROVE  InHand(a, Append(hs, b), ds, <<>>, t, p)
<1>1. /\ Walked(a, hs) /\ Chained(a, b, StartOf(a, hs, Len(hs) + 1))
      /\ EndOf(a, b) = p + Left(t)
  BY DEF InHand, Due
<1> DEFINE e == Append(hs, b)
<1>2. Walked(a, e) /\ StartOf(a, e, Len(e) + 1) = EndOf(a, b)
  BY <1>1, WalkAppend
<1> HIDE DEF e
<1>3. Due(a, e, <<>>) = p + Left(t)
  BY <1>1, <1>2 DEF Due
<1>4. InHand(a, e, ds, <<>>, t, p)
  <2>1. <<>> \in Seq(Nat)
    OBVIOUS
  <2> QED BY <1>2, <1>3, <2>1 DEF InHand
<1> QED BY <1>4 DEF e

\* A data chunk of c bytes is pushed.
LEMMA HandPiece ==
  ASSUME NEW a, WellFormed(a), NEW hs, NEW ds, NEW b, NEW t, NEW u, NEW p \in Nat,
         NEW c \in Nat \ {0}, Left(t) \in Nat, InHand(a, hs, ds, b, t, p),
         t.type \in {"FILE_CHUNK", "BIG_CHUNK"}, c <= Left(t), Left(u) = Left(t) - c,
         t.type = "FILE_CHUNK" => c = Left(t), u.type \in {"FILE_HEADER", "BIG_CHUNK"},
         u.type = "BIG_CHUNK" => t.type = "BIG_CHUNK" /\ Left(u) > 0
  PROVE  InHand(a, hs, Append(ds, [from |-> p, to |-> p + c]), b, u, p + c)
<1> DEFINE d == [from |-> p, to |-> p + c]
<1>1. /\ Walked(a, hs) /\ DataBelow(a, ds, p) /\ b \in Seq(Nat)
      /\ b # <<>> => Chained(a, b, StartOf(a, hs, Len(hs) + 1))
      /\ Due(a, hs, b) = p + Left(t)
  BY DEF InHand
<1>2. PICK o \in DOMAIN a.header : InMember(a, o, t, p)
  BY DEF InHand
<1>3. /\ o + BlockSize <= p /\ p + Left(t) = After(a, o)
      /\ t.type = "FILE_CHUNK" => p = o + BlockSize /\ ~IsBig(a.header[o])
      /\ t.type = "BIG_CHUNK" => IsBig(a.header[o]) /\ Left(t) > 0
  BY <1>2 DEF InMember
<1>4. o \in Nat /\ After(a, o) \in Nat
  BY MemberFacts
<1>5. PICK m \in Nat : m = Left(t)
  OBVIOUS
<1>6. p + c <= After(a, o) /\ p < p + c /\ (p + c) + (m - c) = p + m /\ Left(u) = m - c
      /\ o + BlockSize <= p + c
  BY <1>3, <1>4, <1>5, SizeFacts
<1>7. Owns(a, o, d)
  <2>1. ~IsBig(a.header[o]) => p = o + BlockSize /\ p + c = After(a, o)
    BY <1>3, <1>5
  <2>2. d.from = p /\ d.to = p + c
    OBVIOUS
  <2> HIDE DEF d
  <2> QED BY ONLY <1>3, <1>6, <2>1, <2>2 DEF Owns
<1>8. DataBelow(a, Append(ds, d), p + c)
  BY <1>1, <1>7, BelowPiece
<1> HIDE DEF d
<1>9. Due(a, hs, b) = (p + c) + Left(u)
  BY <1>1, <1>5, <1>6
<1>10. u.type # "FILE_HEADER" => InMember(a, o, u, p + c)
  BY <1>3, <1>5, <1>6 DEF InMember
<1>11. InHand(a, hs, Append(ds, d), b, u, p + c)
  BY <1>1, <1>8, <1>9, <1>10 DEF InHand
<1> QED BY <1>11 DEF d

\* A new file.
LEMMA HandNone ==
  ASSUME NEW a, WellFormed(a), NEW t, t.type = "FILE_HEADER"
  PROVE  InHand(a, <<>>, <<>>, <<>>, t, 0)
<1>1. Walked(a, <<>>)
  <2>1. <<>> \in Seq(Seq(Nat)) /\ Len(<<>>) = 0
    OBVIOUS
  <2> QED BY <2>1 DEF Walked
<1>2. Due(a, <<>>, <<>>) = 0 + Left(t)
  BY DEF Due, StartOf, Left
<1>3. <<>> \in Seq(Nat)
  OBVIOUS
<1> QED BY <1>1, <1>2, <1>3, BelowNone DEF InHand

\* The file is cut to its end.
LEMMA HandAll ==
  ASSUME NEW a, WellFormed(a), NEW hs, NEW ds, NEW t, InHand(a, hs, ds, <<>>, t, a.len),
         Left(t) = 0
  PROVE  Complete(a, hs, ds)
<1>1. a.len \in Nat
  BY DEF WellFormed
<1>2. StartOf(a, hs, Len(hs) + 1) = a.len
  BY <1>1 DEF InHand, Due
<1> QED BY <1>2 DEF InHand, Complete

-----------------------------------------------------------------------------
(* Putting it together again *)

\* Between the pieces restored and those that are not there may be a header.
LEMMA SkipHeader ==
  ASSUME NEW a, WellFormed(a), NEW ds, NEW q, DataBelow(a, ds, a.len), NEW x \in Nat,
         Split(ds, q, x), x \in DOMAIN a.header
  PROVE  Split(ds, q, x + BlockSize)
<1>1. /\ ds \in Seq(Pieces) /\ Len(ds) \in Nat /\ q \in 0 .. Len(ds)
      /\ \A j \in 1 .. Len(ds) : ds[j] \in Pieces
  BY DEF DataBelow, Split
<1>2. ASSUME NEW j \in 1 .. Len(ds)
      PROVE  IF j <= q THEN ds[j].to <= x + BlockSize ELSE x + BlockSize <= ds[j].from
  <2>1. ds[j].to \in Nat /\ ds[j].from \in Nat
    BY <1>1 DEF Pieces
  <2>2. CASE j <= q
    <3>1. ds[j].to <= x
      BY <2>2 DEF Split
    <3> QED BY <2>1, <2>2, <3>1, SizeFacts
  <2>3. CASE ~(j <= q)
    <3>1. x <= ds[j].from
      BY <2>3 DEF Split
    <3>2. PICK o \in DOMAIN a.header : Owns(a, o, ds[j])
      BY DEF DataBelow
    <3>3. o + BlockSize <= ds[j].from /\ ds[j].from < ds[j].to /\ ds[j].to <= After(a, o)
      BY <3>2 DEF Owns
    <3>4. o \in Nat /\ After(a, o) \in Nat /\ (o < x => After(a, o) <= x)
      BY MemberFacts
    <3> QED BY <2>1, <2>3, <3>1, <3>3, <3>4, SizeFacts
  <2> QED BY <2>2, <2>3
<1> QED BY <1>1, <1>2 DEF Split

\* In the data of a member the next piece is the one that follows.
LEMMA NextPiece ==
  ASSUME NEW a, WellFormed(a), NEW ds, NEW q, DataBelow(a, ds, a.len), NEW x \in Nat,
         Split(ds, q, x), NEW o \in DOMAIN a.header, o + BlockSize <= x, x < After(a, o)
  PROVE  /\ q \in Nat /\ Len(ds) \in Nat /\ q < Len(ds)
         /\ ds[q + 1] \in Pieces /\ ds[q + 1].from = x /\ x < ds[q + 1].to
         /\ ds[q + 1].to <= After(a, o)
         /\ ~IsBig(a.header[o]) => ds[q + 1].to = After(a, o)
         /\ Split(ds, q + 1, ds[q + 1].to)
<1>1. /\ ds \in Seq(Pieces) /\ Len(ds) \in Nat /\ q \in 0 .. Len(ds)
      /\ \A j \in 1 .. Len(ds) : ds[j] \in Pieces
  BY DEF DataBelow, Split
<1>2. \A j \in 1 .. Len(ds) : ds[j].from \in Nat /\ ds[j].to \in Nat
  BY <1>1 DEF Pieces
<1>3. o \in Nat /\ After(a, o) \in Nat /\ After(a, o) <= a.len /\ a.len \in Nat
  BY MemberFacts
<1>4. x \in (o + BlockSize) .. (After(a, o) - 1) /\ x < a.len
  BY <1>3, SizeFacts
<1>5. PICK j \in 1 .. Len(ds) : ds[j].from <= x /\ x < ds[j].to
  BY <1>4 DEF DataBelow
<1>6. ~(j <= q) /\ ds[j].from = x
  <2>1. IF j <= q THEN ds[j].to <= x ELSE x <= ds[j].from
    BY DEF Split
  <2>2. ds[j].from \in Nat /\ ds[j].to \in Nat
    BY <1>2
  <2> QED BY ONLY <1>5, <2>1, <2>2, x \in Nat
<1>7. q + 1 \in 1 .. Len(ds) /\ q \in Nat /\ q < Len(ds)
  BY <1>1, <1>6
<1>8. j = q + 1
  <2> SUFFICES ASSUME j # q + 1 PROVE FALSE
    OBVIOUS
  <2>1. q + 1 < j /\ ~(q + 1 <= q)
    BY <1>1, <1>6
  <2>2. ds[q + 1].to <= ds[j].from
    BY <1>7, <2>1 DEF DataBelow
  <2>3. x <= ds[q + 1].from
    BY <1>7, <2>1 DEF Split
  <2>4. ds[q + 1].from < ds[q + 1].to
    BY <1>7 DEF DataBelow, Owns
  <2>5. ds[q + 1].from \in Nat /\ ds[q + 1].to \in Nat
    BY <1>2, <1>7
  <2> QED BY ONLY <1>6, <2>2, <2>3, <2>4, <2>5, x \in Nat
<1>9. PICK v \in DOMAIN a.header : Owns(a, v, ds[j])
  BY DEF DataBelow
<1>10. v + BlockSize <= ds[j].from /\ ds[j].to <= After(a, v)
  BY <1>9 DEF Owns
<1>11. v = o
  <2>1. v \in Nat /\ After(a, v) \in Nat /\ (v < o => After(a, v) <= o)
        /\ (o < v => After(a, o) <= v)
    BY MemberFacts
  <2>2. ds[j].from \in Nat /\ ds[j].to \in Nat
    BY <1>2
  <2> QED BY <1>3, <1>5, <1>6, <1>10, <2>1, <2>2, SizeFacts
<1>12. ds[j].to <= After(a, o) /\ (~IsBig(a.header[o]) => ds[j].to = After(a, o))
  BY <1>9, <1>11 DEF Owns
<1>13. Split(ds, q + 1, ds[q + 1].to)
  <2>1. ASSUME NEW i \in 1 .. Len(ds)
        PROVE  IF i <= q + 1 THEN ds[i].to <= ds[q + 1].to ELSE ds[q + 1].to <= ds[i].from
    <3>1. ds[i].to \in Nat /\ ds[i].from \in Nat /\ ds[q + 1].to \in Nat
      BY <1>2, <1>7
    <3>2. CASE i <= q
      <4>1. ds[i].to <= x /\ i <= q + 1
        BY <1>1, <3>2 DEF Split
      <4> QED BY <1>5, <1>8, <3>1, <4>1
    <3>3. CASE i = q + 1
      BY <1>1, <3>1, <3>3
    <3>4. CASE i > q + 1
      <4>1. ds[q + 1].to <= ds[i].from
        BY <1>7, <3>4 DEF DataBelow
      <4> QED BY <1>1, <3>4, <4>1
    <3> QED BY <1>1, <3>2, <3>3, <3>4
  <2>2. q + 1 \in 0 .. Len(ds)
    BY <1>1, <1>7
  <2> QED BY <2>1, <2>2 DEF Split
<1> QED BY <1>1, <1>5, <1>6, <1>7, <1>8, <1>12, <1>13

\* A piece is appended to what is restored.
LEMMA TilesAppend ==
  ASSUME NEW s \in Seq(Pieces), NEW n, Tiles(s, n), NEW d \in Pieces, d.from = n, n < d.to
  PROVE  /\ Append(s, d) \in Seq(Pieces) /\ Tiles(Append(s, d), d.to)
         /\ Built(Append(s, d)) = d.to
<1>1. Len(s) \in Nat /\ (s = <<>> <=> Len(s) = 0)
  OBVIOUS
<1> DEFINE e == Append(s, d)
<1>2. /\ e \in Seq(Pieces) /\ Len(e) = Len(s) + 1 /\ e[Len(s) + 1] = d /\ e # <<>>
      /\ \A k \in 1 .. Len(s) : e[k] = s[k]
  OBVIOUS
<1> HIDE DEF e
<1>3. ASSUME NEW k \in 1 .. Len(e)
      PROVE  /\ e[k].from = IF k = 1 THEN 0 ELSE e[k - 1].to
             /\ e[k].from < e[k].to
  <2>1. CASE k = Len(s) + 1
    <3>1. CASE k = 1
      BY <1>1, <1>2, <2>1, <3>1 DEF Tiles
    <3>2. CASE k # 1
      <4>1. k - 1 = Len(s) /\ Len(s) \in 1 .. Len(s) /\ Len(s) # 0
        BY <1>1, <2>1, <3>2
      <4>2. n = s[Len(s)].to
        BY <1>1, <4>1 DEF Tiles
      <4> QED BY <1>2, <2>1, <3>2, <4>1, <4>2
    <3> QED BY <3>1, <3>2
  <2>2. CASE k # Len(s) + 1
    <3>1. k \in 1 .. Len(s) /\ (k # 1 => k - 1 \in 1 .. Len(s))
      BY <1>1, <1>2, <2>2
    <3>2. /\ s[k].from = IF k = 1 THEN 0 ELSE s[k - 1].to
          /\ s[k].from < s[k].to
      BY <3>1 DEF Tiles
    <3> QED BY <1>2, <3>1, <3>2
  <2> QED BY <2>1, <2>2
<1>4. d.to = IF e = <<>> THEN 0 ELSE e[Len(e)].to
  BY <1>2
<1>5. Tiles(e, d.to) /\ Built(e) = d.to
  BY <1>3, <1>4 DEF Tiles, Built
<1> QED BY <1>2, <1>5 DEF e

\* Where header i of header chunk p is, and what follows it.
LEMMA AheadNext ==
  ASSUME NEW a, WellFormed(a), NEW hs, Walked(a, hs), NEW p \in 1 .. Len(hs),
         NEW i \in 1 .. Len(hs[p])
  PROVE  /\ hs[p] \in Seq(Nat) /\ Guides(a, hs[p][i])
         /\ Ahead(a, hs, p, hs[p], i * BlockSize, After(a, hs[p][i]))
<1>1. /\ hs \in Seq(Seq(Nat)) /\ Len(hs) \in Nat /\ Chained(a, hs[p], StartOf(a, hs, p))
  BY DEF Walked
<1> DEFINE b == hs[p]
<1>2. /\ b \in Seq(Nat) /\ Len(b) \in Nat /\ Guides(a, b[i])
      /\ \A k \in 1 .. (Len(b) - 1) : b[k + 1] = After(a, b[k])
  <2>1. Chained(a, b, StartOf(a, hs, p)) /\ i \in 1 .. Len(b)
    BY <1>1
  <2> HIDE DEF b
  <2>2. b \in Seq(Nat)
    BY <2>1 DEF Chained
  <2>3. Len(b) \in Nat
    BY <2>2
  <2> QED BY <2>1, <2>2, <2>3 DEF Chained
<1>3. CASE i = Len(b)
  <2>1. p + 1 # 1 /\ (p + 1) - 1 = p
    BY <1>1
  <2>2. StartOf(a, hs, p + 1) = EndOf(a, b)
    BY <2>1 DEF StartOf
  <2>3. EndOf(a, b) = After(a, b[i])
    BY <1>3 DEF EndOf
  <2> QED BY <1>2, <1>3, <2>2, <2>3 DEF Ahead
<1>4. CASE i # Len(b)
  <2>1. i \in 1 .. (Len(b) - 1)
    BY <1>2, <1>4
  <2>2. b[i + 1] = After(a, b[i])
    BY <1>2, <2>1
  <2> QED BY <1>2, <2>1, <2>2 DEF Ahead
<1> QED BY <1>3, <1>4

-----------------------------------------------------------------------------
(* The backup *)

Cutting == {"load", "read", "cut", "segment", "big", "done"}

\* Nothing is pushed to another file than the one in hand.
OthersKept ==
  /\ DOMAIN headers' = DOMAIN headers /\ DOMAIN data' = DOMAIN data
  /\ \A n \in 1 .. Len(files) : n # f => headers'[n] = headers[n] /\ data'[n] = data[n]

\* A step that cuts on in the file in hand.
LEMMA BackupStep ==
  ASSUME ChunkerInv, RebuildInv, chunkType = "TAR_MultiHeader", ~clipped, ~Misled,
         pc \in Cutting, f <= Len(files), UNCHANGED <<files, chunkType, f>>, UNCHANGED restorer,
         OthersKept, pc' \in Cutting,
         InHand(files[f], headers'[f], data'[f], headerBuffer', tar', Reached'),
         pc' # "segment" => headerBuffer' = <<>>,
         pc' = "segment" /\ headerBuffer' = <<>> => tar'.type = "FILE_HEADER"
  PROVE  RebuildInv'
<1>1. /\ DOMAIN headers = 1 .. Len(files) /\ DOMAIN data = 1 .. Len(files)
      /\ DOMAIN out = 1 .. Len(files) /\ BackupInv
  BY DEF RebuildInv, Cutting
<1>2. f \in Nat /\ Len(files) \in Nat
  BY FilesFacts DEF ChunkerInv, TypeInv
<1>3. \A n \in 1 .. Len(files) : n # f => headers'[n] = headers[n] /\ data'[n] = data[n]
  BY DEF OthersKept
<1>4. DOMAIN headers' = 1 .. Len(files) /\ DOMAIN data' = 1 .. Len(files)
  BY <1>1 DEF OthersKept
<1>5. UNCHANGED <<MultiHeader, MultiHeaderOffset, HeaderP, DataP, BigLeft, out>>
  BY DEF restorer
<1>6. \A n \in 1 .. Len(files) : n < f => Complete(files[n], headers'[n], data'[n])
  BY <1>1, <1>2, <1>3 DEF BackupInv
<1>7. \A n \in 1 .. Len(files) : n > f => headers'[n] = <<>> /\ data'[n] = <<>>
  BY <1>1, <1>2, <1>3 DEF BackupInv
<1>8. BackupInv'
  <2>1. /\ MultiHeader = <<>> /\ MultiHeaderOffset = 0 /\ HeaderP = 0 /\ DataP = 0
        /\ \A n \in 1 .. Len(files) : out[n] = <<>>
    BY <1>1 DEF BackupInv
  <2> QED BY <1>5, <1>6, <1>7, <2>1 DEF BackupInv
<1>9. pc' \notin {"restore", "restoreBig", "finished"}
  BY DEF Cutting
<1> QED BY <1>1, <1>4, <1>5, <1>8, <1>9 DEF RebuildInv

\* Nothing is pushed.
LEMMA QuietStep ==
  ASSUME ChunkerInv, RebuildInv, chunkType = "TAR_MultiHeader", ~clipped, ~Misled,
         pc \in Cutting, f <= Len(files), UNCHANGED <<files, chunkType, f, headers, data, headerBuffer, tar>>,
         UNCHANGED restorer, pc' \in Cutting, Reached' = Reached,
         pc' = "segment" => tar.type = "FILE_HEADER",
         pc # "segment"
  PROVE  RebuildInv'
<1>1. /\ DOMAIN headers = 1 .. Len(files) /\ DOMAIN data = 1 .. Len(files) /\ BackupInv
  BY DEF RebuildInv, Cutting
<1>2. OthersKept
  BY DEF OthersKept
<1>3. /\ InHand(files[f], headers[f], data[f], headerBuffer, tar, Reached)
      /\ headerBuffer = <<>>
  BY <1>1 DEF BackupInv
<1>4. /\ InHand(files[f], headers'[f], data'[f], headerBuffer', tar', Reached')
      /\ headerBuffer' = <<>> /\ (pc' = "segment" => tar'.type = "FILE_HEADER")
  BY <1>3
<1> QED BY <1>2, <1>4, BackupStep

LEMMA LoadRebuilds ==
  ASSUME ChunkerInv, RebuildInv, Load, chunkType' = "TAR_MultiHeader", ~clipped', ~Misled
  PROVE  RebuildInv'
<1>1. /\ pc = "load" /\ f <= Len(files) /\ pc' = "read" /\ totalOffset' = 0
      /\ UNCHANGED <<files, chunkType, f, headers, data, headerBuffer, tar, clipped>>
      /\ UNCHANGED restorer
  BY DEF Load, input, parser, recipes
<1>2. Reached' = Reached
  BY <1>1 DEF Reached
<1> QED BY <1>1, <1>2, QuietStep DEF Cutting

LEMMA ReadRebuilds ==
  ASSUME ChunkerInv, RebuildInv, Read, chunkType' = "TAR_MultiHeader", ~clipped', ~Misled
  PROVE  RebuildInv'
<1>1. /\ pc = "read" /\ pc' \in {"done", "cut"} /\ (pc' = "cut" => localOffset' = 0)
      /\ UNCHANGED <<files, chunkType, f, totalOffset, cpSum, headers, data, headerBuffer, tar,
                     clipped>>
      /\ UNCHANGED restorer
  BY DEF Read, input, parser, recipes
<1>2. f <= Len(files) /\ cpSum = 0 /\ totalOffset \in Nat
  BY <1>1 DEF ChunkerInv, TypeInv, WindowInv
<1>3. Reached' = Reached
  BY <1>1, <1>2 DEF Reached, Here
<1> QED BY <1>1, <1>2, <1>3, QuietStep DEF Cutting

LEMMA EndWindowRebuilds ==
  ASSUME ChunkerInv, RebuildInv, EndWindow, chunkType' = "TAR_MultiHeader", ~clipped', ~Misled
  PROVE  RebuildInv'
<1>1. /\ pc = "cut" /\ pc' \in {"done", "read"} /\ totalOffset' = totalOffset + localOffset
      /\ UNCHANGED <<files, chunkType, f, headers, data, headerBuffer, tar, clipped>>
      /\ UNCHANGED restorer
  BY DEF EndWindow, input, parser, recipes
<1>2. f <= Len(files) /\ cpSum = 0 /\ totalOffset \in Nat /\ localOffset \in Nat
  BY <1>1 DEF ChunkerInv, TypeInv, WindowInv
<1>3. Reached' = Reached
  BY <1>1, <1>2 DEF Reached, Here
<1> QED BY <1>1, <1>2, <1>3, QuietStep DEF Cutting

LEMMA StartSegmentRebuilds ==
  ASSUME ChunkerInv, RebuildInv, StartSegment, chunkType' = "TAR_MultiHeader", ~clipped', ~Misled
  PROVE  RebuildInv'
<1>1. /\ pc = "cut" /\ pc' \in {"segment", "big"} /\ cpSum' = 0
      /\ pc' = "segment" => tar.type = "FILE_HEADER"
      /\ UNCHANGED <<files, chunkType, f, totalOffset, localOffset, headers, data, headerBuffer,
                     tar, clipped>>
      /\ UNCHANGED restorer
  BY DEF StartSegment, input, window, recipes
<1>2. f <= Len(files) /\ cpSum = 0
  BY <1>1 DEF ChunkerInv, TypeInv, WindowInv
<1>3. Reached' = Reached
  BY <1>1, <1>2 DEF Reached, Here
<1> QED BY <1>1, <1>2, <1>3, QuietStep DEF Cutting

LEMMA EndBigRebuilds ==
  ASSUME ChunkerInv, RebuildInv, EndBig, chunkType' = "TAR_MultiHeader", ~clipped', ~Misled
  PROVE  RebuildInv'
<1>1. /\ pc = "big" /\ pc' = "cut" /\ cpSum' = 0 /\ localOffset' = localOffset + cpSum
      /\ UNCHANGED <<files, chunkType, f, totalOffset, headers, data, headerBuffer,
                     tar, clipped>>
      /\ UNCHANGED restorer
  BY DEF EndBig, input, recipes
<1>2. /\ f <= Len(files) /\ cpSum \in Nat /\ localOffset \in Nat /\ totalOffset \in Nat
  BY <1>1 DEF ChunkerInv, TypeInv
<1>3. Reached' = Reached
  <2>1. totalOffset + (localOffset + cpSum) + 0 = totalOffset + localOffset + cpSum
    BY <1>2
  <2> QED BY <1>1, <2>1 DEF Reached, Here
<1> QED BY <1>1, <1>2, <1>3, QuietStep DEF Cutting

\* The file in hand is complete, and nothing is known of the next one.
LEMMA DoneRebuilds ==
  ASSUME ChunkerInv, RebuildInv, Done, chunkType' = "TAR_MultiHeader", ~clipped', ~Misled
  PROVE  RebuildInv'
<1>1. /\ pc = "done" /\ pc' = "load" /\ f' = f + 1
      /\ UNCHANGED <<files, chunkType, headers, data, headerBuffer, tar, clipped>>
      /\ UNCHANGED <<MultiHeader, MultiHeaderOffset, HeaderP, DataP, BigLeft, out>>
  BY DEF Done, input, parser, recipes, restorer
<1>2. /\ DOMAIN headers = 1 .. Len(files) /\ DOMAIN data = 1 .. Len(files)
      /\ DOMAIN out = 1 .. Len(files) /\ BackupInv
  BY <1>1 DEF RebuildInv
<1>3. /\ Parsing /\ f \in 1 .. Len(files) /\ f \in Nat /\ Len(files) \in Nat
      /\ totalOffset = files[f].len
      /\ \A n \in 1 .. Len(files) : WellFormed(files[n])
  BY <1>1, FilesFacts DEF ChunkerInv, TypeInv, WindowInv, Parsing
<1>4. /\ Left(tar) = 0 /\ tar.type # "FILE_CHUNK"
      /\ tar.type \in {"FILE_HEADER", "FILE_CHUNK", "BIG_CHUNK"}
  BY <1>1, <1>3 DEF ChunkerInv, SyncInv, TypeInv, Tars
<1>5. /\ InHand(files[f], headers[f], data[f], <<>>, tar, files[f].len)
      /\ headerBuffer = <<>>
  BY <1>1, <1>2, <1>3 DEF BackupInv, Reached
<1>6. Complete(files[f], headers[f], data[f])
  BY <1>3, <1>4, <1>5, HandAll
<1>7. tar.type = "FILE_HEADER"
  <2>1. tar.type = "BIG_CHUNK" => \E o \in DOMAIN files[f].header :
                                     InMember(files[f], o, tar, files[f].len)
    BY <1>5 DEF InHand
  <2>2. tar.type = "BIG_CHUNK" => Left(tar) > 0
    BY <2>1 DEF InMember
  <2> QED BY <1>4, <2>2
<1>8. ASSUME NEW n \in 1 .. Len(files), n < f + 1
      PROVE  Complete(files[n], headers[n], data[n])
  <2>1. n < f \/ n = f
    BY <1>3, <1>8
  <2> QED BY <1>2, <1>6, <2>1 DEF BackupInv
<1>9. ASSUME NEW n \in 1 .. Len(files), n > f + 1 \/ n = f + 1
      PROVE  headers[n] = <<>> /\ data[n] = <<>>
  <2>1. n > f
    BY <1>3, <1>9
  <2> QED BY <1>2, <2>1 DEF BackupInv
<1>10. ASSUME f + 1 <= Len(files)
       PROVE  InHand(files[f + 1], headers[f + 1], data[f + 1], headerBuffer, tar, 0)
  <2>1. f + 1 \in 1 .. Len(files)
    BY <1>3, <1>10
  <2>2. WellFormed(files[f + 1]) /\ headers[f + 1] = <<>> /\ data[f + 1] = <<>>
    BY <1>3, <1>9, <2>1
  <2> QED BY <1>5, <1>7, <2>2, HandNone
<1>11. BackupInv'
  <2>1. Reached' = 0
    BY <1>1 DEF Reached
  <2>2. /\ MultiHeader = <<>> /\ MultiHeaderOffset = 0 /\ HeaderP = 0 /\ DataP = 0
        /\ \A n \in 1 .. Len(files) : out[n] = <<>>
    BY <1>2 DEF BackupInv
  <2> QED BY <1>1, <1>5, <1>8, <1>9, <1>10, <2>1, <2>2 DEF BackupInv
<1> QED BY <1>1, <1>2, <1>11 DEF RebuildInv

\* The header chunk of a segment is pushed; it is never empty.
LEMMA EndSegmentRebuilds ==
  ASSUME ChunkerInv, RebuildInv, EndSegment, chunkType' = "TAR_MultiHeader", ~clipped', ~Misled
  PROVE  RebuildInv'
<1>1. /\ pc = "segment" /\ pc' = "cut" /\ cpSum' = 0 /\ localOffset' = localOffset + cpSum
      /\ headers' = [headers EXCEPT ![f] = Append(@, headerBuffer)] /\ headerBuffer' = <<>>
      /\ UNCHANGED <<files, chunkType, f, totalOffset, data, tar, clipped>>
      /\ UNCHANGED restorer /\ ~SegmentOpen
  BY DEF EndSegment, CloseSegment, input
<1>2. /\ DOMAIN headers = 1 .. Len(files) /\ DOMAIN data = 1 .. Len(files) /\ BackupInv
  BY <1>1 DEF RebuildInv
<1>3. /\ f \in 1 .. Len(files) /\ cpSum \in Nat /\ localOffset \in Nat /\ totalOffset \in Nat
  BY <1>1, SegmentFacts
<1>4. f <= Len(files)
  BY <1>1 DEF ChunkerInv, TypeInv
<1>5. InHand(files[f], headers[f], data[f], headerBuffer, tar, Here)
  BY <1>1, <1>2, <1>4 DEF BackupInv, Reached
<1>6. headerBuffer # <<>>
  <2> SUFFICES ASSUME headerBuffer = <<>> PROVE FALSE
    OBVIOUS
  <2>1. tar.type = "FILE_HEADER"
    BY <1>1, <1>2 DEF BackupInv
  <2>2. HeaderCp = 0
    BY SizeFacts DEF HeaderCp
  <2> QED BY <1>1, <2>1, <2>2, SizeFacts DEF SegmentOpen
<1>7. Reached' = Here
  <2>1. totalOffset + (localOffset + cpSum) + 0 = totalOffset + localOffset + cpSum
    BY <1>3
  <2> QED BY <1>1, <2>1 DEF Reached, Here
<1>8. headers'[f] = Append(headers[f], headerBuffer) /\ data'[f] = data[f]
  BY <1>1, <1>2, <1>3
<1>9. InHand(files[f], headers'[f], data'[f], headerBuffer', tar', Reached')
  BY <1>1, <1>5, <1>6, <1>7, <1>8, HandClose
<1>10. OthersKept
  BY <1>1, <1>2 DEF OthersKept
<1> QED BY <1>1, <1>4, <1>9, <1>10, BackupStep DEF Cutting

\* A header joins the header buffer, or the segment ends with it.
LEMMA SegmentHeaderRebuilds ==
  ASSUME ChunkerInv, RebuildInv, SegmentHeader, chunkType' = "TAR_MultiHeader", ~clipped', ~Misled, ~Misled'
  PROVE  RebuildInv'
<1> DEFINE n == len - localOffset - cpSum
           a == files[f]
<1>1. PICK r \in CutPointTarFast(Here, n) :
         IF localOffset + cpSum + r.cp = len
         THEN /\ CloseSegment(Append(headerBuffer, Here), cpSum + r.cp)
              /\ tar' = [r.tar EXCEPT !.type = "FILE_HEADER"]
              /\ clipped' = (clipped \/ r.cp < BlockSize
                               \/ (r.tar.type # "FILE_HEADER" /\ r.tar.size > 0))
         ELSE /\ headerBuffer' = Append(headerBuffer, Here)
              /\ cpSum' = cpSum + r.cp
              /\ tar' = r.tar
              /\ UNCHANGED <<pc, localOffset, headers, clipped>>
  BY DEF SegmentHeader
<1>2. /\ pc = "segment" /\ tar.type = "FILE_HEADER" /\ Here \in DOMAIN a.header
      /\ UNCHANGED <<files, chunkType, f, totalOffset, len, data>>
      /\ UNCHANGED restorer
  BY DEF SegmentHeader, input, Lost
<1>3. /\ f \in 1 .. Len(files) /\ WellFormed(a)
      /\ totalOffset \in Nat /\ localOffset \in Nat /\ cpSum \in Nat /\ len \in Nat
      /\ normalSize \in Nat /\ TarOK(tar) /\ Here \in Nat /\ n \in Nat
  BY <1>2, SegmentFacts
<1>4. f <= Len(files) /\ clipped \in BOOLEAN
  BY <1>2 DEF ChunkerInv, TypeInv
<1>5. ~clipped
  BY <1>1, <1>4
<1>6. /\ DOMAIN headers = 1 .. Len(files) /\ DOMAIN data = 1 .. Len(files) /\ BackupInv
  BY <1>2, <1>5 DEF RebuildInv
<1>7. InHand(a, headers[f], data[f], headerBuffer, tar, Here)
  BY <1>2, <1>4, <1>6 DEF BackupInv, Reached
<1>8. r.tar = Parsed(tar, a.header[Here]) /\ r.cp = Least(BlockSize, n)
  BY <1>2 DEF CutPointTarFast
<1>9. r.cp = BlockSize
  <2>1. r.cp \in Nat /\ (r.cp # BlockSize => r.cp = n /\ r.cp < BlockSize)
    BY <1>3, <1>8, SizeFacts DEF Least
  <2>2. localOffset + cpSum + n = len
    BY <1>3
  <2>3. CASE localOffset + cpSum + r.cp = len
    <3>1. ~(r.cp < BlockSize)
      BY <1>1, <2>3
    <3> QED BY <2>1, <3>1
  <2>4. CASE localOffset + cpSum + r.cp # len
    <3>1. r.cp # n
      BY <2>2, <2>4
    <3> QED BY <2>1, <3>1
  <2> QED BY <2>3, <2>4
<1> HIDE DEF n
<1>10. totalOffset + (localOffset + (cpSum + r.cp)) + 0 = Here + BlockSize
       /\ totalOffset + localOffset + (cpSum + r.cp) = Here + BlockSize
  BY <1>3, <1>9, SizeFacts DEF Here
<1> DEFINE b == Append(headerBuffer, Here)
<1> HIDE DEF b
<1>11. /\ pc' \in {"cut", "segment"} /\ Reached' = Here + BlockSize
       /\ tar' = r.tar \/ tar' = [r.tar EXCEPT !.type = "FILE_HEADER"]
  <2>1. CASE localOffset + cpSum + r.cp = len
    <3>1. /\ localOffset' = localOffset + (cpSum + r.cp) /\ cpSum' = 0 /\ pc' = "cut"
          /\ tar' = [r.tar EXCEPT !.type = "FILE_HEADER"]
      BY <1>1, <2>1 DEF CloseSegment
    <3> QED BY <1>2, <1>10, <3>1 DEF Reached, Here
  <2>2. CASE localOffset + cpSum + r.cp # len
    <3>1. cpSum' = cpSum + r.cp /\ tar' = r.tar /\ UNCHANGED <<pc, localOffset>>
      BY <1>1, <2>2
    <3> QED BY <1>2, <1>10, <3>1 DEF Reached, Here
  <2> QED BY <2>1, <2>2
<1>12. Guides(a, Here)
  <2> SUFFICES ASSUME Misleads(a.header[Here]) PROVE FALSE
    BY <1>2 DEF Guides
  <2>1. r.tar \in Tars /\ r.tar.type # "BIG_CHUNK" /\ Left(r.tar) = 0
    BY <1>2, <1>3, <1>8, ParsedFacts DEF TarOK
  <2>2. tar'.type # "BIG_CHUNK" /\ Left(tar') = 0
    <3>1. CASE tar' = r.tar
      BY <2>1, <3>1
    <3>2. CASE tar' = [r.tar EXCEPT !.type = "FILE_HEADER"]
      <4>1. tar'.type = "FILE_HEADER"
        BY <2>1, <3>2 DEF Tars
      <4> QED BY <4>1 DEF Left
    <3> QED BY <1>11, <3>1, <3>2
  <2>3. (Here + BlockSize) - BlockSize = Here
    BY <1>3, SizeFacts
  <2>4. Misguided(a, Here + BlockSize, tar')
    BY <1>2, <2>2, <2>3 DEF Misguided
  <2>5. Misled'
    BY <1>2, <1>4, <1>11, <2>4 DEF Misled
  <2> QED BY <2>5
<1>13. InHand(a, headers[f], data[f], b, r.tar, Here + BlockSize) /\ b # <<>>
  BY <1>2, <1>3, <1>7, <1>8, <1>12, HandHeader DEF TarOK, b
<1>14. CASE localOffset + cpSum + r.cp = len
  <2>1. /\ headers' = [headers EXCEPT ![f] = Append(@, b)] /\ headerBuffer' = <<>>
        /\ localOffset' = localOffset + (cpSum + r.cp) /\ cpSum' = 0 /\ pc' = "cut"
        /\ tar' = [r.tar EXCEPT !.type = "FILE_HEADER"]
    BY <1>1, <1>14 DEF CloseSegment, b
  <2>2. ~(r.tar.type # "FILE_HEADER" /\ r.tar.size > 0)
    BY <1>1, <1>14
  <2>3. r.tar \in Tars /\ Left(r.tar) = 0
    <3>1. /\ r.tar \in Tars /\ (r.tar.type = "FILE_HEADER" \/ r.tar.size = 0 => Left(r.tar) = 0)
      BY <1>2, <1>3, TarCut DEF TarOK, n
    <3>2. r.tar.size \in Nat
      BY <3>1 DEF Tars
    <3> QED BY <2>2, <3>1, <3>2
  <2>4. tar'.type = "FILE_HEADER"
    BY <2>1, <2>3 DEF Tars
  <2>5. InHand(a, Append(headers[f], b), data[f], <<>>, r.tar, Here + BlockSize)
    BY <1>13, HandClose
  <2>6. InHand(a, Append(headers[f], b), data[f], <<>>, tar', Here + BlockSize)
    BY <2>3, <2>4, <2>5, HandReset
  <2>7. headers'[f] = Append(headers[f], b) /\ data'[f] = data[f]
    BY <1>2, <1>3, <1>6, <2>1
  <2>8. Reached' = Here + BlockSize
    BY <1>2, <1>10, <2>1 DEF Reached, Here
  <2>9. InHand(files[f], headers'[f], data'[f], headerBuffer', tar', Reached')
    BY <2>1, <2>6, <2>7, <2>8
  <2>10. OthersKept
    BY <1>2, <1>6, <2>1 DEF OthersKept
  <2> QED BY <1>2, <1>4, <1>5, <2>1, <2>9, <2>10, BackupStep DEF Cutting
<1>15. CASE localOffset + cpSum + r.cp # len
  <2>1. /\ headerBuffer' = b /\ cpSum' = cpSum + r.cp /\ tar' = r.tar
        /\ UNCHANGED <<pc, localOffset, headers>>
    BY <1>1, <1>15 DEF b
  <2>2. Reached' = Here + BlockSize
    BY <1>2, <1>10, <2>1 DEF Reached, Here
  <2>3. InHand(files[f], headers'[f], data'[f], headerBuffer', tar', Reached')
    BY <1>2, <1>13, <2>1, <2>2
  <2>4. OthersKept
    BY <1>2, <2>1 DEF OthersKept
  <2> QED BY <1>2, <1>4, <1>5, <1>13, <2>1, <2>3, <2>4, BackupStep DEF Cutting
<1> QED BY <1>14, <1>15

\* The data of a member is pushed, if there is any.
LEMMA SegmentDataRebuilds ==
  ASSUME ChunkerInv, RebuildInv, SegmentData, chunkType' = "TAR_MultiHeader", ~clipped', ~Misled
  PROVE  RebuildInv'
<1> DEFINE n == len - localOffset - cpSum
           a == files[f]
<1>1. PICK r \in CutPointTarFast(Here, n) :
         /\ IF r.cp = 0 THEN UNCHANGED <<data, pushed>> ELSE Emit(r.cp)
         /\ clipped' = (clipped \/ r.cp < RoundUp(tar.size))
         /\ tar' = r.tar
         /\ IF r.cp > 0 /\ localOffset + cpSum + r.cp = len
            THEN CloseSegment(headerBuffer, cpSum + r.cp)
            ELSE /\ cpSum' = cpSum + r.cp
                 /\ UNCHANGED <<pc, localOffset, headerBuffer, headers>>
  BY DEF SegmentData
<1>2. /\ pc = "segment" /\ tar.type = "FILE_CHUNK"
      /\ UNCHANGED <<files, chunkType, f, totalOffset, len>>
      /\ UNCHANGED restorer
  BY DEF SegmentData, input
<1>3. /\ f \in 1 .. Len(files) /\ WellFormed(a) /\ chunkType = "TAR_MultiHeader"
      /\ totalOffset \in Nat /\ localOffset \in Nat /\ cpSum \in Nat /\ len \in Nat
      /\ normalSize \in Nat /\ TarOK(tar) /\ Here \in Nat /\ n \in Nat
  BY <1>2, SegmentFacts
<1>4. f <= Len(files) /\ clipped \in BOOLEAN
  BY <1>2 DEF ChunkerInv, TypeInv
<1>5. ~clipped /\ ~(r.cp < RoundUp(tar.size))
  BY <1>1, <1>4
<1>6. /\ DOMAIN headers = 1 .. Len(files) /\ DOMAIN data = 1 .. Len(files) /\ BackupInv
  BY <1>2, <1>5 DEF RebuildInv
<1>7. InHand(a, headers[f], data[f], headerBuffer, tar, Here) /\ headerBuffer # <<>>
  BY <1>2, <1>4, <1>6 DEF BackupInv, Reached
<1>8. r.cp \in Nat /\ r.cp = Least(RoundUp(tar.size), n) /\ r.tar.type = "FILE_HEADER"
  BY <1>2, <1>3, TarCut
<1>9. RoundUp(tar.size) \in Nat /\ Left(tar) = RoundUp(tar.size)
  BY <1>2, <1>3, RoundUpFacts DEF TarOK, Tars, Left
<1>10. r.cp = Left(tar) /\ Left(r.tar) = 0
  BY <1>3, <1>5, <1>8, <1>9 DEF Least, Left
<1> HIDE DEF n
<1>11. InHand(a, headers[f], data'[f], headerBuffer, r.tar, Here + r.cp)
  <2>1. CASE r.cp = 0
    <3>1. Here + r.cp = Here /\ data'[f] = data[f]
      BY <1>1, <1>3, <2>1
    <3> QED BY <1>7, <1>8, <1>10, <2>1, <3>1, HandReset
  <2>2. CASE r.cp # 0
    <3>1. data' = [data EXCEPT ![f] = Append(@, Piece(r.cp))]
      BY <1>1, <1>3, <2>2 DEF Emit
    <3>2. data'[f] = Append(data[f], [from |-> Here, to |-> Here + r.cp])
      BY <1>3, <1>6, <3>1 DEF Piece
    <3>3. r.cp <= Left(tar) /\ Left(r.tar) = Left(tar) - r.cp /\ Left(tar) \in Nat
      BY <1>8, <1>10
    <3>4. r.cp \in Nat \ {0}
      BY <1>8, <2>2
    <3>5. r.tar.type # "BIG_CHUNK"
      BY <1>8
    <3> HIDE DEF a
    <3>6. InHand(a, headers[f], Append(data[f], [from |-> Here, to |-> Here + r.cp]),
                 headerBuffer, r.tar, Here + r.cp)
      BY <1>2, <1>3, <1>7, <1>8, <1>10, <3>3, <3>4, <3>5, HandPiece
    <3> QED BY <3>2, <3>6
  <2> QED BY <2>1, <2>2
<1>12. DOMAIN data' = DOMAIN data /\ \A m \in 1 .. Len(files) : m # f => data'[m] = data[m]
  BY <1>1, <1>6 DEF Emit
<1>13. totalOffset + (localOffset + (cpSum + r.cp)) + 0 = Here + r.cp
       /\ totalOffset + localOffset + (cpSum + r.cp) = Here + r.cp
  BY <1>3, <1>8 DEF Here
<1>14. CASE r.cp > 0 /\ localOffset + cpSum + r.cp = len
  <2>1. /\ headers' = [headers EXCEPT ![f] = Append(@, headerBuffer)] /\ headerBuffer' = <<>>
        /\ localOffset' = localOffset + (cpSum + r.cp) /\ cpSum' = 0 /\ pc' = "cut"
        /\ tar' = r.tar
    BY <1>1, <1>14 DEF CloseSegment
  <2>2. InHand(a, Append(headers[f], headerBuffer), data'[f], <<>>, r.tar, Here + r.cp)
    BY <1>7, <1>11, HandClose
  <2>3. headers'[f] = Append(headers[f], headerBuffer)
    BY <1>3, <1>6, <2>1
  <2>4. Reached' = Here + r.cp
    BY <1>2, <1>13, <2>1 DEF Reached, Here
  <2>5. InHand(files[f], headers'[f], data'[f], headerBuffer', tar', Reached')
    BY <2>1, <2>2, <2>3, <2>4
  <2>6. OthersKept
    BY <1>6, <1>12, <2>1 DEF OthersKept
  <2> QED BY <1>2, <1>3, <1>4, <1>5, <2>1, <2>5, <2>6, BackupStep DEF Cutting
<1>15. CASE ~(r.cp > 0 /\ localOffset + cpSum + r.cp = len)
  <2>1. /\ cpSum' = cpSum + r.cp /\ tar' = r.tar
        /\ UNCHANGED <<pc, localOffset, headers, headerBuffer>>
    BY <1>1, <1>15
  <2>2. Reached' = Here + r.cp
    BY <1>2, <1>13, <2>1 DEF Reached, Here
  <2>3. InHand(files[f], headers'[f], data'[f], headerBuffer', tar', Reached')
    BY <1>11, <2>1, <2>2
  <2>4. OthersKept
    BY <1>12, <2>1 DEF OthersKept
  <2> QED BY <1>2, <1>3, <1>4, <1>5, <1>7, <2>1, <2>3, <2>4, BackupStep DEF Cutting
<1> QED BY <1>14, <1>15

\* A piece of a big member is never empty, and while the parser stays in the
\* member something of it is left.
LEMMA BigCut ==
  ASSUME NEW p, NEW n, TarOK(tar), normalSize \in Nat, Initialised, tar.type = "BIG_CHUNK",
         Left(tar) > 0, NEW r \in CutPointTarFast(p, n)
  PROVE  /\ r.cp \in Nat \ {0} /\ r.cp <= Left(tar) /\ Left(r.tar) = Left(tar) - r.cp
         /\ r.tar.type \in {"FILE_HEADER", "BIG_CHUNK"}
         /\ r.tar.type = "BIG_CHUNK" => Left(r.tar) > 0
<1> DEFINE left == tar.bigSize - tar.bigOffset
<1>1. /\ tar \in Tars /\ tar.bigOffset <= tar.bigSize /\ tar.bigSize \in Nat
      /\ tar.bigOffset \in Nat
  BY DEF TarOK, Tars
<1>2. left \in Nat /\ Left(tar) = left /\ left > 0
  BY <1>1 DEF Left
<1>3. CASE left > MaxChunk
  <2>1. PICK c \in CutPointFastCDC(left) :
           r = [cp |-> c, tar |-> [tar EXCEPT !.bigOffset = @ + c]]
    BY <1>3 DEF CutPointTarFast
  <2> HIDE DEF left
  <2>2. c \in Nat /\ c <= left /\ c > 0 /\ c <= MaxChunk
    BY <1>2, FastCDCFacts
  <2>3. r.cp = c /\ r.tar.type = "BIG_CHUNK" /\ r.tar.bigSize = tar.bigSize
        /\ r.tar.bigOffset = tar.bigOffset + c
    BY <1>1, <2>1 DEF Tars
  <2>4. Left(r.tar) = left - c
    <3>1. Left(r.tar) = tar.bigSize - (tar.bigOffset + c)
      BY <2>3 DEF Left
    <3> QED BY <1>1, <2>2, <3>1 DEF left
  <2> QED BY <1>2, <1>3, <2>2, <2>3, <2>4, SizeFacts
<1>4. CASE ~(left > MaxChunk)
  <2>1. r = [cp |-> left, tar |-> [tar EXCEPT !.type = "FILE_HEADER"]]
    BY <1>4 DEF CutPointTarFast
  <2> HIDE DEF left
  <2>2. r.cp = left /\ r.tar.type = "FILE_HEADER"
    BY <1>1, <2>1 DEF Tars
  <2>3. Left(r.tar) = 0
    BY <2>2 DEF Left
  <2> QED BY <1>2, <2>2, <2>3
<1> QED BY <1>3, <1>4

\* A piece of a big member is pushed.
LEMMA BigDataRebuilds ==
  ASSUME ChunkerInv, RebuildInv, BigData, chunkType' = "TAR_MultiHeader", ~clipped', ~Misled
  PROVE  RebuildInv'
<1> DEFINE n == len - localOffset - cpSum
           a == files[f]
<1>1. PICK r \in CutPointTarFast(Here, n) :
         /\ Emit(r.cp)
         /\ tar' = r.tar
         /\ IF localOffset + cpSum + r.cp = len
            THEN pc' = "cut" /\ localOffset' = len /\ cpSum' = 0
            ELSE cpSum' = cpSum + r.cp /\ UNCHANGED <<pc, localOffset>>
  BY DEF BigData
<1>2. /\ pc = "big" /\ tar.type # "FILE_HEADER"
      /\ UNCHANGED <<files, chunkType, f, totalOffset, len, headers, headerBuffer, clipped>>
      /\ UNCHANGED restorer
  BY DEF BigData, BigOpen, input
<1>3. /\ f \in 1 .. Len(files) /\ WellFormed(a) /\ chunkType = "TAR_MultiHeader" /\ Parsing
      /\ totalOffset \in Nat /\ localOffset \in Nat /\ cpSum \in Nat /\ len \in Nat
      /\ normalSize \in Nat /\ TarOK(tar) /\ Here \in Nat /\ n \in Nat /\ Initialised
  BY <1>2, SegmentFacts
<1>4. f <= Len(files)
  BY <1>2 DEF ChunkerInv, TypeInv
<1>5. tar.type = "BIG_CHUNK"
  BY <1>2, <1>3 DEF ChunkerInv, SyncInv, TarOK, Tars
<1>6. /\ DOMAIN headers = 1 .. Len(files) /\ DOMAIN data = 1 .. Len(files) /\ BackupInv
  BY <1>2 DEF RebuildInv
<1>7. InHand(a, headers[f], data[f], headerBuffer, tar, Here) /\ headerBuffer = <<>>
  BY <1>2, <1>4, <1>6 DEF BackupInv, Reached
<1>8. Left(tar) > 0 /\ Left(tar) \in Nat
  <2>1. Left(tar) > 0
    BY <1>5, <1>7 DEF InHand, InMember
  <2> QED BY <1>3, <2>1, LeftFacts DEF TarOK
<1> HIDE DEF n
<1>9. /\ r.cp \in Nat \ {0} /\ r.cp <= Left(tar) /\ Left(r.tar) = Left(tar) - r.cp
      /\ r.tar.type \in {"FILE_HEADER", "BIG_CHUNK"}
      /\ r.tar.type = "BIG_CHUNK" => Left(r.tar) > 0
  BY <1>3, <1>5, <1>8, BigCut
<1>10. data' = [data EXCEPT ![f] = Append(@, Piece(r.cp))]
  BY <1>1, <1>3 DEF Emit
<1>11. data'[f] = Append(data[f], [from |-> Here, to |-> Here + r.cp])
  BY <1>3, <1>6, <1>10 DEF Piece
<1>12. InHand(a, headers[f], data'[f], headerBuffer, r.tar, Here + r.cp)
  <2> HIDE DEF a
  <2>1. InHand(a, headers[f], Append(data[f], [from |-> Here, to |-> Here + r.cp]),
               headerBuffer, r.tar, Here + r.cp)
    BY <1>3, <1>5, <1>7, <1>8, <1>9, HandPiece
  <2> QED BY <1>11, <2>1
<1>13. pc' \in {"cut", "big"} /\ Here' = Here + r.cp
  <2>1. CASE localOffset + cpSum + r.cp = len
    <3>1. Here' = totalOffset + (localOffset + cpSum + r.cp) + 0
      BY <1>1, <1>2, <2>1 DEF Here
    <3> QED BY <1>1, <1>3, <1>9, <2>1, <3>1 DEF Here
  <2>2. CASE localOffset + cpSum + r.cp # len
    <3>1. Here' = totalOffset + localOffset + (cpSum + r.cp)
      BY <1>1, <1>2, <2>2 DEF Here
    <3> QED BY <1>1, <1>2, <1>3, <1>9, <2>2, <3>1 DEF Here
  <2> QED BY <2>1, <2>2
<1>14. Reached' = Here + r.cp
  BY <1>13 DEF Reached
<1>15. InHand(files[f], headers'[f], data'[f], headerBuffer', tar', Reached')
  BY <1>1, <1>2, <1>12, <1>14
<1>16. OthersKept
  BY <1>2, <1>6, <1>10 DEF OthersKept
<1> QED BY <1>2, <1>3, <1>4, <1>7, <1>13, <1>15, <1>16, BackupStep DEF Cutting

-----------------------------------------------------------------------------
(* The restore *)

\* Nothing is restored yet.
LEMMA RestoredNone ==
  ASSUME NEW a, NEW hs, NEW ds, Complete(a, hs, ds), NEW buffer, NEW offset,
         offset = Len(buffer) * BlockSize
  PROVE  RestoredTo(a, hs, ds, <<>>, 0, 0, buffer, offset, 0)
<1>1. /\ hs \in Seq(Seq(Nat)) /\ Len(hs) \in Nat /\ ds \in Seq(Pieces) /\ Len(ds) \in Nat
  BY DEF Complete, Walked, DataBelow
<1>2. Built(<<>>) = 0
  BY DEF Built
<1>3. Tiles(<<>>, 0) /\ <<>> \in Seq(Pieces)
  BY DEF Tiles
<1>4. Split(ds, 0, 0)
  <2>1. \A j \in 1 .. Len(ds) : ds[j] \in Pieces
    BY <1>1
  <2>2. \A j \in 1 .. Len(ds) : ~(j <= 0) /\ 0 <= ds[j].from
    BY <2>1 DEF Pieces
  <2> QED BY <1>1, <2>2 DEF Split
<1>5. Ahead(a, hs, 0, buffer, offset, 0 + 0)
  BY DEF Ahead, StartOf
<1>6. 0 \in 0 .. Len(hs)
  BY <1>1
<1> QED BY <1>2, <1>3, <1>4, <1>5, <1>6 DEF RestoredTo

LEMMA BeginRestoreRebuilds ==
  ASSUME ChunkerInv, RebuildInv, BeginRestore, chunkType' = "TAR_MultiHeader", ~clipped', ~Misled
  PROVE  RebuildInv'
<1>1. /\ pc = "load" /\ f > Len(files) /\ pc' = "restore" /\ f' = 1
      /\ UNCHANGED <<files, chunkType, headers, data, clipped>>
      /\ UNCHANGED <<MultiHeader, MultiHeaderOffset, HeaderP, DataP, BigLeft, out>>
  BY DEF BeginRestore, input, recipes, restorer
<1>2. /\ DOMAIN headers = 1 .. Len(files) /\ DOMAIN data = 1 .. Len(files)
      /\ DOMAIN out = 1 .. Len(files) /\ BackupInv
  BY <1>1 DEF RebuildInv
<1>3. f \in Nat /\ Len(files) \in Nat
  BY FilesFacts DEF ChunkerInv, TypeInv
<1>4. \A n \in 1 .. Len(files) : Complete(files[n], headers[n], data[n])
  BY <1>1, <1>2, <1>3 DEF BackupInv
<1>5. /\ MultiHeader = <<>> /\ MultiHeaderOffset = 0 /\ HeaderP = 0 /\ DataP = 0
      /\ \A n \in 1 .. Len(files) : out[n] = <<>>
  BY <1>2 DEF BackupInv
<1>6. ASSUME 1 <= Len(files)
      PROVE  RestoredTo(files[1], headers[1], data[1], out[1], HeaderP, DataP,
                        MultiHeader, MultiHeaderOffset, 0)
  <2>1. 1 \in 1 .. Len(files)
    BY <1>3, <1>6
  <2>2. Complete(files[1], headers[1], data[1]) /\ out[1] = <<>>
    BY <1>4, <1>5, <2>1
  <2>3. MultiHeaderOffset = Len(MultiHeader) * BlockSize
    BY <1>5, SizeFacts
  <2> QED BY <1>5, <2>2, <2>3, RestoredNone
<1>7. RestoreInv'
  <2>1. \A n \in 1 .. Len(files) : ~(n < 1)
    OBVIOUS
  <2>2. MultiHeader \in Seq(Nat)
    BY <1>5
  <2>3. Pending' = 0
    BY <1>1 DEF Pending
  <2> QED BY <1>1, <1>4, <1>5, <1>6, <2>1, <2>2, <2>3 DEF RestoreInv
<1> QED BY <1>1, <1>2, <1>7 DEF RebuildInv

\* A step that restores more of the file in hand.
LEMMA RestoreStep ==
  ASSUME ChunkerInv, RebuildInv, chunkType = "TAR_MultiHeader", ~clipped, ~Misled,
         pc \in {"restore", "restoreBig"}, f <= Len(files),
         UNCHANGED <<files, chunkType, f, headers, data>>, pc' \in {"restore", "restoreBig"},
         NEW s, out' = [out EXCEPT ![f] = s], MultiHeader' \in Seq(Nat),
         RestoredTo(files[f], headers[f], data[f], s, HeaderP', DataP', MultiHeader',
                    MultiHeaderOffset', Pending'),
         pc' = "restoreBig" => BigLeft' # 0
  PROVE  RebuildInv'
<1>1. /\ DOMAIN headers = 1 .. Len(files) /\ DOMAIN data = 1 .. Len(files)
      /\ DOMAIN out = 1 .. Len(files) /\ RestoreInv
  BY DEF RebuildInv
<1>2. f \in 1 .. Len(files) /\ f \in Nat /\ Len(files) \in Nat
  BY FilesFacts DEF ChunkerInv, TypeInv
<1>3. \A n \in 1 .. Len(files) : n # f => out'[n] = out[n]
  BY <1>1
<1>4. out'[f] = s /\ DOMAIN out' = 1 .. Len(files)
  BY <1>1, <1>2
<1>5. RestoredTo(files[f], headers[f], data[f], out[f], HeaderP, DataP, MultiHeader,
                 MultiHeaderOffset, Pending)'
  BY <1>4
<1>6. /\ \A n \in 1 .. Len(files) : n < f => Tiles(out'[n], files[n].len)
      /\ \A n \in 1 .. Len(files) : n > f => out'[n] = <<>>
  BY <1>1, <1>2, <1>3 DEF RestoreInv
<1>7. RestoreInv'
  BY <1>1, <1>5, <1>6 DEF RestoreInv
<1> QED BY <1>1, <1>4, <1>7 DEF RebuildInv

\* The state of the restore of the file in hand.
LEMMA RestoreFacts ==
  ASSUME ChunkerInv, RebuildInv, pc \in {"restore", "restoreBig"}, ~clipped, ~Misled,
         f <= Len(files)
  PROVE  /\ chunkType = "TAR_MultiHeader" /\ WellFormed(files[f]) /\ f \in 1 .. Len(files)
         /\ DOMAIN out = 1 .. Len(files) /\ MultiHeader \in Seq(Nat)
         /\ Walked(files[f], headers[f]) /\ DataBelow(files[f], data[f], files[f].len)
         /\ StartOf(files[f], headers[f], Len(headers[f]) + 1) = files[f].len
         /\ RestoredTo(files[f], headers[f], data[f], out[f], HeaderP, DataP,
                       MultiHeader, MultiHeaderOffset, Pending)
         /\ headers[f] \in Seq(Seq(Nat)) /\ data[f] \in Seq(Pieces)
<1>1. chunkType = "TAR_MultiHeader" /\ f \in 1 .. Len(files) /\ WellFormed(files[f])
  BY FilesFacts DEF ChunkerInv, TypeInv, Parsing
<1>2. DOMAIN out = 1 .. Len(files) /\ RestoreInv
  BY <1>1 DEF RebuildInv
<1>3. Complete(files[f], headers[f], data[f])
  BY <1>1, <1>2 DEF RestoreInv
<1>4. /\ Walked(files[f], headers[f]) /\ DataBelow(files[f], data[f], files[f].len)
      /\ StartOf(files[f], headers[f], Len(headers[f]) + 1) = files[f].len
  BY <1>3 DEF Complete
<1>5. headers[f] \in Seq(Seq(Nat)) /\ data[f] \in Seq(Pieces)
  BY <1>4 DEF Walked, DataBelow
<1> QED BY <1>1, <1>2, <1>4, <1>5 DEF RestoreInv

\* A new header chunk is read only when the last is used up, and then the
\* header due is its first; otherwise it is the next one of the last.
LEMMA HeaderDueNext ==
  ASSUME NEW a, NEW hs, Walked(a, hs), NEW p \in 0 .. Len(hs), NEW buffer \in Seq(Nat),
         NEW offset, NEW x, Ahead(a, hs, p, buffer, offset, x)
  PROVE  /\ offset = Len(buffer) * BlockSize => x = StartOf(a, hs, p + 1)
         /\ offset = Len(buffer) * BlockSize /\ p # Len(hs) =>
              p + 1 \in 1 .. Len(hs) /\ Len(hs[p + 1]) >= 1 /\ hs[p + 1][1] = x
         /\ offset # Len(buffer) * BlockSize =>
              /\ p \in 1 .. Len(hs) /\ buffer = hs[p]
              /\ \E k \in 1 .. (Len(buffer) - 1) : offset = k * BlockSize /\ x = buffer[k + 1]
<1>1. hs \in Seq(Seq(Nat)) /\ Len(hs) \in Nat /\ Len(buffer) \in Nat
  BY DEF Walked
<1>2. ASSUME offset = Len(buffer) * BlockSize PROVE x = StartOf(a, hs, p + 1)
  <2>1. ASSUME NEW k \in 1 .. (Len(buffer) - 1), offset = k * BlockSize PROVE FALSE
    <3>1. k \in Nat /\ k # Len(buffer)
      BY <1>1
    <3> QED BY <1>1, <1>2, <2>1, <3>1, SizeFacts, MulCancel
  <2> QED BY <2>1 DEF Ahead
<1>3. ASSUME offset = Len(buffer) * BlockSize, p # Len(hs)
      PROVE  p + 1 \in 1 .. Len(hs) /\ Len(hs[p + 1]) >= 1 /\ hs[p + 1][1] = x
  <2>1. p + 1 \in 1 .. Len(hs)
    BY <1>1, <1>3
  <2>2. Chained(a, hs[p + 1], StartOf(a, hs, p + 1))
    BY <2>1 DEF Walked
  <2> QED BY <1>2, <1>3, <2>1, <2>2 DEF Chained
<1>4. ASSUME offset # Len(buffer) * BlockSize
      PROVE  /\ p \in 1 .. Len(hs) /\ buffer = hs[p]
             /\ \E k \in 1 .. (Len(buffer) - 1) : offset = k * BlockSize /\ x = buffer[k + 1]
  BY <1>4 DEF Ahead
<1> QED BY <1>2, <1>3, <1>4

\* One header, with the data chunk of a member that is not big.
LEMMA RestoreHeaderRebuilds ==
  ASSUME ChunkerInv, RebuildInv, RestoreHeader, chunkType' = "TAR_MultiHeader", ~clipped', ~Misled
  PROVE  RebuildInv'
<1> DEFINE a == files[f]
           hs == headers[f]
           ds == data[f]
           s == out[f]
           x == Built(s)
           refill == MultiHeaderOffset = MultiHeaderChunkSize /\ HeaderP # Len(hs)
           buffer == IF refill THEN hs[HeaderP + 1] ELSE MultiHeader
           offset == IF refill THEN 0 ELSE MultiHeaderOffset
           k == offset \div BlockSize + 1
           h == Parsed([tar EXCEPT !.type = "FILE_HEADER"], a.header[buffer[k]])
           block == [from |-> buffer[k], to |-> buffer[k] + BlockSize]
           more == TakesData(h)
<1>1. /\ pc = "restore" /\ f <= Len(files)
      /\ UNCHANGED <<files, chunkType, f, headers, data, clipped>>
  BY DEF RestoreHeader, input, recipes
<1>2. /\ k <= Len(buffer)
      /\ MultiHeader' = buffer /\ MultiHeaderOffset' = offset + BlockSize
      /\ HeaderP' = IF refill THEN HeaderP + 1 ELSE HeaderP
  BY DEF RestoreHeader
<1>3. /\ out' = [out EXCEPT ![f] =
           IF more /\ h.type = "FILE_CHUNK" THEN s \o <<block, ds[DataP + 1]>>
           ELSE Append(s, block)]
      /\ DataP' = IF more /\ h.type = "FILE_CHUNK" THEN DataP + 1 ELSE DataP
      /\ IF more /\ h.type = "BIG_CHUNK"
         THEN BigLeft' = h.bigSize /\ pc' = "restoreBig"
         ELSE UNCHANGED <<BigLeft, pc>>
  BY DEF RestoreHeader
<1>4. more <=> h.size # 0 /\ DataP # Len(ds)
  BY DEF TakesData
<1>5. /\ chunkType = "TAR_MultiHeader" /\ WellFormed(a) /\ f \in 1 .. Len(files)
      /\ MultiHeader \in Seq(Nat) /\ Walked(a, hs) /\ DataBelow(a, ds, a.len)
      /\ RestoredTo(a, hs, ds, s, HeaderP, DataP, MultiHeader, MultiHeaderOffset, 0)
  BY <1>1, RestoreFacts DEF Pending
<1>6. tar \in Tars
  BY DEF ChunkerInv, TypeInv
<1> DEFINE t == [tar EXCEPT !.type = "FILE_HEADER"]
<1>7. t \in Tars /\ t.type = "FILE_HEADER"
  BY <1>6 DEF Tars
<1> HIDE DEF a, hs, ds, s, h, more, t
<1>8. /\ s \in Seq(Pieces) /\ x \in Nat /\ Tiles(s, x) /\ HeaderP \in 0 .. Len(hs)
      /\ Split(ds, DataP, x) /\ Ahead(a, hs, HeaderP, MultiHeader, MultiHeaderOffset, x)
  BY <1>5 DEF RestoredTo
<1>9. /\ HeaderP' \in 1 .. Len(hs) /\ buffer = hs[HeaderP'] /\ k \in 1 .. Len(hs[HeaderP'])
      /\ buffer[k] = x /\ MultiHeaderOffset' = k * BlockSize /\ buffer \in Seq(Nat)
  <2>1. /\ hs \in Seq(Seq(Nat)) /\ Len(hs) \in Nat /\ Len(MultiHeader) \in Nat
        /\ BlockSize \in Nat \ {0}
    BY <1>5, SizeFacts DEF Walked
  <2> HIDE DEF x
  <2>2. /\ refill => HeaderP + 1 \in 1 .. Len(hs) /\ Len(hs[HeaderP + 1]) >= 1
                     /\ hs[HeaderP + 1][1] = x
        /\ MultiHeaderOffset # MultiHeaderChunkSize =>
              /\ HeaderP \in 1 .. Len(hs) /\ MultiHeader = hs[HeaderP]
              /\ \E i \in 1 .. (Len(MultiHeader) - 1) :
                   MultiHeaderOffset = i * BlockSize /\ x = MultiHeader[i + 1]
    BY <1>5, <1>8, HeaderDueNext DEF MultiHeaderChunkSize
  <2>3. CASE refill
    <3>1. buffer = hs[HeaderP + 1] /\ offset = 0 /\ HeaderP' = HeaderP + 1
      BY <1>2, <2>3
    <3>2. k = 1
      <4>1. 0 \div BlockSize = 0
        BY <2>1
      <4> QED BY <3>1, <4>1
    <3> HIDE DEF refill, k
    <3>3. hs[HeaderP + 1] \in Seq(Nat)
      BY <2>1, <2>2, <2>3
    <3>4. Len(hs[HeaderP + 1]) \in Nat
      BY <3>3
    <3>5. 1 \in 1 .. Len(hs[HeaderP + 1])
      BY <2>2, <2>3, <3>4
    <3>6. MultiHeaderOffset' = 1 * BlockSize
      BY <1>2, <2>1, <3>1
    <3> QED BY <2>2, <2>3, <3>1, <3>2, <3>3, <3>5, <3>6
  <2>4. CASE ~refill
    <3>1. buffer = MultiHeader /\ offset = MultiHeaderOffset /\ HeaderP' = HeaderP
      BY <1>2, <2>4
    <3>2. CASE MultiHeaderOffset = MultiHeaderChunkSize
      <4>1. k = Len(MultiHeader) + 1
        BY <2>1, <3>1, <3>2, MulDiv DEF MultiHeaderChunkSize
      <4> QED BY <1>2, <2>1, <3>1, <4>1
    <3>3. CASE MultiHeaderOffset # MultiHeaderChunkSize
      <4>1. PICK i \in 1 .. (Len(MultiHeader) - 1) :
               MultiHeaderOffset = i * BlockSize /\ x = MultiHeader[i + 1]
        BY <2>2, <3>3
      <4>2. i \in Nat /\ i + 1 \in 1 .. Len(MultiHeader)
        BY <2>1
      <4>3. k = i + 1
        BY <2>1, <3>1, <4>1, <4>2, MulDiv
      <4>4. i * BlockSize + BlockSize = (i + 1) * BlockSize
        BY <2>1, <4>2
      <4>5. MultiHeaderOffset' = (i + 1) * BlockSize
        BY <1>2, <3>1, <4>1, <4>4
      <4> HIDE DEF refill, k
      <4> QED BY <1>5, <2>2, <3>1, <3>3, <4>1, <4>2, <4>3, <4>5
    <3> QED BY <3>2, <3>3
  <2> QED BY <2>3, <2>4
<1>10. block = [from |-> x, to |-> x + BlockSize] /\ h = Parsed(t, a.header[x])
  BY <1>9 DEF h, t
<1> HIDE DEF x, refill, buffer, offset, k, block
<1>11. /\ x \in DOMAIN a.header /\ Guides(a, x)
       /\ Ahead(a, hs, HeaderP', MultiHeader', MultiHeaderOffset', After(a, x))
  <2>1. /\ Guides(a, hs[HeaderP'][k])
        /\ Ahead(a, hs, HeaderP', hs[HeaderP'], k * BlockSize, After(a, hs[HeaderP'][k]))
    BY <1>5, <1>9, AheadNext
  <2> QED BY <1>2, <1>9, <2>1 DEF Guides
<1>12. /\ After(a, x) = x + BlockSize + DataSize(a.header[x]) /\ After(a, x) \in Nat
       /\ DataSize(a.header[x]) \in Nat
  BY <1>5, <1>11, MemberFacts
<1>13. /\ h.size = a.header[x].size /\ a.header[x].size \in Nat
       /\ a.header[x].size = 0 <=> DataSize(a.header[x]) = 0
       /\ h.type = "BIG_CHUNK" <=> IsBig(a.header[x])
       /\ IsBig(a.header[x]) => a.header[x].size > 0 /\ h.bigSize = DataSize(a.header[x])
       /\ ~IsBig(a.header[x]) /\ a.header[x].size > 0 => h.type = "FILE_CHUNK"
  BY <1>5, <1>7, <1>10, <1>11, ParsedKind
<1>14. Split(ds, DataP, x + BlockSize)
  BY <1>5, <1>8, <1>11, SkipHeader
<1>15. block \in Pieces /\ block.from = x /\ block.to = x + BlockSize /\ x < x + BlockSize
  BY <1>8, <1>10, SizeFacts DEF Pieces
<1> DEFINE e == Append(s, block)
<1>16. e \in Seq(Pieces) /\ Tiles(e, x + BlockSize) /\ Built(e) = x + BlockSize
  BY <1>8, <1>15, TilesAppend
<1> HIDE DEF e
<1>17. x + BlockSize \in Nat /\ HeaderP' \in 0 .. Len(hs) /\ MultiHeader' \in Seq(Nat)
  BY <1>2, <1>8, <1>9, SizeFacts
<1>18. CASE h.size = 0
  <2>1. ~more /\ h.type # "BIG_CHUNK" /\ DataSize(a.header[x]) = 0
    BY <1>4, <1>13, <1>18
  <2>2. out' = [out EXCEPT ![f] = e] /\ DataP' = DataP /\ pc' = "restore"
    BY <1>1, <1>3, <2>1 DEF e
  <2>3. After(a, x) = x + BlockSize + 0
    BY <1>12, <2>1
  <2>4. RestoredTo(a, hs, ds, e, HeaderP', DataP', MultiHeader', MultiHeaderOffset', 0)
    BY <1>11, <1>14, <1>16, <1>17, <2>2, <2>3 DEF RestoredTo
  <2>5. Pending' = 0
    BY <2>2 DEF Pending
  <2> QED BY <1>1, <1>5, <1>17, <2>2, <2>4, <2>5, RestoreStep DEF a, hs, ds
<1>19. CASE h.size # 0
  <2>1. DataSize(a.header[x]) > 0
    BY <1>12, <1>13, <1>19
  <2>2. x + BlockSize < After(a, x) /\ x + BlockSize <= x + BlockSize
    BY <1>12, <1>17, <2>1
  <2> DEFINE d == ds[DataP + 1]
  <2>3. /\ DataP \in Nat /\ Len(ds) \in Nat /\ DataP < Len(ds)
        /\ d \in Pieces /\ d.from = x + BlockSize /\ x + BlockSize < d.to
        /\ ~IsBig(a.header[x]) => d.to = After(a, x)
        /\ Split(ds, DataP + 1, d.to)
    BY <1>5, <1>11, <1>14, <1>17, <2>2, NextPiece
  <2>4. more
    BY <1>4, <1>19, <2>3
  <2>5. CASE IsBig(a.header[x])
    <3>1. h.type = "BIG_CHUNK" /\ h.bigSize = DataSize(a.header[x])
      BY <1>13, <2>5
    <3>2. /\ out' = [out EXCEPT ![f] = e] /\ DataP' = DataP
          /\ BigLeft' = DataSize(a.header[x]) /\ pc' = "restoreBig"
      BY <1>3, <2>4, <3>1 DEF e
    <3>3. x + BlockSize + BigLeft' = After(a, x) /\ BigLeft' \in Nat /\ BigLeft' # 0
      BY <1>12, <2>1, <3>2
    <3>4. RestoredTo(a, hs, ds, e, HeaderP', DataP', MultiHeader', MultiHeaderOffset', BigLeft')
      <4>1. Ahead(a, hs, HeaderP', MultiHeader', MultiHeaderOffset', Built(e) + BigLeft')
        BY <1>11, <1>16, <3>3
      <4>2. x + BlockSize <= Built(e) /\ Built(e) + BigLeft' = After(a, x)
        BY <1>16, <2>2, <3>3
      <4> QED BY <1>11, <1>14, <1>16, <1>17, <2>5, <3>2, <3>3, <4>1, <4>2 DEF RestoredTo
    <3>5. Pending' = BigLeft'
      BY <3>2 DEF Pending
    <3> QED BY <1>1, <1>5, <1>17, <3>2, <3>3, <3>4, <3>5, RestoreStep DEF a, hs, ds
  <2>6. CASE ~IsBig(a.header[x])
    <3>1. h.type = "FILE_CHUNK"
      BY <1>13, <1>19, <2>6
    <3> HIDE DEF d
    <3>2. /\ out' = [out EXCEPT ![f] = s \o <<block, d>>] /\ DataP' = DataP + 1
          /\ pc' = "restore"
      BY <1>1, <1>3, <2>4, <3>1 DEF d
    <3> DEFINE g == Append(e, d)
    <3>3. s \o <<block, d>> = g
      <4>1. s \in Seq(Pieces) /\ block \in Pieces /\ d \in Pieces
        BY <1>8, <1>15, <2>3
      <4>2. \A T : \A u \in Seq(T) : \A v, w \in T : u \o <<v, w>> = Append(Append(u, v), w)
        OBVIOUS
      <4> QED BY <4>1, <4>2 DEF e
    <3>4. g \in Seq(Pieces) /\ Tiles(g, d.to) /\ Built(g) = d.to
      BY <1>16, <2>3, TilesAppend
    <3> HIDE DEF g
    <3>5. d.to = After(a, x)
      BY <2>3, <2>6
    <3>6. Built(g) = After(a, x) /\ Built(g) + 0 = After(a, x)
      BY <1>12, <3>4, <3>5
    <3>7. RestoredTo(a, hs, ds, g, HeaderP', DataP', MultiHeader', MultiHeaderOffset', 0)
      <4>1. Ahead(a, hs, HeaderP', MultiHeader', MultiHeaderOffset', Built(g) + 0)
        BY <1>11, <3>6
      <4>2. Split(ds, DataP', Built(g)) /\ Tiles(g, Built(g)) /\ Built(g) \in Nat
        BY <1>12, <2>3, <3>2, <3>4, <3>6
      <4> QED BY <1>17, <3>4, <4>1, <4>2 DEF RestoredTo
    <3>8. Pending' = 0
      BY <3>2 DEF Pending
    <3> QED BY <1>1, <1>5, <1>17, <3>2, <3>3, <3>7, <3>8, RestoreStep DEF a, hs, ds
  <2> QED BY <2>5, <2>6
<1> QED BY <1>18, <1>19

\* The next piece of a big member.
LEMMA RestoreBigRebuilds ==
  ASSUME ChunkerInv, RebuildInv, RestoreBig, chunkType' = "TAR_MultiHeader", ~clipped', ~Misled
  PROVE  RebuildInv'
<1> DEFINE a == files[f]
           hs == headers[f]
           ds == data[f]
           s == out[f]
           x == Built(s)
           d == ds[DataP + 1]
<1>1. /\ pc = "restoreBig" /\ DataP' = DataP + 1
      /\ out' = [out EXCEPT ![f] = Append(s, d)]
      /\ BigLeft' = BigLeft - (d.to - d.from)
      /\ pc' = IF BigLeft' = 0 THEN "restore" ELSE "restoreBig"
      /\ UNCHANGED <<files, chunkType, f, headers, data, clipped, MultiHeader,
                     MultiHeaderOffset, HeaderP>>
  BY DEF RestoreBig, input, recipes
<1>2. chunkType = "TAR_MultiHeader" /\ f <= Len(files) /\ BigLeft # 0
  BY <1>1 DEF RebuildInv, RestoreInv
<1>3. /\ WellFormed(a) /\ f \in 1 .. Len(files) /\ MultiHeader \in Seq(Nat)
      /\ DataBelow(a, ds, a.len)
      /\ RestoredTo(a, hs, ds, s, HeaderP, DataP, MultiHeader, MultiHeaderOffset, BigLeft)
  BY <1>1, <1>2, RestoreFacts DEF Pending
<1> HIDE DEF a, hs, ds, s
<1>4. /\ s \in Seq(Pieces) /\ x \in Nat /\ Tiles(s, x) /\ HeaderP \in 0 .. Len(hs)
      /\ BigLeft \in Nat /\ Split(ds, DataP, x)
      /\ Ahead(a, hs, HeaderP, MultiHeader, MultiHeaderOffset, x + BigLeft)
  BY <1>3 DEF RestoredTo
<1>5. PICK o \in DOMAIN a.header :
         o + BlockSize <= x /\ x + BigLeft = After(a, o) /\ IsBig(a.header[o])
  BY <1>2, <1>3 DEF RestoredTo
<1> HIDE DEF x
<1>6. o \in Nat /\ After(a, o) \in Nat /\ x < After(a, o)
  BY <1>2, <1>3, <1>4, <1>5, MemberFacts
<1>7. /\ d \in Pieces /\ d.from = x /\ x < d.to /\ d.to <= After(a, o)
      /\ Split(ds, DataP + 1, d.to)
  BY <1>3, <1>4, <1>5, <1>6, NextPiece
<1> HIDE DEF d
<1>8. d.to \in Nat
  BY <1>7 DEF Pieces
<1> DEFINE e == Append(s, d)
<1>9. e \in Seq(Pieces) /\ Tiles(e, d.to) /\ Built(e) = d.to
  BY <1>4, <1>7, TilesAppend
<1> HIDE DEF e
<1>10. BigLeft' \in Nat /\ d.to + BigLeft' = x + BigLeft /\ o + BlockSize <= d.to
  <2>1. PICK m \in Nat : m = BigLeft
    BY <1>4
  <2>2. PICK y \in Nat : y = d.to
    BY <1>8
  <2>3. BigLeft' = m - (y - x)
    BY <1>1, <1>7, <2>1, <2>2
  <2>4. /\ y <= x + m /\ x < y /\ o + BlockSize <= x /\ x \in Nat /\ o \in Nat
    BY <1>4, <1>5, <1>6, <1>7, <2>1, <2>2
  <2>5. m - (y - x) \in Nat /\ y + (m - (y - x)) = x + m /\ o + BlockSize <= y
    BY ONLY <2>4, m \in Nat, y \in Nat, SizeFacts
  <2> QED BY <2>1, <2>2, <2>3, <2>5
<1>11. RestoredTo(a, hs, ds, e, HeaderP', DataP', MultiHeader', MultiHeaderOffset', BigLeft')
  <2>1. Ahead(a, hs, HeaderP', MultiHeader', MultiHeaderOffset', Built(e) + BigLeft')
    BY <1>1, <1>4, <1>9, <1>10
  <2>2. o + BlockSize <= Built(e) /\ Built(e) + BigLeft' = After(a, o)
    BY <1>5, <1>9, <1>10
  <2>3. Split(ds, DataP', Built(e)) /\ Tiles(e, Built(e)) /\ Built(e) \in Nat
    BY <1>1, <1>7, <1>8, <1>9
  <2> QED BY <1>1, <1>4, <1>5, <1>9, <1>10, <2>1, <2>2, <2>3 DEF RestoredTo
<1>12. Pending' = BigLeft' /\ pc' \in {"restore", "restoreBig"}
       /\ (pc' = "restoreBig" => BigLeft' # 0)
  BY <1>1 DEF Pending
<1>13. out' = [out EXCEPT ![f] = e] /\ MultiHeader' \in Seq(Nat)
  BY <1>1, <1>3 DEF e
<1> QED BY <1>1, <1>2, <1>11, <1>12, <1>13, RestoreStep DEF a, hs, ds

\* The file is restored and the next one begins.
LEMMA EndRestoreRebuilds ==
  ASSUME ChunkerInv, RebuildInv, EndRestore, chunkType' = "TAR_MultiHeader", ~clipped', ~Misled
  PROVE  RebuildInv'
<1> DEFINE a == files[f]
           hs == headers[f]
<1>1. /\ pc = "restore" /\ f <= Len(files) /\ f' = f + 1
      /\ pc' = IF f = Len(files) THEN "finished" ELSE "restore"
      /\ HeaderP' = 0 /\ DataP' = 0
      /\ HeaderP = Len(hs) /\ MultiHeaderOffset = MultiHeaderChunkSize
      /\ UNCHANGED <<files, chunkType, headers, data, clipped, MultiHeader,
                     MultiHeaderOffset, BigLeft, out>>
  BY DEF EndRestore, RestoreMore, input, recipes
<1>2. /\ chunkType = "TAR_MultiHeader" /\ WellFormed(a) /\ f \in 1 .. Len(files)
      /\ MultiHeader \in Seq(Nat) /\ Walked(a, hs)
      /\ StartOf(a, hs, Len(hs) + 1) = a.len
      /\ RestoredTo(a, hs, data[f], out[f], HeaderP, DataP, MultiHeader, MultiHeaderOffset, 0)
  BY <1>1, RestoreFacts DEF Pending
<1>3. /\ DOMAIN headers = 1 .. Len(files) /\ DOMAIN data = 1 .. Len(files)
      /\ DOMAIN out = 1 .. Len(files) /\ RestoreInv
  BY <1>1, <1>2 DEF RebuildInv
<1>4. f \in Nat /\ Len(files) \in Nat
  BY FilesFacts DEF ChunkerInv, TypeInv
<1> HIDE DEF a, hs
<1>5. /\ Built(out[f]) \in Nat /\ Tiles(out[f], Built(out[f])) /\ HeaderP \in 0 .. Len(hs)
      /\ Ahead(a, hs, HeaderP, MultiHeader, MultiHeaderOffset, Built(out[f]))
  BY <1>2 DEF RestoredTo
<1>6. Built(out[f]) = a.len
  <2>1. Built(out[f]) = StartOf(a, hs, HeaderP + 1)
    BY <1>1, <1>2, <1>5, HeaderDueNext DEF MultiHeaderChunkSize
  <2> QED BY <1>1, <1>2, <2>1
<1>7. Tiles(out[f], files[f].len)
  BY <1>5, <1>6 DEF a
<1>8. ASSUME NEW n \in 1 .. Len(files), n < f + 1 PROVE Tiles(out[n], files[n].len)
  <2>1. n < f \/ n = f
    BY <1>4, <1>8
  <2> QED BY <1>3, <1>7, <2>1 DEF RestoreInv
<1>9. ASSUME NEW n \in 1 .. Len(files), n > f + 1 \/ n = f + 1 PROVE out[n] = <<>>
  <2>1. n > f
    BY <1>4, <1>9
  <2> QED BY <1>3, <2>1 DEF RestoreInv
<1>10. \A n \in 1 .. Len(files) : Complete(files[n], headers[n], data[n])
  BY <1>3 DEF RestoreInv
<1>11. ASSUME f + 1 <= Len(files)
       PROVE  RestoredTo(files[f + 1], headers[f + 1], data[f + 1], out[f + 1], 0, 0,
                         MultiHeader, MultiHeaderOffset, 0)
  <2>1. f + 1 \in 1 .. Len(files)
    BY <1>4, <1>11
  <2>2. Complete(files[f + 1], headers[f + 1], data[f + 1]) /\ out[f + 1] = <<>>
    BY <1>9, <1>10, <2>1
  <2> QED BY <1>1, <2>2, RestoredNone DEF MultiHeaderChunkSize
<1>12. Pending' = 0 /\ pc' # "restoreBig" /\ (pc' = "finished" => f + 1 > Len(files))
       /\ pc' \in {"restore", "finished"}
  BY <1>1, <1>4 DEF Pending
<1>13. RestoreInv'
  BY <1>1, <1>2, <1>8, <1>9, <1>10, <1>11, <1>12 DEF RestoreInv
<1> QED BY <1>1, <1>3, <1>12, <1>13 DEF RebuildInv

LEMMA RebuildInit ==
  ASSUME Init
  PROVE  RebuildInv
<1> SUFFICES ASSUME chunkType = "TAR_MultiHeader" PROVE RebuildInv
  BY DEF RebuildInv
<1>1. ChunkerInv
  BY InitHolds
<1>2. DOMAIN files = 1 .. Len(files) /\ Len(files) \in Nat
  BY <1>1, FilesDomain, FilesFacts DEF ChunkerInv
<1>3. /\ f = 1 /\ pc = "load" /\ tar.type = "FILE_HEADER" /\ headerBuffer = <<>>
      /\ headers = [n \in DOMAIN files |-> <<>>] /\ data = [n \in DOMAIN files |-> <<>>]
      /\ MultiHeader = <<>> /\ MultiHeaderOffset = 0 /\ HeaderP = 0 /\ DataP = 0
      /\ out = [n \in DOMAIN files |-> <<>>]
  BY DEF Init, ChunkerInit
<1>4. /\ DOMAIN headers = 1 .. Len(files) /\ DOMAIN data = 1 .. Len(files)
      /\ DOMAIN out = 1 .. Len(files)
      /\ \A n \in 1 .. Len(files) : headers[n] = <<>> /\ data[n] = <<>> /\ out[n] = <<>>
  BY <1>2, <1>3
<1>5. ASSUME f <= Len(files)
      PROVE  InHand(files[f], headers[f], data[f], headerBuffer, tar, Reached)
  <2>1. WellFormed(files[f]) /\ f \in 1 .. Len(files)
    BY <1>1, <1>5, FilesFacts DEF ChunkerInv, Parsing
  <2>2. Reached = 0
    BY <1>3 DEF Reached
  <2> QED BY <1>3, <1>4, <2>1, <2>2, HandNone
<1>6. BackupInv
  <2>1. \A n \in 1 .. Len(files) : ~(n < f)
    BY <1>3
  <2> QED BY <1>3, <1>4, <1>5, <2>1 DEF BackupInv
<1> QED BY <1>3, <1>4, <1>6 DEF RebuildInv

LEMMA RebuildStays ==
  ASSUME RebuildInv, UNCHANGED vars
  PROVE  RebuildInv'
<1>1. /\ UNCHANGED <<files, chunkType, f, pc, totalOffset, localOffset, cpSum, tar,
                     headerBuffer, headers, data, clipped>>
      /\ UNCHANGED <<MultiHeader, MultiHeaderOffset, HeaderP, DataP, BigLeft, out>>
  BY DEF vars, input, window, parser, recipes, restorer
<1>2. Reached' = Reached /\ Pending' = Pending /\ (Misled' <=> Misled)
  <2>1. Reached' = Reached /\ Pending' = Pending
    BY <1>1 DEF Reached, Here, Pending
  <2> QED BY <1>1, <2>1 DEF Misled
<1>3. BackupInv => BackupInv'
  BY <1>1, <1>2 DEF BackupInv
<1>4. RestoreInv => RestoreInv'
  BY <1>1, <1>2 DEF RestoreInv
<1> QED BY <1>1, <1>2, <1>3, <1>4 DEF RebuildInv

\* Behind a header that misleads there is data.
LEMMA MisguidedFacts ==
  ASSUME NEW a, WellFormed(a), NEW p \in Nat, NEW t, Misguided(a, p, t)
  PROVE  p < a.len /\ p \notin DOMAIN a.header
<1> DEFINE o == p - BlockSize
           n == DataSize(a.header[o])
<1>1. o \in DOMAIN a.header /\ Misleads(a.header[o])
  BY DEF Misguided
<1>2. /\ a.header[o].size \in Nat /\ n \in Nat /\ a.len \in Nat
      /\ o + BlockSize + n <= a.len /\ DataAhead(a, o + BlockSize, n)
  BY <1>1, HeaderFacts
<1>3. o + BlockSize = p
  BY SizeFacts
<1>4. n > 0
  BY <1>1, <1>2, RoundUpFacts DEF Misleads, DataSize
<1> HIDE DEF o, n
<1>5. p < a.len
  BY <1>2, <1>3, <1>4
<1>6. p \notin DOMAIN a.header
  BY <1>2, <1>3, <1>4, SizeFacts DEF DataAhead
<1> QED BY <1>5, <1>6

\* A parser that was misled goes astray before the archive ends.
LEMMA MisledStays ==
  ASSUME ChunkerInv, ChunkerInv', Misled, [Next]_vars, chunkType' = "TAR_MultiHeader"
  PROVE  Misled' \/ pc' = "astray"
<1>1. /\ pc \in {"read", "cut", "segment"} /\ f <= Len(files)
      /\ Misguided(files[f], Reached, tar)
  BY DEF Misled
<1>2. /\ totalOffset \in Nat /\ localOffset \in Nat /\ cpSum \in Nat
      /\ tar.type \in {"FILE_HEADER", "FILE_CHUNK"}
      /\ pc # "segment" => cpSum = 0
  BY <1>1 DEF ChunkerInv, TypeInv, WindowInv, Tars, Misguided
<1>3. Reached \in Nat
  BY <1>1, <1>2 DEF Reached, Here
<1>4. ASSUME UNCHANGED <<files, f, tar>>, Reached' = Reached,
             pc' \in {"read", "cut", "segment", "done"}, chunkType = "TAR_MultiHeader"
      PROVE  Misled'
  <2>1. WellFormed(files[f])
    BY <1>1, <1>4, FilesFacts DEF ChunkerInv, Parsing
  <2>2. Reached < files[f].len
    BY <1>1, <1>3, <2>1, MisguidedFacts
  <2>3. pc' # "done"
    <3> SUFFICES ASSUME pc' = "done" PROVE FALSE
      OBVIOUS
    <3>1. totalOffset' = files[f].len /\ Reached' = totalOffset'
      BY <1>4 DEF ChunkerInv, WindowInv, Reached
    <3>2. files[f].len \in Nat
      BY <2>1 DEF WellFormed
    <3> QED BY <1>3, <1>4, <2>2, <3>1, <3>2
  <2> QED BY <1>1, <1>4, <2>3 DEF Misled
<1>5. CASE Read
  <2>1. /\ pc = "read" /\ pc' \in {"done", "cut"} /\ (pc' = "cut" => localOffset' = 0)
        /\ UNCHANGED <<files, chunkType, f, totalOffset, cpSum, tar>>
    BY <1>5 DEF Read, input, parser
  <2>2. Reached' = Reached
    BY <1>2, <2>1 DEF Reached, Here
  <2> QED BY <1>4, <2>1, <2>2
<1>6. CASE EndWindow
  <2>1. /\ pc = "cut" /\ pc' \in {"done", "read"} /\ totalOffset' = totalOffset + localOffset
        /\ UNCHANGED <<files, chunkType, f, tar>>
    BY <1>6 DEF EndWindow, input, parser
  <2>2. Reached' = Reached
    BY <1>2, <2>1 DEF Reached, Here
  <2> QED BY <1>4, <2>1, <2>2
<1>7. CASE StartSegment
  <2>1. /\ pc = "cut" /\ cpSum' = 0 /\ pc' = IF tar.type = "FILE_HEADER" THEN "segment" ELSE "big"
        /\ UNCHANGED <<files, chunkType, f, totalOffset, localOffset, tar>>
    BY <1>7 DEF StartSegment, input, window
  <2>2. tar.type # "FILE_CHUNK"
    BY <2>1 DEF ChunkerInv, SyncInv, Parsing
  <2>3. Reached' = Reached /\ pc' = "segment"
    BY <1>2, <2>1, <2>2 DEF Reached, Here
  <2> QED BY <1>4, <2>1, <2>3
<1>8. CASE SegmentHeader
  <2>1. pc = "segment" /\ Here \in DOMAIN files[f].header /\ chunkType = "TAR_MultiHeader"
    BY <1>8 DEF SegmentHeader, Lost, input
  <2>2. WellFormed(files[f]) /\ Reached = Here
    BY <1>1, <2>1, FilesFacts DEF ChunkerInv, Parsing, Reached
  <2> QED BY <1>1, <1>3, <2>1, <2>2, MisguidedFacts
<1>9. CASE SegmentData
  <2> DEFINE n == len - localOffset - cpSum
  <2>1. PICK r \in CutPointTarFast(Here, n) :
           /\ tar' = r.tar
           /\ IF r.cp > 0 /\ localOffset + cpSum + r.cp = len
              THEN CloseSegment(headerBuffer, cpSum + r.cp)
              ELSE /\ cpSum' = cpSum + r.cp
                   /\ UNCHANGED <<pc, localOffset, headerBuffer, headers>>
    BY <1>9 DEF SegmentData
  <2>2. /\ pc = "segment" /\ tar.type = "FILE_CHUNK"
        /\ UNCHANGED <<files, chunkType, f, totalOffset>>
    BY <1>9 DEF SegmentData, input
  <2>3. /\ WellFormed(files[f]) /\ normalSize \in Nat /\ TarOK(tar) /\ Here \in Nat /\ n \in Nat
    BY <2>2, SegmentFacts
  <2>4. r.cp = Least(RoundUp(tar.size), n) /\ r.tar.type = "FILE_HEADER"
    BY <2>2, <2>3, TarCut
  <2>5. RoundUp(tar.size) = 0
    BY <1>1, <2>2 DEF Misguided, Left
  <2> HIDE DEF n
  <2>6. r.cp = 0
    BY <2>3, <2>4, <2>5 DEF Least
  <2>7. cpSum' = cpSum /\ localOffset' = localOffset /\ pc' = "segment"
    BY <1>2, <2>1, <2>2, <2>6
  <2>8. Reached' = Reached
    BY <2>2, <2>7 DEF Reached, Here
  <2>9. tar'.type = "FILE_HEADER" /\ Left(tar') = 0
    BY <2>1, <2>4 DEF Left
  <2>10. Misguided(files[f], Reached, tar')
    BY <1>1, <2>9 DEF Misguided
  <2> QED BY <1>1, <2>2, <2>7, <2>8, <2>10 DEF Misled
<1>10. CASE EndSegment
  <2>1. /\ pc = "segment" /\ pc' = "cut" /\ cpSum' = 0 /\ localOffset' = localOffset + cpSum
        /\ UNCHANGED <<files, chunkType, f, totalOffset, tar>>
    BY <1>10 DEF EndSegment, CloseSegment, input
  <2>2. totalOffset + (localOffset + cpSum) + 0 = totalOffset + localOffset + cpSum
    BY <1>2
  <2>3. Reached' = Reached
    BY <2>1, <2>2 DEF Reached, Here
  <2> QED BY <1>4, <2>1, <2>3
<1>11. CASE GoAstray
  BY <1>11 DEF GoAstray
<1>12. CASE UNCHANGED vars
  <2>1. UNCHANGED <<files, chunkType, f, pc, totalOffset, localOffset, cpSum, tar>>
    BY <1>12 DEF vars, input, window, parser
  <2>2. Reached' = Reached
    BY <2>1 DEF Reached, Here
  <2> QED BY <1>1, <1>4, <2>1, <2>2
<1>13. CASE CutPlain \/ CutTar
  <2>1. chunkType = "TAR_MultiHeader"
    BY <1>13 DEF CutPlain, CutTar, input
  <2> QED BY <1>13, <2>1 DEF CutPlain, CutTar
<1>14. CASE MTar
  <2>1. pass # "chunk" => chunkType = "MTAR"
    BY DEF ChunkerInv, TypeInv
  <2> QED BY <1>1, <1>14, <2>1 DEF MTar, CutMTar, SecondPass, EndMTar, input
<1>15. ~(Load \/ Done \/ BigData \/ EndBig \/ restoreHeaderFile)
  BY <1>1 DEF Load, Done, BigData, EndBig, restoreHeaderFile, BeginRestore, RestoreHeader,
              RestoreBig, EndRestore
<1> QED BY <1>5, <1>6, <1>7, <1>8, <1>9, <1>10, <1>11, <1>12, <1>13, <1>14, <1>15
        DEF Next, Chunking, CutPointTarHeader, Stopped

\* The steps of the other forms of chunking leave TAR_MultiHeader alone.
LEMMA RebuildNext == ChunkerInv /\ RebuildInv /\ [Next]_vars => RebuildInv'
<1> SUFFICES ASSUME ChunkerInv, RebuildInv, [Next]_vars,
                    chunkType' = "TAR_MultiHeader", ~clipped', pc' # "astray", ~Misled'
             PROVE  RebuildInv'
  BY DEF RebuildInv
<1>0. ~Misled
  BY NextKeeps, MisledStays
<1> USE <1>0
<1>1. CASE Load
  BY <1>1, LoadRebuilds
<1>2. CASE Read
  BY <1>2, ReadRebuilds
<1>3. CASE CutPlain
  BY <1>3 DEF CutPlain, input
<1>4. CASE CutTar
  BY <1>4 DEF CutTar, input
<1>5. CASE EndWindow
  BY <1>5, EndWindowRebuilds
<1>6. CASE Done
  BY <1>6, DoneRebuilds
<1>7. CASE StartSegment
  BY <1>7, StartSegmentRebuilds
<1>8. CASE SegmentHeader
  BY <1>8, SegmentHeaderRebuilds
<1>9. CASE SegmentData
  BY <1>9, SegmentDataRebuilds
<1>10. CASE EndSegment
  BY <1>10, EndSegmentRebuilds
<1>11. CASE BigData
  BY <1>11, BigDataRebuilds
<1>12. CASE EndBig
  BY <1>12, EndBigRebuilds
<1>13. CASE GoAstray
  BY <1>13 DEF GoAstray
<1>14. CASE MTar
  <2>1. pass # "chunk" => chunkType = "MTAR"
    BY DEF ChunkerInv, TypeInv
  <2> QED BY <1>14, <2>1 DEF MTar, CutMTar, SecondPass, EndMTar, input
<1>15. CASE BeginRestore
  BY <1>15, BeginRestoreRebuilds
<1>16. CASE RestoreHeader
  BY <1>16, RestoreHeaderRebuilds
<1>17. CASE RestoreBig
  BY <1>17, RestoreBigRebuilds
<1>18. CASE EndRestore
  BY <1>18, EndRestoreRebuilds
<1>19. CASE UNCHANGED vars
  BY <1>19, RebuildStays
<1> QED BY <1>1, <1>2, <1>3, <1>4, <1>5, <1>6, <1>7, <1>8, <1>9, <1>10, <1>11, <1>12, <1>13,
           <1>14, <1>15, <1>16, <1>17, <1>18, <1>19
        DEF Next, Chunking, CutPointTarHeader, restoreHeaderFile, Stopped

\* restoreHeaderFile puts every archive together again: as long as no window
\* has cut a member short, the header chunks and data chunks CutPointTarHeader
\* pushed, taken in the order of the second parse, tile the archive.
THEOREM RestoreExactHolds == Spec => []RestoreExact
<1>1. ChunkerInv /\ RebuildInv => RestoreExact
  <2> SUFFICES ASSUME ChunkerInv, RebuildInv, chunkType = "TAR_MultiHeader",
                      pc = "finished", ~clipped, NEW n \in DOMAIN files
               PROVE  Tiles(out[n], files[n].len)
    BY DEF RestoreExact
  <2>1. n \in 1 .. Len(files) /\ f \in Nat /\ Len(files) \in Nat
    BY FilesDomain, FilesFacts DEF ChunkerInv, TypeInv
  <2>2. RestoreInv
    BY DEF RebuildInv, Misled
  <2>3. n < f
    BY <2>1, <2>2 DEF RestoreInv
  <2> QED BY <2>1, <2>2, <2>3 DEF RestoreInv
<1>2. Init => RebuildInv
  BY RebuildInit
<1> QED BY <1>1, <1>2, RebuildNext, ChunkerInvHolds, PTL DEF Spec
=============================================================================

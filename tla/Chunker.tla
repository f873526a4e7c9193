------------------------------ MODULE Chunker ------------------------------
(***************************************************************************)
(* Chunker::Chunking (src/src/chunking/chunker.cc): a file is read through *)
(* a window, cut while enough of the window is left, and read again from   *)
(* the last cut.  The cut point comes from a fixed size, from content      *)
(* (FastCDC, Gear) or from parsing the file as a tar archive; the          *)
(* TAR_MultiHeader form separates member headers from member data, and     *)
(* dataWrite::restoreHeaderFile puts them together again by parsing the    *)
(* headers a second time.  The parser's state survives from one backup to  *)
(* the next.  Chunker::MTar rewrites the archives before the first backup,  *)
(* data first and headers behind, which are then cut by content.            *)
(*                                                                          *)
(* A byte of a file is its position, so a chunk is an interval and the      *)
(* restored file is a sequence of intervals.  What a header block says is   *)
(* given by the archive: header[o] is [kind, size] for a header at offset   *)
(* o.  Content-defined cuts are a choice over what the mask can allow.      *)
(***************************************************************************)
EXTENDS Integers, Sequences

CONSTANTS
  Uses,           \* [files, type]: what main may be asked to back up, and the -c
                  \* option: "FIXED_SIZE", "FASTCDC", "GEARCDC", "TAR",
                  \* "TAR_MultiHeader" or "MTAR"
  Uninitialised,  \* values a member that is not initialised may have
  BlockSize,      \* HeaderSize: 512
  ReadSize,       \* READ_FILE_SIZE: bytes of the window
  Margin,         \* CONTAINER_MAX_SIZE * 16: cutting stops below this
  ContainerMax,   \* CONTAINER_MAX_SIZE
  MultiHeaderSize,
  MinChunk, AvgChunk, MaxChunk

ASSUME ChunkerAssumption ==
  /\ {BlockSize, ReadSize, Margin, ContainerMax, MultiHeaderSize,
      MinChunk, AvgChunk, MaxChunk} \subseteq Nat \ {0}
  /\ MinChunk < MaxChunk /\ AvgChunk <= MaxChunk
  /\ MaxChunk < ContainerMax /\ ContainerMax < Margin /\ Margin <= ReadSize
  /\ ContainerMax % BlockSize = 0 /\ MultiHeaderSize % BlockSize = 0
  /\ MultiHeaderSize < ContainerMax
  /\ Uninitialised \subseteq Nat

RoundUp(n) == ((n + BlockSize - 1) \div BlockSize) * BlockSize

Least(a, b) == IF a < b THEN a ELSE b

\* The typeflags as the parser tells them apart: "x" stands for 'x' and
\* GNUTYPE_LONGNAME, "AREGTYPE" is NUL, as in an old regular file and in the
\* zero blocks of the trailer, and "other" is any it does not look at.
TypeFlags == {"REGTYPE", "AREGTYPE", "x", "other"}

\* The data behind a member header.
DataSize(h) == RoundUp(h.size)

\* A tar archive: after a header and its data comes a header or the end.
\* Directories and links have no data; global pax headers, long link names,
\* sparse files and the like do.  A pax header or long name fits a container.
WellFormed(archive) ==
  LET H == DOMAIN archive.header
  IN  /\ archive.len \in Nat
      /\ H \subseteq 0 .. (archive.len - 1)
      /\ archive.len > 0 => 0 \in H
      /\ \A o \in H :
           LET h == archive.header[o]
           IN  /\ h.kind \in TypeFlags /\ h.size \in Nat
               /\ h.kind = "x" => h.size <= ContainerMax
               /\ o + BlockSize + DataSize(h) \in H \union {archive.len}
               /\ \A q \in H : o < q => o + BlockSize + DataSize(h) <= q

ASSUME FilesAssumption ==
  \A u \in Uses :
    /\ u.type \in {"FIXED_SIZE", "FASTCDC", "GEARCDC", "TAR", "TAR_MultiHeader", "MTAR"}
    /\ u.files \in Seq({u.files[n] : n \in DOMAIN u.files})
    /\ \A n \in 1 .. Len(u.files) : u.files[n].len \in Nat
    /\ u.type \in {"TAR", "TAR_MultiHeader", "MTAR"} =>
         \A n \in 1 .. Len(u.files) : WellFormed(u.files[n])

VARIABLES
  files, chunkType,  \* the command line
  normalSize,        \* where CutPointFastCDC changes the mask
  pass,              \* "chunk" in Chunking, "data" and "header" in MTar
  f,                 \* the file in hand
  pc,                \* where Chunking or restoreHeaderFile is
  totalOffset, len, end, localOffset,  \* the window and the cut in it
  tar,               \* Next_Chunk_Type, Next_Chunk_Size, Big_Chunk_Size, Big_Chunk_Offset
  localType, headerBuffer, cpSum,      \* CutPointTarHeader
  headers,           \* headers[n]: header chunks of file n, each a sequence of offsets
  data,              \* data[n]: other chunks of file n, [from, to), if headers are separated
  pushed,            \* pushed[n]: what the chunks of file n cover (history)
  rewritten,         \* what MTar has written of the file in hand: [from, to) at offset at
  clipped,           \* the window cut a member short (history)
  MultiHeader, MultiHeaderOffset, HeaderP, DataP, BigLeft, out  \* restoreHeaderFile

input    == <<files, chunkType, normalSize, pass>>
window   == <<totalOffset, len, end, localOffset>>
parser   == <<tar, localType, headerBuffer, cpSum>>
recipes  == <<headers, data, pushed, rewritten, clipped>>
restorer == <<MultiHeader, MultiHeaderOffset, HeaderP, DataP, BigLeft, out>>
vars == <<input, f, pc, window, parser, recipes, restorer>>

\* CalNormalSize, DivCeil included; the sizes are constants of the class.
CalNormalSize ==
  LET off == Least(AvgChunk, MinChunk + (MinChunk + 1) \div 2)
  IN  Least(MaxChunk, AvgChunk - off)

NoHeaders == [o \in {} |-> [kind |-> "AREGTYPE", size |-> 0]]

\* ChunkerInit computes no normalSize and no masks for MTAR, although MTar and
\* the content-defined chunking behind it use them.
ChunkerInit ==
  /\ normalSize \in IF chunkType = "MTAR" THEN Uninitialised ELSE {CalNormalSize}
  /\ tar = [type |-> "FILE_HEADER", size |-> 0, bigSize |-> 0, bigOffset |-> 0]
  /\ localType = "FILE_HEADER" /\ headerBuffer = <<>>

Init ==
  /\ \E u \in Uses : files = u.files /\ chunkType = u.type
  /\ ChunkerInit
  /\ pass = IF chunkType = "MTAR" THEN "data" ELSE "chunk"
  /\ f = 1 /\ pc = "load"
  /\ totalOffset = 0 /\ len = 0 /\ end = FALSE /\ localOffset = 0
  /\ cpSum = 0
  /\ headers = [n \in DOMAIN files |-> <<>>] /\ data = [n \in DOMAIN files |-> <<>>]
  /\ pushed = [n \in DOMAIN files |-> [upto |-> 0, gapless |-> TRUE, largest |-> 0]]
  /\ rewritten = <<>> /\ clipped = FALSE
  /\ MultiHeader = <<>> /\ MultiHeaderOffset = 0 /\ HeaderP = 0 /\ DataP = 0
  /\ BigLeft = 0 /\ out = [n \in DOMAIN files |-> <<>>]

-----------------------------------------------------------------------------
(* Cut points *)

\* CutPointFastCDC on n bytes: past minChunkSize any cut the masks allow, at
\* most maxChunkSize or normalSize.
CutPointFastCDC(n) ==
  IF n <= MinChunk THEN {n}
  ELSE (MinChunk + 1) .. Least(IF normalSize > MaxChunk THEN normalSize ELSE MaxChunk, n)

\* CutPointGear knows no largest chunk.
CutPointGear(n) == 1 .. n

\* The size and the type of what follows header h.  The size of an AREGTYPE
\* member is set to 0, and a typeflag that is not looked at leaves the type.
NextSize(h) == IF h.kind = "AREGTYPE" THEN 0 ELSE h.size
NextType(type, h) == CASE h.kind = "REGTYPE" /\ h.size > ContainerMax -> "BIG_CHUNK"
                       [] h.kind = "other" -> type
                       [] OTHER -> "FILE_CHUNK"

\* Mutant: the size of a big member is not rounded up to blocks.
Parsed_NotRounded(t, h) ==
  [t EXCEPT
     !.size = NextSize(h),
     !.type = NextType(@, h),
     !.bigSize = IF NextType(t.type, h) = "BIG_CHUNK" THEN h.size ELSE @,
     !.bigOffset = IF NextType(t.type, h) = "BIG_CHUNK" THEN 0 ELSE @]

\* Mutant: no member is big.
Parsed_NeverBig(t, h) ==
  [t EXCEPT !.size = NextSize(h), !.type = IF h.kind = "other" THEN @ ELSE "FILE_CHUNK"]

\* What CutPointTarFast makes of header h in state t.
Parsed(t, h) ==
  [t EXCEPT
     !.size = NextSize(h),
     !.type = NextType(@, h),
     !.bigSize = IF NextType(t.type, h) = "BIG_CHUNK" THEN RoundUp(h.size) ELSE @,
     !.bigOffset = IF NextType(t.type, h) = "BIG_CHUNK" THEN 0 ELSE @]

\* CutPointTarFast at position pos with n bytes left in the window: the cuts
\* it may return, each with the parser's next state.
CutPointTarFast(pos, n) ==
  LET left == tar.bigSize - tar.bigOffset
  IN  CASE tar.type = "FILE_HEADER" ->
             {[cp |-> Least(BlockSize, n), tar |-> Parsed(tar, files[f].header[pos])]}
        [] tar.type = "FILE_CHUNK" ->
             {[cp |-> Least(RoundUp(tar.size), n),
               tar |-> [tar EXCEPT !.type = "FILE_HEADER", !.size = BlockSize]]}
        [] tar.type = "BIG_CHUNK" /\ left > MaxChunk ->
             {[cp |-> c, tar |-> [tar EXCEPT !.bigOffset = @ + c]] :
                c \in CutPointFastCDC(left)}
        [] OTHER -> {[cp |-> left, tar |-> [tar EXCEPT !.type = "FILE_HEADER"]]}

\* Position of the next cut in the file.
Here == totalOffset + localOffset + cpSum
\* A header is due where the file has none: the parser reads member data as
\* a header and nothing is known of what follows.
Lost == tar.type = "FILE_HEADER" /\ Here \notin DOMAIN files[f].header

-----------------------------------------------------------------------------
(* Chunking *)

\* LoadChunkFile, and the start of the next chunker thread.
Load ==
  /\ pc = "load" /\ f <= Len(files)
  /\ pc' = "read" /\ totalOffset' = 0
  /\ UNCHANGED <<input, f, len, end, localOffset, parser, recipes, restorer>>

\* Mutant: the end of the file is seen only when nothing could be read.
Read_EofLate ==
  /\ pc = "read"
  /\ LET left == files[f].len - totalOffset
     IN  /\ end' = (left = 0)
         /\ len' = Least(ReadSize, left)
         /\ pc' = IF left = 0 THEN "done" ELSE "cut"
  /\ localOffset' = IF pc' = "cut" THEN 0 ELSE localOffset
  /\ UNCHANGED <<input, f, totalOffset, parser, recipes, restorer>>

\* Read a window.  eof() is seen only by a read that wants more than there is.
Read ==
  /\ pc = "read"
  /\ LET left == files[f].len - totalOffset
     IN  /\ end' = (left < ReadSize)
         /\ len' = Least(ReadSize, left)
         /\ pc' = IF left = 0 THEN "done" ELSE "cut"
  /\ localOffset' = IF pc' = "cut" THEN 0 ELSE localOffset
  /\ UNCHANGED <<input, f, totalOffset, parser, recipes, restorer>>

\* Mutant: the rest of the window is always cut.
MoreToCut_Greedy == localOffset < len

\* The condition of the inner loops.
MoreToCut ==
  \/ len - localOffset >= IF pass = "chunk" THEN Margin ELSE ContainerMax
  \/ end /\ localOffset < len

Piece(cp) == [from |-> Here, to |-> Here + cp]

\* A chunk of cp bytes is copied and pushed.
Emit(cp) ==
  /\ data' = IF chunkType = "TAR_MultiHeader"
             THEN [data EXCEPT ![f] = Append(@, Piece(cp))] ELSE data
  /\ pushed' = [pushed EXCEPT ![f] =
       [upto |-> Here + cp, gapless |-> @.gapless /\ @.upto = Here /\ cp > 0,
        largest |-> IF cp > @.largest THEN cp ELSE @.largest]]

\* A cut that the end of the window makes, not the file.
Clips(cp) == localOffset + cpSum + cp = len /\ ~end

CutPlain ==
  /\ pc = "cut" /\ MoreToCut
  /\ \E cp \in CASE chunkType = "FIXED_SIZE" -> {Least(AvgChunk, len - localOffset)}
                 [] chunkType = "FASTCDC" -> CutPointFastCDC(len - localOffset)
                 [] chunkType = "GEARCDC" -> CutPointGear(len - localOffset)
                 [] OTHER -> {} :
       /\ Emit(cp)
       /\ localOffset' = localOffset + cp
       /\ clipped' = (clipped \/ Clips(cp))
  /\ UNCHANGED <<input, f, pc, totalOffset, len, end, parser, headers, rewritten, restorer>>

\* A cut of no bytes (a member without data) is dropped.
CutTar ==
  /\ pc = "cut" /\ MoreToCut /\ chunkType = "TAR" /\ ~Lost
  /\ \E r \in CutPointTarFast(Here, len - localOffset) :
       /\ IF r.cp = 0 THEN UNCHANGED <<data, pushed>> ELSE Emit(r.cp)
       /\ localOffset' = localOffset + r.cp
       /\ tar' = r.tar
       /\ clipped' = (clipped \/ (r.cp > 0 /\ Clips(r.cp)))
  /\ UNCHANGED <<input, f, pc, totalOffset, len, end, localType, headerBuffer, cpSum,
                 headers, rewritten, restorer>>

\* Mutant: the next window starts where this one ended.
EndWindow_Skip ==
  /\ pc = "cut" /\ ~MoreToCut
  /\ totalOffset' = totalOffset + len
  /\ pc' = IF end THEN "done" ELSE "read"
  /\ UNCHANGED <<input, f, len, end, localOffset, parser, recipes, restorer>>

\* The window is used up: the next one starts at the last cut.
EndWindow ==
  /\ pc = "cut" /\ ~MoreToCut
  /\ totalOffset' = totalOffset + localOffset
  /\ pc' = IF end THEN "done" ELSE "read"
  /\ UNCHANGED <<input, f, len, end, localOffset, parser, recipes, restorer>>

\* done_ is raised; main goes on to the next file.
Done ==
  /\ pc = "done" /\ pass = "chunk"
  /\ f' = f + 1 /\ pc' = "load"
  /\ UNCHANGED <<input, window, parser, recipes, restorer>>

-----------------------------------------------------------------------------
(* CutPointTarHeader: one segment of members, or a stretch of a big member *)

HeaderCp == Len(headerBuffer) * BlockSize

StartSegment ==
  /\ pc = "cut" /\ MoreToCut /\ chunkType = "TAR_MultiHeader"
  /\ pc' = IF tar.type = "FILE_HEADER" THEN "segment" ELSE "big"
  /\ cpSum' = 0
  /\ UNCHANGED <<input, f, window, tar, localType, headerBuffer, recipes, restorer>>

SegmentOpen ==
  /\ HeaderCp < MultiHeaderSize \/ (localType = "FILE_HEADER" /\ tar.type = "FILE_CHUNK")
  /\ tar.type # "BIG_CHUNK"

\* The header chunk is pushed and the caller moves on by cpSum.
CloseSegment(buffer, sum) ==
  /\ headers' = [headers EXCEPT ![f] = Append(@, buffer)]
  /\ headerBuffer' = <<>>
  /\ localOffset' = localOffset + sum
  /\ cpSum' = 0
  /\ pc' = "cut"

\* A header joins the header buffer.
SegmentHeader ==
  /\ pc = "segment" /\ SegmentOpen /\ tar.type = "FILE_HEADER" /\ ~Lost
  /\ localType' = "FILE_HEADER"
  /\ \E r \in CutPointTarFast(Here, len - localOffset - cpSum) :
       IF localOffset + cpSum + r.cp = len
       THEN /\ CloseSegment(Append(headerBuffer, Here), cpSum + r.cp)
            /\ tar' = [r.tar EXCEPT !.type = "FILE_HEADER"]
            /\ clipped' = (clipped \/ r.cp < BlockSize
                             \/ (r.tar.type # "FILE_HEADER" /\ r.tar.size > 0))
       ELSE /\ headerBuffer' = Append(headerBuffer, Here)
            /\ cpSum' = cpSum + r.cp
            /\ tar' = r.tar
            /\ UNCHANGED <<pc, localOffset, headers, clipped>>
  /\ UNCHANGED <<input, f, totalOffset, len, end, data, pushed, rewritten, restorer>>

\* The data of a member is pushed; of no data there is no chunk.
SegmentData ==
  /\ pc = "segment" /\ SegmentOpen /\ tar.type = "FILE_CHUNK"
  /\ localType' = "FILE_CHUNK"
  /\ \E r \in CutPointTarFast(Here, len - localOffset - cpSum) :
       /\ IF r.cp = 0 THEN UNCHANGED <<data, pushed>> ELSE Emit(r.cp)
       /\ clipped' = (clipped \/ r.cp < RoundUp(tar.size))
       /\ tar' = r.tar
       /\ IF r.cp > 0 /\ localOffset + cpSum + r.cp = len
          THEN CloseSegment(headerBuffer, cpSum + r.cp)
          ELSE /\ cpSum' = cpSum + r.cp
               /\ UNCHANGED <<pc, localOffset, headers, headerBuffer>>
  /\ UNCHANGED <<input, f, totalOffset, len, end, rewritten, restorer>>

EndSegment ==
  /\ pc = "segment" /\ ~SegmentOpen
  /\ CloseSegment(headerBuffer, cpSum)
  /\ UNCHANGED <<input, f, totalOffset, len, end, tar, localType, data, pushed, rewritten,
                 clipped, restorer>>

\* Pieces of a big member.
BigOpen == tar.type # "FILE_HEADER" /\ cpSum < ContainerMax - MaxChunk

BigData ==
  /\ pc = "big" /\ BigOpen
  /\ localType' = tar.type
  /\ \E r \in CutPointTarFast(Here, len - localOffset - cpSum) :
       /\ Emit(r.cp)
       /\ tar' = r.tar
       /\ IF localOffset + cpSum + r.cp = len
          THEN pc' = "cut" /\ localOffset' = len /\ cpSum' = 0
          ELSE cpSum' = cpSum + r.cp /\ UNCHANGED <<pc, localOffset>>
  /\ UNCHANGED <<input, f, totalOffset, len, end, headerBuffer, headers, rewritten, clipped,
                 restorer>>

EndBig ==
  /\ pc = "big" /\ ~BigOpen
  /\ localOffset' = localOffset + cpSum
  /\ cpSum' = 0 /\ pc' = "cut"
  /\ UNCHANGED <<input, f, totalOffset, len, end, tar, localType, headerBuffer, recipes,
                 restorer>>

\* The parser is about to be used.
ParserDue ==
  \/ (chunkType = "TAR" \/ pass # "chunk") /\ pc = "cut" /\ MoreToCut
  \/ pc = "segment" /\ SegmentOpen

\* Where a header is expected there is member data.
GoAstray ==
  /\ ParserDue /\ Lost
  /\ pc' = "astray"
  /\ UNCHANGED <<input, f, window, parser, recipes, restorer>>

-----------------------------------------------------------------------------
(* MTar: two passes over each archive through the window of Chunking *)

\* Bytes in the file MTar writes.
Written ==
  IF rewritten = <<>> THEN 0
  ELSE LET p == rewritten[Len(rewritten)] IN p.at + (p.to - p.from)

\* A member header is written in the second pass, anything else in the first.
\* A cut past the window leaves what follows undefined.
CutMTar ==
  /\ pc = "cut" /\ MoreToCut /\ pass # "chunk" /\ ~Lost
  /\ localType' = tar.type
  /\ \E r \in CutPointTarFast(Here, len - localOffset) :
       /\ rewritten' = IF r.cp > 0 /\ (tar.type = "FILE_HEADER" <=> pass = "header")
                       THEN Append(rewritten, [from |-> Here, to |-> Here + r.cp, at |-> Written])
                       ELSE rewritten
       /\ localOffset' = localOffset + r.cp
       /\ tar' = r.tar
       /\ clipped' = (clipped \/ (tar.type = "FILE_CHUNK" /\ r.cp < RoundUp(tar.size)))
       /\ pc' = IF localOffset' > len THEN "astray" ELSE "cut"
  /\ UNCHANGED <<input, f, totalOffset, len, end, headerBuffer, cpSum, headers, data, pushed,
                 restorer>>

ResetParser == localType' = "FILE_HEADER" /\ tar' = [tar EXCEPT !.type = "FILE_HEADER"]

\* The data is written: the archive is read from the start again.
SecondPass ==
  /\ pc = "done" /\ pass = "data"
  /\ ResetParser
  /\ pass' = "header" /\ pc' = "load"
  /\ UNCHANGED <<files, chunkType, normalSize, f, window, headerBuffer, cpSum, recipes, restorer>>

\* The rewritten file takes the place of the archive; behind the last one
\* chunkType becomes FASTCDC and the backups begin.
EndMTar ==
  /\ pc = "done" /\ pass = "header"
  /\ ResetParser
  /\ files' = [files EXCEPT ![f] = [len |-> Written, header |-> NoHeaders]]
  /\ rewritten' = <<>> /\ pc' = "load"
  /\ IF f < Len(files)
     THEN f' = f + 1 /\ pass' = "data" /\ UNCHANGED chunkType
     ELSE f' = 1 /\ pass' = "chunk" /\ chunkType' = "FASTCDC"
  /\ UNCHANGED <<normalSize, window, headerBuffer, cpSum, headers, data, pushed, clipped, restorer>>

-----------------------------------------------------------------------------
(* restoreHeaderFile: its parser has a state of its own, of which only what  *)
(* the header just read says matters.  It does not set the size of an        *)
(* AREGTYPE member to 0; of these only the zero blocks come this far.        *)

\* Every file is backed up.  Restoring from the two recipes is only needed
\* when headers were separated.
BeginRestore ==
  /\ pc = "load" /\ f > Len(files)
  /\ IF chunkType = "TAR_MultiHeader" THEN pc' = "restore" /\ f' = 1
                                      ELSE pc' = "finished" /\ f' = f
  /\ UNCHANGED <<input, window, parser, recipes, restorer>>

MultiHeaderChunkSize == Len(MultiHeader) * BlockSize

RestoreMore ==
  HeaderP # Len(headers[f]) \/ DataP # Len(data[f])
    \/ MultiHeaderOffset # MultiHeaderChunkSize

\* Mutant: an empty member takes a data chunk too.
TakesData_Always(h) == DataP # Len(data[f])

\* Header h is followed by data.
TakesData(h) == h.size # 0 /\ DataP # Len(data[f])

\* One header, read from a new header chunk if the last one is used up, and
\* the data chunk that goes with it.
RestoreHeader ==
  /\ pc = "restore" /\ f <= Len(files) /\ RestoreMore
  /\ LET refill == MultiHeaderOffset = MultiHeaderChunkSize /\ HeaderP # Len(headers[f])
         buffer == IF refill THEN headers[f][HeaderP + 1] ELSE MultiHeader
         offset == IF refill THEN 0 ELSE MultiHeaderOffset
         k == offset \div BlockSize + 1
     IN  /\ k <= Len(buffer)
         /\ MultiHeader' = buffer /\ MultiHeaderOffset' = offset + BlockSize
         /\ HeaderP' = IF refill THEN HeaderP + 1 ELSE HeaderP
         /\ LET h == Parsed([tar EXCEPT !.type = "FILE_HEADER"], files[f].header[buffer[k]])
                block == [from |-> buffer[k], to |-> buffer[k] + BlockSize]
                more == TakesData(h)
            IN  /\ out' = [out EXCEPT ![f] =
                      IF more /\ h.type = "FILE_CHUNK"
                      THEN @ \o <<block, data[f][DataP + 1]>> ELSE Append(@, block)]
                /\ DataP' = IF more /\ h.type = "FILE_CHUNK" THEN DataP + 1 ELSE DataP
                /\ IF more /\ h.type = "BIG_CHUNK"
                   THEN BigLeft' = h.bigSize /\ pc' = "restoreBig"
                   ELSE UNCHANGED <<BigLeft, pc>>
  /\ UNCHANGED <<input, f, window, parser, recipes>>

\* The next piece of a big member.
RestoreBig ==
  /\ pc = "restoreBig" /\ DataP < Len(data[f])
  /\ LET d == data[f][DataP + 1]
     IN  out' = [out EXCEPT ![f] = Append(@, d)] /\ BigLeft' = BigLeft - (d.to - d.from)
  /\ DataP' = DataP + 1
  /\ pc' = IF BigLeft' = 0 THEN "restore" ELSE "restoreBig"
  /\ UNCHANGED <<input, f, window, parser, recipes, MultiHeader, MultiHeaderOffset, HeaderP>>

EndRestore ==
  /\ pc = "restore" /\ f <= Len(files) /\ ~RestoreMore
  /\ f' = f + 1
  /\ pc' = IF f = Len(files) THEN "finished" ELSE "restore"
  /\ HeaderP' = 0 /\ DataP' = 0
  /\ UNCHANGED <<input, window, parser, recipes, MultiHeader, MultiHeaderOffset, BigLeft, out>>

-----------------------------------------------------------------------------
Stopped == pc \in {"finished", "astray"} /\ UNCHANGED vars

Chunking == Load \/ Read \/ CutPlain \/ CutTar \/ EndWindow \/ Done
CutPointTarHeader ==
  StartSegment \/ SegmentHeader \/ SegmentData \/ EndSegment \/ BigData \/ EndBig \/ GoAstray
MTar == CutMTar \/ SecondPass \/ EndMTar
restoreHeaderFile == BeginRestore \/ RestoreHeader \/ RestoreBig \/ EndRestore

Next == Chunking \/ CutPointTarHeader \/ MTar \/ restoreHeaderFile \/ Stopped

\* A thread that can go on is scheduled.
Spec == Init /\ [][Next]_vars /\ WF_vars(Next)

-----------------------------------------------------------------------------
(* Properties *)

\* The pieces follow each other without gap, overlap or empty piece, from 0 to n.
Tiles(pieces, n) ==
  /\ \A k \in 1 .. Len(pieces) :
       /\ pieces[k].from = IF k = 1 THEN 0 ELSE pieces[k - 1].to
       /\ pieces[k].from < pieces[k].to
  /\ n = IF pieces = <<>> THEN 0 ELSE pieces[Len(pieces)].to

\* MTAR happens to find a normalSize that does no harm.
Initialised == normalSize <= MaxChunk

BytesOf(p) == p.from .. (p.to - 1)

\* The rewritten file has every byte of the archive once, headers behind data
\* and each in its order.
MTarComplete ==
  LET isHeader(p) == p.from \in DOMAIN files[f].header
  IN  /\ UNION {BytesOf(rewritten[k]) : k \in DOMAIN rewritten} = 0 .. (files[f].len - 1)
      /\ \A j, k \in DOMAIN rewritten :
           j < k => \/ isHeader(rewritten[k]) /\ ~isHeader(rewritten[j])
                    \/ /\ isHeader(rewritten[j]) <=> isHeader(rewritten[k])
                       /\ rewritten[j].to <= rewritten[k].from

\* However windows and cuts fall, the chunks pushed tile each file exactly:
\* the bytes read again after a window and the window's unused rest are
\* neither lost nor pushed twice.  So do the pieces MTar moves.
Partition ==
  /\ chunkType # "TAR_MultiHeader" =>
       \A n \in DOMAIN files :
         /\ pushed[n].gapless
         /\ n < f /\ pass = "chunk" => pushed[n].upto = files[n].len
         /\ n = f /\ pc = "cut" /\ pass = "chunk" => pushed[n].upto = Here
  /\ pc = "done" /\ pass = "header" => MTarComplete

\* Except with Gear, which knows no largest chunk, and with MTAR if normalSize
\* happens to be large, the window is invisible:
\* no chunk ends where the window ends unless the file ends there, so that
\* the same data is cut alike wherever it lies.
WindowInvisible ==
  chunkType \notin {"GEARCDC", "TAR_MultiHeader"} /\ Initialised => ~clipped

\* With the same exceptions every chunk fits into a container, which is what
\* the container buffer of dataWrite relies on.
FitsContainer ==
  chunkType # "GEARCDC" /\ Initialised =>
    \A n \in DOMAIN files : pushed[n].largest <= ContainerMax

\* A member with data whose header makes the parser expect none.
Misleads(h) == h.kind \in {"AREGTYPE", "other"} /\ h.size > 0

\* As long as the window has cut no member short, the tar parser finds a
\* header wherever it expects one, across windows, big members and backups,
\* except right behind the header of a member with data whose typeflag
\* CutPointTarFast does not look at, or is AREGTYPE.
AstrayOnlyIfMisled ==
  ~clipped /\ ParserDue /\ Lost =>
    /\ Here - BlockSize \in DOMAIN files[f].header
    /\ Misleads(files[f].header[Here - BlockSize])

\* Unless the chunker went astray before or the window cut a member short,
\* restoreHeaderFile puts every archive together again from its header chunks
\* and its data chunks, which two parsers walked separately.
RestoreExact ==
  chunkType = "TAR_MultiHeader" /\ pc = "finished" /\ ~clipped =>
    \A n \in DOMAIN files : Tiles(out[n], files[n].len)

\* Chunking and restoring come to an end.
Terminates == <>(pc \in {"finished", "astray"})
=============================================================================

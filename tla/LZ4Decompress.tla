--------------------------- MODULE LZ4Decompress ----------------------------
(***************************************************************************)
(* LZ4_decompress_safe (src/src/util/lz4.c): LZ4_decompress_generic with   *)
(* endOnInputSize, decode_full_block and noDict, and with the fast loop of *)
(* the x86 builds.  Copies are made as the code makes them, in strides     *)
(* that may run past their end, from an output that may overlap itself; an *)
(* action ends at a label of the code or where the literals of a sequence  *)
(* end.  A memcpy whose two ranges overlap, or that leaves a buffer, makes *)
(* inBounds false.                                                         *)
(***************************************************************************)
EXTENDS LZ4Compress

CONSTANT
  LostBytes   \* at most so many bytes at the end of a block do not come back

ASSUME LostAssumption == LostBytes \in Nat

FASTLOOP_SAFE_DISTANCE == 64
MATCH_SAFEGUARD_DISTANCE == 2 * WILDCOPYLENGTH - MINMATCH

VARIABLES
  dst, inBounds,        \* the output buffer; no access outside so far
  iend, oend,           \* bytes of the block, and of the output buffer
  dIp, dOp,             \* ip and op
  dToken, length, offset,
  dPc, decoded          \* the label it is at; the value returned

dvars == <<dst, inBounds, iend, oend, dIp, dOp, dToken, length, offset, dPc, decoded>>

\* What the output buffer holds before it is written.
Garbage == -1

-----------------------------------------------------------------------------
(* Copies: a buffer is a record of its bytes and of whether all was in bounds *)

Buffer == [bytes |-> dst, ok |-> inBounds]

Disjoint(d, s, n) == s + n <= d \/ d + n <= s

\* memcpy(d, s, n) inside the output; one byte is an assignment.
Copy(b, d, s, n) ==
  [bytes |-> [k \in 0 .. (oend - 1) |->
                IF k \in d .. (d + n - 1) /\ s + k - d \in 0 .. (oend - 1)
                THEN b.bytes[s + k - d] ELSE b.bytes[k]],
   ok |-> b.ok /\ s >= 0 /\ s + n <= oend /\ d + n <= oend /\ (n = 1 \/ Disjoint(d, s, n))]

\* The same from the block.
CopyIn(b, d, s, n) ==
  [bytes |-> [k \in 0 .. (oend - 1) |->
                IF k \in d .. (d + n - 1) /\ s + k - d < iend
                THEN out[s + k - d + 1] ELSE b.bytes[k]],
   ok |-> b.ok /\ s + n <= iend /\ d + n <= oend]

\* n times w bytes: a copy reads what those before it wrote.
CopyLoop(b, d, s, w, n) ==
  LET after[k \in 0 .. n] ==
        IF k = 0 THEN b ELSE Copy(after[k - 1], d + w * (k - 1), s + w * (k - 1), w)
  IN  after[n]

\* *op++ = *match++, n times.
CopyBytes(b, d, s, n) == CopyLoop(b, d, s, 1, n)

\* Strides of w bytes from d to at least e.
Strides(b, d, s, e, w) == CopyLoop(b, d, s, w, IF e <= d THEN 1 ELSE (e - d + w - 1) \div w)

LZ4_wildCopy8(b, d, s, e) == Strides(b, d, s, e, 8)
LZ4_wildCopy32(b, d, s, e) ==   \* two times sixteen bytes
  Strides(b, d, s, d + 32 * (IF e <= d THEN 1 ELSE (e - d + 31) \div 32), 16)

inc32table == <<0, 1, 2, 1, 0, 4, 4, 4>>

dec64table == <<0, 0, 0, -1, -4, 1, 2, 3>>

\* The first eight bytes of a match at distance d - s, and where its source
\* continues: the distance from there to d + 8 is a multiple that is >= 8.
FirstEight(b, d, s, off) ==
  IF off < 8
  THEN Copy(CopyBytes(b, d, s, 4), d + 4, s + inc32table[off + 1], 4)
  ELSE Copy(b, d, s, 8)

AfterEight(s, off) ==
  IF off < 8 THEN s + inc32table[off + 1] - dec64table[off + 1] ELSE s + 8

\* LZ4_memcpy_using_offset: a match at a small distance, in strides of eight.
\* At distance 1, 2 and 4 the pattern is kept in a register.
LZ4_memcpy_using_offset(b, d, s, e, off) ==
  LET n == 8 * (IF e <= d + 8 THEN 1 ELSE (e - d + 7) \div 8)
  IN  IF off \in {1, 2, 4}
      THEN [bytes |-> [k \in 0 .. (oend - 1) |->
                         IF k \in d .. (d + n - 1) THEN b.bytes[s + ((k - d) % off)]
                         ELSE b.bytes[k]],
            ok |-> b.ok /\ s >= 0 /\ d + n <= oend]
      ELSE LZ4_wildCopy8(FirstEight(b, d, s, off), d + 8, AfterEight(s, off), e)

-----------------------------------------------------------------------------
(* The block *)

In(p) == IF p < iend THEN out[p + 1] ELSE 0
LZ4_readLE16(p) == In(p) + 256 * In(p + 1)

\* read_variable_length: bytes up to the first that is not 255, unless the
\* check stops it.
read_variable_length(p, lencheck) ==
  LET last == Min({q \in p .. iend : In(q) # 255 \/ q + 1 >= lencheck})
  IN  [len |-> 255 * (last - p) + In(last), ip |-> last + 1,
       error |-> last + 1 >= lencheck]

-----------------------------------------------------------------------------
(* The call *)

DecompressInit(capacity) ==
  /\ oend = capacity /\ iend = 0
  /\ dst = [k \in 0 .. (capacity - 1) |-> Garbage] /\ inBounds = TRUE
  /\ dIp = 0 /\ dOp = 0 /\ dToken = 0 /\ length = 0 /\ offset = 0
  /\ dPc = "idle" /\ decoded = 0

DecodeReturns(r) == dPc' = "returned" /\ decoded' = r
OutputError(p) == DecodeReturns(-p - 1)
Goto(label) == dPc' = label /\ UNCHANGED decoded
Wrote(b) == dst' = b.bytes /\ inBounds' = b.ok
Reads(p) == dst' = dst /\ inBounds' = (inBounds /\ p <= iend)

\* The special cases of LZ4_decompress_generic.  The block comes back whole,
\* or from a container file that ends early.
Begin ==
  /\ dPc = "idle"
  /\ iend' \in Max({0, op - LostBytes}) .. op
  /\ IF oend = 0
     THEN DecodeReturns(IF iend' = 1 /\ out[1] = 0 THEN 0 ELSE -1)
     ELSE IF iend' = 0 THEN DecodeReturns(-1)
     ELSE Goto(IF oend < FASTLOOP_SAFE_DISTANCE THEN "safe" ELSE "fast")
  /\ UNCHANGED <<dst, inBounds, oend, dIp, dOp, dToken, length, offset>>

\* The fast loop: token and literals, copied in strides of 16 or 32 bytes.
FastLiterals ==
  /\ dPc = "fast"
  /\ dToken' = In(dIp)
  /\ LET lit == In(dIp) \div 16
         v == read_variable_length(dIp + 1, iend - RUN_MASK)
         long == lit = RUN_MASK
         n == IF long THEN lit + v.len ELSE lit
         p == IF long THEN v.ip ELSE dIp + 1
         slow == IF long THEN dOp + n > oend - 32 \/ p + n > iend - 32
                 ELSE p > iend - (16 + 1)
         stride == IF long THEN 32 * ((n + 31) \div 32) ELSE 16
     IN  IF long /\ dIp + 1 >= iend - RUN_MASK
         THEN OutputError(dIp + 1) /\ Reads(dIp + 1) /\ UNCHANGED <<dIp, dOp, length>>
         ELSE IF slow
         THEN /\ Goto("literals") /\ Reads(p)
              /\ length' = n /\ dIp' = p /\ UNCHANGED dOp
         ELSE /\ Goto("fastMatch") /\ Wrote(CopyIn(Buffer, dOp, p, stride))
              /\ dIp' = p + n /\ dOp' = dOp + n /\ UNCHANGED length
  /\ UNCHANGED <<iend, oend, offset>>

\* Mutant: a match that ends near the end of the output is copied in strides.
NearEnd_Never(n) == FALSE

\* Strides could leave the output.
NearEnd(n) == dOp + n >= oend - FASTLOOP_SAFE_DISTANCE

\* The fast loop: the match.
FastMatch ==
  /\ dPc = "fastMatch"
  /\ LET off == LZ4_readLE16(dIp)
         m == dOp - off
         code == dToken % 16
         v == read_variable_length(dIp + 2, iend - LASTLITERALS + 1)
         long == code = ML_MASK
         n == MINMATCH + (IF long THEN code + v.len ELSE code)
         p == IF long THEN v.ip ELSE dIp + 2
     IN  /\ offset' = off /\ length' = n /\ dIp' = p
         /\ IF m < 0 /\ (long \/ ~NearEnd(n))
            THEN OutputError(dIp + 2) /\ Reads(dIp + 2) /\ UNCHANGED dOp
            ELSE IF long /\ v.error
            THEN OutputError(p) /\ Reads(p) /\ UNCHANGED dOp
            ELSE IF NearEnd(n)
            THEN Goto("matchCopy") /\ Reads(p) /\ UNCHANGED dOp
            ELSE /\ Goto("fast") /\ dOp' = dOp + n
                 /\ Wrote(IF ~long /\ off >= 8
                          THEN Copy(Copy(Copy(Buffer, dOp, m, 8), dOp + 8, m + 8, 8),
                                    dOp + 16, m + 16, 2)
                          ELSE IF off < 16
                          THEN LZ4_memcpy_using_offset(Buffer, dOp, m, dOp + n, off)
                          ELSE LZ4_wildCopy32(Buffer, dOp, m, dOp + n))
  /\ UNCHANGED <<iend, oend, dToken>>

\* Short literals, and room for 16 of them and a match of 18.
Shortcut == /\ In(dIp) \div 16 # RUN_MASK
            /\ dIp + 1 < iend - 14 - 2
            /\ dOp <= oend - 14 - 18

\* safe_decode: token; short literals and a short match far from both ends
\* take a shortcut.
SafeToken ==
  /\ dPc = "safe"
  /\ dToken' = In(dIp)
  /\ LET lit == In(dIp) \div 16
         code == In(dIp) % 16
         p == dIp + 1
         v == read_variable_length(p, iend - RUN_MASK)
         off == LZ4_readLE16(p + lit)
         m == dOp + lit - off
         copied == CopyIn(Buffer, dOp, p, 16)
     IN  \/ /\ Shortcut
            /\ dIp' = p + lit + 2 /\ offset' = off
            /\ IF code # ML_MASK /\ off >= 8 /\ m >= 0
               THEN /\ Wrote(Copy(Copy(Copy(copied, dOp + lit, m, 8), dOp + lit + 8, m + 8, 8),
                                  dOp + lit + 16, m + 16, 2))
                    /\ dOp' = dOp + lit + code + MINMATCH
                    /\ Goto("safe") /\ UNCHANGED length
               ELSE Wrote(copied) /\ dOp' = dOp + lit /\ length' = code /\ Goto("copyMatch")
         \/ /\ ~Shortcut
            /\ IF lit = RUN_MASK /\ p >= iend - RUN_MASK
               THEN OutputError(p) /\ UNCHANGED <<dIp, length>>
               ELSE /\ length' = IF lit = RUN_MASK THEN lit + v.len ELSE lit
                    /\ dIp' = IF lit = RUN_MASK THEN v.ip ELSE p
                    /\ Goto("literals")
            /\ Reads(p) /\ UNCHANGED <<dOp, offset>>
  /\ UNCHANGED <<iend, oend>>

\* Mutant: the last literals may leave bytes of the block.
AtEnd_Loose(p, cpy) == p <= iend /\ cpy <= oend

\* The last literals end with the block and fit the output.
AtEnd(p, cpy) == p = iend /\ cpy <= oend

\* safe_literal_copy: literals near an end must be the last; others are
\* followed by an offset.
SafeLiterals ==
  /\ dPc = "literals"
  /\ LET cpy == dOp + length
         p == dIp + length
         n == WildLength(length)
     IN  IF cpy > oend - MFLIMIT \/ p > iend - (2 + 1 + LASTLITERALS)
         THEN /\ IF AtEnd(p, cpy)
                 THEN /\ Wrote(CopyIn(Buffer, dOp, dIp, length))
                      /\ DecodeReturns(cpy) /\ dOp' = cpy /\ dIp' = p
                 ELSE OutputError(dIp) /\ UNCHANGED <<dst, inBounds, dOp, dIp>>
              /\ UNCHANGED <<length, offset>>
         ELSE /\ Wrote(CopyIn(Buffer, dOp, dIp, n))
              /\ dOp' = cpy /\ dIp' = p + 2
              /\ offset' = LZ4_readLE16(p) /\ length' = dToken % 16
              /\ Goto("copyMatch")
  /\ UNCHANGED <<iend, oend, dToken>>

\* _copy_match: the rest of the match length.
MatchLength ==
  /\ dPc = "copyMatch"
  /\ LET v == read_variable_length(dIp, iend - LASTLITERALS + 1)
         long == length = ML_MASK
     IN  IF long /\ v.error THEN OutputError(v.ip) /\ UNCHANGED <<dIp, length>>
         ELSE /\ length' = MINMATCH + (IF long THEN length + v.len ELSE length)
              /\ dIp' = IF long THEN v.ip ELSE dIp
              /\ Goto("matchCopy")
  /\ UNCHANGED <<dst, inBounds, iend, oend, dOp, dToken, offset>>

\* safe_match_copy: eight bytes, then strides of eight, and single bytes where
\* strides could leave the output.
SafeMatch ==
  /\ dPc = "matchCopy"
  /\ LET m == dOp - offset
         cpy == dOp + length
         eight == FirstEight(Buffer, dOp, m, offset)
         s == AfterEight(m, offset)
         d == dOp + 8
         limit == oend - (WILDCOPYLENGTH - 1)
         strides == IF d < limit THEN limit - d ELSE 0
         wild == IF d < limit THEN LZ4_wildCopy8(eight, d, s, limit) ELSE eight
     IN  IF m < 0 THEN OutputError(dIp) /\ UNCHANGED <<dst, inBounds, dOp>>
         ELSE IF cpy > oend - MATCH_SAFEGUARD_DISTANCE
         THEN IF cpy > oend - LASTLITERALS
              THEN OutputError(dIp) /\ Wrote(eight) /\ UNCHANGED dOp
              ELSE /\ Wrote(CopyBytes(wild, d + strides, s + strides,
                                      IF cpy > d + strides THEN cpy - d - strides ELSE 0))
                   /\ dOp' = cpy /\ Goto("safe")
         ELSE /\ Wrote(IF length > 16
                       THEN LZ4_wildCopy8(Copy(eight, d, s, 8), d + 8, s + 8, cpy)
                       ELSE Copy(eight, d, s, 8))
              /\ dOp' = cpy /\ Goto("safe")
  /\ UNCHANGED <<iend, oend, dIp, dToken, length, offset>>

LZ4_decompress_safe ==
  Begin \/ FastLiterals \/ FastMatch \/ SafeToken \/ SafeLiterals \/ MatchLength \/ SafeMatch
=============================================================================

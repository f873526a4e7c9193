---------------------------- MODULE LZ4Compress -----------------------------
(***************************************************************************)
(* LZ4_compress_fast (src/src/util/lz4.c) as this program calls it: one    *)
(* block, no dictionary, a 64-bit build.  Buffers are functions from their *)
(* offsets; pointers are offsets.  The hash is any function of the bytes   *)
(* it reads.  An action is one probe of the hash table, or one part of a   *)
(* sequence <<token, literals, offset, match length>> of the block.        *)
(*                                                                         *)
(* The 16-bit quantities of the format are parameters, so that the limits  *)
(* that follow from them are reached with short inputs.                    *)
(***************************************************************************)
EXTENDS Integers, Sequences, FiniteSetsExt

CONSTANTS
  U16_RANGE,        \* 65536, what a U16 can tell apart
  acceleration,     \* how fast the search speeds up over literals
  Hash(_),          \* the hash of a sequence of bytes
  Hashes            \* its values

ASSUME LZ4Assumption ==
  /\ U16_RANGE \in Nat /\ 17 <= U16_RANGE /\ U16_RANGE <= 65536
  /\ acceleration \in Nat \ {0}

MINMATCH == 4
WILDCOPYLENGTH == 8
LASTLITERALS == 5
MFLIMIT == 12
LZ4_minLength == MFLIMIT + 1
ML_MASK == 15
RUN_MASK == 15
LZ4_DISTANCE_MAX == U16_RANGE - 1
SkipUnit == 64   \* 1 << LZ4_skipTrigger

\* Mutant: the last positions of an input of this size are beyond a U16.
LZ4_64Klimit_Late == U16_RANGE + 2 * MFLIMIT

\* Below this size the hash table holds U16.
LZ4_64Klimit == U16_RANGE + MFLIMIT - 1

VARIABLES
  src, dstCapacity,  \* the call: the input, and the size of the output buffer
  hashTable,         \* hash -> the last position with it
  ip, anchor, match, \* where it is, the first literal not yet written, the match
  forwardIp, step, searchMatchNb,  \* the search: next position, stride, probes
  out, token,        \* the block so far, and where the current token is in it
  cPc, result,       \* where it is; the value returned
  cInBounds          \* no access outside the two buffers so far

cvars == <<src, dstCapacity, hashTable, ip, anchor, match, forwardIp, step,
           searchMatchNb, out, token, cPc, result, cInBounds>>

-----------------------------------------------------------------------------
(* Reading and writing *)

inputSize == Cardinality(DOMAIN src)
mflimitPlusOne == inputSize - MFLIMIT + 1
matchlimit == inputSize - LASTLITERALS
op == Len(out)

Bytes(p, n) == [k \in 1 .. n |-> src[p + k - 1]]
LZ4_read32(p) == Bytes(p, 4)

LZ4_compressBound(n) == n + (n \div 255) + 16

tableType == IF inputSize < LZ4_64Klimit THEN "byU16" ELSE "byU32"
limitedOutput == dstCapacity < LZ4_compressBound(inputSize)

LZ4_hashPosition(p) == Hash(Bytes(p, IF tableType = "byU16" THEN 4 ELSE 5))

\* What a table entry keeps of a position.
Stored(p) == IF tableType = "byU16" THEN p % U16_RANGE ELSE p

LZ4_putPosition(t, p) == [t EXCEPT ![LZ4_hashPosition(p)] = Stored(p)]

\* (U16)(ip - match), little endian.
LZ4_writeLE16(v) == <<(v % U16_RANGE) % 256, (v % U16_RANGE) \div 256>>

\* A length beyond the four bits of the token: bytes of 255 and a last one.
LengthBytes(n) == [k \in 1 .. (n \div 255) |-> 255] \o <<n % 255>>

\* LZ4_wildCopy8 copies multiples of eight bytes, at least eight.
WildLength(n) == IF n = 0 THEN 8 ELSE 8 * ((n + 7) \div 8)

-----------------------------------------------------------------------------
(* LZ4_count: eight bytes at a time, then four, two and one *)

STEPSIZE == 8

\* The leading bytes two words have in common, at most n.
LZ4_NbCommonBytes(p, q, n) ==
  Max({k \in 0 .. n : \A j \in 0 .. (k - 1) : src[p + j] = src[q + j]})

\* n more bytes are equal, and before the limit.
CountMore(p, q, k, n, pInLimit) ==
  IF p + k < pInLimit - (n - 1) /\ LZ4_NbCommonBytes(p + k, q + k, n) = n
  THEN k + n ELSE k

LZ4_count(p, q, pInLimit) ==
  LET words == Max({w \in 0 .. inputSize \div STEPSIZE :
                      /\ p + STEPSIZE * w <= pInLimit \/ w = 0
                      /\ \A v \in 0 .. (w - 1) :
                           LZ4_NbCommonBytes(p + STEPSIZE * v, q + STEPSIZE * v,
                                             STEPSIZE) = STEPSIZE})
      k == STEPSIZE * words
  IN  IF p + k < pInLimit - (STEPSIZE - 1)
      THEN k + LZ4_NbCommonBytes(p + k, q + k, STEPSIZE)
      ELSE CountMore(p, q, CountMore(p, q, CountMore(p, q, k, 4, pInLimit),
                                     2, pInLimit), 1, pInLimit)

\* How far a match at p with q can be extended to the left.
CatchUp(p, q) ==
  Max({k \in 0 .. Min({p - anchor, q}) : \A j \in 1 .. k : src[p - j] = src[q - j]})

-----------------------------------------------------------------------------
(* The call *)

CompressInit ==
  /\ hashTable = [h \in Hashes |-> 0]
  /\ ip = 0 /\ anchor = 0 /\ match = 0
  /\ forwardIp = 0 /\ step = 1 /\ searchMatchNb = 0
  /\ out = <<>> /\ token = 0
  /\ cPc = "start" /\ result = 0 /\ cInBounds = TRUE

Returns(r) == cPc' = "returned" /\ result' = r

SearchFrom(p) ==
  /\ forwardIp' = p /\ step' = 1
  /\ searchMatchNb' = acceleration * SkipUnit
  /\ cPc' = "search"

\* LZ4_compress_generic: an empty input is one token, a short one literals.
Start ==
  /\ cPc = "start"
  /\ \/ /\ inputSize = 0
        /\ IF limitedOutput /\ dstCapacity <= 0 THEN Returns(0) /\ UNCHANGED out
           ELSE Returns(1) /\ out' = <<0>>
        /\ UNCHANGED <<hashTable, forwardIp, step, searchMatchNb>>
     \/ /\ inputSize \in 1 .. (LZ4_minLength - 1)
        /\ cPc' = "last"
        /\ UNCHANGED <<hashTable, out, result, forwardIp, step, searchMatchNb>>
     \/ /\ inputSize >= LZ4_minLength
        /\ hashTable' = LZ4_putPosition(hashTable, 0)
        /\ SearchFrom(1)
        /\ UNCHANGED <<out, result>>
  /\ UNCHANGED <<src, dstCapacity, ip, anchor, match, token, cInBounds>>

\* The distance does not fit the format.  A table of U16 needs no check.
TooFar(matchIndex, current) ==
  tableType # "byU16" /\ matchIndex + LZ4_DISTANCE_MAX < current

\* The search for four bytes seen before: one probe.
FindMatch ==
  /\ cPc = "search"
  /\ LET h == LZ4_hashPosition(forwardIp)
         candidate == hashTable[h]
         back == CatchUp(forwardIp, candidate)
     IN  IF forwardIp + step > mflimitPlusOne
         THEN cPc' = "last" /\ UNCHANGED <<hashTable, ip, match, forwardIp, step, searchMatchNb>>
         ELSE /\ hashTable' = [hashTable EXCEPT ![h] = Stored(forwardIp)]
              /\ forwardIp' = forwardIp + step
              /\ step' = searchMatchNb \div SkipUnit
              /\ searchMatchNb' = searchMatchNb + 1
              /\ IF TooFar(candidate, forwardIp) \/ LZ4_read32(candidate) # LZ4_read32(forwardIp)
                 THEN UNCHANGED <<cPc, ip, match>>
                 ELSE cPc' = "literals" /\ ip' = forwardIp - back /\ match' = candidate - back
  /\ UNCHANGED <<src, dstCapacity, anchor, out, token, result, cInBounds>>

\* Token, literals, offset and the last literals have room.
LiteralsFit(n) == op + 1 + n + (2 + 1 + LASTLITERALS) + (n \div 255) <= dstCapacity

EncodeLiterals ==
  /\ cPc = "literals"
  /\ LET litLength == ip - anchor
         head == out \o <<16 * Min({litLength, RUN_MASK})>>
                     \o (IF litLength >= RUN_MASK THEN LengthBytes(litLength - RUN_MASK) ELSE <<>>)
     IN  IF limitedOutput /\ ~LiteralsFit(litLength)
         THEN Returns(0) /\ UNCHANGED <<out, token, cInBounds>>
         ELSE /\ out' = head \o Bytes(anchor, litLength)
              /\ token' = op + 1
              /\ cInBounds' = (/\ cInBounds
                               /\ Len(head) + WildLength(litLength) <= dstCapacity
                               /\ anchor + WildLength(litLength) <= inputSize)
              /\ cPc' = "match" /\ UNCHANGED result
  /\ UNCHANGED <<src, dstCapacity, hashTable, ip, anchor, match, forwardIp, step, searchMatchNb>>

\* _next_match: the offset and the length of the match, then the end of the
\* input is tested.
EncodeMatch ==
  /\ cPc = "match"
  /\ LET matchCode == LZ4_count(ip + MINMATCH, match + MINMATCH, matchlimit)
         end == ip + MINMATCH + matchCode
         more == matchCode - ML_MASK
         coded == [out EXCEPT ![token] = @ + Min({matchCode, ML_MASK})]
                    \o LZ4_writeLE16(ip - match)
     IN  IF limitedOutput /\ op + 2 + (1 + LASTLITERALS) + ((matchCode + 240) \div 255) > dstCapacity
         THEN /\ Returns(0)
              /\ cInBounds' = (cInBounds /\ op + 2 <= dstCapacity)
              /\ UNCHANGED <<out, ip, anchor>>
         ELSE /\ out' = coded \o (IF more >= 0 THEN LengthBytes(more) ELSE <<>>)
              /\ cInBounds' = (/\ cInBounds
                               /\ more >= 0 =>   \* written as words of four bytes
                                    Len(coded) + 4 * (more \div (4 * 255)) + 4 <= dstCapacity
                               /\ Len(out') <= dstCapacity)
              /\ ip' = end /\ anchor' = end
              /\ cPc' = IF end >= mflimitPlusOne THEN "last" ELSE "next"
              /\ UNCHANGED result
  /\ UNCHANGED <<src, dstCapacity, hashTable, match, token, forwardIp, step, searchMatchNb>>

\* Right behind a match: another one without literals, or a new search.
TestNextPosition ==
  /\ cPc = "next"
  /\ LET table == LZ4_putPosition(hashTable, ip - 2)
         candidate == table[LZ4_hashPosition(ip)]
     IN  /\ hashTable' = LZ4_putPosition(table, ip)
         /\ IF ~TooFar(candidate, ip) /\ LZ4_read32(candidate) = LZ4_read32(ip)
            THEN /\ match' = candidate
                 /\ out' = Append(out, 0) /\ token' = op + 1
                 /\ cPc' = "match"
                 /\ UNCHANGED <<ip, forwardIp, step, searchMatchNb>>
            ELSE /\ SearchFrom(ip + 1) /\ ip' = ip + 1
                 /\ UNCHANGED <<match, out, token>>
  /\ UNCHANGED <<src, dstCapacity, anchor, result, cInBounds>>

LastRunFits(n) == op + n + 1 + ((n + 255 - RUN_MASK) \div 255) <= dstCapacity

\* _last_literals.
LastLiterals ==
  /\ cPc = "last"
  /\ LET lastRun == inputSize - anchor
     IN  IF limitedOutput /\ ~LastRunFits(lastRun)
         THEN Returns(0) /\ UNCHANGED <<out, cInBounds>>
         ELSE /\ out' = out \o <<16 * Min({lastRun, RUN_MASK})>>
                            \o (IF lastRun >= RUN_MASK THEN LengthBytes(lastRun - RUN_MASK) ELSE <<>>)
                            \o Bytes(anchor, lastRun)
              /\ cInBounds' = (cInBounds /\ Len(out') <= dstCapacity)
              /\ Returns(Len(out'))
  /\ UNCHANGED <<src, dstCapacity, hashTable, ip, anchor, match, token, forwardIp, step,
                 searchMatchNb>>

LZ4_compress_fast ==
  Start \/ FindMatch \/ EncodeLiterals \/ EncodeMatch \/ TestNextPosition \/ LastLiterals
=============================================================================

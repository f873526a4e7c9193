------------------------------ MODULE LZ4Proofs ------------------------------
(***************************************************************************)
(* The LZ4 round trip, for inputs of every size and content, every hash,   *)
(* every room in the two buffers and every cut of the block.               *)
(*                                                                         *)
(* First the bounds: neither direction leaves its buffers (DecodeInv, the  *)
(* decoder on any bytes; CompressInv, the compressor).  Then the contents: *)
(* what a block is (IsBlock), that the decoder, standing at a sequence of  *)
(* a block, gives the input of the block (Decoding), that the matches the  *)
(* compressor finds are matches (MatchInv), and that what it has written   *)
(* is a block of the input before the anchor (WriteInv).                   *)
(*                                                                         *)
(* The loops of the code have recursive functions as their definitions;    *)
(* what they compute is shown by the least counterexample (LeastOf).       *)
(***************************************************************************)
EXTENDS LZ4, FiniteSetTheorems, SequenceTheorems, WellFoundedInduction, TLAPS

\* A nonempty set of naturals has a least element: the induction of this module.
LEMMA LeastOf ==
  ASSUME NEW S \in SUBSET Nat, S # {}
  PROVE  \E x \in S : \A y \in S : x <= y
<1>1. PICK x \in S : \A y \in S : <<y, x>> \notin OpToRel(<, Nat)
  BY NatLessThanWellFounded, WFMin
<1>2. ASSUME NEW y \in S PROVE x <= y
  <2>1. ~(y < x)
    BY <1>1, <1>2 DEF OpToRel
  <2> QED BY <2>1
<1> QED BY <1>2

-----------------------------------------------------------------------------
(* Copies *)

\* A byte.
Octet == 0 .. 255

\* memcpy behind the end of its source.
LEMMA CopyOk ==
  ASSUME NEW b, b.ok = TRUE, NEW d \in Nat, NEW s \in Nat, NEW n \in Nat,
         oend \in Nat, (n = 1 /\ s <= d) \/ s + n <= d, d + n <= oend
  PROVE  Copy(b, d, s, n).ok = TRUE
<1>1. s >= 0 /\ s + n <= oend
  OBVIOUS
<1> QED BY <1>1 DEF Copy, Disjoint

\* The stages of a loop of copies.
Stages(f, b, d, s, w, n) ==
  /\ f[0] = b
  /\ \A k \in 1 .. n : f[k] = Copy(f[k - 1], d + w * (k - 1), s + w * (k - 1), w)

\* The recursive function that defines CopyLoop exists, with a value per stage.
LEMMA CopyLoopStages ==
  ASSUME NEW b, NEW w, NEW n \in Nat, NEW d, NEW s
  PROVE  \E f : Stages(f, b, d, s, w, n) /\ CopyLoop(b, d, s, w, n) = f[n]
<1> DEFINE Step(x, k) == Copy(x, d + w * (k - 1), s + w * (k - 1), w)
           Body(f, m) == [k \in 0 .. m |-> IF k = 0 THEN b ELSE Step(f[k - 1], k)]
           after == CHOOSE f : f = Body(f, n)
<1>1. CopyLoop(b, d, s, w, n) = after[n]
  BY DEF CopyLoop
<1> HIDE DEF Step
<1>2. \A m \in Nat : \E f : f = Body(f, m)
  <2> DEFINE Without == {m \in Nat : ~ \E f : f = Body(f, m)}
  <2> SUFFICES ASSUME Without # {} PROVE FALSE
    OBVIOUS
  <2>1. PICK m \in Without : \A j \in Without : m <= j
    <3>1. Without \in SUBSET Nat
      OBVIOUS
    <3> HIDE DEF Without
    <3> QED BY <3>1, LeastOf
  <2>2. m \in Nat /\ ~ \E f : f = Body(f, m)
    OBVIOUS
  <2>3. m # 0
    <3> SUFFICES ASSUME m = 0 PROVE FALSE
      OBVIOUS
    <3> DEFINE g == [k \in 0 .. 0 |-> b]
    <3>1. g = Body(g, 0)
      BY SMT
    <3> QED BY <2>2, <3>1
  <2>4. m - 1 \in Nat /\ m - 1 \notin Without
    <3>1. m - 1 \in Nat /\ ~(m <= m - 1)
      BY <2>2, <2>3
    <3> HIDE DEF Without
    <3> QED BY <2>1, <3>1
  <2>5. PICK g : g = Body(g, m - 1)
    BY <2>4
  <2> DEFINE f == [k \in 0 .. m |-> IF k = m THEN Step(g[m - 1], m) ELSE g[k]]
  <2>6. \A k \in 0 .. (m - 1) : g[k] = IF k = 0 THEN b ELSE Step(g[k - 1], k)
    BY <2>4, <2>5
  <2>7. f = Body(f, m)
    <3>1. ASSUME NEW k \in 0 .. m
          PROVE  f[k] = IF k = 0 THEN b ELSE Step(f[k - 1], k)
      <4>1. CASE k = m
        BY <2>2, <2>3, <4>1
      <4>2. CASE k # m
        <5>1. k \in 0 .. (m - 1) /\ (k # 0 => k - 1 \in 0 .. m /\ k - 1 # m)
          BY <2>2, <4>2
        <5> QED BY <2>6, <4>2, <5>1
      <4> QED BY <4>1, <4>2
    <3>2. f = [k \in 0 .. m |-> f[k]]
      OBVIOUS
    <3> HIDE DEF f
    <3> QED BY <3>1, <3>2
  <2> QED BY <2>2, <2>7
<1>3. after = Body(after, n)
  <2> HIDE DEF Body
  <2> QED BY <1>2
<1> HIDE DEF after
<1>4. \A k \in 0 .. n : after[k] = IF k = 0 THEN b ELSE Step(after[k - 1], k)
  BY <1>3
<1>5. \A k \in 1 .. n : after[k] = Step(after[k - 1], k)
  <2>1. \A k \in 1 .. n : k \in 0 .. n /\ k # 0
    OBVIOUS
  <2> QED BY <1>4, <2>1
<1>6. 0 \in 0 .. n
  OBVIOUS
<1>7. after[0] = b
  BY <1>4, <1>6
<1>8. Stages(after, b, d, s, w, n)
  BY <1>5, <1>7 DEF Step, Stages
<1> QED BY <1>1, <1>8

\* n copies of w bytes never leave the output, nor overlap.
LEMMA CopyLoopOk ==
  ASSUME NEW b, b.ok = TRUE, NEW w \in {1, 8, 16}, NEW n \in Nat, NEW d \in Nat, NEW s \in Nat,
         oend \in Nat, s <= d, w = 1 \/ s + w <= d, d + w * n <= oend
  PROVE  CopyLoop(b, d, s, w, n).ok = TRUE
<1> DEFINE Step(x, k) == Copy(x, d + w * (k - 1), s + w * (k - 1), w)
<1>0. PICK after : Stages(after, b, d, s, w, n) /\ CopyLoop(b, d, s, w, n) = after[n]
  BY CopyLoopStages
<1>1. /\ after[0] = b /\ CopyLoop(b, d, s, w, n) = after[n]
      /\ \A k \in 1 .. n : after[k] = Step(after[k - 1], k)
  BY <1>0 DEF Stages
<1> HIDE DEF Step
<1> DEFINE Bad == {k \in 0 .. n : after[k].ok # TRUE}
<1>5. ASSUME NEW k \in 1 .. n
      PROVE  /\ d + w * (k - 1) \in Nat /\ s + w * (k - 1) \in Nat
             /\ d + w * (k - 1) + w <= oend /\ s + w * (k - 1) + w <= oend
             /\ w = 1 \/ s + w * (k - 1) + w <= d + w * (k - 1)
  <2>1. CASE w = 1
    BY <2>1
  <2>2. CASE w = 8
    BY <2>2
  <2>3. CASE w = 16
    BY <2>3
  <2> QED BY <2>1, <2>2, <2>3
<1>6. ASSUME NEW k \in 1 .. n, NEW x, x.ok = TRUE
      PROVE  Step(x, k).ok = TRUE
  <2> DEFINE x1 == d + w * (k - 1)
             y1 == s + w * (k - 1)
  <2>1. /\ x1 \in Nat /\ y1 \in Nat /\ x1 + w <= oend /\ w \in Nat
        /\ (w = 1 /\ y1 <= x1) \/ y1 + w <= x1
    <3>1. w \in Nat /\ w = 1 => y1 <= x1
      OBVIOUS
    <3> QED BY <1>5, <3>1
  <2> HIDE DEF x1, y1
  <2>2. Copy(x, x1, y1, w).ok = TRUE
    BY <1>6, <2>1, CopyOk
  <2> QED BY <2>2 DEF Step, x1, y1
<1>7. Bad = {}
  <2> SUFFICES ASSUME Bad # {} PROVE FALSE
    OBVIOUS
  <2>1. PICK k \in Bad : \A j \in Bad : k <= j
    <3>1. Bad \subseteq 0 .. n
      BY Zenon
    <3>2. 0 .. n \subseteq Nat
      OBVIOUS
    <3> HIDE DEF Bad
    <3> QED BY <3>1, <3>2, LeastOf
  <2>2. k \in 0 .. n /\ after[k].ok # TRUE
    OBVIOUS
  <2>3. k # 0
    BY <1>1, <2>2
  <2>4. k \in 1 .. n /\ k - 1 \in 0 .. n /\ ~(k <= k - 1)
    BY <2>2, <2>3
  <2>5. after[k - 1].ok = TRUE
    BY <2>1, <2>4
  <2> QED BY <1>1, <1>6, <2>2, <2>3, <2>4, <2>5
<1>8. n \in 0 .. n
  OBVIOUS
<1>9. after[n].ok = TRUE
  BY <1>7, <1>8
<1> QED BY <1>1, <1>9

\* The copy functions of the decoder, from d to at least e.
LEMMA StridesOk ==
  ASSUME NEW b, b.ok = TRUE, NEW w \in {8, 16}, NEW d \in Nat, NEW s \in Nat, NEW e \in Int,
         oend \in Nat, s + w <= d, d + w <= oend, e + w - 1 <= oend
  PROVE  Strides(b, d, s, e, w).ok = TRUE
<1> DEFINE n == IF e <= d THEN 1 ELSE (e - d + w - 1) \div w
<1>1. n \in Nat /\ d + w * n <= oend /\ s <= d
  <2>1. CASE w = 8
    BY <2>1
  <2>2. CASE w = 16
    BY <2>2
  <2> QED BY <2>1, <2>2
<1> HIDE DEF n
<1>2. CopyLoop(b, d, s, w, n).ok = TRUE
  BY <1>1, CopyLoopOk
<1> QED BY <1>2 DEF Strides, n

\* Byte by byte nothing overlaps, however near the source is.
LEMMA CopyBytesOk ==
  ASSUME NEW b, b.ok = TRUE, NEW d \in Nat, NEW s \in Nat, NEW n \in Nat,
         oend \in Nat, s <= d, d + n <= oend
  PROVE  CopyBytes(b, d, s, n).ok = TRUE
<1>1. 1 * n = n
  OBVIOUS
<1>2. d + 1 * n <= oend
  BY <1>1
<1>3. CopyLoop(b, d, s, 1, n).ok = TRUE
  BY <1>2, CopyLoopOk
<1> QED BY <1>3 DEF CopyBytes

\* The tables keep the source at least eight bytes behind.
LEMMA AfterEightBehind ==
  ASSUME NEW off \in Nat, NEW s \in Nat
  PROVE  AfterEight(s, off) \in Nat /\ AfterEight(s, off) <= s + off
<1>1. CASE off >= 8
  BY <1>1 DEF AfterEight
<1>2. CASE off < 8
  <2>1. off \in {0, 1, 2, 3, 4, 5, 6, 7}
    BY <1>2
  <2>2. CASE off = 0
    BY <2>2 DEF AfterEight, inc32table, dec64table
  <2>3. CASE off = 1
    BY <2>3 DEF AfterEight, inc32table, dec64table
  <2>4. CASE off = 2
    BY <2>4 DEF AfterEight, inc32table, dec64table
  <2>5. CASE off = 3
    BY <2>5 DEF AfterEight, inc32table, dec64table
  <2>6. CASE off = 4
    BY <2>6 DEF AfterEight, inc32table, dec64table
  <2>7. CASE off = 5
    BY <2>7 DEF AfterEight, inc32table, dec64table
  <2>8. CASE off = 6
    BY <2>8 DEF AfterEight, inc32table, dec64table
  <2>9. CASE off = 7
    BY <2>9 DEF AfterEight, inc32table, dec64table
  <2> QED BY <2>1, <2>2, <2>3, <2>4, <2>5, <2>6, <2>7, <2>8, <2>9
<1> QED BY <1>1, <1>2

\* What inc32table adds to the source.
LEMMA IncTable ==
  ASSUME NEW off \in 0 .. 7
  PROVE  inc32table[off + 1] \in Nat /\ inc32table[off + 1] <= off
<1>1. off \in {0, 1, 2, 3, 4, 5, 6, 7}
  OBVIOUS
<1> QED BY <1>1 DEF inc32table

\* The first eight bytes of a match, near or far.
LEMMA FirstEightOk ==
  ASSUME NEW b, b.ok = TRUE, NEW d \in Nat, NEW s \in Nat, NEW off \in Nat,
         oend \in Nat, d = s + off, d + 8 <= oend
  PROVE  FirstEight(b, d, s, off).ok = TRUE
<1>1. CASE off >= 8
  <2>1. s + 8 <= d
    BY <1>1
  <2>2. Copy(b, d, s, 8).ok = TRUE
    BY <2>1, CopyOk
  <2> QED BY <1>1, <2>2 DEF FirstEight
<1>2. CASE off < 8
  <2>1. s <= d /\ d + 4 <= oend /\ 4 \in Nat
    BY <1>2
  <2> DEFINE c == CopyBytes(b, d, s, 4)
             i == inc32table[off + 1]
  <2>2. c.ok = TRUE
    BY <2>1, CopyBytesOk
  <2>3. i \in Nat /\ i <= off
    BY <1>2, IncTable
  <2> HIDE DEF c, i
  <2>4. d + 4 \in Nat /\ s + i \in Nat /\ s + i + 4 <= d + 4 /\ d + 4 + 4 <= oend
    BY <2>3
  <2>5. Copy(c, d + 4, s + i, 4).ok = TRUE
    BY <2>1, <2>2, <2>4, CopyOk
  <2> QED BY <1>2, <2>5 DEF FirstEight, c, i
<1>3. off >= 8 \/ off < 8
  OBVIOUS
<1> QED BY <1>1, <1>2, <1>3

\* LZ4_memcpy_using_offset keeps to the output.
LEMMA MemcpyUsingOffsetOk ==
  ASSUME NEW b, b.ok = TRUE, NEW d \in Nat, NEW s \in Nat, NEW off \in Nat, NEW e \in Nat,
         oend \in Nat, d = s + off, d <= e, d + 16 <= oend, e + 8 <= oend
  PROVE  LZ4_memcpy_using_offset(b, d, s, e, off).ok = TRUE
<1> DEFINE n == 8 * (IF e <= d + 8 THEN 1 ELSE (e - d + 7) \div 8)
           f == FirstEight(b, d, s, off)
           t == AfterEight(s, off)
<1>1. d + n <= oend
  OBVIOUS
<1>2. f.ok = TRUE
  <2>1. d + 8 <= oend
    OBVIOUS
  <2> QED BY <2>1, FirstEightOk
<1>3. t \in Nat /\ t + 8 <= d + 8
  BY AfterEightBehind
<1> HIDE DEF n, f, t
<1>4. Strides(f, d + 8, t, e, 8).ok = TRUE
  <2>1. d + 8 \in Nat /\ e \in Int /\ d + 8 + 8 <= oend /\ e + 8 - 1 <= oend
    OBVIOUS
  <2> QED BY <1>2, <1>3, <2>1, StridesOk
<1>5. CASE off \in {1, 2, 4}
  <2>1. s >= 0
    OBVIOUS
  <2> QED BY <1>1, <1>5, <2>1 DEF LZ4_memcpy_using_offset, n
<1>6. CASE off \notin {1, 2, 4}
  BY <1>4, <1>6 DEF LZ4_memcpy_using_offset, LZ4_wildCopy8, f, t
<1> QED BY <1>5, <1>6

\* LZ4_wildCopy32 keeps to the output: its source is at least 16 behind.
LEMMA WildCopy32Ok ==
  ASSUME NEW b, b.ok = TRUE, NEW d \in Nat, NEW s \in Nat, NEW e \in Nat,
         oend \in Nat, s + 16 <= d, d <= e, e + 64 <= oend
  PROVE  LZ4_wildCopy32(b, d, s, e).ok = TRUE
<1> DEFINE x == d + 32 * (IF e <= d THEN 1 ELSE (e - d + 31) \div 32)
<1>1. x \in Int /\ x + 16 - 1 <= oend /\ d + 16 <= oend
  OBVIOUS
<1> HIDE DEF x
<1>2. Strides(b, d, s, x, 16).ok = TRUE
  BY <1>1, StridesOk
<1> QED BY <1>2 DEF LZ4_wildCopy32, x

-----------------------------------------------------------------------------
(* Reading the block *)

\* The block the decoder reads, whoever wrote it.
BlockInv == out \in Seq(Octet) /\ iend \in Nat /\ iend <= Len(out)

\* A byte of the block.
LEMMA InType ==
  ASSUME BlockInv, NEW p \in Nat
  PROVE  In(p) \in Octet
<1>1. CASE p < iend
  <2>1. p + 1 \in 1 .. Len(out)
    BY <1>1, LenProperties DEF BlockInv
  <2>2. out[p + 1] \in Octet
    BY <2>1, ElementOfSeq DEF BlockInv
  <2> QED BY <1>1, <2>2 DEF In
<1>2. CASE ~(p < iend)
  BY <1>2 DEF In, Octet
<1> QED BY <1>1, <1>2

\* A distance read from the block.
LEMMA OffsetType ==
  ASSUME BlockInv, NEW p \in Nat
  PROVE  LZ4_readLE16(p) \in Nat
<1>1. In(p) \in Octet /\ In(p + 1) \in Octet
  BY InType
<1>2. \A x, y \in 0 .. 255 : x + 256 * y \in Nat
  OBVIOUS
<1> QED BY <1>1, <1>2 DEF LZ4_readLE16, Octet

\* read_variable_length stops at the first byte that is not 255 or that the
\* check allows no successor.
Stops(z, p, check) ==
  /\ z \in p .. (iend - 1) /\ (p < check => z <= check - 1)
  /\ In(z) # 255 \/ z + 1 >= check
  /\ \A y \in p .. iend : (In(y) # 255 \/ y + 1 >= check) => z <= y
  /\ read_variable_length(p, check) =
       [len |-> 255 * (z - p) + In(z), ip |-> z + 1, error |-> z + 1 >= check]

\* There is such a byte, and the length is what was read up to it.
LEMMA VariableStop ==
  ASSUME BlockInv, NEW p \in Nat, p < iend, NEW check \in Int, check <= iend
  PROVE  \E z \in Nat : Stops(z, p, check)
<1> DEFINE Q == {q \in p .. iend : In(q) # 255 \/ q + 1 >= check}
           z == Min(Q)
<1>1. iend \in Nat
  BY DEF BlockInv
<1>2. iend - 1 \in Q /\ (p < check => check - 1 \in Q)
  BY <1>1
<1>3. Q \subseteq Nat
  BY <1>1
<1>4. \E x \in Q : \A y \in Q : x <= y
  <2> HIDE DEF Q
  <2> QED BY <1>2, <1>3, LeastOf
<1>5. z \in Q /\ \A y \in Q : z <= y
  <2> HIDE DEF Q
  <2> QED BY <1>4 DEF Min
<1>6. z \in p .. iend /\ z <= iend - 1 /\ (p < check => z <= check - 1)
  BY <1>2, <1>5
<1>7. In(z) # 255 \/ z + 1 >= check
  <2> HIDE DEF z
  <2> QED BY <1>5
<1>8. \A y \in p .. iend : (In(y) # 255 \/ y + 1 >= check) => z <= y
  <2> HIDE DEF z
  <2> QED BY <1>5
<1>9. read_variable_length(p, check) = [len |-> 255 * (z - p) + In(z), ip |-> z + 1, error |-> z + 1 >= check]
  BY DEF read_variable_length
<1> HIDE DEF z, Q
<1>10. z \in Nat /\ z \in p .. (iend - 1)
  BY <1>1, <1>6
<1> QED BY <1>6, <1>7, <1>8, <1>9, <1>10 DEF Stops

\* It never reads behind the check, nor behind the block.
LEMMA VariableLength ==
  ASSUME BlockInv, NEW p \in Nat, p < iend, NEW check \in Int, check <= iend
  PROVE  LET v_ == read_variable_length(p, check)
         IN  /\ v_.len \in Nat /\ v_.ip \in Nat /\ v_.ip > p /\ v_.ip <= iend
             /\ p < check => v_.ip <= check
             /\ ~v_.error => v_.ip < check
<1>1. iend \in Nat
  BY DEF BlockInv
<1>5. PICK z \in Nat : Stops(z, p, check)
  BY VariableStop
<1>6. z \in p .. iend /\ z <= iend - 1 /\ (p < check => z <= check - 1)
  BY <1>1, <1>5 DEF Stops
<1>7. z \in Nat /\ In(z) \in Octet
  BY InType
<1>8. read_variable_length(p, check) = [len |-> 255 * (z - p) + In(z), ip |-> z + 1, error |-> z + 1 >= check]
  BY <1>5 DEF Stops
<1>9. 255 * (z - p) + In(z) \in Nat
  BY <1>1, <1>6, <1>7 DEF Octet
<1> DEFINE v_ == read_variable_length(p, check)
<1>10. v_.len \in Nat /\ v_.ip = z + 1 /\ v_.error = (z + 1 >= check)
  BY <1>8, <1>9
<1> HIDE DEF v_
<1>11. v_.ip \in Nat /\ v_.ip > p /\ v_.ip <= iend /\ (p < check => v_.ip <= check)
  BY <1>1, <1>6, <1>7, <1>10
<1>12. ~v_.error => v_.ip < check
  <2> SUFFICES ASSUME ~v_.error PROVE v_.ip < check
    OBVIOUS
  <2>1. ~(z + 1 >= check)
    BY <1>10, Zenon
  <2> QED BY <1>7, <1>10, <2>1
<1> QED BY <1>10, <1>11, <1>12 DEF v_

-----------------------------------------------------------------------------
(* The decoder: how far both ends are at each label *)

\* Where the decoder is, and what is left of both buffers there.
DecodeInv ==
  /\ oend \in Nat /\ inBounds = TRUE
  /\ dIp \in Nat /\ dOp \in Nat /\ dToken \in Nat /\ length \in Nat /\ offset \in Nat
  /\ dPc \in {"idle", "fast", "fastMatch", "safe", "literals", "copyMatch", "matchCopy", "returned"}
  /\ dPc = "idle" => dIp = 0 /\ dOp = 0
  /\ dPc = "fast" => dIp < iend /\ dOp + 64 <= oend
  /\ dPc = "fastMatch" => dIp + 3 <= iend /\ dOp + 32 <= oend
  /\ dPc = "safe" => dIp < iend /\ dOp <= oend
  /\ dPc = "literals" => dIp <= iend /\ dOp <= oend
  /\ dPc = "copyMatch" => dIp < iend /\ dOp + 12 <= oend
  /\ dPc = "matchCopy" => dIp < iend /\ dOp + 12 <= oend /\ length >= 4

\* Reading up to p is in bounds.
LEMMA ReadsOk ==
  ASSUME inBounds = TRUE, NEW p, Reads(p), p <= iend
  PROVE  inBounds' = TRUE
BY DEF Reads

\* A write that kept to the buffers.
LEMMA WroteOk ==
  ASSUME NEW b, Wrote(b), b.ok = TRUE
  PROVE  inBounds' = TRUE
BY DEF Wrote

\* The buffer before a write.
LEMMA BufferOk ==
  ASSUME inBounds = TRUE
  PROVE  Buffer.ok = TRUE
BY DEF Buffer

\* A copy from the block into the output.
LEMMA CopyInOk ==
  ASSUME NEW b, b.ok = TRUE, NEW d, NEW s, NEW n, s + n <= iend, d + n <= oend
  PROVE  CopyIn(b, d, s, n).ok = TRUE
BY DEF CopyIn

\* The fast loop, literals: 16 or 32 bytes at a time.
LEMMA FastLiteralsKeeps ==
  ASSUME BlockInv, DecodeInv, FastLiterals
  PROVE  DecodeInv'
<1> DEFINE tok == In(dIp)
           lit == tok \div 16
           r == read_variable_length(dIp + 1, iend - RUN_MASK)
           long == lit = RUN_MASK
           n == IF long THEN lit + r.len ELSE lit
           p == IF long THEN r.ip ELSE dIp + 1
           slow == IF long THEN dOp + n > oend - 32 \/ p + n > iend - 32
                   ELSE p > iend - (16 + 1)
           stride == IF long THEN 32 * ((n + 31) \div 32) ELSE 16
           early == long /\ dIp + 1 >= iend - RUN_MASK
<1>1. /\ oend \in Nat /\ iend \in Nat /\ inBounds = TRUE /\ dIp \in Nat /\ dOp \in Nat
      /\ length \in Nat /\ offset \in Nat /\ dIp < iend /\ dOp + 64 <= oend
  BY DEF DecodeInv, BlockInv, FastLiterals
<1>2. lit \in 0 .. 15 /\ tok \in Nat
  <2>1. tok \in 0 .. 255
    BY <1>1, InType DEF Octet
  <2> HIDE DEF tok
  <2> QED BY <2>1
<1>3. ~early => /\ n \in Nat /\ p \in Nat /\ p > dIp /\ p <= iend
                /\ long => r.ip <= iend - 15
  <2> SUFFICES ASSUME ~early PROVE n \in Nat /\ p \in Nat /\ p > dIp /\ p <= iend /\ (long => r.ip <= iend - 15)
    OBVIOUS
  <2>1. CASE long
    <3> DEFINE k == dIp + 1
               c == iend - 15
    <3>1. k \in Nat /\ k < c /\ k < iend /\ c \in Int /\ c <= iend
      BY <1>1, <2>1 DEF RUN_MASK
    <3>2. r = read_variable_length(k, c)
      BY DEF RUN_MASK
    <3> HIDE DEF r, k, c
    <3>3. r.len \in Nat /\ r.ip \in Nat /\ r.ip > k /\ r.ip <= iend /\ r.ip <= c
      BY <3>1, <3>2, VariableLength
    <3>4. n = lit + r.len /\ p = r.ip
      BY <2>1
    <3> HIDE DEF n, p, lit
    <3> QED BY <1>1, <1>2, <2>1, <3>3, <3>4 DEF k, c
  <2>2. CASE ~long
    BY <1>1, <1>2, <2>2
  <2> QED BY <2>1, <2>2
<1>4. iend' = iend /\ oend' = oend /\ offset' = offset /\ dToken' = tok
  BY DEF FastLiterals
<1>5. CASE early
  <2>1. OutputError(dIp + 1) /\ Reads(dIp + 1) /\ UNCHANGED <<dIp, dOp, length>>
    BY <1>5 DEF FastLiterals
  <2>2. inBounds' = TRUE
    <3>1. dIp + 1 <= iend
      BY <1>1
    <3> QED BY <1>1, <2>1, <3>1, ReadsOk
  <2> HIDE DEF tok
  <2> QED BY <1>1, <1>2, <1>4, <2>1, <2>2 DEF DecodeInv, OutputError, DecodeReturns
<1>6. CASE ~early /\ slow
  <2>1. Goto("literals") /\ Reads(p) /\ length' = n /\ dIp' = p /\ dOp' = dOp
    BY <1>6 DEF FastLiterals
  <2>2. inBounds' = TRUE
    BY <1>1, <1>3, <1>6, <2>1, ReadsOk
  <2> HIDE DEF tok, p, n
  <2> QED BY <1>1, <1>2, <1>3, <1>4, <1>6, <2>1, <2>2 DEF DecodeInv, Goto
<1>7. CASE ~early /\ ~slow
  <2>1. /\ Goto("fastMatch") /\ Wrote(CopyIn(Buffer, dOp, p, stride))
        /\ dIp' = p + n /\ dOp' = dOp + n /\ length' = length
    BY <1>7 DEF FastLiterals
  <2>2. /\ n \in Nat /\ p \in Nat /\ p + stride <= iend /\ dOp + stride <= oend
        /\ p + n + 3 <= iend /\ dOp + n + 32 <= oend
    <3>1. CASE long
      <4>1. dOp + n <= oend - 32 /\ p + n <= iend - 32 /\ n \in Nat /\ p \in Nat /\ stride = 32 * ((n + 31) \div 32)
        BY <1>1, <1>3, <1>7, <3>1
      <4> HIDE DEF n, p, stride
      <4> QED BY <1>1, <4>1
    <3>2. CASE ~long
      <4>1. n = lit /\ p = dIp + 1 /\ p <= iend - 17 /\ stride = 16 /\ lit \in 0 .. 14
        BY <1>1, <1>2, <1>7, <3>2 DEF RUN_MASK
      <4> HIDE DEF n, p, stride, lit
      <4> QED BY <1>1, <4>1
    <3> QED BY <3>1, <3>2
  <2> HIDE DEF n, p, stride, tok
  <2>3. inBounds' = TRUE
    BY <1>1, <2>1, <2>2, BufferOk, CopyInOk, WroteOk
  <2> QED BY <1>1, <1>2, <1>4, <2>1, <2>2, <2>3 DEF DecodeInv, Goto
<1> QED BY <1>5, <1>6, <1>7

\* Eighteen bytes of a match, in three copies.
LEMMA EighteenOk ==
  ASSUME NEW b, b.ok = TRUE, NEW d \in Nat, NEW s \in Nat, oend \in Nat, s + 8 <= d, d + 18 <= oend
  PROVE  Copy(Copy(Copy(b, d, s, 8), d + 8, s + 8, 8), d + 16, s + 16, 2).ok = TRUE
<1> DEFINE x == Copy(b, d, s, 8)
           y == Copy(x, d + 8, s + 8, 8)
<1>1. x.ok = TRUE
  <2>1. d + 8 <= oend /\ 8 \in Nat
    OBVIOUS
  <2> QED BY <2>1, CopyOk
<1> HIDE DEF x
<1>2. d + 8 \in Nat /\ s + 8 \in Nat /\ s + 8 + 8 <= d + 8 /\ d + 8 + 8 <= oend /\ 8 \in Nat
  OBVIOUS
<1>3. y.ok = TRUE
  BY <1>1, <1>2, CopyOk
<1> HIDE DEF y
<1>4. d + 16 \in Nat /\ s + 16 \in Nat /\ s + 16 + 2 <= d + 16 /\ d + 16 + 2 <= oend /\ 2 \in Nat
  OBVIOUS
<1>5. Copy(y, d + 16, s + 16, 2).ok = TRUE
  BY <1>3, <1>4, CopyOk
<1> QED BY <1>5 DEF x, y

\* The fast loop, the match: its guards leave 64 bytes of output.
LEMMA FastMatchKeeps ==
  ASSUME BlockInv, DecodeInv, FastMatch
  PROVE  DecodeInv'
<1> DEFINE off == LZ4_readLE16(dIp)
           m == dOp - off
           code == dToken % 16
           r == read_variable_length(dIp + 2, iend - LASTLITERALS + 1)
           long == code = ML_MASK
           n == MINMATCH + (IF long THEN code + r.len ELSE code)
           p == IF long THEN r.ip ELSE dIp + 2
           before == m < 0 /\ (long \/ ~NearEnd(n))
<1>1. /\ oend \in Nat /\ iend \in Nat /\ inBounds = TRUE /\ dIp \in Nat /\ dOp \in Nat
      /\ dToken \in Nat /\ dIp + 3 <= iend /\ dOp + 32 <= oend
  BY DEF DecodeInv, BlockInv, FastMatch
<1>2. off \in Nat /\ code \in 0 .. 15
  <2>1. off \in Nat
    BY <1>1, OffsetType
  <2> QED BY <1>1, <2>1
<1>3. r.len \in Nat /\ r.ip \in Nat /\ r.ip <= iend /\ (~r.error => r.ip < iend)
  <2> DEFINE k == dIp + 2
             c == iend - LASTLITERALS + 1
  <2>1. k \in Nat /\ k < iend /\ c \in Int /\ c <= iend
    BY <1>1 DEF LASTLITERALS
  <2>2. r = read_variable_length(k, c)
    OBVIOUS
  <2> HIDE DEF k, c, r
  <2>3. r.len \in Nat /\ r.ip \in Nat /\ r.ip <= iend /\ (~r.error => r.ip < c)
    BY <2>1, <2>2, VariableLength
  <2>4. r.ip < c => r.ip < iend
    BY <1>1, <2>1, <2>3
  <2> QED BY <2>3, <2>4
<1> HIDE DEF off, r, code
<1>4. n \in Nat /\ n >= 4 /\ p \in Nat /\ p <= iend /\ (~(long /\ r.error) => p < iend)
  <2>1. CASE long
    <3>1. n = 4 + code + r.len /\ p = r.ip
      BY <1>2, <1>3, <2>1 DEF MINMATCH
    <3> HIDE DEF n, p
    <3> QED BY <1>2, <1>3, <2>1, <3>1
  <2>2. CASE ~long
    BY <1>1, <1>2, <2>2 DEF MINMATCH
  <2> QED BY <2>1, <2>2
<1>5. /\ iend' = iend /\ oend' = oend /\ dToken' = dToken /\ offset' = off /\ length' = n /\ dIp' = p
  BY DEF FastMatch, off, code, r
<1>6. CASE before
  <2>1. OutputError(dIp + 2) /\ Reads(dIp + 2) /\ UNCHANGED dOp
    BY <1>6 DEF FastMatch, off, code, r
  <2>2. dIp + 2 <= iend
    BY <1>1
  <2>3. inBounds' = TRUE
    BY <1>1, <2>1, <2>2, ReadsOk
  <2> HIDE DEF n, p
  <2> QED BY <1>1, <1>2, <1>4, <1>5, <2>1, <2>3 DEF DecodeInv, OutputError, DecodeReturns
<1>7. CASE ~before /\ long /\ r.error
  <2>1. OutputError(p) /\ Reads(p) /\ UNCHANGED dOp
    BY <1>7 DEF FastMatch, off, code, r
  <2>2. inBounds' = TRUE
    BY <1>1, <1>4, <2>1, ReadsOk
  <2> HIDE DEF n, p
  <2> QED BY <1>1, <1>2, <1>4, <1>5, <2>1, <2>2 DEF DecodeInv, OutputError, DecodeReturns
<1>8. CASE ~before /\ ~(long /\ r.error) /\ NearEnd(n)
  <2>1. Goto("matchCopy") /\ Reads(p) /\ UNCHANGED dOp
    BY <1>8 DEF FastMatch, off, code, r
  <2>2. inBounds' = TRUE
    BY <1>1, <1>4, <2>1, ReadsOk
  <2>3. p < iend
    BY <1>4, <1>8
  <2> HIDE DEF n, p
  <2> QED BY <1>1, <1>2, <1>4, <1>5, <2>1, <2>2, <2>3 DEF DecodeInv, Goto
<1>9. CASE ~before /\ ~(long /\ r.error) /\ ~NearEnd(n)
  <2> DEFINE eighteen == Copy(Copy(Copy(Buffer, dOp, m, 8), dOp + 8, m + 8, 8), dOp + 16, m + 16, 2)
             small == LZ4_memcpy_using_offset(Buffer, dOp, m, dOp + n, off)
             wide == LZ4_wildCopy32(Buffer, dOp, m, dOp + n)
  <2>1. /\ Goto("fast") /\ dOp' = dOp + n
        /\ Wrote(IF ~long /\ off >= 8 THEN eighteen ELSE IF off < 16 THEN small ELSE wide)
    BY <1>9 DEF FastMatch, off, code, r
  <2>2. p < iend
    BY <1>4, <1>9
  <2>3. m \in Nat /\ dOp + n + 64 < oend /\ dOp = m + off
    <3>1. ~(m < 0) /\ ~(dOp + n >= oend - 64)
      BY <1>9 DEF NearEnd, FASTLOOP_SAFE_DISTANCE
    <3> HIDE DEF n
    <3> QED BY <1>1, <1>2, <1>4, <3>1
  <2>4. Buffer.ok = TRUE
    BY <1>1, BufferOk
  <2> HIDE DEF m, n
  <2>5. ~long /\ off >= 8 => eighteen.ok = TRUE
    <3> SUFFICES ASSUME off >= 8 PROVE eighteen.ok = TRUE
      OBVIOUS
    <3>1. m + 8 <= dOp /\ dOp + 18 <= oend
      BY <1>1, <1>2, <1>4, <2>3
    <3> QED BY <1>1, <2>3, <2>4, <3>1, EighteenOk
  <2>6. off < 16 => small.ok = TRUE
    <3>1. dOp + n \in Nat /\ dOp <= dOp + n /\ dOp + 16 <= oend /\ dOp + n + 8 <= oend
      BY <1>1, <1>4, <2>3
    <3> QED BY <1>1, <1>2, <2>3, <2>4, <3>1, MemcpyUsingOffsetOk
  <2>7. ~(off < 16) => wide.ok = TRUE
    <3> SUFFICES ASSUME ~(off < 16) PROVE wide.ok = TRUE
      OBVIOUS
    <3>1. dOp + n \in Nat /\ dOp <= dOp + n /\ m + 16 <= dOp /\ dOp + n + 64 <= oend
      BY <1>1, <1>2, <1>4, <2>3
    <3> QED BY <1>1, <2>3, <2>4, <3>1, WildCopy32Ok
  <2>8. inBounds' = TRUE
    <3> HIDE DEF eighteen, small, wide, long
    <3>1. CASE ~long /\ off >= 8
      BY <2>1, <2>5, <3>1, WroteOk
    <3>2. CASE ~(~long /\ off >= 8) /\ off < 16
      BY <2>1, <2>6, <3>2, WroteOk
    <3>3. CASE ~(~long /\ off >= 8) /\ ~(off < 16)
      BY <2>1, <2>7, <3>3, WroteOk
    <3> QED BY <3>1, <3>2, <3>3
  <2> HIDE DEF p
  <2> QED BY <1>1, <1>2, <1>4, <1>5, <2>1, <2>2, <2>3, <2>8 DEF DecodeInv, Goto
<1> QED BY <1>6, <1>7, <1>8, <1>9

\* The safe loop, the token: its shortcut or the literal length.
LEMMA SafeTokenKeeps ==
  ASSUME BlockInv, DecodeInv, SafeToken
  PROVE  DecodeInv'
<1> DEFINE tok == In(dIp)
           lit == tok \div 16
           code == tok % 16
           p == dIp + 1
           r == read_variable_length(p, iend - RUN_MASK)
           off == LZ4_readLE16(p + lit)
           m == dOp + lit - off
           copied == CopyIn(Buffer, dOp, p, 16)
           eighteen == Copy(Copy(Copy(copied, dOp + lit, m, 8), dOp + lit + 8, m + 8, 8),
                            dOp + lit + 16, m + 16, 2)
           near == code # ML_MASK /\ off >= 8 /\ m >= 0
<1>1. /\ oend \in Nat /\ iend \in Nat /\ inBounds = TRUE /\ dIp \in Nat /\ dOp \in Nat
      /\ length \in Nat /\ offset \in Nat /\ dIp < iend /\ dOp <= oend
  BY DEF DecodeInv, BlockInv, SafeToken
<1>2. tok \in Nat /\ lit \in 0 .. 15 /\ code \in 0 .. 15
  <2>1. tok \in 0 .. 255
    BY <1>1, InType DEF Octet
  <2> HIDE DEF tok
  <2> QED BY <2>1
<1> HIDE DEF tok
<1>3. off \in Nat
  <2>1. p + lit \in Nat
    BY <1>1, <1>2
  <2> QED BY <2>1, OffsetType
<1>4. iend' = iend /\ oend' = oend /\ dToken' = tok
  BY DEF SafeToken, tok
<1>5. CASE Shortcut
  <2>1. lit \in 0 .. 14 /\ p + 16 < iend /\ dOp + 32 <= oend
    BY <1>1, <1>2, <1>5 DEF Shortcut, tok, RUN_MASK
  <2>2. copied.ok = TRUE
    <3>1. p + 16 <= iend /\ dOp + 16 <= oend
      BY <1>1, <2>1
    <3> QED BY <1>1, <3>1, BufferOk, CopyInOk
  <2>3. /\ dIp' = p + lit + 2 /\ offset' = off
        /\ IF near
           THEN Wrote(eighteen) /\ dOp' = dOp + lit + code + MINMATCH /\ Goto("safe") /\ length' = length
           ELSE Wrote(copied) /\ dOp' = dOp + lit /\ length' = code /\ Goto("copyMatch")
    BY <1>5 DEF SafeToken, tok
  <2> HIDE DEF lit, code, off, copied
  <2>4. CASE near
    <3> DEFINE d == dOp + lit
    <3>1. d \in Nat /\ m \in Nat /\ m + 8 <= d /\ d + 18 <= oend
      BY <1>1, <1>3, <2>1, <2>4
    <3>2. eighteen.ok = TRUE
      <4> HIDE DEF d, m
      <4>1. Copy(Copy(Copy(copied, d, m, 8), d + 8, m + 8, 8), d + 16, m + 16, 2).ok = TRUE
        BY <1>1, <2>2, <3>1, EighteenOk
      <4> QED BY <4>1 DEF d
    <3>3. inBounds' = TRUE
      <4> HIDE DEF eighteen
      <4> QED BY <2>3, <2>4, <3>2, WroteOk
    <3>4. code \in 0 .. 14
      BY <1>2, <2>4 DEF ML_MASK
    <3>5. dIp' = p + lit + 2 /\ dOp' = dOp + lit + code + 4 /\ dPc' = "safe" /\ length' = length
      BY <2>3, <2>4 DEF Goto, MINMATCH
    <3>6. dIp' \in Nat /\ dOp' \in Nat /\ dIp' < iend /\ dOp' <= oend
      BY <1>1, <2>1, <3>4, <3>5
    <3> QED BY <1>1, <1>2, <1>3, <1>4, <2>3, <3>3, <3>5, <3>6 DEF DecodeInv
  <2>5. CASE ~near
    <3>1. inBounds' = TRUE
      BY <2>2, <2>3, <2>5, WroteOk
    <3>2. dIp' = p + lit + 2 /\ dOp' = dOp + lit /\ dPc' = "copyMatch" /\ length' = code
      BY <2>3, <2>5 DEF Goto
    <3>3. dIp' \in Nat /\ dOp' \in Nat /\ dIp' < iend /\ dOp' + 12 <= oend /\ length' \in Nat
      BY <1>1, <1>2, <2>1, <3>2
    <3> QED BY <1>1, <1>2, <1>3, <1>4, <2>3, <3>1, <3>2, <3>3 DEF DecodeInv
  <2> QED BY <2>4, <2>5
<1>6. CASE ~Shortcut
  <2> DEFINE early == lit = RUN_MASK /\ p >= iend - RUN_MASK
  <2>1. /\ IF early THEN OutputError(p) /\ UNCHANGED <<dIp, length>>
           ELSE /\ length' = IF lit = RUN_MASK THEN lit + r.len ELSE lit
                /\ dIp' = IF lit = RUN_MASK THEN r.ip ELSE p
                /\ Goto("literals")
        /\ Reads(p) /\ UNCHANGED <<dOp, offset>>
    BY <1>6 DEF SafeToken, tok
  <2>2. inBounds' = TRUE
    <3>1. p <= iend
      BY <1>1
    <3> HIDE DEF p
    <3> QED BY <1>1, <2>1, <3>1, ReadsOk
  <2>3. CASE early
    BY <1>1, <1>2, <1>4, <2>1, <2>2, <2>3 DEF DecodeInv, OutputError, DecodeReturns
  <2>4. CASE ~early /\ lit = RUN_MASK
    <3> DEFINE c == iend - RUN_MASK
    <3>1. p \in Nat /\ p < c /\ p < iend /\ c \in Int /\ c <= iend
      BY <1>1, <2>4 DEF RUN_MASK
    <3>2. r = read_variable_length(p, c)
      OBVIOUS
    <3> HIDE DEF p, c, r
    <3>3. r.len \in Nat /\ r.ip \in Nat /\ r.ip <= iend
      BY <3>1, <3>2, VariableLength
    <3>4. length' = lit + r.len /\ dIp' = r.ip /\ dPc' = "literals"
      BY <2>1, <2>4 DEF Goto
    <3>5. length' \in Nat
      <4> HIDE DEF lit
      <4> QED BY <1>2, <3>3, <3>4
    <3> QED BY <1>1, <1>2, <1>4, <2>1, <2>2, <3>3, <3>4, <3>5 DEF DecodeInv
  <2>5. CASE lit # RUN_MASK
    <3>1. length' = lit /\ dIp' = p /\ dPc' = "literals"
      BY <2>1, <2>5 DEF Goto
    <3>2. length' \in Nat /\ dIp' \in Nat /\ dIp' <= iend
      BY <1>1, <1>2, <3>1
    <3> QED BY <1>1, <1>2, <1>4, <2>1, <2>2, <3>1, <3>2 DEF DecodeInv
  <2> QED BY <2>3, <2>4, <2>5
<1> QED BY <1>5, <1>6

\* LZ4_wildCopy8 copies at most seven bytes more, or eight for none.
LEMMA WildLengthBound ==
  ASSUME NEW n \in Nat
  PROVE  /\ WildLength(n) \in Nat /\ (n = 0 => WildLength(n) = 8) /\ (n > 0 => WildLength(n) <= n + 7)
BY DEF WildLength

\* The safe loop, literals: wild copies, or the last ones exactly.
LEMMA SafeLiteralsKeeps ==
  ASSUME BlockInv, DecodeInv, SafeLiterals
  PROVE  DecodeInv'
<1> DEFINE cpy == dOp + length
           p == dIp + length
           n == WildLength(length)
           end == cpy > oend - MFLIMIT \/ p > iend - (2 + 1 + LASTLITERALS)
<1>1. /\ oend \in Nat /\ iend \in Nat /\ inBounds = TRUE /\ dIp \in Nat /\ dOp \in Nat
      /\ dToken \in Nat /\ length \in Nat /\ offset \in Nat /\ dIp <= iend /\ dOp <= oend
  BY DEF DecodeInv, BlockInv, SafeLiterals
<1>2. iend' = iend /\ oend' = oend /\ dToken' = dToken
  BY DEF SafeLiterals
<1>3. Buffer.ok = TRUE
  BY <1>1, BufferOk
<1>4. cpy \in Nat /\ p \in Nat
  BY <1>1
<1>5. CASE end /\ AtEnd(p, cpy)
  <2>1. /\ Wrote(CopyIn(Buffer, dOp, dIp, length)) /\ dPc' = "returned" /\ dOp' = cpy /\ dIp' = p
        /\ UNCHANGED <<length, offset>>
    BY <1>5 DEF SafeLiterals, DecodeReturns
  <2>2. dIp + length <= iend /\ dOp + length <= oend
    BY <1>1, <1>5 DEF AtEnd
  <2>3. inBounds' = TRUE
    BY <1>3, <2>1, <2>2, CopyInOk, WroteOk
  <2> QED BY <1>1, <1>2, <1>4, <2>1, <2>3 DEF DecodeInv
<1>6. CASE end /\ ~AtEnd(p, cpy)
  <2>1. dPc' = "returned" /\ UNCHANGED <<inBounds, dOp, dIp, length, offset>>
    BY <1>6 DEF SafeLiterals, OutputError, DecodeReturns
  <2> QED BY <1>1, <1>2, <2>1 DEF DecodeInv
<1>7. CASE ~end
  <2>1. /\ Wrote(CopyIn(Buffer, dOp, dIp, n)) /\ dOp' = cpy /\ dIp' = p + 2
        /\ offset' = LZ4_readLE16(p) /\ length' = dToken % 16 /\ dPc' = "copyMatch"
    BY <1>7 DEF SafeLiterals, Goto
  <2>2. cpy + 12 <= oend /\ p + 8 <= iend
    BY <1>1, <1>4, <1>7 DEF MFLIMIT, LASTLITERALS
  <2>3. dIp + n <= iend /\ dOp + n <= oend
    <3>1. n \in Nat /\ (length = 0 => n = 8) /\ (length > 0 => n <= length + 7)
      BY <1>1, WildLengthBound
    <3> HIDE DEF n
    <3> QED BY <1>1, <2>2, <3>1
  <2>4. inBounds' = TRUE
    BY <1>3, <2>1, <2>3, CopyInOk, WroteOk
  <2>5. offset' \in Nat /\ length' \in Nat
    BY <1>1, <1>4, <2>1, OffsetType
  <2>6. dIp' \in Nat /\ dIp' < iend /\ dOp' \in Nat /\ dOp' + 12 <= oend
    BY <1>1, <1>4, <2>1, <2>2
  <2> QED BY <1>1, <1>2, <2>1, <2>4, <2>5, <2>6 DEF DecodeInv
<1> QED BY <1>5, <1>6, <1>7

\* The match length, wherever the decoder comes from.
LEMMA MatchLengthKeeps ==
  ASSUME BlockInv, DecodeInv, MatchLength
  PROVE  DecodeInv'
<1> DEFINE c == iend - LASTLITERALS + 1
           r == read_variable_length(dIp, c)
           long == length = ML_MASK
<1>1. /\ oend \in Nat /\ iend \in Nat /\ inBounds = TRUE /\ dIp \in Nat /\ dOp \in Nat
      /\ dToken \in Nat /\ length \in Nat /\ offset \in Nat /\ dIp < iend /\ dOp + 12 <= oend
  BY DEF DecodeInv, BlockInv, MatchLength
<1>2. UNCHANGED <<dst, inBounds, iend, oend, dOp, dToken, offset>>
  BY DEF MatchLength
<1>3. r.len \in Nat /\ r.ip \in Nat /\ (~r.error => r.ip < iend)
  <2>1. c \in Int /\ c <= iend
    BY <1>1 DEF LASTLITERALS
  <2> HIDE DEF c
  <2>2. r.len \in Nat /\ r.ip \in Nat /\ (~r.error => r.ip < c)
    BY <1>1, <2>1, VariableLength
  <2> HIDE DEF r
  <2>3. r.ip < c => r.ip < iend
    BY <1>1, <2>1, <2>2
  <2> QED BY <2>2, <2>3
<1>4. CASE long /\ r.error
  <2>1. dPc' = "returned" /\ UNCHANGED <<dIp, length>>
    BY <1>4 DEF MatchLength, OutputError, DecodeReturns
  <2> QED BY <1>1, <1>2, <2>1 DEF DecodeInv
<1>5. CASE ~(long /\ r.error)
  <2>1. /\ length' = MINMATCH + (IF long THEN length + r.len ELSE length)
        /\ dIp' = (IF long THEN r.ip ELSE dIp) /\ dPc' = "matchCopy"
    BY <1>5 DEF MatchLength, Goto
  <2> HIDE DEF r
  <2>2. length' \in Nat /\ length' >= 4 /\ dIp' \in Nat /\ dIp' < iend
    <3>1. CASE long
      <4>1. length' = 4 + (length + r.len) /\ dIp' = r.ip
        BY <2>1, <3>1 DEF MINMATCH
      <4> QED BY <1>1, <1>3, <1>5, <3>1, <4>1
    <3>2. CASE ~long
      <4>1. length' = 4 + length /\ dIp' = dIp
        BY <2>1, <3>2 DEF MINMATCH
      <4> QED BY <1>1, <4>1
    <3> QED BY <3>1, <3>2
  <2> QED BY <1>1, <1>2, <2>1, <2>2 DEF DecodeInv
<1> QED BY <1>4, <1>5

\* The safe loop, the match: near the end of the output byte by byte.
LEMMA SafeMatchKeeps ==
  ASSUME BlockInv, DecodeInv, SafeMatch
  PROVE  DecodeInv'
<1> DEFINE m == dOp - offset
           cpy == dOp + length
           eight == FirstEight(Buffer, dOp, m, offset)
           s == AfterEight(m, offset)
           d == dOp + 8
           limit == oend - (WILDCOPYLENGTH - 1)
           strides == IF d < limit THEN limit - d ELSE 0
           wild == IF d < limit THEN LZ4_wildCopy8(eight, d, s, limit) ELSE eight
           tail == IF cpy > d + strides THEN cpy - d - strides ELSE 0
           singles == CopyBytes(wild, d + strides, s + strides, tail)
           sixteen == Copy(eight, d, s, 8)
           long == LZ4_wildCopy8(sixteen, d + 8, s + 8, cpy)
<1>1. /\ oend \in Nat /\ iend \in Nat /\ inBounds = TRUE /\ dIp \in Nat /\ dOp \in Nat
      /\ dToken \in Nat /\ length \in Nat /\ offset \in Nat /\ dIp < iend /\ dOp + 12 <= oend
      /\ length >= 4
  BY DEF DecodeInv, BlockInv, SafeMatch
<1>2. UNCHANGED <<iend, oend, dIp, dToken, length, offset>>
  BY DEF SafeMatch
<1>3. cpy \in Nat /\ m \in Int /\ d \in Nat /\ limit = oend - 7 /\ strides \in Nat
  BY <1>1 DEF WILDCOPYLENGTH
<1>4. CASE m < 0
  <2>1. dPc' = "returned" /\ UNCHANGED <<inBounds, dOp>>
    BY <1>4 DEF SafeMatch, OutputError, DecodeReturns
  <2> QED BY <1>1, <1>2, <2>1 DEF DecodeInv
<1>5. CASE ~(m < 0)
  <2>1. m \in Nat /\ dOp = m + offset /\ dOp + 8 <= oend
    BY <1>1, <1>3, <1>5
  <2>2. eight.ok = TRUE
    <3>1. Buffer.ok = TRUE
      BY <1>1, BufferOk
    <3> HIDE DEF m
    <3> QED BY <1>1, <2>1, <3>1, FirstEightOk
  <2>3. s \in Nat /\ s + 8 <= d
    <3> HIDE DEF m
    <3>1. s \in Nat /\ s <= m + offset
      BY <1>1, <2>1, AfterEightBehind
    <3> HIDE DEF s
    <3> QED BY <1>1, <2>1, <3>1
  <2> HIDE DEF eight, s
  <2>4. CASE cpy > oend - MATCH_SAFEGUARD_DISTANCE /\ cpy > oend - LASTLITERALS
    <3>1. dPc' = "returned" /\ Wrote(eight) /\ UNCHANGED dOp
      BY <1>5, <2>4 DEF SafeMatch, OutputError, DecodeReturns, eight
    <3>2. inBounds' = TRUE
      BY <2>2, <3>1, WroteOk
    <3> QED BY <1>1, <1>2, <3>1, <3>2 DEF DecodeInv
  <2>5. CASE cpy > oend - MATCH_SAFEGUARD_DISTANCE /\ ~(cpy > oend - LASTLITERALS)
    <3>1. Wrote(singles) /\ dOp' = cpy /\ dPc' = "safe"
      BY <1>5, <2>5 DEF SafeMatch, Goto, eight, s
    <3>2. cpy + 5 <= oend
      BY <1>1, <1>3, <2>5 DEF LASTLITERALS
    <3>3. wild.ok = TRUE
      <4>1. CASE d < limit
        <5>1. limit \in Int /\ d + 8 <= oend /\ limit + 8 - 1 <= oend
          BY <1>1, <1>3, <4>1
        <5> HIDE DEF d, limit
        <5>2. Strides(eight, d, s, limit, 8).ok = TRUE
          BY <1>1, <1>3, <2>2, <2>3, <5>1, StridesOk
        <5> QED BY <4>1, <5>2 DEF LZ4_wildCopy8
      <4>2. CASE ~(d < limit)
        BY <2>2, <4>2
      <4> QED BY <4>1, <4>2
    <3>4. /\ d + strides \in Nat /\ s + strides \in Nat /\ tail \in Nat
          /\ s + strides <= d + strides /\ d + strides + tail <= oend
      <4>1. d + strides <= oend
        <5>1. d <= oend /\ limit <= oend
          BY <1>1, <1>3
        <5> HIDE DEF d, limit
        <5> QED BY <1>1, <1>3, <5>1
      <4>2. d + strides \in Nat /\ s + strides \in Nat /\ s + strides <= d + strides
        <5> HIDE DEF d, strides
        <5> QED BY <1>3, <2>3
      <4> DEFINE x == d + strides
      <4>3. tail = IF cpy > x THEN cpy - d - strides ELSE 0
        OBVIOUS
      <4>4. cpy - d - strides = cpy - x
        <5> HIDE DEF d, strides, cpy
        <5> QED BY <1>3
      <4> HIDE DEF tail, x, cpy
      <4>5. tail \in Nat /\ x + tail <= oend
        BY <1>1, <1>3, <3>2, <4>1, <4>2, <4>3, <4>4 DEF x
      <4> QED BY <4>2, <4>5 DEF x
    <3>5. singles.ok = TRUE
      <4> HIDE DEF wild, tail, strides, d
      <4>1. d + strides + tail <= oend /\ d + strides \in Nat
        BY <3>4
      <4> QED BY <1>1, <3>3, <3>4, CopyBytesOk
    <3>6. inBounds' = TRUE
      <4> HIDE DEF singles
      <4> QED BY <3>1, <3>5, WroteOk
    <3>7. dOp' <= oend
      <4> HIDE DEF cpy
      <4> QED BY <1>1, <1>3, <3>1, <3>2
    <3> QED BY <1>1, <1>2, <1>3, <3>1, <3>6, <3>7 DEF DecodeInv
  <2>6. CASE ~(cpy > oend - MATCH_SAFEGUARD_DISTANCE)
    <3>1. Wrote(IF length > 16 THEN long ELSE sixteen) /\ dOp' = cpy /\ dPc' = "safe"
      BY <1>5, <2>6 DEF SafeMatch, Goto, eight, s
    <3>2. cpy + 12 <= oend /\ d + 8 <= oend
      BY <1>1, <1>3, <2>6 DEF MATCH_SAFEGUARD_DISTANCE, WILDCOPYLENGTH, MINMATCH
    <3>3. sixteen.ok = TRUE
      <4> HIDE DEF d
      <4>1. 8 \in Nat
        OBVIOUS
      <4> QED BY <1>1, <1>3, <2>2, <2>3, <3>2, <4>1, CopyOk
    <3>4. length > 16 => long.ok = TRUE
      <4> SUFFICES ASSUME length > 16 PROVE long.ok = TRUE
        OBVIOUS
      <4>1. d + 8 \in Nat /\ s + 8 \in Nat /\ cpy \in Int /\ s + 8 + 8 <= d + 8 /\ d + 8 + 8 <= oend
            /\ cpy + 8 - 1 <= oend
        <5>1. d + 16 <= oend
          BY <1>1, <3>2
        <5> HIDE DEF d, cpy
        <5> QED BY <1>1, <1>3, <2>3, <3>2, <5>1
      <4> HIDE DEF sixteen, d, cpy
      <4>2. Strides(sixteen, d + 8, s + 8, cpy, 8).ok = TRUE
        BY <1>1, <3>3, <4>1, StridesOk
      <4> QED BY <4>2 DEF LZ4_wildCopy8
    <3>5. inBounds' = TRUE
      <4> HIDE DEF long, sixteen
      <4>1. CASE length > 16
        BY <3>1, <3>4, <4>1, WroteOk
      <4>2. CASE ~(length > 16)
        BY <3>1, <3>3, <4>2, WroteOk
      <4> QED BY <4>1, <4>2
    <3>6. dOp' <= oend
      <4> HIDE DEF cpy
      <4> QED BY <1>1, <1>3, <3>1, <3>2
    <3> QED BY <1>1, <1>2, <1>3, <3>1, <3>5, <3>6 DEF DecodeInv
  <2> QED BY <2>4, <2>5, <2>6
<1> QED BY <1>4, <1>5

\* The special cases at the start.
LEMMA BeginKeeps ==
  ASSUME BlockInv, DecodeInv, Begin, out' = out
  PROVE  BlockInv' /\ DecodeInv'
<1>1. Len(out) \in Nat
  BY LenProperties DEF BlockInv
<1>2. Max({0, op - LostBytes}) \in Nat
  <2>1. op - LostBytes \in Int
    BY <1>1, LostAssumption DEF op
  <2> DEFINE z == op - LostBytes
  <2> HIDE DEF z
  <2>2. \E x \in {0, z} : \A y \in {0, z} : x >= y
    BY <2>1 DEF z
  <2>3. Max({0, z}) \in {0, z} /\ \A y \in {0, z} : Max({0, z}) >= y
    BY <2>2 DEF Max
  <2>4. Max({0, z}) \in Int /\ Max({0, z}) >= 0
    BY <2>1, <2>3 DEF z
  <2> QED BY <2>4 DEF z
<1>3. iend' \in Nat /\ iend' <= Len(out)
  BY <1>1, <1>2 DEF Begin, op
<1>4. BlockInv'
  BY <1>3 DEF BlockInv
<1>5. /\ oend \in Nat /\ inBounds = TRUE /\ dIp = 0 /\ dOp = 0 /\ dToken \in Nat /\ length \in Nat
      /\ offset \in Nat
  BY DEF DecodeInv, Begin
<1>6. UNCHANGED <<dst, inBounds, oend, dIp, dOp, dToken, length, offset>>
  BY DEF Begin
<1>7. \/ dPc' = "returned"
      \/ dPc' = "safe" /\ iend' # 0
      \/ dPc' = "fast" /\ iend' # 0 /\ oend >= 64
  BY <1>5 DEF Begin, DecodeReturns, Goto, FASTLOOP_SAFE_DISTANCE
<1>8. iend' # 0 => 0 < iend'
  BY <1>3
<1>9. DecodeInv'
  BY <1>5, <1>6, <1>7, <1>8 DEF DecodeInv
<1> QED BY <1>4, <1>9

\* A block that comes back from a container, damaged or not, is decoded
\* inside both buffers.
LEMMA DecompressKeeps ==
  ASSUME BlockInv, DecodeInv, LZ4_decompress_safe, UNCHANGED cvars
  PROVE  BlockInv' /\ DecodeInv'
<1>1. out' = out
  BY DEF cvars
<1>2. CASE Begin
  BY <1>1, <1>2, BeginKeeps
<1>3. CASE FastLiterals \/ FastMatch \/ SafeToken \/ SafeLiterals \/ MatchLength \/ SafeMatch
  <2>1. iend' = iend
    BY <1>3 DEF FastLiterals, FastMatch, SafeToken, SafeLiterals, MatchLength, SafeMatch
  <2>2. BlockInv'
    BY <1>1, <2>1 DEF BlockInv
  <2> QED BY <1>3, <2>2, FastLiteralsKeeps, FastMatchKeeps, SafeTokenKeeps, SafeLiteralsKeeps,
             MatchLengthKeeps, SafeMatchKeeps
<1> QED BY <1>2, <1>3 DEF LZ4_decompress_safe

-----------------------------------------------------------------------------
(* The compressor: its operators *)

\* The call is one of Calls.
SrcInv == \E c \in Calls : src = c.src /\ dstCapacity = c.dstCapacity

\* What the assumption on Calls says of the call.
LEMMA SrcFacts ==
  ASSUME SrcInv
  PROVE  /\ inputSize \in Nat /\ dstCapacity \in Nat /\ src \in [0 .. (inputSize - 1) -> Octet]
         /\ \A p \in Nat : p + 5 <= inputSize => LZ4_hashPosition(p) \in Hashes
<1>1. PICK c \in Calls : src = c.src /\ dstCapacity = c.dstCapacity
  BY DEF SrcInv
<1>2. Size(c.src) = inputSize
  BY <1>1 DEF Size, inputSize
<1>3. /\ inputSize \in Nat /\ dstCapacity \in Nat /\ src \in [0 .. (inputSize - 1) -> Octet]
      /\ \A n \in {4, 5} : \A p \in 0 .. (inputSize - n) :
           Hash([k \in 1 .. n |-> src[p + k - 1]]) \in Hashes
  BY <1>1, <1>2, CallsAssumption DEF Octet
<1>4. ASSUME NEW p \in Nat, p + 5 <= inputSize
      PROVE  LZ4_hashPosition(p) \in Hashes
  <2>1. PICK n \in {4, 5} : n = IF tableType = "byU16" THEN 4 ELSE 5
    OBVIOUS
  <2>2. p \in 0 .. (inputSize - n)
    BY <1>3, <1>4
  <2>3. LZ4_hashPosition(p) = Hash([k \in 1 .. n |-> src[p + k - 1]])
    BY <2>1 DEF LZ4_hashPosition, Bytes
  <2> QED BY <1>3, <2>2, <2>3
<1> QED BY <1>3, <1>4

\* Bytes of the input are a sequence of bytes.
LEMMA BytesSeq ==
  ASSUME SrcInv, NEW p \in Nat, NEW n \in Nat, p + n <= inputSize
  PROVE  Bytes(p, n) \in Seq(Octet) /\ Len(Bytes(p, n)) = n
<1>1. inputSize \in Nat /\ src \in [0 .. (inputSize - 1) -> Octet]
  BY SrcFacts
<1>2. \A k \in 1 .. n : src[p + k - 1] \in Octet
  <2> TAKE k \in 1 .. n
  <2>1. p + k - 1 \in 0 .. (inputSize - 1)
    BY <1>1
  <2> QED BY <1>1, <2>1
<1>3. Bytes(p, n) \in [1 .. n -> Octet]
  BY <1>2 DEF Bytes
<1>4. Bytes(p, n) \in Seq(Octet)
  BY <1>3, SeqDef
<1>5. DOMAIN Bytes(p, n) = 1 .. n
  BY DEF Bytes
<1> QED BY <1>4, <1>5, LenProperties

\* Bytes a length beyond the token takes.
Ext(n) == IF n < 15 THEN 0 ELSE (n - 15) \div 255 + 1

\* The bytes of a length are a sequence of bytes.
LEMMA LengthBytesSeq ==
  ASSUME NEW n \in Nat
  PROVE  LengthBytes(n) \in Seq(Octet) /\ Len(LengthBytes(n)) = n \div 255 + 1
<1> DEFINE m == n \div 255
           s == [k \in 1 .. m |-> 255]
           t == <<n % 255>>
<1>1. m \in Nat /\ n % 255 \in Octet /\ 255 \in Octet
  BY DEF Octet
<1> HIDE DEF m
<1>2. s \in [1 .. m -> Octet]
  BY <1>1
<1>3. s \in Seq(Octet)
  BY <1>1, <1>2, SeqDef
<1>4. Len(s) = m
  <2>1. DOMAIN s = 1 .. m
    OBVIOUS
  <2> HIDE DEF s
  <2> QED BY <1>1, <1>3, <2>1, LenProperties
<1>5. t \in Seq(Octet) /\ Len(t) = 1
  BY <1>1
<1> HIDE DEF s, t
<1>6. s \o t \in Seq(Octet) /\ Len(s \o t) = m + 1
  BY <1>3, <1>4, <1>5, ConcatProperties
<1> QED BY <1>6 DEF LengthBytes, s, t, m

\* The bytes of a length, if the token cannot hold it.
LEMMA ExtraSeq ==
  ASSUME NEW n \in Nat
  PROVE  LET e == IF n >= 15 THEN LengthBytes(n - 15) ELSE <<>>
         IN  e \in Seq(Octet) /\ Len(e) = Ext(n) /\ Ext(n) \in Nat
<1>1. CASE n >= 15
  <2>1. n - 15 \in Nat
    BY <1>1
  <2>2. LengthBytes(n - 15) \in Seq(Octet) /\ Len(LengthBytes(n - 15)) = (n - 15) \div 255 + 1
    BY <2>1, LengthBytesSeq
  <2>3. Ext(n) = (n - 15) \div 255 + 1 /\ Ext(n) \in Nat
    BY <1>1, <2>1 DEF Ext
  <2> QED BY <1>1, <2>2, <2>3
<1>2. CASE ~(n >= 15)
  <2>1. Ext(n) = 0
    BY <1>2 DEF Ext
  <2> QED BY <1>2, <2>1
<1> QED BY <1>1, <1>2

\* Ext as the code bounds it.
LEMMA ExtBound ==
  ASSUME NEW n \in Nat
  PROVE  /\ Ext(n) \in Nat /\ Ext(n) <= n \div 255 + 1 /\ (n < 15 => Ext(n) = 0)
         /\ (n >= 15 => Ext(n) = (n - 15) \div 255 + 1) /\ Ext(n) = (n + 240) \div 255
BY DEF Ext

\* A length takes no negative number of bytes.
LEMMA ExtNat ==
  ASSUME NEW n \in Nat
  PROVE  Ext(n) \in Nat
BY DEF Ext

\* What the proofs use of the constants.
LEMMA ConstantFacts ==
  /\ U16_RANGE \in Nat /\ U16_RANGE > 0 /\ U16_RANGE <= 65536
  /\ acceleration * SkipUnit \in Nat /\ acceleration * SkipUnit >= 64
<1>1. acceleration * 64 \in Nat /\ acceleration * 64 >= 64
  BY LZ4Assumption
<1> QED BY <1>1, LZ4Assumption DEF SkipUnit

\* A distance takes two bytes.
LEMMA WriteLE16Seq ==
  ASSUME NEW x \in Int
  PROVE  LZ4_writeLE16(x) \in Seq(Octet) /\ Len(LZ4_writeLE16(x)) = 2
<1> DEFINE u == x % U16_RANGE
<1>1. U16_RANGE \in Nat /\ U16_RANGE > 0 /\ U16_RANGE <= 65536
  BY ConstantFacts
<1>2. u \in 0 .. (U16_RANGE - 1)
  BY <1>1
<1> HIDE DEF u
<1>3. u % 256 \in Octet /\ u \div 256 \in Octet
  BY <1>1, <1>2 DEF Octet
<1>4. LZ4_writeLE16(x) = <<u % 256, u \div 256>>
  BY DEF LZ4_writeLE16, u
<1> QED BY <1>3, <1>4

\* Min of a pair.
LEMMA MinOfTwo ==
  ASSUME NEW a \in Int, NEW b \in Int
  PROVE  Min({a, b}) = IF a <= b THEN a ELSE b
<1> DEFINE z == IF a <= b THEN a ELSE b
<1>1. z \in {a, b} /\ \A y \in {a, b} : z <= y
  OBVIOUS
<1>2. \A x \in {a, b} : (\A y \in {a, b} : x <= y) => x = z
  OBVIOUS
<1> HIDE DEF z
<1>3. Min({a, b}) = z
  BY <1>1, <1>2 DEF Min
<1> QED BY <1>3 DEF z

\* A set of naturals with a bound has a greatest element.
LEMMA Greatest ==
  ASSUME NEW n \in Nat, NEW S \in SUBSET (0 .. n), 0 \in S
  PROVE  Max(S) \in S /\ \A z \in S : z <= Max(S)
<1> DEFINE T == {n - x : x \in S}
<1>1. T \subseteq Nat /\ n - 0 \in T
  OBVIOUS
<1>2. PICK y \in T : \A z \in T : y <= z
  <2> HIDE DEF T
  <2> QED BY <1>1, LeastOf
<1>3. PICK x \in S : y = n - x
  BY <1>2
<1>4. \A z \in S : x >= z
  <2> TAKE z \in S
  <2>1. n - z \in T
    OBVIOUS
  <2>2. y <= n - z
    BY <1>2, <2>1
  <2>3. x \in Int /\ z \in Int
    OBVIOUS
  <2> QED BY <1>3, <2>2, <2>3
<1>5. Max(S) \in S /\ \A z \in S : Max(S) >= z
  BY <1>4 DEF Max
<1>6. \A z \in S : z \in Int
  OBVIOUS
<1> QED BY <1>5, <1>6

\* At most n bytes are in common.
LEMMA NbCommonBytes ==
  ASSUME NEW p, NEW q, NEW n \in Nat
  PROVE  LZ4_NbCommonBytes(p, q, n) \in 0 .. n
<1> DEFINE S == {k \in 0 .. n : \A j \in 0 .. (k - 1) : src[p + j] = src[q + j]}
<1>1. S \in SUBSET (0 .. n) /\ 0 \in S
  OBVIOUS
<1>2. Max(S) \in S
  <2> HIDE DEF S
  <2> QED BY <1>1, Greatest
<1> QED BY <1>2 DEF LZ4_NbCommonBytes

\* The match is extended to the left at most to the anchor and to the start.
LEMMA CatchUpBound ==
  ASSUME NEW p \in Nat, NEW q \in Nat, anchor \in Nat, anchor <= p
  PROVE  CatchUp(p, q) \in Nat /\ CatchUp(p, q) <= p - anchor /\ CatchUp(p, q) <= q
<1> DEFINE n == Min({p - anchor, q})
           S == {k \in 0 .. n : \A j \in 1 .. k : src[p - j] = src[q - j]}
<1>1. n \in Nat /\ n <= p - anchor /\ n <= q
  <2>1. p - anchor \in Int /\ q \in Int
    OBVIOUS
  <2>2. n = IF p - anchor <= q THEN p - anchor ELSE q
    BY <2>1, MinOfTwo
  <2> HIDE DEF n
  <2> QED BY <2>2
<1> HIDE DEF n
<1>2. S \in SUBSET (0 .. n) /\ 0 \in S
  BY <1>1
<1>3. Max(S) \in S
  <2> HIDE DEF S
  <2> QED BY <1>1, <1>2, Greatest
<1>4. CatchUp(p, q) = Max(S)
  BY DEF CatchUp, n
<1> QED BY <1>1, <1>3, <1>4

\* The shorter tests stop at the limit too.
LEMMA CountMoreBound ==
  ASSUME NEW p \in Nat, NEW q, NEW k \in Nat, NEW n \in Nat, NEW limit \in Int, p + k <= limit
  PROVE  CountMore(p, q, k, n, limit) \in Nat /\ p + CountMore(p, q, k, n, limit) <= limit
BY DEF CountMore

\* LZ4_count stops at the limit.
LEMMA CountBound ==
  ASSUME NEW p \in Nat, NEW q, NEW limit \in Int, p <= limit, inputSize \in Nat
  PROVE  LZ4_count(p, q, limit) \in Nat /\ p + LZ4_count(p, q, limit) <= limit
<1> DEFINE n == inputSize \div STEPSIZE
           S == {w \in 0 .. n :
                  /\ p + STEPSIZE * w <= limit \/ w = 0
                  /\ \A v_ \in 0 .. (w - 1) :
                       LZ4_NbCommonBytes(p + STEPSIZE * v_, q + STEPSIZE * v_, STEPSIZE) = STEPSIZE}
           words == Max(S)
           k == STEPSIZE * words
<1>1. n \in Nat
  BY DEF STEPSIZE
<1> HIDE DEF n
<1>2. S \in SUBSET (0 .. n) /\ 0 \in S
  BY <1>1
<1>3. words \in S
  <2> HIDE DEF S
  <2> QED BY <1>1, <1>2, Greatest
<1>4. words \in Nat /\ (p + 8 * words <= limit \/ words = 0)
  BY <1>1, <1>3 DEF STEPSIZE
<1> HIDE DEF words, S
<1>5. k \in Nat /\ p + k <= limit
  BY <1>4 DEF STEPSIZE
<1> HIDE DEF k
<1>6. LZ4_count(p, q, limit) =
        IF p + k < limit - (STEPSIZE - 1)
        THEN k + LZ4_NbCommonBytes(p + k, q + k, STEPSIZE)
        ELSE CountMore(p, q, CountMore(p, q, CountMore(p, q, k, 4, limit), 2, limit), 1, limit)
  BY DEF LZ4_count, k, words, S, n
<1>7. CASE p + k < limit - (STEPSIZE - 1)
  <2>1. LZ4_NbCommonBytes(p + k, q + k, STEPSIZE) \in 0 .. 8
    BY NbCommonBytes DEF STEPSIZE
  <2>2. p + k < limit - 7
    BY <1>7 DEF STEPSIZE
  <2> QED BY <1>5, <1>6, <1>7, <2>1, <2>2
<1>8. CASE ~(p + k < limit - (STEPSIZE - 1))
  <2> DEFINE x == CountMore(p, q, k, 4, limit)
             y == CountMore(p, q, x, 2, limit)
             z == CountMore(p, q, y, 1, limit)
  <2>1. x \in Nat /\ p + x <= limit
    BY <1>5, CountMoreBound
  <2> HIDE DEF x
  <2>2. y \in Nat /\ p + y <= limit
    BY <2>1, CountMoreBound
  <2> HIDE DEF y
  <2>3. z \in Nat /\ p + z <= limit
    BY <2>2, CountMoreBound
  <2> QED BY <1>6, <1>8, <2>3 DEF x, y
<1> QED BY <1>7, <1>8

-----------------------------------------------------------------------------
(* The compressor: how much of the input is behind it, and of the output *)

\* What n bytes of input may have become, without a last run.
Spent(n) == n + n \div 255

\* With LZ4_compressBound of room nothing is tested: the block is no longer
\* than what the input behind the anchor accounts for.
Room ==
  /\ cPc \in {"search", "literals", "next", "last"} /\ ~limitedOutput => op <= Spent(anchor)
  /\ cPc = "match" /\ ~limitedOutput =>
       op <= Spent(anchor) + 1 + Ext(ip - anchor) + (ip - anchor)
  /\ cPc = "match" /\ limitedOutput => op + 5 <= dstCapacity
  /\ cPc = "next" /\ limitedOutput => op + 6 <= dstCapacity
  /\ cPc = "returned" => result <= dstCapacity

\* Where the compressor is: a match never begins in the last 12 bytes.
Positions ==
  /\ cPc = "start" => ip = 0 /\ anchor = 0 /\ out = <<>>
  /\ cPc = "search" => /\ anchor <= forwardIp /\ forwardIp + 11 <= inputSize
                       /\ step >= 1 /\ searchMatchNb >= 64
  /\ cPc = "literals" => anchor <= ip /\ ip + 12 <= inputSize
  /\ cPc = "match" => /\ anchor <= ip /\ ip + 12 <= inputSize
                      /\ token \in 1 .. Len(out) /\ out[token] <= 240
  /\ cPc = "next" => ip = anchor /\ ip + 12 <= inputSize /\ ip >= 4
  /\ cPc = "last" => anchor <= inputSize

\* The inductive invariant of the compressor's bounds.
CompressInv ==
  /\ SrcInv /\ cInBounds = TRUE /\ out \in Seq(Octet) /\ hashTable \in [Hashes -> Nat]
  /\ ip \in Nat /\ anchor \in Nat /\ match \in Nat /\ forwardIp \in Nat /\ step \in Nat
  /\ searchMatchNb \in Nat /\ token \in Nat /\ result \in Nat
  /\ cPc \in {"start", "search", "literals", "match", "next", "last", "returned"}
  /\ Positions /\ Room

\* The call does not change while it runs.
LEMMA SameCall ==
  ASSUME CompressInv, UNCHANGED <<src, dstCapacity>>
  PROVE  /\ SrcInv' /\ inputSize' = inputSize /\ limitedOutput' = limitedOutput
         /\ inputSize \in Nat /\ dstCapacity \in Nat
<1>1. SrcInv
  BY DEF CompressInv
<1>2. inputSize' = inputSize
  BY DEF inputSize
<1> QED BY <1>1, <1>2, SrcFacts DEF SrcInv, limitedOutput

\* A table entry is a position.
LEMMA StoredType ==
  ASSUME NEW p \in Nat
  PROVE  Stored(p) \in Nat
<1>1. U16_RANGE \in Nat /\ U16_RANGE > 0
  BY ConstantFacts
<1>2. p % U16_RANGE \in Nat
  BY <1>1
<1> QED BY <1>2 DEF Stored

\* The table stays a table.
LEMMA PutPosition ==
  ASSUME SrcInv, NEW t \in [Hashes -> Nat], NEW p \in Nat, p + 5 <= inputSize
  PROVE  LZ4_putPosition(t, p) \in [Hashes -> Nat]
<1>1. LZ4_hashPosition(p) \in Hashes /\ Stored(p) \in Nat
  BY SrcFacts, StoredType
<1> QED BY <1>1 DEF LZ4_putPosition

\* The bounds, action by action: Start.
LEMMA StartKeeps ==
  ASSUME CompressInv, Start
  PROVE  CompressInv'
<1>1. /\ cInBounds = TRUE /\ out = <<>> /\ hashTable \in [Hashes -> Nat]
      /\ ip = 0 /\ anchor = 0 /\ match \in Nat /\ forwardIp \in Nat /\ step \in Nat
      /\ searchMatchNb \in Nat /\ token \in Nat /\ result \in Nat
  BY DEF CompressInv, Positions, Start
<1>2. UNCHANGED <<src, dstCapacity, ip, anchor, match, token, cInBounds>>
  BY DEF Start
<1>3. /\ SrcInv /\ SrcInv' /\ inputSize' = inputSize /\ limitedOutput' = limitedOutput
      /\ inputSize \in Nat /\ dstCapacity \in Nat
  BY <1>2, SameCall DEF CompressInv
<1>4. Len(out) = 0 /\ out \in Seq(Octet) /\ Spent(0) = 0
  BY <1>1 DEF Spent
<1>5. CASE /\ inputSize = 0
           /\ IF limitedOutput /\ dstCapacity <= 0 THEN Returns(0) /\ UNCHANGED out
              ELSE Returns(1) /\ out' = <<0>>
           /\ UNCHANGED <<hashTable, forwardIp, step, searchMatchNb>>
  <2>1. cPc' = "returned" /\ result' \in Nat /\ out' \in Seq(Octet)
    <3>1. <<0>> \in Seq(Octet)
      BY DEF Octet
    <3>2. CASE limitedOutput /\ dstCapacity <= 0
      BY <1>4, <1>5, <3>2 DEF Returns
    <3>3. CASE ~(limitedOutput /\ dstCapacity <= 0)
      <4>1. cPc' = "returned" /\ result' = 1 /\ out' = <<0>>
        BY <1>5, <3>3 DEF Returns
      <4> QED BY <3>1, <4>1
    <3> QED BY <3>2, <3>3
  <2>2. result' <= dstCapacity
    <3>1. CASE limitedOutput /\ dstCapacity <= 0
      BY <1>3, <1>5, <3>1 DEF Returns
    <3>2. CASE ~(limitedOutput /\ dstCapacity <= 0)
      <4>1. dstCapacity >= 1
        BY <1>3, <1>5, <3>2 DEF limitedOutput, LZ4_compressBound
      <4> QED BY <1>5, <3>2, <4>1 DEF Returns
    <3> QED BY <3>1, <3>2
  <2> QED BY <1>1, <1>2, <1>3, <1>5, <2>1, <2>2 DEF CompressInv, Positions, Room
<1>6. CASE /\ cPc' = "last" /\ UNCHANGED <<hashTable, out, result, forwardIp, step, searchMatchNb>>
  <2>1. Len(out') = 0
    BY <1>4, <1>6
  <2> QED BY <1>1, <1>2, <1>3, <1>4, <1>6, <2>1 DEF CompressInv, Positions, Room, op
<1>7. CASE /\ inputSize >= LZ4_minLength /\ hashTable' = LZ4_putPosition(hashTable, 0)
           /\ SearchFrom(1) /\ UNCHANGED <<out, result>>
  <2>1. inputSize >= 13
    BY <1>7 DEF LZ4_minLength, MFLIMIT
  <2>2. hashTable' \in [Hashes -> Nat]
    <3>1. 0 + 5 <= inputSize
      BY <1>3, <2>1
    <3> QED BY <1>1, <1>3, <1>7, <3>1, PutPosition
  <2>3. /\ forwardIp' = 1 /\ step' = 1 /\ searchMatchNb' \in Nat /\ searchMatchNb' >= 64
        /\ cPc' = "search"
    BY <1>7, ConstantFacts DEF SearchFrom
  <2>4. 1 + 11 <= inputSize
    BY <1>3, <2>1
  <2> QED BY <1>1, <1>2, <1>3, <1>4, <1>7, <2>2, <2>3, <2>4 DEF CompressInv, Positions, Room, op
<1> QED BY <1>5, <1>6, <1>7 DEF Start

\* FindMatch.
LEMMA FindMatchKeeps ==
  ASSUME CompressInv, FindMatch
  PROVE  CompressInv'
<1> DEFINE h == LZ4_hashPosition(forwardIp)
           candidate == hashTable[h]
           back == CatchUp(forwardIp, candidate)
           missed == TooFar(candidate, forwardIp) \/ LZ4_read32(candidate) # LZ4_read32(forwardIp)
<1>1. /\ cInBounds = TRUE /\ out \in Seq(Octet) /\ hashTable \in [Hashes -> Nat]
      /\ ip \in Nat /\ anchor \in Nat /\ match \in Nat /\ forwardIp \in Nat /\ step \in Nat
      /\ searchMatchNb \in Nat /\ token \in Nat /\ result \in Nat
      /\ anchor <= forwardIp /\ forwardIp + 11 <= inputSize /\ step >= 1 /\ searchMatchNb >= 64
      /\ (~limitedOutput => op <= Spent(anchor))
  BY DEF CompressInv, Positions, Room, FindMatch
<1>2. UNCHANGED <<src, dstCapacity, anchor, out, token, result, cInBounds>>
  BY DEF FindMatch
<1>3. /\ SrcInv /\ SrcInv' /\ inputSize' = inputSize /\ limitedOutput' = limitedOutput
      /\ inputSize \in Nat /\ dstCapacity \in Nat
  BY <1>2, SameCall DEF CompressInv
<1>4. (~limitedOutput)' => op' <= Spent(anchor)'
  BY <1>1, <1>2, <1>3 DEF op, Spent
<1>5. CASE forwardIp + step > mflimitPlusOne
  <2>1. cPc' = "last" /\ UNCHANGED <<hashTable, ip, match, forwardIp, step, searchMatchNb>>
    BY <1>5 DEF FindMatch
  <2>2. anchor <= inputSize
    BY <1>1, <1>3
  <2> QED BY <1>1, <1>2, <1>3, <1>4, <2>1, <2>2 DEF CompressInv, Positions, Room
<1>6. CASE ~(forwardIp + step > mflimitPlusOne)
  <2>1. forwardIp + step + 11 <= inputSize /\ forwardIp + 12 <= inputSize
    BY <1>1, <1>3, <1>6 DEF mflimitPlusOne, MFLIMIT
  <2>2. h \in Hashes /\ candidate \in Nat /\ Stored(forwardIp) \in Nat
    <3>1. forwardIp + 5 <= inputSize
      BY <1>1, <1>3, <2>1
    <3>2. h \in Hashes
      BY <1>1, <1>3, <3>1, SrcFacts
    <3> HIDE DEF h
    <3> QED BY <1>1, <3>2, StoredType
  <2>3. /\ hashTable' = [hashTable EXCEPT ![h] = Stored(forwardIp)]
        /\ forwardIp' = forwardIp + step
        /\ step' = searchMatchNb \div SkipUnit
        /\ searchMatchNb' = searchMatchNb + 1
        /\ IF missed THEN UNCHANGED <<cPc, ip, match>>
           ELSE cPc' = "literals" /\ ip' = forwardIp - back /\ match' = candidate - back
    BY <1>6 DEF FindMatch
  <2>4. hashTable' \in [Hashes -> Nat]
    <3> HIDE DEF h
    <3> QED BY <1>1, <2>2, <2>3
  <2>5. /\ step' \in Nat /\ step' >= 1 /\ searchMatchNb' \in Nat /\ searchMatchNb' >= 64
        /\ forwardIp' \in Nat /\ anchor <= forwardIp' /\ forwardIp' + 11 <= inputSize
    BY <1>1, <1>3, <2>1, <2>3 DEF SkipUnit
  <2>6. CASE missed
    <3>1. UNCHANGED <<cPc, ip, match>> /\ cPc = "search"
      BY <2>3, <2>6 DEF FindMatch
    <3> QED BY <1>1, <1>2, <1>3, <1>4, <2>4, <2>5, <3>1 DEF CompressInv, Positions, Room
  <2>7. CASE ~missed
    <3>1. cPc' = "literals" /\ ip' = forwardIp - back /\ match' = candidate - back
      BY <2>3, <2>7
    <3>2. back \in Nat /\ back <= forwardIp - anchor /\ back <= candidate
      <4> HIDE DEF candidate
      <4> QED BY <1>1, <2>2, CatchUpBound
    <3>3. ip' \in Nat /\ match' \in Nat /\ anchor <= ip' /\ ip' + 12 <= inputSize
      <4> HIDE DEF back, candidate
      <4> QED BY <1>1, <1>3, <2>1, <2>2, <3>1, <3>2
    <3> QED BY <1>1, <1>2, <1>3, <1>4, <2>4, <2>5, <3>1, <3>3 DEF CompressInv, Positions, Room
  <2> QED BY <2>6, <2>7
<1> QED BY <1>5, <1>6

\* A token for n literals and the rest of their length.
LEMMA HeadSeq ==
  ASSUME NEW o \in Seq(Octet), NEW n \in Nat
  PROVE  LET h == o \o <<16 * Min({n, RUN_MASK})>>
                    \o (IF n >= RUN_MASK THEN LengthBytes(n - RUN_MASK) ELSE <<>>)
         IN  /\ h \in Seq(Octet) /\ Len(h) = Len(o) + 1 + Ext(n)
             /\ h[Len(o) + 1] \in 0 .. 240
<1> DEFINE x == 16 * Min({n, RUN_MASK})
           y == IF n >= RUN_MASK THEN LengthBytes(n - RUN_MASK) ELSE <<>>
           a == o \o <<x>>
           h == a \o y
<1>1. x \in 0 .. 240
  <2> DEFINE z == Min({n, 15})
  <2>1. z = IF n <= 15 THEN n ELSE 15
    BY MinOfTwo
  <2>2. x = 16 * z
    BY DEF RUN_MASK
  <2> HIDE DEF x, z
  <2>3. z \in 0 .. 15
    BY <2>1
  <2> QED BY <2>2, <2>3
<1>2. y \in Seq(Octet) /\ Len(y) = Ext(n) /\ Ext(n) \in Nat
  BY ExtraSeq DEF RUN_MASK
<1> HIDE DEF x, y
<1>3. <<x>> \in Seq(Octet) /\ Len(<<x>>) = 1 /\ <<x>>[1] = x
  BY <1>1 DEF Octet
<1>4. Len(o) \in Nat
  BY LenProperties
<1>5. a \in Seq(Octet) /\ Len(a) = Len(o) + 1 /\ a[Len(o) + 1] = x
  <2> DEFINE s == <<x>>
  <2>1. s \in Seq(Octet) /\ Len(s) = 1 /\ s[1] = x
    BY <1>3
  <2> HIDE DEF s
  <2>2. /\ o \o s \in Seq(Octet) /\ Len(o \o s) = Len(o) + Len(s)
        /\ \A i \in 1 .. (Len(o) + Len(s)) : (o \o s)[i] = IF i <= Len(o) THEN o[i] ELSE s[i - Len(o)]
    BY <2>1, ConcatProperties
  <2>3. Len(o) + 1 \in 1 .. (Len(o) + Len(s)) /\ ~(Len(o) + 1 <= Len(o)) /\ Len(o) + 1 - Len(o) = 1
    BY <1>4, <2>1
  <2>4. (o \o s)[Len(o) + 1] = x
    BY <2>1, <2>2, <2>3
  <2> QED BY <2>1, <2>2, <2>4 DEF s
<1> HIDE DEF a
<1>6. /\ h \in Seq(Octet) /\ Len(h) = Len(a) + Len(y)
      /\ \A i \in 1 .. (Len(a) + Len(y)) : h[i] = IF i <= Len(a) THEN a[i] ELSE y[i - Len(a)]
  BY <1>2, <1>5, ConcatProperties
<1> HIDE DEF h
<1>7. h[Len(o) + 1] = x
  <2>1. Len(o) + 1 \in 1 .. (Len(a) + Len(y)) /\ Len(o) + 1 <= Len(a)
    BY <1>2, <1>4, <1>5
  <2> QED BY <1>5, <1>6, <2>1
<1>8. Len(h) = Len(o) + 1 + Ext(n)
  BY <1>2, <1>4, <1>5, <1>6
<1> QED BY <1>1, <1>6, <1>7, <1>8 DEF h, a, x, y

\* Division by 255 of a sum.
LEMMA SpentSum ==
  ASSUME NEW a \in Nat, NEW n \in Nat
  PROVE  Spent(a) + n + n \div 255 <= Spent(a + n)
BY DEF Spent

\* EncodeLiterals: the test for room counts what is written later, too.
LEMMA EncodeLiteralsKeeps ==
  ASSUME CompressInv, EncodeLiterals
  PROVE  CompressInv'
<1> DEFINE n == ip - anchor
           head == out \o <<16 * Min({n, RUN_MASK})>>
                       \o (IF n >= RUN_MASK THEN LengthBytes(n - RUN_MASK) ELSE <<>>)
           refused == limitedOutput /\ ~LiteralsFit(n)
<1>1. /\ cInBounds = TRUE /\ out \in Seq(Octet) /\ hashTable \in [Hashes -> Nat]
      /\ ip \in Nat /\ anchor \in Nat /\ match \in Nat /\ forwardIp \in Nat /\ step \in Nat
      /\ searchMatchNb \in Nat /\ token \in Nat /\ result \in Nat
      /\ anchor <= ip /\ ip + 12 <= inputSize
      /\ (~limitedOutput => op <= Spent(anchor))
  BY DEF CompressInv, Positions, Room, EncodeLiterals
<1>2. UNCHANGED <<src, dstCapacity, hashTable, ip, anchor, match, forwardIp, step, searchMatchNb>>
  BY DEF EncodeLiterals
<1>3. /\ SrcInv /\ SrcInv' /\ inputSize' = inputSize /\ limitedOutput' = limitedOutput
      /\ inputSize \in Nat /\ dstCapacity \in Nat
  BY <1>2, SameCall DEF CompressInv
<1>4. CASE refused
  <2>1. cPc' = "returned" /\ result' = 0 /\ UNCHANGED <<out, token, cInBounds>>
    BY <1>4 DEF EncodeLiterals, Returns
  <2> QED BY <1>1, <1>2, <1>3, <2>1 DEF CompressInv, Positions, Room
<1>5. CASE ~refused
  <2>1. /\ out' = head \o Bytes(anchor, n) /\ token' = op + 1
        /\ cInBounds' = (/\ cInBounds /\ Len(head) + WildLength(n) <= dstCapacity
                         /\ anchor + WildLength(n) <= inputSize)
        /\ cPc' = "match" /\ result' = result
    BY <1>5 DEF EncodeLiterals
  <2>2. n \in Nat /\ anchor + n <= inputSize /\ anchor + n = ip
    BY <1>1, <1>3
  <2> HIDE DEF n
  <2>3. head \in Seq(Octet) /\ Len(head) = op + 1 + Ext(n) /\ head[op + 1] \in 0 .. 240 /\ op \in Nat
    BY <1>1, <2>2, HeadSeq, LenProperties DEF op
  <2> HIDE DEF head
  <2>4. Bytes(anchor, n) \in Seq(Octet) /\ Len(Bytes(anchor, n)) = n
    BY <1>1, <1>3, <2>2, BytesSeq
  <2>5. /\ out' \in Seq(Octet) /\ Len(out') = op + 1 + Ext(n) + n /\ out'[op + 1] \in 0 .. 240
        /\ op + 1 \in 1 .. Len(out') /\ Ext(n) \in Nat
    <3> DEFINE b == Bytes(anchor, n)
    <3>1. b \in Seq(Octet) /\ Len(b) = n /\ out' = head \o b /\ Ext(n) \in Nat
      BY <2>1, <2>2, <2>4, ExtBound
    <3> HIDE DEF b
    <3>2. /\ out' \in Seq(Octet) /\ Len(out') = Len(head) + Len(b)
          /\ \A i \in 1 .. (Len(head) + Len(b)) : out'[i] = IF i <= Len(head) THEN head[i] ELSE b[i - Len(head)]
      BY <2>3, <3>1, ConcatProperties
    <3>3. op + 1 \in 1 .. (Len(head) + Len(b)) /\ op + 1 <= Len(head)
      BY <2>2, <2>3, <3>1
    <3> QED BY <2>2, <2>3, <3>1, <3>2, <3>3
  <2>6. WildLength(n) \in Nat /\ (n = 0 => WildLength(n) = 8) /\ (n > 0 => WildLength(n) <= n + 7)
    BY <2>2, WildLengthBound
  <2>7. /\ Ext(n) \in Nat /\ Ext(n) <= n \div 255 + 1 /\ (n < 15 => Ext(n) = 0)
    BY <2>2, ExtBound
  <2>8. ~limitedOutput => Spent(anchor) + n + n \div 255 + 16 <= dstCapacity
    <3> SUFFICES ASSUME ~limitedOutput PROVE Spent(anchor) + n + n \div 255 + 16 <= dstCapacity
      OBVIOUS
    <3>1. dstCapacity >= inputSize + inputSize \div 255 + 16
      BY <1>3 DEF limitedOutput, LZ4_compressBound
    <3>2. Spent(anchor) + n + n \div 255 <= ip + ip \div 255
      BY <1>1, <2>2, SpentSum DEF Spent
    <3>3. ip + ip \div 255 <= inputSize + inputSize \div 255
      BY <1>1, <1>3
    <3>4. Spent(anchor) \in Nat
      BY <1>1 DEF Spent
    <3> QED BY <1>1, <1>3, <2>2, <3>1, <3>2, <3>3, <3>4
  <2>9. limitedOutput => op + 1 + n + 8 + n \div 255 <= dstCapacity
    BY <1>5, <2>2 DEF LiteralsFit, LASTLITERALS
  <2>10. Len(head) + WildLength(n) <= dstCapacity
    <3>1. Spent(anchor) \in Nat
      BY <1>1 DEF Spent
    <3> DEFINE y == n \div 255
    <3>2. y \in Nat
      BY <2>2
    <3>3. Len(head) + WildLength(n) <= op + 1 + n + 8 + y
      <4>1. Ext(n) <= y + 1 /\ (n < 15 => Ext(n) = 0)
        BY <2>7
      <4> HIDE DEF y
      <4> QED BY <2>2, <2>3, <2>6, <2>7, <3>2, <4>1
    <3>4. limitedOutput => op + 1 + n + 8 + y <= dstCapacity
      BY <2>9
    <3>5. ~limitedOutput => op <= Spent(anchor) /\ Spent(anchor) + n + y + 16 <= dstCapacity
      BY <1>1, <2>8
    <3> HIDE DEF y
    <3>6. CASE limitedOutput
      BY <1>3, <2>2, <2>3, <2>6, <3>2, <3>3, <3>4, <3>6
    <3>7. CASE ~limitedOutput
      <4>1. PICK z \in Nat : z = Spent(anchor)
        BY <3>1
      <4>2. PICK h \in Int : h = Len(head) + WildLength(n)
        BY <2>2, <2>3, <2>6, <2>7
      <4>3. h <= op + 1 + n + 8 + y /\ op <= z /\ z + n + y + 16 <= dstCapacity
        BY <3>3, <3>5, <3>7, <4>1, <4>2
      <4>4. op \in Nat /\ n \in Nat /\ y \in Nat /\ dstCapacity \in Nat
        BY <1>3, <2>2, <2>3, <3>2
      <4>5. h <= dstCapacity
        BY ONLY <4>1, <4>2, <4>3, <4>4
      <4> QED BY <4>2, <4>5
    <3> QED BY <3>6, <3>7
  <2>11. anchor + WildLength(n) <= inputSize
    BY <1>1, <1>3, <2>2, <2>6
  <2>12. cInBounds' = TRUE
    BY <1>1, <2>1, <2>10, <2>11
  <2>13. limitedOutput => Len(out') + 5 <= dstCapacity
    <3> DEFINE y == n \div 255
    <3>1. y \in Nat /\ Ext(n) <= y + 1
      BY <2>2, <2>7
    <3>2. limitedOutput => op + 1 + n + 8 + y <= dstCapacity
      BY <2>9
    <3> HIDE DEF y
    <3> QED BY <1>3, <2>2, <2>3, <2>5, <3>1, <3>2
  <2>14. ~limitedOutput => Len(out') <= Spent(anchor) + 1 + Ext(n) + n
    <3>1. PICK z \in Nat : z = Spent(anchor)
      BY <1>1 DEF Spent
    <3>2. op \in Nat /\ (~limitedOutput => op <= z)
      BY <1>1, <2>3, <3>1
    <3>3. n \in Nat /\ Ext(n) \in Nat /\ Len(out') = op + 1 + Ext(n) + n
      BY <2>2, <2>3, <2>5
    <3>4. ~limitedOutput => Len(out') <= z + 1 + Ext(n) + n
      BY ONLY <3>1, <3>2, <3>3
    <3> QED BY <3>1, <3>4
  <2>15. Positions'
    <3>1. token' \in 1 .. Len(out') /\ out'[token'] <= 240
      <4>1. PICK z \in 0 .. 240 : z = out'[op + 1]
        BY <2>5
      <4>2. token' = op + 1 /\ op + 1 \in 1 .. Len(out')
        BY <2>1, <2>5
      <4>3. out'[token'] = z
        BY <4>1, <4>2, Zenon
      <4>4. z <= 240
        BY <4>1
      <4> QED BY <4>2, <4>3, <4>4
    <3> QED BY <1>1, <1>2, <1>3, <2>1, <3>1 DEF Positions
  <2>16. Room'
    BY <1>2, <1>3, <2>1, <2>13, <2>14 DEF Room, op, n
  <2> QED BY <1>1, <1>2, <1>3, <2>1, <2>3, <2>5, <2>12, <2>15, <2>16 DEF CompressInv
<1> QED BY <1>4, <1>5

\* EncodeMatch: lengths are written four bytes at a time.
LEMMA EncodeMatchKeeps ==
  ASSUME CompressInv, EncodeMatch
  PROVE  CompressInv'
<1> DEFINE mc == LZ4_count(ip + MINMATCH, match + MINMATCH, matchlimit)
           end == ip + MINMATCH + mc
           more == mc - ML_MASK
           marked == [out EXCEPT ![token] = @ + Min({mc, ML_MASK})]
           coded == marked \o LZ4_writeLE16(ip - match)
           extra == IF more >= 0 THEN LengthBytes(more) ELSE <<>>
           refused == limitedOutput /\ op + 2 + (1 + LASTLITERALS) + ((mc + 240) \div 255) > dstCapacity
           n == ip - anchor
<1>1. /\ cInBounds = TRUE /\ out \in Seq(Octet) /\ hashTable \in [Hashes -> Nat]
      /\ ip \in Nat /\ anchor \in Nat /\ match \in Nat /\ forwardIp \in Nat /\ step \in Nat
      /\ searchMatchNb \in Nat /\ token \in Nat /\ result \in Nat
      /\ anchor <= ip /\ ip + 12 <= inputSize /\ token \in 1 .. Len(out) /\ out[token] <= 240
      /\ (limitedOutput => op + 5 <= dstCapacity)
      /\ (~limitedOutput => op <= Spent(anchor) + 1 + Ext(n) + n)
  BY DEF CompressInv, Positions, Room, EncodeMatch
<1>2. UNCHANGED <<src, dstCapacity, hashTable, match, token, forwardIp, step, searchMatchNb>>
  BY DEF EncodeMatch
<1>3. /\ SrcInv /\ SrcInv' /\ inputSize' = inputSize /\ limitedOutput' = limitedOutput
      /\ inputSize \in Nat /\ dstCapacity \in Nat /\ op \in Nat
  BY <1>1, <1>2, SameCall, LenProperties DEF CompressInv, op
<1>4. mc \in Nat /\ ip + 4 + mc + 5 <= inputSize
  <2> DEFINE p == ip + MINMATCH
             limit == matchlimit
  <2>1. p = ip + 4 /\ p \in Nat /\ limit = inputSize - 5 /\ limit \in Int /\ p <= limit
    BY <1>1, <1>3 DEF MINMATCH, matchlimit, LASTLITERALS
  <2> HIDE DEF p, limit
  <2>2. LZ4_count(p, match + MINMATCH, limit) \in Nat /\ p + LZ4_count(p, match + MINMATCH, limit) <= limit
    BY <1>3, <2>1, CountBound
  <2>3. mc = LZ4_count(p, match + MINMATCH, limit)
    BY DEF p, limit
  <2> HIDE DEF mc
  <2> QED BY <1>1, <1>3, <2>1, <2>2, <2>3
<1> HIDE DEF mc
<1>5. end = ip + 4 + mc /\ more = mc - 15
  BY DEF MINMATCH, ML_MASK
<1>6. CASE refused
  <2>1. /\ cPc' = "returned" /\ result' = 0 /\ cInBounds' = (cInBounds /\ op + 2 <= dstCapacity)
        /\ UNCHANGED <<out, ip, anchor>>
    BY <1>6 DEF EncodeMatch, Returns, mc
  <2>2. op + 2 <= dstCapacity
    BY <1>1, <1>3, <1>6
  <2>3. cInBounds' = TRUE
    BY <1>1, <2>1, <2>2
  <2> QED BY <1>1, <1>2, <1>3, <2>1, <2>3 DEF CompressInv, Positions, Room
<1>7. CASE ~refused
  <2>1. /\ out' = coded \o extra
        /\ cInBounds' = (/\ cInBounds
                         /\ more >= 0 => Len(coded) + 4 * (more \div (4 * 255)) + 4 <= dstCapacity
                         /\ Len(out') <= dstCapacity)
        /\ ip' = end /\ anchor' = end
        /\ cPc' = (IF end >= mflimitPlusOne THEN "last" ELSE "next") /\ result' = result
    BY <1>7 DEF EncodeMatch, mc
  <2>2. marked \in Seq(Octet) /\ Len(marked) = op
    <3> DEFINE z == Min({mc, ML_MASK})
               y == out[token] + z
    <3>1. z \in 0 .. 15
      <4>1. Min({mc, 15}) = IF mc <= 15 THEN mc ELSE 15
        BY <1>4, MinOfTwo
      <4>2. z = Min({mc, 15})
        BY DEF ML_MASK
      <4> HIDE DEF z
      <4> QED BY <1>4, <4>1, <4>2
    <3> HIDE DEF z
    <3>2. out[token] \in Octet
      BY <1>1, ElementOfSeq
    <3>3. y \in Octet
      <4>1. PICK w \in Nat : w = out[token]
        BY <3>2 DEF Octet
      <4>2. w <= 240
        BY <1>1, <4>1
      <4>3. w + z \in Octet
        BY <3>1, <4>1, <4>2 DEF Octet
      <4> QED BY <4>1, <4>3
    <3>4. marked = [out EXCEPT ![token] = y]
      BY DEF z
    <3> HIDE DEF y, marked
    <3> QED BY <1>1, <3>3, <3>4, ExceptSeq DEF op
  <2>3. coded \in Seq(Octet) /\ Len(coded) = op + 2
    <3>1. LZ4_writeLE16(ip - match) \in Seq(Octet) /\ Len(LZ4_writeLE16(ip - match)) = 2
      <4>1. ip - match \in Int
        BY <1>1
      <4> QED BY <4>1, WriteLE16Seq
    <3> DEFINE s == LZ4_writeLE16(ip - match)
    <3>2. s \in Seq(Octet) /\ Len(s) = 2
      BY <3>1
    <3> HIDE DEF s, marked
    <3>3. marked \o s \in Seq(Octet) /\ Len(marked \o s) = Len(marked) + Len(s)
      BY <2>2, <3>2, ConcatProperties
    <3> QED BY <2>2, <3>2, <3>3 DEF s
  <2>4. extra \in Seq(Octet) /\ Len(extra) = Ext(mc) /\ Ext(mc) \in Nat
    <3>1. extra = IF mc >= 15 THEN LengthBytes(mc - 15) ELSE <<>>
      BY <1>4, <1>5
    <3> HIDE DEF extra
    <3> QED BY <1>4, <3>1, ExtraSeq
  <2> HIDE DEF coded, extra, marked
  <2>5. out' \in Seq(Octet) /\ Len(out') = op + 2 + Ext(mc)
    <3>1. coded \o extra \in Seq(Octet) /\ Len(coded \o extra) = Len(coded) + Len(extra)
      BY <2>3, <2>4, ConcatProperties
    <3>2. out' = coded \o extra
      BY <2>1
    <3> QED BY <2>3, <2>4, <3>1, <3>2
  <2>6. /\ Ext(mc) \in Nat /\ Ext(mc) <= mc \div 255 + 1 /\ (mc < 15 => Ext(mc) = 0)
        /\ (mc >= 15 => Ext(mc) = (mc - 15) \div 255 + 1) /\ Ext(mc) = (mc + 240) \div 255
    BY <1>4, ExtBound
  <2>7. n \in Nat /\ anchor + n = ip
    BY <1>1
  <2> HIDE DEF n
  <2>8. /\ Ext(n) \in Nat /\ Ext(n) <= n \div 255 + 1 /\ (n < 15 => Ext(n) = 0)
    BY <2>7, ExtBound
  <2>9. limitedOutput => op + 8 + Ext(mc) <= dstCapacity
    <3>1. limitedOutput => op + 2 + (1 + 5) + ((mc + 240) \div 255) <= dstCapacity
      BY <1>3, <1>4, <1>7 DEF LASTLITERALS
    <3> QED BY <1>3, <2>6, <3>1
  <2>10. ~limitedOutput => op + 2 + Ext(mc) <= Spent(ip + 4 + mc)
    <3>1. ~limitedOutput => op <= Spent(anchor) + 1 + Ext(n) + n
      BY <1>1
    <3>2. Spent(anchor) + 1 + Ext(n) + n <= Spent(ip) + 2
      <4>1. Spent(anchor) + n + n \div 255 <= Spent(ip)
        BY <1>1, <2>7, SpentSum
      <4>2. Spent(anchor) \in Nat /\ Spent(ip) \in Nat /\ n \div 255 \in Nat
        BY <1>1, <2>7 DEF Spent
      <4> QED BY <2>7, <2>8, <4>1, <4>2
    <3>3. Spent(ip) + 4 + Ext(mc) <= Spent(ip + 4 + mc)
      BY <1>1, <1>4, <2>6 DEF Spent
    <3>4. Spent(anchor) \in Nat /\ Spent(ip) \in Nat /\ Spent(ip + 4 + mc) \in Nat
      BY <1>1, <1>4 DEF Spent
    <3> QED BY <1>3, <2>6, <2>7, <2>8, <3>1, <3>2, <3>3, <3>4
  <2>11. ~limitedOutput => op + 2 + Ext(mc) + 16 <= dstCapacity
    <3> SUFFICES ASSUME ~limitedOutput PROVE op + 2 + Ext(mc) + 16 <= dstCapacity
      OBVIOUS
    <3>1. dstCapacity >= inputSize + inputSize \div 255 + 16
      BY <1>3 DEF limitedOutput, LZ4_compressBound
    <3>2. Spent(ip + 4 + mc) <= inputSize + inputSize \div 255
      BY <1>1, <1>3, <1>4 DEF Spent
    <3>3. Spent(ip + 4 + mc) \in Nat
      BY <1>1, <1>4 DEF Spent
    <3> QED BY <1>3, <2>6, <2>10, <3>1, <3>2, <3>3
  <2>12. Len(out') <= dstCapacity
    BY <1>3, <2>5, <2>6, <2>9, <2>11
  <2>13. more >= 0 => Len(coded) + 4 * (more \div (4 * 255)) + 4 <= dstCapacity
    <3> SUFFICES ASSUME more >= 0 PROVE Len(coded) + 4 * (more \div (4 * 255)) + 4 <= dstCapacity
      OBVIOUS
    <3>1. mc >= 15 /\ Ext(mc) = (mc - 15) \div 255 + 1
      BY <1>4, <1>5, <2>6
    <3>2. 4 * (more \div (4 * 255)) <= Ext(mc) - 1 /\ 4 * (more \div (4 * 255)) \in Nat
      BY <1>4, <1>5, <3>1
    <3>3. op + 2 + Ext(mc) + 6 <= dstCapacity
      BY <1>3, <2>6, <2>9, <2>11
    <3> DEFINE z == 4 * (more \div (4 * 255))
    <3>4. z <= Ext(mc) - 1 /\ z \in Nat
      BY <3>2
    <3> HIDE DEF z
    <3>5. Len(coded) + z + 4 <= dstCapacity
      BY <1>3, <2>3, <2>6, <3>3, <3>4
    <3> QED BY <3>5 DEF z
  <2>14. cInBounds' = TRUE
    BY <1>1, <2>1, <2>12, <2>13
  <2>15. cPc' \in {"last", "next"} /\ (cPc' = "next" => end + 12 <= inputSize)
    <3>1. CASE end >= mflimitPlusOne
      BY <2>1, <3>1
    <3>2. CASE ~(end >= mflimitPlusOne)
      <4>1. end + 12 <= inputSize
        BY <1>1, <1>3, <1>4, <1>5, <3>2 DEF mflimitPlusOne, MFLIMIT
      <4> QED BY <2>1, <3>2, <4>1
    <3> QED BY <3>1, <3>2
  <2>16. end \in Nat /\ end >= 4 /\ end <= inputSize
    BY <1>1, <1>3, <1>4, <1>5
  <2>17. Positions'
    BY <1>3, <2>1, <2>15, <2>16 DEF Positions
  <2>18. Room'
    <3>1. op' = op + 2 + Ext(mc) /\ anchor' = ip + 4 + mc
      BY <1>5, <2>1, <2>5 DEF op
    <3>2. ~limitedOutput => op' <= Spent(anchor')
      BY <2>10, <3>1
    <3>3. limitedOutput => op' + 6 <= dstCapacity
      BY <1>3, <2>6, <2>9, <3>1
    <3>4. Spent(anchor)' = Spent(anchor')
      BY DEF Spent
    <3> QED BY <1>2, <1>3, <2>15, <3>2, <3>3, <3>4 DEF Room
  <2> QED BY <1>1, <1>2, <1>3, <2>1, <2>5, <2>14, <2>15, <2>16, <2>17, <2>18 DEF CompressInv
<1> QED BY <1>6, <1>7

\* TestNextPosition: a token without a test for room.
LEMMA TestNextPositionKeeps ==
  ASSUME CompressInv, TestNextPosition
  PROVE  CompressInv'
<1> DEFINE table == LZ4_putPosition(hashTable, ip - 2)
           candidate == table[LZ4_hashPosition(ip)]
           found == ~TooFar(candidate, ip) /\ LZ4_read32(candidate) = LZ4_read32(ip)
<1>1. /\ cInBounds = TRUE /\ out \in Seq(Octet) /\ hashTable \in [Hashes -> Nat]
      /\ ip \in Nat /\ anchor \in Nat /\ match \in Nat /\ forwardIp \in Nat /\ step \in Nat
      /\ searchMatchNb \in Nat /\ token \in Nat /\ result \in Nat
      /\ ip = anchor /\ ip + 12 <= inputSize /\ ip >= 4
      /\ (limitedOutput => op + 6 <= dstCapacity)
      /\ (~limitedOutput => op <= Spent(anchor))
  BY DEF CompressInv, Positions, Room, TestNextPosition
<1>2. UNCHANGED <<src, dstCapacity, anchor, result, cInBounds>>
  BY DEF TestNextPosition
<1>3. /\ SrcInv /\ SrcInv' /\ inputSize' = inputSize /\ limitedOutput' = limitedOutput
      /\ inputSize \in Nat /\ dstCapacity \in Nat /\ op \in Nat
  BY <1>1, <1>2, SameCall, LenProperties DEF CompressInv, op
<1>4. table \in [Hashes -> Nat] /\ LZ4_hashPosition(ip) \in Hashes
  <2>1. ip - 2 \in Nat /\ ip - 2 + 5 <= inputSize /\ ip + 5 <= inputSize
    BY <1>1, <1>3
  <2> QED BY <1>1, <1>3, <2>1, PutPosition, SrcFacts
<1> HIDE DEF table
<1>5. candidate \in Nat
  BY <1>4
<1>6. hashTable' \in [Hashes -> Nat]
  <2>1. hashTable' = LZ4_putPosition(table, ip)
    BY DEF TestNextPosition, table
  <2>2. ip + 5 <= inputSize
    BY <1>1, <1>3
  <2> QED BY <1>1, <1>3, <1>4, <2>1, <2>2, PutPosition
<1>7. CASE found
  <2>1. /\ match' = candidate /\ out' = Append(out, 0) /\ token' = op + 1 /\ cPc' = "match"
        /\ UNCHANGED <<ip, forwardIp, step, searchMatchNb>>
    BY <1>7 DEF TestNextPosition, table
  <2>2. out' \in Seq(Octet) /\ Len(out') = op + 1 /\ out'[op + 1] = 0
    <3>1. 0 \in Octet
      BY DEF Octet
    <3> QED BY <1>1, <2>1, <3>1, AppendProperties DEF op
  <2>3. Positions'
    <3>1. token' \in 1 .. Len(out') /\ out'[token'] = 0
      BY <1>3, <2>1, <2>2
    <3>2. out'[token'] <= 240
      BY <3>1
    <3> QED BY <1>1, <1>2, <1>3, <2>1, <3>1, <3>2 DEF Positions
  <2>4. Room'
    <3>1. op' = op + 1 /\ anchor' = anchor /\ ip' = ip
      BY <1>2, <2>1, <2>2 DEF op
    <3>2. ip - anchor = 0 /\ Ext(0) = 0
      BY <1>1 DEF Ext
    <3>3. Ext(ip - anchor)' = 0 /\ (ip - anchor)' = 0
      BY <3>1, <3>2 DEF Ext
    <3>4. Spent(anchor)' = Spent(anchor) /\ Spent(anchor) \in Nat
      BY <1>1, <3>1 DEF Spent
    <3>5. ~limitedOutput => op' <= Spent(anchor) + 1 + 0 + 0
      BY <1>1, <1>3, <3>1, <3>4
    <3>6. limitedOutput => op' + 5 <= dstCapacity
      BY <1>1, <1>3, <3>1
    <3> QED BY <1>2, <1>3, <2>1, <3>3, <3>4, <3>5, <3>6 DEF Room
  <2> QED BY <1>1, <1>2, <1>3, <1>5, <1>6, <2>1, <2>2, <2>3, <2>4 DEF CompressInv
<1>8. CASE ~found
  <2>1. /\ SearchFrom(ip + 1) /\ ip' = ip + 1 /\ UNCHANGED <<match, out, token>>
    BY <1>8 DEF TestNextPosition, table
  <2>2. /\ forwardIp' = ip + 1 /\ step' = 1 /\ searchMatchNb' \in Nat /\ searchMatchNb' >= 64
        /\ cPc' = "search"
    BY <2>1, ConstantFacts DEF SearchFrom
  <2>3. ip + 1 \in Nat /\ anchor <= ip + 1 /\ ip + 1 + 11 <= inputSize
    BY <1>1, <1>3
  <2>4. op' = op /\ Spent(anchor)' = Spent(anchor)
    BY <1>2, <2>1 DEF op, Spent
  <2> QED BY <1>1, <1>2, <1>3, <1>6, <2>1, <2>2, <2>3, <2>4 DEF CompressInv, Positions, Room
<1> QED BY <1>7, <1>8

\* LastLiterals: without a limit LZ4_compressBound is enough.
LEMMA LastLiteralsKeeps ==
  ASSUME CompressInv, LastLiterals
  PROVE  CompressInv'
<1> DEFINE n == inputSize - anchor
           head == out \o <<16 * Min({n, RUN_MASK})>>
                       \o (IF n >= RUN_MASK THEN LengthBytes(n - RUN_MASK) ELSE <<>>)
           refused == limitedOutput /\ ~LastRunFits(n)
<1>1. /\ cInBounds = TRUE /\ out \in Seq(Octet) /\ hashTable \in [Hashes -> Nat]
      /\ ip \in Nat /\ anchor \in Nat /\ match \in Nat /\ forwardIp \in Nat /\ step \in Nat
      /\ searchMatchNb \in Nat /\ token \in Nat /\ result \in Nat
      /\ anchor <= inputSize /\ (~limitedOutput => op <= Spent(anchor))
  BY DEF CompressInv, Positions, Room, LastLiterals
<1>2. UNCHANGED <<src, dstCapacity, hashTable, ip, anchor, match, token, forwardIp, step,
                  searchMatchNb>>
  BY DEF LastLiterals
<1>3. /\ SrcInv /\ SrcInv' /\ inputSize' = inputSize /\ limitedOutput' = limitedOutput
      /\ inputSize \in Nat /\ dstCapacity \in Nat /\ op \in Nat
  BY <1>1, <1>2, SameCall, LenProperties DEF CompressInv, op
<1>4. CASE refused
  <2>1. cPc' = "returned" /\ result' = 0 /\ UNCHANGED <<out, cInBounds>>
    BY <1>4 DEF LastLiterals, Returns
  <2> QED BY <1>1, <1>2, <1>3, <2>1 DEF CompressInv, Positions, Room
<1>5. CASE ~refused
  <2>1. /\ out' = head \o Bytes(anchor, n)
        /\ cInBounds' = (cInBounds /\ Len(out') <= dstCapacity)
        /\ cPc' = "returned" /\ result' = Len(out')
    BY <1>5 DEF LastLiterals, Returns
  <2>2. n \in Nat /\ anchor + n = inputSize
    BY <1>1, <1>3
  <2> HIDE DEF n
  <2>3. head \in Seq(Octet) /\ Len(head) = op + 1 + Ext(n)
    BY <1>1, <2>2, HeadSeq DEF op
  <2> HIDE DEF head
  <2>4. Bytes(anchor, n) \in Seq(Octet) /\ Len(Bytes(anchor, n)) = n
    <3>1. anchor + n <= inputSize
      BY <1>3, <2>2
    <3> QED BY <1>1, <1>3, <2>2, <3>1, BytesSeq
  <2>5. /\ Ext(n) \in Nat /\ Ext(n) <= n \div 255 + 1 /\ Ext(n) = (n + 240) \div 255
    BY <2>2, ExtBound
  <2>6. out' \in Seq(Octet) /\ Len(out') = op + 1 + Ext(n) + n /\ Len(out') \in Nat
    <3> DEFINE b == Bytes(anchor, n)
    <3>1. b \in Seq(Octet) /\ Len(b) = n /\ out' = head \o b
      BY <2>1, <2>4
    <3> HIDE DEF b
    <3>2. out' \in Seq(Octet) /\ Len(out') = Len(head) + Len(b)
      BY <2>3, <3>1, ConcatProperties
    <3> QED BY <1>3, <2>2, <2>3, <2>5, <3>1, <3>2
  <2>7. Len(out') <= dstCapacity
    <3>1. CASE limitedOutput
      <4>1. op + n + 1 + ((n + 240) \div 255) <= dstCapacity
        BY <1>5, <2>2, <3>1 DEF LastRunFits, RUN_MASK
      <4> QED BY <1>3, <2>2, <2>5, <2>6, <4>1
    <3>2. CASE ~limitedOutput
      <4>1. dstCapacity >= inputSize + inputSize \div 255 + 16
        BY <1>3, <3>2 DEF limitedOutput, LZ4_compressBound
      <4>2. Spent(anchor) + n + n \div 255 <= inputSize + inputSize \div 255
        BY <1>1, <2>2, SpentSum DEF Spent
      <4>3. Spent(anchor) \in Nat /\ n \div 255 \in Nat /\ inputSize \div 255 \in Nat
        BY <1>1, <1>3, <2>2 DEF Spent
      <4> QED BY <1>1, <1>3, <2>2, <2>5, <2>6, <3>2, <4>1, <4>2, <4>3
    <3> QED BY <3>1, <3>2
  <2>8. cInBounds' = TRUE
    BY <1>1, <2>1, <2>7
  <2> QED BY <1>1, <1>2, <1>3, <2>1, <2>6, <2>7, <2>8 DEF CompressInv, Positions, Room
<1> QED BY <1>4, <1>5

-----------------------------------------------------------------------------
\* Both directions, and that the block does not change under the decoder.
LZ4Inv ==
  /\ CompressInv /\ DecodeInv /\ iend \in Nat /\ iend <= Len(out)
  /\ dPc = "idle" => iend = 0
  /\ dPc # "idle" => cPc = "returned"

\* The first state.
LEMMA LZ4InitInv == LZ4Init => LZ4Inv
<1> SUFFICES ASSUME LZ4Init PROVE LZ4Inv
  OBVIOUS
<1>1. PICK c \in Calls : src = c.src /\ dstCapacity = c.dstCapacity /\ DecompressInit(c.capacity)
  BY DEF LZ4Init
<1>2. SrcInv /\ c.capacity \in Nat
  BY <1>1, CallsAssumption DEF SrcInv
<1>3. out = <<>> /\ out \in Seq(Octet) /\ Len(out) = 0
  BY DEF LZ4Init, CompressInit
<1>4. CompressInv
  BY <1>2, <1>3 DEF CompressInv, LZ4Init, CompressInit, Positions, Room
<1>5. DecodeInv /\ iend = 0
  BY <1>1, <1>2 DEF DecodeInv, DecompressInit
<1>6. dPc = "idle"
  BY <1>1 DEF DecompressInit
<1> QED BY <1>3, <1>4, <1>5, <1>6 DEF LZ4Inv

\* Every step.
LEMMA LZ4NextInv == LZ4Inv /\ [LZ4Next]_<<cvars, dvars>> => LZ4Inv'
<1> SUFFICES ASSUME LZ4Inv, [LZ4Next]_<<cvars, dvars>> PROVE LZ4Inv'
  OBVIOUS
<1>1. CompressInv /\ DecodeInv /\ iend \in Nat /\ iend <= Len(out)
  BY DEF LZ4Inv
<1>2. CASE LZ4_compress_fast /\ UNCHANGED dvars
  <2>1. CompressInv'
    BY <1>1, <1>2, StartKeeps, FindMatchKeeps, EncodeLiteralsKeeps, EncodeMatchKeeps,
       TestNextPositionKeeps, LastLiteralsKeeps DEF LZ4_compress_fast
  <2>2. cPc # "returned"
    BY <1>2 DEF LZ4_compress_fast, Start, FindMatch, EncodeLiterals, EncodeMatch, TestNextPosition, LastLiterals
  <2>3. dPc = "idle" /\ iend = 0
    BY <2>2 DEF LZ4Inv
  <2>4. dPc' = dPc /\ iend' = iend
    BY <1>2 DEF dvars
  <2>5. DecodeInv'
    BY <1>1, <1>2 DEF dvars, DecodeInv
  <2>6. Len(out') \in Nat
    BY <2>1, LenProperties DEF CompressInv
  <2> QED BY <2>1, <2>3, <2>4, <2>5, <2>6 DEF LZ4Inv
<1>3. CASE cPc = "returned" /\ LZ4_decompress_safe /\ UNCHANGED cvars
  <2>1. BlockInv
    BY <1>1 DEF BlockInv, CompressInv
  <2>2. BlockInv' /\ DecodeInv'
    BY <1>1, <1>3, <2>1, DecompressKeeps
  <2>3. CompressInv'
    BY <1>1, <1>3 DEF cvars, CompressInv, SrcInv, Positions, Room, inputSize, limitedOutput, op
  <2>4. cPc' = "returned"
    BY <1>3 DEF cvars
  <2>5. dPc' # "idle"
    BY <1>3 DEF LZ4_decompress_safe, Begin, FastLiterals, FastMatch, SafeToken, SafeLiterals,
         MatchLength, SafeMatch, DecodeReturns, OutputError, Goto
  <2> QED BY <2>2, <2>3, <2>4, <2>5 DEF LZ4Inv, BlockInv
<1>4. CASE UNCHANGED <<cvars, dvars>>
  <2>1. CompressInv'
    BY <1>1, <1>4 DEF cvars, CompressInv, SrcInv, Positions, Room, inputSize, limitedOutput, op
  <2>2. DecodeInv'
    BY <1>1, <1>4 DEF dvars, DecodeInv
  <2> QED BY <1>4, <2>1, <2>2 DEF LZ4Inv, cvars, dvars
<1> QED BY <1>2, <1>3, <1>4 DEF LZ4Next, Finished

\* Neither LZ4_compress_fast nor LZ4_decompress_safe leaves its buffers.
THEOREM StaysInBoundsHolds == LZ4Spec => []StaysInBounds
<1>1. LZ4Inv => StaysInBounds
  BY DEF LZ4Inv, StaysInBounds, CompressInv, DecodeInv, Room
<1> QED BY <1>1, LZ4InitInv, LZ4NextInv, PTL DEF LZ4Spec

-----------------------------------------------------------------------------
(* Copies of a match: a stride may run past its end, and over bytes that    *)
(* the strides before it wrote                                              *)

\* From o to x each byte is the one off bytes back.
Periodic(g, o, off, x) == \A k \in o .. (x - 1) : g[k] = g[k - off]

\* The same of a buffer b that has the bytes of s before o.
Repeats(b, s, o, off, x) ==
  (\A k \in 0 .. (o - 1) : b.bytes[k] = s[k]) /\ Periodic(b.bytes, o, off, x)

\* A prefix of a repetition.
LEMMA FewerRepeat ==
  ASSUME NEW b, NEW s, NEW o \in Nat, NEW off \in Nat, NEW x \in Int, NEW y \in Int, y <= x,
         Repeats(b, s, o, off, x)
  PROVE  Repeats(b, s, o, off, y)
BY DEF Repeats, Periodic

\* e is a number of periods.
Multiple(e, off) == \E j \in Nat : e = j * off

\* One period less.
LEMMA MultipleBack ==
  ASSUME NEW off \in Nat, NEW e \in Nat, Multiple(e, off), e > 0
  PROVE  e - off \in Nat /\ Multiple(e - off, off)
<1>1. PICK j \in Nat : e = j * off
  BY DEF Multiple
<1>2. 0 * off = 0
  OBVIOUS
<1>3. j # 0
  BY <1>1, <1>2
<1>4. j - 1 \in Nat /\ e - off = (j - 1) * off
  BY <1>1, <1>3
<1>5. (j - 1) * off \in Nat
  BY <1>4
<1> QED BY <1>4, <1>5 DEF Multiple

\* Several periods back is the same byte.
LEMMA PeriodsBack ==
  ASSUME NEW g, NEW o \in Nat, NEW off \in Nat, off > 0, NEW x \in Nat,
         Periodic(g, o, off, x), NEW y \in Nat, y < x,
         NEW e \in Nat, Multiple(e, off), y - e >= o - off
  PROVE  g[y] = g[y - e]
<1> DEFINE Bad == {i \in Nat : Multiple(i, off) /\ y - i >= o - off /\ g[y] # g[y - i]}
<1> SUFFICES ASSUME Bad # {} PROVE FALSE
  OBVIOUS
<1>1. PICK i \in Bad : \A k \in Bad : i <= k
  <2>1. Bad \in SUBSET Nat
    OBVIOUS
  <2> HIDE DEF Bad
  <2> QED BY <2>1, LeastOf
<1>2. i \in Nat /\ Multiple(i, off) /\ y - i >= o - off /\ g[y] # g[y - i]
  OBVIOUS
<1>3. i # 0
  <2>1. y - 0 = y
    OBVIOUS
  <2> QED BY <1>2, <2>1
<1>4. i - off \in Nat /\ Multiple(i - off, off)
  BY <1>2, <1>3, MultipleBack
<1>5. i - off \notin Bad
  <2>1. ~(i <= i - off)
    BY <1>2
  <2> HIDE DEF Bad
  <2> QED BY <1>1, <2>1
<1> DEFINE z == y - (i - off)
<1>6. z >= o - off /\ z >= o /\ z <= y /\ z \in Int /\ z - off = y - i
  BY <1>2, <1>4
<1>7. g[y] = g[z]
  BY <1>4, <1>5, <1>6
<1>8. z \in o .. (x - 1)
  BY <1>6
<1> HIDE DEF z
<1>9. g[z] = g[z - off]
  BY <1>8 DEF Repeats, Periodic
<1> QED BY <1>2, <1>6, <1>7, <1>9

\* A copy from a multiple of off back goes on with the repetition.
LEMMA CopyRepeats ==
  ASSUME NEW b, NEW s, NEW o \in Nat, NEW off \in Nat, off > 0, off <= o, NEW d \in Nat, o <= d,
         Repeats(b, s, o, off, d), oend \in Nat,
         NEW w \in Nat, NEW e \in Nat, Multiple(e, off), e > 0, NEW t \in Nat, t + e = d,
         t >= o - off, w <= e, d + w <= oend
  PROVE  Repeats(Copy(b, d, t, w), s, o, off, d + w)
<1> DEFINE c == Copy(b, d, t, w)
<1>2. \A k \in 0 .. (oend - 1) :
        c.bytes[k] = IF k \in d .. (d + w - 1) /\ t + k - d \in 0 .. (oend - 1)
                     THEN b.bytes[t + k - d] ELSE b.bytes[k]
  BY DEF Copy
<1> HIDE DEF c
<1>3. \A k \in d .. (d + w - 1) : c.bytes[k] = b.bytes[k - e]
  <2> TAKE k \in d .. (d + w - 1)
  <2>1. k \in 0 .. (oend - 1) /\ t + k - d = k - e /\ k - e \in 0 .. (oend - 1)
    OBVIOUS
  <2> QED BY <1>2, <2>1
<1>4. \A k \in 0 .. (d - 1) : c.bytes[k] = b.bytes[k]
  <2> TAKE k \in 0 .. (d - 1)
  <2>1. k \in 0 .. (oend - 1) /\ k \notin d .. (d + w - 1)
    OBVIOUS
  <2> QED BY <1>2, <2>1
<1>5. ASSUME NEW k \in 0 .. (o - 1)
      PROVE  c.bytes[k] = s[k]
  <2>1. k \in 0 .. (d - 1)
    OBVIOUS
  <2> QED BY <1>4, <2>1 DEF Repeats, Periodic
<1>6. ASSUME NEW k \in o .. (d + w - 1)
      PROVE  c.bytes[k] = c.bytes[k - off]
  <2>1. CASE k < d
    <3>1. k \in 0 .. (d - 1) /\ k - off \in 0 .. (d - 1) /\ k \in o .. (d - 1)
      BY <2>1
    <3> QED BY <1>4, <3>1 DEF Repeats, Periodic
  <2>2. CASE k >= d /\ k - off < d
    <3> DEFINE y == k - off
    <3>1. y \in Nat /\ y < d /\ k \in d .. (d + w - 1) /\ y \in 0 .. (d - 1)
      BY <2>2
    <3>2. e - off \in Nat /\ Multiple(e - off, off)
      BY MultipleBack
    <3>3. y - (e - off) = k - e /\ k - e >= o - off
      BY <3>1
    <3> HIDE DEF y
    <3>4. b.bytes[y] = b.bytes[y - (e - off)]
      <4>1. PICK i \in Nat : i = e - off
        BY <3>2
      <4>2. Multiple(i, off) /\ y - i >= o - off
        BY <3>2, <3>3, <4>1
      <4>3. b.bytes[y] = b.bytes[y - i]
        <5> DEFINE g == b.bytes
        <5>1. Periodic(g, o, off, d)
          BY DEF Repeats
        <5> HIDE DEF g
        <5>2. g[y] = g[y - i]
          BY <3>1, <4>2, <5>1, PeriodsBack
        <5> QED BY <5>2 DEF g
      <4> QED BY <4>1, <4>3
    <3> QED BY <1>3, <1>4, <3>1, <3>3, <3>4 DEF y
  <2>3. CASE k >= d /\ k - off >= d
    <3>1. k \in d .. (d + w - 1) /\ k - off \in d .. (d + w - 1)
      BY <2>3
    <3>2. k - e \in o .. (d - 1) /\ k - e - off = k - off - e
      BY <2>3
    <3>3. b.bytes[k - e] = b.bytes[k - off - e]
      BY <3>2 DEF Repeats, Periodic
    <3> QED BY <1>3, <3>1, <3>3
  <2>4. k < d \/ (k >= d /\ k - off < d) \/ (k >= d /\ k - off >= d)
    OBVIOUS
  <2> QED BY <2>1, <2>2, <2>3, <2>4
<1>7. Repeats(c, s, o, off, d + w)
  BY <1>5, <1>6 DEF Repeats, Periodic
<1> QED BY <1>7 DEF c

\* So does a loop of them.
LEMMA CopyLoopRepeats ==
  ASSUME NEW b, NEW s, NEW o \in Nat, NEW off \in Nat, off > 0, off <= o, NEW d \in Nat, o <= d,
         Repeats(b, s, o, off, d), oend \in Nat,
         NEW w \in {1, 8, 16}, NEW n \in Nat, NEW e \in Nat, Multiple(e, off), NEW t \in Nat,
         t + e = d, t >= o - off, w <= e, d + w * n <= oend
  PROVE  Repeats(CopyLoop(b, d, t, w, n), s, o, off, d + w * n)
<1>1. PICK f : Stages(f, b, d, t, w, n) /\ CopyLoop(b, d, t, w, n) = f[n]
  BY CopyLoopStages
<1> DEFINE Bad == {k \in 0 .. n : ~Repeats(f[k], s, o, off, d + w * k)}
<1>2. Bad = {}
  <2> SUFFICES ASSUME Bad # {} PROVE FALSE
    OBVIOUS
  <2>1. PICK k \in Bad : \A i \in Bad : k <= i
    <3>1. Bad \subseteq 0 .. n
      BY Zenon
    <3>2. 0 .. n \subseteq Nat
      OBVIOUS
    <3> HIDE DEF Bad
    <3> QED BY <3>1, <3>2, LeastOf
  <2>2. k \in 0 .. n /\ ~Repeats(f[k], s, o, off, d + w * k)
    OBVIOUS
  <2>3. k # 0
    <3>1. d + w * 0 = d
      OBVIOUS
    <3> QED BY <1>1, <2>2, <3>1 DEF Stages
  <2>4. k \in 1 .. n /\ k - 1 \in 0 .. n /\ ~(k <= k - 1)
    BY <2>2, <2>3
  <2>5. Repeats(f[k - 1], s, o, off, d + w * (k - 1))
    BY <2>1, <2>4
  <2>6. PICK a \in Nat : a = w * (k - 1)
    BY <2>4
  <2>7. w * k = a + w /\ a + w <= w * n
    <3>1. CASE w = 1
      BY <2>4, <2>6, <3>1
    <3>2. CASE w = 8
      BY <2>4, <2>6, <3>2
    <3>3. CASE w = 16
      BY <2>4, <2>6, <3>3
    <3> QED BY <3>1, <3>2, <3>3
  <2>9. /\ d + a \in Nat /\ t + a \in Nat /\ o <= d + a /\ t + a + e = d + a /\ t + a >= o - off
        /\ w \in Nat /\ e > 0 /\ w * n \in Nat /\ d + a + w <= oend /\ d + (a + w) = d + a + w
    BY <2>4, <2>6, <2>7
  <2>10. Repeats(f[k - 1], s, o, off, d + a)
    BY <2>5, <2>6
  <2>11. Repeats(Copy(f[k - 1], d + a, t + a, w), s, o, off, d + a + w)
    BY <2>9, <2>10, CopyRepeats
  <2>12. f[k] = Copy(f[k - 1], d + a, t + a, w)
    BY <1>1, <2>4, <2>6 DEF Stages
  <2> QED BY <2>2, <2>7, <2>9, <2>11, <2>12
<1>3. n \in 0 .. n
  OBVIOUS
<1> QED BY <1>1, <1>2, <1>3

-----------------------------------------------------------------------------

\* Strides of w bytes from a multiple of the period.
LEMMA StridesRepeat ==
  ASSUME NEW b, NEW s, NEW o \in Nat, NEW off \in Nat, off > 0, off <= o, NEW d \in Nat, o <= d,
         Repeats(b, s, o, off, d), oend \in Nat,
         NEW w \in {8, 16}, NEW e \in Nat, Multiple(e, off), NEW t \in Nat,
         t + e = d, t >= o - off, w <= e, NEW x \in Int, d + w <= oend, x + w - 1 <= oend
  PROVE  Repeats(Strides(b, d, t, x, w), s, o, off, x)
<1> DEFINE n == IF x <= d THEN 1 ELSE (x - d + w - 1) \div w
<1>1. n \in Nat /\ d + w * n \in Int /\ d + w * n <= oend /\ x <= d + w * n
  <2>1. CASE w = 8
    BY <2>1
  <2>2. CASE w = 16
    BY <2>2
  <2> QED BY <2>1, <2>2
<1> HIDE DEF n
<1>2. Repeats(CopyLoop(b, d, t, w, n), s, o, off, d + w * n)
  BY <1>1, CopyLoopRepeats
<1>3. Repeats(CopyLoop(b, d, t, w, n), s, o, off, x)
  BY <1>1, <1>2, FewerRepeat
<1> QED BY <1>3 DEF Strides, n

\* Byte by byte every distance repeats.
LEMMA CopyBytesRepeat ==
  ASSUME NEW b, NEW s, NEW o \in Nat, NEW off \in Nat, off > 0, off <= o, NEW d \in Nat, o <= d,
         Repeats(b, s, o, off, d), oend \in Nat,
         NEW e \in Nat, Multiple(e, off), e > 0, NEW t \in Nat,
         t + e = d, t >= o - off, NEW n \in Nat, d + n <= oend
  PROVE  Repeats(CopyBytes(b, d, t, n), s, o, off, d + n)
<1>1. 1 * n = n /\ 1 <= e
  OBVIOUS
<1>2. d + 1 * n <= oend
  BY <1>1
<1>3. Repeats(CopyLoop(b, d, t, 1, n), s, o, off, d + 1 * n)
  BY <1>1, <1>2, CopyLoopRepeats
<1> QED BY <1>1, <1>3 DEF CopyBytes

\* The two tables: from where they lead the source is a multiple of off back.
LEMMA TableMultiples ==
  ASSUME NEW off \in Nat, off > 0, NEW t \in Nat
  PROVE  /\ off < 8 => /\ inc32table[off + 1] \in Nat
                       /\ off + 4 - inc32table[off + 1] \in Nat
                       /\ off + 4 - inc32table[off + 1] >= 4
                       /\ Multiple(off + 4 - inc32table[off + 1], off)
         /\ AfterEight(t, off) \in Nat /\ AfterEight(t, off) >= t
         /\ t + off + 8 - AfterEight(t, off) \in Nat
         /\ t + off + 8 - AfterEight(t, off) >= 8
         /\ Multiple(t + off + 8 - AfterEight(t, off), off)
<1>1. CASE off >= 8
  <2>1. AfterEight(t, off) = t + 8 /\ t + off + 8 - (t + 8) = 1 * off /\ 1 \in Nat
    BY <1>1 DEF AfterEight
  <2> QED BY <1>1, <2>1 DEF Multiple
<1>2. CASE off = 1
  <2>1. /\ inc32table[off + 1] = 1 /\ dec64table[off + 1] = 0
        /\ AfterEight(t, off) = t + 1 - 0
    BY <1>2 DEF AfterEight, inc32table, dec64table
  <2>2. Multiple(4, off) /\ Multiple(8, off)
    <3>1. 4 = 4 * off /\ 8 = 8 * off
      BY <1>2
    <3> QED BY <3>1 DEF Multiple
  <2>3. off + 4 - 1 = 4 /\ t + off + 8 - (t + 1 - 0) = 8 /\ t + 1 - 0 \in Nat /\ t + 1 - 0 >= t
    BY <1>2
  <2> QED BY <1>2, <2>1, <2>2, <2>3
<1>3. CASE off = 2
  <2>1. /\ inc32table[off + 1] = 2 /\ dec64table[off + 1] = 0
        /\ AfterEight(t, off) = t + 2 - 0
    BY <1>3 DEF AfterEight, inc32table, dec64table
  <2>2. Multiple(4, off) /\ Multiple(8, off)
    <3>1. 4 = 2 * off /\ 8 = 4 * off
      BY <1>3
    <3> QED BY <3>1 DEF Multiple
  <2>3. off + 4 - 2 = 4 /\ t + off + 8 - (t + 2 - 0) = 8 /\ t + 2 - 0 \in Nat /\ t + 2 - 0 >= t
    BY <1>3
  <2> QED BY <1>3, <2>1, <2>2, <2>3
<1>4. CASE off = 3
  <2>1. /\ inc32table[off + 1] = 1 /\ dec64table[off + 1] = -1
        /\ AfterEight(t, off) = t + 1 - (-1)
    BY <1>4 DEF AfterEight, inc32table, dec64table
  <2>2. Multiple(6, off) /\ Multiple(9, off)
    <3>1. 6 = 2 * off /\ 9 = 3 * off
      BY <1>4
    <3> QED BY <3>1 DEF Multiple
  <2>3. /\ off + 4 - 1 = 6 /\ t + off + 8 - (t + 1 - (-1)) = 9 /\ t + 1 - (-1) \in Nat
        /\ t + 1 - (-1) >= t
    BY <1>4
  <2> QED BY <1>4, <2>1, <2>2, <2>3
<1>5. CASE off = 4
  <2>1. /\ inc32table[off + 1] = 0 /\ dec64table[off + 1] = -4
        /\ AfterEight(t, off) = t + 0 - (-4)
    BY <1>5 DEF AfterEight, inc32table, dec64table
  <2>2. Multiple(8, off)
    <3>1. 8 = 2 * off
      BY <1>5
    <3> QED BY <3>1 DEF Multiple
  <2>3. /\ off + 4 - 0 = 8 /\ t + off + 8 - (t + 0 - (-4)) = 8 /\ t + 0 - (-4) \in Nat
        /\ t + 0 - (-4) >= t
    BY <1>5
  <2> QED BY <1>5, <2>1, <2>2, <2>3
<1>6. CASE off = 5
  <2>1. /\ inc32table[off + 1] = 4 /\ dec64table[off + 1] = 1
        /\ AfterEight(t, off) = t + 4 - 1
    BY <1>6 DEF AfterEight, inc32table, dec64table
  <2>2. Multiple(5, off) /\ Multiple(10, off)
    <3>1. 5 = 1 * off /\ 10 = 2 * off
      BY <1>6
    <3> QED BY <3>1 DEF Multiple
  <2>3. off + 4 - 4 = 5 /\ t + off + 8 - (t + 4 - 1) = 10 /\ t + 4 - 1 \in Nat /\ t + 4 - 1 >= t
    BY <1>6
  <2> QED BY <1>6, <2>1, <2>2, <2>3
<1>7. CASE off = 6
  <2>1. /\ inc32table[off + 1] = 4 /\ dec64table[off + 1] = 2
        /\ AfterEight(t, off) = t + 4 - 2
    BY <1>7 DEF AfterEight, inc32table, dec64table
  <2>2. Multiple(6, off) /\ Multiple(12, off)
    <3>1. 6 = 1 * off /\ 12 = 2 * off
      BY <1>7
    <3> QED BY <3>1 DEF Multiple
  <2>3. off + 4 - 4 = 6 /\ t + off + 8 - (t + 4 - 2) = 12 /\ t + 4 - 2 \in Nat /\ t + 4 - 2 >= t
    BY <1>7
  <2> QED BY <1>7, <2>1, <2>2, <2>3
<1>8. CASE off = 7
  <2>1. /\ inc32table[off + 1] = 4 /\ dec64table[off + 1] = 3
        /\ AfterEight(t, off) = t + 4 - 3
    BY <1>8 DEF AfterEight, inc32table, dec64table
  <2>2. Multiple(7, off) /\ Multiple(14, off)
    <3>1. 7 = 1 * off /\ 14 = 2 * off
      BY <1>8
    <3> QED BY <3>1 DEF Multiple
  <2>3. off + 4 - 4 = 7 /\ t + off + 8 - (t + 4 - 3) = 14 /\ t + 4 - 3 \in Nat /\ t + 4 - 3 >= t
    BY <1>8
  <2> QED BY <1>8, <2>1, <2>2, <2>3
<1>9. off >= 8 \/ off \in {1, 2, 3, 4, 5, 6, 7}
  OBVIOUS
<1> QED BY <1>1, <1>2, <1>3, <1>4, <1>5, <1>6, <1>7, <1>8, <1>9

\* One period is a number of them.
LEMMA OneOff ==
  ASSUME NEW off \in Nat
  PROVE  Multiple(off, off)
<1>1. off = 1 * off /\ 1 \in Nat
  OBVIOUS
<1> QED BY <1>1 DEF Multiple

\* The first eight bytes repeat; those of a near match by the two tables.
LEMMA FirstEightRepeats ==
  ASSUME NEW b, NEW s, NEW o \in Nat, NEW off \in Nat, off > 0, off <= o, NEW t \in Nat, t + off = o,
         Repeats(b, s, o, off, o), oend \in Nat, o + 8 <= oend
  PROVE  Repeats(FirstEight(b, o, t, off), s, o, off, o + 8)
<1>1. Multiple(off, off)
  BY OneOff
<1>2. CASE off >= 8
  <2>1. o <= o /\ 8 \in Nat /\ t >= o - off /\ 8 <= off
    BY <1>2
  <2>2. Repeats(Copy(b, o, t, 8), s, o, off, o + 8)
    BY <1>1, <2>1, CopyRepeats
  <2> QED BY <1>2, <2>2 DEF FirstEight
<1>3. CASE off < 8
  <2> DEFINE c == CopyBytes(b, o, t, 4)
             i == inc32table[off + 1]
  <2>1. /\ i \in Nat /\ off + 4 - i \in Nat /\ off + 4 - i >= 4 /\ Multiple(off + 4 - i, off)
    BY <1>3, TableMultiples
  <2>2. Repeats(c, s, o, off, o + 4)
    <3>1. o <= o /\ 4 \in Nat /\ t >= o - off /\ o + 4 <= oend
      OBVIOUS
    <3> QED BY <1>1, <3>1, CopyBytesRepeat
  <2> HIDE DEF c, i
  <2>3. PICK e \in Nat : e = off + 4 - i
    BY <2>1
  <2>4. /\ o + 4 \in Nat /\ o <= o + 4 /\ t + i \in Nat /\ t + i + e = o + 4 /\ t + i >= o - off
        /\ 4 \in Nat /\ 4 <= e /\ e > 0 /\ Multiple(e, off) /\ o + 4 + 4 <= oend /\ o + 4 + 4 = o + 8
    BY <2>1, <2>3
  <2>5. Repeats(Copy(c, o + 4, t + i, 4), s, o, off, o + 4 + 4)
    BY <2>2, <2>4, CopyRepeats
  <2>6. Repeats(Copy(c, o + 4, t + i, 4), s, o, off, o + 8)
    BY <2>4, <2>5
  <2> QED BY <1>3, <2>6 DEF FirstEight, c, i
<1>4. off >= 8 \/ off < 8
  OBVIOUS
<1> QED BY <1>2, <1>3, <1>4

\* The pattern in a register.
Pattern(c, b, o, t, off, n) ==
  c.bytes = [k \in 0 .. (oend - 1) |->
               IF k \in o .. (o + n - 1) THEN b.bytes[t + ((k - o) % off)] ELSE b.bytes[k]]

\* Writing the register goes on with the repetition.
LEMMA PatternRepeats ==
  ASSUME NEW b, NEW s, NEW o \in Nat, NEW off \in {1, 2, 4}, off <= o, NEW t \in Nat, t + off = o,
         Repeats(b, s, o, off, o), oend \in Nat, NEW n \in Nat, o + n <= oend,
         NEW c, Pattern(c, b, o, t, off, n)
  PROVE  Repeats(c, s, o, off, o + n)
<1>1. \A k \in 0 .. (o - 1) : c.bytes[k] = b.bytes[k]
  BY DEF Pattern
<1>2. \A k \in o .. (o + n - 1) : c.bytes[k] = b.bytes[t + ((k - o) % off)]
  BY DEF Pattern
<1>3. ASSUME NEW k \in o .. (o + n - 1)
      PROVE  c.bytes[k] = c.bytes[k - off]
  <2>1. CASE k - off < o
    <3>1. k - off \in 0 .. (o - 1) /\ k - o \in 0 .. (off - 1) /\ t + (k - o) = k - off
      BY <2>1
    <3>2. (k - o) % off = k - o
      BY <3>1
    <3> QED BY <1>1, <1>2, <3>1, <3>2
  <2>2. CASE k - off >= o
    <3>1. k - off \in o .. (o + n - 1)
      BY <2>2
    <3>2. PICK z \in Nat : z = k - o /\ z >= off /\ k - off - o = z - off
      BY <2>2
    <3>3. z % off = (z - off) % off
      <4>1. CASE off = 1
        BY <3>2, <4>1
      <4>2. CASE off = 2
        BY <3>2, <4>2
      <4>3. CASE off = 4
        BY <3>2, <4>3
      <4> QED BY <4>1, <4>2, <4>3
    <3> QED BY <1>2, <3>1, <3>2, <3>3
  <2> QED BY <2>1, <2>2
<1>4. \A k \in 0 .. (o - 1) : c.bytes[k] = s[k]
  BY <1>1 DEF Repeats
<1> QED BY <1>3, <1>4 DEF Repeats, Periodic

\* LZ4_memcpy_using_offset repeats the match, whatever its distance.
LEMMA MemcpyUsingOffsetRepeats ==
  ASSUME NEW b, NEW s, NEW o \in Nat, NEW off \in Nat, off > 0, off <= o, NEW t \in Nat, t + off = o,
         Repeats(b, s, o, off, o), oend \in Nat, NEW x \in Nat, o <= x, o + 16 <= oend, x + 8 <= oend
  PROVE  Repeats(LZ4_memcpy_using_offset(b, o, t, x, off), s, o, off, x)
<1> DEFINE n == 8 * (IF x <= o + 8 THEN 1 ELSE (x - o + 7) \div 8)
           f == FirstEight(b, o, t, off)
           a == AfterEight(t, off)
<1>1. n \in Nat /\ o + n <= oend /\ x <= o + n
  OBVIOUS
<1> HIDE DEF n
<1>2. CASE off \in {1, 2, 4}
  <2> DEFINE c == LZ4_memcpy_using_offset(b, o, t, x, off)
  <2>1. Pattern(c, b, o, t, off, n)
    BY <1>2 DEF Pattern, LZ4_memcpy_using_offset, n
  <2> HIDE DEF c
  <2>2. Repeats(c, s, o, off, o + n)
    BY <1>1, <1>2, <2>1, PatternRepeats
  <2>3. Repeats(c, s, o, off, x)
    BY <1>1, <2>2, FewerRepeat
  <2> QED BY <2>3 DEF c
<1>3. CASE off \notin {1, 2, 4}
  <2>1. Repeats(f, s, o, off, o + 8)
    <3>1. o + 8 <= oend
      OBVIOUS
    <3> QED BY <3>1, FirstEightRepeats
  <2>2. /\ a \in Nat /\ a >= t /\ t + off + 8 - a \in Nat /\ t + off + 8 - a >= 8
        /\ Multiple(t + off + 8 - a, off)
    BY TableMultiples
  <2> HIDE DEF f, a
  <2>3. PICK e \in Nat : e = t + off + 8 - a
    BY <2>2
  <2>4. /\ o + 8 \in Nat /\ o <= o + 8 /\ a + e = o + 8 /\ a >= o - off /\ 8 <= e /\ x \in Int
        /\ o + 8 + 8 <= oend /\ x + 8 - 1 <= oend /\ Multiple(e, off)
    BY <2>2, <2>3
  <2>5. Repeats(Strides(f, o + 8, a, x, 8), s, o, off, x)
    BY <2>1, <2>2, <2>4, StridesRepeat
  <2> QED BY <1>3, <2>5 DEF LZ4_memcpy_using_offset, LZ4_wildCopy8, f, a
<1> QED BY <1>2, <1>3

\* LZ4_wildCopy32 repeats a match at least 16 back.
LEMMA WildCopy32Repeats ==
  ASSUME NEW b, NEW s, NEW o \in Nat, NEW off \in Nat, off >= 16, off <= o, NEW t \in Nat, t + off = o,
         Repeats(b, s, o, off, o), oend \in Nat, NEW x \in Nat, o <= x, x + 64 <= oend
  PROVE  Repeats(LZ4_wildCopy32(b, o, t, x), s, o, off, x)
<1> DEFINE y == o + 32 * (IF x <= o THEN 1 ELSE (x - o + 31) \div 32)
<1>1. y \in Int /\ x <= y /\ y + 16 - 1 <= oend /\ o + 16 <= oend
  OBVIOUS
<1> HIDE DEF y
<1>2. Multiple(off, off) /\ off > 0 /\ o <= o /\ t >= o - off /\ 16 <= off
  BY OneOff
<1>3. Repeats(Strides(b, o, t, y, 16), s, o, off, y)
  BY <1>1, <1>2, StridesRepeat
<1>4. Repeats(Strides(b, o, t, y, 16), s, o, off, x)
  BY <1>1, <1>3, FewerRepeat
<1> QED BY <1>4 DEF LZ4_wildCopy32, y

\* Eight, eight and two bytes.
LEMMA EighteenRepeat ==
  ASSUME NEW b, NEW s, NEW o \in Nat, NEW off \in Nat, off >= 8, off <= o, NEW t \in Nat, t + off = o,
         Repeats(b, s, o, off, o), oend \in Nat, o + 18 <= oend
  PROVE  Repeats(Copy(Copy(Copy(b, o, t, 8), o + 8, t + 8, 8), o + 16, t + 16, 2), s, o, off, o + 18)
<1>1. Multiple(off, off) /\ off > 0
  BY OneOff
<1> DEFINE c == Copy(b, o, t, 8)
           d == Copy(c, o + 8, t + 8, 8)
           e == Copy(d, o + 16, t + 16, 2)
<1>2. Repeats(c, s, o, off, o + 8)
  <2>1. o <= o /\ 8 \in Nat /\ t >= o - off /\ 8 <= off /\ o + 8 <= oend
    OBVIOUS
  <2> QED BY <1>1, <2>1, CopyRepeats
<1> HIDE DEF c
<1>3. Repeats(d, s, o, off, o + 16)
  <2>1. /\ o + 8 \in Nat /\ o <= o + 8 /\ 8 \in Nat /\ t + 8 \in Nat /\ t + 8 + off = o + 8
        /\ t + 8 >= o - off /\ 8 <= off /\ o + 8 + 8 <= oend /\ o + 8 + 8 = o + 16
    OBVIOUS
  <2>2. Repeats(Copy(c, o + 8, t + 8, 8), s, o, off, o + 8 + 8)
    BY <1>1, <1>2, <2>1, CopyRepeats
  <2> QED BY <2>1, <2>2
<1> HIDE DEF d
<1>4. Repeats(e, s, o, off, o + 18)
  <2>1. /\ o + 16 \in Nat /\ o <= o + 16 /\ 2 \in Nat /\ t + 16 \in Nat /\ t + 16 + off = o + 16
        /\ t + 16 >= o - off /\ 2 <= off /\ o + 16 + 2 <= oend /\ o + 16 + 2 = o + 18
    OBVIOUS
  <2>2. Repeats(Copy(d, o + 16, t + 16, 2), s, o, off, o + 16 + 2)
    BY <1>1, <1>3, <2>1, CopyRepeats
  <2> QED BY <2>1, <2>2
<1> QED BY <1>4 DEF c, d, e

\* From y the input has n bytes that it had off bytes before.
Recurs(s, y, off, n) == \A k \in 0 .. (n - 1) : s[y + k] = s[y + k - off]

\* The first n bytes are those of s.
Starts(f, s, n) == \A k \in 0 .. (n - 1) : f[k] = s[k]

\* What repeats is what the input repeats.
LEMMA RepeatsDecode ==
  ASSUME NEW b, NEW s, NEW o \in Nat, NEW off \in Nat, off > 0, off <= o, NEW n \in Nat,
         NEW x \in Nat, o + n <= x, Repeats(b, s, o, off, x),
         Recurs(s, o, off, n)
  PROVE  Starts(b.bytes, s, o + n)
<1> DEFINE Bad == {k \in 0 .. (o + n - 1) : b.bytes[k] # s[k]}
<1> SUFFICES ASSUME Bad # {} PROVE FALSE
  BY DEF Starts
<1>1. PICK k \in Bad : \A i \in Bad : k <= i
  <2>1. Bad \in SUBSET Nat
    OBVIOUS
  <2> HIDE DEF Bad
  <2> QED BY <2>1, LeastOf
<1>2. k \in 0 .. (o + n - 1) /\ b.bytes[k] # s[k]
  OBVIOUS
<1>3. k >= o
  BY <1>2 DEF Repeats
<1>4. k - off \in 0 .. (o + n - 1) /\ ~(k <= k - off)
  BY <1>2, <1>3
<1>5. b.bytes[k - off] = s[k - off]
  <2>1. k - off \notin Bad
    <3> HIDE DEF Bad
    <3> QED BY <1>1, <1>4
  <2> QED BY <1>4, <2>1
<1>6. b.bytes[k] = b.bytes[k - off]
  <2>1. k \in o .. (x - 1)
    BY <1>2, <1>3
  <2> QED BY <2>1 DEF Repeats, Periodic
<1>7. s[k] = s[k - off]
  <2>1. k - o \in 0 .. (n - 1) /\ o + (k - o) = k /\ o + (k - o) - off = k - off
    BY <1>2, <1>3
  <2> QED BY <2>1 DEF Recurs
<1> QED BY <1>2, <1>5, <1>6, <1>7

-----------------------------------------------------------------------------
(* What a block is: g encodes the n bytes of s.  Offsets in g count from 0. *)

\* What of a length the token holds.
InToken(n) == IF n < 15 THEN n ELSE 15

\* The rest of a length, at p.
LengthAt(g, p, n) ==
  n >= 15 => /\ \A k \in (p + 1) .. (p + Ext(n) - 1) : g[k] = 255
             /\ g[p + Ext(n)] = (n - 15) % 255

\* At x the block has n bytes of the input from y.
Spells(g, x, s, y, n) == \A k \in 0 .. (n - 1) : g[x + k + 1] = s[y + k]

\* A token at i with lit literals, behind o bytes of the input.
Literals(g, s, i, o, lit, m) ==
  /\ g[i + 1] = 16 * InToken(lit) + m
  /\ LengthAt(g, i + 1, lit)
  /\ Spells(g, i + 1 + Ext(lit), s, o, lit)

\* A match at x of ml bytes more than the least, off bytes back.
MatchAt(g, s, n, x, y, ml, off) ==
  /\ g[x + 1] + 256 * g[x + 2] = off /\ off > 0 /\ off <= y
  /\ LengthAt(g, x + 2, ml)
  /\ Recurs(s, y, off, ml + 4)
  /\ y + 12 <= n /\ y + ml + 9 <= n

\* Behind literals the block ends or has a match and another sequence.  B has
\* the places in g and in s where sequences begin.
Followed(g, s, n, B, x, y, m) ==
  \/ x = Len(g) /\ y = n /\ m = 0
  \/ \E ml, off \in Nat : /\ MatchAt(g, s, n, x, y, ml, off) /\ m = InToken(ml)
                          /\ <<x + 2 + Ext(ml), y + ml + 4>> \in B

\* A sequence at i, behind o bytes of the input.
SequenceAt(g, s, n, B, i, o) ==
  \E lit \in Nat, m \in 0 .. 15 :
    Literals(g, s, i, o, lit, m) /\ Followed(g, s, n, B, i + 1 + Ext(lit) + lit, o + lit, m)

\* Every place of B has a sequence; all but the first are 6 bytes from the end.
IsBlock(g, s, n, B) ==
  /\ <<0, 0>> \in B
  /\ \A i, o \in Nat : <<i, o>> \in B => /\ (i = 0 /\ o = 0) \/ i + 6 <= Len(g)
                                        /\ SequenceAt(g, s, n, B, i, o)

-----------------------------------------------------------------------------
(* Reading lengths *)

\* What LengthBytes divides, put together again.
LEMMA DivMod ==
  ASSUME NEW u \in Nat
  PROVE  u % 255 # 255 /\ u % 255 \in Nat /\ 255 * (u \div 255) + (u % 255) = u
OBVIOUS

\* Either the whole length is read, or the check stops in the middle of it.
LEMMA ReadLength ==
  ASSUME BlockInv, NEW p \in Nat, p < iend, NEW check \in Int, check <= iend,
         NEW n \in Nat, n >= 15, LengthAt(out, p, n), p + Ext(n) <= Len(out)
  PROVE  LET v_ == read_variable_length(p, check)
         IN  /\ v_.error = (v_.ip >= check) /\ v_.ip \in Nat /\ v_.len \in Nat
             /\ \/ v_.len + 15 = n /\ v_.ip = p + Ext(n)
                \/ v_.len >= 255 /\ v_.ip >= check /\ v_.ip < p + Ext(n)
<1> DEFINE v_ == read_variable_length(p, check)
<1>1. iend \in Nat /\ Len(out) \in Nat /\ iend <= Len(out)
  BY LenProperties DEF BlockInv
<1>2. PICK z \in Nat : Stops(z, p, check)
  BY VariableStop
<1>3. /\ z \in p .. (iend - 1) /\ (In(z) # 255 \/ z + 1 >= check)
      /\ \A y \in p .. iend : In(y) # 255 => z <= y
      /\ v_ = [len |-> 255 * (z - p) + In(z), ip |-> z + 1, error |-> z + 1 >= check]
  BY <1>2 DEF Stops
<1> HIDE DEF v_
<1>4. v_.error = (v_.ip >= check) /\ v_.ip = z + 1 /\ v_.len = 255 * (z - p) + In(z)
  <2>1. v_.ip = z + 1 /\ v_.len = 255 * (z - p) + In(z) /\ v_.error = (z + 1 >= check)
    BY <1>3
  <2> QED BY <2>1, Zenon
<1>5. PICK e \in Nat : e = Ext(n) /\ e >= 1 /\ e = (n - 15) \div 255 + 1
  BY DEF Ext
<1>6. /\ \A k \in (p + 1) .. (p + e - 1) : out[k] = 255
      /\ out[p + e] = (n - 15) % 255
  BY <1>5 DEF LengthAt
<1>7. In(z) = out[z + 1] /\ In(z) \in 0 .. 255
  BY <1>1, <1>3, InType DEF In, Octet
<1>8. CASE z < p + e - 1
  <2>1. z + 1 \in (p + 1) .. (p + e - 1)
    BY <1>1, <1>3, <1>8
  <2>2. In(z) = 255
    BY <1>6, <1>7, <2>1
  <2>3. v_.len \in Nat /\ v_.len >= 255 /\ v_.ip >= check /\ v_.ip < p + e /\ v_.ip \in Nat
    BY <1>1, <1>3, <1>4, <1>5, <1>8, <2>2
  <2> QED BY <1>4, <1>5, <2>3 DEF v_
<1>9. CASE z >= p + e - 1
  <2> DEFINE y == p + e - 1
  <2>1. y \in p .. iend /\ y < iend /\ y + 1 = p + e /\ y \in Nat
    BY <1>1, <1>3, <1>5, <1>9
  <2>2. In(y) = (n - 15) % 255
    BY <1>6, <2>1 DEF In
  <2>3. (n - 15) % 255 # 255 /\ (n - 15) % 255 \in Nat /\ 255 * ((n - 15) \div 255) + ((n - 15) % 255) = n - 15
    <3>1. PICK u \in Nat : u = n - 15
      OBVIOUS
    <3> QED BY <3>1, DivMod
  <2>4. z = y
    BY <1>3, <1>9, <2>1, <2>2, <2>3
  <2>5. z - p = (n - 15) \div 255
    BY <1>5, <2>4
  <2>6. v_.len = n - 15
    BY <1>4, <2>2, <2>3, <2>4, <2>5
  <2>7. v_.ip = p + e
    BY <1>4, <2>1, <2>4
  <2>8. v_.len + 15 = n /\ v_.len \in Nat /\ v_.ip \in Nat
    BY <1>5, <2>6, <2>7
  <2> QED BY <1>4, <1>5, <2>7, <2>8 DEF v_
<1>10. z < p + e - 1 \/ z >= p + e - 1
  BY <1>5
<1> QED BY <1>8, <1>9, <1>10

\* The literal length: a truncated one is longer than what is left.
LEMMA ReadLiterals ==
  ASSUME BlockInv, NEW i \in Nat, i < iend, NEW lit \in Nat, NEW m \in 0 .. 15,
         NEW s, NEW o, Literals(out, s, i, o, lit, m), i + 1 + Ext(lit) + lit <= Len(out)
  PROVE  LET L == In(i) \div 16
             v_ == read_variable_length(i + 1, iend - 15)
         IN  /\ In(i) % 16 = m /\ L \in 0 .. 15 /\ In(i) \in Nat
             /\ L # 15 => lit = L /\ lit < 15 /\ Ext(lit) = 0
             /\ L = 15 =>
                  /\ i + 1 >= iend - 15 => iend < Len(out)
                  /\ i + 1 < iend - 15 =>
                       /\ v_.len \in Nat /\ v_.ip \in Nat
                       /\ \/ v_.len + 15 = lit /\ v_.ip = i + 1 + Ext(lit)
                          \/ iend < Len(out) /\ v_.len >= 255 /\ v_.ip >= iend - 15
<1> DEFINE L == In(i) \div 16
           v_ == read_variable_length(i + 1, iend - 15)
<1>1. iend \in Nat /\ Len(out) \in Nat /\ iend <= Len(out)
  BY LenProperties DEF BlockInv
<1>2. In(i) = 16 * InToken(lit) + m /\ InToken(lit) \in 0 .. 15
  BY DEF In, Literals, InToken
<1>3. L = InToken(lit) /\ In(i) % 16 = m /\ In(i) \in Nat
  <2>1. PICK t \in 0 .. 15 : t = InToken(lit)
    BY <1>2
  <2>2. PICK u \in Nat : u = 16 * t + m
    OBVIOUS
  <2>3. u \div 16 = t /\ u % 16 = m
    BY <2>2
  <2>4. In(i) = u
    BY <1>2, <2>1, <2>2
  <2> QED BY <2>1, <2>3, <2>4
<1> HIDE DEF L
<1>4. L # 15 => lit = L /\ lit < 15 /\ Ext(lit) = 0
  BY <1>3 DEF InToken, Ext
<1>5. ASSUME L = 15
      PROVE  /\ i + 1 >= iend - 15 => iend < Len(out)
             /\ i + 1 < iend - 15 =>
                  /\ v_.len \in Nat /\ v_.ip \in Nat
                  /\ \/ v_.len + 15 = lit /\ v_.ip = i + 1 + Ext(lit)
                     \/ iend < Len(out) /\ v_.len >= 255 /\ v_.ip >= iend - 15
  <2>1. lit >= 15
    BY <1>3, <1>5 DEF InToken
  <2>2. PICK e \in Nat : e = Ext(lit) /\ e >= 1
    BY <2>1 DEF Ext
  <2>3. i + 1 + e + lit <= Len(out)
    BY <2>2
  <2>4. i + 1 >= iend - 15 => iend < Len(out)
    BY <1>1, <2>1, <2>2, <2>3
  <2>5. ASSUME i + 1 < iend - 15
        PROVE  /\ v_.len \in Nat /\ v_.ip \in Nat
               /\ \/ v_.len + 15 = lit /\ v_.ip = i + 1 + Ext(lit)
                  \/ iend < Len(out) /\ v_.len >= 255 /\ v_.ip >= iend - 15
    <3> DEFINE p == i + 1
               c == iend - 15
    <3>1. /\ p \in Nat /\ p < iend /\ c \in Int /\ c <= iend /\ LengthAt(out, p, lit)
          /\ p + Ext(lit) <= Len(out) /\ v_ = read_variable_length(p, c)
      BY <1>1, <2>2, <2>3, <2>5 DEF Literals
    <3> HIDE DEF p, c, v_
    <3>2. /\ v_.ip \in Nat /\ v_.len \in Nat
          /\ \/ v_.len + 15 = lit /\ v_.ip = p + Ext(lit)
             \/ v_.len >= 255 /\ v_.ip >= c /\ v_.ip < p + Ext(lit)
      BY <2>1, <3>1, ReadLength
    <3>3. CASE v_.len + 15 = lit /\ v_.ip = p + Ext(lit)
      BY <3>2, <3>3 DEF p
    <3>4. CASE v_.len >= 255 /\ v_.ip >= c /\ v_.ip < p + Ext(lit)
      <4>1. v_.ip >= iend - 15 /\ v_.ip < i + 1 + e
        BY <2>2, <3>4 DEF p, c
      <4>2. iend < Len(out)
        BY <1>1, <2>1, <2>2, <2>3, <3>2, <4>1
      <4> QED BY <3>2, <3>4, <4>1, <4>2
    <3> QED BY <3>2, <3>3, <3>4
  <2> QED BY <2>4, <2>5
<1> QED BY <1>2, <1>3, <1>4, <1>5 DEF L, v_

\* The match length: a truncated one is an error.
LEMMA ReadMatch ==
  ASSUME BlockInv, NEW p \in Nat, p < iend, NEW n \in Nat, n >= 15, LengthAt(out, p, n),
         p + Ext(n) + 6 <= Len(out)
  PROVE  LET v_ == read_variable_length(p, iend - 4)
         IN  /\ v_.ip \in Nat /\ v_.len \in Nat
             /\ v_.error => iend < Len(out)
             /\ v_.error \/ (v_.len + 15 = n /\ v_.ip = p + Ext(n))
<1> DEFINE c == iend - 4
           v_ == read_variable_length(p, c)
<1>1. iend \in Nat /\ Len(out) \in Nat /\ iend <= Len(out) /\ c \in Int /\ c <= iend
  BY LenProperties DEF BlockInv
<1>2. PICK e \in Nat : e = Ext(n)
  BY DEF Ext
<1>3. p + e + 6 <= Len(out) /\ p + Ext(n) <= Len(out)
  BY <1>1, <1>2
<1> HIDE DEF c
<1>4. /\ v_.error = (v_.ip >= c) /\ v_.ip \in Nat /\ v_.len \in Nat
      /\ \/ v_.len + 15 = n /\ v_.ip = p + Ext(n)
         \/ v_.len >= 255 /\ v_.ip >= c /\ v_.ip < p + Ext(n)
  BY <1>1, <1>3, ReadLength
<1> HIDE DEF v_
<1>5. v_.ip >= c => v_.error
  BY <1>4, Zenon
<1>6. v_.ip <= p + e
  BY <1>2, <1>4
<1>7. v_.error => iend < Len(out)
  <2>1. v_.error => v_.ip >= c
    BY <1>4, Zenon
  <2>2. v_.ip >= c => iend < Len(out)
    BY <1>1, <1>3, <1>4, <1>6 DEF c
  <2> QED BY <2>1, <2>2, Zenon
<1>8. v_.error \/ (v_.len + 15 = n /\ v_.ip = p + Ext(n))
  <2>1. CASE v_.len + 15 = n /\ v_.ip = p + Ext(n)
    BY <2>1
  <2>2. CASE v_.ip >= c
    BY <1>5, <2>2, Zenon
  <2> QED BY <1>4, <2>1, <2>2
<1> QED BY <1>4, <1>7, <1>8 DEF v_, c

-----------------------------------------------------------------------------
(* The decoder on a block *)

\* What the call returns for a block whole or cut, with room or without.
Outcome(g, n) ==
  /\ iend < Len(g) => decoded < n
  /\ iend = Len(g) /\ oend < n => decoded < 0
  /\ iend = Len(g) /\ ~(oend < n) => decoded = n

\* At the literals: they are the next bytes of the input, unless the block has
\* lost its end before theirs.
AtLiterals(g, s, n, B, x, y, len, m) ==
  \/ /\ Spells(g, x, s, y, len)
     /\ Followed(g, s, n, B, x + len, y + len, m)
  \/ iend < Len(g) /\ x + len > iend

\* Behind the offset, before the match length.
AtMatchLength(g, s, n, B, x, y, len, off) ==
  \E ml \in Nat : /\ MatchAt(g, s, n, x - 2, y, ml, off) /\ len = InToken(ml)
                  /\ <<x + Ext(ml), y + ml + 4>> \in B

\* At the copy of a match.
AtMatch(s, n, B, x, y, len, off) ==
  /\ off > 0 /\ off <= y /\ y + len + 5 <= n /\ <<x, y + len>> \in B
  /\ Recurs(s, y, off, len)

\* What is decoded is the input so far, and the decoder is at a place of the
\* block that encodes the rest.
Decoding(g, s, n, B) ==
  /\ dOp <= n /\ Starts(dst, s, dOp)
  /\ dPc = "fast" => <<dIp, dOp>> \in B
  /\ dPc = "safe" => <<dIp, dOp>> \in B
  /\ dPc = "fastMatch" => Followed(g, s, n, B, dIp, dOp, dToken % 16)
  /\ dPc = "literals" => AtLiterals(g, s, n, B, dIp, dOp, length, dToken % 16)
  /\ dPc = "copyMatch" => AtMatchLength(g, s, n, B, dIp, dOp, length, offset)
  /\ dPc = "matchCopy" => AtMatch(s, n, B, dIp, dOp, length, offset)
  /\ dPc = "returned" => Outcome(g, n)

\* The block and the call.
Encoded(g, s, n, B) == out = g /\ g \in Seq(Octet) /\ n \in Nat /\ IsBlock(g, s, n, B)

\* A match is followed by at least six bytes of the block.
LEMMA FollowedFacts ==
  ASSUME NEW g, NEW s, NEW n, NEW B, Encoded(g, s, n, B), NEW x \in Nat, NEW y \in Nat, NEW m,
         Followed(g, s, n, B, x, y, m)
  PROVE  \/ x = Len(g) /\ y = n /\ m = 0
         \/ \E ml, off \in Nat :
              /\ MatchAt(g, s, n, x, y, ml, off) /\ m = InToken(ml)
              /\ <<x + 2 + Ext(ml), y + ml + 4>> \in B
              /\ x + 2 + Ext(ml) + 6 <= Len(g) /\ y + 12 <= n
<1>1. CASE x = Len(g) /\ y = n /\ m = 0
  BY <1>1
<1>2. CASE \E ml, off \in Nat : /\ MatchAt(g, s, n, x, y, ml, off) /\ m = InToken(ml)
                                /\ <<x + 2 + Ext(ml), y + ml + 4>> \in B
  <2>1. PICK ml \in Nat, off \in Nat : /\ MatchAt(g, s, n, x, y, ml, off) /\ m = InToken(ml)
                                       /\ <<x + 2 + Ext(ml), y + ml + 4>> \in B
    BY <1>2
  <2>2. PICK i \in Nat : i = x + 2 + Ext(ml) /\ i # 0
    BY DEF Ext
  <2>3. i + 6 <= Len(g)
    <3>1. PICK o \in Nat : o = y + ml + 4
      OBVIOUS
    <3>2. <<i, o>> \in B
      BY <2>1, <2>2, <3>1
    <3> QED BY <2>2, <3>2 DEF Encoded, IsBlock
  <2> QED BY <2>1, <2>2, <2>3 DEF MatchAt
<1> QED BY <1>1, <1>2 DEF Followed

\* No sequence leads behind the block or the input.
LEMMA FollowedBounds ==
  ASSUME NEW g, NEW s, NEW n, NEW B, Encoded(g, s, n, B), NEW x \in Nat, NEW y \in Nat, NEW m,
         Followed(g, s, n, B, x, y, m)
  PROVE  x <= Len(g) /\ y <= n
<1>1. Len(g) \in Nat /\ n \in Nat
  BY LenProperties DEF Encoded
<1>2. CASE x = Len(g) /\ y = n /\ m = 0
  BY <1>1, <1>2
<1>3. CASE \E ml, off \in Nat :
             /\ MatchAt(g, s, n, x, y, ml, off) /\ m = InToken(ml)
             /\ <<x + 2 + Ext(ml), y + ml + 4>> \in B
             /\ x + 2 + Ext(ml) + 6 <= Len(g) /\ y + 12 <= n
  <2>1. PICK ml \in Nat : x + 2 + Ext(ml) + 6 <= Len(g) /\ y + 12 <= n
    BY <1>3
  <2>2. PICK e \in Nat : e = Ext(ml)
    BY DEF Ext
  <2> QED BY <1>1, <2>1, <2>2
<1> QED BY <1>2, <1>3, FollowedFacts

\* An error is right when the block is cut or the output too short.
LEMMA Fails ==
  ASSUME NEW g, NEW n \in Nat, NEW p \in Nat, OutputError(p), iend' = iend, oend' = oend,
         iend < Len(g) \/ oend < n, iend \in Nat, oend \in Nat, Len(g) \in Nat
  PROVE  Outcome(g, n)' /\ dPc' = "returned"
<1>1. decoded' = -p - 1 /\ dPc' = "returned"
  BY DEF OutputError, DecodeReturns
<1>2. decoded' < 0 /\ decoded' < n
  BY <1>1
<1> QED BY <1>1, <1>2 DEF Outcome

\* A step that writes nothing.
LEMMA Keeps ==
  ASSUME NEW s, NEW n, dOp' = dOp, dst' = dst, dOp <= n, Starts(dst, s, dOp)
  PROVE  (dOp <= n /\ Starts(dst, s, dOp))'
BY DEF Starts

\* Literals are copied, possibly with what follows them.
LEMMA CopyInLiterals ==
  ASSUME NEW s, NEW len \in Nat, NEW p \in Nat, NEW c \in Nat, len <= c, p + len <= iend, dOp + len <= oend,
         oend \in Nat, iend \in Nat, dOp \in Nat,
         Starts(dst, s, dOp),
         Spells(out, p, s, dOp, len)
  PROVE  Starts(CopyIn(Buffer, dOp, p, c).bytes, s, dOp + len)
<1> SUFFICES ASSUME NEW k \in 0 .. (dOp + len - 1)
             PROVE  CopyIn(Buffer, dOp, p, c).bytes[k] = s[k]
  BY DEF Starts
<1> DEFINE b == CopyIn(Buffer, dOp, p, c)
<1>1. k \in 0 .. (oend - 1)
  OBVIOUS
<1>2. b.bytes[k] = IF k \in dOp .. (dOp + c - 1) /\ p + k - dOp < iend
                   THEN out[p + k - dOp + 1] ELSE Buffer.bytes[k]
  BY <1>1 DEF CopyIn
<1>3. Buffer.bytes[k] = dst[k]
  BY DEF Buffer
<1> HIDE DEF b
<1>4. CASE k < dOp
  BY <1>2, <1>3, <1>4 DEF b, Starts
<1>5. CASE k >= dOp
  <2>1. PICK j \in 0 .. (len - 1) : j = k - dOp
    BY <1>5
  <2>2. k \in dOp .. (dOp + c - 1) /\ p + k - dOp < iend /\ p + k - dOp + 1 = p + j + 1 /\ dOp + j = k
    BY <1>5, <2>1
  <2>3. b.bytes[k] = out[p + j + 1]
    BY <1>2, <2>2
  <2> QED BY <2>1, <2>2, <2>3 DEF b, Spells
<1> QED BY <1>4, <1>5 DEF b

\* A match is copied.
LEMMA BufferRepeats ==
  ASSUME NEW s, NEW off, dOp \in Nat, Starts(dst, s, dOp)
  PROVE  Repeats(Buffer, s, dOp, off, dOp)
BY DEF Repeats, Periodic, Buffer, Starts

\* The sequence at the decoder.
LEMMA AtSequence ==
  ASSUME BlockInv, NEW g, NEW s, NEW N, NEW B, Encoded(g, s, N, B), dIp \in Nat, dOp \in Nat,
         dIp < iend, <<dIp, dOp>> \in B
  PROVE  \E lit \in Nat, m \in 0 .. 15 :
           /\ Literals(out, s, dIp, dOp, lit, m) /\ dIp + 1 + Ext(lit) + lit <= Len(out)
           /\ Followed(g, s, N, B, dIp + 1 + Ext(lit) + lit, dOp + lit, m)
<1>1. SequenceAt(g, s, N, B, dIp, dOp)
  BY DEF Encoded, IsBlock
<1>2. PICK lit \in Nat, m \in 0 .. 15 :
        /\ Literals(g, s, dIp, dOp, lit, m)
        /\ Followed(g, s, N, B, dIp + 1 + Ext(lit) + lit, dOp + lit, m)
  BY <1>1 DEF SequenceAt
<1>3. PICK x \in Nat, y \in Nat : x = dIp + 1 + Ext(lit) + lit /\ y = dOp + lit
  BY DEF Ext
<1>4. x <= Len(g)
  BY <1>2, <1>3, FollowedBounds
<1> QED BY <1>2, <1>3, <1>4 DEF Encoded

\* The decoder stays on the block, action by action: FastLiterals.
LEMMA FastLiteralsDecodes ==
  ASSUME BlockInv, DecodeInv, FastLiterals,
         NEW g, NEW s, NEW N, NEW B, Encoded(g, s, N, B), Decoding(g, s, N, B)
  PROVE  Decoding(g, s, N, B)'
<1> DEFINE tok == In(dIp)
           lit == tok \div 16
           r == read_variable_length(dIp + 1, iend - RUN_MASK)
           long == lit = RUN_MASK
           n == IF long THEN lit + r.len ELSE lit
           p == IF long THEN r.ip ELSE dIp + 1
           slow == IF long THEN dOp + n > oend - 32 \/ p + n > iend - 32
                   ELSE p > iend - (16 + 1)
           stride == IF long THEN 32 * ((n + 31) \div 32) ELSE 16
           early == long /\ dIp + 1 >= iend - RUN_MASK
<1>1. /\ oend \in Nat /\ iend \in Nat /\ dIp \in Nat /\ dOp \in Nat
      /\ dIp < iend /\ dOp + 64 <= oend /\ iend <= Len(out) /\ Len(out) \in Nat /\ out = g /\ N \in Nat
  BY LenProperties DEF DecodeInv, BlockInv, FastLiterals, Encoded
<1>2. <<dIp, dOp>> \in B /\ dOp <= N /\ Starts(dst, s, dOp)
  BY DEF Decoding, FastLiterals
<1>3. PICK lits \in Nat, m \in 0 .. 15 :
        /\ Literals(out, s, dIp, dOp, lits, m) /\ dIp + 1 + Ext(lits) + lits <= Len(out)
        /\ Followed(g, s, N, B, dIp + 1 + Ext(lits) + lits, dOp + lits, m)
  BY <1>1, <1>2, AtSequence
<1>4. /\ tok % 16 = m /\ lit \in 0 .. 15 /\ tok \in Nat
      /\ lit # 15 => lits = lit /\ lits < 15 /\ Ext(lits) = 0
      /\ lit = 15 =>
           /\ dIp + 1 >= iend - 15 => iend < Len(out)
           /\ dIp + 1 < iend - 15 =>
                /\ r.len \in Nat /\ r.ip \in Nat
                /\ \/ r.len + 15 = lits /\ r.ip = dIp + 1 + Ext(lits)
                   \/ iend < Len(out) /\ r.len >= 255 /\ r.ip >= iend - 15
  BY <1>1, <1>3, ReadLiterals DEF RUN_MASK
<1>5. iend' = iend /\ oend' = oend /\ dToken' = tok
  BY DEF FastLiterals
<1> HIDE DEF tok, lit, r
<1>6. CASE early
  <2>1. OutputError(dIp + 1) /\ Reads(dIp + 1) /\ UNCHANGED <<dIp, dOp, length>>
    BY <1>6 DEF FastLiterals, tok, lit, r
  <2>2. iend < Len(g)
    BY <1>1, <1>4, <1>6 DEF RUN_MASK
  <2>3. Outcome(g, N)' /\ dPc' = "returned"
    <3>1. dIp + 1 \in Nat
      BY <1>1
    <3> QED BY <1>1, <1>5, <2>1, <2>2, <3>1, Fails
  <2>4. dst' = dst /\ dOp' = dOp
    BY <2>1 DEF Reads
  <2> QED BY <1>2, <2>3, <2>4 DEF Decoding
\* Where the literals begin and how many there are, or the block is too short.
<1>7. ~early => /\ n \in Nat /\ p \in Nat
                /\ \/ n = lits /\ p = dIp + 1 + Ext(lits)
                   \/ iend < Len(g) /\ p + n > iend /\ long /\ slow
  <2> SUFFICES ASSUME ~early
               PROVE  /\ n \in Nat /\ p \in Nat
                      /\ \/ n = lits /\ p = dIp + 1 + Ext(lits)
                         \/ iend < Len(g) /\ p + n > iend /\ long /\ slow
    OBVIOUS
  <2>1. CASE long
    <3>1. /\ r.len \in Nat /\ r.ip \in Nat
          /\ \/ r.len + 15 = lits /\ r.ip = dIp + 1 + Ext(lits)
             \/ iend < Len(out) /\ r.len >= 255 /\ r.ip >= iend - 15
      BY <1>1, <1>4, <2>1 DEF RUN_MASK
    <3>2. n = 15 + r.len /\ p = r.ip /\ slow = (dOp + n > oend - 32 \/ p + n > iend - 32)
      BY <2>1 DEF RUN_MASK
    <3> HIDE DEF n, p, slow
    <3>3. CASE r.len + 15 = lits /\ r.ip = dIp + 1 + Ext(lits)
      BY <3>1, <3>2, <3>3
    <3>4. CASE iend < Len(out) /\ r.len >= 255 /\ r.ip >= iend - 15
      <4>1. p + n > iend /\ p + n > iend - 32 /\ n \in Nat /\ p \in Nat
        <5>1. PICK x \in Nat, y \in Nat, z \in Nat : x = r.len /\ y = r.ip /\ z = iend
          BY <1>1, <3>1
        <5>2. x >= 255 /\ y >= z - 15
          BY <3>4, <5>1
        <5>3. y + (15 + x) > z /\ y + (15 + x) > z - 32 /\ 15 + x \in Nat
          BY <5>2
        <5>4. n = 15 + x /\ p = y
          BY <3>2, <5>1
        <5> QED BY ONLY <5>1, <5>3, <5>4
      <4> QED BY <1>1, <2>1, <3>2, <3>4, <4>1
    <3> QED BY <3>1, <3>3, <3>4
  <2>2. CASE ~long
    BY <1>1, <1>4, <2>2 DEF RUN_MASK
  <2> QED BY <2>1, <2>2
<1>8. ~early /\ n = lits /\ p = dIp + 1 + Ext(lits) =>
         /\ Spells(out, p, s, dOp, n)
         /\ Followed(g, s, N, B, p + n, dOp + n, tok % 16)
  <2> SUFFICES ASSUME n = lits, p = dIp + 1 + Ext(lits)
               PROVE  /\ Spells(out, p, s, dOp, n)
                      /\ Followed(g, s, N, B, p + n, dOp + n, tok % 16)
    OBVIOUS
  <2> HIDE DEF n, p
  <2> QED BY <1>3, <1>4 DEF Literals
<1>9. CASE ~early /\ slow
  <2>1. Goto("literals") /\ Reads(p) /\ length' = n /\ dIp' = p /\ dOp' = dOp
    BY <1>9 DEF FastLiterals, tok, lit, r
  <2>2. AtLiterals(g, s, N, B, p, dOp, n, tok % 16)
    <3> HIDE DEF n, p, early, slow, long
    <3> QED BY <1>1, <1>7, <1>8, <1>9 DEF AtLiterals
  <2>3. dst' = dst /\ dPc' = "literals"
    BY <2>1 DEF Reads, Goto
  <2> HIDE DEF n, p
  <2>4. AtLiterals(g, s, N, B, dIp, dOp, length, dToken % 16)'
    BY <1>5, <2>1, <2>2 DEF AtLiterals
  <2> QED BY <1>2, <2>1, <2>3, <2>4 DEF Decoding
<1>10. CASE ~early /\ ~slow
  <2>1. /\ Goto("fastMatch") /\ Wrote(CopyIn(Buffer, dOp, p, stride))
        /\ dIp' = p + n /\ dOp' = dOp + n
    BY <1>10 DEF FastLiterals, tok, lit, r
  <2>2. n \in Nat /\ p \in Nat /\ n = lits /\ p = dIp + 1 + Ext(lits)
    <3> HIDE DEF n, p, early, slow, long
    <3> QED BY <1>7, <1>10
  <2>3. n <= stride /\ stride \in Nat /\ p + n <= iend /\ dOp + n <= oend
    <3>1. CASE long
      <4>1. dOp + n <= oend - 32 /\ p + n <= iend - 32 /\ stride = 32 * ((n + 31) \div 32)
        BY <1>1, <1>10, <2>2, <3>1
      <4> HIDE DEF n, p, stride
      <4> QED BY <1>1, <2>2, <4>1
    <3>2. CASE ~long
      <4>1. n = lit /\ p = dIp + 1 /\ p <= iend - 17 /\ stride = 16 /\ lit \in 0 .. 14
        BY <1>1, <1>4, <1>10, <3>2 DEF RUN_MASK
      <4> HIDE DEF n, p, stride, lit
      <4> QED BY <1>1, <4>1
    <3> QED BY <3>1, <3>2
  <2>4. /\ Spells(out, p, s, dOp, n)
        /\ Followed(g, s, N, B, p + n, dOp + n, tok % 16)
    BY <1>8, <1>10, <2>2
  <2> HIDE DEF n, p, stride
  <2>5. Starts(CopyIn(Buffer, dOp, p, stride).bytes, s, dOp + n)
    BY <1>1, <1>2, <2>2, <2>3, <2>4, CopyInLiterals
  <2>6. dst' = CopyIn(Buffer, dOp, p, stride).bytes /\ dPc' = "fastMatch"
    BY <2>1 DEF Wrote, Goto
  <2>7. dOp + n <= N
    <3>1. p + n \in Nat /\ dOp + n \in Nat
      BY <1>1, <2>2
    <3> QED BY <2>4, <3>1, FollowedBounds
  <2>8. (dOp <= N /\ Starts(dst, s, dOp))'
    BY <2>1, <2>5, <2>6, <2>7
  <2>9. Followed(g, s, N, B, dIp, dOp, dToken % 16)'
    BY <1>5, <2>1, <2>4 DEF Followed
  <2> QED BY <2>6, <2>8, <2>9 DEF Decoding
<1> QED BY <1>6, <1>9, <1>10

\* The offset of a match is read back.
LEMMA ReadOffset ==
  ASSUME BlockInv, NEW g, out = g, NEW s, NEW N, NEW x \in Nat, NEW y, NEW ml, NEW off,
         MatchAt(g, s, N, x, y, ml, off), x + 2 <= iend
  PROVE  LZ4_readLE16(x) = off
<1>1. x < iend /\ x + 1 < iend
  BY DEF BlockInv
<1>2. In(x) = g[x + 1] /\ In(x + 1) = g[x + 2]
  <2>1. x + 1 + 1 = x + 2
    OBVIOUS
  <2> QED BY <1>1, <2>1 DEF In
<1> QED BY <1>2 DEF LZ4_readLE16, MatchAt

\* The length of a match is read back, unless the block has lost it.
LEMMA ReadMatchLength ==
  ASSUME BlockInv, NEW p \in Nat, p < iend, NEW n \in Nat, LengthAt(out, p, n), p + Ext(n) + 6 <= Len(out)
  PROVE  LET v_ == read_variable_length(p, iend - LASTLITERALS + 1)
         IN  /\ InToken(n) \in 0 .. 15
             /\ InToken(n) # 15 => n = InToken(n) /\ Ext(n) = 0
             /\ InToken(n) = 15 =>
                  /\ v_.ip \in Nat /\ v_.len \in Nat
                  /\ v_.error => iend < Len(out)
                  /\ v_.error \/ (v_.len + 15 = n /\ v_.ip = p + Ext(n))
<1> DEFINE v_ == read_variable_length(p, iend - 4)
<1>1. InToken(n) \in 0 .. 15 /\ (InToken(n) # 15 => n = InToken(n) /\ Ext(n) = 0)
  BY DEF InToken, Ext
<1>2. read_variable_length(p, iend - LASTLITERALS + 1) = v_
  <2>1. iend - LASTLITERALS + 1 = iend - 4
    BY DEF BlockInv, LASTLITERALS
  <2> QED BY <2>1
<1>3. ASSUME InToken(n) = 15
      PROVE  /\ v_.ip \in Nat /\ v_.len \in Nat
             /\ v_.error => iend < Len(out)
             /\ v_.error \/ (v_.len + 15 = n /\ v_.ip = p + Ext(n))
  <2>1. n >= 15
    BY <1>3 DEF InToken
  <2> QED BY <2>1, ReadMatch
<1> HIDE DEF v_
<1> QED BY <1>1, <1>2, <1>3

\* A copied match is the input.
LEMMA MatchDecodes ==
  ASSUME NEW b, NEW s, NEW N, NEW B, NEW z, dOp \in Nat, NEW off \in Nat, NEW n \in Nat,
         AtMatch(s, N, B, z, dOp, n, off),
         NEW x \in Nat, dOp + n <= x, Repeats(b, s, dOp, off, x)
  PROVE  Starts(b.bytes, s, dOp + n)
<1>1. off > 0 /\ off <= dOp /\ Recurs(s, dOp, off, n)
  BY DEF AtMatch
<1> QED BY <1>1, RepeatsDecode

\* FastMatch.
LEMMA FastMatchDecodes ==
  ASSUME BlockInv, DecodeInv, FastMatch,
         NEW g, NEW s, NEW N, NEW B, Encoded(g, s, N, B), Decoding(g, s, N, B)
  PROVE  Decoding(g, s, N, B)'
<1> DEFINE off == LZ4_readLE16(dIp)
           m == dOp - off
           code == dToken % 16
           r == read_variable_length(dIp + 2, iend - LASTLITERALS + 1)
           long == code = ML_MASK
           n == MINMATCH + (IF long THEN code + r.len ELSE code)
           p == IF long THEN r.ip ELSE dIp + 2
           before == m < 0 /\ (long \/ ~NearEnd(n))
<1>1. /\ oend \in Nat /\ iend \in Nat /\ dIp \in Nat /\ dOp \in Nat
      /\ dToken \in Nat /\ dIp + 3 <= iend /\ dOp + 32 <= oend
      /\ iend <= Len(out) /\ Len(out) \in Nat /\ out = g /\ N \in Nat
  BY LenProperties DEF DecodeInv, BlockInv, FastMatch, Encoded
<1>2. Followed(g, s, N, B, dIp, dOp, code) /\ dOp <= N /\ Starts(dst, s, dOp)
  BY DEF Decoding, FastMatch
<1> HIDE DEF code
<1>3. PICK ml \in Nat, o \in Nat :
              /\ MatchAt(g, s, N, dIp, dOp, ml, o) /\ code = InToken(ml)
              /\ <<dIp + 2 + Ext(ml), dOp + ml + 4>> \in B
              /\ dIp + 2 + Ext(ml) + 6 <= Len(g)
  <2>1. dIp # Len(g)
    BY <1>1
  <2>2. \/ dIp = Len(g) /\ dOp = N /\ code = 0
        \/ \E ml, o \in Nat :
              /\ MatchAt(g, s, N, dIp, dOp, ml, o) /\ code = InToken(ml)
              /\ <<dIp + 2 + Ext(ml), dOp + ml + 4>> \in B
              /\ dIp + 2 + Ext(ml) + 6 <= Len(g) /\ dOp + 12 <= N
    BY <1>1, <1>2, FollowedFacts
  <2> QED BY <2>1, <2>2
<1>4. off = o /\ off \in Nat /\ off > 0 /\ off <= dOp
  <2>1. dIp + 2 <= iend
    BY <1>1
  <2>2. off = o
    BY <1>1, <1>3, <2>1, ReadOffset
  <2> QED BY <1>3, <2>2 DEF MatchAt
<1> HIDE DEF off
<1>5. /\ code \in 0 .. 15
      /\ code # 15 => ml = code /\ Ext(ml) = 0
      /\ code = 15 => /\ r.ip \in Nat /\ r.len \in Nat
                      /\ r.error => iend < Len(out)
                      /\ r.error \/ (r.len + 15 = ml /\ r.ip = dIp + 2 + Ext(ml))
  <2>1. dIp + 2 \in Nat /\ dIp + 2 < iend
    BY <1>1
  <2>2. LengthAt(out, dIp + 2, ml) /\ dIp + 2 + Ext(ml) + 6 <= Len(out)
    BY <1>1, <1>3 DEF MatchAt
  <2> QED BY <1>3, <2>1, <2>2, ReadMatchLength
<1> HIDE DEF r
<1>6. ~(long /\ r.error) => n = ml + 4 /\ p = dIp + 2 + Ext(ml)
  <2>1. CASE long
    <3> SUFFICES ASSUME ~r.error PROVE n = ml + 4 /\ p = dIp + 2 + Ext(ml)
      BY <2>1
    <3>1. code = 15 /\ n = 4 + (15 + r.len) /\ p = r.ip
      BY <2>1 DEF ML_MASK, MINMATCH
    <3>2. r.len + 15 = ml /\ r.ip = dIp + 2 + Ext(ml)
      BY <1>5, <3>1
    <3>3. r.len = ml - 15
      BY <1>5, <3>1, <3>2
    <3> HIDE DEF n, p
    <3> QED BY <3>1, <3>2, <3>3
  <2>2. CASE ~long
    <3>1. code # 15 /\ n = 4 + code /\ p = dIp + 2
      BY <2>2 DEF ML_MASK, MINMATCH
    <3>2. dIp + 2 = dIp + 2 + 0
      BY <1>1
    <3> HIDE DEF n, p
    <3> QED BY <1>3, <1>5, <3>1, <3>2
  <2> QED BY <2>1, <2>2
<1>7. iend' = iend /\ oend' = oend /\ dToken' = dToken /\ offset' = off /\ length' = n /\ dIp' = p
  BY DEF FastMatch, off, code, r
<1>8. ~before
  BY <1>1, <1>4
<1>9. CASE long /\ r.error
  <2>1. OutputError(p) /\ Reads(p) /\ UNCHANGED dOp
    BY <1>8, <1>9 DEF FastMatch, off, code, r
  <2>2. iend < Len(g) /\ p \in Nat
    BY <1>1, <1>5, <1>9 DEF ML_MASK
  <2> HIDE DEF p
  <2>3. Outcome(g, N)' /\ dPc' = "returned"
    BY <1>1, <1>7, <2>1, <2>2, Fails
  <2>4. dst' = dst /\ dOp' = dOp
    BY <2>1 DEF Reads
  <2> QED BY <1>2, <2>3, <2>4 DEF Decoding
<1>10. ~(long /\ r.error) => n \in Nat /\ AtMatch(s, N, B, p, dOp, n, off)
  <2> SUFFICES ASSUME ~(long /\ r.error)
               PROVE  n \in Nat /\ AtMatch(s, N, B, p, dOp, n, off)
    OBVIOUS
  <2>1. n = ml + 4 /\ p = dIp + 2 + Ext(ml)
    BY <1>6
  <2> HIDE DEF n, p
  <2>2. n \in Nat /\ dOp + n + 5 <= N /\ dOp + n = dOp + ml + 4 /\ n - 1 = ml + 3
    <3>1. dOp + ml + 9 <= N
      BY <1>3 DEF MatchAt
    <3> QED BY <1>1, <2>1, <3>1
  <2>3. Recurs(s, dOp, off, n)
    BY <1>3, <1>4, <2>1 DEF MatchAt
  <2> QED BY <1>3, <1>4, <2>1, <2>2, <2>3 DEF AtMatch
<1>11. CASE ~(long /\ r.error) /\ NearEnd(n)
  <2>1. Goto("matchCopy") /\ Reads(p) /\ UNCHANGED dOp
    BY <1>8, <1>11 DEF FastMatch, off, code, r
  <2>2. AtMatch(s, N, B, p, dOp, n, off)
    BY <1>10, <1>11
  <2> HIDE DEF n, p
  <2>3. AtMatch(s, N, B, dIp, dOp, length, offset)'
    BY <1>7, <2>1, <2>2
  <2>4. dst' = dst /\ dPc' = "matchCopy"
    BY <2>1 DEF Reads, Goto
  <2> QED BY <1>2, <2>1, <2>3, <2>4 DEF Decoding
<1>12. CASE ~(long /\ r.error) /\ ~NearEnd(n)
  <2> DEFINE eighteen == Copy(Copy(Copy(Buffer, dOp, m, 8), dOp + 8, m + 8, 8), dOp + 16, m + 16, 2)
             small == LZ4_memcpy_using_offset(Buffer, dOp, m, dOp + n, off)
             wide == LZ4_wildCopy32(Buffer, dOp, m, dOp + n)
  <2>1. /\ Goto("fast") /\ dOp' = dOp + n
        /\ Wrote(IF ~long /\ off >= 8 THEN eighteen ELSE IF off < 16 THEN small ELSE wide)
    BY <1>8, <1>12 DEF FastMatch, off, code, r
  <2>2. n \in Nat /\ AtMatch(s, N, B, p, dOp, n, off) /\ n = ml + 4
    BY <1>6, <1>10, <1>12
  <2>3. m \in Nat /\ dOp + n + 64 < oend /\ m + off = dOp
    <3>1. ~(dOp + n >= oend - 64)
      BY <1>12 DEF NearEnd, FASTLOOP_SAFE_DISTANCE
    <3> HIDE DEF n
    <3> QED BY <1>1, <1>4, <2>2, <3>1
  <2>4. ~long => n <= 18
    <3>1. ~long => code # 15
      BY DEF ML_MASK
    <3> HIDE DEF n, long
    <3> QED BY <1>5, <2>2, <3>1
  <2>5. Repeats(Buffer, s, dOp, off, dOp)
    BY <1>1, <1>2, BufferRepeats
  <2> HIDE DEF m, n, p, long
  <2>6. dOp + n \in Nat /\ dOp <= dOp + n /\ dOp + 18 <= oend /\ dOp + n + 64 <= oend /\ dOp + 16 <= oend /\ dOp + n + 8 <= oend
    BY <1>1, <2>2, <2>3
  <2>7. ~long /\ off >= 8 => Starts(eighteen.bytes, s, dOp + n)
    <3> SUFFICES ASSUME ~long, off >= 8 PROVE Starts(eighteen.bytes, s, dOp + n)
      OBVIOUS
    <3>1. Repeats(eighteen, s, dOp, off, dOp + 18)
      BY <1>1, <1>4, <2>3, <2>5, <2>6, EighteenRepeat
    <3>2. dOp + n <= dOp + 18 /\ dOp + 18 \in Nat
      BY <1>1, <2>2, <2>4
    <3> HIDE DEF eighteen
    <3> QED BY <1>1, <1>4, <2>2, <3>1, <3>2, MatchDecodes
  <2>8. off < 16 => Starts(small.bytes, s, dOp + n)
    <3>1. Repeats(small, s, dOp, off, dOp + n)
      BY <1>1, <1>4, <2>3, <2>5, <2>6, MemcpyUsingOffsetRepeats
    <3>2. dOp + n <= dOp + n
      BY <2>6
    <3> HIDE DEF small
    <3> QED BY <1>1, <1>4, <2>2, <2>6, <3>1, <3>2, MatchDecodes
  <2>9. ~(off < 16) => Starts(wide.bytes, s, dOp + n)
    <3> SUFFICES ASSUME ~(off < 16) PROVE Starts(wide.bytes, s, dOp + n)
      OBVIOUS
    <3>1. off >= 16
      BY <1>4
    <3>2. Repeats(wide, s, dOp, off, dOp + n)
      BY <1>1, <1>4, <2>3, <2>5, <2>6, <3>1, WildCopy32Repeats
    <3>3. dOp + n <= dOp + n
      BY <2>6
    <3> HIDE DEF wide
    <3> QED BY <1>1, <1>4, <2>2, <2>6, <3>2, <3>3, MatchDecodes
  <2>10. Starts(dst, s, dOp)' /\ dPc' = "fast"
    <3> HIDE DEF eighteen, small, wide
    <3>1. CASE ~long /\ off >= 8
      BY <2>1, <2>7, <3>1 DEF Wrote, Goto
    <3>2. CASE ~(~long /\ off >= 8) /\ off < 16
      BY <2>1, <2>8, <3>2 DEF Wrote, Goto
    <3>3. CASE ~(~long /\ off >= 8) /\ ~(off < 16)
      BY <2>1, <2>9, <3>3 DEF Wrote, Goto
    <3> QED BY <3>1, <3>2, <3>3
  <2>11. dOp + n <= N /\ <<p, dOp + n>> \in B
    <3>1. dOp + n + 5 <= N /\ <<p, dOp + n>> \in B
      BY <2>2 DEF AtMatch
    <3> QED BY <1>1, <2>6, <3>1
  <2> QED BY <1>7, <2>1, <2>10, <2>11 DEF Decoding
<1> QED BY <1>9, <1>11, <1>12

\* Decoding so far is a repetition of length 0.
LEMMA StartsRepeats ==
  ASSUME NEW b, NEW s, NEW o \in Nat, NEW off, Starts(b.bytes, s, o)
  PROVE  Repeats(b, s, o, off, o)
BY DEF Starts, Repeats, Periodic

\* SafeToken.
LEMMA SafeTokenDecodes ==
  ASSUME BlockInv, DecodeInv, SafeToken,
         NEW g, NEW s, NEW N, NEW B, Encoded(g, s, N, B), Decoding(g, s, N, B)
  PROVE  Decoding(g, s, N, B)'
<1> DEFINE tok == In(dIp)
           lit == tok \div 16
           code == tok % 16
           p == dIp + 1
           r == read_variable_length(p, iend - RUN_MASK)
           off == LZ4_readLE16(p + lit)
           m == dOp + lit - off
           copied == CopyIn(Buffer, dOp, p, 16)
           eighteen == Copy(Copy(Copy(copied, dOp + lit, m, 8), dOp + lit + 8, m + 8, 8),
                            dOp + lit + 16, m + 16, 2)
           near == code # ML_MASK /\ off >= 8 /\ m >= 0
<1>1. /\ oend \in Nat /\ iend \in Nat /\ dIp \in Nat /\ dOp \in Nat
      /\ dIp < iend /\ dOp <= oend /\ iend <= Len(out) /\ Len(out) \in Nat /\ out = g /\ N \in Nat
  BY LenProperties DEF DecodeInv, BlockInv, SafeToken, Encoded
<1>2. <<dIp, dOp>> \in B /\ dOp <= N /\ Starts(dst, s, dOp)
  BY DEF Decoding, SafeToken
<1>3. PICK lits \in Nat, c \in 0 .. 15 :
        /\ Literals(out, s, dIp, dOp, lits, c) /\ dIp + 1 + Ext(lits) + lits <= Len(out)
        /\ Followed(g, s, N, B, dIp + 1 + Ext(lits) + lits, dOp + lits, c)
  BY <1>1, <1>2, AtSequence
<1>4. /\ code = c /\ lit \in 0 .. 15 /\ tok \in Nat
      /\ lit # 15 => lits = lit /\ lits < 15 /\ Ext(lits) = 0
      /\ lit = 15 =>
           /\ dIp + 1 >= iend - 15 => iend < Len(out)
           /\ dIp + 1 < iend - 15 =>
                /\ r.len \in Nat /\ r.ip \in Nat
                /\ \/ r.len + 15 = lits /\ r.ip = dIp + 1 + Ext(lits)
                   \/ iend < Len(out) /\ r.len >= 255 /\ r.ip >= iend - 15
  BY <1>1, <1>3, ReadLiterals DEF RUN_MASK
<1>5. iend' = iend /\ oend' = oend /\ dToken' = tok
  BY DEF SafeToken
<1>6. Spells(out, dIp + 1 + Ext(lits), s, dOp, lits)
  BY <1>3 DEF Literals
<1> HIDE DEF tok
<1>7. CASE Shortcut
  <2>1. lit \in 0 .. 14 /\ lits = lit /\ Ext(lits) = 0 /\ p + 16 < iend /\ dOp + 32 <= oend
    BY <1>1, <1>4, <1>7 DEF Shortcut, tok, RUN_MASK
  <2>2. /\ dIp' = p + lit + 2 /\ offset' = off
        /\ IF near
           THEN Wrote(eighteen) /\ dOp' = dOp + lit + code + MINMATCH /\ Goto("safe") /\ length' = length
           ELSE Wrote(copied) /\ dOp' = dOp + lit /\ length' = code /\ Goto("copyMatch")
    BY <1>7 DEF SafeToken, tok
  <2> HIDE DEF lit, code
  <2> DEFINE x == p + lit
             d == dOp + lit
  <2>3. /\ x \in Nat /\ d \in Nat /\ x + 2 < iend /\ x # Len(g)
        /\ x = dIp + 1 + Ext(lits) + lits /\ p = dIp + 1 + Ext(lits) /\ d = dOp + lits
    BY <1>1, <2>1
  <2>4. Followed(g, s, N, B, x, d, code)
    BY <1>3, <1>4, <2>3
  <2>5. PICK ml \in Nat, o \in Nat :
           /\ MatchAt(g, s, N, x, d, ml, o) /\ code = InToken(ml)
           /\ <<x + 2 + Ext(ml), d + ml + 4>> \in B
           /\ x + 2 + Ext(ml) + 6 <= Len(g) /\ d + 12 <= N
    <3> HIDE DEF x, d
    <3>1. \/ x = Len(g) /\ d = N /\ code = 0
          \/ \E ml, o \in Nat :
              /\ MatchAt(g, s, N, x, d, ml, o) /\ code = InToken(ml)
              /\ <<x + 2 + Ext(ml), d + ml + 4>> \in B
              /\ x + 2 + Ext(ml) + 6 <= Len(g) /\ d + 12 <= N
      <4>1. x \in Nat /\ d \in Nat /\ Followed(g, s, N, B, x, d, code)
        BY <2>3, <2>4
      <4> QED BY ONLY Encoded(g, s, N, B), <4>1, FollowedFacts
    <3> QED BY <2>3, <3>1
  <2>6. off = o /\ off > 0 /\ off <= d
    <3>1. x + 2 <= iend
      BY <1>1, <2>3
    <3>2. MatchAt(g, s, N, x, d, ml, o)
      BY <2>5
    <3> HIDE DEF d
    <3>3. LZ4_readLE16(x) = o
      BY <1>1, <2>3, <3>1, <3>2, ReadOffset
    <3> QED BY <3>2, <3>3 DEF MatchAt
  <2> HIDE DEF off
  <2>7. Starts(copied.bytes, s, d)
    <3>1. p \in Nat /\ 16 \in Nat /\ lit \in Nat /\ lit <= 16 /\ p + lit <= iend /\ dOp + lit <= oend
      BY <1>1, <2>1
    <3>2. Spells(out, p, s, dOp, lit)
      BY <1>6, <2>1, <2>3
    <3> HIDE DEF p
    <3> QED BY <1>1, <1>2, <3>1, <3>2, CopyInLiterals
  <2> HIDE DEF copied
  <2>8. CASE near
    <3>1. code # 15 /\ off >= 8 /\ m \in Nat /\ m + off = d
      <4>1. code # 15 /\ off >= 8 /\ m >= 0
        BY <2>8 DEF ML_MASK
      <4>2. m = d - off
        BY <1>1, <2>1, <2>5, <2>6
      <4>3. off \in Nat /\ d \in Nat
        BY <2>3, <2>6
      <4> HIDE DEF m, d
      <4>4. m \in Nat /\ m + off = d
        BY ONLY <4>1, <4>2, <4>3
      <4> QED BY <4>1, <4>4
    <3>2. ml = code /\ Ext(ml) = 0 /\ ml < 15
      BY <2>5, <3>1 DEF InToken, Ext
    <3>3. Repeats(copied, s, d, off, d)
      <4> HIDE DEF d
      <4> QED BY <2>3, <2>7, StartsRepeats
    <3>4. Repeats(eighteen, s, d, off, d + 18)
      <4>1. d + 18 <= oend
        BY <1>1, <2>1
      <4> HIDE DEF m
      <4>2. eighteen = Copy(Copy(Copy(copied, d, m, 8), d + 8, m + 8, 8), d + 16, m + 16, 2)
        OBVIOUS
      <4> HIDE DEF d, eighteen
      <4> QED BY <1>1, <2>3, <2>5, <2>6, <3>1, <3>3, <4>1, <4>2, EighteenRepeat
    <3> HIDE DEF eighteen, d
    <3>5. ml + 4 \in Nat /\ d + 18 \in Nat /\ d + (ml + 4) <= d + 18 /\ Recurs(s, d, off, ml + 4)
      <4>1. Recurs(s, d, off, ml + 4)
        BY <2>5, <2>6 DEF MatchAt
      <4> QED BY <2>3, <3>2, <4>1
    <3>6. Starts(eighteen.bytes, s, d + (ml + 4))
      BY <2>3, <2>5, <2>6, <3>4, <3>5, RepeatsDecode
    <3>7. d + (ml + 4) = d + ml + 4 /\ x + 2 + 0 = x + 2 /\ d + ml + 4 <= N
      <4>1. d + ml + 9 <= N
        BY <2>5 DEF MatchAt
      <4> QED BY <1>1, <2>3, <4>1
    <3>8. dOp' = d + ml + 4 /\ dIp' = x + 2 /\ dst' = eighteen.bytes /\ dPc' = "safe"
      BY <2>2, <2>8, <3>2 DEF d, MINMATCH, Wrote, Goto
    <3>9. <<x + 2, d + ml + 4>> \in B
      BY <2>5, <3>2, <3>7
    <3>10. dOp' <= N /\ Starts(dst, s, dOp)' /\ <<dIp, dOp>>' \in B
      BY <3>6, <3>7, <3>8, <3>9
    <3> QED BY <3>8, <3>10 DEF Decoding
  <2>9. CASE ~near
    <3>1. dOp' = d /\ dIp' = x + 2 /\ dst' = copied.bytes /\ dPc' = "copyMatch" /\ length' = code /\ offset' = o
      BY <2>2, <2>6, <2>9 DEF Wrote, Goto
    <3> HIDE DEF x, d
    <3>2. (x + 2) - 2 = x /\ d <= N
      BY <1>1, <2>3, <2>5
    <3>3. AtMatchLength(g, s, N, B, x + 2, d, code, o)
      <4>1. MatchAt(g, s, N, (x + 2) - 2, d, ml, o)
        BY <2>5, <3>2
      <4>2. \E z \in Nat : /\ MatchAt(g, s, N, (x + 2) - 2, d, z, o) /\ code = InToken(z)
                           /\ <<x + 2 + Ext(z), d + z + 4>> \in B
        BY ONLY ml \in Nat, <2>5, <4>1
      <4> QED BY ONLY <4>2 DEF AtMatchLength
    <3>4. AtMatchLength(g, s, N, B, dIp, dOp, length, offset)'
      BY <3>1, <3>3
    <3>5. dOp' <= N /\ Starts(dst, s, dOp)'
      BY <2>7, <3>1, <3>2
    <3> QED BY <3>1, <3>4, <3>5 DEF Decoding
  <2> QED BY <2>8, <2>9
<1>8. CASE ~Shortcut
  <2> DEFINE early == lit = RUN_MASK /\ p >= iend - RUN_MASK
  <2>1. /\ IF early THEN OutputError(p) /\ UNCHANGED <<dIp, length>>
           ELSE /\ length' = IF lit = RUN_MASK THEN lit + r.len ELSE lit
                /\ dIp' = IF lit = RUN_MASK THEN r.ip ELSE p
                /\ Goto("literals")
        /\ Reads(p) /\ UNCHANGED <<dOp, offset>>
    BY <1>8 DEF SafeToken, tok
  <2>2. dst' = dst /\ dOp' = dOp
    BY <2>1 DEF Reads
  <2> HIDE DEF lit, r, code
  <2>3. CASE early
    <3>1. p \in Nat /\ iend < Len(g)
      BY <1>1, <1>4, <2>3 DEF RUN_MASK
    <3> HIDE DEF p
    <3>2. Outcome(g, N)' /\ dPc' = "returned"
      BY <1>1, <1>5, <2>1, <2>3, <3>1, Fails
    <3> QED BY <1>2, <2>2, <3>2 DEF Decoding
  <2>4. CASE ~early
    <3> DEFINE n == IF lit = RUN_MASK THEN lit + r.len ELSE lit
               q == IF lit = RUN_MASK THEN r.ip ELSE p
    <3>1. length' = n /\ dIp' = q /\ dPc' = "literals"
      BY <2>1, <2>4 DEF Goto
    <3>2. \/ n = lits /\ q = dIp + 1 + Ext(lits)
          \/ iend < Len(g) /\ q + n > iend
      <4>1. CASE lit = RUN_MASK
        <5>1. /\ r.len \in Nat /\ r.ip \in Nat
              /\ \/ r.len + 15 = lits /\ r.ip = dIp + 1 + Ext(lits)
                 \/ iend < Len(out) /\ r.len >= 255 /\ r.ip >= iend - 15
          BY <1>1, <1>4, <2>4, <4>1 DEF RUN_MASK
        <5>2. n = 15 + r.len /\ q = r.ip
          BY <4>1 DEF RUN_MASK
        <5> HIDE DEF n, q
        <5>3. CASE r.len + 15 = lits /\ r.ip = dIp + 1 + Ext(lits)
          BY <5>1, <5>2, <5>3
        <5>4. CASE iend < Len(out) /\ r.len >= 255 /\ r.ip >= iend - 15
          BY <1>1, <5>1, <5>2, <5>4
        <5> QED BY <5>1, <5>3, <5>4
      <4>2. CASE lit # RUN_MASK
        BY <1>1, <1>4, <4>2 DEF RUN_MASK
      <4> QED BY <4>1, <4>2
    <3> HIDE DEF n, q
    <3>3. AtLiterals(g, s, N, B, q, dOp, n, code)
      <4>1. CASE n = lits /\ q = dIp + 1 + Ext(lits)
        BY <1>1, <1>3, <1>4, <1>6, <4>1 DEF AtLiterals
      <4>2. CASE iend < Len(g) /\ q + n > iend
        BY <4>2 DEF AtLiterals
      <4> QED BY <3>2, <4>1, <4>2
    <3>4. AtLiterals(g, s, N, B, dIp, dOp, length, dToken % 16)'
      BY <1>5, <2>2, <3>1, <3>3 DEF AtLiterals, code
    <3> QED BY <1>2, <2>2, <3>1, <3>4 DEF Decoding
  <2> QED BY <2>3, <2>4
<1> QED BY <1>7, <1>8

\* SafeLiterals: a block that is cut ends here or is too short.
LEMMA SafeLiteralsDecodes ==
  ASSUME BlockInv, DecodeInv, SafeLiterals,
         NEW g, NEW s, NEW N, NEW B, Encoded(g, s, N, B), Decoding(g, s, N, B)
  PROVE  Decoding(g, s, N, B)'
<1> DEFINE cpy == dOp + length
           p == dIp + length
           n == WildLength(length)
           end == cpy > oend - MFLIMIT \/ p > iend - (2 + 1 + LASTLITERALS)
           code == dToken % 16
<1>1. /\ oend \in Nat /\ iend \in Nat /\ dIp \in Nat /\ dOp \in Nat
      /\ dToken \in Nat /\ length \in Nat /\ dIp <= iend /\ dOp <= oend
      /\ iend <= Len(out) /\ Len(out) \in Nat /\ out = g /\ N \in Nat
  BY LenProperties DEF DecodeInv, BlockInv, SafeLiterals, Encoded
<1>2. AtLiterals(g, s, N, B, dIp, dOp, length, code) /\ dOp <= N /\ Starts(dst, s, dOp)
  BY DEF Decoding, SafeLiterals
<1>3. iend' = iend /\ oend' = oend /\ dToken' = dToken
  BY DEF SafeLiterals
<1>4. cpy \in Nat /\ p \in Nat
  BY <1>1
<1>5. end <=> cpy > oend - 12 \/ p > iend - 8
  BY <1>1 DEF MFLIMIT, LASTLITERALS
<1> HIDE DEF code, n
<1>6. CASE iend < Len(g) /\ p > iend
  <2>1. end /\ ~AtEnd(p, cpy)
    BY <1>1, <1>4, <1>5, <1>6 DEF AtEnd
  <2>2. OutputError(dIp) /\ UNCHANGED <<dst, dOp>>
    BY <2>1 DEF SafeLiterals
  <2>3. Outcome(g, N)' /\ dPc' = "returned"
    BY <1>1, <1>3, <1>6, <2>2, Fails
  <2> QED BY <1>2, <2>2, <2>3 DEF Decoding
<1>7. CASE Spells(g, dIp, s, dOp, length) /\ Followed(g, s, N, B, p, cpy, code)
  <2> HIDE DEF p, cpy
  <2>1. \/ p = Len(g) /\ cpy = N /\ code = 0
        \/ \E ml, o \in Nat :
              /\ MatchAt(g, s, N, p, cpy, ml, o) /\ code = InToken(ml)
              /\ <<p + 2 + Ext(ml), cpy + ml + 4>> \in B
              /\ p + 2 + Ext(ml) + 6 <= Len(g) /\ cpy + 12 <= N
    BY <1>4, <1>7, FollowedFacts
  <2>2. \/ p = Len(g) /\ cpy = N
        \/ p + 8 <= Len(g) /\ cpy + 12 <= N
    <3>1. CASE p = Len(g) /\ cpy = N /\ code = 0
      BY <3>1
    <3>2. CASE \E ml \in Nat : p + 2 + Ext(ml) + 6 <= Len(g) /\ cpy + 12 <= N
      <4>1. PICK ml \in Nat : p + 2 + Ext(ml) + 6 <= Len(g) /\ cpy + 12 <= N
        BY <3>2
      <4>2. PICK e \in Nat : e = Ext(ml)
        BY DEF Ext
      <4> QED BY <1>1, <1>4, <4>1, <4>2
    <3> QED BY <2>1, <3>1, <3>2
  <2>3. p = dIp + length /\ cpy = dOp + length /\ cpy <= N
    <3>1. cpy <= N
      BY <1>1, <1>4, <2>2
    <3> QED BY <3>1 DEF p, cpy
  <2>4. CASE end /\ AtEnd(p, cpy)
    <3>1. /\ Wrote(CopyIn(Buffer, dOp, dIp, length)) /\ dPc' = "returned" /\ dOp' = cpy
          /\ decoded' = cpy
      BY <2>4 DEF SafeLiterals, DecodeReturns, p, cpy
    <3>2. dIp + length <= iend /\ dOp + length <= oend /\ length <= length
      BY <1>1, <2>3, <2>4 DEF AtEnd
    <3>3. Starts(CopyIn(Buffer, dOp, dIp, length).bytes, s, dOp + length)
      BY <1>1, <1>2, <1>7, <3>2, CopyInLiterals
    <3>4. dOp' <= N /\ Starts(dst, s, dOp)'
      BY <2>3, <3>1, <3>3 DEF Wrote
    <3>5. Outcome(g, N)'
      <4>1. p = iend /\ cpy <= oend
        BY <2>4 DEF AtEnd
      <4> QED BY <1>1, <1>3, <1>4, <2>2, <3>1, <4>1 DEF Outcome
    <3> QED BY <3>1, <3>4, <3>5 DEF Decoding
  <2>5. CASE end /\ ~AtEnd(p, cpy)
    <3>1. OutputError(dIp) /\ UNCHANGED <<dst, dOp>>
      BY <2>5 DEF SafeLiterals, p, cpy
    <3>2. iend < Len(g) \/ oend < N
      BY <1>1, <1>4, <1>5, <2>2, <2>5 DEF AtEnd
    <3>3. Outcome(g, N)' /\ dPc' = "returned"
      BY <1>1, <1>3, <3>1, <3>2, Fails
    <3> QED BY <1>2, <3>1, <3>3 DEF Decoding
  <2>6. CASE ~end
    <3>1. /\ Wrote(CopyIn(Buffer, dOp, dIp, n)) /\ dOp' = cpy /\ dIp' = p + 2
          /\ offset' = LZ4_readLE16(p) /\ length' = code /\ dPc' = "copyMatch"
      BY <2>6 DEF SafeLiterals, Goto, p, cpy, n, code
    <3>2. cpy + 12 <= oend /\ p + 8 <= iend /\ p # Len(g)
      BY <1>1, <1>4, <1>5, <2>6
    <3>3. PICK ml \in Nat, o \in Nat :
              /\ MatchAt(g, s, N, p, cpy, ml, o) /\ code = InToken(ml)
              /\ <<p + 2 + Ext(ml), cpy + ml + 4>> \in B
      BY <2>1, <3>2
    <3>4. offset' = o
      <4>1. p + 2 <= iend
        BY <1>1, <1>4, <3>2
      <4> QED BY <1>1, <1>4, <3>1, <3>3, <4>1, ReadOffset
    <3>5. AtMatchLength(g, s, N, B, p + 2, cpy, code, o)
      <4>1. (p + 2) - 2 = p
        BY <1>4
      <4>2. MatchAt(g, s, N, (p + 2) - 2, cpy, ml, o)
        BY <3>3, <4>1
      <4>3. \E z \in Nat : /\ MatchAt(g, s, N, (p + 2) - 2, cpy, z, o) /\ code = InToken(z)
                           /\ <<p + 2 + Ext(z), cpy + z + 4>> \in B
        BY ONLY ml \in Nat, <3>3, <4>2
      <4> QED BY ONLY <4>3 DEF AtMatchLength
    <3>6. AtMatchLength(g, s, N, B, dIp, dOp, length, offset)'
      BY <3>1, <3>4, <3>5
    <3>7. length <= n /\ n \in Nat
      BY <1>1 DEF n, WildLength
    <3>8. dIp + length <= iend /\ dOp + length <= oend
      BY <1>1, <1>4, <2>3, <3>2
    <3>9. Starts(CopyIn(Buffer, dOp, dIp, n).bytes, s, dOp + length)
      BY <1>1, <1>2, <1>7, <3>7, <3>8, CopyInLiterals
    <3>10. dOp' <= N /\ Starts(dst, s, dOp)'
      BY <2>3, <3>1, <3>9 DEF Wrote
    <3> QED BY <3>1, <3>6, <3>10 DEF Decoding
  <2> QED BY <2>4, <2>5, <2>6
<1> QED BY <1>2, <1>6, <1>7 DEF AtLiterals

\* MatchLength.
LEMMA MatchLengthDecodes ==
  ASSUME BlockInv, DecodeInv, MatchLength,
         NEW g, NEW s, NEW N, NEW B, Encoded(g, s, N, B), Decoding(g, s, N, B)
  PROVE  Decoding(g, s, N, B)'
<1> DEFINE r == read_variable_length(dIp, iend - LASTLITERALS + 1)
           long == length = ML_MASK
<1>1. /\ oend \in Nat /\ iend \in Nat /\ dIp \in Nat /\ dOp \in Nat
      /\ length \in Nat /\ offset \in Nat /\ dIp < iend /\ dOp + 12 <= oend
      /\ iend <= Len(out) /\ Len(out) \in Nat /\ out = g /\ N \in Nat
  BY LenProperties DEF DecodeInv, BlockInv, MatchLength, Encoded
<1>2. AtMatchLength(g, s, N, B, dIp, dOp, length, offset) /\ dOp <= N /\ Starts(dst, s, dOp)
  BY DEF Decoding, MatchLength
<1>3. UNCHANGED <<dst, iend, oend, dOp, offset>>
  BY DEF MatchLength
<1>4. PICK ml \in Nat : /\ MatchAt(g, s, N, dIp - 2, dOp, ml, offset) /\ length = InToken(ml)
                        /\ <<dIp + Ext(ml), dOp + ml + 4>> \in B
  BY <1>2 DEF AtMatchLength
<1>5. dIp + Ext(ml) + 6 <= Len(out)
  <2>1. PICK i \in Nat, o \in Nat : i = dIp + Ext(ml) /\ o = dOp + ml + 4 /\ o # 0
    BY <1>1 DEF Ext
  <2>2. <<i, o>> \in B
    BY <1>4, <2>1
  <2>3. i + 6 <= Len(g)
    BY <2>1, <2>2 DEF Encoded, IsBlock
  <2> QED BY <1>1, <2>1, <2>3
<1>6. LengthAt(out, dIp, ml) /\ offset > 0 /\ offset <= dOp /\ Recurs(s, dOp, offset, ml + 4) /\ dOp + ml + 9 <= N
  <2>1. (dIp - 2) + 2 = dIp
    BY <1>1
  <2> QED BY <1>1, <1>4, <2>1 DEF MatchAt
<1>7. /\ length # 15 => ml = length /\ Ext(ml) = 0
      /\ length = 15 =>
           /\ r.ip \in Nat /\ r.len \in Nat
           /\ r.error => iend < Len(out)
           /\ r.error \/ (r.len + 15 = ml /\ r.ip = dIp + Ext(ml))
  BY <1>1, <1>4, <1>5, <1>6, ReadMatchLength
<1>8. CASE long /\ r.error
  <2>1. OutputError(r.ip) /\ UNCHANGED <<dIp, length>>
    BY <1>8 DEF MatchLength
  <2> HIDE DEF r
  <2>2. iend < Len(g) /\ r.ip \in Nat
    BY <1>1, <1>7, <1>8 DEF ML_MASK
  <2>3. Outcome(g, N)' /\ dPc' = "returned"
    BY <1>1, <1>3, <2>1, <2>2, Fails
  <2> QED BY <1>2, <1>3, <2>3 DEF Decoding
<1>9. CASE ~(long /\ r.error)
  <2>1. /\ length' = MINMATCH + (IF long THEN length + r.len ELSE length)
        /\ dIp' = (IF long THEN r.ip ELSE dIp) /\ dPc' = "matchCopy"
    BY <1>9 DEF MatchLength, Goto
  <2> HIDE DEF r
  <2>2. length' = ml + 4 /\ dIp' = dIp + Ext(ml)
    <3>1. CASE long
      <4>1. length = 15 /\ ~r.error
        BY <1>9, <3>1 DEF ML_MASK
      <4>2. length' = 4 + (15 + r.len) /\ dIp' = r.ip
        BY <2>1, <3>1, <4>1 DEF MINMATCH
      <4>3. r.len \in Nat /\ r.len + 15 = ml /\ r.ip = dIp + Ext(ml)
        BY <1>7, <4>1
      <4> QED BY <4>2, <4>3
    <3>2. CASE ~long
      <4>1. length' = 4 + length /\ dIp' = dIp /\ length # 15
        BY <2>1, <3>2 DEF MINMATCH, ML_MASK
      <4>2. ml = length /\ Ext(ml) = 0 /\ dIp + 0 = dIp
        BY <1>1, <1>7, <4>1
      <4> QED BY <1>1, <4>1, <4>2
    <3> QED BY <3>1, <3>2
  <2>3. AtMatch(s, N, B, dIp + Ext(ml), dOp, ml + 4, offset)
    <3>1. dOp + (ml + 4) + 5 <= N /\ dOp + (ml + 4) = dOp + ml + 4
      BY <1>1, <1>6
    <3> QED BY <1>4, <1>6, <3>1 DEF AtMatch
  <2>4. AtMatch(s, N, B, dIp, dOp, length, offset)'
    BY <1>3, <2>2, <2>3
  <2> QED BY <1>2, <1>3, <2>1, <2>4 DEF Decoding
<1> QED BY <1>8, <1>9

\* SafeMatch.
LEMMA SafeMatchDecodes ==
  ASSUME BlockInv, DecodeInv, SafeMatch,
         NEW g, NEW s, NEW N, NEW B, Encoded(g, s, N, B), Decoding(g, s, N, B)
  PROVE  Decoding(g, s, N, B)'
<1> DEFINE m == dOp - offset
           cpy == dOp + length
           eight == FirstEight(Buffer, dOp, m, offset)
           t == AfterEight(m, offset)
           d == dOp + 8
           limit == oend - (WILDCOPYLENGTH - 1)
           strides == IF d < limit THEN limit - d ELSE 0
           wild == IF d < limit THEN LZ4_wildCopy8(eight, d, t, limit) ELSE eight
           tail == IF cpy > d + strides THEN cpy - d - strides ELSE 0
           singles == CopyBytes(wild, d + strides, t + strides, tail)
           sixteen == Copy(eight, d, t, 8)
           long == LZ4_wildCopy8(sixteen, d + 8, t + 8, cpy)
<1>1. /\ oend \in Nat /\ iend \in Nat /\ dIp \in Nat /\ dOp \in Nat
      /\ length \in Nat /\ offset \in Nat /\ dIp < iend /\ dOp + 12 <= oend
      /\ iend <= Len(out) /\ Len(out) \in Nat /\ out = g /\ N \in Nat
  BY LenProperties DEF DecodeInv, BlockInv, SafeMatch, Encoded
<1>2. AtMatch(s, N, B, dIp, dOp, length, offset) /\ dOp <= N /\ Starts(dst, s, dOp)
  BY DEF Decoding, SafeMatch
<1>3. UNCHANGED <<iend, oend, dIp, length, offset>>
  BY DEF SafeMatch
<1>4. /\ offset > 0 /\ offset <= dOp /\ cpy + 5 <= N /\ <<dIp, cpy>> \in B /\ cpy <= N
  <2>1. offset > 0 /\ offset <= dOp /\ cpy + 5 <= N /\ <<dIp, cpy>> \in B
    BY <1>2 DEF AtMatch
  <2> QED BY <1>1, <2>1
<1>5. /\ m \in Nat /\ m + offset = dOp /\ ~(m < 0) /\ d \in Nat /\ d = dOp + 8 /\ limit = oend - 7 /\ cpy \in Nat
      /\ m >= dOp - offset /\ dOp <= d /\ d + 4 <= oend /\ dOp + 8 <= oend
  BY <1>1, <1>4 DEF WILDCOPYLENGTH
<1>6. Repeats(eight, s, dOp, offset, d)
  <2> HIDE DEF m
  <2>1. Repeats(Buffer, s, dOp, offset, dOp)
    BY <1>1, <1>2, BufferRepeats
  <2> QED BY <1>1, <1>4, <1>5, <2>1, FirstEightRepeats
<1>7. PICK e \in Nat : t \in Nat /\ t >= dOp - offset /\ t + e = d /\ e >= 8 /\ Multiple(e, offset)
  <2> HIDE DEF m
  <2>1. /\ t \in Nat /\ t >= m /\ m + offset + 8 - t \in Nat /\ m + offset + 8 - t >= 8
        /\ Multiple(m + offset + 8 - t, offset)
    BY <1>1, <1>4, <1>5, TableMultiples
  <2> HIDE DEF t
  <2>2. t + (m + offset + 8 - t) = d /\ t >= dOp - offset
    BY <1>1, <1>5, <2>1
  <2> QED BY <2>1, <2>2
<1> HIDE DEF m, eight, t
<1>8. CASE cpy > oend - MATCH_SAFEGUARD_DISTANCE /\ cpy > oend - LASTLITERALS
  <2>1. OutputError(dIp) /\ Wrote(eight) /\ UNCHANGED dOp
    BY <1>5, <1>8 DEF SafeMatch, eight, m
  <2>2. oend < N
    BY <1>1, <1>4, <1>5, <1>8 DEF LASTLITERALS
  <2>3. Outcome(g, N)' /\ dPc' = "returned"
    BY <1>1, <1>3, <2>1, <2>2, Fails
  <2>4. Starts(dst, s, dOp)'
    <3>1. Starts(eight.bytes, s, dOp)
      BY <1>6 DEF Repeats, Starts
    <3> QED BY <2>1, <3>1 DEF Wrote
  <2> QED BY <1>2, <2>1, <2>3, <2>4 DEF Decoding
<1>9. CASE cpy > oend - MATCH_SAFEGUARD_DISTANCE /\ ~(cpy > oend - LASTLITERALS)
  <2>1. Wrote(singles) /\ dOp' = cpy /\ dPc' = "safe"
    BY <1>5, <1>9 DEF SafeMatch, Goto, eight, t, m
  <2>2. cpy + 5 <= oend
    BY <1>1, <1>5, <1>9 DEF LASTLITERALS
  <2>3. strides \in Nat /\ d + strides <= oend /\ Repeats(wild, s, dOp, offset, d + strides)
    <3>1. CASE d < limit
      <4>1. limit \in Nat /\ strides = limit - d /\ d + 8 <= oend /\ limit + 8 - 1 <= oend /\ d < limit
        BY <1>1, <1>5, <3>1
      <4>2. wild = Strides(eight, d, t, limit, 8)
        BY <3>1 DEF LZ4_wildCopy8
      <4> HIDE DEF d, limit, strides, wild
      <4>3. limit \in Int /\ 8 \in {8, 16} /\ 8 <= e
        BY <1>7, <4>1
      <4>4. Repeats(Strides(eight, d, t, limit, 8), s, dOp, offset, limit)
        BY <1>1, <1>4, <1>5, <1>6, <1>7, <4>1, <4>3, StridesRepeat
      <4>5. d + strides = limit /\ limit <= oend /\ strides \in Nat
        BY <1>1, <1>5, <4>1
      <4> QED BY <4>2, <4>4, <4>5
    <3>2. CASE ~(d < limit)
      <4>1. strides = 0 /\ wild = eight /\ d + 0 = d
        BY <1>5, <3>2
      <4> HIDE DEF d, limit, strides, wild
      <4> QED BY <1>1, <1>5, <1>6, <4>1
    <3> QED BY <3>1, <3>2
  <2> DEFINE D == d + strides
             T == t + strides
  <2>4. /\ D \in Nat /\ T \in Nat /\ dOp <= D /\ T + e = D /\ T >= dOp - offset /\ e > 0
    <3> HIDE DEF strides, d
    <3> QED BY <1>1, <1>5, <1>7, <2>3
  <2>5. tail \in Nat /\ D + tail <= oend /\ cpy <= D + tail
    <3>1. cpy - d - strides = cpy - D
      <4> HIDE DEF strides, d, cpy
      <4> QED BY <1>5, <2>3
    <3>2. tail = IF cpy > D THEN cpy - D ELSE 0
      BY <3>1
    <3>3. D <= oend
      BY <2>3
    <3> HIDE DEF tail, D, cpy
    <3> QED BY <1>1, <1>5, <2>2, <2>4, <3>2, <3>3
  <2>6. Repeats(singles, s, dOp, offset, D + tail)
    <3>1. Repeats(wild, s, dOp, offset, D)
      BY <2>3
    <3>2. singles = CopyBytes(wild, D, T, tail)
      OBVIOUS
    <3> HIDE DEF D, T, tail, wild, singles
    <3>3. Repeats(CopyBytes(wild, D, T, tail), s, dOp, offset, D + tail)
      BY <1>1, <1>4, <1>7, <2>4, <2>5, <3>1, CopyBytesRepeat
    <3> QED BY <3>2, <3>3
  <2>7. Starts(singles.bytes, s, cpy)
    <3>1. D + tail \in Nat /\ dOp + length <= D + tail
      <4> HIDE DEF D, tail
      <4> QED BY <2>4, <2>5
    <3> HIDE DEF D, tail, singles
    <3>2. Starts(singles.bytes, s, dOp + length)
      BY <1>1, <1>2, <2>6, <3>1, MatchDecodes
    <3> QED BY <3>2
  <2> HIDE DEF singles, cpy
  <2>8. Starts(dst, s, dOp)' /\ dOp' <= N /\ <<dIp, dOp>>' \in B
    BY <1>3, <1>4, <2>1, <2>7 DEF Wrote
  <2> QED BY <2>1, <2>8 DEF Decoding
<1>10. CASE ~(cpy > oend - MATCH_SAFEGUARD_DISTANCE)
  <2>1. Wrote(IF length > 16 THEN long ELSE sixteen) /\ dOp' = cpy /\ dPc' = "safe"
    BY <1>5, <1>10 DEF SafeMatch, Goto, eight, t, m
  <2>2. cpy + 12 <= oend
    BY <1>1, <1>5, <1>10 DEF MATCH_SAFEGUARD_DISTANCE, WILDCOPYLENGTH, MINMATCH
  <2>3. length > 16 => d + 16 <= oend
    BY <1>1, <2>2
  <2>4. d + 8 <= oend
    BY <1>1, <1>5, <2>2, DecodeInv DEF DecodeInv, SafeMatch
  <2> HIDE DEF d
  <2>5. Repeats(sixteen, s, dOp, offset, d + 8)
    <3>1. 8 \in Nat /\ e > 0 /\ 8 <= e
      BY <1>7
    <3> QED BY <1>1, <1>4, <1>5, <1>6, <1>7, <2>4, <3>1, CopyRepeats
  <2>6. length > 16 => Starts(long.bytes, s, cpy)
    <3> SUFFICES ASSUME length > 16 PROVE Starts(long.bytes, s, cpy)
      OBVIOUS
    <3>1. /\ d + 8 \in Nat /\ t + 8 \in Nat /\ t + 8 + e = d + 8 /\ dOp <= d + 8 /\ d + 8 + 8 <= oend
          /\ t + 8 >= dOp - offset /\ 8 <= e /\ 8 \in {8, 16} /\ cpy \in Int /\ cpy + 8 - 1 <= oend
      <4> HIDE DEF cpy
      <4> QED BY <1>1, <1>5, <1>7, <2>2, <2>3
    <3> HIDE DEF sixteen, cpy
    <3>2. Repeats(Strides(sixteen, d + 8, t + 8, cpy, 8), s, dOp, offset, cpy)
      BY <1>1, <1>4, <1>7, <2>5, <3>1, StridesRepeat
    <3>3. Repeats(long, s, dOp, offset, cpy)
      BY <3>2 DEF LZ4_wildCopy8
    <3> HIDE DEF long
    <3>4. cpy \in Nat /\ dOp + length <= cpy /\ dOp + length = cpy
      BY <1>1, <1>5 DEF cpy
    <3>5. Starts(long.bytes, s, dOp + length)
      BY <1>1, <1>2, <3>3, <3>4, MatchDecodes
    <3> QED BY <3>4, <3>5
  <2>7. ~(length > 16) => Starts(sixteen.bytes, s, cpy)
    <3> SUFFICES ASSUME ~(length > 16) PROVE Starts(sixteen.bytes, s, cpy)
      OBVIOUS
    <3>1. d + 8 \in Nat /\ dOp + length <= d + 8
      BY <1>1, <1>5
    <3> HIDE DEF sixteen
    <3>2. Starts(sixteen.bytes, s, dOp + length)
      BY <1>1, <1>2, <2>5, <3>1, MatchDecodes
    <3> QED BY <3>2
  <2> HIDE DEF long, sixteen, cpy
  <2>8. Starts(dst, s, dOp)'
    <3>1. CASE length > 16
      BY <2>1, <2>6, <3>1 DEF Wrote
    <3>2. CASE ~(length > 16)
      BY <2>1, <2>7, <3>2 DEF Wrote
    <3> QED BY <3>1, <3>2
  <2>9. dOp' <= N /\ <<dIp, dOp>>' \in B
    BY <1>3, <1>4, <2>1
  <2> QED BY <2>1, <2>8, <2>9 DEF Decoding
<1> QED BY <1>8, <1>9, <1>10

\* Only the empty input has the block of one token without literals.
LEMMA EmptyBlock ==
  ASSUME NEW g, NEW s, NEW N, NEW B, Encoded(g, s, N, B)
  PROVE  Len(g) >= 1 /\ (N = 0 <=> Len(g) = 1 /\ g[1] = 0)
<1>1. N \in Nat /\ Len(g) \in Nat
  BY LenProperties DEF Encoded
<1>2. SequenceAt(g, s, N, B, 0, 0)
  BY DEF Encoded, IsBlock
<1>3. PICK lit \in Nat, m \in 0 .. 15 :
        /\ Literals(g, s, 0, 0, lit, m)
        /\ Followed(g, s, N, B, 0 + 1 + Ext(lit) + lit, 0 + lit, m)
  BY <1>2 DEF SequenceAt
<1>4. PICK x \in Nat, y \in Nat : x = 0 + 1 + Ext(lit) + lit /\ y = 0 + lit /\ x >= 1 /\ y = lit
  BY DEF Ext
<1>5. Followed(g, s, N, B, x, y, m)
  BY <1>3, <1>4
<1>6. \/ x = Len(g) /\ y = N /\ m = 0
      \/ x + 8 <= Len(g) /\ y + 12 <= N
  <2>1. \/ x = Len(g) /\ y = N /\ m = 0
        \/ \E ml, off \in Nat :
             /\ MatchAt(g, s, N, x, y, ml, off) /\ m = InToken(ml)
             /\ <<x + 2 + Ext(ml), y + ml + 4>> \in B
             /\ x + 2 + Ext(ml) + 6 <= Len(g) /\ y + 12 <= N
    BY <1>5, FollowedFacts
  <2>2. ASSUME NEW ml \in Nat, x + 2 + Ext(ml) + 6 <= Len(g)
        PROVE  x + 8 <= Len(g)
    <3>1. PICK e \in Nat : e = Ext(ml)
      BY DEF Ext
    <3> QED BY <1>1, <2>2, <3>1
  <2> QED BY <2>1, <2>2
<1>7. Len(g) >= 1
  BY <1>1, <1>4, <1>6
<1>8. g[1] = 16 * InToken(lit) + m
  BY <1>3 DEF Literals
<1>9. ASSUME N = 0 PROVE Len(g) = 1 /\ g[1] = 0
  <2>1. x = Len(g) /\ lit = 0 /\ m = 0
    BY <1>4, <1>6, <1>9
  <2>2. Ext(lit) = 0 /\ InToken(lit) = 0
    BY <2>1 DEF Ext, InToken
  <2> QED BY <1>4, <1>8, <2>1, <2>2
<1>10. ASSUME Len(g) = 1, g[1] = 0 PROVE N = 0
  <2>1. InToken(lit) = 0
    <3>1. InToken(lit) \in 0 .. 15
      BY DEF InToken
    <3> QED BY <1>8, <1>10, <3>1
  <2>2. lit = 0
    BY <2>1 DEF InToken
  <2> QED BY <1>4, <1>6, <1>10, <2>2
<1> QED BY <1>7, <1>9, <1>10

\* Begin.
LEMMA BeginDecodes ==
  ASSUME BlockInv, DecodeInv, Begin, BlockInv', out' = out,
         NEW g, NEW s, NEW N, NEW B, Encoded(g, s, N, B), Decoding(g, s, N, B)
  PROVE  Decoding(g, s, N, B)'
<1>1. /\ dIp = 0 /\ dOp = 0 /\ oend \in Nat /\ N \in Nat /\ Len(g) \in Nat /\ out = g
      /\ iend' \in Nat /\ iend' <= Len(g)
  BY LenProperties DEF DecodeInv, BlockInv, Begin, Encoded
<1>2. dOp <= N /\ Starts(dst, s, dOp)
  BY DEF Decoding
<1>3. UNCHANGED <<dst, oend, dIp, dOp>>
  BY DEF Begin
<1>4. Len(g) >= 1 /\ (N = 0 <=> Len(g) = 1 /\ g[1] = 0)
  BY EmptyBlock
<1>5. CASE oend = 0
  <2>1. dPc' = "returned" /\ decoded' = IF iend' = 1 /\ out[1] = 0 THEN 0 ELSE -1
    BY <1>5 DEF Begin, DecodeReturns
  <2>2. Outcome(g, N)'
    <3>1. PICK i \in Nat : i = iend' /\ i <= Len(g)
      BY <1>1
    <3>2. CASE i = 1 /\ g[1] = 0
      <4>1. decoded' = 0
        BY <1>1, <2>1, <3>1, <3>2
      <4>2. i = Len(g) <=> N = 0
        BY <1>1, <1>4, <3>2
      <4> QED BY <1>1, <1>3, <1>5, <3>1, <4>1, <4>2 DEF Outcome
    <3>3. CASE ~(i = 1 /\ g[1] = 0)
      <4>1. decoded' = -1
        BY <1>1, <2>1, <3>1, <3>3
      <4>2. i = Len(g) => N > 0
        BY <1>1, <1>4, <3>3
      <4> QED BY <1>1, <1>3, <1>5, <3>1, <4>1, <4>2 DEF Outcome
    <3> QED BY <3>2, <3>3
  <2> QED BY <1>2, <1>3, <2>1, <2>2 DEF Decoding
<1>6. CASE oend # 0 /\ iend' = 0
  <2>1. dPc' = "returned" /\ decoded' = -1
    BY <1>6 DEF Begin, DecodeReturns
  <2>2. Outcome(g, N)'
    BY <1>1, <1>4, <1>6, <2>1 DEF Outcome
  <2> QED BY <1>2, <1>3, <2>1, <2>2 DEF Decoding
<1>7. CASE oend # 0 /\ iend' # 0
  <2>1. dPc' = "safe" \/ dPc' = "fast"
    BY <1>7 DEF Begin, Goto
  <2>2. <<dIp, dOp>>' \in B
    BY <1>1, <1>3 DEF Encoded, IsBlock
  <2> QED BY <1>2, <1>3, <2>1, <2>2 DEF Decoding
<1> QED BY <1>5, <1>6, <1>7

\* The decoder gives the input of the block it reads.
LEMMA DecompressDecodes ==
  ASSUME BlockInv, DecodeInv, LZ4_decompress_safe, UNCHANGED cvars,
         NEW g, NEW s, NEW N, NEW B, Encoded(g, s, N, B), Decoding(g, s, N, B)
  PROVE  Decoding(g, s, N, B)'
<1>1. out' = out
  BY DEF cvars
<1>2. BlockInv'
  BY DecompressKeeps
<1>3. CASE Begin
  BY <1>1, <1>2, <1>3, BeginDecodes
<1>4. CASE FastLiterals
  BY <1>4, FastLiteralsDecodes
<1>5. CASE FastMatch
  BY <1>5, FastMatchDecodes
<1>6. CASE SafeToken
  BY <1>6, SafeTokenDecodes
<1>7. CASE SafeLiterals
  BY <1>7, SafeLiteralsDecodes
<1>8. CASE MatchLength
  BY <1>8, MatchLengthDecodes
<1>9. CASE SafeMatch
  BY <1>9, SafeMatchDecodes
<1> QED BY <1>3, <1>4, <1>5, <1>6, <1>7, <1>8, <1>9 DEF LZ4_decompress_safe

-----------------------------------------------------------------------------
(* LZ4_count: what it counts is equal, and it misses nothing *)

\* n bytes of the input at p are those at q.
Alike(p, q, n) == \A j \in 0 .. (n - 1) : src[p + j] = src[q + j]

\* Two runs of equal bytes in a row.
LEMMA AlikeSum ==
  ASSUME NEW p \in Nat, NEW q \in Nat, NEW n \in Nat, NEW m \in Nat,
         Alike(p, q, n), Alike(p + n, q + n, m)
  PROVE  Alike(p, q, n + m)
<1> SUFFICES ASSUME NEW j \in 0 .. (n + m - 1) PROVE src[p + j] = src[q + j]
  BY DEF Alike
<1>1. CASE j < n
  <2>1. j \in 0 .. (n - 1)
    BY <1>1
  <2> QED BY <2>1 DEF Alike
<1>2. CASE j >= n
  <2>1. PICK i \in 0 .. (m - 1) : i = j - n
    BY <1>2
  <2>2. p + n + i = p + j /\ q + n + i = q + j
    BY <2>1
  <2>3. src[p + n + i] = src[q + n + i]
    BY DEF Alike
  <2> QED BY <2>2, <2>3
<1> QED BY <1>1, <1>2

\* A part of a run of equal bytes.
LEMMA AlikeTail ==
  ASSUME NEW p \in Nat, NEW q \in Nat, NEW n \in Nat, NEW k \in Nat, NEW m \in Nat, k + m <= n,
         Alike(p, q, n)
  PROVE  Alike(p + k, q + k, m)
<1> SUFFICES ASSUME NEW j \in 0 .. (m - 1) PROVE src[p + k + j] = src[q + k + j]
  BY DEF Alike
<1>1. PICK i \in 0 .. (n - 1) : i = k + j
  OBVIOUS
<1>2. p + i = p + k + j /\ q + i = q + k + j
  BY <1>1
<1>3. src[p + i] = src[q + i]
  BY DEF Alike
<1> QED BY <1>2, <1>3

\* The bytes in common are equal, and no more of the n are.
LEMMA CommonBytes ==
  ASSUME NEW p, NEW q, NEW n \in Nat
  PROVE  LET c == LZ4_NbCommonBytes(p, q, n)
         IN  c \in 0 .. n /\ Alike(p, q, c) /\ \A k \in 0 .. n : Alike(p, q, k) => k <= c
<1> DEFINE S == {k \in 0 .. n : \A j \in 0 .. (k - 1) : src[p + j] = src[q + j]}
<1>1. S \in SUBSET (0 .. n) /\ 0 \in S
  OBVIOUS
<1>2. Max(S) \in S /\ \A z \in S : z <= Max(S)
  <2> HIDE DEF S
  <2> QED BY <1>1, Greatest
<1>3. LZ4_NbCommonBytes(p, q, n) = Max(S)
  BY DEF LZ4_NbCommonBytes
<1>4. \A k \in 0 .. n : Alike(p, q, k) <=> k \in S
  BY DEF Alike
<1> HIDE DEF S
<1> QED BY <1>1, <1>2, <1>3, <1>4

\* What an even shorter test adds.
LEMMA CountMoreExact ==
  ASSUME NEW p \in Nat, NEW q \in Nat, NEW k \in Nat, NEW n \in Nat, NEW limit \in Int, p + k <= limit,
         Alike(p, q, k), NEW K \in Nat, Alike(p, q, K), p + K <= limit, K - k < 2 * n
  PROVE  LET c == CountMore(p, q, k, n, limit)
         IN  c \in Nat /\ p + c <= limit /\ Alike(p, q, c) /\ K - c < n
<1> DEFINE x == LZ4_NbCommonBytes(p + k, q + k, n)
<1>1. x \in 0 .. n /\ Alike(p + k, q + k, x) /\ \A i \in 0 .. n : Alike(p + k, q + k, i) => i <= x
  BY CommonBytes
<1> HIDE DEF x
<1>2. CountMore(p, q, k, n, limit) = IF p + k < limit - (n - 1) /\ x = n THEN k + n ELSE k
  BY DEF CountMore, x
<1>3. CASE p + k < limit - (n - 1) /\ x = n
  <2>1. Alike(p, q, k + n)
    BY <1>1, <1>3, AlikeSum
  <2>2. k + n \in Nat /\ p + (k + n) <= limit /\ K - (k + n) < n
    BY <1>3
  <2> QED BY <1>2, <1>3, <2>1, <2>2
<1>4. CASE ~(p + k < limit - (n - 1) /\ x = n)
  <2>1. K - k < n
    <3> SUFFICES ASSUME K - k >= n PROVE FALSE
      OBVIOUS
    <3>1. k + n <= K /\ p + k < limit - (n - 1)
      OBVIOUS
    <3>2. Alike(p + k, q + k, n)
      BY <3>1, AlikeTail
    <3>3. n \in 0 .. n
      OBVIOUS
    <3> QED BY <1>1, <1>4, <3>1, <3>2, <3>3
  <2> QED BY <1>2, <1>4, <2>1
<1> QED BY <1>3, <1>4

\* What LZ4_count counts is equal, and at least what is known to be equal.
LEMMA CountExact ==
  ASSUME NEW p \in Nat, NEW q \in Nat, NEW limit \in Int, p <= limit, inputSize \in Nat, limit <= inputSize,
         NEW K \in Nat, Alike(p, q, K), p + K <= limit
  PROVE  Alike(p, q, LZ4_count(p, q, limit)) /\ K <= LZ4_count(p, q, limit)
<1> DEFINE n == inputSize \div STEPSIZE
           S == {w \in 0 .. n :
                  /\ p + STEPSIZE * w <= limit \/ w = 0
                  /\ \A v_ \in 0 .. (w - 1) :
                       LZ4_NbCommonBytes(p + STEPSIZE * v_, q + STEPSIZE * v_, STEPSIZE) = STEPSIZE}
           words == Max(S)
           k == STEPSIZE * words
<1>1. n \in Nat /\ 8 * n <= inputSize /\ inputSize < 8 * n + 8
  BY DEF STEPSIZE
<1> HIDE DEF n
<1>2. S \in SUBSET (0 .. n) /\ 0 \in S
  BY <1>1
<1>3. words \in S /\ \A z \in S : z <= words
  <2> HIDE DEF S
  <2> QED BY <1>1, <1>2, Greatest
<1> HIDE DEF words
<1>4. /\ words \in Nat /\ words <= n /\ (p + 8 * words <= limit \/ words = 0)
      /\ \A i \in 0 .. (words - 1) : LZ4_NbCommonBytes(p + 8 * i, q + 8 * i, 8) = 8
  BY <1>1, <1>3 DEF STEPSIZE
<1>5. k = 8 * words /\ k \in Nat /\ p + k <= limit
  BY <1>4 DEF STEPSIZE
<1>6. LZ4_count(p, q, limit) =
        IF p + k < limit - (STEPSIZE - 1)
        THEN k + LZ4_NbCommonBytes(p + k, q + k, STEPSIZE)
        ELSE CountMore(p, q, CountMore(p, q, CountMore(p, q, k, 4, limit), 2, limit), 1, limit)
  BY DEF LZ4_count, k, words, S, n
<1>7. words + 1 \in S <=> /\ words + 1 <= n /\ p + 8 * (words + 1) <= limit
                          /\ LZ4_NbCommonBytes(p + 8 * words, q + 8 * words, 8) = 8
  <2>1. words + 1 \in S <=>
          /\ words + 1 \in 0 .. n
          /\ p + 8 * (words + 1) <= limit \/ words + 1 = 0
          /\ \A i \in 0 .. ((words + 1) - 1) : LZ4_NbCommonBytes(p + 8 * i, q + 8 * i, 8) = 8
    <3>1. PICK w \in Nat : w = words + 1
      BY <1>4
    <3>2. w \in S <=> /\ w \in 0 .. n
                      /\ p + STEPSIZE * w <= limit \/ w = 0
                      /\ \A i \in 0 .. (w - 1) :
                           LZ4_NbCommonBytes(p + STEPSIZE * i, q + STEPSIZE * i, STEPSIZE) = STEPSIZE
      BY Zenon
    <3> HIDE DEF S
    <3> QED BY <3>1, <3>2 DEF STEPSIZE
  <2>2. words + 1 \in 0 .. n <=> words + 1 <= n
    BY <1>1, <1>4
  <2>3. words + 1 # 0
    BY <1>4
  <2>4. (\A i \in 0 .. ((words + 1) - 1) : LZ4_NbCommonBytes(p + 8 * i, q + 8 * i, 8) = 8)
          <=> LZ4_NbCommonBytes(p + 8 * words, q + 8 * words, 8) = 8
    <3>1. 0 .. ((words + 1) - 1) = 0 .. (words - 1) \cup {words}
      BY <1>4
    <3> QED BY <1>4, <3>1
  <2> QED BY <2>1, <2>2, <2>3, <2>4
<1>8. words + 1 \notin S
  <2>1. ~(words + 1 <= words)
    BY <1>4
  <2> HIDE DEF S
  <2> QED BY <1>3, <2>1
<1> HIDE DEF S
<1>9. Alike(p, q, k)
  <2> SUFFICES ASSUME NEW j \in 0 .. (k - 1) PROVE src[p + j] = src[q + j]
    BY DEF Alike
  <2>1. PICK i \in Nat, x \in 0 .. 7 : j = 8 * i + x
    <3>1. j \div 8 \in Nat /\ j % 8 \in 0 .. 7 /\ j = 8 * (j \div 8) + (j % 8)
      BY <1>5
    <3> QED BY <3>1
  <2>2. i \in 0 .. (words - 1)
    BY <1>4, <1>5, <2>1
  <2>3. LZ4_NbCommonBytes(p + 8 * i, q + 8 * i, 8) = 8
    BY <1>4, <2>2
  <2>4. Alike(p + 8 * i, q + 8 * i, LZ4_NbCommonBytes(p + 8 * i, q + 8 * i, 8))
    BY CommonBytes
  <2>5. Alike(p + 8 * i, q + 8 * i, 8)
    BY <2>3, <2>4
  <2>6. x \in 0 .. (8 - 1)
    OBVIOUS
  <2>7. src[p + 8 * i + x] = src[q + 8 * i + x]
    BY <2>5, <2>6 DEF Alike
  <2>8. p + 8 * i + x = p + j /\ q + 8 * i + x = q + j
    BY <2>1
  <2> QED BY <2>7, <2>8
<1> HIDE DEF k
<1>10. CASE p + k < limit - (STEPSIZE - 1)
  <2> DEFINE c == LZ4_NbCommonBytes(p + k, q + k, 8)
  <2>1. c \in 0 .. 8 /\ Alike(p + k, q + k, c) /\ \A i \in 0 .. 8 : Alike(p + k, q + k, i) => i <= c
    BY CommonBytes
  <2>2. c # 8
    <3>1. p + 8 * (words + 1) <= limit /\ words + 1 <= n
      BY <1>1, <1>4, <1>5, <1>10 DEF STEPSIZE
    <3> QED BY <1>5, <1>7, <1>8, <3>1
  <2> HIDE DEF c
  <2>3. Alike(p, q, k + c)
    BY <1>5, <1>9, <2>1, AlikeSum
  <2>4. K <= k + c
    <3> SUFFICES ASSUME K > k + c PROVE FALSE
      BY <1>5, <2>1
    <3>1. c + 1 \in 0 .. 8 /\ c + 1 \in Nat /\ k + (c + 1) <= K /\ ~(c + 1 <= c)
      BY <1>5, <2>1, <2>2
    <3>2. Alike(p + k, q + k, c + 1)
      BY <1>5, <3>1, AlikeTail
    <3> QED BY <2>1, <3>1, <3>2
  <2> QED BY <1>6, <1>10, <2>3, <2>4 DEF STEPSIZE, c
<1>11. CASE ~(p + k < limit - (STEPSIZE - 1))
  <2> DEFINE x == CountMore(p, q, k, 4, limit)
             y == CountMore(p, q, x, 2, limit)
             z == CountMore(p, q, y, 1, limit)
  <2>1. K - k < 2 * 4
    BY <1>5, <1>11 DEF STEPSIZE
  <2>2. x \in Nat /\ p + x <= limit /\ Alike(p, q, x) /\ K - x < 4
    BY <1>5, <1>9, <2>1, CountMoreExact
  <2> HIDE DEF x
  <2>3. K - x < 2 * 2
    BY <2>2
  <2>4. y \in Nat /\ p + y <= limit /\ Alike(p, q, y) /\ K - y < 2
    BY <2>2, <2>3, CountMoreExact
  <2> HIDE DEF y
  <2>5. K - y < 2 * 1
    BY <2>4
  <2>6. z \in Nat /\ p + z <= limit /\ Alike(p, q, z) /\ K - z < 1
    BY <2>4, <2>5, CountMoreExact
  <2> HIDE DEF z
  <2>7. K <= z
    BY <2>6
  <2> QED BY <1>6, <1>11, <2>6, <2>7 DEF x, y, z
<1> QED BY <1>10, <1>11

-----------------------------------------------------------------------------
(* Writing the block *)

\* The first n bytes of the block stay.
Agree(g, h, n) == \A k \in 1 .. n : h[k] = g[k]

\* What a concatenation has where.
LEMMA Joined ==
  ASSUME NEW a \in Seq(Octet), NEW b \in Seq(Octet)
  PROVE  /\ a \o b \in Seq(Octet) /\ Len(a \o b) = Len(a) + Len(b) /\ Agree(a, a \o b, Len(a))
         /\ \A k \in 1 .. Len(b) : (a \o b)[Len(a) + k] = b[k]
         /\ Len(a) \in Nat /\ Len(b) \in Nat
<1>1. Len(a) \in Nat /\ Len(b) \in Nat
  BY LenProperties
<1> DEFINE c == a \o b
<1>2. /\ c \in Seq(Octet) /\ Len(c) = Len(a) + Len(b)
      /\ \A i \in 1 .. (Len(a) + Len(b)) : c[i] = IF i <= Len(a) THEN a[i] ELSE b[i - Len(a)]
  BY ConcatProperties
<1> HIDE DEF c
<1>3. Agree(a, c, Len(a))
  BY <1>1, <1>2 DEF Agree
<1>4. ASSUME NEW k \in 1 .. Len(b)
      PROVE  c[Len(a) + k] = b[k]
  <2>1. PICK i \in 1 .. (Len(a) + Len(b)) : i = Len(a) + k /\ ~(i <= Len(a)) /\ i - Len(a) = k
    BY <1>1
  <2>2. c[i] = b[i - Len(a)]
    BY <1>2, <2>1
  <2> QED BY <2>1, <2>2
<1> QED BY <1>1, <1>2, <1>3, <1>4 DEF c

\* Two writes in a row.
LEMMA AgreeChain ==
  ASSUME NEW g, NEW h, NEW f, NEW n \in Int, NEW m \in Int, n <= m, Agree(g, h, n), Agree(h, f, m)
  PROVE  Agree(g, f, n)
BY DEF Agree

\* The bytes of a length: 255, and the remainder.
LEMMA LengthBytesAt ==
  ASSUME NEW u \in Nat
  PROVE  /\ \A k \in 1 .. (u \div 255) : LengthBytes(u)[k] = 255
         /\ LengthBytes(u)[u \div 255 + 1] = u % 255
<1> DEFINE w == [k \in 1 .. (u \div 255) |-> 255]
           t == <<u % 255>>
<1>1. u \div 255 \in Nat /\ u % 255 \in Octet /\ 255 \in Octet
  BY DEF Octet
<1>2. PICK n \in Nat : n = u \div 255
  BY <1>1
<1>3. w = [k \in 1 .. n |-> 255]
  BY <1>2
<1>4. w \in [1 .. n -> Octet] /\ DOMAIN w = 1 .. n /\ \A k \in 1 .. n : w[k] = 255
  BY <1>1, <1>3
<1>5. t \in Seq(Octet) /\ Len(t) = 1 /\ t[1] = u % 255
  BY <1>1
<1> HIDE DEF w, t
<1>6. w \in Seq(Octet)
  BY <1>4, SeqDef
<1>7. Len(w) = n
  BY <1>4, <1>6, LenProperties
<1>8. LengthBytes(u) = w \o t
  BY DEF LengthBytes, w, t
<1>9. Agree(w, w \o t, Len(w)) /\ (w \o t)[Len(w) + 1] = t[1]
  <2>1. 1 \in 1 .. Len(t)
    BY <1>5
  <2> QED BY <1>5, <1>6, <2>1, Joined
<1> QED BY <1>2, <1>4, <1>5, <1>7, <1>8, <1>9 DEF Agree

\* A length is written so that it is read back.
LEMMA LengthWritten ==
  ASSUME NEW a \in Seq(Octet), NEW n \in Nat
  PROVE  LET h == a \o (IF n >= 15 THEN LengthBytes(n - 15) ELSE <<>>)
         IN  h \in Seq(Octet) /\ Len(h) = Len(a) + Ext(n) /\ Agree(a, h, Len(a)) /\ LengthAt(h, Len(a), n)
<1> DEFINE x == IF n >= 15 THEN LengthBytes(n - 15) ELSE <<>>
           h == a \o x
<1>1. x \in Seq(Octet) /\ Len(x) = Ext(n) /\ Ext(n) \in Nat
  BY ExtraSeq
<1>2. n >= 15 => /\ \A k \in 1 .. (Ext(n) - 1) : x[k] = 255
                 /\ x[Ext(n)] = (n - 15) % 255 /\ Ext(n) >= 1
  <2> SUFFICES ASSUME n >= 15
               PROVE  /\ \A k \in 1 .. (Ext(n) - 1) : x[k] = 255
                      /\ x[Ext(n)] = (n - 15) % 255 /\ Ext(n) >= 1
    OBVIOUS
  <2>1. PICK u \in Nat : u = n - 15
    OBVIOUS
  <2>2. x = LengthBytes(u)
    BY <2>1
  <2> HIDE DEF x
  <2>3. PICK e \in Nat : e = u \div 255
    OBVIOUS
  <2>4. Ext(n) = e + 1 /\ Ext(n) - 1 = e
    BY <2>1, <2>3 DEF Ext
  <2>5. (\A k \in 1 .. e : x[k] = 255) /\ x[e + 1] = u % 255
    <3>1. /\ \A k \in 1 .. (u \div 255) : LengthBytes(u)[k] = 255
          /\ LengthBytes(u)[u \div 255 + 1] = u % 255
      BY LengthBytesAt
    <3> QED BY ONLY <2>2, <2>3, <3>1
  <2> QED BY <2>1, <2>4, <2>5
<1> HIDE DEF x
<1>3. /\ h \in Seq(Octet) /\ Len(h) = Len(a) + Len(x) /\ Agree(a, h, Len(a))
      /\ \A k \in 1 .. Len(x) : h[Len(a) + k] = x[k]
      /\ Len(a) \in Nat
  BY <1>1, Joined
<1> HIDE DEF h
<1>4. LengthAt(h, Len(a), n)
  <2> SUFFICES ASSUME n >= 15
               PROVE  /\ \A k \in (Len(a) + 1) .. (Len(a) + Ext(n) - 1) : h[k] = 255
                      /\ h[Len(a) + Ext(n)] = (n - 15) % 255
    BY DEF LengthAt
  <2>1. PICK e \in Nat : e = Ext(n) /\ e >= 1
    BY <1>1, <1>2
  <2>2. h[Len(a) + e] = (n - 15) % 255
    <3>1. e \in 1 .. Len(x)
      BY <1>1, <2>1
    <3> QED BY <1>2, <1>3, <2>1, <3>1
  <2>3. ASSUME NEW k \in (Len(a) + 1) .. (Len(a) + e - 1)
        PROVE  h[k] = 255
    <3>0. PICK l \in Nat : l = Len(a)
      BY <1>3
    <3>1. PICK j \in 1 .. (e - 1) : j = k - l /\ Len(a) + j = k
      <4>1. k \in (l + 1) .. (l + e - 1)
        BY <3>0
      <4>2. k - l \in 1 .. (e - 1) /\ l + (k - l) = k
        BY <4>1
      <4> QED BY <3>0, <4>2
    <3>2. j \in 1 .. Len(x)
      BY <1>1, <2>1
    <3>3. h[Len(a) + j] = x[j]
      BY <1>3, <3>2
    <3>4. x[j] = 255
      BY <1>2, <2>1
    <3> QED BY <3>1, <3>3, <3>4
  <2> QED BY <2>1, <2>2, <2>3
<1> QED BY <1>1, <1>3, <1>4 DEF h, x

\* What is written before stays.
LEMMA LengthStays ==
  ASSUME NEW g, NEW h, NEW p \in Nat, NEW n \in Nat, NEW z \in Nat, p + Ext(n) <= z, LengthAt(g, p, n),
         \A k \in (p + 1) .. z : h[k] = g[k]
  PROVE  LengthAt(h, p, n)
<1> SUFFICES ASSUME n >= 15
             PROVE  /\ \A k \in (p + 1) .. (p + Ext(n) - 1) : h[k] = 255
                    /\ h[p + Ext(n)] = (n - 15) % 255
  BY DEF LengthAt
<1>1. PICK e \in Nat : e = Ext(n) /\ e >= 1
  BY DEF Ext
<1>2. (\A k \in (p + 1) .. (p + e - 1) : g[k] = 255) /\ g[p + e] = (n - 15) % 255
  BY <1>1 DEF LengthAt
<1>3. p + e \in (p + 1) .. z /\ \A k \in (p + 1) .. (p + e - 1) : k \in (p + 1) .. z
  BY <1>1
<1> QED BY <1>1, <1>2, <1>3

\* Only the token changes, by what the match adds to it.
LEMMA LiteralsStay ==
  ASSUME NEW g, NEW h, NEW s, NEW i \in Nat, NEW o, NEW lit \in Nat, NEW m \in Int, NEW d \in Int,
         Literals(g, s, i, o, lit, m), NEW z \in Nat, i + 1 + Ext(lit) + lit <= z,
         \A k \in (i + 2) .. z : h[k] = g[k], h[i + 1] = g[i + 1] + d
  PROVE  Literals(h, s, i, o, lit, m + d)
<1>1. PICK e \in Nat : e = Ext(lit)
  BY DEF Ext
<1>2. g[i + 1] = 16 * InToken(lit) + m /\ LengthAt(g, i + 1, lit) /\ Spells(g, i + 1 + e, s, o, lit)
  BY <1>1 DEF Literals
<1>3. h[i + 1] = 16 * InToken(lit) + (m + d)
  <2>1. InToken(lit) \in Int
    BY DEF InToken
  <2> QED BY <1>2, <2>1
<1>4. LengthAt(h, i + 1, lit)
  <2>1. i + 1 \in Nat /\ i + 1 + Ext(lit) <= z /\ i + 1 + 1 = i + 2
    BY <1>1
  <2>2. \A k \in (i + 1 + 1) .. z : h[k] = g[k]
    BY <2>1
  <2> QED BY <1>2, <2>1, <2>2, LengthStays
<1>5. Spells(h, i + 1 + e, s, o, lit)
  <2> SUFFICES ASSUME NEW k \in 0 .. (lit - 1) PROVE h[i + 1 + e + k + 1] = s[o + k]
    BY DEF Spells
  <2>1. g[i + 1 + e + k + 1] = s[o + k]
    BY <1>2 DEF Spells
  <2>2. i + 1 + e + k + 1 \in (i + 2) .. z
    BY <1>1
  <2> QED BY <2>1, <2>2
<1> QED BY <1>1, <1>3, <1>4, <1>5 DEF Literals

\* A match in what stays.
LEMMA MatchStays ==
  ASSUME NEW g, NEW h, NEW s, NEW n, NEW x \in Nat, NEW y, NEW ml \in Nat, NEW off,
         MatchAt(g, s, n, x, y, ml, off), NEW z \in Nat, x + 2 + Ext(ml) <= z, Agree(g, h, z)
  PROVE  MatchAt(h, s, n, x, y, ml, off)
<1>1. PICK e \in Nat : e = Ext(ml)
  BY DEF Ext
<1>2. h[x + 1] = g[x + 1] /\ h[x + 2] = g[x + 2]
  <2>1. x + 1 \in 1 .. z /\ x + 2 \in 1 .. z
    BY <1>1
  <2> QED BY <2>1 DEF Agree
<1>3. LengthAt(h, x + 2, ml)
  <2>1. x + 2 \in Nat /\ LengthAt(g, x + 2, ml)
    BY DEF MatchAt
  <2>2. \A k \in (x + 2 + 1) .. z : h[k] = g[k]
    BY DEF Agree
  <2> QED BY <2>1, <2>2, LengthStays
<1> QED BY <1>2, <1>3 DEF MatchAt

\* A token, the rest of the literal length and the literals.
WithLiterals(g, a, lit) ==
  g \o <<16 * Min({lit, RUN_MASK})>>
    \o (IF lit >= RUN_MASK THEN LengthBytes(lit - RUN_MASK) ELSE <<>>)
    \o Bytes(a, lit)

\* Literals are written so that they are read back.
LEMMA LiteralsWritten ==
  ASSUME SrcInv, NEW g \in Seq(Octet), NEW a \in Nat, NEW lit \in Nat, a + lit <= inputSize
  PROVE  LET h == WithLiterals(g, a, lit)
         IN  /\ h \in Seq(Octet) /\ Len(h) = Len(g) + 1 + Ext(lit) + lit
             /\ Agree(g, h, Len(g)) /\ Literals(h, src, Len(g), a, lit, 0)
<1> DEFINE t == 16 * Min({lit, RUN_MASK})
           u == <<t>>
           f == g \o u
           x == IF lit >= RUN_MASK THEN LengthBytes(lit - RUN_MASK) ELSE <<>>
           j == f \o x
           b == Bytes(a, lit)
           h == j \o b
<1>1. t = 16 * InToken(lit) /\ t \in Octet
  <2>1. Min({lit, 15}) = IF lit <= 15 THEN lit ELSE 15
    BY MinOfTwo
  <2>2. Min({lit, 15}) = InToken(lit) /\ InToken(lit) \in 0 .. 15
    BY <2>1 DEF InToken
  <2>3. t = 16 * Min({lit, 15})
    BY DEF RUN_MASK
  <2> HIDE DEF t
  <2>4. PICK v_ \in 0 .. 15 : v_ = InToken(lit)
    BY <2>2
  <2>5. t = 16 * v_
    BY ONLY <2>2, <2>3, <2>4
  <2>6. 16 * v_ \in 0 .. 255
    OBVIOUS
  <2> QED BY ONLY <2>4, <2>5, <2>6 DEF Octet
<1> HIDE DEF t
<1>2. u \in Seq(Octet) /\ Len(u) = 1 /\ u[1] = t
  BY <1>1
<1> HIDE DEF u
<1>3. /\ f \in Seq(Octet) /\ Len(f) = Len(g) + 1 /\ Agree(g, f, Len(g)) /\ f[Len(g) + 1] = t
      /\ Len(g) \in Nat
  <2>1. 1 \in 1 .. Len(u)
    BY <1>2
  <2>2. /\ f \in Seq(Octet) /\ Len(f) = Len(g) + Len(u) /\ Agree(g, f, Len(g))
        /\ \A k \in 1 .. Len(u) : f[Len(g) + k] = u[k]
        /\ Len(g) \in Nat
    BY <1>2, Joined
  <2> HIDE DEF f
  <2>3. f[Len(g) + 1] = u[1]
    BY <2>1, <2>2
  <2> QED BY <1>2, <2>2, <2>3
<1> HIDE DEF f
<1>4. j \in Seq(Octet) /\ Len(j) = Len(f) + Ext(lit) /\ Agree(f, j, Len(f)) /\ LengthAt(j, Len(f), lit)
  BY <1>3, LengthWritten DEF RUN_MASK
<1> HIDE DEF j
<1>5. b \in Seq(Octet) /\ Len(b) = lit
  BY BytesSeq
<1>6. \A k \in 1 .. lit : b[k] = src[a + k - 1]
  BY DEF Bytes
<1> HIDE DEF b
<1>7. /\ h \in Seq(Octet) /\ Len(h) = Len(j) + lit /\ Agree(j, h, Len(j))
      /\ \A k \in 1 .. lit : h[Len(j) + k] = b[k]
  BY <1>4, <1>5, Joined
<1> HIDE DEF h
<1>8. PICK n \in Nat, e \in Nat : n = Len(g) /\ e = Ext(lit)
  BY <1>3 DEF Ext
<1>9. Len(f) = n + 1 /\ Len(j) = n + 1 + e /\ Len(h) = n + 1 + e + lit
  BY <1>3, <1>4, <1>7, <1>8
<1>10. Agree(f, h, n + 1) /\ Agree(g, h, n)
  <2>1. Agree(f, h, n + 1)
    <3>1. n + 1 <= n + 1 + e /\ n + 1 \in Int /\ n + 1 + e \in Int
      OBVIOUS
    <3>2. Agree(f, j, n + 1) /\ Agree(j, h, n + 1 + e)
      BY <1>4, <1>7, <1>9
    <3> QED BY <3>1, <3>2, AgreeChain
  <2>2. n <= n + 1 /\ n \in Int /\ n + 1 \in Int /\ Agree(g, f, n)
    BY <1>3, <1>8
  <2> QED BY <2>1, <2>2, AgreeChain
<1>11. h[n + 1] = 16 * InToken(lit) + 0
  <2>1. n + 1 \in 1 .. (n + 1) /\ f[n + 1] = t
    BY <1>3, <1>8
  <2>2. h[n + 1] = t
    BY <1>10, <2>1 DEF Agree
  <2>3. InToken(lit) \in Nat
    BY DEF InToken
  <2> QED BY <1>1, <2>2, <2>3
<1>12. LengthAt(h, n + 1, lit)
  <2>1. LengthAt(j, n + 1, lit) /\ n + 1 \in Nat /\ n + 1 + e \in Nat /\ n + 1 + Ext(lit) <= n + 1 + e
    BY <1>4, <1>8, <1>9
  <2>2. \A k \in (n + 1 + 1) .. (n + 1 + e) : h[k] = j[k]
    BY <1>7, <1>9 DEF Agree
  <2> QED BY <2>1, <2>2, LengthStays
<1>13. Spells(h, n + 1 + e, src, a, lit)
  <2> SUFFICES ASSUME NEW k \in 0 .. (lit - 1) PROVE h[n + 1 + e + k + 1] = src[a + k]
    BY DEF Spells
  <2>1. PICK i \in 1 .. lit : i = k + 1
    OBVIOUS
  <2>2. h[n + 1 + e + i] = b[i] /\ b[i] = src[a + i - 1]
    BY <1>6, <1>7, <1>9
  <2>3. n + 1 + e + i = n + 1 + e + k + 1 /\ a + i - 1 = a + k
    BY <2>1
  <2> QED BY <2>2, <2>3
<1>14. Literals(h, src, Len(g), a, lit, 0)
  BY <1>8, <1>11, <1>12, <1>13 DEF Literals
<1>15. WithLiterals(g, a, lit) = h
  BY DEF WithLiterals, h, b, j, x, f, u, t
<1> QED BY <1>7, <1>8, <1>9, <1>10, <1>14, <1>15

\* A distance is written so that it is read back.
LEMMA DistanceBytes ==
  ASSUME NEW d \in Nat, d < U16_RANGE
  PROVE  LZ4_writeLE16(d)[1] + 256 * LZ4_writeLE16(d)[2] = d
<1>1. U16_RANGE \in Nat /\ U16_RANGE > 0
  BY ConstantFacts
<1>2. d % U16_RANGE = d
  BY <1>1
<1>3. LZ4_writeLE16(d) = <<d % 256, d \div 256>>
  BY <1>2 DEF LZ4_writeLE16
<1>4. (d % 256) + 256 * (d \div 256) = d
  OBVIOUS
<1> QED BY <1>3, <1>4

\* h is g with a match: length mc, distance d, and the token at p.
HasMatch(h, g, p, mc, d) ==
  /\ h \in Seq(Octet) /\ Len(h) = Len(g) + 2 + Ext(mc)
  /\ h[p] = g[p] + InToken(mc)
  /\ \A k \in 1 .. Len(g) : k # p => h[k] = g[k]
  /\ h[Len(g) + 1] + 256 * h[Len(g) + 2] = d
  /\ LengthAt(h, Len(g) + 2, mc)

\* A block g with the match of the sequence whose token is at p.
WithMatch(g, p, mc, d) ==
  ([g EXCEPT ![p] = @ + Min({mc, ML_MASK})] \o LZ4_writeLE16(d))
    \o (IF mc >= 15 THEN LengthBytes(mc - 15) ELSE <<>>)

\* A match is written so that it is read back, and only its token changes.
LEMMA MatchWritten ==
  ASSUME NEW g \in Seq(Octet), NEW p \in 1 .. Len(g), g[p] <= 240, NEW mc \in Nat,
         NEW d \in Nat, d < U16_RANGE
  PROVE  HasMatch(WithMatch(g, p, mc, d), g, p, mc, d)
<1> DEFINE a == [g EXCEPT ![p] = @ + Min({mc, ML_MASK})]
           b == LZ4_writeLE16(d)
           c == a \o b
           h == c \o (IF mc >= 15 THEN LengthBytes(mc - 15) ELSE <<>>)
<1>1. PICK n \in Nat : n = Len(g)
  BY LenProperties
<1>2. PICK y \in 0 .. 15 : y = InToken(mc)
  BY DEF InToken
<1>3. Min({mc, ML_MASK}) = y
  BY <1>2, MinOfTwo DEF ML_MASK, InToken
<1>4. a = [g EXCEPT ![p] = g[p] + y]
  BY <1>3
<1>5. g[p] + y \in Octet
  <2>1. PICK x \in 0 .. 255 : x = g[p]
    BY ElementOfSeq DEF Octet
  <2>2. x <= 240
    BY <2>1
  <2>3. x + y \in 0 .. 255
    BY <2>2
  <2> QED BY ONLY <2>1, <2>3 DEF Octet
<1>6. /\ a \in Seq(Octet) /\ Len(a) = n
      /\ \A k \in 1 .. n : a[k] = IF k = p THEN g[p] + y ELSE g[k]
  <2> HIDE DEF a
  <2>1. a \in Seq(Octet) /\ Len(a) = n
    BY <1>1, <1>4, <1>5, ExceptSeq
  <2>2. DOMAIN g = 1 .. n
    BY <1>1, LenProperties
  <2> QED BY <1>4, <2>1, <2>2
<1> HIDE DEF a
<1>7. b \in Seq(Octet) /\ Len(b) = 2 /\ b[1] + 256 * b[2] = d
  BY WriteLE16Seq, DistanceBytes
<1> HIDE DEF b
<1>8. /\ c \in Seq(Octet) /\ Len(c) = n + 2 /\ Agree(a, c, n)
      /\ \A k \in 1 .. Len(b) : c[n + k] = b[k]
  <2>1. /\ a \o b \in Seq(Octet) /\ Len(a \o b) = Len(a) + Len(b) /\ Agree(a, a \o b, Len(a))
        /\ \A k \in 1 .. Len(b) : (a \o b)[Len(a) + k] = b[k]
    BY <1>6, <1>7, Joined
  <2> QED BY <1>6, <1>7, <2>1
<1> HIDE DEF c
<1>9. /\ h \in Seq(Octet) /\ Len(h) = n + 2 + Ext(mc) /\ Agree(c, h, n + 2) /\ LengthAt(h, n + 2, mc)
  <2>1. /\ h \in Seq(Octet) /\ Len(h) = Len(c) + Ext(mc) /\ Agree(c, h, Len(c)) /\ LengthAt(h, Len(c), mc)
    BY <1>8, LengthWritten
  <2> HIDE DEF h
  <2> QED BY <1>8, <2>1
<1> HIDE DEF h
<1>10. h[n + 1] = b[1] /\ h[n + 2] = b[2]
  <2>1. n + 1 \in 1 .. (n + 2) /\ n + 2 \in 1 .. (n + 2) /\ 1 \in 1 .. 2 /\ 2 \in 1 .. 2
    OBVIOUS
  <2>2. h[n + 1] = c[n + 1] /\ h[n + 2] = c[n + 2]
    BY <1>9, <2>1 DEF Agree
  <2>3. c[n + 1] = b[1] /\ c[n + 2] = b[2]
    BY <1>7, <1>8, <2>1
  <2> QED BY <2>2, <2>3
<1>11. \A k \in 1 .. n : h[k] = IF k = p THEN g[p] + y ELSE g[k]
  <2> TAKE k \in 1 .. n
  <2>1. k \in 1 .. (n + 2)
    OBVIOUS
  <2>2. h[k] = c[k] /\ c[k] = a[k]
    BY <1>8, <1>9, <2>1 DEF Agree
  <2> QED BY <1>6, <2>2
<1>12. h[p] = g[p] + InToken(mc) /\ \A k \in 1 .. Len(g) : k # p => h[k] = g[k]
  BY <1>1, <1>2, <1>11
<1>13. h[n + 1] + 256 * h[n + 2] = d
  BY <1>7, <1>10
<1>14. WithMatch(g, p, mc, d) = h
  BY DEF WithMatch, h, c, b, a
<1> QED BY <1>1, <1>9, <1>12, <1>13, <1>14 DEF HasMatch

-----------------------------------------------------------------------------
(* The block while it is written *)

\* A sequence at <<i, o>>: literals and a match, and where the next one begins.
WholeSequence(g, s, n, B, i, o, F) ==
  \E lit \in Nat, ml \in Nat, off \in Nat :
    /\ Literals(g, s, i, o, lit, InToken(ml))
    /\ MatchAt(g, s, n, i + 1 + Ext(lit) + lit, o + lit, ml, off)
    /\ <<i + 1 + Ext(lit) + lit + 2 + Ext(ml), o + lit + ml + 4>> \in B
    /\ i + 1 + Ext(lit) + lit + 2 + Ext(ml) <= F

\* The first F bytes of the block are sequences that give the first A bytes of
\* the input.
Frontier(g, s, n, B, F, A) ==
  /\ <<0, 0>> \in B /\ <<F, A>> \in B
  /\ (F = 0 /\ A = 0) \/ A + 5 <= n
  /\ \A i, o \in Nat : <<i, o>> \in B =>
       (i = F /\ o = A) \/ (i < F /\ WholeSequence(g, s, n, B, i, o, F))

\* A sequence in what stays.
LEMMA WholeStays ==
  ASSUME NEW g, NEW h, NEW s, NEW n, NEW B, NEW D, NEW i \in Nat, NEW o, NEW F \in Nat, NEW G \in Nat,
         WholeSequence(g, s, n, B, i, o, F), Agree(g, h, F), F <= G, B \subseteq D
  PROVE  WholeSequence(h, s, n, D, i, o, G)
<1>1. PICK lit \in Nat, ml \in Nat, off \in Nat :
        /\ Literals(g, s, i, o, lit, InToken(ml))
        /\ MatchAt(g, s, n, i + 1 + Ext(lit) + lit, o + lit, ml, off)
        /\ <<i + 1 + Ext(lit) + lit + 2 + Ext(ml), o + lit + ml + 4>> \in B
        /\ i + 1 + Ext(lit) + lit + 2 + Ext(ml) <= F
  BY DEF WholeSequence
<1>2. PICK e \in Nat, f \in Nat : e = Ext(lit) /\ f = Ext(ml)
  BY ExtNat
<1>3. i + 1 + e + lit + 2 + f <= F /\ i + 1 + e + lit \in Nat
  BY <1>1, <1>2
<1>4. Literals(h, s, i, o, lit, InToken(ml))
  <2>1. PICK m \in Int : m = InToken(ml)
    BY DEF InToken
  <2>2. i + 1 + Ext(lit) + lit <= F /\ m + 0 = m
    BY <1>2, <1>3
  <2>3. \A k \in (i + 2) .. F : h[k] = g[k]
    BY DEF Agree
  <2>4. h[i + 1] = g[i + 1] + 0
    <3>1. i + 1 \in 1 .. F
      BY <1>3
    <3>2. h[i + 1] = g[i + 1]
      BY <3>1 DEF Agree
    <3>3. g[i + 1] = 16 * InToken(lit) + m
      BY <1>1, <2>1 DEF Literals
    <3>4. InToken(lit) \in Int
      BY DEF InToken
    <3> QED BY <3>2, <3>3, <3>4
  <2>5. Literals(g, s, i, o, lit, m)
    BY <1>1, <2>1
  <2>6. Literals(h, s, i, o, lit, m + 0)
    BY <2>2, <2>3, <2>4, <2>5, LiteralsStay
  <2> QED BY <2>1, <2>2, <2>6
<1>5. MatchAt(h, s, n, i + 1 + Ext(lit) + lit, o + lit, ml, off)
  <2>1. PICK x \in Nat : x = i + 1 + Ext(lit) + lit
    BY <1>2, <1>3
  <2>2. x + 2 + Ext(ml) <= F
    BY <1>2, <1>3, <2>1
  <2>3. MatchAt(g, s, n, x, o + lit, ml, off)
    BY <1>1, <2>1
  <2>4. MatchAt(h, s, n, x, o + lit, ml, off)
    BY <2>2, <2>3, MatchStays
  <2> QED BY <2>1, <2>4
<1>6. <<i + 1 + Ext(lit) + lit + 2 + Ext(ml), o + lit + ml + 4>> \in D
  BY <1>1
<1>7. i + 1 + Ext(lit) + lit + 2 + Ext(ml) <= G
  BY <1>2, <1>3
<1> QED BY <1>4, <1>5, <1>6, <1>7 DEF WholeSequence

\* One sequence more.
LEMMA MoreSequences ==
  ASSUME NEW g, NEW h, NEW s, NEW n \in Nat, NEW B, NEW F \in Nat, NEW A \in Nat,
         Frontier(g, s, n, B, F, A), Agree(g, h, F),
         NEW lit \in Nat, NEW ml \in Nat, NEW off \in Nat,
         Literals(h, s, F, A, lit, InToken(ml)),
         MatchAt(h, s, n, F + 1 + Ext(lit) + lit, A + lit, ml, off),
         NEW G \in Nat, G = F + 1 + Ext(lit) + lit + 2 + Ext(ml),
         NEW C \in Nat, C = A + lit + ml + 4
  PROVE  \E D : Frontier(h, s, n, D, G, C)
<1> DEFINE D == B \cup {<<G, C>>}
<1>1. PICK e \in Nat, f \in Nat : e = Ext(lit) /\ f = Ext(ml)
  BY ExtNat
<1>2. F < G /\ C + 5 <= n
  <2>1. A + lit + ml + 9 <= n
    BY DEF MatchAt
  <2> QED BY <1>1, <2>1
<1>3. <<0, 0>> \in D /\ <<G, C>> \in D /\ B \subseteq D
  BY DEF Frontier
<1>4. WholeSequence(h, s, n, D, F, A, G)
  <2>1. <<F + 1 + Ext(lit) + lit + 2 + Ext(ml), A + lit + ml + 4>> \in D
    BY <1>3
  <2>2. F + 1 + Ext(lit) + lit + 2 + Ext(ml) <= G
    BY <1>1
  <2> HIDE DEF D
  <2> QED BY <2>1, <2>2 DEF WholeSequence
<1>5. ASSUME NEW i \in Nat, NEW o \in Nat, <<i, o>> \in B
      PROVE  i < G /\ WholeSequence(h, s, n, D, i, o, G)
  <2>1. (i = F /\ o = A) \/ (i < F /\ WholeSequence(g, s, n, B, i, o, F))
    BY <1>5 DEF Frontier
  <2>2. CASE i = F /\ o = A
    BY <1>2, <1>4, <2>2
  <2>3. CASE i < F /\ WholeSequence(g, s, n, B, i, o, F)
    <3>1. F <= G
      BY <1>2
    <3> HIDE DEF D
    <3>2. WholeSequence(h, s, n, D, i, o, G)
      BY <1>3, <2>3, <3>1, WholeStays
    <3> QED BY <1>2, <2>3, <3>2
  <2> QED BY <2>1, <2>2, <2>3
<1>6. ASSUME NEW i \in Nat, NEW o \in Nat, <<i, o>> \in D
      PROVE  (i = G /\ o = C) \/ (i < G /\ WholeSequence(h, s, n, D, i, o, G))
  <2>1. <<i, o>> \in B \/ <<i, o>> = <<G, C>>
    BY <1>6
  <2>2. <<i, o>> = <<G, C>> => i = G /\ o = C
    OBVIOUS
  <2> HIDE DEF D
  <2> QED BY <1>5, <2>1, <2>2
<1> HIDE DEF D
<1>7. Frontier(h, s, n, D, G, C)
  BY <1>2, <1>3, <1>6 DEF Frontier
<1> QED BY <1>7

\* The last literals complete the block.
LEMMA Complete ==
  ASSUME NEW g, NEW h, NEW s, NEW n \in Nat, NEW B, NEW F \in Nat, NEW A \in Nat,
         Frontier(g, s, n, B, F, A), Agree(g, h, F),
         NEW lit \in Nat, A + lit = n, Literals(h, s, F, A, lit, 0),
         Len(h) = F + 1 + Ext(lit) + lit
  PROVE  IsBlock(h, s, n, B)
<1>1. PICK e \in Nat : e = Ext(lit)
  BY ExtBound
<1>2. Len(h) = F + 1 + e + lit
  BY <1>1
<1>3. ASSUME NEW i \in Nat, NEW o \in Nat, <<i, o>> \in B
      PROVE  ((i = 0 /\ o = 0) \/ i + 6 <= Len(h)) /\ SequenceAt(h, s, n, B, i, o)
  <2>1. (i = F /\ o = A) \/ (i < F /\ WholeSequence(g, s, n, B, i, o, F))
    BY <1>3 DEF Frontier
  <2>2. (F = 0 /\ A = 0) \/ A + 5 <= n
    BY DEF Frontier
  <2>3. CASE i = F /\ o = A
    <3>1. (i = 0 /\ o = 0) \/ i + 6 <= Len(h)
      BY <1>2, <2>2, <2>3
    <3>2. Followed(h, s, n, B, i + 1 + Ext(lit) + lit, o + lit, 0)
      BY <2>3 DEF Followed
    <3>3. Literals(h, s, i, o, lit, 0) /\ 0 \in 0 .. 15
      BY <2>3
    <3>4. SequenceAt(h, s, n, B, i, o)
      BY <3>2, <3>3 DEF SequenceAt
    <3> QED BY <3>1, <3>4
  <2>4. CASE i < F /\ WholeSequence(g, s, n, B, i, o, F)
    <3>1. WholeSequence(h, s, n, B, i, o, F)
      <4>1. F <= F /\ B \subseteq B
        OBVIOUS
      <4> QED BY <2>4, <4>1, WholeStays
    <3>2. PICK l \in Nat, ml \in Nat, off \in Nat :
            /\ Literals(h, s, i, o, l, InToken(ml))
            /\ MatchAt(h, s, n, i + 1 + Ext(l) + l, o + l, ml, off)
            /\ <<i + 1 + Ext(l) + l + 2 + Ext(ml), o + l + ml + 4>> \in B
            /\ i + 1 + Ext(l) + l + 2 + Ext(ml) <= F
      BY <3>1 DEF WholeSequence
    <3>3. InToken(ml) \in 0 .. 15
      BY DEF InToken
    <3>4. Followed(h, s, n, B, i + 1 + Ext(l) + l, o + l, InToken(ml))
      BY <3>2 DEF Followed
    <3>5. SequenceAt(h, s, n, B, i, o)
      BY <3>2, <3>3, <3>4 DEF SequenceAt
    <3>6. i + 6 <= Len(h)
      BY <1>2, <2>2, <2>4
    <3> QED BY <3>5, <3>6
  <2> QED BY <2>1, <2>3, <2>4
<1>4. <<0, 0>> \in B
  BY DEF Frontier
<1> QED BY <1>3, <1>4 DEF IsBlock

-----------------------------------------------------------------------------
(* The matches the compressor finds are matches *)

\* Every table entry is a position before n.
Below(t, n) == \A h \in Hashes : t[h] < n

\* A table entry keeps the whole of a position where a match may begin.
LEMMA StoredExact ==
  ASSUME SrcInv, NEW p \in Nat, p + 12 <= inputSize
  PROVE  Stored(p) = p
<1>1. inputSize \in Nat /\ U16_RANGE \in Nat
  BY SrcFacts, ConstantFacts
<1>2. CASE tableType = "byU16"
  <2>1. inputSize < U16_RANGE + 11
    BY <1>1, <1>2 DEF tableType, LZ4_64Klimit, MFLIMIT
  <2>2. p < U16_RANGE
    BY <1>1, <2>1
  <2>3. p % U16_RANGE = p
    BY <1>1, <2>2
  <2> QED BY <1>2, <2>3 DEF Stored
<1>3. CASE tableType # "byU16"
  BY <1>3 DEF Stored
<1> QED BY <1>2, <1>3

\* One position more in the table.
LEMMA PutBelow ==
  ASSUME SrcInv, NEW t \in [Hashes -> Nat], NEW p \in Nat, p + 12 <= inputSize, NEW n \in Nat, NEW m \in Nat,
         Below(t, n), n <= m, p < m
  PROVE  Below(LZ4_putPosition(t, p), m)
<1>1. Stored(p) = p
  BY StoredExact
<1>2. LZ4_putPosition(t, p) = [t EXCEPT ![LZ4_hashPosition(p)] = p]
  BY <1>1 DEF LZ4_putPosition
<1>3. ASSUME NEW h \in Hashes
      PROVE  [t EXCEPT ![LZ4_hashPosition(p)] = p][h] < m
  <2>1. PICK x \in Nat : x = t[h] /\ x < n
    BY DEF Below
  <2>2. [t EXCEPT ![LZ4_hashPosition(p)] = p][h] = p \/ [t EXCEPT ![LZ4_hashPosition(p)] = p][h] = x
    BY <2>1
  <2>3. x < m
    BY <2>1
  <2> QED BY <2>2, <2>3
<1> QED BY <1>2, <1>3 DEF Below

\* The distance of a match fits the format.
LEMMA NearEnough ==
  ASSUME SrcInv, NEW c \in Nat, NEW p \in Nat, c < p, p + 12 <= inputSize, ~TooFar(c, p)
  PROVE  p - c \in Nat /\ p - c < U16_RANGE
<1>1. inputSize \in Nat /\ U16_RANGE \in Nat
  BY SrcFacts, ConstantFacts
<1>2. CASE tableType = "byU16"
  <2>1. inputSize < U16_RANGE + 11
    BY <1>1, <1>2 DEF tableType, LZ4_64Klimit, MFLIMIT
  <2> QED BY <1>1, <2>1
<1>3. CASE tableType # "byU16"
  <2>1. ~(c + (U16_RANGE - 1) < p)
    BY <1>3 DEF TooFar, LZ4_DISTANCE_MAX
  <2> QED BY <1>1, <2>1
<1> QED BY <1>2, <1>3

\* Four bytes that compare equal.
LEMMA FourAlike ==
  ASSUME NEW c \in Nat, NEW p \in Nat, LZ4_read32(c) = LZ4_read32(p)
  PROVE  Alike(p, c, 4)
<1> DEFINE x == LZ4_read32(c)
           y == LZ4_read32(p)
<1>1. \A k \in 1 .. 4 : x[k] = src[c + k - 1] /\ y[k] = src[p + k - 1]
  BY DEF LZ4_read32, Bytes
<1>2. x = y
  OBVIOUS
<1> HIDE DEF x, y
<1> SUFFICES ASSUME NEW j \in 0 .. 3 PROVE src[p + j] = src[c + j]
  BY DEF Alike
<1>3. PICK k \in 1 .. 4 : k = j + 1
  OBVIOUS
<1>4. c + k - 1 = c + j /\ p + k - 1 = p + j
  BY <1>3
<1> QED BY <1>1, <1>2, <1>4

\* Every byte a match is extended by to the left is equal.
LEMMA CatchUpAlike ==
  ASSUME NEW p \in Nat, NEW q \in Nat, anchor \in Nat, anchor <= p
  PROVE  LET b == CatchUp(p, q) IN Alike(p - b, q - b, b)
<1> DEFINE n == Min({p - anchor, q})
           S == {k \in 0 .. n : \A j \in 1 .. k : src[p - j] = src[q - j]}
<1>1. n \in Nat /\ n <= p - anchor /\ n <= q
  <2>1. p - anchor \in Int /\ q \in Int
    OBVIOUS
  <2>2. n = IF p - anchor <= q THEN p - anchor ELSE q
    BY <2>1, MinOfTwo
  <2> HIDE DEF n
  <2> QED BY <2>2
<1> HIDE DEF n
<1>2. S \in SUBSET (0 .. n) /\ 0 \in S
  BY <1>1
<1>3. Max(S) \in S
  <2> HIDE DEF S
  <2> QED BY <1>1, <1>2, Greatest
<1>4. CatchUp(p, q) = Max(S)
  BY DEF CatchUp, n
<1>5. PICK b \in Nat : b = CatchUp(p, q) /\ b <= n /\ \A j \in 1 .. b : src[p - j] = src[q - j]
  <2>1. PICK b \in S : b = Max(S)
    BY <1>3
  <2>2. b \in 0 .. n /\ \A j \in 1 .. b : src[p - j] = src[q - j]
    BY <2>1
  <2>3. b \in Nat /\ b <= n
    BY <1>1, <2>2
  <2> HIDE DEF S
  <2> QED BY <1>4, <2>1, <2>2, <2>3
<1>6. ASSUME NEW j \in 0 .. (b - 1)
      PROVE  src[(p - b) + j] = src[(q - b) + j]
  <2>1. PICK i \in 1 .. b : i = b - j
    OBVIOUS
  <2>2. p - i = (p - b) + j /\ q - i = (q - b) + j
    BY <2>1
  <2>3. src[p - i] = src[q - i]
    BY <1>5
  <2> QED BY <2>2, <2>3
<1>7. Alike(p - b, q - b, b)
  BY <1>6 DEF Alike
<1> QED BY <1>5, <1>7

\* A match behind ip, of at least back + 4 bytes, and no entry behind it.
Matching(back) ==
  /\ Below(hashTable, ip + back + 1) /\ ip + back + 12 <= inputSize
  /\ match < ip /\ ip - match < U16_RANGE /\ Alike(ip, match, back + 4)

\* The table only has positions that were passed, and what is found is a match.
MatchInv ==
  /\ cPc = "start" => Below(hashTable, 1)
  /\ cPc = "search" => Below(hashTable, forwardIp)
  /\ cPc = "next" => Below(hashTable, ip)
  /\ cPc \in {"literals", "match"} => \E back \in Nat : Matching(back)

\* Matches are matches, action by action: Start.
LEMMA StartMatches ==
  ASSUME CompressInv, MatchInv, Start
  PROVE  MatchInv'
<1>1. hashTable \in [Hashes -> Nat] /\ SrcInv /\ inputSize \in Nat
  BY SrcFacts DEF CompressInv
<1>2. CASE inputSize >= LZ4_minLength
  <2>1. /\ cPc' = "search" /\ forwardIp' = 1 /\ hashTable' = LZ4_putPosition(hashTable, 0)
    BY <1>1, <1>2 DEF Start, SearchFrom, LZ4_minLength, MFLIMIT
  <2>2. Below(hashTable, 1) /\ 0 + 12 <= inputSize
    BY <1>1, <1>2 DEF MatchInv, Start, LZ4_minLength, MFLIMIT
  <2>3. Below(LZ4_putPosition(hashTable, 0), 1)
    BY <1>1, <2>2, PutBelow
  <2> QED BY <2>1, <2>3 DEF MatchInv, Below
<1>3. CASE ~(inputSize >= LZ4_minLength)
  <2>1. cPc' \in {"returned", "last"}
    BY <1>3 DEF Start, Returns
  <2> QED BY <2>1 DEF MatchInv
<1> QED BY <1>2, <1>3

\* FindMatch.
LEMMA FindMatchMatches ==
  ASSUME CompressInv, MatchInv, FindMatch
  PROVE  MatchInv'
<1> DEFINE h == LZ4_hashPosition(forwardIp)
           candidate == hashTable[h]
           back == CatchUp(forwardIp, candidate)
           missed == TooFar(candidate, forwardIp) \/ LZ4_read32(candidate) # LZ4_read32(forwardIp)
<1>1. /\ hashTable \in [Hashes -> Nat] /\ anchor \in Nat /\ forwardIp \in Nat /\ step \in Nat
      /\ anchor <= forwardIp /\ step >= 1 /\ SrcInv
      /\ Below(hashTable, forwardIp) /\ cPc = "search"
  BY DEF CompressInv, Positions, FindMatch, MatchInv
<1>2. UNCHANGED <<src, anchor>> /\ inputSize' = inputSize /\ inputSize \in Nat
  BY <1>1, SrcFacts DEF FindMatch, inputSize
<1>3. CASE forwardIp + step > mflimitPlusOne
  <2>1. cPc' = "last"
    BY <1>3 DEF FindMatch
  <2> QED BY <2>1 DEF MatchInv
<1>4. CASE ~(forwardIp + step > mflimitPlusOne)
  <2>1. forwardIp + 12 <= inputSize
    BY <1>1, <1>2, <1>4 DEF mflimitPlusOne, MFLIMIT
  <2>2. /\ hashTable' = LZ4_putPosition(hashTable, forwardIp) /\ forwardIp' = forwardIp + step
        /\ IF missed THEN UNCHANGED <<cPc, ip, match>>
           ELSE cPc' = "literals" /\ ip' = forwardIp - back /\ match' = candidate - back
    BY <1>4 DEF FindMatch, LZ4_putPosition
  <2>3. Below(hashTable', forwardIp + 1)
    BY <1>1, <2>1, <2>2, PutBelow
  <2>4. CASE missed
    <3>1. cPc' = "search" /\ forwardIp' = forwardIp + step
      BY <1>1, <2>2, <2>4
    <3>2. hashTable' \in [Hashes -> Nat]
      BY FindMatchKeeps DEF CompressInv
    <3>3. Below(hashTable', forwardIp + step)
      <4> SUFFICES ASSUME NEW k \in Hashes PROVE hashTable'[k] < forwardIp + step
        BY DEF Below
      <4>1. PICK x \in Nat : x = hashTable'[k]
        BY <3>2
      <4>2. x < forwardIp + 1
        BY <2>3, <4>1 DEF Below
      <4> QED BY <1>1, <4>1, <4>2
    <3> QED BY <3>1, <3>3 DEF MatchInv, Below
  <2>5. CASE ~missed
    <3>1. h \in Hashes
      <4>1. forwardIp + 5 <= inputSize
        BY <1>1, <1>2, <2>1
      <4> QED BY <1>1, <4>1, SrcFacts
    <3> HIDE DEF h
    <3>2. PICK c \in Nat : c = candidate /\ c < forwardIp
      BY <1>1, <3>1 DEF Below
    <3> HIDE DEF candidate
    <3>3. forwardIp - c \in Nat /\ forwardIp - c < U16_RANGE
      BY <1>1, <2>1, <2>5, <3>2, NearEnough
    <3>4. PICK b \in Nat : b = CatchUp(forwardIp, c) /\ b <= forwardIp - anchor /\ b <= c
      BY <1>1, <3>2, CatchUpBound
    <3>5. cPc' = "literals" /\ ip' = forwardIp - b /\ match' = c - b
      BY <2>2, <2>5, <3>2, <3>4
    <3>6. Alike(forwardIp - b, c - b, b + 4)
      <4>1. PICK p \in Nat, q \in Nat : p = forwardIp - b /\ q = c - b
        BY <1>1, <3>4
      <4>2. Alike(p, q, b)
        BY <1>1, <3>2, <3>4, <4>1, CatchUpAlike
      <4>3. Alike(forwardIp, c, 4) /\ forwardIp = p + b /\ c = q + b
        BY <1>1, <2>5, <3>2, <4>1, FourAlike
      <4>4. Alike(p, q, b + 4)
        BY <4>2, <4>3, AlikeSum
      <4> QED BY <4>1, <4>4
    <3>7. PICK i \in Nat, m \in Nat : ip' = i /\ match' = m /\ i = forwardIp - b /\ m = c - b
      BY <1>1, <3>4, <3>5
    <3>8. i + b + 1 = forwardIp + 1 /\ i + b + 12 <= inputSize /\ m < i /\ i - m < U16_RANGE
      BY <1>1, <1>2, <2>1, <3>2, <3>3, <3>7, ConstantFacts
    <3>9. Alike(i, m, b + 4)
      BY <3>6, <3>7
    <3>10. Matching(b)'
      <4>1. Below(hashTable', i + b + 1)
        BY <2>3, <3>8
      <4>2. \A j \in 0 .. (b + 4 - 1) : src'[i + j] = src'[m + j]
        BY <1>2, <3>9 DEF Alike
      <4> QED BY <1>2, <3>7, <3>8, <4>1, <4>2 DEF Matching, Below, Alike
    <3> QED BY <3>5, <3>10 DEF MatchInv
  <2> QED BY <2>4, <2>5
<1> QED BY <1>3, <1>4

\* EncodeLiterals.
LEMMA EncodeLiteralsMatches ==
  ASSUME CompressInv, MatchInv, EncodeLiterals
  PROVE  MatchInv'
<1>1. UNCHANGED <<src, hashTable, ip, match>> /\ inputSize' = inputSize
  BY DEF EncodeLiterals, inputSize
<1>2. cPc' \in {"returned", "match"}
  BY DEF EncodeLiterals, Returns
<1>3. PICK back \in Nat : Matching(back)
  BY DEF MatchInv, EncodeLiterals
<1>4. Matching(back)'
  BY <1>1, <1>3 DEF Matching, Below, Alike
<1> QED BY <1>2, <1>4 DEF MatchInv

\* What EncodeMatch writes is a match, and covers every entry of the table.
LEMMA CountedMatch ==
  ASSUME CompressInv, cPc = "match", NEW back \in Nat, Matching(back)
  PROVE  LET mc == LZ4_count(ip + MINMATCH, match + MINMATCH, matchlimit)
         IN  /\ mc \in Nat /\ ip + mc + 9 <= inputSize /\ back <= mc
             /\ Alike(ip, match, mc + 4) /\ ip + 12 <= inputSize
<1>1. /\ SrcInv /\ inputSize \in Nat /\ ip \in Nat /\ match \in Nat
  BY SrcFacts DEF CompressInv
<1>2. ip + back + 12 <= inputSize /\ match < ip /\ Alike(ip, match, back + 4)
  BY DEF Matching
<1>3. PICK p \in Nat, q \in Nat, z \in Int : p = ip + 4 /\ q = match + 4 /\ z = inputSize - 5
  BY <1>1
<1> DEFINE mc == LZ4_count(p, q, z)
<1>4. p <= z /\ z <= inputSize /\ p + back <= z
  BY <1>1, <1>2, <1>3
<1>5. Alike(p, q, back)
  <2>1. 4 + back <= back + 4 /\ back + 4 \in Nat
    OBVIOUS
  <2>2. Alike(ip + 4, match + 4, back)
    BY <1>1, <1>2, <2>1, AlikeTail
  <2> QED BY <1>3, <2>2
<1>6. mc \in Nat /\ p + mc <= z
  BY <1>1, <1>4, CountBound
<1>7. Alike(p, q, mc) /\ back <= mc
  BY <1>1, <1>4, <1>5, CountExact
<1> HIDE DEF mc
<1>8. Alike(ip, match, 4)
  <2>1. 0 + 4 <= back + 4 /\ back + 4 \in Nat
    OBVIOUS
  <2>2. Alike(ip + 0, match + 0, 4)
    BY <1>1, <1>2, <2>1, AlikeTail
  <2>3. ip + 0 = ip /\ match + 0 = match
    BY <1>1
  <2> QED BY <2>2, <2>3
<1>9. Alike(ip, match, 4 + mc)
  <2>1. Alike(ip + 4, match + 4, mc)
    BY <1>3, <1>7
  <2> QED BY <1>1, <1>6, <1>8, <2>1, AlikeSum
<1>10. 4 + mc = mc + 4 /\ ip + mc + 9 <= inputSize /\ ip + 12 <= inputSize
  BY <1>1, <1>2, <1>3, <1>6
<1>11. mc = LZ4_count(ip + MINMATCH, match + MINMATCH, matchlimit)
  BY <1>3 DEF mc, MINMATCH, matchlimit, LASTLITERALS
<1> QED BY <1>6, <1>7, <1>9, <1>10, <1>11

\* EncodeMatch: the table stays behind the end of the match.
LEMMA EncodeMatchMatches ==
  ASSUME CompressInv, MatchInv, EncodeMatch
  PROVE  MatchInv'
<1> DEFINE mc == LZ4_count(ip + MINMATCH, match + MINMATCH, matchlimit)
<1>1. hashTable' = hashTable /\ hashTable \in [Hashes -> Nat] /\ ip \in Nat
  BY DEF EncodeMatch, CompressInv
<1>2. PICK back \in Nat : Matching(back)
  BY DEF MatchInv, EncodeMatch
<1>3. mc \in Nat /\ back <= mc
  BY <1>2, CountedMatch DEF EncodeMatch
<1>4. cPc' = "returned" \/ (cPc' \in {"last", "next"} /\ ip' = ip + MINMATCH + mc)
  BY DEF EncodeMatch, Returns
<1> HIDE DEF mc
<1>5. CASE cPc' = "returned"
  BY <1>5 DEF MatchInv
<1>6. CASE cPc' \in {"last", "next"} /\ ip' = ip + MINMATCH + mc
  <2>1. PICK e \in Nat : ip' = e /\ ip + back + 1 <= e
    BY <1>1, <1>3, <1>6 DEF MINMATCH
  <2>2. ASSUME NEW h \in Hashes
        PROVE  hashTable'[h] < e
    <3>1. PICK x \in Nat : x = hashTable[h]
      BY <1>1
    <3>2. x < ip + back + 1
      BY <1>2, <3>1 DEF Matching, Below
    <3> QED BY <1>1, <2>1, <3>1, <3>2
  <2> QED BY <1>6, <2>1, <2>2 DEF MatchInv, Below
<1> QED BY <1>4, <1>5, <1>6

\* TestNextPosition.
LEMMA TestNextPositionMatches ==
  ASSUME CompressInv, MatchInv, TestNextPosition
  PROVE  MatchInv'
<1> DEFINE table == LZ4_putPosition(hashTable, ip - 2)
           candidate == table[LZ4_hashPosition(ip)]
           found == ~TooFar(candidate, ip) /\ LZ4_read32(candidate) = LZ4_read32(ip)
<1>1. /\ hashTable \in [Hashes -> Nat] /\ ip \in Nat /\ ip + 12 <= inputSize /\ ip >= 4 /\ SrcInv
      /\ Below(hashTable, ip)
  BY DEF CompressInv, Positions, TestNextPosition, MatchInv
<1>2. UNCHANGED src /\ inputSize' = inputSize /\ inputSize \in Nat
  BY <1>1, SrcFacts DEF TestNextPosition, inputSize
<1>3. /\ hashTable' = LZ4_putPosition(table, ip)
      /\ IF found THEN match' = candidate /\ cPc' = "match" /\ ip' = ip
         ELSE cPc' = "search" /\ forwardIp' = ip + 1
  BY DEF TestNextPosition, SearchFrom
<1>4. table \in [Hashes -> Nat] /\ Below(table, ip) /\ LZ4_hashPosition(ip) \in Hashes
  <2>1. PICK p \in Nat : p = ip - 2 /\ p + 5 <= inputSize /\ p + 12 <= inputSize /\ p < ip /\ ip + 5 <= inputSize
    BY <1>1, <1>2
  <2>2. table = LZ4_putPosition(hashTable, p)
    BY <2>1
  <2> HIDE DEF table
  <2>3. table \in [Hashes -> Nat]
    BY <1>1, <2>1, <2>2, PutPosition
  <2>4. Below(table, ip)
    BY <1>1, <2>1, <2>2, PutBelow
  <2> QED BY <1>1, <2>1, <2>3, <2>4, SrcFacts
<1> HIDE DEF table
<1>5. Below(hashTable', ip + 1)
  BY <1>1, <1>3, <1>4, PutBelow
<1>6. PICK c \in Nat : c = candidate /\ c < ip
  BY <1>4 DEF Below
<1> HIDE DEF candidate
<1>7. CASE found
  <2>1. match' = c /\ cPc' = "match" /\ ip' = ip
    BY <1>3, <1>6, <1>7
  <2>2. ip - c < U16_RANGE
    BY <1>1, <1>6, <1>7, NearEnough
  <2>3. Alike(ip, c, 4)
    BY <1>1, <1>6, <1>7, FourAlike
  <2>4. ip + 0 + 1 = ip + 1 /\ ip + 0 + 12 <= inputSize /\ 0 + 4 = 4
    BY <1>1, <1>2
  <2>5. \A j \in 0 .. (4 - 1) : src'[ip + j] = src'[c + j]
    BY <1>2, <2>3 DEF Alike
  <2>6. Matching(0)'
    BY <1>2, <1>5, <1>6, <2>1, <2>2, <2>4, <2>5 DEF Matching, Below, Alike
  <2> QED BY <2>1, <2>6 DEF MatchInv
<1>8. CASE ~found
  <2>1. cPc' = "search" /\ forwardIp' = ip + 1
    BY <1>3, <1>8
  <2> QED BY <1>5, <2>1 DEF MatchInv, Below
<1> QED BY <1>7, <1>8

\* Every step of the compressor.
LEMMA CompressMatches ==
  ASSUME CompressInv, MatchInv, LZ4_compress_fast
  PROVE  MatchInv'
<1>1. ASSUME LastLiterals PROVE MatchInv'
  <2>1. cPc' = "returned"
    BY <1>1 DEF LastLiterals, Returns
  <2> QED BY <2>1 DEF MatchInv
<1> QED BY <1>1, StartMatches, FindMatchMatches, EncodeLiteralsMatches, EncodeMatchMatches,
        TestNextPositionMatches DEF LZ4_compress_fast

-----------------------------------------------------------------------------
(* The compressor writes a block *)

\* The block so far, up to its byte F, is that of the input before its byte A.
Written(F, A) == \E B : Frontier(out, src, inputSize, B, F, A)

\* What is written encodes the input before the anchor; a result is a whole block.
WriteInv ==
  /\ cPc \in {"search", "literals", "next", "last"} => Written(Len(out), anchor)
  /\ cPc = "match" => /\ Written(token - 1, anchor)
                      /\ Literals(out, src, token - 1, anchor, ip - anchor, 0)
                      /\ Len(out) = token + Ext(ip - anchor) + (ip - anchor)
  /\ cPc = "returned" /\ result > 0 =>
       result = Len(out) /\ \E B : IsBlock(out, src, inputSize, B)
  /\ cPc = "returned" /\ ~limitedOutput => result > 0

\* Nothing is written.
LEMMA EmptyFrontier ==
  ASSUME NEW g, NEW s, NEW n
  PROVE  Frontier(g, s, n, {<<0, 0>>}, 0, 0)
<1> DEFINE B == {<<0, 0>>}
<1>1. \A i, o \in Nat : <<i, o>> \in B => i = 0 /\ o = 0
  OBVIOUS
<1>2. <<0, 0>> \in B
  OBVIOUS
<1> HIDE DEF B
<1>3. Frontier(g, s, n, B, 0, 0)
  BY <1>1, <1>2 DEF Frontier
<1> QED BY <1>3 DEF B

\* Steps that write nothing.
LEMMA WrittenStays ==
  ASSUME NEW F, NEW A, Written(F, A), UNCHANGED <<src, out>>
  PROVE  Written(F, A)'
<1>1. inputSize' = inputSize
  BY DEF inputSize
<1>2. PICK B : Frontier(out, src, inputSize, B, F, A)
  BY DEF Written
<1>3. Frontier(out', src', inputSize', B, F, A)
  BY <1>1, <1>2
<1> QED BY <1>3 DEF Written

\* The block grows, action by action: Start, and the block of the empty input.
LEMMA StartWrites ==
  ASSUME CompressInv, Start
  PROVE  WriteInv'
<1>1. /\ SrcInv /\ inputSize \in Nat /\ out = <<>> /\ anchor = 0 /\ Len(out) = 0
  BY SrcFacts DEF CompressInv, Positions, Start
<1>2. UNCHANGED <<src, dstCapacity, anchor>> /\ inputSize' = inputSize
  BY DEF Start, inputSize
<1>3. limitedOutput' = limitedOutput
  BY <1>2 DEF limitedOutput
<1>4. CASE /\ inputSize = 0
           /\ IF limitedOutput /\ dstCapacity <= 0 THEN Returns(0) /\ UNCHANGED out
              ELSE Returns(1) /\ out' = <<0>>
  <2>1. CASE limitedOutput /\ dstCapacity <= 0
    <3>1. cPc' = "returned" /\ result' = 0
      BY <1>4, <2>1 DEF Returns
    <3> QED BY <1>3, <2>1, <3>1 DEF WriteInv
  <2>2. CASE ~(limitedOutput /\ dstCapacity <= 0)
    <3>1. cPc' = "returned" /\ result' = 1 /\ out' = <<0>>
      BY <1>4, <2>2 DEF Returns
    <3> DEFINE h == <<0>>
               B == {<<0, 0>>}
    <3>2. Len(h) = 1 /\ h[1] = 0
      OBVIOUS
    <3> HIDE DEF h
    <3>3. Frontier(h, src, 0, B, 0, 0)
      BY EmptyFrontier
    <3> HIDE DEF B
    <3>4. Agree(h, h, 0) /\ Ext(0) = 0 /\ InToken(0) = 0
      BY DEF Agree, Ext, InToken
    <3>5. Literals(h, src, 0, 0, 0, 0)
      <4>1. h[0 + 1] = 16 * InToken(0) + 0
        BY <3>2, <3>4
      <4>2. LengthAt(h, 0 + 1, 0) /\ Spells(h, 0 + 1 + Ext(0), src, 0, 0)
        BY DEF LengthAt, Spells
      <4> QED BY <4>1, <4>2 DEF Literals
    <3>6. Len(h) = 0 + 1 + Ext(0) + 0 /\ 0 + 0 = 0
      BY <3>2, <3>4
    <3>7. IsBlock(h, src, 0, B)
      BY <3>3, <3>4, <3>5, <3>6, Complete
    <3>8. IsBlock(out', src', inputSize', B) /\ result' = Len(out')
      BY <1>2, <1>4, <3>1, <3>2, <3>7 DEF h
    <3> QED BY <3>1, <3>8 DEF WriteInv
  <2> QED BY <2>1, <2>2
<1>5. CASE cPc' \in {"last", "search"} /\ out' = out
  <2>1. Frontier(out', src', inputSize', {<<0, 0>>}, Len(out'), anchor')
    <3>1. Len(out') = 0 /\ anchor' = 0
      BY <1>1, <1>2, <1>5
    <3>2. Frontier(out', src', inputSize', {<<0, 0>>}, 0, 0)
      BY EmptyFrontier
    <3> QED BY <3>1, <3>2
  <2>2. Written(Len(out), anchor)'
    BY <2>1 DEF Written
  <2> QED BY <1>5, <2>2 DEF WriteInv
<1> QED BY <1>4, <1>5 DEF Start, SearchFrom

\* FindMatch.
LEMMA FindMatchWrites ==
  ASSUME CompressInv, WriteInv, FindMatch
  PROVE  WriteInv'
<1>1. cPc' \in {"search", "literals", "last"} /\ UNCHANGED <<src, out, anchor>> /\ cPc = "search"
  BY DEF FindMatch
<1>2. Written(Len(out), anchor)
  BY <1>1 DEF WriteInv
<1>3. PICK F, A : F = Len(out) /\ A = anchor
  OBVIOUS
<1>4. Written(F, A)'
  BY <1>1, <1>2, <1>3, WrittenStays
<1>5. Written(Len(out), anchor)'
  BY <1>1, <1>3, <1>4 DEF Written
<1> QED BY <1>1, <1>5 DEF WriteInv

\* What is written behind the first F bytes changes nothing before.
LEMMA FrontierStays ==
  ASSUME NEW g, NEW h, NEW s, NEW n, NEW B, NEW F \in Nat, NEW A, Frontier(g, s, n, B, F, A), Agree(g, h, F)
  PROVE  Frontier(h, s, n, B, F, A)
<1>1. ASSUME NEW i \in Nat, NEW o \in Nat, <<i, o>> \in B
      PROVE  (i = F /\ o = A) \/ (i < F /\ WholeSequence(h, s, n, B, i, o, F))
  <2>1. (i = F /\ o = A) \/ (i < F /\ WholeSequence(g, s, n, B, i, o, F))
    BY <1>1 DEF Frontier
  <2>2. F <= F /\ B \subseteq B
    OBVIOUS
  <2> QED BY <2>1, <2>2, WholeStays
<1> QED BY <1>1 DEF Frontier

\* EncodeLiterals.
LEMMA EncodeLiteralsWrites ==
  ASSUME CompressInv, WriteInv, EncodeLiterals
  PROVE  WriteInv'
<1> DEFINE n == ip - anchor
<1>1. /\ SrcInv /\ inputSize \in Nat /\ out \in Seq(Octet) /\ anchor \in Nat /\ ip \in Nat
      /\ anchor <= ip /\ ip + 12 <= inputSize /\ cPc = "literals" /\ Written(Len(out), anchor)
  BY SrcFacts DEF CompressInv, Positions, EncodeLiterals, WriteInv
<1>2. UNCHANGED <<src, dstCapacity, anchor, ip>> /\ inputSize' = inputSize
  BY DEF EncodeLiterals, inputSize
<1>3. limitedOutput' = limitedOutput
  BY <1>2 DEF limitedOutput
<1>4. CASE limitedOutput /\ ~LiteralsFit(n)
  <2>1. cPc' = "returned" /\ result' = 0
    BY <1>4 DEF EncodeLiterals, Returns
  <2> QED BY <1>3, <1>4, <2>1 DEF WriteInv
<1>5. CASE ~(limitedOutput /\ ~LiteralsFit(n))
  <2>1. /\ out' = out \o <<16 * Min({n, RUN_MASK})>>
                      \o (IF n >= RUN_MASK THEN LengthBytes(n - RUN_MASK) ELSE <<>>)
                      \o Bytes(anchor, n)
        /\ token' = Len(out) + 1 /\ cPc' = "match"
    BY <1>5 DEF EncodeLiterals, op
  <2>2. PICK lit \in Nat : lit = n /\ anchor + lit <= inputSize
    BY <1>1
  <2>3. PICK F \in Nat : F = Len(out)
    BY <1>1, LenProperties
  <2>4. /\ Len(out') = F + 1 + Ext(lit) + lit /\ Agree(out, out', F)
        /\ Literals(out', src, F, anchor, lit, 0)
    <3> DEFINE h == WithLiterals(out, anchor, lit)
    <3>1. out' = h
      BY <2>1, <2>2 DEF WithLiterals
    <3>2. SrcInv /\ out \in Seq(Octet) /\ anchor \in Nat /\ anchor + lit <= inputSize
      BY <1>1, <2>2
    <3>3. /\ h \in Seq(Octet) /\ Len(h) = Len(out) + 1 + Ext(lit) + lit
          /\ Agree(out, h, Len(out)) /\ Literals(h, src, Len(out), anchor, lit, 0)
      BY ONLY <3>2, lit \in Nat, LiteralsWritten
    <3> HIDE DEF h
    <3> QED BY <2>3, <3>1, <3>3
  <2>5. PICK B : Frontier(out, src, inputSize, B, F, anchor)
    BY <1>1, <2>3 DEF Written
  <2>6. Frontier(out', src', inputSize', B, F, anchor)
    BY <1>1, <1>2, <2>4, <2>5, FrontierStays
  <2>7. token' - 1 = F /\ (ip - anchor)' = lit /\ anchor' = anchor /\ token' = F + 1
    BY <1>2, <2>1, <2>2, <2>3
  <2>8. Written(token - 1, anchor)'
    BY <2>6, <2>7 DEF Written
  <2>9. Literals(out', src', token' - 1, anchor', ip' - anchor', 0)
    BY <1>2, <2>4, <2>7
  <2>10. Len(out') = token' + Ext(ip' - anchor') + (ip' - anchor')
    BY <2>4, <2>7
  <2> QED BY <2>1, <2>8, <2>9, <2>10 DEF WriteInv
<1> QED BY <1>4, <1>5

\* EncodeMatch completes a sequence.
LEMMA EncodeMatchWrites ==
  ASSUME CompressInv, MatchInv, WriteInv, EncodeMatch
  PROVE  WriteInv'
<1> DEFINE count == LZ4_count(ip + MINMATCH, match + MINMATCH, matchlimit)
           refused == limitedOutput /\ op + 2 + (1 + LASTLITERALS) + ((count + 240) \div 255) > dstCapacity
<1>1. /\ SrcInv /\ inputSize \in Nat /\ out \in Seq(Octet) /\ anchor \in Nat /\ ip \in Nat /\ match \in Nat
      /\ anchor <= ip /\ token \in 1 .. Len(out) /\ out[token] <= 240 /\ cPc = "match"
      /\ Written(token - 1, anchor) /\ Literals(out, src, token - 1, anchor, ip - anchor, 0)
      /\ Len(out) = token + Ext(ip - anchor) + (ip - anchor) /\ token \in Nat
  BY SrcFacts DEF CompressInv, Positions, EncodeMatch, WriteInv
<1>2. UNCHANGED <<src, dstCapacity>> /\ inputSize' = inputSize
  BY DEF EncodeMatch, inputSize
<1>3. limitedOutput' = limitedOutput
  BY <1>2 DEF limitedOutput
<1>4. CASE refused
  <2>1. cPc' = "returned" /\ result' = 0
    BY <1>4 DEF EncodeMatch, Returns
  <2> QED BY <1>3, <1>4, <2>1 DEF WriteInv
<1>5. CASE ~refused
  <2>1. PICK back \in Nat : Matching(back)
    BY <1>1 DEF MatchInv
  <2>2. PICK mc \in Nat : /\ mc = count /\ ip + mc + 9 <= inputSize /\ Alike(ip, match, mc + 4)
                          /\ ip + 12 <= inputSize
    BY <1>1, <2>1, CountedMatch
  <2>3. /\ out' = ([out EXCEPT ![token] = @ + Min({count, ML_MASK})] \o LZ4_writeLE16(ip - match))
                    \o (IF count - ML_MASK >= 0 THEN LengthBytes(count - ML_MASK) ELSE <<>>)
        /\ anchor' = ip + MINMATCH + count /\ cPc' \in {"last", "next"}
    BY <1>5 DEF EncodeMatch
  <2> HIDE DEF count
  <2>4. PICK off \in Nat : off = ip - match /\ off > 0 /\ off <= ip /\ off < U16_RANGE
    BY <1>1, <2>1, ConstantFacts DEF Matching
  <2>5. PICK lit \in Nat, F \in Nat, e \in Nat, f \in Nat, L \in Nat :
          lit = ip - anchor /\ F = token - 1 /\ e = Ext(lit) /\ f = Ext(mc) /\ L = Len(out)
    <3>1. ip - anchor \in Nat /\ token - 1 \in Nat /\ Len(out) \in Nat
      BY <1>1, LenProperties
    <3>2. PICK lit \in Nat : lit = ip - anchor
      BY <3>1
    <3>3. Ext(lit) \in Nat /\ Ext(mc) \in Nat
      BY ExtNat
    <3> QED BY <3>1, <3>2, <3>3
  <2>6. token = F + 1 /\ L = F + 1 + e + lit
    BY <1>1, <2>5
  <2>7. out' = WithMatch(out, token, mc, off)
    <3>1. mc - 15 >= 0 <=> mc >= 15
      OBVIOUS
    <3>2. out' = ([out EXCEPT ![token] = @ + Min({mc, ML_MASK})] \o LZ4_writeLE16(off))
                 \o (IF mc - 15 >= 0 THEN LengthBytes(mc - 15) ELSE <<>>)
      BY <2>2, <2>3, <2>4 DEF ML_MASK
    <3> QED BY <3>1, <3>2 DEF WithMatch
  <2>8. /\ out' \in Seq(Octet) /\ Len(out') = L + 2 + f
        /\ out'[token] = out[token] + InToken(mc)
        /\ \A k \in 1 .. L : k # token => out'[k] = out[k]
        /\ out'[L + 1] + 256 * out'[L + 2] = off
        /\ LengthAt(out', L + 2, mc)
    <3> DEFINE h == WithMatch(out, token, mc, off)
    <3>1. HasMatch(h, out, token, mc, off)
      <4>1. out \in Seq(Octet) /\ token \in 1 .. Len(out) /\ out[token] <= 240
        BY <1>1
      <4>2. off < U16_RANGE
        BY <2>4
      <4> QED BY ONLY <4>1, <4>2, off \in Nat, mc \in Nat, MatchWritten
    <3>2. out' = h
      BY <2>7
    <3> HIDE DEF h
    <3> QED BY <2>5, <3>1, <3>2 DEF HasMatch
  <2>9. Agree(out, out', F)
    <3>1. \A k \in 1 .. F : k \in 1 .. L /\ k # token
      BY <2>6
    <3> QED BY <2>8, <3>1 DEF Agree
  <2>10. Literals(out', src, F, anchor, lit, InToken(mc))
    <3>1. PICK m \in Int : m = InToken(mc)
      BY DEF InToken
    <3>2. F + 1 + Ext(lit) + lit <= L /\ 0 + m = m
      BY <2>5, <2>6
    <3>3. \A k \in (F + 2) .. L : k \in 1 .. L /\ k # token
      BY <2>6
    <3>4. \A k \in (F + 2) .. L : out'[k] = out[k]
      BY <2>8, <3>3
    <3>5. out'[F + 1] = out[F + 1] + m
      BY <2>6, <2>8, <3>1
    <3>6. Literals(out, src, F, anchor, lit, 0)
      BY <1>1, <2>5
    <3>7. Literals(out', src, F, anchor, lit, 0 + m)
      BY <3>2, <3>4, <3>5, <3>6, LiteralsStay
    <3> QED BY <3>1, <3>2, <3>7
  <2>11. anchor + lit = ip /\ F + 1 + Ext(lit) + lit = L
    BY <1>1, <2>5, <2>6
  <2>12. MatchAt(out', src, inputSize, L, ip, mc, off)
    <3>1. Recurs(src, ip, off, mc + 4)
      <4> SUFFICES ASSUME NEW k \in 0 .. (mc + 4 - 1) PROVE src[ip + k] = src[ip + k - off]
        BY DEF Recurs
      <4>1. src[ip + k] = src[match + k]
        BY <2>2 DEF Alike
      <4>2. match + k = ip + k - off
        BY <1>1, <2>4
      <4> QED BY <4>1, <4>2
    <3> QED BY <2>2, <2>4, <2>8, <3>1 DEF MatchAt
  <2>13. PICK G \in Nat, C \in Nat :
           /\ G = F + 1 + Ext(lit) + lit + 2 + Ext(mc) /\ C = anchor + lit + mc + 4
           /\ G = Len(out') /\ C = anchor'
    <3>1. L + 2 + f \in Nat /\ ip + mc + 4 \in Nat /\ ip + 4 + mc = ip + mc + 4
      BY <1>1
    <3>2. L + 2 + f = F + 1 + Ext(lit) + lit + 2 + Ext(mc)
      BY <2>5, <2>6
    <3>3. ip + mc + 4 = anchor + lit + mc + 4
      BY <2>11
    <3>4. anchor' = ip + mc + 4
      BY <2>2, <2>3, <3>1 DEF MINMATCH
    <3> QED BY <2>8, <3>1, <3>2, <3>3, <3>4
  <2>14. PICK B : Frontier(out, src, inputSize, B, F, anchor)
    BY <1>1, <2>5 DEF Written
  <2>15. MatchAt(out', src, inputSize, F + 1 + Ext(lit) + lit, anchor + lit, mc, off)
    BY <2>11, <2>12
  <2>16. PICK D : Frontier(out', src, inputSize, D, G, C)
    BY <1>1, <2>9, <2>10, <2>13, <2>14, <2>15, MoreSequences
  <2>17. Frontier(out', src', inputSize', D, Len(out'), anchor')
    BY <1>2, <2>13, <2>16
  <2>18. Written(Len(out), anchor)'
    BY <2>17 DEF Written
  <2> QED BY <2>3, <2>18 DEF WriteInv
<1> QED BY <1>4, <1>5

\* TestNextPosition: a sequence without literals begins.
LEMMA TestNextPositionWrites ==
  ASSUME CompressInv, WriteInv, TestNextPosition
  PROVE  WriteInv'
<1>1. /\ out \in Seq(Octet) /\ anchor \in Nat /\ ip = anchor /\ cPc = "next" /\ Written(Len(out), anchor)
  BY DEF CompressInv, Positions, TestNextPosition, WriteInv
<1>2. UNCHANGED <<src, dstCapacity, anchor>> /\ inputSize' = inputSize
  BY DEF TestNextPosition, inputSize
<1>3. PICK F \in Nat, A \in Nat : F = Len(out) /\ A = anchor
  BY <1>1, LenProperties
<1>4. CASE out' = Append(out, 0) /\ token' = op + 1 /\ cPc' = "match" /\ ip' = ip
  <2>1. /\ out' \in Seq(Octet) /\ Len(out') = F + 1 /\ out'[F + 1] = 0 /\ Agree(out, out', F)
    <3>1. 0 \in Octet
      BY DEF Octet
    <3>2. /\ out' \in Seq(Octet) /\ Len(out') = F + 1 /\ out'[F + 1] = 0
          /\ \A k \in 1 .. F : out'[k] = out[k]
      BY <1>1, <1>3, <1>4, <3>1, AppendProperties
    <3> QED BY <3>2 DEF Agree
  <2>2. PICK B : Frontier(out, src, inputSize, B, F, A)
    BY <1>1, <1>3 DEF Written
  <2>3. Frontier(out', src', inputSize', B, F, A)
    BY <1>2, <2>1, <2>2, FrontierStays
  <2>4. Literals(out', src', F, A, 0, 0)
    <3>1. InToken(0) = 0
      BY DEF InToken
    <3>2. out'[F + 1] = 16 * InToken(0) + 0
      BY <2>1, <3>1
    <3>3. LengthAt(out', F + 1, 0) /\ Spells(out', F + 1 + Ext(0), src', A, 0)
      BY DEF LengthAt, Spells
    <3> QED BY <3>2, <3>3 DEF Literals
  <2>5. token' = F + 1 /\ token' - 1 = F /\ anchor' = A /\ ip' - anchor' = 0 /\ Ext(0) = 0
    BY <1>1, <1>2, <1>3, <1>4 DEF op, Ext
  <2>6. Written(token - 1, anchor)'
    BY <2>3, <2>5 DEF Written
  <2>7. Literals(out', src', token' - 1, anchor', ip' - anchor', 0)
    BY <2>4, <2>5
  <2>8. Len(out') = token' + Ext(ip' - anchor') + (ip' - anchor')
    BY <2>1, <2>5
  <2> QED BY <1>4, <2>6, <2>7, <2>8 DEF WriteInv
<1>5. CASE cPc' = "search" /\ out' = out
  <2>1. Written(F, A)'
    BY <1>1, <1>2, <1>3, <1>5, WrittenStays
  <2>2. Written(Len(out), anchor)'
    BY <1>2, <1>3, <1>5, <2>1 DEF Written
  <2> QED BY <1>5, <2>2 DEF WriteInv
<1> QED BY <1>4, <1>5 DEF TestNextPosition, SearchFrom

\* LastLiterals completes the block.
LEMMA LastLiteralsWrites ==
  ASSUME CompressInv, WriteInv, LastLiterals
  PROVE  WriteInv'
<1> DEFINE n == inputSize - anchor
<1>1. /\ SrcInv /\ inputSize \in Nat /\ out \in Seq(Octet) /\ anchor \in Nat
      /\ anchor <= inputSize /\ Written(Len(out), anchor)
  BY SrcFacts DEF CompressInv, Positions, LastLiterals, WriteInv
<1>2. UNCHANGED <<src, dstCapacity>> /\ inputSize' = inputSize
  BY DEF LastLiterals, inputSize
<1>3. limitedOutput' = limitedOutput
  BY <1>2 DEF limitedOutput
<1>4. CASE limitedOutput /\ ~LastRunFits(n)
  <2>1. cPc' = "returned" /\ result' = 0
    BY <1>4 DEF LastLiterals, Returns
  <2> QED BY <1>3, <1>4, <2>1 DEF WriteInv
<1>5. CASE ~(limitedOutput /\ ~LastRunFits(n))
  <2>1. /\ out' = out \o <<16 * Min({n, RUN_MASK})>>
                      \o (IF n >= RUN_MASK THEN LengthBytes(n - RUN_MASK) ELSE <<>>)
                      \o Bytes(anchor, n)
        /\ cPc' = "returned" /\ result' = Len(out')
    BY <1>5 DEF LastLiterals, Returns
  <2>2. PICK lit \in Nat : lit = n /\ anchor + lit = inputSize /\ anchor + lit <= inputSize
    BY <1>1
  <2>3. PICK F \in Nat : F = Len(out)
    BY <1>1, LenProperties
  <2>4. /\ Len(out') = F + 1 + Ext(lit) + lit /\ Agree(out, out', F)
        /\ Literals(out', src, F, anchor, lit, 0)
    <3> DEFINE h == WithLiterals(out, anchor, lit)
    <3>1. out' = h
      BY <2>1, <2>2 DEF WithLiterals
    <3>2. SrcInv /\ out \in Seq(Octet) /\ anchor \in Nat /\ anchor + lit <= inputSize
      BY <1>1, <2>2
    <3>3. /\ h \in Seq(Octet) /\ Len(h) = Len(out) + 1 + Ext(lit) + lit
          /\ Agree(out, h, Len(out)) /\ Literals(h, src, Len(out), anchor, lit, 0)
      BY ONLY <3>2, lit \in Nat, LiteralsWritten
    <3> HIDE DEF h
    <3> QED BY <2>3, <3>1, <3>3
  <2>5. PICK B : Frontier(out, src, inputSize, B, F, anchor)
    BY <1>1, <2>3 DEF Written
  <2>6. IsBlock(out', src, inputSize, B)
    BY <1>1, <2>2, <2>4, <2>5, Complete
  <2>7. IsBlock(out', src', inputSize', B)
    BY <1>2, <2>6
  <2>8. result' > 0
    <3>1. PICK e \in Nat : e = Ext(lit)
      BY ExtBound
    <3>2. result' = F + 1 + e + lit
      BY <2>1, <2>4, <3>1
    <3> QED BY <3>2
  <2> QED BY <2>1, <2>7, <2>8 DEF WriteInv
<1> QED BY <1>4, <1>5

\* Every step of the compressor.
LEMMA CompressWrites ==
  ASSUME CompressInv, MatchInv, WriteInv, LZ4_compress_fast
  PROVE  WriteInv'
BY StartWrites, FindMatchWrites, EncodeLiteralsWrites, EncodeMatchWrites, TestNextPositionWrites,
   LastLiteralsWrites DEF LZ4_compress_fast

-----------------------------------------------------------------------------
\* What is compressed, and how far it is decoded.
RoundInv ==
  /\ LZ4Inv /\ MatchInv /\ WriteInv
  /\ dPc = "idle" => dOp = 0
  /\ dPc # "idle" => /\ cPc = "returned" /\ result > 0
                     /\ \E B : Encoded(out, src, inputSize, B) /\ Decoding(out, src, inputSize, B)

\* The first state.
LEMMA RoundInitInv == LZ4Init => RoundInv
<1> SUFFICES ASSUME LZ4Init PROVE RoundInv
  OBVIOUS
<1>1. LZ4Inv
  BY LZ4InitInv
<1>2. cPc = "start" /\ hashTable = [h \in Hashes |-> 0]
  BY DEF LZ4Init, CompressInit
<1>3. MatchInv /\ WriteInv
  BY <1>2 DEF MatchInv, WriteInv, Below
<1>4. dPc = "idle" /\ dOp = 0
  BY DEF LZ4Init, DecompressInit
<1> QED BY <1>1, <1>3, <1>4 DEF RoundInv

\* Every step.
LEMMA RoundNextInv == RoundInv /\ [LZ4Next]_<<cvars, dvars>> => RoundInv'
<1> SUFFICES ASSUME RoundInv, [LZ4Next]_<<cvars, dvars>> PROVE RoundInv'
  OBVIOUS
<1>1. LZ4Inv /\ LZ4Inv' /\ CompressInv /\ MatchInv /\ WriteInv
  BY LZ4NextInv DEF RoundInv, LZ4Inv
<1>2. inputSize \in Nat /\ out \in Seq(Octet)
  BY <1>1, SrcFacts DEF CompressInv
<1>3. UNCHANGED cvars => MatchInv' /\ WriteInv'
  <2> SUFFICES ASSUME UNCHANGED cvars PROVE MatchInv' /\ WriteInv'
    OBVIOUS
  <2>1. /\ UNCHANGED <<src, dstCapacity, hashTable, ip, anchor, match, forwardIp, out, token, cPc, result>>
        /\ inputSize' = inputSize
    BY DEF cvars, inputSize
  <2>2. limitedOutput' = limitedOutput
    BY <2>1 DEF limitedOutput
  <2>3. MatchInv'
    BY <1>1, <2>1 DEF MatchInv, Matching, Below, Alike
  <2>5. WriteInv'
    <3>1. cPc \in {"search", "literals", "next", "last"} => Written(Len(out), anchor)'
      <4>1. Written(Len(out), anchor) => \E B : Frontier(out', src', inputSize', B, Len(out'), anchor')
        BY <2>1 DEF Written
      <4> QED BY <1>1, <4>1 DEF WriteInv, Written
    <3>2. cPc = "match" => Written(token - 1, anchor)'
      <4>1. Written(token - 1, anchor) => \E B : Frontier(out', src', inputSize', B, token' - 1, anchor')
        BY <2>1 DEF Written
      <4> QED BY <1>1, <4>1 DEF WriteInv, Written
    <3>3. cPc = "match" => /\ Literals(out', src', token' - 1, anchor', ip' - anchor', 0)
                           /\ Len(out') = token' + Ext(ip' - anchor') + (ip' - anchor')
      BY <1>1, <2>1 DEF WriteInv
    <3>4. cPc = "returned" /\ result > 0 =>
            result' = Len(out') /\ \E B : IsBlock(out', src', inputSize', B)
      BY <1>1, <2>1 DEF WriteInv
    <3> QED BY <1>1, <2>1, <2>2, <3>1, <3>2, <3>3, <3>4 DEF WriteInv
  <2> QED BY <2>3, <2>5
<1>4. CASE LZ4_compress_fast /\ UNCHANGED dvars
  <2>1. MatchInv' /\ WriteInv'
    BY <1>1, <1>4, CompressMatches, CompressWrites
  <2>2. cPc # "returned"
    BY <1>4 DEF LZ4_compress_fast, Start, FindMatch, EncodeLiterals, EncodeMatch, TestNextPosition, LastLiterals
  <2>3. dPc = "idle" /\ dOp = 0 /\ dPc' = dPc /\ dOp' = dOp
    BY <1>1, <1>4, <2>2 DEF RoundInv, LZ4Inv, dvars
  <2> QED BY <1>1, <2>1, <2>3 DEF RoundInv
<1>5. CASE cPc = "returned" /\ result > 0 /\ LZ4_decompress_safe /\ UNCHANGED cvars
  <2>1. PICK g, s, N : g = out /\ s = src /\ N = inputSize
    OBVIOUS
  <2>2. PICK B : Encoded(g, s, N, B) /\ Decoding(g, s, N, B)
    <3>1. CASE dPc = "idle"
      <4>1. PICK B : IsBlock(g, s, N, B)
        BY <1>1, <1>5, <2>1 DEF WriteInv
      <4>2. Encoded(g, s, N, B)
        BY <1>2, <2>1, <4>1 DEF Encoded
      <4>3. dOp = 0 /\ dOp <= N /\ Starts(dst, s, dOp)
        BY <1>2, <2>1, <3>1 DEF RoundInv, Starts
      <4>4. Decoding(g, s, N, B)
        BY <3>1, <4>3 DEF Decoding
      <4> QED BY <4>2, <4>4
    <3>2. CASE dPc # "idle"
      BY <2>1, <3>2 DEF RoundInv
    <3> QED BY <3>1, <3>2
  <2>3. BlockInv /\ DecodeInv
    BY <1>1 DEF LZ4Inv, BlockInv, CompressInv
  <2>4. Decoding(g, s, N, B)'
    BY <1>5, <2>2, <2>3, DecompressDecodes
  <2>5. out' = g /\ src' = s /\ inputSize' = N /\ cPc' = "returned" /\ result' = result
    BY <1>5, <2>1 DEF cvars, inputSize
  <2>6. Encoded(g, s, N, B)'
    BY <2>2, <2>5 DEF Encoded
  <2>7. (\E D : Encoded(out, src, inputSize, D) /\ Decoding(out, src, inputSize, D))'
    BY <2>4, <2>5, <2>6 DEF Encoded, Decoding, Outcome, AtLiterals
  <2>8. dPc' # "idle"
    BY <1>5 DEF LZ4_decompress_safe, Begin, FastLiterals, FastMatch, SafeToken, SafeLiterals,
         MatchLength, SafeMatch, DecodeReturns, OutputError, Goto
  <2> QED BY <1>1, <1>3, <1>5, <2>5, <2>7, <2>8 DEF RoundInv
<1>6. CASE UNCHANGED <<cvars, dvars>>
  <2>1. UNCHANGED cvars /\ UNCHANGED dvars
    BY <1>6
  <2>2. MatchInv' /\ WriteInv'
    BY <1>3, <2>1
  <2>3. /\ UNCHANGED <<out, src, cPc, result, dst, iend, oend, dIp, dOp, dToken, length, offset, dPc, decoded>>
        /\ inputSize' = inputSize
    BY <2>1 DEF cvars, dvars, inputSize
  <2>4. dPc # "idle" =>
          (\E D : Encoded(out, src, inputSize, D) /\ Decoding(out, src, inputSize, D))'
    BY <2>3 DEF RoundInv, Encoded, Decoding, Outcome, AtLiterals
  <2> QED BY <1>1, <2>2, <2>3, <2>4 DEF RoundInv
<1> QED BY <1>4, <1>5, <1>6 DEF LZ4Next, Finished

\* What LZ4_decompress_safe has written is the input of LZ4_compress_fast.
THEOREM DecodedPrefixHolds == LZ4Spec => []DecodedPrefix
<1>1. RoundInv => DecodedPrefix
  <2> SUFFICES ASSUME RoundInv, NEW k \in 0 .. (dOp - 1) PROVE k < inputSize /\ dst[k] = src[k]
    BY DEF DecodedPrefix
  <2>1. dOp \in Nat /\ inputSize \in Nat
    BY SrcFacts DEF RoundInv, LZ4Inv, DecodeInv, CompressInv
  <2>2. dPc # "idle"
    BY <2>1 DEF RoundInv
  <2>3. PICK B : Decoding(out, src, inputSize, B)
    BY <2>2 DEF RoundInv
  <2>4. dOp <= inputSize /\ Starts(dst, src, dOp)
    BY <2>3 DEF Decoding
  <2> QED BY <2>1, <2>4 DEF Starts
<1> QED BY <1>1, RoundInitInv, RoundNextInv, PTL DEF LZ4Spec

\* A chunk that was compressed is decompressed to itself, or not at all.
THEOREM RoundTripHolds == LZ4Spec => []RoundTrip
<1>1. RoundInv => RoundTrip
  <2> SUFFICES ASSUME RoundInv PROVE RoundTrip
    OBVIOUS
  <2>1. cPc = "returned" /\ ~limitedOutput => result > 0
    BY DEF RoundInv, WriteInv
  <2>2. dPc = "returned" =>
          /\ iend < result => decoded < inputSize
          /\ iend = result /\ oend < inputSize => decoded < 0
          /\ iend = result /\ ~(oend < inputSize) => decoded = inputSize
          /\ iend <= result /\ iend \in Nat /\ result \in Nat
    <3> SUFFICES ASSUME dPc = "returned"
                 PROVE  /\ iend < result => decoded < inputSize
                        /\ iend = result /\ oend < inputSize => decoded < 0
                        /\ iend = result /\ ~(oend < inputSize) => decoded = inputSize
                        /\ iend <= result /\ iend \in Nat /\ result \in Nat
      OBVIOUS
    <3>1. PICK B : Decoding(out, src, inputSize, B)
      BY DEF RoundInv
    <3>2. Outcome(out, inputSize)
      BY <3>1 DEF Decoding
    <3>3. result = Len(out)
      BY DEF RoundInv, WriteInv
    <3>4. iend \in Nat /\ iend <= Len(out) /\ result \in Nat
      BY DEF RoundInv, LZ4Inv, CompressInv
    <3> QED BY <3>2, <3>3, <3>4 DEF Outcome
  <2>3. dPc = "returned" =>
          CASE iend < result -> decoded < inputSize
            [] iend = result /\ oend < inputSize -> decoded < 0
            [] OTHER -> decoded = inputSize
    BY <2>2
  <2> QED BY <2>1, <2>3 DEF RoundTrip
<1> QED BY <1>1, RoundInitInv, RoundNextInv, PTL DEF LZ4Spec
=============================================================================

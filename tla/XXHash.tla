------------------------------- MODULE XXHash -------------------------------
(***************************************************************************)
(* XXH32 and XXH64 (src/src/util/xxhash.cc), in one call and fed piece by  *)
(* piece.  A hash is a term: which words were mixed in, where and in which *)
(* order.  Equal terms have equal hashes whatever the mixing computes, and *)
(* different terms differ in something that is mixed in.  w is the number  *)
(* of bytes of a word: 4 for XXH32, 8 for XXH64.                           *)
(***************************************************************************)
EXTENDS Integers, Sequences

CONSTANTS
  PieceSizes,   \* lengths of the pieces fed
  MaxFed        \* bound on the bytes fed in all

ASSUME XXHashAssumption == PieceSizes \subseteq Nat /\ MaxFed \in Nat

Stripe(w) == 4 * w

\* v1 .. v4 after one more stripe.
Round(w, v, stripe) ==
  [i \in 1 .. 4 |-> Append(v[i], SubSeq(stripe, (i - 1) * w + 1, i * w))]

\* v1 .. v4 after as many stripes as s has.
Rounds(w, v, s) ==
  LET after[n \in 0 .. (Len(s) \div Stripe(w))] ==
        IF n = 0 THEN v
        ELSE Round(w, after[n - 1], SubSeq(s, (n - 1) * Stripe(w) + 1, n * Stripe(w)))
  IN  after[Len(s) \div Stripe(w)]

NoStripes == [i \in 1 .. 4 |-> <<>>]

\* What is left behind the stripes: whole words, in XXH64 then one of four
\* bytes, and single bytes.
Tail_(w, t) ==
  LET words == Len(t) \div w
      half == IF w = 8 /\ Len(t) % w >= 4 THEN 1 ELSE 0
      singles == Len(t) - words * w - half * 4
  IN  [k \in 1 .. (words + half + singles) |->
         CASE k <= words -> SubSeq(t, (k - 1) * w + 1, k * w)
           [] k = words + 1 /\ half = 1 -> SubSeq(t, words * w + 1, words * w + 4)
           [] OTHER -> <<t[Len(t) - (words + half + singles - k)]>>]

\* The end of both functions: the four values or the seed alone, the length
\* and the tail.
Avalanche(w, v, total_len, t) ==
  [lanes |-> IF total_len >= Stripe(w) THEN v ELSE NoStripes,
   len |-> total_len, tail |-> Tail_(w, t)]

\* XXH32 and XXH64.
XXH(w, s) ==
  Avalanche(w, Rounds(w, NoStripes, s), Len(s),
            SubSeq(s, (Len(s) \div Stripe(w)) * Stripe(w) + 1, Len(s)))

-----------------------------------------------------------------------------
(* The state that is fed *)

VARIABLES
  width,       \* 4 or 8
  fed,         \* the bytes so far (history)
  total_len, v,
  mem, memsize \* bytes that do not make a stripe yet; the rest of mem is old

xvars == <<width, fed, total_len, v, mem, memsize>>

\* Byte number k of the input.
Fresh(n) == [k \in 1 .. n |-> Len(fed) + k]

XXH_reset ==
  /\ width \in {4, 8}
  /\ fed = <<>> /\ total_len = 0 /\ v = NoStripes /\ memsize = 0
  /\ mem = [k \in 1 .. Stripe(width) |-> 0]

\* memcpy(mem + at, s, ...).
Filled(at, s) == [k \in DOMAIN mem |-> IF k - at \in DOMAIN s THEN s[k - at] ELSE mem[k]]

\* The bytes of the next piece that complete the stripe in mem.
Completing(n) == SubSeq(Fresh(n), 1, Stripe(width) - memsize)

\* The piece fits in mem, and the stripe is not complete.
Keep(n) ==
  /\ memsize + n < Stripe(width)
  /\ mem' = Filled(memsize, Fresh(n))
  /\ memsize' = memsize + n
  /\ UNCHANGED v

\* Mutant: memsize is not reset when the piece ends with a stripe.
Kept_NoReset(n) == IF n = 0 THEN memsize ELSE n

\* memsize when n bytes of the piece are left behind its stripes.
Kept(n) == n

\* The stripe in mem is completed and mixed in, then whole stripes of the
\* piece; what is left is kept.
Consume(n) ==
  /\ memsize + n >= Stripe(width)
  /\ LET begun == memsize > 0
         first == IF begun THEN Filled(memsize, Completing(n)) ELSE mem
         rest == SubSeq(Fresh(n), (IF begun THEN Stripe(width) - memsize ELSE 0) + 1, n)
         left == SubSeq(rest, (Len(rest) \div Stripe(width)) * Stripe(width) + 1, Len(rest))
     IN  /\ v' = Rounds(width, IF begun THEN Round(width, v, first) ELSE v, rest)
         /\ mem' = [k \in DOMAIN mem |-> IF k \in DOMAIN left THEN left[k] ELSE first[k]]
         /\ memsize' = Kept(Len(left))

\* XXH32_update and XXH64_update.
XXH_update ==
  \E n \in PieceSizes :
    /\ Len(fed) + n <= MaxFed
    /\ fed' = fed \o Fresh(n)
    /\ total_len' = total_len + n
    /\ Keep(n) \/ Consume(n)
    /\ UNCHANGED width

\* XXH32_digest and XXH64_digest.
XXH_digest == Avalanche(width, v, total_len, SubSeq(mem, 1, memsize))

-----------------------------------------------------------------------------
\* However the input is split, and whatever older bytes the buffer still
\* holds, feeding it gives at every point the hash of the one call.
StreamEqualsOneShot == XXH_digest = XXH(width, fed)
=============================================================================

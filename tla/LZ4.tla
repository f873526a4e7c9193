-------------------------------- MODULE LZ4 ---------------------------------
(***************************************************************************)
(* A chunk's way through LZ4: LZ4_compress_fast into a buffer of           *)
(* dstCapacity bytes; when the result is not 0 it is what the container    *)
(* keeps, and LZ4_decompress_safe reads it back into a buffer of oend      *)
(* bytes.                                                                  *)
(***************************************************************************)
EXTENDS LZ4Decompress

CONSTANTS
  Calls   \* the calls to check: src, dstCapacity and the reader's capacity

Size(s) == Cardinality(DOMAIN s)

ASSUME CallsAssumption ==
  \A c \in Calls :
    /\ Size(c.src) \in Nat /\ c.src \in [0 .. (Size(c.src) - 1) -> 0 .. 255]
    /\ c.dstCapacity \in Nat /\ c.capacity \in Nat
    /\ \A n \in {4, 5} : \A p \in 0 .. (Size(c.src) - n) :
         Hash([k \in 1 .. n |-> c.src[p + k - 1]]) \in Hashes

LZ4Init ==
  /\ \E c \in Calls :
       src = c.src /\ dstCapacity = c.dstCapacity /\ DecompressInit(c.capacity)
  /\ CompressInit

Finished ==
  /\ cPc = "returned" /\ (result = 0 \/ dPc = "returned")
  /\ UNCHANGED <<cvars, dvars>>

LZ4Next ==
  \/ LZ4_compress_fast /\ UNCHANGED dvars
  \/ cPc = "returned" /\ result > 0 /\ LZ4_decompress_safe /\ UNCHANGED cvars
  \/ Finished

LZ4Spec == LZ4Init /\ [][LZ4Next]_<<cvars, dvars>>

-----------------------------------------------------------------------------
\* What is decoded so far is the input, whichever copy loop wrote it: also a
\* match that overlaps itself, one that a wider stride has run past, and one
\* at the largest distance the format can express.
DecodedPrefix ==
  \A k \in 0 .. (dOp - 1) : k < inputSize /\ dst[k] = src[k]

\* With LZ4_compressBound of room compression succeeds.  Read back into a
\* buffer that has room, a block gives exactly the input; into one that has
\* not, an error; and a block that has lost its end is never taken for the
\* whole.
RoundTrip ==
  /\ cPc = "returned" /\ ~limitedOutput => result > 0
  /\ dPc = "returned" =>
       CASE iend < result -> decoded < inputSize
         [] iend = result /\ oend < inputSize -> decoded < 0
         [] OTHER -> decoded = inputSize

\* Neither direction reads or writes outside its buffers, although both copy
\* in strides of up to 32 bytes, and no memcpy has overlapping operands.
StaysInBounds ==
  cInBounds /\ inBounds /\ (cPc = "returned" => result <= dstCapacity)
=============================================================================

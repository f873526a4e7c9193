----------------------------- MODULE MCFeatures -----------------------------
(* An instance of Features for TLC: a chunk of four bytes per sub-chunk and a *)
(* remainder, two that differ from it in one byte, of which one keeps its     *)
(* first and one its third super-feature, and one too short for a window.     *)
EXTENDS Features, TLC

Whole == [i \in 1 .. 50 |-> ((i * 3 + 1) % 11) + (i % 3)]

MCChunks == {Whole, [Whole EXCEPT ![18] = 9], [Whole EXCEPT ![38] = 9], <<5, 1>>}

MCGear(byte) == (byte * byte * 37 + 11) % 256

\* The keys are interchangeable.
KeySymmetry == Permutations(Keys)
=============================================================================

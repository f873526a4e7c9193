----------------------------- MODULE MCPalantir -----------------------------
(* Instance of Palantir for TLC, with one feature per tier.  a shares its    *)
(* features with b in the second tier, with the header h in the third and    *)
(* with d in all three; b does not compress and d is small.                  *)
EXTENDS Palantir

MCContents == {"a", "b", "d", "h"}
MCSuperFeature == [x \in MCContents |->
                     CASE x = "a" -> <<1, 2, 3>> [] x = "b" -> <<4, 2, 5>>
                       [] x = "d" -> <<1, 2, 3>> [] x = "h" -> <<6, 7, 3>>]
MCTierEnd == <<1, 2, 3>>
MCKeep == [t \in CleanedTiers |-> IF t = 2 THEN 1 ELSE 0]
MCChunkSize == [x \in MCContents |-> IF x = "d" THEN 2 ELSE 6]
MCLZ4Size == [x \in MCContents |-> CASE x = "b" -> 0 [] x = "d" -> 1 [] OTHER -> 4]

\* A data chunk may have the bytes of a header chunk.
MCOffered == {<<x, x = "h">> : x \in MCContents} \union {<<"h", FALSE>>}
=============================================================================

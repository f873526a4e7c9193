---------------------------- MODULE MCDeltaDedup ----------------------------
(* Instance of DeltaDedup for TLC.  a, b and c share super features pair by *)
(* pair, in different positions, and c does not compress; d has the          *)
(* features of a but is too small to look for a base; h is a header, and    *)
(* once in a while data.                                                    *)
EXTENDS DeltaDedup

MCContents == {"a", "b", "c", "d", "h"}
MCFeatures == [x \in MCContents |->
                 CASE x = "a" -> <<1, 1>> [] x = "b" -> <<1, 2>>
                   [] x = "c" -> <<3, 2>> [] x = "d" -> <<1, 1>>
                   [] x = "h" -> <<2, 1>>]
MCChunkSize == [x \in MCContents |-> IF x = "d" THEN 1 ELSE 4]
MCLZ4Size == [x \in MCContents |-> CASE x = "c" -> 0 [] x = "d" -> 1 [] OTHER -> 3]

\* A data chunk may have the bytes of a header chunk.
MCOffered == {<<x, x = "h">> : x \in MCContents} \union {<<"h", FALSE>>}
=============================================================================

----------------------------- MODULE MCLocality -----------------------------
(* Instance of Locality for TLC: b does not compress, d is small, h is a header. *)
EXTENDS Locality

MCContents == {"a", "b", "c", "d", "h"}
MCChunkSize == [x \in MCContents |-> IF x = "d" THEN 2 ELSE 6]
MCLZ4Size == [x \in MCContents |-> CASE x = "b" -> 0 [] x = "d" -> 1 [] OTHER -> 4]

\* A data chunk may have the bytes of a header chunk.
MCOffered == {<<x, x = "h">> : x \in MCContents} \union {<<"h", FALSE>>}
=============================================================================

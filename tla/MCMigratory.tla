---------------------------- MODULE MCMigratory -----------------------------
(* Instance of Migratory for TLC: every list of three files of up to two     *)
(* chunks, two of them backed up; a and b are similar, c is longer.          *)
EXTENDS Migratory

MCContents == {"a", "b", "c"}
MCFeature == [x \in MCContents |-> IF x = "c" THEN 2 ELSE 1]
MCChunkSize == [x \in MCContents |-> IF x = "c" THEN 3 ELSE 2]
MCFile == UNION {[1 .. n -> MCContents] : n \in 0 .. 2}
MCFileLists == [1 .. 3 -> MCFile]
=============================================================================

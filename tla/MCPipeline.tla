----------------------------- MODULE MCPipeline -----------------------------
(* Instances of Pipeline for TLC: three backups, one of an empty file, the *)
(* others longer than the queue so that Push meets a full queue.           *)
EXTENDS Pipeline

MCChunkCount == [b \in 0 .. 2 |-> CASE b = 0 -> 5 [] b = 1 -> 0 [] OTHER -> 4]
=============================================================================

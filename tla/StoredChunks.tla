---------------------------- MODULE StoredChunks ----------------------------
(***************************************************************************)
(* What chunklist (src/include/datawrite.h) holds for each unique chunk and *)
(* what dataWrite::restoreFile makes of it.  Shared by the models of the    *)
(* methods; the store itself is ContainerStore.                             *)
(*                                                                          *)
(* Stored bytes: <<"whole", c>> is content c itself; <<"delta", c, r>>      *)
(* turns the reference bytes r into c.                                      *)
(***************************************************************************)
EXTENDS Integers, Sequences

NoChunk == -1

\* A list of chunks starts with chunk id 0.
IdsOf(list) == 0 .. (Len(list) - 1)
ChunkAt(list, id) == list[id + 1]

IsBase(chunk) == chunk.deltaFlag \in {"NO_DELTA", "NO_LZ4"}

\* Get_Chunk_Info(id).chunkPtr with length chunkSize, as the reference of a
\* delta: of a delta chunk only saveSize bytes are there, and what follows
\* them is whatever the buffer holds at that moment.
ReferenceIn(list, id) ==
  IF IsBase(ChunkAt(list, id)) THEN ChunkAt(list, id).bytes ELSE <<"overrun">>

\* xd3_decode_memory: the reference must be the one the delta was made with;
\* two reads past the end of a chunk are never taken to agree.
Decode(bytes, ref) ==
  IF bytes[3] = ref /\ ref[1] = "whole" THEN <<"whole", bytes[2]>> ELSE <<"junk">>

\* What restoreFile and restoreHeaderFile write for chunk id: a delta is
\* decoded against its base WITHOUT recursion.
RestoredFrom(list, id) ==
  LET chunk == ChunkAt(list, id)
  IN  IF IsBase(chunk) THEN chunk.bytes
      ELSE Decode(chunk.bytes, ReferenceIn(list, chunk.basechunkID))

\* The chunks named by ids are restored to contents, in this order.
RestoresTo(list, ids, contents) ==
  /\ Len(ids) = Len(contents)
  /\ \A k \in DOMAIN ids : RestoredFrom(list, ids[k]) = <<"whole", contents[k]>>
=============================================================================

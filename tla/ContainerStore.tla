--------------------------- MODULE ContainerStore ---------------------------
(***************************************************************************)
(* dataWrite (src/src/datawrite/datawrite.cc): unique chunks are packed    *)
(* one after the other into the current container; a full container is     *)
(* written to ./Containers/<id> and the next one is begun in the same      *)
(* buffer.  Get_Chunk_Info finds a chunk again in the read cache           *)
(* (src/src/util/readCache.cc over src/include/lruCache.h), in the         *)
(* container file or in the current container.  What it returns is either  *)
(* a private copy on the heap or a pointer INTO a cache slot or INTO the   *)
(* current container, and the caller goes on using that pointer while it   *)
(* fetches another chunk.  All of this runs on the one method thread.      *)
(*                                                                         *)
(* A byte is a cell <<id, form, k>>: the k-th byte of chunk id in the form *)
(* "raw", "lz4" (compressed) or "delta".  Ids count from 0 as in the code; *)
(* chunklist[id] is element id + 1 of the sequence.                        *)
(***************************************************************************)
EXTENDS Integers, Sequences, FiniteSets

CONSTANTS
  ContainerMax,  \* CONTAINER_MAX_SIZE, in cells
  CacheSize,     \* CONTAINER_CACHE_SIZE: slots of the read cache
  Sizes,         \* pairs <<chunkSize, saveSize>> of the chunks offered
  Leftover,      \* ids of container files an earlier run left behind
  MaxChunks,     \* bound: chunks inserted
  MaxFailures    \* bound: container files that cannot be opened for writing

ASSUME StoreAssumption ==
  /\ ContainerMax \in Nat \ {0}
  /\ CacheSize \in Nat \ {0, 1}
  /\ Sizes \subseteq (1 .. ContainerMax) \X (1 .. ContainerMax)
  /\ Leftover \subseteq Nat
  /\ MaxChunks \in Nat /\ MaxFailures \in Nat

VARIABLES
  chunklist,     \* vector<Chunk_t>: where each unique chunk was put
  containerNum,  \* id of the current container
  curContainer,  \* [containerID, size, data]; data keeps stale cells
  curOffset,     \* next free cell of curContainer.data
  disk,          \* container files: id -> the cells written
  lost,          \* containers whose file could not be opened (history)
  keys,          \* lru11::Cache keys_: <<[key, slot], ...>>, most recent first
  pool,          \* containerPool_: slot -> cells, stale tails included
  currentIndex,  \* currentIndex_: next unused slot
  held           \* chunks Get_Chunk_Info returned and the caller still uses

vars == <<chunklist, containerNum, curContainer, curOffset, disk, lost,
          keys, pool, currentIndex, held>>
writeVars == <<chunklist, containerNum, curContainer, curOffset, disk, lost>>
cacheVars == <<keys, pool, currentIndex>>

Addr  == 0 .. (ContainerMax - 1)
Slots == 0 .. (CacheSize - 1)
Flags == {"NO_DELTA", "NO_LZ4", "DELTA"}
Junk  == <<-1, "junk", 0>>
Blank == [a \in Addr |-> Junk]

-----------------------------------------------------------------------------
(* Chunks and their bytes *)

Form(flag) == CASE flag = "NO_DELTA" -> "lz4"
                [] flag = "NO_LZ4"   -> "raw"
                [] OTHER             -> "delta"

Bytes(id, form, n) == [k \in 1 .. n |-> <<id, form, k>>]

\* The bytes memcpy puts into the container for chunk c.
StoredBytes(id, c) == Bytes(id, Form(c.deltaFlag), c.saveSize)

\* What a reader of chunk c must get: the chunk itself, or its delta.
Content(id, c) ==
  IF c.deltaFlag = "DELTA" THEN StoredBytes(id, c)
                           ELSE Bytes(id, "raw", c.chunkSize)

JunkBytes(n) == [k \in 1 .. n |-> Junk]

\* n cells of a buffer from offset off on.
Slice(data, off, n) == [k \in 1 .. n |-> data[off + k - 1]]

\* memcpy of n cells of src to offset off of dst: the rest of dst stays.
Overlay(dst, off, src, n) ==
  [a \in Addr |-> IF a \in off .. (off + n - 1) THEN src[a - off] ELSE dst[a]]

\* LZ4_decompress_safe: gives chunk c back for its complete compressed
\* stream, and leaves junk in the output buffer for anything else.
Decompress(bytes, id, c) ==
  IF bytes = Bytes(id, "lz4", c.saveSize)
  THEN Bytes(id, "raw", c.chunkSize)
  ELSE JunkBytes(c.chunkSize)

-----------------------------------------------------------------------------
(* ReadCache and the LRU list *)

InCache(key) == \E j \in DOMAIN keys : keys[j].key = key

\* cache_.find: where the key is in the list.
PosOf(key) == CHOOSE j \in DOMAIN keys : keys[j].key = key

SlotOf(key) == keys[PosOf(key)].slot

\* Mutant: get() leaves the order of the list alone.
TouchNothing(key) == keys

\* ReadFromCache: get() splices the key to the front of the list.
Touch(key) ==
  [n \in DOMAIN keys |-> IF n > PosOf(key) THEN keys[n]
                         ELSE IF n > 1 THEN keys[n - 1] ELSE keys[PosOf(key)]]

\* Mutant: the victim's slot is taken from the wrong end of the list.
InsertOverNewest(key, file) ==
  LET full == Len(keys) + 1 > CacheSize
      slot == IF full THEN keys[1].slot ELSE currentIndex
      kept == IF full THEN SubSeq(keys, 1, Len(keys) - 1) ELSE keys
  IN  /\ pool' = [pool EXCEPT ![slot] = Overlay(@, 0, file.data, file.size)]
      /\ keys' = <<[key |-> key, slot |-> slot]>> \o kept
      /\ currentIndex' = IF full THEN currentIndex ELSE currentIndex + 1

\* InsertToCache: a full cache reuses the slot of the least recent key, which
\* insert() then drops from the list; otherwise the next slot is taken.
InsertToCache(key, file) ==
  LET full == Len(keys) + 1 > CacheSize
      slot == IF full THEN keys[Len(keys)].slot ELSE currentIndex
      kept == IF full THEN SubSeq(keys, 1, Len(keys) - 1) ELSE keys
  IN  /\ pool' = [pool EXCEPT ![slot] = Overlay(@, 0, file.data, file.size)]
      /\ keys' = <<[key |-> key, slot |-> slot]>> \o kept
      /\ currentIndex' = IF full THEN currentIndex ELSE currentIndex + 1

-----------------------------------------------------------------------------
\* Nothing stored; ./Containers may hold files of an earlier run.
Init ==
  /\ chunklist = <<>>
  /\ containerNum = 0
  /\ curContainer = [containerID |-> 0, size |-> 0, data |-> Blank]
  /\ curOffset = 0
  /\ disk = [c \in Leftover |-> [size |-> ContainerMax, data |-> Blank]]
  /\ lost = {}
  /\ keys = <<>> /\ pool = [s \in Slots |-> Blank] /\ currentIndex = 0
  /\ held = <<>>

-----------------------------------------------------------------------------
(* Chunk_Insert, in both its forms: the caller has compressed the chunk     *)
(* (NO_DELTA), failed to (NO_LZ4, saveSize = chunkSize) or delta encoded it *)

NoRoomFor(n) == curContainer.size + n > ContainerMax

\* The container is written under its containerID.
WriteContainer ==
  /\ disk' = [c \in DOMAIN disk \union {curContainer.containerID} |->
                IF c = curContainer.containerID
                THEN [size |-> curContainer.size,
                      data |-> Overlay(Blank, 0, curContainer.data, curContainer.size)]
                ELSE disk[c]]
  /\ UNCHANGED lost

\* "open file failed" is printed and the container is given up.
OpenFails ==
  /\ Cardinality(lost) < MaxFailures
  /\ lost' = lost \union {curContainer.containerID}
  /\ UNCHANGED disk

\* memcpy to offset of the container, and the new entry of chunklist.
Place(chunk, container, offset) ==
  LET id == Len(chunklist)
      src == [a \in 0 .. (chunk.saveSize - 1) |-> StoredBytes(id, chunk)[a + 1]]
  IN  /\ chunklist' = Append(chunklist,
           [deltaFlag |-> chunk.deltaFlag, chunkSize |-> chunk.chunkSize,
            saveSize |-> chunk.saveSize, containerID |-> containerNum',
            offset |-> offset])
      /\ curContainer' =
           [container EXCEPT !.size = @ + chunk.saveSize,
              !.data = Overlay(@, offset, src, chunk.saveSize)]
      /\ curOffset' = offset + chunk.saveSize

\* There is room.
InsertInCurrent(chunk) ==
  /\ ~NoRoomFor(chunk.saveSize)
  /\ UNCHANGED <<containerNum, disk, lost>>
  /\ Place(chunk, curContainer, curOffset)

\* Mutant: the next container gets its id before containerNum is counted up.
InsertInNextOldID(chunk) ==
  /\ NoRoomFor(chunk.saveSize)
  /\ WriteContainer \/ OpenFails
  /\ containerNum' = containerNum + 1
  /\ Place(chunk, [curContainer EXCEPT !.size = 0, !.containerID = containerNum], 0)

\* There is none: the container is written and the buffer used afresh.
InsertInNext(chunk) ==
  /\ NoRoomFor(chunk.saveSize)
  /\ WriteContainer \/ OpenFails
  /\ containerNum' = containerNum + 1
  /\ Place(chunk, [curContainer EXCEPT !.size = 0, !.containerID = containerNum'], 0)

\* A base chunk fetched for the delta is not looked at again.
Chunk_Insert(chunk) ==
  /\ Len(chunklist) < MaxChunks /\ Len(held) <= 1
  /\ InsertInCurrent(chunk) \/ InsertInNext(chunk)
  /\ held' = <<>>
  /\ UNCHANGED cacheVars

\* The chunks the methods hand over.
OfferedChunks ==
  {[deltaFlag |-> f, chunkSize |-> z[1], saveSize |-> z[2]] :
     f \in Flags, z \in Sizes}
Storable(chunk) ==
  CASE chunk.deltaFlag = "NO_DELTA" -> chunk.saveSize <= chunk.chunkSize
    [] chunk.deltaFlag = "NO_LZ4"   -> chunk.saveSize = chunk.chunkSize
    [] OTHER                        -> TRUE

-----------------------------------------------------------------------------
(* Get_Chunk_Info *)

Chunk(id) == chunklist[id + 1]
ChunkIds == 0 .. (Len(chunklist) - 1)

\* Which of its branches Get_Chunk_Info takes.
Source(id) ==
  LET cid == Chunk(id).containerID
  IN  IF InCache(cid) THEN "cache"
      ELSE IF cid = containerNum THEN "current"
      ELSE IF cid \in DOMAIN disk THEN "file" ELSE "missing"

\* The buffer that branch reads.
Buffer(id) ==
  LET cid == Chunk(id).containerID
  IN  CASE Source(id) = "cache"   -> pool[SlotOf(cid)]
        [] Source(id) = "current" -> curContainer.data
        [] Source(id) = "file"    -> disk[cid].data
        [] OTHER                  -> Blank

\* What it makes of the cells: base chunks are decompressed.
Fetched(id) ==
  LET c == Chunk(id)
      cells == Slice(Buffer(id), c.offset, c.saveSize)
  IN  IF c.deltaFlag = "NO_DELTA" THEN Decompress(cells, id, c) ELSE cells

\* The pointer it returns: a heap copy of compressed chunks and of anything
\* read from a file, a pointer into the buffer otherwise.
Pointer(id) ==
  LET c == Chunk(id)
      heap == c.deltaFlag = "NO_DELTA" \/ Source(id) \in {"file", "missing"}
  IN  [id |-> id, loadFromDisk |-> heap,
       at |-> IF heap THEN "heap" ELSE Source(id),
       slot |-> IF ~heap /\ Source(id) = "cache" THEN SlotOf(c.containerID) ELSE 0,
       copy |-> IF heap THEN Fetched(id) ELSE <<>>]

\* At most two chunks are in use at a time: a delta and its base.
Get_Chunk_Info(id) ==
  /\ Len(held) < 2
  /\ held' = Append(held, Pointer(id))
  /\ CASE Source(id) = "cache" ->
            keys' = Touch(Chunk(id).containerID) /\ UNCHANGED <<pool, currentIndex>>
       [] Source(id) = "file" ->
            InsertToCache(Chunk(id).containerID, disk[Chunk(id).containerID])
       [] OTHER -> UNCHANGED cacheVars
  /\ UNCHANGED writeVars

\* The caller is done: it frees what loadFromDisk says is its own.
Release ==
  /\ held # <<>>
  /\ held' = <<>>
  /\ UNCHANGED <<writeVars, cacheVars>>

-----------------------------------------------------------------------------
Next ==
  \/ \E chunk \in OfferedChunks : Storable(chunk) /\ Chunk_Insert(chunk)
  \/ \E id \in ChunkIds : Get_Chunk_Info(id)
  \/ Release

Spec == Init /\ [][Next]_vars

-----------------------------------------------------------------------------
(* Properties *)

\* A chunk put into the store can be had back from wherever it now is: the
\* buffer of the current container, the file it was flushed to, or a cache
\* slot.  A container file that cannot be opened loses the chunks of that
\* container and no others.
ReadBack ==
  \A id \in ChunkIds :
    Chunk(id).containerID \notin lost => Fetched(id) = Content(id, Chunk(id))

\* The read cache mirrors the files: no two keys share a slot, and each slot
\* holds the container of its key although slots are reused and overlaid.
CacheCoherent ==
  \A j \in DOMAIN keys :
    LET e == keys[j]
    IN  /\ \A l \in DOMAIN keys : l # j => keys[l].key # e.key /\ keys[l].slot # e.slot
        /\ e.key \in DOMAIN disk
        /\ \A a \in 0 .. (disk[e.key].size - 1) : pool[e.slot][a] = disk[e.key].data[a]

\* The cells a returned pointer leads to now.
Deref(h) ==
  LET c == Chunk(h.id)
  IN  CASE h.at = "heap"  -> h.copy
        [] h.at = "cache" -> Slice(pool[h.slot], c.offset, c.saveSize)
        [] OTHER          -> Slice(curContainer.data, c.offset, c.saveSize)

\* While a delta and its base are in use, fetching the second does not
\* overwrite the first, although it may evict a cache slot; and loadFromDisk
\* tells the caller to free exactly the pointers that own heap memory.
HeldIntact ==
  \A j \in DOMAIN held :
    LET h == held[j]
    IN  /\ h.loadFromDisk <=> h.at = "heap"
        /\ Chunk(h.id).containerID \notin lost => Deref(h) = Content(h.id, Chunk(h.id))

\* A container file this run has written is never written again, and a chunk
\* never moves.
WriteOnce ==
  [][/\ \A c \in DOMAIN disk : c < containerNum => c \in DOMAIN disk' /\ disk'[c] = disk[c]
     /\ \A id \in ChunkIds : /\ chunklist'[id + 1].containerID = Chunk(id).containerID
                             /\ chunklist'[id + 1].offset = Chunk(id).offset]_vars
=============================================================================

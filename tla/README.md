# MCompression in TLA+

A verification project for MCompression, a backup program in C++ that cuts
files into chunks, deduplicates them, delta-encodes similar chunks, compresses
the rest with LZ4 and packs the result into container files.  Paths below are
relative to the repository (`src/...` are the sources, `include/...` the
headers).

## 1. The system

`main` (`src/app/main.cc`) backs up `-n` files, one after the other.  For each
it starts two threads and joins them:

    Chunker::Chunking  --Push-->  MessageQueue  --Pop-->  <method>::ProcessTrace
      cuts the file              bounded FIFO,            fingerprint, similarity,
                                 flag done_               delta, LZ4, recipe
                                                               |
                                          Chunk_Insert / Get_Chunk_Info
                                                               v
                                    dataWrite: containers, ReadCache, recipes

Everything except the threads themselves survives from one backup to the next:
the queue and `done_`, the chunker's tar parser, the indexes, the containers.

| Component | State | Operations | What makes it correct |
|---|---|---|---|
| Backup loop, threads (`main.cc`) | loop index, two threads | load, start, join | each backup gets exactly its chunks, in order; the loop ends |
| `MessageQueue` (`messageQueue.h`) | ring of chunks, `done_` | `Push` (spins), `Pop`, `IsEmpty` | bounded FIFO; `done_ && IsEmpty()` only at the real end |
| Lock-free ring (`readerwriterqueue.h`, `atomicops.h`) | circle of circular blocks, shadow indices, semaphore count | `try_enqueue`, `enqueue`, `try_dequeue`, `pop`, `peek`, `size_approx`, `wait_dequeue*` | a FIFO for one producer and one consumer without data races; no lost wake-up |
| Chunker (`chunker.cc`) | read window, tar parser state, header buffer | `LoadChunkFile`, `Chunking`, five cut-point functions, `CutPointTarHeader`, `MTar` | chunks tile the file; the window does not show; headers are found |
| Dedup, Finesse, NTransForm (`method/`) | `FPindex`, `SFindex`, counters | `ProcessTrace` | what the recipes name restores what was pushed; counters add up |
| Palantir (`palantir.cc`) | index of three tiers with versions, average LZ4 ratio | `ProcessTrace`, `SF_Find`, `SF_Insert`, `CleanIndex` | as above; entries expire on time; deltas fit their chunk |
| Locality (`Locality.cc`) | last duplicate, gap since then | `ProcessTrace` | the neighbour is a stored chunk; restore |
| Odess and baseline (`Odess.cc`, `absMethod.cc`) | groups by feature, output files | `ProcessTrace`, `Migratory`, `MLC`, `OriGenerate`, `OriLC`, `CompressLargeFile` | a rearrangement of the chunks; both sizes are of the same data, all of it |
| `dataWrite` (`datawrite.cc`) | current container, `chunklist`, recipes, header buffer | `Chunk_Insert` (two forms), `Get_Chunk_Info`, `Get_Chunk_MetaInfo`, `Recipe_*Insert`, `restoreFile`, `restoreHeaderFile` | a stored chunk can be read back; restore is exact |
| `ReadCache` (`readCache.cc`, `lruCache.h`) | LRU list, slot pool | `InsertToCache`, `ExistsInCache`, `ReadFromCache` | slots mirror files; a held slot is not overwritten |
| Feature extraction (`odess_similarity_detection.cc`, `Ntrans_similarity.cc`, `absMethod.cc`) | the generator's features | `GenerateSuperFeatures`, `PalantirGetSF`, `getFeatureList`, `GetSF` | the super-features of a chunk depend on the chunk alone |
| `FeatureIndexTable` (`odess_similarity_detection.cc`) | key -> super-features, super-feature -> keys | `Put`, `Delete`, `GetSimilarRecordsKeys`, `CountAllSimilarRecords` | the two tables are inverse to each other |
| LZ4 (`util/lz4.c`) | hash table, positions in the two buffers | `LZ4_compress_fast`, `LZ4_decompress_safe` | the block gives the input back; no access outside a buffer |
| xxHash (`util/xxhash.cc`) | four lanes, buffer of an incomplete stripe | `XXH32`/`XXH64`, `reset`, `update`, `digest` | feeding by pieces gives the hash of the whole |
| File list order, xdelta3, statistics | | | see section 6 |

Interaction is by method calls on one thread, except for the queue and `done_`,
which the two threads share.  The hard behaviours are: the order in which the
method thread reads `done_` and the queue; early returns of `ProcessTrace`;
slot reuse in the cache while a pointer into a slot is held; container
boundaries; a window that ends in the middle of something; parser state that
outlives a file; relaxed atomics in the ring; and copies in strides that run
past their end in LZ4.  `PROJECT.json` lists them as hazards, each with the
properties aimed at it.

## 2. Modules

| Module | Models | Kind |
|---|---|---|
| `Delivery` | what the backup loop promises: sequential, no threads, no queue | abstract specification |
| `Pipeline` | `main`'s loop, the two threads, `MessageQueue`, the polling loop | specification, refines `Delivery` |
| `PipelineProofs` | | TLAPS proofs about `Pipeline` |
| `ContainerStore` | `dataWrite`'s containers, `ReadCache`, the LRU list | specification |
| `StoredChunks` | `chunklist` entries and `restoreFile` | operators shared by the methods |
| `AbsMethod` | what the methods inherit: `FPindex`, recipes, counters, storing a chunk whole | state and operations shared by the methods, extended by each |
| `DeltaDedup` | the body of `ProcessTrace` in Dedup, Finesse and NTransForm, with the super-feature index | specification |
| `Palantir` | Palantir's `ProcessTrace`, its index of three tiers, `CleanIndex` | specification |
| `Locality` | `LocalDedup::ProcessTrace` | specification |
| `MethodProofs` | | lemmas about `AbsMethod` that the proofs about the methods share |
| `DeltaDedupProofs`, `PalantirProofs` | | TLAPS proofs about the two |
| `Migratory` | Odess, `Migratory`, `MLC`, and the baseline `OriGenerate`, `OriLC`, `CompressLargeFile` | specification |
| `StorageProofs` | | TLAPS proofs about what is written to disk: `ContainerStore` and `Migratory` |
| `Chunker` | `Chunking`, the cut points, `CutPointTarHeader`, `MTar`, `restoreHeaderFile` | specification |
| `ChunkerProofs` | | TLAPS proofs about `Chunker` |
| `WeakMemory` | relaxed atomics and fences of `atomicops.h` | operators on a memory |
| `RingQueue` | `ReaderWriterQueue` over `WeakMemory` | state and actions, extended by `BlockingQueue` |
| `BlockingQueue` | the polling use by `MessageQueue`; `BlockingReaderWriterQueue` with `LightweightSemaphore` | specification |
| `LZ4Compress`, `LZ4Decompress` | `LZ4_compress_fast`, `LZ4_decompress_safe` | state and actions |
| `LZ4` | a chunk's way through both | specification, composes the two |
| `LZ4Proofs` | | TLAPS proofs about both directions and the round trip |
| `XXHash` | XXH32 and XXH64, in one call and fed | operators, state and actions |
| `Features` | the four feature extractors and `FeatureIndexTable` | specification, extends `XXHash` |
| `SimilarityProofs` | | TLAPS proofs about `Locality`, about the tables of `Features` and about `XXHash` |
| `MCPipeline`, `MCContainerStore`, `MCDeltaDedup`, `MCPalantir`, `MCLocality`, `MCMigratory`, `MCChunker`, `MCBlockingQueue`, `MCLZ4`, `MCFeatures` | | instances for TLC |

The modules meet at these interfaces.  `Pipeline` delivers chunks to the
method thread in order; the method modules start where it stops, with the
chunk `Pop` has returned.  `ContainerStore` shows that a chunk inserted can be
read back; the method modules take the store as the sequence `chunklist`.
`Chunker` shows how the chunks tile the file; the method modules take any
sequence of chunks.  `RingQueue` shows that the ring is a FIFO that holds what
it was constructed for and that `size_approx` is 0 after `done_` only when it
is empty; `Pipeline` takes the queue as such a sequence.  `LZ4` shows that a
block decodes to its input and `Features` that super-features are a function
of the chunk; the method modules take both for granted.

### Pipeline

Chunk `<<b, k>>` is the k-th chunk of file `b`.  `mainPc`, `chunkerPc` and
`methodPc` say where the three threads are; every access to the queue or to
`done_` is a step of its own, so `done_ && IsEmpty()` takes two steps
(`TestDone`, `TestEmpty`) and both assignments `done_ = false` of
`ProcessTrace` appear (`ResetDone`, `LeaveTrace`).  `Push` is enabled when
there is room: a thread that cannot take it is spinning.  `LoadFails` is
`exit(EXIT_FAILURE)` in `LoadChunkFile`.  `DeltaError` is the early return of
Finesse, NTransForm and Palantir on an empty delta; the constant `MaxErrors`
bounds how often it happens (0 is Dedup or Odess, or the good case).  In
`Delivery` the first delta error is the step `Fail`, behind which nothing is
promised; everything before it is.

### WeakMemory, RingQueue and BlockingQueue

`weak_atomic` is accessed relaxed and ordered by fences only, so interleaving
steps over one shared state would hide what can go wrong.  In `WeakMemory` a
location keeps the values stored in it, each with the view its writer
published; a thread may load any value not older than its own view, a release
fence fixes what later stores publish and an acquire fence adopts what the
loaded values carry.  Elements, shadow indices and the fields of a new block
are plain accesses: one that has not seen the other thread's last write sets
`race`.  `Forget` drops values no thread can load any more.

An action of `RingQueue` is one load of a field the other thread writes, with
the local work and the own stores up to the next such load.  Blocks have their
own slots, indices and `next`; a full ring either uses the block ahead, makes
a new one (`Allocate`), or refuses.  `ReadDone` and `SizeApprox` are
`done_ && IsEmpty()` as `ProcessTrace` uses it.  `BlockingQueue` adds
`m_count` and the kernel's semaphore, with the loop that undoes a wait that
has timed out while a signal was under way.  The program itself uses the plain
queue; the blocking one comes with the header.

### LZ4Compress, LZ4Decompress and LZ4

Buffers are functions from offsets to bytes and pointers are offsets, so that
a copy that runs too far is seen (`cInBounds`, `inBounds`).  Copies are made as
the code makes them: eight or thirty-two bytes at a time, sixteen or eighteen
bytes of a short sequence at once, the two tables for offsets below eight.
The hash is any function of the bytes read, and `U16_RANGE` stands for 65536:
the largest distance, the limit below which the table holds 16-bit positions
and the offset's field all follow from it.  `LZ4_decompress_safe` gets the
block whole or short of up to `LostBytes` bytes, and any capacity.  `memcpy`
with overlapping operands counts as an access out of bounds.

### XXHash and Features

A hash of `XXHash` is the term of what was mixed in, where and in which order;
two inputs have the same term only if the code does the same on them.  Bytes
are numbered, and the buffer of an incomplete stripe keeps its old bytes.

`Features` computes with the code's arithmetic in smaller words and windows:
gear hash, the polynomial hash of NTransForm, Rabin's in Finesse.  The
extractors are compared with `Reference`, which hashes each window from
scratch and keeps no state.  A gear hash is sampled when it is a multiple of
`kSampleRatioMask`; the code tests mask bits.  `last` is what the extraction
just made returned.  `GetSimilarRecordsKeys` is the set of keys the code may
return: it walks the super-features of a key in order and returns some other
key of the first that has one.  `Put`, `Delete`, the query by key and the
streaming calls of xxHash have no caller in the program; they are part of the
classes it links.

### ContainerStore

A byte is a cell `<<id, form, k>>`, so that a misplaced or partly overwritten
byte is seen.  `curContainer.data`, the cache slots and the container files
are functions from addresses to cells, and `Overlay` is a `memcpy` that leaves
the rest of the buffer as it was: stale tails stay, as in the code.
`Get_Chunk_Info` takes one of four branches (`Source`) and returns a heap copy
or a pointer into a slot or into the current container; `held` are the pointers
the caller (delta encoding, `restoreFile`) still uses, at most a delta and its
base.  The LRU list `keys` is a sequence, most recent first; a hit takes its
entry out and puts it in front (`Touch`).  `Leftover` are files of an earlier run; `OpenFails` is the
"open file failed" branch, after which the container is gone.

### AbsMethod, StoredChunks and DeltaDedup

One step is one chunk: duplicate, stored whole, stored as a delta, or a delta
error.  The three methods of `DeltaDedup` differ in whether they look for a
base at all and from which size on; `DeltaGate` says so (576 bytes in Finesse,
0 in NTransForm, larger than any chunk in Dedup).  A stored chunk's bytes are
the content or a delta that names its reference bytes; decoding needs the same
reference, and reading `chunkSize` bytes of a delta chunk runs past its end,
which never decodes.  The delta is copied into the chunk's own buffer, of
`malloc(cp)`, without comparing sizes.  Where it is larger, `StoreDelta` goes
on if `malloc` happens to have rounded the buffer up (`MayHold`, by at most
`Padding`), and `Overrun` says that it may not have: then nothing is known of
what follows, and the model stops with `overrun`.  Fingerprints are taken to identify contents, LZ4 and
xdelta to be invertible.  `ReadPastEnd` is `Get_Chunk_MetaInfo` for an id that
was never stored, possible after a delta error; what it reads is arbitrary.

### Palantir

`SFindex[t]` maps the features that are keys of tier `t` to an entry
`[id, version, empty]`: the code's vectors never hold more than one element.
`CleanIndex` sets `empty` and keeps the rest, because the code erases the
element of the vector, keeps the key, and `SF_Find` reads `begin()` of the
empty vector; with the standard libraries the program is built with, `erase`
leaves the trivially copyable element in the storage.  `LZ4Ratio` is a pair,
numerator and denominator, and the false-fit test multiplies out: the code's
doubles are taken to be exact.

### Locality

Ids are numbers modulo `Word`, because `plchunk.chunkId` starts at -1 and
`chunkID - 1` is computed unsigned.  The source of a delta is `<<"scratch">>`,
the contents of `lz4ChunkBuffer`, as the call of `xd3_encode` says.  Two ways
the process can be killed are actions: a read from an empty `chunklist`
(`OutOfRange`) and the division by an empty delta's size in `StatsDelta`
(`EmptyDelta`).

### Migratory

The phases are the calls of `main` after the backups: `Migratory`, `MLC`,
`OriGenerate`, `OriLC`.  `CompressLargeFile` is one step per block.  Every
failure return of the code is an alternative: an output file that cannot be
opened, an input file that cannot be read any more, a block LZ4 cannot
compress.  `output.me` and `ori` are taken not to exist when they cannot be
opened for writing.

### Chunker

A byte is its position in the file, a chunk an interval.  An archive is its
length and, for each header offset, what the header says.  `CutPointTarFast`
returns the set of cuts it may make, each with the parser's next state.
`CutPointTarHeader` runs its loops step by step.  The restorer parses the
headers again, from header chunks of whole headers, and takes data chunks as
it goes.  Archives are well formed (`WellFormed`: behind a header and its data
comes a header or the end, and no header lies inside): the code does not handle
others.  Any member may have data, whatever its typeflag.  The parser tells four
kinds of typeflag apart (`TypeFlags`): regular; NUL (`AREGTYPE`: old regular
files and the zero blocks of the trailer), whose size it sets to 0; `x` and
`GNUTYPE_LONGNAME`; and `other`, which it does not look at and behind which it
expects a header, whatever size the header gives.  The data of an `x` or long
name is taken to fit a container (4 MiB), and a size field of a member without
data to be 0.  If the parser meets data where a header is due (`GoAstray`), the
bytes there are arbitrary and the model stops.  `MTar` runs before the first
backup: `pass` says whether it copies data or headers, or whether the backups
have begun; each piece it writes has its place in the archive and in the new file
(`Written` is the length so far), which is then known by its length only.  For `MTAR` the code
sets neither `normalSize` nor the masks, so `normalSize` is any member of
`Uninitialised` and FastCDC may cut wherever some mask lets it.

## 3. Runs

Most runs take less than a minute, `features` about two.

| Run | Bounds | Checks |
|---|---|---|
| `pipeline` | 3 backups of 5, 0 and 4 chunks, queue of 2, two delta errors | `RecipesComplete`, `CleanHandOver`, `DoneLoweredAfterDrain`, `RecipesOrdered`, `DeliversInOrder` (refinement of `Delivery`, liveness included) |
| `ring_queue` | blocks of 2 or 4 slots; queues constructed for 1, 2 and 4 elements, up to 3, 2 and 5 blocks, up to 6 elements; the blocking queue with 3 elements | `FifoContents`, `RaceFree`, `AssertsHold`, `DrainedAtExit`, `HoldsSize`, `NoLostWakeup` |
| `container_store` | containers of 4 cells, 2 cache slots, 4 chunks of 1 or 3 cells, 1 failed open, stale files 0 and 1 | `CacheCoherent`, `ReadBack`, `HeldIntact`, `WriteOnce` |
| `delta_dedup` | 5 contents of 4 bytes or 1, 2 features, deltas of 3, 5 and 6 bytes, buffers rounded up by at most 1, 2 backups of 3 chunks, 1 error | `RestoreCorrect`, `Accounting`, `FPindexSound` |
| `palantir` | 4 contents, one feature per tier, spans 1 and 0, 4 backups, 4 chunks in all, 1 error | `RestoreCorrect`, `DeltaFits`, `SFnumExact`, `Retention`, `SimilarBase` |
| `locality` | 5 contents, 3 backups, 6 chunks in all, ids modulo 32 | `RangeOnlyWhenEmpty` |
| `migratory` | every list of 3 files of up to 2 chunks, 2 of them backed up, blocks of 4 bytes, 1 lost file | `Rearranged`, `Grouped`, `SameInput`, `WholeFile` |
| `chunker` | blocks of 2, containers of 6, segments of 2 headers, window 36, margin 12; 282 lists of archives for the tar forms, 36 for MTAR, 10 lists of flat files for the others | `Partition`, `WindowInvisible`, `FitsContainer`, `AstrayOnlyIfMisled`, `RestoreExact`, `Terminates` |
| `lz4` | `U16_RANGE` 24; about 3500 calls with inputs of 0 to 1200 bytes | `DecodedPrefix`, `RoundTrip`, `StaysInBounds` |
| `features` | up to 80 bytes fed in pieces of 0 to 40; 4 chunks of up to 50 bytes, 3 interchangeable keys, words of 12 bits, windows of 3 | `StreamEqualsOneShot`, `SFExact`, `IndexInverse` |

Why the bounds are enough: in `pipeline` the queue fills and empties, an empty
file lies between two others and every pair of thread positions occurs.  In
`container_store` a container may be filled exactly, hold one to four chunks
or be lost, and with four containers and two slots slots are reused.  In
`delta_dedup` the contents are similar pair by pair through different
features, so that a base may be found by the first or the second feature and a
chunk similar to a delta chunk exists; one content does not compress, one is
below the gate, one is a header, or data with the same bytes; a delta may be
smaller than its chunk, larger within the rounding of `malloc`, or too large.  In
`palantir` an entry is written, refreshed by a duplicate, expires, is emptied
and refilled within four backups, and contents share features of the first, of
the second or only of the third tier.  In `locality` a run of unique chunks
follows a duplicate of the same or an earlier backup, with headers in between,
and backups may be empty.  In `migratory` files are empty, shorter and longer
than a block, and a file's end falls on and off a block's.  In
`chunker` the proportions are those of the code (margin = headers per segment
times container, window = three margins, headers of a segment together smaller
than a container); flat files end below, at and above the end of a window, and
members of every kind fall before, across and after it; a second archive is
read with the parser state the first has left; archives with a member that
misleads the parser have it before and behind others.  In `ring_queue` one block
grows into a circle of three, a larger one wraps, and five blocks are made by
the constructor; both threads load every stale value the fences allow, and
`malloc` fails when the blocks are used up.  In `lz4` matches have distances 1
to 9, around 16 and around the largest; lengths lie around 15, 18, 270 and the
ends of the buffers; and the room on both sides takes every value around what
is needed.  In `features` pieces fill the buffer exactly, partly and several
times over for both widths, and with three keys a record may be similar to one
by its first super-feature and to another by a later one.

`CHECK_DEADLOCK` is off where the model really may stop: in `DeltaDedup` when
all backups are taken, in `Palantir` and `Locality` for the same reason, in
`Features` when `MaxFed` bytes are fed, in the `Pipeline` runs, where the
chunker may spin for ever after a delta error (which is what
`pipeline_push_stuck` shows), and in `BlockingQueue`, where the consumer waits
when all elements are taken; that it never waits in vain is `NoLostWakeup`.

Fairness.  `Pipeline` assumes weak fairness of each thread's steps, i.e. that
the operating system goes on scheduling a thread that can run; `Chunker`
assumes the same of its one thread.  Nothing is assumed about `Push` finding
room or `Pop` finding a chunk.  `Delivery` asks for progress only until the
first delta error.  No fairness is assumed of `BlockingQueue`: a relaxed load
may go on finding an old value, and what matters of its progress is stated as
the invariant `NoLostWakeup`.

### Disagreements

Two runs show that the code does something else than a comment says; each is
a finding in `PROJECT.json`.

| Run | Comment | What the code does |
|---|---|---|
| `pipeline_push_stuck` | `Push`: "@return false fails" (`messageQueue.h:72`) | after a delta error on a long file `Push` never returns and `main` waits in `join` |
| `locality_restore` | "restore backup if you need" (`main.cc:172`) | a local delta is encoded against `lz4ChunkBuffer`, not against the base it records |

More observations follow from the models and have no run of their own:

* after a delta error `done_` is still up when the next backup starts, although
  `messageQueue.h:33` says it shows "whether the whole process is done"; the
  method thread may then leave its loop while the chunker is cutting;
* a delta error leaves a fingerprint in `FPindex` ("(fp,chunkid)",
  `absmethod.h:64`) whose chunk was never stored; `FPindexSound` bounds the
  damage to one fingerprint per error;
* a duplicate takes over the `HeaderFlag` of the chunk stored first, so a data
  chunk with the bytes of a stored header chunk enters the header recipe and
  the backup does not restore.  `RestoreCorrect` leaves such histories out
  (`Apart`); the run `delta_dedup` has them;
* a delta larger than its chunk overruns the heap in Finesse and NTransForm:
  chunk buffers are `malloc(cp)` (`chunker.cc:156`), Finesse prints "bug" and
  goes on (`Finesse.cc:114-118`), NTransForm does not look, and both copy
  `saveSize` bytes over the chunk (`Finesse.cc:126`, `NTrans.cc:86`).  A chunk
  that is similar by its features only can have such a delta; in NTransForm,
  which has no smallest size for delta encoding, all tiny chunks share their
  super-features.  `RestoreCorrect` holds until then.  Palantir copies
  in the same way, but its false-fit test keeps every delta within its chunk
  (`DeltaFits`).  `DeltaReduct` is a `uint64_t`: where a delta is larger, the
  difference added to it wraps.  `Accounting` is stated over the integers, so
  in the code it holds modulo 2^64;
* `odess_similarity_detection.h:112-113` says that `GetSimilarRecordsKeys`
  finds "all similar records" and "After that, remove key from the key-feature
  table".  It returns one key, of the first super-feature that has another,
  and removes nothing.  Being similar is symmetric, but what it returns is not:
  of three records the first may return the second and the second the third;
* Palantir's `SF_Find` finds entries that `CleanIndex` has erased, although
  its comment says "return -1 if not found" (`palantir.cc:212`);
  `SimilarBase` shows that the base is still a proper one;
* `chunker.cc:385` says that it does not matter where `CutPointTarHeader`
  breaks off, `NextChunkType` being global; but a segment of sixteen members
  may take sixteen containers and sixteen headers where the window guarantees
  sixteen containers.  Its last member is then cut short, line 437 sets the
  parser to `FILE_HEADER`, and the next window takes member data for a header.
  `AstrayOnlyIfMisled` and `RestoreExact` hold as long as that does not happen
  (`clipped`);
* `chunker.cc:393` says that of two headers in a row the first does not guide
  the cutting, "for example a directory".  But `CutPointTarFast` expects a header
  behind every typeflag other than REGTYPE, AREGTYPE, `x` and `L`
  (`chunker.cc:238-283`), and valid archives have data behind others:
  global pax headers `g`, long link names `K`, sparse files `S`
  (`tarType.h`), and CONTTYPE.  Old archives have regular files of type
  AREGTYPE, whose size it sets to 0 (`chunker.cc:265`).  In all of these it
  takes the first block of the data for a header, with TAR, TAR_MultiHeader and
  MTar alike.  `AstrayOnlyIfMisled` says that, `clipped` aside, this is the only
  way it loses the members.  The copy of the parser in `restoreHeaderFile` does
  not set the size of AREGTYPE to 0; it only meets those that are zero blocks
  in archives the chunker could follow;
* `ChunkerInit` treats `MTAR` like `FIXED_SIZE` (`chunker.cc:43`), but `MTar`
  ends with `chunkType` FASTCDC, which then cuts with uninitialised masks and
  normal size.  The file is
  still tiled, but where it is cut is arbitrary, and the chunks fit a container
  only if `normalSize` happens to be no larger than the largest chunk
  (`Initialised`);
* `size_approx` may follow `next` to a block whose construction it has not
  seen if it runs while the producer allocates; `MessageQueue` calls only
  `try_enqueue`, which never does, and asks after `done_`;
* `getFeatureList` records a window before it adds the byte behind it, so the
  last window of a chunk never counts and a chunk of one window or less has
  all features 0; a Finesse sub-chunk shorter than the window has feature 0.
  Such chunks are similar to each other whatever they hold;
* `compareNat` returns true for equal names, so it is no strict weak order;
  names in one directory differ.

## 4. Proofs

TLAPS checks the theorems below for every value of the constants that the named
assumptions allow; the assumptions are evaluated by TLC in every run.  Each
invariant was checked by TLC on the run's instance before it was proved.  In
each module there is one lemma or one step per action, and the lemmas about
sequences, sets and numbers are about arbitrary ones.

### PipelineProofs

For every number of backups, all chunk counts, every queue size and every
bound on errors (`PipelineAssumption`):

* `TypeCorrect`: `Spec => []TypeOK`;
* `InvariantHolds`: `Spec => [](TypeOK /\ IInv)`;
* `RecipesCompleteHolds`, `CleanHandOverHolds`, `RecipesOrderedHolds`: the
  invariants the run checks;
* `DoneLoweredHolds`: the action property, from the invariant;
* `Refinement`: `Spec` implies the initial predicate and the next-state
  relation of `Delivery` under the refinement mapping.  While there was no
  delta error each step is a step or a stutter of the loop, by the invariant;
  the first error is `Fail`, and every later step `AfterFailure`.

The invariants are not inductive as they stand: that the recipe is complete
when the method thread leaves depends on where the missing chunks could be.
`IInv` adds, for the case without delta errors,

* `ThreadsJoined`: the threads exist exactly while `main` is in `join`;
* `FlagInv`: `done_` is up only when the chunker has ended, and once the
  method thread has seen both `done_` and the empty queue, the queue stays
  empty;
* `PushedInv`: the chunker ends exactly at the end of the file;
* `FlowInv`: recipe, chunk in hand and queue, in this order, are the chunks
  pushed so far;
* `RecipesInv`: earlier recipes are complete, later ones empty.

`RecipesOrdered` holds with delta errors too, where chunks of one file end up
in the recipe of the next.  `OrderInv` says why: recipes, chunk in hand and
queue, read in this order, increase strictly, and everything in them has been
cut already.

### StorageProofs: the container store

For every container size, number of cache slots above one, mix of chunks and
set of leftover files (`StoreAssumption`): `ReadBackHolds`,
`CacheCoherentHolds`, `HeldIntactHolds`, and the action property
`WriteOnceHolds`.  `StoreInv` has three parts:

* `WriteInv`: every chunk of `chunklist` lies, cell by cell, in the current
  container, in the file of its container, or in one that was lost;
* `CacheInv`: slots are handed out in order and hold complete containers only,
  so that `CacheCoherent` survives the reuse of a slot;
* `HeldInv`: a pointer into the cache belongs to a key that is still in the
  list, and the chunk fetched last is at its front.  The second fetch (the base
  of a delta) can then evict only another key.  With one slot it would not, which
  is why `StoreAssumption` asks for two; the program has 64.

### StorageProofs: migratory compression

For all lists of files, numbers of backups, features, chunk sizes, block sizes
and failures (`MigratoryAssumption`): `RearrangedHolds`, `GroupedHolds`,
`SameInputHolds`, and the action property `WholeFileHolds`.  `MigratoryInv`
has five parts:

* `ReadInv`: `Came`, the chunks read so far, is the files backed up and the
  beginning of the next one; ids count it and `logicalchunkSize` is its size;
* `GroupsInv`: `insertionOrder` has the features of `hashTable`, each once
  (`Listed`); groups hold only chunks that came, with their feature, in order
  (`HeldIn`), and all of them (`Present`); the first chunks of the groups are in
  order too (`FirstsRise`); and the lengths and sizes of the groups add up to
  those of `Came` (`Measured`);
* `MeInv`: `output.me` is empty, or the groups joined after the last backup;
* `OriInv`: `ori` is the files before `file` while none was skipped;
* `LcInv`: the blocks compressed so far do not go beyond the input.

That each chunk is in `output.me` once follows from `Present` and the length
in `Measured`, which grows by one with every chunk, so no permutation has to be
named.  What the proof needs of `FoldLeft` and `FlattenSeq` (a total is the
last partial sum, a join has a place for each of its parts) is proved from
least counterexamples, as for LZ4.

### MethodProofs, DeltaDedupProofs, PalantirProofs and, for Locality, SimilarityProofs

For all contents, features, sizes, backups and errors
(`AbsMethodAssumption`: LZ4 never returns more than the buffer of `chunkSize`
bytes it is given; `DeltaDedupAssumption`, `PalantirAssumption`,
`LocalityAssumption`):

* `AccountingHolds` in all three.  `AccountInv` ties each counter to the
  chunks of `chunklist`: how many there are of each kind, and the sum of the
  room they take.
* `RestoreCorrectHolds` for `DeltaDedup` and `Palantir`.  The property, and with
  it the theorem, is about histories in which no content has come both as a
  header and as data (`Apart`), because a duplicate takes over the flag of the
  chunk stored first (see the observations above); this is so whenever the
  chunker does not separate headers.  For `DeltaDedup` it also ends with an
  overrun.  Nothing is assumed of the contents offered or of the size of deltas.
  `CleanInv` says that until the first delta error every fingerprint leads to
  the chunk with its content, every recipe entry to what was handed over
  (`RecipesFollow`, while `Apart`), and every entry of the similarity index to a
  chunk stored whole (`BasesInv`), so that no delta is made against a delta.
* `FPindexSoundHolds` (`DeltaDedup`): the fingerprints that are wrong are never
  more than the delta errors, although ids are given out again.
* `SimilarBaseHolds` and `SFnumExactHolds` (`Palantir`).  Erased entries still
  name a chunk stored whole, because an entry is only ever overwritten by one
  that does; `SFnumInv` adds that the live entries of a tier are finite, which
  the cardinalities need.
* `RetentionHolds` (`Palantir`).  `AgeInv` states it entry by
  entry, with the types the arithmetic needs; an insertion writes the current
  `Version`, cleaning leaves versions at least `Version - Keep[t]`, and
  `Version` grows only together with cleaning, so a delta error, which skips
  both, does no harm.
* `DeltasFit` (`Palantir`).  The invariant `FitInv` adds `RatioInv`:
  the base chunks take no more room than they had (`stats.base <= baseOri`),
  and `LZ4Ratio` is either the initial 2 or their quotient, hence at least 1.
  A delta longer than its chunk has a ratio below 1 and is a false fit.
* `RangeOnlyWhenEmptyHolds` and `FetchedIsStored` (`Locality`).
  `NeighbourInv` says little of `plchunk` and `DedupGap`: it is the comparison
  with `chunkID - 1`, computed modulo the width of an id, that keeps the
  neighbour in range.

### ChunkerProofs

For all lists of files and well-formed archives and all sizes
(`ChunkerAssumption`, `FilesAssumption`): `PartitionHolds`,
`WindowInvisibleHolds`, `FitsContainerHolds`, `AstrayOnlyIfMisledHolds`,
`RestoreExactHolds`.  The proof rests on what `CutPointTarFast` returns
(`TarCut`) and on `TarCutFits`: if enough of the window is left, or the file
ends in it, the window makes no cut and the parser is right about what
follows.  `ChunkerInv` has the parts

* `WindowInv`: the window lies in the file and the next cut in the window; in a
  big member the window has a margin left or holds the end of the file;
* `SyncInv`: from the next cut on, as many bytes as the parser takes for data
  are data, and then comes a header or the end (`DataAhead`), across windows
  and files; or it stands, expecting no data, right behind a header that
  misleads (`Misguided`), where it stays until it goes astray; after a member
  was cut short it may at most wrongly expect a header; outside a segment `CutPointTarHeader` never leaves data pending;
* `ClipInv`: which chunkers the window cannot cut short;
* `PushedInv`: the chunks cover each file up to the next cut, and are no
  larger than a container; rounding up to blocks does not leave one because a
  container is whole blocks (`RoundUpFacts`);
* `MTarInv`: what `MTar` has written are the data bytes, or all data bytes and
  the header bytes, below its position, in order.

`RestoreExact` needs a second invariant on top of `ChunkerInv`, `RebuildInv`,
because it relates two walks over the archive: the parser's, which puts headers
and data into chunks of their own, and that of `restoreHeaderFile`, which reads
the headers again to know which data follows.  Both are measured against the
archive and not against each other:

* `BackupInv`: the header chunks pushed and the buffer hold the headers from
  the first on, none left out (`Walked`, `Chained`), the data chunks are
  exactly the data below the next cut, each of them one whole member or a
  piece of a big one (`DataBelow`, `Owns`), and the next header is due where
  the data left to the parser ends (`InHand`).  A file that is done has all of
  it (`Complete`).  All this of archives whose headers so far say what follows
  them (`Guides`): once the parser was misled (`Misled`) it goes astray
  before anything is restored.
* `RestoreInv`: what is written tiles the archive up to some position, the data
  chunks used are those below it and the others lie behind it (`Split`), and
  the header read next is the one due there, behind a big member that is still
  being written (`Ahead`, `Pending`).

That the two agree then follows from the archive being well-formed: at data of
a member the next data chunk is the one that begins there (`NextPiece`), and a
header block belongs to no data chunk (`SkipHeader`).  The proof also shows
that no header chunk is empty and that a piece of a big member is never empty
nor leaves the parser in a member with nothing left (`BigCut`).  TLC has
checked `RebuildInv` on the instance of the run `chunker`.

### SimilarityProofs: the feature tables and xxHash

`IndexInverseHolds`: after any sequence of `Put`, of a new or a known key, and
`Delete`, the two tables are inverse, `GetSimilarRecordsKeys` returns only records
that share a super-feature, and one whenever there is one, and
`CountAllSimilarRecords` counts the records for which it finds one.  `TablesInv`
adds that no super-feature of a key is missing in the other table.

`StreamEqualsOneShotHolds`: for every input, every word of the hash and every
way of cutting the input into pieces, XXH32 and XXH64 give, fed by pieces, the
hash of the one call.  `StreamInv` says that the lanes have taken in all whole
stripes of what was fed (`Lanes`), that the first `memsize` bytes of the
buffer are the rest, whatever lies behind them, and that `total_len` is the
length of both together.

### LZ4Proofs

For every input, every hash function, every acceleration, every pair of
capacities and every `U16_RANGE` from 17 to 65536 (`LZ4Assumption`,
`CallsAssumption`):

* `StaysInBoundsHolds`.  The decoder's part, `DecodeInv`, assumes nothing of
  the block but that it consists of bytes: the room that `oexit`, `iexit` and
  the end-of-block rules leave is enough for the strides of eight and
  thirty-two bytes, and no `memcpy` overlaps.  The compressor's part,
  `CompressInv`, follows the room left in the output (`Room`) and the order of
  `anchor`, `ip` and `match` (`Positions`) through the three sections of the
  main loop.
* `DecodedPrefixHolds`: at every step of the decoder what it has written so far
  is the input, from its beginning, also when the block has lost its end.
* `RoundTripHolds`: with `LZ4_compressBound` of room there is a block; the whole
  block gives the whole input if there is room for it and an error if there is
  not; and a block without its end is never taken for the whole.

The argument for the last two has a format in the middle.  `IsBlock` says, of
the bytes alone, that there is a set of places where sequences begin, the last
one reaching the end of the block, such that each sequence (`SequenceAt`) has
its literals from the input and an offset at which the input repeats itself
(`MatchAt`).  One side shows that the compressor only ends with such a block:
`MatchInv` says that the table holds only positions already passed and that
what is found is a match, less than `U16_RANGE` away, and `WriteInv` that the
sequences written so far describe the input up to `anchor` (`Frontier`,
`Written`), including the token that is patched after the match has been
counted.  The other side shows that the decoder, reading such a block,
stays at those places and that its output agrees with the input so far
(`Decoding`); copies in strides that run past their end write rubbish only
where the next sequence will write (`Repeats`).  A block that has lost its end
is the same block read with a smaller `iend`.  `RoundInv` joins the two sides.

The loops inside one action (counting a match, writing a run of 255s, copying
in strides) are recursive functions.  The library's induction theorems cannot
be used with these provers, so each fact about such a loop is proved from a
least counterexample (`LeastOf`): if it failed for some n there would be a
least such n, and the step before it contradicts that.

### Only model-checked

* Liveness: `Terminates`, `PushReturns`, the fairness part of
  `DeliversInOrder`.  The prover has no rules for it.
* `SFExact`: that the extractors compute the features they are defined by, over
  folds and sorted sequences.
* The ring and `NoLostWakeup`: the views of `WeakMemory` are functions over a
  growing history; no inductive invariant has been worked out for them.

## 5. Plan

The order followed is that of importance: the two threads first, then the
store, the methods, the chunker, then what they stand on: the ring, LZ4 and
the features.  What is left:

1. Proofs: `NoLostWakeup` of `BlockingQueue` and `AssertsHold` of `RingQueue`;
   `SFExact` of `Features`.
2. `compareNat` and `ThirdCutPointHashMin` as pure algorithms.
3. The composition of the chunker with `DeltaDedup` and `restoreHeaderFile`.

## 6. Not modelled

* xdelta3: only its header is in the repository.  An encoding is invertible
  with the same source.
* SHA-256 fingerprints (`GenerateHash`): taken to identify contents.
* `ThirdCutPointHashMin`, `compareNat` and `traverse_dir`: numeric or text
  kernels; the models take any part of a chunk and any list of files.
* Of LZ4: dictionaries, streaming, `destSize`, partial decoding, 32-bit and
  big-endian builds, the obsolete functions.  The program calls none of them.
* Of the ring: moving and destroying a queue, `max_capacity`, and the
  semaphores of Windows and macOS.
* Of `FeatureIndexTable`: `SF_Find` and `SF_Insert`, and the class of
  `odess_multi_layered.h`: never called.
* lru11 beyond what the program calls.
* Option parsing, timers, `PrintChunkInfo`, `Save_to_File_*`: output only.
* `writing()` and `ProcessLastContainer`: never called.
* `src/app/delta.cc`: a separate experiment.
* Malformed tar archives; sizes in base 256, which the parser does not read;
  size fields of members that have no data, which POSIX allows for links.
* What the parser makes of member data once it has taken it for a header.
* In LZ4 the reads of `LZ4_count` ahead of a match and the eight bytes read for
  `LZ4_hash5` are not among the accesses `StaysInBounds` records.
* Memory exhaustion (except in the ring) and leaks.

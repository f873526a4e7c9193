----------------------------- MODULE RingQueue ------------------------------
(***************************************************************************)
(* moodycamel::ReaderWriterQueue (src/include/readerwriterqueue.h), the    *)
(* lock-free ring under MessageQueue: a circular list of circular buffers, *)
(* one producer, one consumer, no lock.  Shared fields are weak atomics of *)
(* WeakMemory; one action is one load of a field the other thread writes,  *)
(* with the local work and the own stores up to the next such load.        *)
(*                                                                         *)
(* The producer enqueues 1, 2, 3, ...; elements are otherwise opaque.  The *)
(* producer may finish as the chunker does, by raising a sequentially      *)
(* consistent done flag, and the consumer may then leave as ProcessTrace   *)
(* does, when it has seen the flag and size_approx is 0.                   *)
(***************************************************************************)
EXTENDS WeakMemory

CONSTANTS
  MAX_BLOCK_SIZE,  \* slots of a large block, a power of two
  Uses             \* the uses to check: api is "plain" or "blocking", size is what
                   \* the queue is constructed with, malloc fails beyond blocks
                   \* blocks and at most items elements are enqueued

P == "producer"
C == "consumer"

\* ceilToPow2: the least power of two that is not less than x.
ceilToPow2(x) ==
  LET powers == {2 ^ k : k \in 0 .. x}
  IN  CHOOSE p \in powers : p >= x /\ \A q \in powers : q >= x => p <= q

ASSUME RingAssumption ==
  /\ MAX_BLOCK_SIZE >= 2 /\ MAX_BLOCK_SIZE = ceilToPow2(MAX_BLOCK_SIZE)
  /\ Uses \subseteq [api : {"plain", "blocking"}, size : Nat \ {0},
                     blocks : Nat \ {0}, items : Nat]

VARIABLES
  use,               \* how the queue is used
  m,                 \* the shared memory
  size,              \* size[b]: slots of block b (sizeMask + 1); 0: no block
  largestBlockSize,
  localFront,        \* localFront[b]: the producer's copy of front
  localTail,         \* localTail[b]: the consumer's copy of tail
  pPc, canAlloc,     \* producer: where it is, and the AllocationMode
  cPc, cOp,          \* consumer: where it is, and the operation it runs
  cBlock, cSize,     \* nextBlock or the walker of size_approx, and its sum
  sent, got,         \* elements enqueued, and those dequeued in order (history)
  peeked,            \* what the last peek found, 0 for nothing
  asserted           \* every assert so far held

producerVars == <<localFront, largestBlockSize, size, pPc, canAlloc, sent>>
consumerVars == <<localTail, cPc, cOp, cBlock, cSize, got, peeked>>
vars == <<use, m, size, largestBlockSize, localFront, localTail, pPc, canAlloc,
          cPc, cOp, cBlock, cSize, sent, got, peeked, asserted>>

-----------------------------------------------------------------------------
(* The shared fields: locations are numbered, the roots first *)

Blocks == 1 .. use.blocks

\* The constructor makes one block that fits n elements and a spare slot, or
\* several large ones.
InitialBlockCount(n) ==
  IF ceilToPow2(n + 1) > MAX_BLOCK_SIZE * 2
  THEN (n + MAX_BLOCK_SIZE * 2 - 3) \div (MAX_BLOCK_SIZE - 1) ELSE 1

\* Mutant: no spare slot.
InitialBlockSize_NoSpare(n) ==
  IF ceilToPow2(n) > MAX_BLOCK_SIZE * 2 THEN MAX_BLOCK_SIZE
  ELSE IF n = 1 THEN 2 ELSE ceilToPow2(n)

InitialBlockSize(n) ==
  IF ceilToPow2(n + 1) > MAX_BLOCK_SIZE * 2 THEN MAX_BLOCK_SIZE ELSE ceilToPow2(n + 1)

\* The slots of the largest block there can be.
SlotBound == LET s == InitialBlockSize(use.size)
             IN  IF s < MAX_BLOCK_SIZE THEN MAX_BLOCK_SIZE ELSE s

FrontBlock == 1
TailBlock == 2
Done == 3
Count == 4
Sema == 5
Base(b) == 5 + (b - 1) * (3 + SlotBound)
Front(b) == Base(b) + 1
Tail_(b) == Base(b) + 2
NextOf(b) == Base(b) + 3
Slot(b, k) == Base(b) + 4 + k
Locations == 1 .. Base(use.blocks + 1)

\* The producer never loads what only the consumer waits for.
Loaders == [l \in Locations |-> IF l \in {Done, Count, Sema} THEN {C} ELSE {P, C}]

\* The memory after a step.
Becomes(mem) == m' = Forget(mem, Loaders)

\* Block::Block, with the tail and next that inner_enqueue gives it.
Block(mem, b, tail, next) ==
  Write(Write(Write(mem, P, Front(b), 0), P, Tail_(b), tail), P, NextOf(b), next)

-----------------------------------------------------------------------------
(* The constructor *)

\* A new queue for n elements: its blocks form a circle.
Constructed(n) ==
  LET count == InitialBlockCount(n)
      Is(l, Field(_)) == \E b \in 1 .. count : l = Field(b)
  IN  NewMemory({P, C},
        [l \in Locations |->
           CASE l \in {FrontBlock, TailBlock} -> 1
             [] l \in {Done, Count, Sema} \/ Is(l, Front) \/ Is(l, Tail_) -> 0
             [] Is(l, NextOf) -> ((CHOOSE b \in 1 .. count : l = NextOf(b)) % count) + 1
             [] OTHER -> Garbage])

RingInit ==
  /\ use \in Uses
  /\ m = Constructed(use.size)
  /\ largestBlockSize = InitialBlockSize(use.size)
  /\ size = [b \in Blocks |-> IF b <= InitialBlockCount(use.size)
                              THEN InitialBlockSize(use.size) ELSE 0]
  /\ localFront = [b \in Blocks |-> 0] /\ localTail = [b \in Blocks |-> 0]
  /\ pPc = "idle" /\ canAlloc = FALSE /\ sent = 0
  /\ cPc = "idle" /\ cOp = "try_dequeue" /\ cBlock = 0 /\ cSize = 0
  /\ got = <<>> /\ peeked = 0
  /\ asserted = TRUE

-----------------------------------------------------------------------------
(* inner_enqueue *)

PEnd(ok) == IF ok /\ use.api = "blocking" THEN "signal" ELSE "idle"

EnqueueReturns(ok) == pPc' = PEnd(ok) /\ sent' = IF ok THEN sent + 1 ELSE sent

\* Mutant: the new tail is stored before the element is in place.
Accepted_TailFirst(mem, b, k) ==
  Write(FenceRelease(Store(mem, P, Tail_(b), (k + 1) % size[b]), P), P, Slot(b, k), sent + 1)

\* The element is built in slot k of the tail block and the tail moved on.
Accepted(mem, b, k) ==
  Store(FenceRelease(Write(mem, P, Slot(b, k), sent + 1), P),
        P, Tail_(b), (k + 1) % size[b])

\* The tail block has room as far as the producer knows, or has when it looks
\* at front.
EnqueueBegin ==
  /\ pPc = "idle" /\ sent < use.items
  /\ canAlloc' \in BOOLEAN
  /\ LET b == Own(m, P, TailBlock)
         k == Own(m, P, Tail_(b))
         next == (k + 1) % size[b]
     IN  \/ /\ next # localFront[b]
            /\ Becomes(Accepted(FenceAcquire(m, P), b, k))
            /\ EnqueueReturns(TRUE)
            /\ UNCHANGED localFront
         \/ /\ next = localFront[b]
            /\ \E x \in Loadable(m, P, Front(b)) :
                 LET front == ValueAt(m, Front(b), x)
                     seen == FenceAcquire(Load(m, P, Front(b), x), P)
                 IN  /\ localFront' = [localFront EXCEPT ![b] = front]
                     /\ IF next # front
                        THEN Becomes(Accepted(seen, b, k)) /\ EnqueueReturns(TRUE)
                        ELSE Becomes(seen) /\ pPc' = "full" /\ UNCHANGED sent
  /\ UNCHANGED <<use, size, largestBlockSize, consumerVars, asserted>>

\* The block ahead is not the front block: it is free.
FullBlock ==
  /\ pPc = "full"
  /\ \E x \in Loadable(m, P, FrontBlock) :
       LET seen == Load(m, P, FrontBlock, x)
           b == Own(m, P, TailBlock)
       IN  IF Own(m, P, NextOf(b)) # ValueAt(m, FrontBlock, x)
           THEN Becomes(FenceAcquire(seen, P)) /\ pPc' = "useNext"
           ELSE Becomes(seen) /\ pPc' = "noRoom"
  /\ UNCHANGED <<use, size, largestBlockSize, localFront, canAlloc, sent,
                 consumerVars, asserted>>

\* The element is built in block b, then the tail block moves there.
Advanced(mem, b, k) ==
  Store(FenceRelease(Store(Write(mem, P, Slot(b, k), sent + 1),
                           P, Tail_(b), (k + 1) % size[b]), P),
        P, TailBlock, b)

UseNext ==
  /\ pPc = "useNext"
  /\ LET b == Own(m, P, NextOf(Own(m, P, TailBlock)))
         k == Own(m, P, Tail_(b))
     IN  \E x \in Loadable(m, P, Front(b)) :
           /\ Becomes(Advanced(FenceAcquire(Load(m, P, Front(b), x), P), b, k))
           /\ localFront' = [localFront EXCEPT ![b] = ValueAt(m, Front(b), x)]
           /\ asserted' = (asserted /\ ValueAt(m, Front(b), x) = k)
  /\ EnqueueReturns(TRUE)
  /\ UNCHANGED <<use, size, largestBlockSize, canAlloc, consumerVars>>

NewBlockSize == IF largestBlockSize >= MAX_BLOCK_SIZE THEN largestBlockSize
                ELSE largestBlockSize * 2

\* Block n is made with the element in its first slot, linked behind the tail
\* block b and made the tail block.
Linked(mem, b, n) ==
  LET filled == Write(Block(mem, n, 1, Own(mem, P, NextOf(b))), P, Slot(n, 0), sent + 1)
  IN  Store(FenceRelease(Store(filled, P, NextOf(b), n), P), P, TailBlock, n)

\* No free block ahead: a new one is made if that is allowed and malloc works.
Allocate ==
  /\ pPc = "noRoom" /\ canAlloc
  /\ \E n \in Blocks :
       /\ size[n] = 0 /\ \A b \in Blocks : b < n => size[b] # 0
       /\ Becomes(Linked(m, Own(m, P, TailBlock), n))
       /\ size' = [size EXCEPT ![n] = NewBlockSize]
       /\ localTail' = [localTail EXCEPT ![n] = 1]
  /\ largestBlockSize' = NewBlockSize
  /\ EnqueueReturns(TRUE)
  /\ UNCHANGED <<use, localFront, canAlloc, cPc, cOp, cBlock, cSize, got, peeked,
                 asserted>>

\* try_enqueue, or malloc returns no memory.
Refuse ==
  /\ pPc = "noRoom" /\ (canAlloc => \A b \in Blocks : size[b] # 0)
  /\ EnqueueReturns(FALSE)
  /\ UNCHANGED <<use, m, size, largestBlockSize, localFront, canAlloc,
                 consumerVars, asserted>>

\* The chunker has pushed its last chunk: done_ = true.
RaiseDone ==
  /\ pPc = "idle" /\ use.api = "plain"
  /\ Becomes(Store(FenceRelease(m, P), P, Done, 1))
  /\ pPc' = "finished"
  /\ UNCHANGED <<use, size, largestBlockSize, localFront, canAlloc, sent,
                 consumerVars, asserted>>

inner_enqueue == EnqueueBegin \/ FullBlock \/ UseNext \/ Allocate \/ Refuse

-----------------------------------------------------------------------------
(* try_dequeue, pop and peek *)

\* The element in slot k is read or dropped, destroyed, and front moved on.
Removed(mem, b, k) ==
  Store(FenceRelease(Write(mem, C, Slot(b, k), Garbage), C),
        C, Front(b), (k + 1) % size[b])

\* The operation ends with the element in slot k of block b.
Take(mem, b, k, op) ==
  /\ IF op = "peek"
     THEN /\ Becomes(Touch(mem, C, Slot(b, k)))
          /\ peeked' = Own(mem, C, Slot(b, k))
          /\ UNCHANGED got
     ELSE /\ Becomes(Removed(mem, b, k))
          /\ got' = Append(got, Own(mem, C, Slot(b, k)))
          /\ peeked' = 0
  /\ cPc' = "idle"

\* The front block has an element as far as the consumer knows, or has when
\* it looks at tail.
DequeueBegin ==
  /\ cPc = IF use.api = "blocking" THEN "dequeue" ELSE "idle"
  /\ cOp' \in (IF use.api = "blocking" THEN {cOp} ELSE {"try_dequeue", "pop", "peek"})
  /\ LET b == Own(m, C, FrontBlock)
         k == Own(m, C, Front(b))
     IN  \/ /\ k # localTail[b]
            /\ Take(FenceAcquire(m, C), b, k, cOp')
            /\ UNCHANGED localTail
         \/ /\ k = localTail[b]
            /\ \E x \in Loadable(m, C, Tail_(b)) :
                 LET seen == Load(m, C, Tail_(b), x)
                 IN  /\ localTail' = [localTail EXCEPT ![b] = ValueAt(m, Tail_(b), x)]
                     /\ IF k # localTail'[b] THEN Take(FenceAcquire(seen, C), b, k, cOp')
                        ELSE Becomes(seen) /\ cPc' = "tailBlock" /\ UNCHANGED <<got, peeked>>
  /\ UNCHANGED <<use, producerVars, cBlock, cSize, asserted>>

\* Another block ahead, or nothing.  In the blocking queue nothing is an
\* assertion failure.
ReadTailBlock ==
  /\ cPc = "tailBlock"
  /\ \E x \in Loadable(m, C, TailBlock) :
       LET seen == Load(m, C, TailBlock, x)
           other == Own(m, C, FrontBlock) # ValueAt(m, TailBlock, x)
       IN  /\ Becomes(IF other THEN FenceAcquire(seen, C) ELSE seen)
           /\ cPc' = IF other THEN "recheck" ELSE "idle"
           /\ asserted' = (asserted /\ (other \/ use.api = "plain" \/ cOp = "peek"))
  /\ UNCHANGED <<use, producerVars, localTail, cOp, cBlock, cSize, got, peeked>>

\* Mutant: the front block is not looked at again.
Recheck_Skipped ==
  /\ cPc = "recheck"
  /\ cPc' = "next"
  /\ UNCHANGED <<use, m, producerVars, localTail, cOp, cBlock, cSize, got, peeked, asserted>>

\* The producer may have filled the front block before it moved on.
Recheck ==
  /\ cPc = "recheck"
  /\ LET b == Own(m, C, FrontBlock)
         k == Own(m, C, Front(b))
     IN  \E x \in Loadable(m, C, Tail_(b)) :
           LET seen == FenceAcquire(Load(m, C, Tail_(b), x), C)
           IN  /\ localTail' = [localTail EXCEPT ![b] = ValueAt(m, Tail_(b), x)]
               /\ IF k # localTail'[b] THEN Take(seen, b, k, cOp)
                  ELSE Becomes(seen) /\ cPc' = "next" /\ UNCHANGED <<got, peeked>>
  /\ UNCHANGED <<use, producerVars, cOp, cBlock, cSize, asserted>>

\* The front block is empty: the next one is looked up,
ReadNext ==
  /\ cPc = "next"
  /\ LET b == Own(m, C, FrontBlock)
     IN  \E x \in Loadable(m, C, NextOf(b)) :
           /\ Becomes(Load(m, C, NextOf(b), x))
           /\ cBlock' = ValueAt(m, NextOf(b), x)
  /\ cPc' = "advance"
  /\ UNCHANGED <<use, producerVars, localTail, cOp, cSize, got, peeked, asserted>>

\* and becomes the front block, except for peek; it has an element.
Advance ==
  /\ cPc = "advance"
  /\ LET b == cBlock
         k == Own(m, C, Front(b))
         mem == Touch(m, C, Front(b))
     IN  \E x \in Loadable(m, C, Tail_(b)) :
           LET tail == ValueAt(m, Tail_(b), x)
               seen == FenceAcquire(Load(mem, C, Tail_(b), x), C)
           IN  /\ IF cOp = "peek"
                  THEN /\ Take(Load(FenceAcquire(mem, C), C, Tail_(b), x), b, k, cOp)
                       /\ UNCHANGED localTail
                  ELSE /\ Take(Store(FenceRelease(seen, C), C, FrontBlock, b), b, k, cOp)
                       /\ localTail' = [localTail EXCEPT ![b] = tail]
               /\ asserted' = (asserted /\ k # tail)
  /\ cBlock' = 0
  /\ UNCHANGED <<use, producerVars, cOp, cSize>>

try_dequeue == DequeueBegin \/ ReadTailBlock \/ Recheck \/ ReadNext \/ Advance

-----------------------------------------------------------------------------
(* size_approx, as ProcessTrace uses it: after it has seen done_ *)

ReadDone ==
  /\ cPc = "idle" /\ use.api = "plain"
  /\ \E x \in Loadable(m, C, Done) :
       /\ Becomes(LoadAcquire(m, C, Done, x))
       /\ ValueAt(m, Done, x) = 1
  /\ cPc' = "size" /\ cBlock' = Own(m, C, FrontBlock) /\ cSize' = 0
  /\ UNCHANGED <<use, producerVars, localTail, cOp, got, peeked, asserted>>

\* Mutant: the walk stops at the first block.
EndOfWalk_Here(b, next) == TRUE

\* The walk from block b to the next is back where it began.
EndOfWalk(b, next) == next = Own(m, C, FrontBlock)

\* The elements of one block are added; an empty queue ends the loop.
SizeApprox ==
  /\ cPc = "size"
  /\ \E x \in Loadable(m, C, Tail_(cBlock)), y \in Loadable(m, C, NextOf(cBlock)) :
       LET b == cBlock
           sum == cSize + ((ValueAt(m, Tail_(b), x) - Own(m, C, Front(b))) % size[b])
           last == EndOfWalk(b, ValueAt(m, NextOf(b), y))
       IN  /\ Becomes(FenceAcquire(Load(Load(m, C, Tail_(b), x), C, NextOf(b), y), C))
           /\ cPc' = IF last THEN IF sum = 0 THEN "finished" ELSE "idle" ELSE "size"
           /\ cBlock' = IF last THEN 0 ELSE ValueAt(m, NextOf(b), y)
           /\ cSize' = IF last THEN 0 ELSE sum
  /\ UNCHANGED <<use, producerVars, localTail, cOp, got, peeked, asserted>>

-----------------------------------------------------------------------------
(* Properties *)

Sx == INSTANCE SequencesExt

Now(l) == ValueAt(m, l, Newest(m, l))

\* Block b, with the newest indices and elements.
BlockContents(b) ==
  [j \in 1 .. ((Now(Tail_(b)) - Now(Front(b))) % size[b]) |->
     Now(Slot(b, (Now(Front(b)) + j - 1) % size[b]))]

\* What is in the ring: the blocks from the front block to the tail block.
Contents ==
  LET block[k \in Blocks] == IF k = 1 THEN Now(FrontBlock) ELSE Now(NextOf(block[k - 1]))
      last == CHOOSE k \in Blocks : /\ block[k] = Now(TailBlock)
                                    /\ \A j \in 1 .. (k - 1) : block[j] # block[k]
  IN  Sx!FlattenSeq([k \in 1 .. last |-> BlockContents(block[k])])

\* Whatever is loaded stale and whichever blocks are used, added or switched
\* to, what was dequeued followed by what is in the ring is what was
\* enqueued, in order, and peek shows the element that comes next.
FifoContents ==
  /\ got \o Contents = [k \in 1 .. sent |-> k]
  /\ peeked # 0 => peeked = Len(got) + 1

\* No thread reads or writes an element, a shadow index or a new block unless
\* the other thread's last access happened before, and none reads raw memory.
RaceFree == ~m.race

\* The asserts of the queue hold: a block the producer turns to is empty, a
\* block the consumer turns to is not, and in the blocking queue a granted
\* wait finds an element and m_count is never below -1.
AssertsHold == asserted

\* MessageQueue::IsEmpty after done_: the consumer leaves only when it has
\* taken everything, although size_approx reads relaxed atomics.
DrainedAtExit == cPc = "finished" => Len(got) = sent

\* "Constructs a queue that can hold at least `size` elements": a producer
\* that knows how far the consumer is finds no room only when so many are in.
HoldsSize ==
  LET b == Own(m, P, TailBlock)
  IN  /\ pPc = "noRoom"
      /\ localFront[b] = Now(Front(b))
      /\ Place(m.cur[P], FrontBlock) = Newest(m, FrontBlock)
      => Len(Contents) >= use.size
=============================================================================

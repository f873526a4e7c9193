--------------------------- MODULE BlockingQueue ----------------------------
(***************************************************************************)
(* The users of RingQueue.  "plain": ReaderWriterQueue used as             *)
(* MessageQueue does, the consumer polling.  "blocking":                   *)
(* BlockingReaderWriterQueue, which counts the elements in a               *)
(* LightweightSemaphore (src/include/atomicops.h): m_count is the number   *)
(* of elements, or minus one while the consumer waits, and only then the   *)
(* kernel's semaphore is used.                                             *)
(***************************************************************************)
EXTENDS RingQueue

VARIABLE
  call   \* "tryWait", "wait", "timed" (timeout > 0) or "poll" (timeout = 0)

bvars == <<vars, call>>

Init ==
  /\ RingInit
  /\ call = "wait"

-----------------------------------------------------------------------------
(* LightweightSemaphore *)

\* Mutant: the consumer is only woken when more than one waits.
Signal_Rarely ==
  /\ pPc = "signal"
  /\ pPc' = IF Now(Count) < -1 THEN "post" ELSE "idle"
  /\ Becomes(FetchAddRelease(m, P, Count, 1))
  /\ UNCHANGED <<use, size, largestBlockSize, localFront, canAlloc, sent,
                 consumerVars, asserted, call>>

\* signal: one more element; if the consumer waits, it is woken.
Signal ==
  /\ pPc = "signal"
  /\ LET oldCount == Now(Count)
     IN  /\ asserted' = (asserted /\ oldCount >= -1)
         /\ pPc' = IF oldCount < 0 THEN "post" ELSE "idle"
  /\ Becomes(FetchAddRelease(m, P, Count, 1))
  /\ UNCHANGED <<use, size, largestBlockSize, localFront, canAlloc, sent,
                 consumerVars, call>>

\* Semaphore::signal.
Post ==
  /\ pPc = "post"
  /\ Becomes(FetchAddRelease(m, P, Sema, 1))
  /\ pPc' = "idle"
  /\ UNCHANGED <<use, size, largestBlockSize, localFront, canAlloc, sent,
                 consumerVars, asserted, call>>

\* An element is promised to the consumer: try_dequeue or pop follows.
Granted == cPc' = "dequeue"

WaitStep == UNCHANGED <<use, producerVars, localTail, cBlock, cSize, got>>

\* tryWait, alone or at the head of wait: is the count positive?
TryWait ==
  /\ cPc = "idle" /\ use.api = "blocking"
  /\ call' \in {"tryWait", "wait", "timed", "poll"}
  /\ cOp' \in IF call' = "tryWait" THEN {"try_dequeue", "pop"} ELSE {"try_dequeue"}
  /\ \E x \in Loadable(m, C, Count) :
       /\ Becomes(Load(m, C, Count, x))
       /\ cPc' = CASE ValueAt(m, Count, x) > 0 -> "decrement"
                   [] call' = "tryWait" -> "idle"
                   [] OTHER -> "spin"
  /\ WaitStep /\ UNCHANGED <<peeked, asserted>>

\* peek needs no token.
Peek ==
  /\ cPc = "idle" /\ use.api = "blocking"
  /\ cOp' = "peek" /\ cPc' = "dequeue"
  /\ WaitStep /\ UNCHANGED <<m, peeked, asserted, call>>

Decrement ==
  /\ cPc = "decrement"
  /\ Becomes(FetchAddAcquire(m, C, Count, -1))
  /\ Granted
  /\ WaitStep /\ UNCHANGED <<cOp, peeked, asserted, call>>

\* waitWithPartialSpinning: the last of the 1024 looks; the others either
\* find nothing or are this one.
Spin ==
  /\ cPc = "spin"
  /\ \E x \in Loadable(m, C, Count) :
       /\ Becomes(Load(m, C, Count, x))
       /\ cPc' = IF ValueAt(m, Count, x) > 0 THEN "decrement" ELSE "claim"
  /\ WaitStep /\ UNCHANGED <<cOp, peeked, asserted, call>>

\* The count is lowered in advance.
Claim ==
  /\ cPc = "claim"
  /\ Becomes(FetchAddAcquire(m, C, Count, -1))
  /\ IF Now(Count) > 0 THEN Granted
     ELSE cPc' = IF call = "poll" THEN "undo" ELSE "sem"
  /\ WaitStep /\ UNCHANGED <<cOp, peeked, asserted, call>>

\* Semaphore::wait, timed_wait and try_wait: EINTR is retried.
SemTaken ==
  /\ Now(Sema) > 0
  /\ Becomes(FetchAddAcquire(m, C, Sema, -1))
  /\ Granted

SemWait ==
  /\ cPc = "sem"
  /\ SemTaken
  /\ WaitStep /\ UNCHANGED <<cOp, peeked, asserted, call>>

TimesOut ==
  /\ cPc = "sem" /\ call = "timed"
  /\ cPc' = "undo"
  /\ WaitStep /\ UNCHANGED <<m, cOp, peeked, asserted, call>>

\* Mutant: the count is restored and the wait given up, whatever has happened
\* since the timeout.
Undo_Always ==
  /\ cPc = "undo"
  /\ Becomes(FetchAddRelease(m, C, Count, 1))
  /\ cPc' = "idle"
  /\ WaitStep /\ UNCHANGED <<cOp, peeked, asserted, call>>

\* The count is restored: nobody signalled, so the wait has failed,
Undo ==
  /\ cPc = "undo"
  /\ Becomes(FetchAddRelease(m, C, Count, 1))
  /\ cPc' = IF Now(Count) < 0 THEN "idle" ELSE "redo"
  /\ WaitStep /\ UNCHANGED <<cOp, peeked, asserted, call>>

\* or the producer signalled after all: the token is claimed again,
Redo ==
  /\ cPc = "redo"
  /\ Becomes(FetchAddAcquire(m, C, Count, -1))
  /\ cPc' = IF Now(Count) > 0 THEN "trySem" ELSE "undo"
  /\ WaitStep /\ UNCHANGED <<cOp, peeked, asserted, call>>

\* and the semaphore taken, if the producer has come to post it.
TrySem ==
  /\ cPc = "trySem"
  /\ \/ SemTaken
     \/ Now(Sema) = 0 /\ cPc' = "undo" /\ UNCHANGED m
  /\ WaitStep /\ UNCHANGED <<cOp, peeked, asserted, call>>

waitWithPartialSpinning ==
  Spin \/ Claim \/ SemWait \/ TimesOut \/ Undo \/ Redo \/ TrySem

-----------------------------------------------------------------------------
Producer == (inner_enqueue \/ RaiseDone) /\ UNCHANGED call

Consumer ==
  \/ (try_dequeue \/ ReadDone \/ SizeApprox) /\ UNCHANGED call
  \/ TryWait \/ Decrement \/ waitWithPartialSpinning

\* All elements are enqueued and nobody polls any more.
Stopped == cPc = "finished" /\ UNCHANGED bvars

Next == Producer \/ Signal \/ Post \/ Consumer \/ Peek \/ Stopped

Spec == Init /\ [][Next]_bvars

-----------------------------------------------------------------------------
\* The consumer has lowered m_count for the element it waits for or takes.
Holding ==
  \/ cPc \in {"sem", "undo", "trySem"}
  \/ cPc \in {"dequeue", "tailBlock", "recheck", "next", "advance"} /\ cOp # "peek"

\* m_count is exact whenever no signal is under way, also after a timeout that
\* crossed a signal, and a consumer asleep in the kernel's semaphore has been
\* posted, or is about to be, as soon as there is an element for it.
NoLostWakeup ==
  use.api = "blocking" /\ pPc # "signal" =>
    /\ Len(Contents) = Now(Count) + (IF Holding THEN 1 ELSE 0)
    /\ cPc = "sem" => ((Now(Sema) > 0 \/ pPc = "post") <=> Len(Contents) > 0)
=============================================================================

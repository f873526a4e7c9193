------------------------------ MODULE Pipeline ------------------------------
(***************************************************************************)
(* The backup loop of src/src/app/main.cc and the two threads it starts    *)
(* for every backup: Chunker::Chunking, which pushes the chunks of the     *)
(* file into MessageQueue and raises done_, and ProcessTrace of the        *)
(* selected method, which polls "done_ && IsEmpty()" and pops.  The queue  *)
(* and the flag survive from one backup to the next; the threads are       *)
(* joined in between.                                                      *)
(*                                                                         *)
(* A chunk is <<b, k>>: the k-th chunk cut from backup file b.  What       *)
(* ProcessTrace does with a chunk is reduced to its effect on the recipe   *)
(* of the current backup, and to the early return that Finesse, NTransForm *)
(* and Palantir take when the delta encoder reports an empty delta.        *)
(***************************************************************************)
EXTENDS Integers, Sequences

CONSTANTS
  BackupNum,   \* the -n argument: number of backups taken
  ChunkCount,  \* ChunkCount[b]: number of chunks the chunker cuts file b into
  QueueSize,   \* chunks the lock-free queue holds (CHUNK_QUEUE_SIZE)
  MaxErrors    \* bound: delta errors in one run; 0 for Dedup and Odess

Backups == 0 .. (BackupNum - 1)

ASSUME PipelineAssumption ==
  /\ BackupNum \in Nat
  /\ ChunkCount \in [Backups -> Nat]
  /\ QueueSize \in Nat \ {0}
  /\ MaxErrors \in Nat

VARIABLES
  i,          \* loop variable of main: the current backup
  mainPc,     \* "load", "join", "finished", "exited"
  chunkerPc,  \* "none" (no thread), "cut", "push", "done", "exit"
  pushed,     \* chunks of file i that Push has enqueued
  queue,      \* lockFreeQueue_
  done_,      \* MessageQueue::done_
  methodPc,   \* "none", "testDone", "testEmpty", "reset", "pop", "process",
              \* "leave", "exit"
  tmpChunk,   \* <<>> or the one chunk Pop has returned, as a 1-tuple
  recipe,     \* RecipeMap[filename] of every backup
  errors      \* delta errors so far (history)

mainVars    == <<i, mainPc>>
chunkerVars == <<chunkerPc, pushed>>
methodVars  == <<methodPc, tmpChunk, recipe, errors>>
vars == <<i, mainPc, chunkerPc, pushed, queue, done_,
          methodPc, tmpChunk, recipe, errors>>

Chunks == Backups \X (Nat \ {0})

-----------------------------------------------------------------------------
\* The queue is created once, before the loop, with done_ cleared.
Init ==
  /\ i = 0 /\ mainPc = "load"
  /\ chunkerPc = "none" /\ pushed = 0
  /\ queue = <<>> /\ done_ = FALSE
  /\ methodPc = "none" /\ tmpChunk = <<>>
  /\ recipe = [b \in Backups |-> <<>>]
  /\ errors = 0

-----------------------------------------------------------------------------
(* main *)

\* Load file i, set the file names and start both threads.
StartBackup ==
  /\ mainPc = "load" /\ i < BackupNum
  /\ mainPc' = "join"
  /\ chunkerPc' = "cut" /\ pushed' = 0
  /\ methodPc' = "testDone"
  /\ UNCHANGED <<i, queue, done_, tmpChunk, recipe, errors>>

\* LoadChunkFile cannot open the file: exit(EXIT_FAILURE).
LoadFails ==
  /\ mainPc = "load" /\ i < BackupNum
  /\ mainPc' = "exited"
  /\ UNCHANGED <<i, chunkerVars, queue, done_, methodVars>>

\* Both threads have been joined and deleted; the loop goes on.
JoinThreads ==
  /\ mainPc = "join" /\ chunkerPc = "exit" /\ methodPc = "exit"
  /\ i' = i + 1 /\ mainPc' = "load"
  /\ chunkerPc' = "none" /\ methodPc' = "none"
  /\ UNCHANGED <<pushed, queue, done_, tmpChunk, recipe, errors>>

\* The loop ends after backupNum rounds.
LeaveLoop ==
  /\ mainPc = "load" /\ i = BackupNum
  /\ mainPc' = "finished"
  /\ UNCHANGED <<i, chunkerVars, queue, done_, methodVars>>

Main == StartBackup \/ LoadFails \/ JoinThreads \/ LeaveLoop

-----------------------------------------------------------------------------
(* Chunker::Chunking *)

\* The next chunk is cut, or the file is exhausted.
Cut ==
  /\ chunkerPc = "cut"
  /\ chunkerPc' = IF pushed < ChunkCount[i] THEN "push" ELSE "done"
  /\ UNCHANGED <<mainVars, pushed, queue, done_, methodVars>>

\* MessageQueue::Push: try_enqueue is repeated until it finds room, so the
\* step is enabled when there is room and the thread spins otherwise.
Push ==
  /\ chunkerPc = "push"
  /\ Len(queue) < QueueSize
  /\ queue' = Append(queue, <<i, pushed + 1>>)
  /\ pushed' = pushed + 1
  /\ chunkerPc' = "cut"
  /\ UNCHANGED <<mainVars, done_, methodVars>>

\* Mutant: an early return on an empty file skips the flag.
RaiseDoneNotOnEmpty ==
  /\ chunkerPc = "done"
  /\ done_' = (pushed > 0)
  /\ chunkerPc' = "exit"
  /\ UNCHANGED <<mainVars, pushed, queue, methodVars>>

\* outputMQ_->done_ = true; return.
RaiseDone ==
  /\ chunkerPc = "done"
  /\ done_' = TRUE
  /\ chunkerPc' = "exit"
  /\ UNCHANGED <<mainVars, pushed, queue, methodVars>>

ChunkerThread == Cut \/ Push \/ RaiseDone

-----------------------------------------------------------------------------
(* ProcessTrace *)

\* Mutant: the flag is consumed when it is read.
TestDoneAndClear ==
  /\ methodPc = "testDone"
  /\ methodPc' = IF done_ THEN "testEmpty" ELSE "pop"
  /\ done_' = FALSE
  /\ UNCHANGED <<mainVars, chunkerVars, queue, tmpChunk, recipe, errors>>

\* First operand of "done_ && IsEmpty()".
TestDone ==
  /\ methodPc = "testDone"
  /\ methodPc' = IF done_ THEN "testEmpty" ELSE "pop"
  /\ UNCHANGED <<mainVars, chunkerVars, queue, done_, tmpChunk, recipe, errors>>

\* Mutant: the loop is left as soon as done_ is seen.
TestEmptySkipped ==
  /\ methodPc = "testEmpty"
  /\ methodPc' = "reset"
  /\ UNCHANGED <<mainVars, chunkerVars, queue, done_, tmpChunk, recipe, errors>>

\* Second operand, read later: size_approx() == 0.
TestEmpty ==
  /\ methodPc = "testEmpty"
  /\ methodPc' = IF queue = <<>> THEN "reset" ELSE "pop"
  /\ UNCHANGED <<mainVars, chunkerVars, queue, done_, tmpChunk, recipe, errors>>

\* Inside the if: done_ is cleared and the loop is left.
ResetDone ==
  /\ methodPc = "reset"
  /\ done_' = FALSE
  /\ methodPc' = "leave"
  /\ UNCHANGED <<mainVars, chunkerVars, queue, tmpChunk, recipe, errors>>

\* After the loop: done_ is cleared again and the thread ends.
LeaveTrace ==
  /\ methodPc = "leave"
  /\ done_' = FALSE
  /\ methodPc' = "exit"
  /\ UNCHANGED <<mainVars, chunkerVars, queue, tmpChunk, recipe, errors>>

\* Mutant: the newest chunk is taken instead of the oldest.
PopNewest ==
  /\ methodPc = "pop" /\ queue # <<>>
  /\ tmpChunk' = <<queue[Len(queue)]>>
  /\ queue' = SubSeq(queue, 1, Len(queue) - 1)
  /\ methodPc' = "process"
  /\ UNCHANGED <<mainVars, chunkerVars, done_, recipe, errors>>

\* Mutant: the chunk is read but not removed.
PopPeeks ==
  /\ methodPc = "pop" /\ queue # <<>>
  /\ tmpChunk' = <<Head(queue)>>
  /\ methodPc' = "process"
  /\ UNCHANGED <<mainVars, chunkerVars, queue, done_, recipe, errors>>

\* Pop finds a chunk.
Pop ==
  /\ methodPc = "pop" /\ queue # <<>>
  /\ tmpChunk' = <<Head(queue)>>
  /\ queue' = Tail(queue)
  /\ methodPc' = "process"
  /\ UNCHANGED <<mainVars, chunkerVars, done_, recipe, errors>>

\* Pop finds nothing: back to the head of the loop.
PopEmpty ==
  /\ methodPc = "pop" /\ queue = <<>>
  /\ methodPc' = "testDone"
  /\ UNCHANGED <<mainVars, chunkerVars, queue, done_, tmpChunk, recipe, errors>>

\* The chunk is stored or found to be a duplicate and enters the recipe of
\* the file main has set.
Process ==
  /\ methodPc = "process"
  /\ recipe' = [recipe EXCEPT ![i] = Append(@, tmpChunk[1])]
  /\ tmpChunk' = <<>>
  /\ methodPc' = "testDone"
  /\ UNCHANGED <<mainVars, chunkerVars, queue, done_, errors>>

\* "delta error": ProcessTrace returns at once.  The chunk in hand is gone,
\* the queue is not drained and done_ is left as it is.
DeltaError ==
  /\ methodPc = "process" /\ errors < MaxErrors
  /\ errors' = errors + 1
  /\ tmpChunk' = <<>>
  /\ methodPc' = "exit"
  /\ UNCHANGED <<mainVars, chunkerVars, queue, done_, recipe>>

MethodThread ==
  TestDone \/ TestEmpty \/ ResetDone \/ LeaveTrace \/ Pop \/ PopEmpty
    \/ Process \/ DeltaError

-----------------------------------------------------------------------------
\* main has returned from the loop or called exit: nothing more happens.
Stopped ==
  /\ mainPc \in {"finished", "exited"}
  /\ UNCHANGED vars

Next == Main \/ ChunkerThread \/ MethodThread \/ Stopped

\* The operating system schedules every runnable thread again and again.
Spec ==
  /\ Init /\ [][Next]_vars
  /\ WF_vars(Main) /\ WF_vars(ChunkerThread) /\ WF_vars(MethodThread)

-----------------------------------------------------------------------------
(* Properties *)

TypeOK ==
  /\ i \in 0 .. BackupNum
  /\ mainPc \in {"load", "join", "finished", "exited"}
  /\ mainPc = "join" => i < BackupNum
  /\ chunkerPc \in {"none", "cut", "push", "done", "exit"}
  /\ pushed \in Nat
  /\ queue \in Seq(Chunks) /\ Len(queue) <= QueueSize
  /\ done_ \in BOOLEAN
  /\ methodPc \in {"none", "testDone", "testEmpty", "reset", "pop", "process",
                   "leave", "exit"}
  /\ tmpChunk \in Seq(Chunks)
  /\ Len(tmpChunk) = IF methodPc = "process" THEN 1 ELSE 0
  /\ recipe \in [Backups -> Seq(Chunks)]
  /\ errors \in 0 .. MaxErrors

\* The recipe of file b in full: its chunks in the order they were cut.
FullRecipe(b) == [k \in 1 .. ChunkCount[b] |-> <<b, k>>]

\* A backup that main has finished with has its complete recipe, in file
\* order, unless some delta error made ProcessTrace return early: no chunk
\* is lost, duplicated, reordered or filed under another backup by the
\* "done_ && IsEmpty()" hand-over.
RecipesComplete ==
  errors = 0 => \A b \in Backups : b < i => recipe[b] = FullRecipe(b)

\* Between backups the shared queue is as the constructor left it: empty and
\* with done_ cleared, so that the next pair of threads starts afresh.
CleanHandOver ==
  errors = 0 /\ mainPc # "join" => queue = <<>> /\ ~done_

\* done_ is lowered only when the chunker has ended and everything it pushed
\* has been taken: neither of the two resets in ProcessTrace can wipe out a
\* flag that is still needed, as long as there was no delta error.
DoneLoweredAfterDrain ==
  [][errors = 0 /\ done_ /\ ~done_' => chunkerPc = "exit" /\ queue = <<>>]_vars

\* Chunk c is cut before chunk d in the run as a whole.
Before(c, d) == c[1] < d[1] \/ (c[1] = d[1] /\ c[2] < d[2])

\* Whatever delta errors happen, the recipes, read backup after backup, list
\* chunks strictly in the order they were cut: the chunks an early return
\* leaves in the queue may enter a later recipe, but none is recorded twice
\* and none overtakes another.
RecipesOrdered ==
  \A b1, b2 \in Backups :
    \A k1 \in DOMAIN recipe[b1], k2 \in DOMAIN recipe[b2] :
      b1 < b2 \/ (b1 = b2 /\ k1 < k2) => Before(recipe[b1][k1], recipe[b2][k2])

\* The inductive strengthening of the two invariants above, as long as no
\* delta error has happened.  Threads exist exactly while main waits in join.
ThreadsJoined ==
  /\ mainPc = "join" <=> chunkerPc # "none"
  /\ mainPc = "join" <=> methodPc # "none"

\* Where the two threads are determines what done_ and the queue can be.
FlagInv ==
  /\ done_ => chunkerPc = "exit"
  /\ methodPc = "testEmpty" => done_
  /\ methodPc = "reset" => done_ /\ queue = <<>>
  /\ methodPc \in {"leave", "exit"} =>
       chunkerPc = "exit" /\ ~done_ /\ queue = <<>>
  /\ mainPc # "join" => queue = <<>> /\ ~done_

\* The chunker never passes the end of the file, and ends at it.
PushedInv ==
  mainPc = "join" =>
    /\ pushed <= ChunkCount[i]
    /\ chunkerPc = "push" => pushed < ChunkCount[i]
    /\ chunkerPc \in {"done", "exit"} => pushed = ChunkCount[i]

\* The first p chunks of file b are, in order, r followed by t followed by q.
Flow(b, r, t, q, p) ==
  /\ Len(r) + Len(t) + Len(q) = p
  /\ \A k \in 1 .. Len(r) : r[k] = <<b, k>>
  /\ \A k \in 1 .. Len(t) : t[k] = <<b, Len(r) + k>>
  /\ \A k \in 1 .. Len(q) : q[k] = <<b, Len(r) + Len(t) + k>>

\* What has been pushed is in the recipe, in hand or in the queue, in order.
FlowInv == mainPc = "join" => Flow(i, recipe[i], tmpChunk, queue, pushed)

\* Recipes of past backups are complete, those of later ones untouched.
RecipesInv ==
  \A b \in Backups :
    /\ b < i => recipe[b] = FullRecipe(b)
    /\ b > i \/ (b = i /\ mainPc # "join") => recipe[b] = <<>>

IInv ==
  /\ ThreadsJoined
  /\ errors = 0 => FlagInv /\ PushedInv /\ FlowInv /\ RecipesInv

\* messageQueue.h documents Push with "return true success / return false
\* fails": a Push that has begun comes to an end.
PushReturns == (chunkerPc = "push") ~> (chunkerPc # "push")

\* Where main is, as Delivery sees it.
AbsStatus == IF errors > 0 THEN "failed"
             ELSE IF mainPc = "load" THEN "between"
             ELSE IF mainPc = "join" THEN "open" ELSE mainPc

Abstract == INSTANCE Delivery WITH backup <- i, status <- AbsStatus

\* Up to the first delta error the two threads, the queue and the flag
\* implement the sequential backup loop of Delivery, its progress included:
\* every backup is taken, or main exits because a file cannot be opened.
DeliversInOrder == Abstract!DSpec
=============================================================================

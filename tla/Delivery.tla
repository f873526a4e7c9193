------------------------------ MODULE Delivery ------------------------------
(***************************************************************************)
(* What main() in src/src/app/main.cc promises for its backup loop, with   *)
(* no threads and no queue: the backups are taken one after the other, and *)
(* while a backup is open the chunks of its file enter that backup's       *)
(* recipe one by one in file order; a backup is closed only when its       *)
(* recipe is complete.  Opening a file may fail, which ends the program    *)
(* (LoadChunkFile calls exit).  A delta error gives the promise up: nothing *)
(* is said of the run from there on.  Pipeline.tla is shown to implement   *)
(* this.                                                                   *)
(***************************************************************************)
EXTENDS Integers, Sequences

CONSTANTS
  BackupNum,   \* the -n argument: number of backups taken
  ChunkCount   \* ChunkCount[b]: number of chunks the chunker cuts file b into

Backups == 0 .. (BackupNum - 1)

VARIABLES
  backup,   \* index of the backup being taken, or to be taken next
  recipe,   \* recipe[b]: the chunks recorded for backup b so far
  status    \* "between" backups, "open", "finished", "exited" or "failed"

dvars == <<backup, recipe, status>>

DInit ==
  /\ backup = 0
  /\ recipe = [b \in Backups |-> <<>>]
  /\ status = "between"

\* The next file is opened.
Open ==
  /\ status = "between"
  /\ backup < BackupNum
  /\ status' = "open"
  /\ UNCHANGED <<backup, recipe>>

\* The next file cannot be opened.
Abort ==
  /\ status = "between"
  /\ backup < BackupNum
  /\ status' = "exited"
  /\ UNCHANGED <<backup, recipe>>

\* The next chunk of the open file is recorded.
Deliver ==
  /\ status = "open"
  /\ Len(recipe[backup]) < ChunkCount[backup]
  /\ recipe' = [recipe EXCEPT ![backup] =
                  Append(@, <<backup, Len(recipe[backup]) + 1>>)]
  /\ UNCHANGED <<backup, status>>

\* A backup ends only with a complete recipe.
Close ==
  /\ status = "open"
  /\ Len(recipe[backup]) = ChunkCount[backup]
  /\ backup' = backup + 1
  /\ status' = "between"
  /\ UNCHANGED recipe

\* Every backup has been taken.
Finish ==
  /\ status = "between"
  /\ backup = BackupNum
  /\ status' = "finished"
  /\ UNCHANGED <<backup, recipe>>

\* The method meets a delta error, while a backup is open.
Fail ==
  /\ status = "open"
  /\ status' = "failed"
  /\ UNCHANGED <<backup, recipe>>

\* Behind an error anything may happen to the recipes.
AfterFailure == status = "failed" /\ status' = "failed"

Progress == Open \/ Abort \/ Deliver \/ Close \/ Finish

DNext == Progress \/ Fail \/ AfterFailure

DSpec == DInit /\ [][DNext]_dvars /\ WF_dvars(Progress)
=============================================================================

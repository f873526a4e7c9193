--------------------------- MODULE PipelineProofs ---------------------------
(* Theorems about Pipeline for every number of backups, every file length, *)
(* every queue capacity and every bound on delta errors.                   *)
EXTENDS Pipeline, SequenceTheorems, TLAPS

USE PipelineAssumption DEF PipelineAssumption

\* Threads exist exactly while main waits in join, and every variable keeps
\* its type: this much is inductive with or without delta errors.
LEMMA TypeInductive ==
  ASSUME TypeOK, ThreadsJoined, [Next]_vars
  PROVE  TypeOK' /\ ThreadsJoined'
<1> USE DEF TypeOK, ThreadsJoined, mainVars, chunkerVars, methodVars
<1>1. CASE StartBackup  BY <1>1 DEF StartBackup
<1>2. CASE LoadFails  BY <1>2 DEF LoadFails
<1>3. CASE JoinThreads  BY <1>3 DEF JoinThreads
<1>4. CASE LeaveLoop  BY <1>4 DEF LeaveLoop
<1>5. CASE Cut  BY <1>5 DEF Cut
<1>6. CASE Push
  <2>1. i \in Backups
    BY <1>6 DEF Push, Backups
  <2>2. pushed + 1 \in Nat \ {0}
    OBVIOUS
  <2>3. <<i, pushed + 1>> \in Chunks
    BY <2>1, <2>2 DEF Chunks
  <2> QED BY <1>6, <2>3 DEF Push
<1>7. CASE RaiseDone  BY <1>7 DEF RaiseDone
<1>8. CASE TestDone  BY <1>8 DEF TestDone
<1>9. CASE TestEmpty  BY <1>9 DEF TestEmpty
<1>10. CASE ResetDone  BY <1>10 DEF ResetDone
<1>11. CASE LeaveTrace  BY <1>11 DEF LeaveTrace
<1>12. CASE Pop  BY <1>12 DEF Pop
<1>13. CASE PopEmpty  BY <1>13 DEF PopEmpty
<1>14. CASE Process
  <2>0. i \in Backups
    BY <1>14 DEF Process, Backups
  <2>1. tmpChunk[1] \in Chunks
    <3>1. Len(tmpChunk) = 1 /\ tmpChunk \in Seq(Chunks)
      BY <1>14 DEF Process
    <3> HIDE DEF TypeOK, ThreadsJoined
    <3>2. 1 \in 1 .. Len(tmpChunk)
      BY <3>1
    <3> QED BY ONLY <3>1, <3>2, ElementOfSeq
  <2>2. Append(recipe[i], tmpChunk[1]) \in Seq(Chunks)
    BY <2>0, <2>1
  <2>3. recipe' \in [Backups -> Seq(Chunks)]
    BY <1>14, <2>2 DEF Process
  <2> QED BY <1>14, <2>3 DEF Process
<1>15. CASE DeltaError  BY <1>15 DEF DeltaError
<1>16. CASE UNCHANGED vars  BY <1>16 DEF vars
<1> QED
  BY <1>1, <1>2, <1>3, <1>4, <1>5, <1>6, <1>7, <1>8, <1>9, <1>10, <1>11,
     <1>12, <1>13, <1>14, <1>15, <1>16
     DEF Next, Main, ChunkerThread, MethodThread, Stopped

LEMMA TypeInitial == Init => TypeOK /\ ThreadsJoined
<1>1. Init => recipe \in [Backups -> Seq(Chunks)]
  BY DEF Init
<1>2. Init => queue \in Seq(Chunks) /\ Len(queue) = 0
              /\ tmpChunk \in Seq(Chunks) /\ Len(tmpChunk) = 0
  BY DEF Init
<1>3. Init => done_ \in BOOLEAN
  BY DEF Init
<1>4. Init => i \in 0 .. BackupNum /\ pushed \in Nat /\ errors \in 0 .. MaxErrors
              /\ Len(queue) <= QueueSize
  BY <1>2 DEF Init
<1> QED BY <1>1, <1>2, <1>3, <1>4, Zenon DEF Init, TypeOK, ThreadsJoined

\* Every variable keeps its type; the queue never exceeds its capacity, and
\* ProcessTrace holds a chunk exactly while it processes one.
THEOREM TypeCorrect == Spec => []TypeOK
<1>1. TypeOK /\ ThreadsJoined /\ [Next]_vars => (TypeOK /\ ThreadsJoined)'
  BY TypeInductive
<1> QED BY <1>1, TypeInitial, PTL DEF Spec

-----------------------------------------------------------------------------
LEMMA FlagInductive ==
  ASSUME TypeOK, ThreadsJoined, FlagInv, [Next]_vars, errors' = 0
  PROVE  FlagInv'
<1> USE DEF TypeOK, ThreadsJoined, FlagInv, mainVars, chunkerVars, methodVars
<1>1. CASE StartBackup  BY <1>1 DEF StartBackup
<1>2. CASE LoadFails  BY <1>2 DEF LoadFails
<1>3. CASE JoinThreads  BY <1>3 DEF JoinThreads
<1>4. CASE LeaveLoop  BY <1>4 DEF LeaveLoop
<1>5. CASE Cut  BY <1>5 DEF Cut
<1>6. CASE Push  BY <1>6 DEF Push
<1>7. CASE RaiseDone  BY <1>7 DEF RaiseDone
<1>8. CASE TestDone  BY <1>8 DEF TestDone
<1>9. CASE TestEmpty  BY <1>9 DEF TestEmpty
<1>10. CASE ResetDone  BY <1>10 DEF ResetDone
<1>11. CASE LeaveTrace  BY <1>11 DEF LeaveTrace
<1>12. CASE Pop  BY <1>12 DEF Pop
<1>13. CASE PopEmpty  BY <1>13 DEF PopEmpty
<1>14. CASE Process  BY <1>14 DEF Process
<1>15. CASE DeltaError  BY <1>15 DEF DeltaError
<1>16. CASE UNCHANGED vars  BY <1>16 DEF vars
<1> QED
  BY <1>1, <1>2, <1>3, <1>4, <1>5, <1>6, <1>7, <1>8, <1>9, <1>10, <1>11,
     <1>12, <1>13, <1>14, <1>15, <1>16
     DEF Next, Main, ChunkerThread, MethodThread, Stopped

LEMMA PushedInductive ==
  ASSUME TypeOK, ThreadsJoined, PushedInv, [Next]_vars
  PROVE  PushedInv'
<1> USE DEF TypeOK, ThreadsJoined, PushedInv, mainVars, chunkerVars, methodVars
<1>0. mainPc = "join" => ChunkCount[i] \in Nat
  BY DEF Backups
<1>0b. \A b \in Backups : ChunkCount[b] \in Nat
  OBVIOUS
<1>1. CASE StartBackup
  <2>1. i \in Backups
    BY <1>1 DEF StartBackup, Backups
  <2> QED BY <1>1, <2>1, <1>0b DEF StartBackup
<1>5. CASE Cut  BY <1>5, <1>0 DEF Cut
<1>6. CASE Push  BY <1>6, <1>0 DEF Push
<1>7. CASE \/ LoadFails \/ JoinThreads \/ LeaveLoop \/ RaiseDone
           \/ MethodThread \/ UNCHANGED vars
  BY <1>7 DEF LoadFails, JoinThreads, LeaveLoop, RaiseDone, MethodThread,
     TestDone, TestEmpty, ResetDone, LeaveTrace, Pop, PopEmpty, Process,
     DeltaError, vars
<1> QED
  BY <1>1, <1>5, <1>6, <1>7 DEF Next, Main, ChunkerThread, Stopped

\* How the three sequences of Flow change when a chunk is pushed, popped and
\* recorded.
LEMMA FlowPush ==
  ASSUME NEW C, NEW b, NEW r \in Seq(C), NEW t \in Seq(C), NEW q \in Seq(C),
         NEW p \in Nat, <<b, p + 1>> \in C, Flow(b, r, t, q, p)
  PROVE  Flow(b, r, t, Append(q, <<b, p + 1>>), p + 1)
<1> DEFINE c == <<b, p + 1>>
           a == Append(q, c)
<1>1. c \in C
  OBVIOUS
<1>2. c = <<b, p + 1>>
  OBVIOUS
<1> HIDE DEF c
<1>3. /\ Len(a) = Len(q) + 1
      /\ a[Len(q) + 1] = c
      /\ \A k \in 1 .. Len(q) : a[k] = q[k]
  BY <1>1
<1> HIDE DEF a
<1>4. Len(r) \in Nat /\ Len(t) \in Nat /\ Len(q) \in Nat
  OBVIOUS
<1>0. /\ Len(r) + Len(t) + Len(q) = p
      /\ \A k \in 1 .. Len(r) : r[k] = <<b, k>>
      /\ \A k \in 1 .. Len(t) : t[k] = <<b, Len(r) + k>>
      /\ \A k \in 1 .. Len(q) : q[k] = <<b, Len(r) + Len(t) + k>>
  BY Zenon DEF Flow
<1>5. Len(r) + Len(t) + Len(a) = p + 1
  <2>1. Len(a) = Len(q) + 1 /\ Len(r) + Len(t) + Len(q) = p
    BY <1>0, <1>3, Zenon
  <2> QED BY ONLY <2>1, <1>4
<1>6. \A k \in 1 .. Len(a) : a[k] = <<b, Len(r) + Len(t) + k>>
  <2> SUFFICES ASSUME NEW k \in 1 .. Len(a)
               PROVE  a[k] = <<b, Len(r) + Len(t) + k>>
    OBVIOUS
  <2>1. CASE k \in 1 .. Len(q)
    BY <2>1, <1>0, <1>3, Zenon
  <2>2. CASE k = Len(q) + 1
    <3>1. Len(r) + Len(t) + k = p + 1
      <4>1. k = Len(q) + 1 /\ Len(r) + Len(t) + Len(q) = p
        BY <2>2, <1>0, Zenon
      <4> QED BY ONLY <4>1, <1>4
    <3> QED BY ONLY <3>1, <2>2, <1>2, <1>3
  <2>3. k \in 1 .. Len(q) \/ k = Len(q) + 1
    <3>1. k \in 1 .. Len(q) + 1
      BY <1>3, Zenon
    <3> QED BY ONLY <3>1, <1>4
  <2> QED BY <2>1, <2>2, <2>3, Zenon
<1>7. Flow(b, r, t, a, p + 1)
  BY <1>0, <1>5, <1>6, Zenon DEF Flow
<1> QED BY <1>2, <1>7 DEF a

LEMMA FlowPop ==
  ASSUME NEW C, NEW b, NEW r \in Seq(C), NEW q \in Seq(C), NEW p \in Nat,
         q # <<>>, Flow(b, r, <<>>, q, p)
  PROVE  Flow(b, r, <<Head(q)>>, Tail(q), p)
<1> DEFINE t == <<Head(q)>>
<1>1. Len(t) = 1 /\ t[1] = q[1] /\ Len(r) \in Nat
  OBVIOUS
<1> HIDE DEF t
<1>2. Len(q) \in Nat /\ Len(q) >= 1 /\ Len(Tail(q)) = Len(q) - 1
  OBVIOUS
<1>3. \A k \in 1 .. Len(Tail(q)) : k + 1 \in 1 .. Len(q) /\ Tail(q)[k] = q[k + 1]
  BY <1>2
<1>4. /\ Len(r) + Len(q) = p
      /\ \A k \in 1 .. Len(r) : r[k] = <<b, k>>
      /\ \A k \in 1 .. Len(q) : q[k] = <<b, Len(r) + k>>
  BY <1>1, <1>2 DEF Flow
<1>5. \A k \in 1 .. Len(t) : t[k] = <<b, Len(r) + k>>
  <2>1. 1 \in 1 .. Len(q)
    BY <1>2
  <2>2. t[1] = <<b, Len(r) + 1>>
    BY <1>1, <1>4, <2>1
  <2>3. \A k \in 1 .. Len(t) : k = 1
    BY <1>1
  <2> QED BY <2>2, <2>3
<1>6. \A k \in 1 .. Len(Tail(q)) : Tail(q)[k] = <<b, Len(r) + Len(t) + k>>
  <2> SUFFICES ASSUME NEW k \in 1 .. Len(Tail(q))
               PROVE  Tail(q)[k] = <<b, Len(r) + Len(t) + k>>
    OBVIOUS
  <2>1. Tail(q)[k] = <<b, Len(r) + (k + 1)>>
    BY <1>3, <1>4
  <2>2. Len(r) + (k + 1) = Len(r) + Len(t) + k
    BY <1>1, <1>2
  <2> QED BY <2>1, <2>2
<1>7. Flow(b, r, t, Tail(q), p)
  BY <1>1, <1>2, <1>4, <1>5, <1>6 DEF Flow
<1> QED BY <1>7 DEF t

LEMMA FlowProcess ==
  ASSUME NEW C, NEW b, NEW r \in Seq(C), NEW t \in Seq(C), NEW q \in Seq(C),
         NEW p \in Nat, Len(t) = 1, Flow(b, r, t, q, p)
  PROVE  Flow(b, Append(r, t[1]), <<>>, q, p)
<1>0. 1 \in 1 .. Len(t)
  OBVIOUS
<1>1. t[1] = <<b, Len(r) + 1>> /\ t[1] \in C
  BY <1>0, ElementOfSeq DEF Flow
<1>2. /\ Len(Append(r, t[1])) = Len(r) + 1
      /\ \A k \in 1 .. Len(r) + 1 : Append(r, t[1])[k] = <<b, k>>
  BY <1>1 DEF Flow
<1> QED BY <1>1, <1>2 DEF Flow

LEMMA FlowInductive ==
  ASSUME TypeOK, ThreadsJoined, FlagInv, FlowInv, RecipesInv, [Next]_vars,
         errors' = 0
  PROVE  FlowInv'
<1>0. mainPc = "join" => i \in Backups /\ recipe[i] \in Seq(Chunks)
  BY DEF TypeOK, Backups
<1>1. CASE StartBackup
  <2>1. i \in Backups /\ recipe[i] = <<>> /\ queue = <<>> /\ tmpChunk = <<>>
    BY <1>1 DEF StartBackup, Backups, RecipesInv, FlagInv, TypeOK, ThreadsJoined
  <2> QED BY <1>1, <2>1 DEF StartBackup, FlowInv, Flow
<1>6. CASE Push
  <2>1. mainPc = "join"
    BY <1>6 DEF Push, ThreadsJoined
  <2>2. <<i, pushed + 1>> \in Chunks
    BY <2>1, <1>0 DEF Chunks, TypeOK
  <2>3. tmpChunk \in Seq(Chunks) /\ queue \in Seq(Chunks) /\ pushed \in Nat
    BY DEF TypeOK
  <2>4. Flow(i, recipe[i], tmpChunk, Append(queue, <<i, pushed + 1>>), pushed + 1)
    BY <1>0, <2>1, <2>2, <2>3, FlowPush DEF FlowInv
  <2> QED BY <1>6, <2>4 DEF Push, FlowInv, mainVars, methodVars
<1>12. CASE Pop
  <2>1. mainPc = "join" /\ queue # <<>>
    BY <1>12 DEF Pop, ThreadsJoined
  <2>2. tmpChunk = <<>> /\ queue \in Seq(Chunks) /\ pushed \in Nat
    BY <1>12 DEF Pop, TypeOK
  <2>3. Flow(i, recipe[i], <<Head(queue)>>, Tail(queue), pushed)
    BY <1>0, <2>1, <2>2, FlowPop DEF FlowInv
  <2> QED BY <1>12, <2>3 DEF Pop, FlowInv, mainVars, chunkerVars
<1>14. CASE Process
  <2>1. mainPc = "join"
    BY <1>14 DEF Process, ThreadsJoined
  <2>2. /\ tmpChunk \in Seq(Chunks) /\ queue \in Seq(Chunks) /\ pushed \in Nat
        /\ Len(tmpChunk) = 1
    BY <1>14 DEF Process, TypeOK
  <2>3. Flow(i, Append(recipe[i], tmpChunk[1]), <<>>, queue, pushed)
    BY <1>0, <2>1, <2>2, FlowProcess DEF FlowInv
  <2>4. recipe'[i] = Append(recipe[i], tmpChunk[1])
    BY <1>0, <1>14, <2>1 DEF Process, TypeOK
  <2> QED BY <1>14, <2>3, <2>4 DEF Process, FlowInv, mainVars, chunkerVars
<1>15. CASE DeltaError  BY <1>15 DEF DeltaError, TypeOK
<1>16. CASE \/ LoadFails \/ JoinThreads \/ LeaveLoop \/ Cut \/ RaiseDone
            \/ TestDone \/ TestEmpty \/ ResetDone \/ LeaveTrace \/ PopEmpty
            \/ UNCHANGED vars
  BY <1>16 DEF FlowInv, LoadFails, JoinThreads, LeaveLoop, Cut, RaiseDone,
     TestDone, TestEmpty, ResetDone, LeaveTrace, PopEmpty, vars, mainVars,
     chunkerVars, methodVars
<1> QED
  BY <1>1, <1>6, <1>12, <1>14, <1>15, <1>16
     DEF Next, Main, ChunkerThread, MethodThread, Stopped

LEMMA RecipesInductive ==
  ASSUME TypeOK, ThreadsJoined, FlagInv, PushedInv, FlowInv, RecipesInv,
         [Next]_vars, errors' = 0
  PROVE  RecipesInv'
<1> USE DEF TypeOK, ThreadsJoined, RecipesInv, FullRecipe,
            mainVars, chunkerVars, methodVars
<1>1. CASE StartBackup  BY <1>1 DEF StartBackup, Backups
<1>3. CASE JoinThreads
  <2>1. i \in Backups /\ i' = i + 1 /\ recipe' = recipe /\ mainPc' = "load"
    BY <1>3 DEF JoinThreads, Backups
  <2>2. Len(recipe[i]) = ChunkCount[i]
    BY <1>3, <2>1 DEF JoinThreads, FlagInv, PushedInv, FlowInv, Flow
  <2>3. recipe[i] = FullRecipe(i)
    <3>1. recipe[i] = [k \in 1 .. Len(recipe[i]) |-> recipe[i][k]]
      BY <2>1
    <3>2. \A k \in 1 .. Len(recipe[i]) : recipe[i][k] = <<i, k>>
      BY <1>3, <2>1 DEF JoinThreads, FlowInv, Flow
    <3> QED BY ONLY <2>2, <3>1, <3>2 DEF FullRecipe
  <2>4. \A b \in Backups : b \in Int /\ (b < i + 1 <=> b < i \/ b = i)
    BY <2>1 DEF Backups
  <2> QED BY <1>3, <2>1, <2>3, <2>4 DEF JoinThreads
<1>14. CASE Process
  <2>1. i \in Backups /\ mainPc = "join"
    BY <1>14 DEF Process, Backups
  <2>2. \A b \in Backups : b # i => recipe'[b] = recipe[b]
    BY <1>14, <2>1 DEF Process
  <2>3. \A b \in Backups : b < i \/ b > i => b # i
    BY <2>1 DEF Backups
  <2> QED BY <1>14, <2>1, <2>2, <2>3 DEF Process
<1>16. CASE \/ LoadFails \/ LeaveLoop \/ ChunkerThread \/ TestDone
            \/ TestEmpty \/ ResetDone \/ LeaveTrace \/ Pop \/ PopEmpty
            \/ DeltaError \/ UNCHANGED vars
  BY <1>16 DEF LoadFails, LeaveLoop, ChunkerThread, Cut, Push, RaiseDone,
     TestDone, TestEmpty, ResetDone, LeaveTrace, Pop, PopEmpty, DeltaError, vars
<1> QED
  BY <1>1, <1>3, <1>14, <1>16 DEF Next, Main, MethodThread, Stopped

-----------------------------------------------------------------------------
\* The inductive invariant: see IInv in Pipeline.
THEOREM InvariantHolds == Spec => [](TypeOK /\ IInv)
<1>1. Init => TypeOK /\ IInv
  <2> SUFFICES ASSUME Init PROVE IInv
    BY TypeInitial
  <2>1. ThreadsJoined
    BY TypeInitial
  <2>2. FlagInv /\ PushedInv /\ FlowInv
    BY DEF Init, FlagInv, PushedInv, FlowInv
  <2>3. RecipesInv
    BY DEF Init, RecipesInv, Backups
  <2> QED BY <2>1, <2>2, <2>3 DEF IInv
<1>2. TypeOK /\ IInv /\ [Next]_vars => (TypeOK /\ IInv)'
  <2> SUFFICES ASSUME TypeOK, IInv, [Next]_vars PROVE TypeOK' /\ IInv'
    OBVIOUS
  <2>1. TypeOK' /\ ThreadsJoined'
    BY TypeInductive DEF IInv
  <2>2. errors' = 0 => errors = 0
    BY DEF TypeOK, Next, Main, ChunkerThread, MethodThread, Stopped,
       StartBackup, LoadFails, JoinThreads, LeaveLoop, Cut, Push, RaiseDone,
       TestDone, TestEmpty, ResetDone, LeaveTrace, Pop, PopEmpty, Process,
       DeltaError, mainVars, chunkerVars, methodVars, vars
  <2>3. errors' = 0 => (FlagInv /\ PushedInv /\ FlowInv /\ RecipesInv)'
    BY <2>2, FlagInductive, PushedInductive, FlowInductive, RecipesInductive
       DEF IInv
  <2> QED BY <2>1, <2>3 DEF IInv
<1> QED BY <1>1, <1>2, PTL DEF Spec

\* Without a delta error, every backup main has gone past has its complete
\* recipe in file order, whatever the interleaving of the two threads.
THEOREM RecipesCompleteHolds == Spec => []RecipesComplete
<1>1. TypeOK /\ IInv => RecipesComplete
  BY DEF IInv, RecipesComplete, RecipesInv
<1> QED BY <1>1, InvariantHolds, PTL

\* Without a delta error, main finds the queue empty and done_ cleared before
\* each backup and after the last.
THEOREM CleanHandOverHolds == Spec => []CleanHandOver
<1>1. TypeOK /\ IInv => CleanHandOver
  BY DEF IInv, CleanHandOver, FlagInv
<1> QED BY <1>1, InvariantHolds, PTL

\* Without a delta error, neither reset of done_ in ProcessTrace happens while
\* the chunker is at work or chunks are waiting.
THEOREM DoneLoweredHolds == Spec => DoneLoweredAfterDrain
<1>1. TypeOK /\ IInv /\ [Next]_vars =>
        [errors = 0 /\ done_ /\ ~done_' => chunkerPc = "exit" /\ queue = <<>>]_vars
  BY DEF TypeOK, IInv, FlagInv, Next, Main, ChunkerThread, MethodThread, Stopped,
     StartBackup, LoadFails, JoinThreads, LeaveLoop, Cut, Push, RaiseDone,
     TestDone, TestEmpty, ResetDone, LeaveTrace, Pop, PopEmpty, Process,
     DeltaError, mainVars, chunkerVars, methodVars, vars
<1> QED BY <1>1, InvariantHolds, PTL DEF Spec, DoneLoweredAfterDrain

\* A step up to which no delta error has happened.
LEMMA SequentialStep ==
  ASSUME TypeOK, IInv, [Next]_vars, errors = 0, errors' = 0
  PROVE  Abstract!DNext \/ UNCHANGED <<i, recipe, AbsStatus>>
<1>0. FlagInv /\ PushedInv /\ FlowInv /\ RecipesInv /\ ThreadsJoined
  BY DEF IInv
<1>s. /\ AbsStatus = IF mainPc = "load" THEN "between"
                     ELSE IF mainPc = "join" THEN "open" ELSE mainPc
      /\ AbsStatus' = IF mainPc' = "load" THEN "between"
                      ELSE IF mainPc' = "join" THEN "open" ELSE mainPc'
  BY DEF AbsStatus
<1> USE <1>s DEF Abstract!Progress
<1> USE DEF mainVars, chunkerVars, methodVars
<1>1. CASE StartBackup
  BY <1>1 DEF StartBackup, Abstract!DNext, Abstract!Open
<1>2. CASE LoadFails
  BY <1>2 DEF LoadFails, Abstract!DNext, Abstract!Abort
<1>3. CASE JoinThreads
  <2>1. mainPc = "join" /\ i \in Backups
    BY <1>3 DEF JoinThreads, TypeOK, Backups
  <2>2. Len(recipe[i]) = ChunkCount[i]
    BY <1>0, <1>3, <2>1
       DEF JoinThreads, TypeOK, FlagInv, PushedInv, FlowInv, Flow
  <2> QED
    BY <1>3, <2>1, <2>2 DEF JoinThreads, Abstract!DNext, Abstract!Close
<1>4. CASE LeaveLoop
  BY <1>4 DEF LeaveLoop, Abstract!DNext, Abstract!Finish
<1>5. CASE Process
  <2>1. mainPc = "join" /\ i \in Backups
    BY <1>0, <1>5 DEF Process, TypeOK, ThreadsJoined, Backups
  <2>2. /\ recipe[i] \in Seq(Chunks) /\ queue \in Seq(Chunks)
        /\ tmpChunk \in Seq(Chunks) /\ Len(tmpChunk) = 1
    BY <1>5, <2>1 DEF Process, TypeOK
  <2>3. Flow(i, recipe[i], tmpChunk, queue, pushed)
    BY <1>0, <2>1 DEF FlowInv
  <2>4. tmpChunk[1] = <<i, Len(recipe[i]) + 1>>
    BY <2>2, <2>3 DEF Flow
  <2>5. Len(recipe[i]) < ChunkCount[i]
    <3>1. Len(recipe[i]) + 1 <= pushed
      BY <2>2, <2>3 DEF Flow
    <3>2. pushed <= ChunkCount[i] /\ pushed \in Nat /\ ChunkCount[i] \in Nat
      BY <1>0, <2>1 DEF PushedInv, TypeOK
    <3> QED BY <2>2, <3>1, <3>2
  <2> QED
    BY <1>5, <2>1, <2>4, <2>5 DEF Process, Abstract!DNext, Abstract!Deliver
<1>6. CASE \/ ChunkerThread \/ TestDone \/ TestEmpty \/ ResetDone
           \/ LeaveTrace \/ Pop \/ PopEmpty \/ UNCHANGED vars
  BY <1>6 DEF ChunkerThread, Cut, Push, RaiseDone, TestDone, TestEmpty,
     ResetDone, LeaveTrace, Pop, PopEmpty, vars
<1>7. ~DeltaError
  BY DEF DeltaError, TypeOK
<1> QED
  BY <1>1, <1>2, <1>3, <1>4, <1>5, <1>6, <1>7 DEF Next, Main, MethodThread, Stopped

\* Every step of the pipeline is a step of the sequential backup loop or
\* changes nothing that loop can see; the first delta error is the step by
\* which the loop fails.  This is the safety half of DeliversInOrder.
THEOREM Refinement == Spec => Abstract!DInit /\ [][Abstract!DNext]_(Abstract!dvars)
<1>1. Init => Abstract!DInit
  BY DEF Init, Abstract!DInit, AbsStatus, Backups, Abstract!Backups
<1>2. TypeOK /\ IInv /\ [Next]_vars => [Abstract!DNext]_(Abstract!dvars)
  <2> SUFFICES ASSUME TypeOK, IInv, [Next]_vars
               PROVE  Abstract!DNext \/ UNCHANGED <<i, recipe, AbsStatus>>
    BY DEF Abstract!dvars
  <2>e. errors \in Nat /\ errors' \in Nat /\ errors <= errors'
    BY DEF TypeOK, Next, Main, ChunkerThread, MethodThread, Stopped,
       StartBackup, LoadFails, JoinThreads, LeaveLoop, Cut, Push, RaiseDone,
       TestDone, TestEmpty, ResetDone, LeaveTrace, Pop, PopEmpty, Process,
       DeltaError, mainVars, chunkerVars, methodVars, vars
  <2>f. CASE errors > 0
    <3>1. errors' > 0
      BY <2>e, <2>f
    <3>2. AbsStatus = "failed" /\ AbsStatus' = "failed"
      BY <2>f, <3>1 DEF AbsStatus
    <3> QED BY <3>2 DEF Abstract!DNext, Abstract!AfterFailure
  <2>g. CASE errors = 0 /\ DeltaError
    <3>1. errors' > 0 /\ mainPc = "join" /\ i' = i /\ recipe' = recipe
      BY <2>g, <2>e DEF DeltaError, IInv, ThreadsJoined, mainVars
    <3>2. AbsStatus = "open" /\ AbsStatus' = "failed"
      BY <2>g, <3>1 DEF AbsStatus
    <3> QED BY <3>1, <3>2 DEF Abstract!DNext, Abstract!Fail
  <2>h. CASE errors = 0 /\ errors' = 0
    BY <2>h, SequentialStep
  <2>i. errors' # 0 /\ errors = 0 => DeltaError
    BY DEF TypeOK, Next, Main, ChunkerThread, MethodThread, Stopped,
       StartBackup, LoadFails, JoinThreads, LeaveLoop, Cut, Push, RaiseDone,
       TestDone, TestEmpty, ResetDone, LeaveTrace, Pop, PopEmpty, Process,
       mainVars, chunkerVars, methodVars, vars
  <2> QED BY <2>e, <2>f, <2>g, <2>h, <2>i
<1> QED BY <1>1, <1>2, InvariantHolds, PTL DEF Spec

-----------------------------------------------------------------------------
(* RecipesOrdered: what holds with delta errors too *)

\* Chunk c has been cut when main is at pc in round n and p chunks are pushed.
CutBy(c, n, pc, p) == c[1] < n \/ (pc = "join" /\ c[1] = n /\ c[2] <= p)

\* Chunk c was cut after everything that is in the recipes r.
AfterAll(r, c) == \A b \in Backups : \A k \in 1 .. Len(r[b]) : Before(r[b][k], c)

\* Recipes of backups still to come are empty.
LaterEmpty ==
  \A b \in Backups : b > i \/ (b = i /\ mainPc # "join") => recipe[b] = <<>>

\* Recipes, the chunk in hand, the queue and the next chunk to be cut are in
\* order.  An early return drops the chunk in hand and keeps the rest in order.
OrderInv ==
  /\ LaterEmpty
  /\ RecipesOrdered
  /\ \A b \in Backups : \A k \in 1 .. Len(recipe[b]) : CutBy(recipe[b][k], i, mainPc, pushed)
  /\ \A j \in 1 .. Len(tmpChunk) : CutBy(tmpChunk[j], i, mainPc, pushed) /\ AfterAll(recipe, tmpChunk[j])
  /\ \A j \in 1 .. Len(queue) :
       /\ CutBy(queue[j], i, mainPc, pushed) /\ AfterAll(recipe, queue[j])
       /\ \A l \in 1 .. Len(tmpChunk) : Before(tmpChunk[l], queue[j])
       /\ \A l \in 1 .. Len(queue) : j < l => Before(queue[j], queue[l])

\* What was cut comes before what is cut next.
LEMMA CutBeforeNext ==
  ASSUME TypeOK, mainPc = "join", NEW c \in Chunks, CutBy(c, i, mainPc, pushed)
  PROVE  Before(c, <<i, pushed + 1>>)
<1>1. c[1] \in Int /\ c[2] \in Int /\ i \in Int /\ pushed \in Int
  BY DEF Chunks, Backups, TypeOK
<1> QED BY <1>1 DEF CutBy, Before

LEMMA OrderPush ==
  ASSUME TypeOK, ThreadsJoined, OrderInv, Push
  PROVE  OrderInv'
<1>0. /\ queue' = Append(queue, <<i, pushed + 1>>) /\ pushed' = pushed + 1
      /\ UNCHANGED <<i, mainPc, tmpChunk, recipe>> /\ mainPc = "join"
  BY DEF Push, mainVars, methodVars, ThreadsJoined
<1>1. /\ queue \in Seq(Chunks) /\ tmpChunk \in Seq(Chunks) /\ i \in Backups
      /\ pushed \in Nat /\ \A b \in Backups : recipe[b] \in Seq(Chunks)
  BY <1>0 DEF TypeOK, Backups
<1> DEFINE c == <<i, pushed + 1>>
<1>2. c \in Chunks
  BY <1>1 DEF Chunks
<1>3. \A d \in Chunks : CutBy(d, i, mainPc, pushed)
                         => CutBy(d, i, "join", pushed + 1) /\ Before(d, c)
  <2> SUFFICES ASSUME NEW d \in Chunks, CutBy(d, i, mainPc, pushed)
               PROVE  CutBy(d, i, "join", pushed + 1) /\ Before(d, c)
    OBVIOUS
  <2>1. Before(d, c)
    BY <1>0, CutBeforeNext
  <2>2. d[2] \in Nat
    BY DEF Chunks
  <2> QED BY <1>0, <1>1, <2>1, <2>2 DEF CutBy
<1>4. CutBy(c, i, "join", pushed + 1)
  BY <1>0, <1>1 DEF CutBy
<1> HIDE DEF c
<1>5. /\ Len(queue') = Len(queue) + 1 /\ queue'[Len(queue) + 1] = c
      /\ \A j \in 1 .. Len(queue) : queue'[j] = queue[j] /\ queue[j] \in Chunks
      /\ Len(queue) \in Nat
  BY <1>0, <1>1, <1>2, ElementOfSeq DEF c
<1>6. /\ \A b \in Backups : \A k \in 1 .. Len(recipe[b]) : recipe[b][k] \in Chunks
      /\ \A l \in 1 .. Len(tmpChunk) : tmpChunk[l] \in Chunks
  BY <1>1, ElementOfSeq
<1>7. AfterAll(recipe, c) /\ \A l \in 1 .. Len(tmpChunk) : Before(tmpChunk[l], c)
  BY <1>3, <1>6 DEF OrderInv, AfterAll
<1>8. ASSUME NEW j \in 1 .. Len(queue')
      PROVE  /\ CutBy(queue'[j], i, "join", pushed + 1) /\ AfterAll(recipe, queue'[j])
             /\ \A l \in 1 .. Len(tmpChunk) : Before(tmpChunk[l], queue'[j])
             /\ \A l \in 1 .. Len(queue') : j < l => Before(queue'[j], queue'[l])
  <2>1. CASE j = Len(queue) + 1
    BY <1>4, <1>5, <1>7, <2>1
  <2>2. CASE j \in 1 .. Len(queue)
    <3>1. /\ queue'[j] = queue[j] /\ queue[j] \in Chunks /\ CutBy(queue[j], i, mainPc, pushed)
          /\ AfterAll(recipe, queue[j])
          /\ \A l \in 1 .. Len(tmpChunk) : Before(tmpChunk[l], queue[j])
          /\ \A l \in 1 .. Len(queue) : j < l => Before(queue[j], queue[l])
      BY <1>5, <2>2 DEF OrderInv
    <3>2. \A l \in 1 .. Len(queue') : j < l => Before(queue'[j], queue'[l])
      BY <1>3, <1>5, <3>1
    <3> QED BY <1>3, <3>1, <3>2
  <2> QED BY <1>5, <2>1, <2>2
<1>9. LaterEmpty' /\ RecipesOrdered'
  BY <1>0 DEF OrderInv, LaterEmpty, RecipesOrdered
<1>10. \A b \in Backups : \A k \in 1 .. Len(recipe[b]) :
         CutBy(recipe[b][k], i, "join", pushed + 1)
  BY <1>3, <1>6 DEF OrderInv
<1>11. \A j \in 1 .. Len(tmpChunk) :
         CutBy(tmpChunk[j], i, "join", pushed + 1) /\ AfterAll(recipe, tmpChunk[j])
  BY <1>3, <1>6 DEF OrderInv
<1> QED BY <1>0, <1>8, <1>9, <1>10, <1>11 DEF OrderInv

LEMMA OrderPop ==
  ASSUME TypeOK, ThreadsJoined, OrderInv, Pop
  PROVE  OrderInv'
<1>0. /\ queue # <<>> /\ tmpChunk' = <<Head(queue)>> /\ queue' = Tail(queue)
      /\ UNCHANGED <<i, mainPc, pushed, recipe>>
  BY DEF Pop, mainVars, chunkerVars
<1>1. queue \in Seq(Chunks)
  BY DEF TypeOK
<1>2. /\ Len(queue) \in Nat \ {0} /\ Len(queue') = Len(queue) - 1
      /\ \A j \in 1 .. Len(queue') : j + 1 \in 1 .. Len(queue) /\ queue'[j] = queue[j + 1]
  BY <1>0, <1>1
<1>3. Len(tmpChunk') = 1 /\ tmpChunk'[1] = queue[1]
  BY <1>0, <1>1
<1>4. ASSUME NEW j \in 1 .. Len(tmpChunk')
      PROVE  /\ CutBy(tmpChunk'[j], i, mainPc, pushed) /\ AfterAll(recipe, tmpChunk'[j])
             /\ \A l \in 1 .. Len(queue') : Before(tmpChunk'[j], queue'[l])
  <2>1. j = 1 /\ 1 \in 1 .. Len(queue)
    BY <1>2, <1>3, <1>4
  <2>2. \A l \in 1 .. Len(queue') : 1 < l + 1 /\ l + 1 \in 1 .. Len(queue)
    BY <1>2
  <2> QED BY <1>2, <1>3, <2>1, <2>2 DEF OrderInv
<1>5. ASSUME NEW j \in 1 .. Len(queue')
      PROVE  /\ CutBy(queue'[j], i, mainPc, pushed) /\ AfterAll(recipe, queue'[j])
             /\ \A l \in 1 .. Len(queue') : j < l => Before(queue'[j], queue'[l])
  <2>1. \A l \in 1 .. Len(queue') : j < l => j + 1 < l + 1
    BY <1>2
  <2> QED BY <1>2, <1>5, <2>1 DEF OrderInv
<1>6. LaterEmpty' /\ RecipesOrdered'
  BY <1>0 DEF OrderInv, LaterEmpty, RecipesOrdered
<1> QED BY <1>0, <1>4, <1>5, <1>6 DEF OrderInv

LEMMA OrderProcess ==
  ASSUME TypeOK, ThreadsJoined, OrderInv, Process
  PROVE  OrderInv'
<1>0. /\ recipe' = [recipe EXCEPT ![i] = Append(recipe[i], tmpChunk[1])]
      /\ tmpChunk' = <<>> /\ UNCHANGED <<i, mainPc, pushed, queue>>
      /\ mainPc = "join" /\ Len(tmpChunk) = 1
  BY DEF Process, mainVars, chunkerVars, ThreadsJoined, TypeOK
<1>1. /\ i \in Backups /\ \A b \in Backups : recipe[b] \in Seq(Chunks)
      /\ tmpChunk \in Seq(Chunks) /\ recipe \in [Backups -> Seq(Chunks)]
  BY <1>0 DEF TypeOK, Backups
<1> DEFINE c == tmpChunk[1]
           n == Len(recipe[i])
<1>2. c \in Chunks /\ 1 \in 1 .. Len(tmpChunk)
  <2>1. 1 \in 1 .. Len(tmpChunk)
    BY <1>0
  <2> QED BY ONLY <1>1, <2>1, ElementOfSeq
<1>3. CutBy(c, i, mainPc, pushed) /\ AfterAll(recipe, c)
      /\ \A j \in 1 .. Len(queue) : Before(c, queue[j])
  BY <1>2 DEF OrderInv
<1>4. recipe'[i] = Append(recipe[i], c) /\ \A b \in Backups : b # i => recipe'[b] = recipe[b]
  BY <1>0, <1>1
<1> HIDE DEF c
<1>5. /\ n \in Nat /\ Len(recipe'[i]) = n + 1 /\ recipe'[i][n + 1] = c
      /\ \A k \in 1 .. n : recipe'[i][k] = recipe[i][k]
  BY <1>1, <1>2, <1>4
<1> HIDE DEF n
<1>6. ASSUME NEW b \in Backups, NEW k \in 1 .. Len(recipe'[b])
      PROVE  \/ k \in 1 .. Len(recipe[b]) /\ recipe'[b][k] = recipe[b][k]
             \/ b = i /\ k = n + 1 /\ recipe'[b][k] = c
  <2>1. CASE b = i
    <3>1. k \in 1 .. n + 1
      BY <1>5, <1>6, <2>1
    <3>2. k \in 1 .. n \/ k = n + 1
      BY ONLY <1>5, <3>1
    <3> QED BY <1>5, <2>1, <3>2 DEF n
  <2>2. CASE b # i
    BY <1>4, <1>6, <2>2
  <2> QED BY <2>1, <2>2
<1>7. ASSUME NEW x, AfterAll(recipe, x), Before(c, x) PROVE AfterAll(recipe', x)
  BY <1>6, <1>7 DEF AfterAll
<1>8. RecipesOrdered'
  <2> SUFFICES ASSUME NEW b1 \in Backups, NEW b2 \in Backups,
                      NEW k1 \in DOMAIN recipe'[b1], NEW k2 \in DOMAIN recipe'[b2],
                      b1 < b2 \/ (b1 = b2 /\ k1 < k2)
               PROVE  Before(recipe'[b1][k1], recipe'[b2][k2])
    BY DEF RecipesOrdered
  <2>1. recipe' \in [Backups -> Seq(Chunks)]
    BY <1>0, <1>1, <1>2 DEF c
  <2>2. \A b \in Backups : /\ DOMAIN recipe[b] = 1 .. Len(recipe[b])
                           /\ DOMAIN recipe'[b] = 1 .. Len(recipe'[b])
    BY <1>1, <2>1
  <2>3. k1 \in 1 .. Len(recipe'[b1]) /\ k2 \in 1 .. Len(recipe'[b2])
    BY <2>2, Zenon
  <2>4. /\ k1 \in 1 .. Len(recipe'[b1]) /\ k2 \in 1 .. Len(recipe'[b2])
        /\ b1 \in Int /\ b2 \in Int /\ i \in Int
    BY <1>1, <2>3 DEF Backups
  <2>5. CASE b2 = i /\ k2 = n + 1
    <3>1. k1 \in 1 .. Len(recipe[b1]) /\ recipe'[b1][k1] = recipe[b1][k1]
      BY <1>6, <2>4, <2>5
    <3> QED BY <1>3, <1>5, <2>5, <3>1 DEF AfterAll
  <2>6. CASE k2 \in 1 .. Len(recipe[b2]) /\ recipe'[b2][k2] = recipe[b2][k2]
    <3>1. CASE k1 \in 1 .. Len(recipe[b1]) /\ recipe'[b1][k1] = recipe[b1][k1]
      BY <2>2, <2>6, <3>1 DEF OrderInv, RecipesOrdered
    <3>2. CASE b1 = i /\ k1 = n + 1
      <4>1. b2 > i
        BY <1>5, <2>4, <2>6, <3>2 DEF n
      <4>2. recipe[b2] = <<>>
        BY <4>1 DEF OrderInv, LaterEmpty
      <4> QED BY <2>6, <4>2
    <3> QED BY <1>6, <2>4, <3>1, <3>2
  <2> QED BY <1>6, <2>4, <2>5, <2>6
<1>9. LaterEmpty'
  <2>1. \A b \in Backups : b > i => b # i
    BY <1>1 DEF Backups
  <2> QED BY <1>0, <1>4, <2>1 DEF OrderInv, LaterEmpty
<1>10. \A b \in Backups : \A k \in 1 .. Len(recipe'[b]) : CutBy(recipe'[b][k], i, mainPc, pushed)
  BY <1>3, <1>6 DEF OrderInv
<1>11. \A j \in 1 .. Len(queue) : AfterAll(recipe', queue[j])
  BY <1>3, <1>7 DEF OrderInv
<1>12. Len(tmpChunk') = 0 /\ 1 .. 0 = {}
  BY <1>0
<1> QED BY <1>0, <1>8, <1>9, <1>10, <1>11, <1>12 DEF OrderInv

LEMMA OrderInductive ==
  ASSUME TypeOK, ThreadsJoined, OrderInv, [Next]_vars
  PROVE  OrderInv'
<1> USE DEF mainVars, chunkerVars, methodVars
<1>1. ASSUME UNCHANGED <<queue, recipe, tmpChunk>>, LaterEmpty',
             \A c \in Chunks : CutBy(c, i, mainPc, pushed) => CutBy(c, i', mainPc', pushed')
      PROVE  OrderInv'
  <2>1. /\ \A j \in 1 .. Len(queue) : queue[j] \in Chunks
        /\ \A b \in Backups : \A k \in 1 .. Len(recipe[b]) : recipe[b][k] \in Chunks
        /\ \A l \in 1 .. Len(tmpChunk) : tmpChunk[l] \in Chunks
    BY ElementOfSeq DEF TypeOK
  <2>2. RecipesOrdered'
    BY <1>1 DEF OrderInv, RecipesOrdered
  <2> QED BY <1>1, <2>1, <2>2 DEF OrderInv
<1>2. CASE StartBackup
  <2>1. UNCHANGED <<i, queue, recipe, tmpChunk>> /\ mainPc = "load" /\ mainPc' = "join"
    BY <1>2 DEF StartBackup
  <2> QED BY <1>1, <2>1 DEF OrderInv, LaterEmpty, CutBy
<1>3. CASE JoinThreads
  <2>1. /\ i' = i + 1 /\ mainPc = "join" /\ mainPc' = "load" /\ i \in Int
        /\ UNCHANGED <<queue, recipe, tmpChunk, pushed>>
    BY <1>3 DEF JoinThreads, TypeOK
  <2>2. \A c \in Chunks : CutBy(c, i, mainPc, pushed) => CutBy(c, i', mainPc', pushed')
    BY <2>1 DEF CutBy, Chunks, Backups
  <2>3. \A b \in Backups : b > i' \/ b = i' => b > i
    BY <2>1 DEF Backups
  <2>4. LaterEmpty'
    BY <2>1, <2>3 DEF OrderInv, LaterEmpty
  <2> QED BY <1>1, <2>1, <2>2, <2>4
<1>4. CASE Push  BY <1>4, OrderPush
<1>5. CASE Pop  BY <1>5, OrderPop
<1>6. CASE Process  BY <1>6, OrderProcess
<1>7. CASE DeltaError
  <2>1. tmpChunk' = <<>> /\ UNCHANGED <<i, mainPc, pushed, queue, recipe>>
    BY <1>7 DEF DeltaError
  <2> QED BY <2>1 DEF OrderInv, LaterEmpty, RecipesOrdered
<1>8. CASE \/ LoadFails \/ LeaveLoop \/ Cut \/ RaiseDone \/ TestDone \/ TestEmpty
           \/ ResetDone \/ LeaveTrace \/ PopEmpty \/ UNCHANGED vars
  <2>1. /\ UNCHANGED <<i, pushed, queue, recipe, tmpChunk>>
        /\ mainPc' = mainPc \/ (mainPc = "load" /\ mainPc' # "join")
    BY <1>8 DEF LoadFails, LeaveLoop, Cut, RaiseDone, TestDone, TestEmpty, ResetDone,
       LeaveTrace, PopEmpty, vars
  <2> QED BY <1>1, <2>1 DEF OrderInv, LaterEmpty, CutBy
<1> QED
  BY <1>2, <1>3, <1>4, <1>5, <1>6, <1>7, <1>8
     DEF Next, Main, ChunkerThread, MethodThread, Stopped

\* Whatever delta errors end backups early and whatever they leave in the
\* queue, the recipes read one after the other list chunks strictly in the
\* order they were cut: none twice, none overtaken.
THEOREM RecipesOrderedHolds == Spec => []RecipesOrdered
<1>1. Init => OrderInv
  BY DEF Init, OrderInv, LaterEmpty, RecipesOrdered
<1>2. TypeOK /\ IInv /\ OrderInv /\ [Next]_vars => OrderInv'
  BY OrderInductive DEF IInv
<1>3. OrderInv => RecipesOrdered
  BY DEF OrderInv
<1> QED BY <1>1, <1>2, <1>3, InvariantHolds, PTL DEF Spec
=============================================================================

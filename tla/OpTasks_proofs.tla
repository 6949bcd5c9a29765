--------------------------- MODULE OpTasks_proofs ---------------------------
(***************************************************************************)
(* Proofs about OpTasks, for any number of tasks, watchers, stages and     *)
(* attempts and any limits: no running task is lost, the store stays       *)
(* bounded, the plan a client sees is honest, and a watcher's output has   *)
(* no gap.                                                                 *)
(***************************************************************************)
EXTENDS OpTasks, FiniteSetTheorems, WellFoundedInduction, TLAPS

-----------------------------------------------------------------------------
\* Counting tasks.
LEMMA CountTasks ==
  ASSUME NEW S \in SUBSET Tasks
  PROVE  IsFiniteSet(S) /\ Cardinality(S) \in Nat
  BY TasksAssumption, FS_Subset, FS_CardinalityType

\* The limits are natural numbers.
LEMMA Limits ==
  /\ NStages \in Nat \ {0} /\ Slots \in Nat \ {0} /\ CaptureLimit \in Nat \ {0}
  /\ TailLimit \in Nat \ {0} /\ MaxAttempts \in Nat /\ HistoryLimit \in Nat
  /\ MaxWritten \in Nat /\ ChunkSizes \in SUBSET Nat
  BY TasksAssumption

\* The places after add.
LEMMA PrependPlaces ==
  ASSUME NEW t \in Tasks, NEW D \in SUBSET Tasks
  PROVE  /\ Prepend(t, D) \in [Tasks -> Nat]
         /\ \A u \in Tasks : Prepend(t, D)[u] # 0 <=> u = t \/ u \in InStore \ D
<1>1. \A u \in Tasks : Cardinality({v \in InStore \ D : place[v] < place[u]}) \in Nat
  BY CountTasks DEF InStore
<1> QED  BY <1>1 DEF Prepend

\* What a step does to the record of a task or of a watcher.
LEMMA RecordFields ==
  /\ \A x \in Positions, k \in 0..NStages, n \in 0..MaxAttempts :
       /\ [stage |-> k, left |-> 0] \in Positions
       /\ [x EXCEPT !.left = n] \in Positions
       /\ x.stage \in 0..NStages /\ x.left \in 0..MaxAttempts
  /\ Empty \in Captures
  /\ [held |-> CaptureLimit, short |-> TRUE] \in Captures
  /\ \A x \in Captures : x.held \in 0..CaptureLimit
  /\ \A x \in Captures, n \in 0..CaptureLimit : [x EXCEPT !.held = n] \in Captures
  BY TasksAssumption DEF Positions, Captures, Empty

-----------------------------------------------------------------------------
LEMMA TypeInit == Init => TypeOK
  BY TasksAssumption, RecordFields
     DEF Init, TypeOK, PCs, NoClient, Positions, Watchers

\* The end of a stage keeps the types of what it changes.
LEMMA StageEndsType ==
  ASSUME TypeOK, NEW t \in Tasks, NEW res \in {"succeeded", "failed"}, StageEnds(t, res)
  PROVE  /\ at' \in [Tasks -> Positions]
         /\ stages' \in [Tasks -> [Stages -> {"pending", "running", "succeeded", "failed"}]]
         /\ pc' \in [Tasks -> PCs]
         /\ ok' \in [Tasks -> BOOLEAN]
<1>0. /\ at[t].stage \in 0..NStages /\ NStages \in Nat
      /\ pc \in [Tasks -> PCs] /\ ok \in [Tasks -> BOOLEAN] /\ at \in [Tasks -> Positions]
  BY Limits DEF TypeOK, Positions
<1>1. at' \in [Tasks -> Positions]
  <2>1. at[t].stage < NStages => at[t].stage + 1 \in 0..NStages
    BY <1>0
  <2>2. at[t].stage < NStages => [stage |-> at[t].stage + 1, left |-> 0] \in Positions
    BY <2>1, Limits DEF Positions
  <2> QED  BY <1>0, <2>2 DEF StageEnds
<1>2. stages' \in [Tasks -> [Stages -> {"pending", "running", "succeeded", "failed"}]]
  BY DEF StageEnds, TypeOK
<1>3. pc' \in [Tasks -> PCs]
  BY <1>0 DEF StageEnds, PCs
<1>4. ok' \in [Tasks -> BOOLEAN]
  BY <1>0, Zenon DEF StageEnds
<1> QED  BY <1>1, <1>2, <1>3, <1>4

\* So does a failed attempt.
LEMMA AttemptFailsType ==
  ASSUME TypeOK, NEW t \in Tasks, AttemptFails(t)
  PROVE  /\ at' \in [Tasks -> Positions]
         /\ stages' \in [Tasks -> [Stages -> {"pending", "running", "succeeded", "failed"}]]
         /\ pc' \in [Tasks -> PCs]
         /\ ok' \in [Tasks -> BOOLEAN]
<1>1. CASE StageEnds(t, "failed")
  BY <1>1, StageEndsType
<1>2. CASE ~StageEnds(t, "failed")
  <2>1. /\ at[t].left > 1
        /\ at' = [at EXCEPT ![t].left = @ - 1]
        /\ pc' = [pc EXCEPT ![t] = "start"]
        /\ UNCHANGED <<stages, ok>>
    BY <1>2 DEF AttemptFails
  <2>2. at \in [Tasks -> Positions] /\ at[t].left - 1 \in 0..MaxAttempts
    BY <2>1, Limits DEF TypeOK, Positions
  <2>3. at' \in [Tasks -> Positions]
    BY <2>1, <2>2 DEF Positions
  <2>4. pc' \in [Tasks -> PCs]
    BY <2>1 DEF TypeOK, PCs
  <2> QED  BY <2>1, <2>3, <2>4 DEF TypeOK
<1> QED  BY <1>1, <1>2

\* What handleTaskGet leaves a watcher with: a range that ends at or before the
\* last byte written, and follows on from what it held or replaces it.
LEMMA ReadOutputEffect ==
  ASSUME TypeOK, OutputInv, NEW c \in Clients, NEW t \in Tasks, ReadOutput(c, t)
  PROVE  \E w \in Watchers :
           /\ client' = [client EXCEPT ![c] = w]
           /\ w.task = t /\ w.whole /\ w.lo <= w.hi /\ w.hi <= written[t]
<1>0. /\ client[c] \in Watchers /\ client[c].lo \in Nat /\ client[c].hi \in Nat
      /\ written[t] \in Nat /\ First(t) \in Nat /\ First(t) <= written[t]
      /\ client \in [Clients -> Watchers]
  BY Limits DEF TypeOK, OutputInv, First, Watchers
<1>1. client[c].whole /\ client[c].lo <= client[c].hi /\ client[c].hi <= written[t]
  BY <1>0 DEF OutputInv, NoGapInOutput, ReadOutput, Watchers
<1>2. CASE t \notin InStore
  <2> DEFINE w == [client[c] EXCEPT !.task = t, !.state = "lost"]
  <2>1. w \in Watchers /\ w.task = t /\ w.whole /\ w.lo <= w.hi /\ w.hi <= written[t]
    BY <1>0, <1>1 DEF Watchers
  <2>2. client' = [client EXCEPT ![c] = w]
    BY <1>0, <1>2 DEF ReadOutput, Watchers
  <2> QED  BY <2>1, <2>2
<1>3. CASE t \in InStore
  <2> DEFINE first == client[c].state = "idle"
             ans == OutputSince(t, IF first THEN -1 ELSE client[c].hi)
             replace == first \/ ans.truncated
             lo == IF replace THEN ans.from ELSE client[c].lo
             whole == replace \/ (client[c].whole /\ ans.from = client[c].hi)
             w == [client[c] EXCEPT !.task = t, !.lo = lo, !.hi = written[t],
                                    !.whole = whole, !.state = "snapshot"]
  <2>1. /\ ans.from \in Nat /\ ans.from <= written[t]
        /\ ~replace => ans.from = client[c].hi
    <3>1. /\ ans.from = IF (IF first THEN -1 ELSE client[c].hi) < First(t) THEN First(t)
                        ELSE IF (IF first THEN -1 ELSE client[c].hi) > written[t]
                        THEN written[t] ELSE IF first THEN -1 ELSE client[c].hi
          /\ ans.truncated = ((IF first THEN -1 ELSE client[c].hi) >= 0
                              /\ (IF first THEN -1 ELSE client[c].hi) < First(t))
      BY DEF OutputSince
    <3>2. CASE first
      BY <1>0, <3>1, <3>2
    <3>3. CASE ~first
      <4>1. /\ ans.from = IF client[c].hi < First(t) THEN First(t) ELSE client[c].hi
            /\ ans.truncated <=> client[c].hi < First(t)
        <5>1. ans.truncated = (client[c].hi >= 0 /\ client[c].hi < First(t))
          BY <3>3, Zenon DEF OutputSince
        <5>2. client[c].hi >= 0
          BY <1>0
        <5>3. ans.truncated <=> client[c].hi < First(t)
          BY <5>1, <5>2, Zenon
        <5>4. ans.from = IF client[c].hi < First(t) THEN First(t) ELSE client[c].hi
          <6> HIDE DEF ans
          <6> QED  BY <1>0, <1>1, <3>1, <3>3
        <5> QED  BY <5>3, <5>4, Zenon
      <4> HIDE DEF ans
      <4>2. ~replace => ~(client[c].hi < First(t))
        BY <4>1
      <4> HIDE DEF replace
      <4> QED  BY <1>0, <1>1, <4>1, <4>2
    <3> QED  BY <3>2, <3>3
  <2>2. lo \in Nat /\ lo <= written[t]
    BY <1>0, <1>1, <2>1
  <2>3. whole
    BY <1>1, <2>1
  <2>4. client' = [client EXCEPT ![c] = w]
    BY <1>0, <1>3 DEF ReadOutput, Watchers
  <2>5. client' = [client EXCEPT ![c] = [client[c] EXCEPT !.task = t, !.lo = lo,
                     !.hi = written[t], !.whole = TRUE, !.state = "snapshot"]]
    BY <2>3, <2>4
  <2> HIDE DEF lo
  <2> DEFINE v == [client[c] EXCEPT !.task = t, !.lo = lo, !.hi = written[t],
                                    !.whole = TRUE, !.state = "snapshot"]
  <2>6. v \in Watchers /\ v.task = t /\ v.whole /\ v.lo <= v.hi /\ v.hi <= written[t]
    <3>1. v \in Watchers
      BY <1>0, <2>2 DEF Watchers
    <3>2. v.task = t /\ v.lo = lo /\ v.hi = written[t] /\ v.whole = TRUE
      BY <1>0 DEF Watchers
    <3>3. v.whole
      BY <3>2, Zenon
    <3> HIDE DEF v
    <3>4. v.lo <= v.hi /\ v.hi <= written[t]
      BY <1>0, <2>2, <3>2
    <3> QED  BY <3>1, <3>2, <3>3, <3>4, Zenon
  <2> QED  BY <2>5, <2>6
<1> QED  BY <1>2, <1>3

\* Every step keeps the types.
LEMMA TypeStep == TypeOK /\ OutputInv /\ [Next]_vars => TypeOK'
<1> SUFFICES ASSUME TypeOK, OutputInv, [Next]_vars PROVE TypeOK'
  OBVIOUS
<1> USE DEF output
<1>1. ASSUME NEW t \in Tasks, DispatchTask(t) PROVE TypeOK'
  <2>1. place' \in [Tasks -> Nat]
    <3>1. Surplus \in SUBSET Tasks
      BY DEF Surplus, InStore
    <3> QED  BY <1>1, <3>1, PrependPlaces DEF DispatchTask, Add
  <2>2. at' \in [Tasks -> Positions]
    BY <1>1, Limits DEF DispatchTask, TypeOK, Positions
  <2> QED  BY <1>1, <2>1, <2>2 DEF DispatchTask, TypeOK, PCs
<1>2. ASSUME NEW t \in Tasks, StageStarted(t) PROVE TypeOK'
  BY <1>2 DEF StageStarted, TypeOK, PCs
<1>3. ASSUME NEW t \in Tasks, StageBuild(t) PROVE TypeOK'
  <2>1. CASE \E res \in {"succeeded", "failed"} : StageEnds(t, res)
    BY <1>3, <2>1, StageEndsType DEF StageBuild, TypeOK
  <2>2. CASE \E n \in 1..MaxAttempts :
               /\ at' = [at EXCEPT ![t].left = n]
               /\ pc' = [pc EXCEPT ![t] = "start"]
               /\ UNCHANGED <<stages, ok>>
    <3>0. PICK n \in 1..MaxAttempts : at' = [at EXCEPT ![t].left = n]
      BY <2>2
    <3>3. n \in 0..MaxAttempts
      BY Limits
    <3>1. at' \in [Tasks -> Positions]
      BY <3>0, <3>3 DEF TypeOK, Positions
    <3>2. pc' \in [Tasks -> PCs]
      BY <2>2 DEF TypeOK, PCs
    <3> QED  BY <1>3, <2>2, <3>1, <3>2 DEF StageBuild, TypeOK
  <2> QED  BY <1>3, <2>1, <2>2 DEF StageBuild
<1>4. ASSUME NEW t \in Tasks, Launch(t) PROVE TypeOK'
  <2>1. capture' \in [Tasks -> Captures]
    BY <1>4, RecordFields DEF Launch, TypeOK
  <2>2. CASE ctx[t] = "live"
    BY <1>4, <2>1, <2>2 DEF Launch, TypeOK, PCs
  <2>3. CASE ctx[t] # "live"
    BY <1>4, <2>1, <2>3, AttemptFailsType DEF Launch, TypeOK
  <2> QED  BY <2>2, <2>3
<1>5. ASSUME NEW t \in Tasks, NEW n \in ChunkSizes, Output(t, n) PROVE TypeOK'
  <2>0. n \in Nat /\ CaptureLimit \in Nat /\ TailLimit \in Nat
    BY Limits
  <2>1. capture' \in [Tasks -> Captures]
    <3>1. capture \in [Tasks -> Captures] /\ capture[t].held \in 0..CaptureLimit
      BY RecordFields DEF TypeOK
    <3>2. n <= CaptureLimit - capture[t].held => capture[t].held + n \in 0..CaptureLimit
      BY <2>0, <3>1
    <3>3. n <= CaptureLimit - capture[t].held =>
            [capture EXCEPT ![t].held = @ + n] \in [Tasks -> Captures]
      BY <3>1, <3>2 DEF Captures
    <3>4. [capture EXCEPT ![t] = [held |-> CaptureLimit, short |-> TRUE]] \in [Tasks -> Captures]
      BY <3>1, RecordFields
    <3> QED  BY <1>5, <3>1, <3>3, <3>4 DEF Output
  <2>2. written' \in [Tasks -> Nat] /\ kept' \in [Tasks -> 0..TailLimit]
    <3>1. CASE WriteTail(t, n)
      BY <2>0, <3>1 DEF WriteTail, TypeOK
    <3>2. CASE UNCHANGED <<written, kept>>
      BY <3>2 DEF TypeOK
    <3> QED  BY <1>5, <3>1, <3>2 DEF Output
  <2> QED  BY <1>5, <2>1, <2>2 DEF Output, TypeOK
<1>6. ASSUME NEW t \in Tasks, NEW how \in {"zero", "nonzero", "killed"}, CommandExit(t, how)
      PROVE  TypeOK'
  <2>1. StageEnds(t, "succeeded") \/ AttemptFails(t)
    BY <1>6 DEF CommandExit
  <2>2. exit' \in [Tasks -> {"none", "zero", "nonzero", "killed"}]
    BY <1>6 DEF CommandExit, TypeOK
  <2> QED  BY <1>6, <2>1, <2>2, StageEndsType, AttemptFailsType DEF CommandExit, TypeOK
<1>7. ASSUME NEW t \in Tasks, Record(t) \/ ReadContext(t) \/ Finish(t) \/ Release(t)
      PROVE  TypeOK'
  BY <1>7 DEF Record, ReadContext, Finish, Release, TypeOK, PCs, Finished
<1>8. ASSUME NEW t \in Tasks, Deadline(t) \/ CancelRun(t) PROVE TypeOK'
  BY <1>8 DEF Deadline, CancelRun, TypeOK
<1>9. ASSUME NEW c \in Clients, NEW t \in Tasks, ReadOutput(c, t) PROVE TypeOK'
  <2>1. client' \in [Clients -> Watchers]
    BY <1>9, ReadOutputEffect DEF TypeOK
  <2> QED  BY <1>9, <2>1 DEF ReadOutput, run, TypeOK
<1>10. ASSUME NEW c \in Clients, ReadSnapshot(c) PROVE TypeOK'
  <2>0. client[c] \in Watchers /\ client[c].task \in Tasks
    BY <1>10 DEF ReadSnapshot, TypeOK, Watchers, OutputInv
  <2>1. client' \in [Clients -> Watchers]
    BY <1>10, <2>0 DEF ReadSnapshot, Watchers, TypeOK
  <2> QED  BY <1>10, <2>1 DEF ReadSnapshot, run, TypeOK
<1>11. CASE Shutdown \/ Exit
  BY <1>11 DEF Shutdown, Exit, TypeOK, run
<1>12. CASE UNCHANGED vars
  BY <1>12 DEF vars, run, TypeOK
<1>13. ASSUME NEW t \in Tasks, NEW n \in ChunkSizes, StageIdle(t, n) PROVE TypeOK'
  <2>0. n \in Nat /\ TailLimit \in Nat
    BY Limits
  <2>1. written' \in [Tasks -> Nat] /\ kept' \in [Tasks -> 0..TailLimit]
    BY <1>13, <2>0 DEF StageIdle, WriteTail, TypeOK
  <2>2. StageEnds(t, "succeeded")
    BY <1>13 DEF StageIdle
  <2> QED  BY <1>13, <2>1, <2>2, StageEndsType DEF StageIdle, TypeOK
<1> QED
  BY <1>1, <1>2, <1>3, <1>4, <1>5, <1>6, <1>7, <1>8, <1>9, <1>10, <1>11, <1>12, <1>13
     DEF Next, Step

-----------------------------------------------------------------------------
\* What a watcher holds, and the tail.

LEMMA OutputInit == Init => OutputInv
  BY DEF Init, OutputInv, NoGapInOutput, NoClient

\* A step that neither writes nor reads output.
LEMMA OutputSame ==
  ASSUME OutputInv, UNCHANGED <<written, kept, client>>
  PROVE  OutputInv'
  BY DEF OutputInv, NoGapInOutput

LEMMA OutputStep == TypeOK /\ OutputInv /\ [Next]_vars => OutputInv'
<1> SUFFICES ASSUME TypeOK, OutputInv, [Next]_vars PROVE OutputInv'
  OBVIOUS
<1> USE DEF output
<1>1. ASSUME NEW t \in Tasks, NEW n \in ChunkSizes, WriteTail(t, n), client' = client
      PROVE  OutputInv'
  <2>0. n \in Nat /\ TailLimit \in Nat
    BY Limits
  <2>1. /\ written \in [Tasks -> Nat] /\ kept \in [Tasks -> 0..TailLimit]
        /\ \A u \in Tasks : kept[u] <= written[u]
        /\ \A c \in Clients : client[c].hi \in Nat /\ client[c].task \in Tasks \cup {None}
    BY DEF TypeOK, OutputInv, Watchers
  <2>2. \A u \in Tasks : written'[u] \in Nat /\ written[u] <= written'[u]
    BY <1>1, <2>0, <2>1 DEF WriteTail
  <2>3. \A u \in Tasks : kept'[u] <= written'[u]
    BY <1>1, <2>0, <2>1 DEF WriteTail
  <2>4. ASSUME NEW c \in Clients, client[c].task # None
        PROVE  client[c].hi <= written'[client[c].task]
    <3>1. client[c].task \in Tasks /\ client[c].hi <= written[client[c].task]
      BY <2>1, <2>4 DEF OutputInv, NoGapInOutput
    <3> QED  BY <2>1, <2>2, <3>1
  <2> QED  BY <1>1, <2>3, <2>4 DEF OutputInv, NoGapInOutput
<1>2. ASSUME NEW t \in Tasks, NEW n \in ChunkSizes, Output(t, n) PROVE OutputInv'
  BY <1>2, <1>1, OutputSame DEF Output
<1>3. ASSUME NEW c \in Clients, NEW t \in Tasks, ReadOutput(c, t) PROVE OutputInv'
  <2>1. PICK w \in Watchers :
          /\ client' = [client EXCEPT ![c] = w]
          /\ w.task = t /\ w.whole /\ w.lo <= w.hi /\ w.hi <= written[t]
    BY <1>3, ReadOutputEffect
  <2>2. client'[c] = w /\ \A d \in Clients \ {c} : client'[d] = client[d]
    BY <2>1 DEF TypeOK
  <2>3. written' = written /\ kept' = kept
    BY <1>3 DEF ReadOutput
  <2>4. t # None
    BY TasksAssumption
  <2> QED  BY <2>1, <2>2, <2>3, <2>4 DEF OutputInv, NoGapInOutput
<1>4. ASSUME NEW c \in Clients, ReadSnapshot(c) PROVE OutputInv'
  <2>1. client[c] \in Watchers /\ client[c].task # None
    BY <1>4 DEF ReadSnapshot, TypeOK, OutputInv
  <2>2. /\ client'[c].task = client[c].task /\ client'[c].whole = client[c].whole
        /\ client'[c].lo = client[c].lo /\ client'[c].hi = client[c].hi
        /\ \A d \in Clients \ {c} : client'[d] = client[d]
    BY <1>4, <2>1 DEF ReadSnapshot, TypeOK, Watchers
  <2>3. written' = written /\ kept' = kept
    BY <1>4 DEF ReadSnapshot
  <2> QED  BY <2>1, <2>2, <2>3 DEF OutputInv, NoGapInOutput
<1>5. ASSUME NEW t \in Tasks, DispatchTask(t) \/ Step(t) \/ Deadline(t) \/ CancelRun(t)
      PROVE  OutputInv'
  BY <1>5, OutputSame
     DEF DispatchTask, Step, StageStarted, StageBuild, Launch, CommandExit, Record,
         ReadContext, Finish, Release, Deadline, CancelRun
<1>6. ASSUME NEW t \in Tasks, NEW how, CommandExit(t, how) PROVE OutputInv'
  BY <1>6, OutputSame DEF CommandExit
<1>7. CASE Shutdown \/ Exit \/ UNCHANGED vars
  BY <1>7, OutputSame DEF Shutdown, Exit, vars
<1>8. ASSUME NEW t \in Tasks, NEW n \in ChunkSizes, StageIdle(t, n) PROVE OutputInv'
  BY <1>8, <1>1 DEF StageIdle
<1> QED  BY <1>2, <1>3, <1>4, <1>5, <1>6, <1>7, <1>8 DEF Next

(***************************************************************************)
(* The types are right, and what a watcher holds is one unbroken range of  *)
(* the run's output (Write, outputSince, handleTaskGet), however its reads *)
(* and the run's writes interleave and however short the tail.             *)
(***************************************************************************)
THEOREM OutputHasNoGap == Spec => [](TypeOK /\ NoGapInOutput)
<1>1. Init => TypeOK /\ OutputInv
  BY TypeInit, OutputInit
<1>2. TypeOK /\ OutputInv /\ [Next]_vars => TypeOK' /\ OutputInv'
  BY TypeStep, OutputStep
<1>3. OutputInv => NoGapInOutput
  BY DEF OutputInv
<1> QED  BY <1>1, <1>2, <1>3, PTL DEF Spec

\* The types alone, for the theorems below.
LEMMA TaskTypes == Spec => []TypeOK
  BY OutputHasNoGap, PTL

-----------------------------------------------------------------------------
\* The plan.

LEMMA PlanInit == Init => PlanInv
  BY Limits DEF Init, PlanInv, PlanOf, Stages, IsFinished, Finished

\* A step that leaves a task alone.
LEMMA PlanSame ==
  ASSUME NEW t, PlanOf(t), at'[t] = at[t], stages'[t] = stages[t], pc'[t] = pc[t],
         ok'[t] = ok[t], status'[t] = status[t]
  PROVE  PlanOf(t)'
  BY DEF PlanOf, IsFinished

\* The end of the stage in hand, and of an attempt at it.
LEMMA StageEndsPlan ==
  ASSUME TypeOK, NEW t \in Tasks, PlanOf(t), pc[t] \in {"build", "start", "exec"},
         NEW res \in {"succeeded", "failed"}, StageEnds(t, res), status' = status
  PROVE  PlanOf(t)'
<1> DEFINE k == at[t].stage
<1>0. k \in Stages /\ k \in Nat /\ NStages \in Nat \ {0} /\ at[t] \in Positions
  BY Limits DEF PlanOf, TypeOK, Positions, Stages
<1>1. /\ \A i \in Stages : i # k => stages'[t][i] = stages[t][i]
      /\ stages'[t][k] = res
  BY <1>0 DEF StageEnds, TypeOK
<1>2. ~IsFinished(t)' /\ status'[t] # "succeeded"
  BY DEF PlanOf, IsFinished, Finished
<1>3. CASE res = "succeeded" /\ k < NStages
  <2>1. at'[t].stage = k + 1 /\ pc'[t] = "stage"
    BY <1>0, <1>3 DEF StageEnds, TypeOK, PCs
  <2>2. k + 1 \in Stages
    BY <1>0, <1>3 DEF Stages
  <2>3. \A i \in Stages : /\ i < k + 1 => stages'[t][i] = "succeeded"
                          /\ i >= k + 1 => stages'[t][i] = "pending"
    BY <1>0, <1>1, <1>3 DEF PlanOf, Stages
  <2> QED  BY <1>2, <2>1, <2>2, <2>3, <1>0 DEF PlanOf, Stages
<1>4. CASE ~(res = "succeeded" /\ k < NStages)
  <2>1. at'[t].stage = k /\ pc'[t] = "record"
    BY <1>0, <1>4 DEF StageEnds, TypeOK, PCs
  <2>2. ok'[t] <=> res = "succeeded"
    BY <1>4, Zenon DEF StageEnds, TypeOK
  <2>3. res = "succeeded" => k = NStages
    BY <1>0, <1>4 DEF Stages
  <2>4. \A i \in Stages : /\ i < k => stages'[t][i] = "succeeded"
                          /\ i > k => stages'[t][i] = "pending"
    BY <1>0, <1>1 DEF PlanOf, Stages
  <2>5. IF ok'[t] THEN k = NStages /\ stages'[t][k] = "succeeded" ELSE stages'[t][k] = "failed"
    BY <1>1, <2>2, <2>3, Zenon
  <2> HIDE DEF k
  <2> QED  BY <1>0, <1>2, <2>1, <2>4, <2>5 DEF PlanOf
<1> QED  BY <1>3, <1>4

LEMMA AttemptFailsPlan ==
  ASSUME TypeOK, NEW t \in Tasks, PlanOf(t), pc[t] \in {"start", "exec"},
         AttemptFails(t), status' = status
  PROVE  PlanOf(t)'
<1>1. CASE StageEnds(t, "failed")
  BY <1>1, StageEndsPlan
<1>2. CASE ~StageEnds(t, "failed")
  <2>1. at'[t].stage = at[t].stage /\ stages' = stages /\ ok' = ok /\ pc'[t] = "start"
    BY <1>2 DEF AttemptFails, TypeOK, Positions, PCs
  <2> QED  BY <2>1 DEF PlanOf, IsFinished
<1> QED  BY <1>1, <1>2

\* A task's own steps touch no other task's plan.
LEMMA StageEndsOthers ==
  ASSUME TypeOK, NEW t \in Tasks, NEW u \in Tasks, u # t,
         (\E res : StageEnds(t, res)) \/ AttemptFails(t)
  PROVE  at'[u] = at[u] /\ stages'[u] = stages[u] /\ pc'[u] = pc[u] /\ ok'[u] = ok[u]
<1>1. CASE \E res : StageEnds(t, res)
  BY <1>1 DEF StageEnds, TypeOK
<1>2. CASE ~\E res : StageEnds(t, res)
  BY <1>2 DEF AttemptFails, TypeOK
<1> QED  BY <1>1, <1>2

LEMMA PlanStep == TypeOK /\ PlanInv /\ [Next]_vars => PlanInv'
<1> SUFFICES ASSUME TypeOK, PlanInv, [Next]_vars, NEW u \in Tasks PROVE PlanOf(u)'
  BY DEF PlanInv
<1>0. PlanOf(u)
  BY DEF PlanInv
<1>1. ASSUME NEW t \in Tasks, DispatchTask(t) PROVE PlanOf(u)'
  <2>1. CASE u # t
    BY <1>0, <1>1, <2>1, PlanSame DEF DispatchTask, TypeOK
  <2>2. CASE u = t
    <3>1. /\ at'[t].stage = 1 /\ pc'[t] = "stage" /\ status'[t] = "running"
          /\ stages' = stages /\ pc[t] = "idle"
      BY <1>1 DEF DispatchTask, TypeOK
    <3>2. \A i \in Stages : stages[t][i] = "pending"
      BY <1>0, <2>2, <3>1 DEF PlanOf, Stages
    <3> QED  BY <2>2, <3>1, <3>2, Limits DEF PlanOf, Stages, IsFinished, Finished
  <2> QED  BY <2>1, <2>2
<1>2. ASSUME NEW t \in Tasks, StageStarted(t) PROVE PlanOf(u)'
  <2>1. CASE u # t
    BY <1>0, <1>2, <2>1, PlanSame DEF StageStarted, TypeOK
  <2>2. CASE u = t
    <3>0. at[t].stage \in Stages /\ status[t] # "succeeded" /\ ~IsFinished(t)
      BY <1>0, <1>2, <2>2 DEF StageStarted, PlanOf, IsFinished, Finished
    <3>1. /\ at' = at /\ pc'[t] = "build" /\ status' = status
          /\ stages'[t][at[t].stage] = "running"
          /\ \A i \in Stages : i # at[t].stage => stages'[t][i] = stages[t][i]
      BY <1>2, <3>0 DEF StageStarted, TypeOK, Stages
    <3> QED  BY <1>0, <2>2, <3>0, <3>1 DEF PlanOf, Stages, IsFinished
  <2> QED  BY <2>1, <2>2
<1>3. ASSUME NEW t \in Tasks, StageBuild(t) PROVE PlanOf(u)'
  <2>1. CASE \E res \in {"succeeded", "failed"} : StageEnds(t, res)
    <3>1. CASE u = t
      BY <1>0, <1>3, <2>1, <3>1, StageEndsPlan DEF StageBuild
    <3>2. CASE u # t
      BY <1>0, <1>3, <2>1, <3>2, StageEndsOthers, PlanSame DEF StageBuild
    <3> QED  BY <3>1, <3>2
  <2>2. CASE \E n \in 1..MaxAttempts :
               /\ at' = [at EXCEPT ![t].left = n]
               /\ pc' = [pc EXCEPT ![t] = "start"]
               /\ UNCHANGED <<stages, ok>>
    <3>1. CASE u # t
      BY <1>0, <1>3, <2>2, <3>1, PlanSame DEF StageBuild, TypeOK
    <3>2. CASE u = t
      <4>1. /\ at'[t].stage = at[t].stage /\ pc'[t] = "start" /\ pc[t] = "build"
            /\ stages' = stages /\ ok' = ok /\ status' = status
        BY <1>3, <2>2 DEF StageBuild, TypeOK, Positions
      <4> QED  BY <1>0, <3>2, <4>1 DEF PlanOf, IsFinished
    <3> QED  BY <3>1, <3>2
  <2> QED  BY <1>3, <2>1, <2>2 DEF StageBuild
<1>4. ASSUME NEW t \in Tasks, Launch(t) PROVE PlanOf(u)'
  <2>1. CASE u # t
    <3>1. at'[u] = at[u] /\ stages'[u] = stages[u] /\ pc'[u] = pc[u] /\ ok'[u] = ok[u]
      BY <1>4, <2>1, StageEndsOthers DEF Launch, TypeOK
    <3> QED  BY <1>0, <1>4, <3>1, PlanSame DEF Launch
  <2>2. CASE u = t /\ ctx[t] = "live"
    BY <1>0, <1>4, <2>2 DEF Launch, PlanOf, TypeOK, IsFinished
  <2>3. CASE u = t /\ ctx[t] # "live"
    BY <1>0, <1>4, <2>3, AttemptFailsPlan DEF Launch
  <2> QED  BY <2>1, <2>2, <2>3
<1>5. ASSUME NEW t \in Tasks, NEW n, Output(t, n) PROVE PlanOf(u)'
  BY <1>0, <1>5, PlanSame DEF Output
<1>6. ASSUME NEW t \in Tasks, NEW how, CommandExit(t, how) PROVE PlanOf(u)'
  <2>1. StageEnds(t, "succeeded") \/ AttemptFails(t)
    BY <1>6 DEF CommandExit
  <2>2. CASE u # t
    BY <1>0, <1>6, <2>1, <2>2, StageEndsOthers, PlanSame DEF CommandExit
  <2>3. CASE u = t
    BY <1>0, <1>6, <2>1, <2>3, StageEndsPlan, AttemptFailsPlan DEF CommandExit
  <2> QED  BY <2>2, <2>3
<1>7. ASSUME NEW t \in Tasks, Record(t) \/ ReadContext(t) \/ Release(t) PROVE PlanOf(u)'
  BY <1>0, <1>7 DEF Record, ReadContext, Release, PlanOf, TypeOK, IsFinished, Finished
<1>8. ASSUME NEW t \in Tasks, Finish(t) PROVE PlanOf(u)'
  BY <1>0, <1>8 DEF Finish, PlanOf, TypeOK, IsFinished, Finished
<1>9. ASSUME NEW t \in Tasks, Deadline(t) \/ CancelRun(t) PROVE PlanOf(u)'
  BY <1>0, <1>9, PlanSame DEF Deadline, CancelRun
<1>10. ASSUME NEW c, NEW t \in Tasks, ReadOutput(c, t) \/ ReadSnapshot(c) PROVE PlanOf(u)'
  BY <1>0, <1>10, PlanSame DEF ReadOutput, ReadSnapshot, run
<1>11. CASE Shutdown \/ Exit \/ UNCHANGED vars
  BY <1>0, <1>11, PlanSame DEF Shutdown, Exit, vars, run
<1>12. ASSUME NEW c, ReadSnapshot(c) PROVE PlanOf(u)'
  BY <1>0, <1>12, PlanSame DEF ReadSnapshot, run
<1>13. ASSUME NEW t \in Tasks, NEW n, StageIdle(t, n) PROVE PlanOf(u)'
  <2>1. StageEnds(t, "succeeded") /\ pc[t] = "build" /\ status' = status
    BY <1>13 DEF StageIdle
  <2>2. CASE u # t
    BY <1>0, <2>1, <2>2, StageEndsOthers, PlanSame
  <2>3. CASE u = t
    BY <1>0, <2>1, <2>3, StageEndsPlan
  <2> QED  BY <2>2, <2>3
<1> QED
  BY <1>1, <1>2, <1>3, <1>4, <1>5, <1>6, <1>7, <1>8, <1>9, <1>10, <1>11, <1>12, <1>13
     DEF Next, Step

(***************************************************************************)
(* The plan a client sees is honest (runStages, finish), for plans of any  *)
(* length and any number of attempts: succeeded stages, then at most one   *)
(* running or failed, then pending ones, and a status that agrees.         *)
(***************************************************************************)
THEOREM PlanIsHonest == Spec => []PlanHonest
<1>1. TypeOK /\ PlanInv => PlanHonest
  <2> SUFFICES ASSUME TypeOK, PlanInv, NEW t \in Tasks
               PROVE  /\ \A i, j \in Stages :
                           i < j /\ stages[t][j] # "pending" => stages[t][i] = "succeeded"
                      /\ status[t] = "succeeded" =>
                           \A i \in Stages : stages[t][i] = "succeeded"
                      /\ IsFinished(t) /\ ~ok[t] => \E i \in Stages : stages[t][i] = "failed"
    BY DEF PlanHonest
  <2>1. PlanOf(t) /\ at[t].stage \in Nat /\ NStages \in Nat
    BY Limits DEF PlanInv, TypeOK, Positions
  <2>2. \A i, j \in Stages :
          i < j /\ stages[t][j] # "pending" => stages[t][i] = "succeeded"
    BY <2>1 DEF PlanOf, Stages
  <2>3. status[t] = "succeeded" => \A i \in Stages : stages[t][i] = "succeeded"
    BY <2>1 DEF PlanOf, Stages, IsFinished, Finished
  <2>4. IsFinished(t) /\ ~ok[t] => \E i \in Stages : stages[t][i] = "failed"
    BY <2>1 DEF PlanOf
  <2> QED  BY <2>2, <2>3, <2>4
<1> QED  BY <1>1, TaskTypes, PlanInit, PlanStep, PTL DEF Spec

-----------------------------------------------------------------------------
\* The store.

\* A non-empty set of natural numbers has a least element.
LEMMA LeastNat ==
  ASSUME NEW T \in SUBSET Nat, T # {}
  PROVE  \E m \in T : \A k \in T : m <= k
<1>1. PICK m \in T : \A k \in T : ~(<<k, m>> \in OpToRel(<, Nat))
  BY WFMin, NatLessThanWellFounded
<1>2. \A k \in T : ~(k < m)
  BY <1>1 DEF OpToRel
<1> QED  BY <1>2

\* A proper subset of a set of tasks has fewer elements.
LEMMA FewerTasks ==
  ASSUME NEW S \in SUBSET Tasks, NEW R \in SUBSET S, R # S
  PROVE  Cardinality(R) < Cardinality(S)
<1>1. IsFiniteSet(S) /\ Cardinality(S) \in Nat /\ Cardinality(R) \in Nat
  BY CountTasks
<1>2. Cardinality(R) <= Cardinality(S) /\ Cardinality(R) # Cardinality(S)
  BY <1>1, FS_Subset
<1> QED  BY <1>1, <1>2

\* A non-empty set of tasks has one that was added first: the one with the
\* fewest older ones.
LEMMA OldestTask ==
  ASSUME TypeOK, NEW S \in SUBSET Tasks, S # {}
  PROVE  \E t \in S : \A u \in S : place[u] <= place[t]
<1> DEFINE older(t) == {u \in S : place[u] > place[t]}
           T == {Cardinality(older(t)) : t \in S}
<1>1. T \in SUBSET Nat /\ T # {}
  BY CountTasks
<1>2. PICK n \in T : \A k \in T : n <= k
  <2> HIDE DEF T
  <2> QED  BY <1>1, LeastNat
<1>3. PICK t \in S : n = Cardinality(older(t))
  OBVIOUS
<1>4. ASSUME NEW u \in S, place[u] > place[t] PROVE FALSE
  <2>1. place \in [Tasks -> Nat]
    BY DEF TypeOK
  <2>2. older(u) \in SUBSET older(t) /\ older(u) # older(t) /\ older(t) \in SUBSET Tasks
    BY <1>4, <2>1
  <2>3. Cardinality(older(u)) < Cardinality(older(t))
    <3> HIDE DEF older
    <3> QED  BY <2>2, FewerTasks
  <2>4. Cardinality(older(u)) \in T /\ Cardinality(older(t)) \in T
    OBVIOUS
  <2>5. n <= Cardinality(older(u))
    BY <1>2, <2>4
  <2>6. Cardinality(older(u)) \in Nat /\ Cardinality(older(t)) \in Nat
    BY <1>1, <2>4
  <2> QED  BY <1>3, <2>3, <2>5, <2>6
<1> QED
  BY <1>4 DEF TypeOK

\* Tasks in the store have different places.
LEMMA PlacesDiffer ==
  ASSUME HistoryBounded, NEW t \in InStore, NEW u \in InStore, t # u
  PROVE  place[t] # place[u]
  BY DEF HistoryBounded

\* At most HistoryLimit finished tasks are not surplus: the oldest of more would
\* have HistoryLimit newer ones.
LEMMA HistoryKept ==
  ASSUME TypeOK, HistoryBounded
  PROVE  Cardinality({t \in InStore \ Surplus : IsFinished(t)}) <= HistoryLimit
<1> DEFINE K == {t \in InStore \ Surplus : IsFinished(t)}
<1>0. K \in SUBSET Tasks /\ Cardinality(K) \in Nat /\ IsFiniteSet(K) /\ HistoryLimit \in Nat
  BY CountTasks, Limits DEF InStore
<1> SUFFICES ASSUME Cardinality(K) > HistoryLimit PROVE FALSE
  BY <1>0
<1>1. K # {}
  <2> HIDE DEF K
  <2> QED  BY <1>0, FS_EmptySet
<1>2. PICK t \in K : \A u \in K : place[u] <= place[t]
  <2> HIDE DEF K
  <2> QED  BY <1>0, <1>1, OldestTask
<1> DEFINE N == {u \in InStore : IsFinished(u) /\ place[u] < place[t]}
<1>3. K \ {t} \in SUBSET N
  <2> SUFFICES ASSUME NEW u \in K, u # t PROVE u \in N
    OBVIOUS
  <2>1. place[u] \in Nat /\ place[t] \in Nat
    BY <1>0 DEF TypeOK
  <2>2. u \in InStore /\ t \in InStore /\ IsFinished(u)
    OBVIOUS
  <2>3. place[u] <= place[t] /\ place[u] # place[t]
    BY <1>2, <2>2, PlacesDiffer
  <2>4. place[u] < place[t]
    BY <2>1, <2>3
  <2> QED  BY <2>2, <2>4
<1>4. Cardinality(K \ {t}) = Cardinality(K) - 1
  <2> HIDE DEF K
  <2> QED  BY <1>0, <1>2, FS_RemoveElement
<1>5. IsFiniteSet(N) /\ Cardinality(N) \in Nat
  BY CountTasks DEF InStore
<1>6. Cardinality(K \ {t}) <= Cardinality(N)
  <2> HIDE DEF K, N
  <2> QED  BY <1>3, <1>5, FS_Subset
<1>7. Cardinality(N) >= HistoryLimit
  <2> HIDE DEF K, N
  <2> QED  BY <1>0, <1>4, <1>5, <1>6
<1>8. t \in Surplus
  BY <1>7 DEF Surplus
<1> QED  BY <1>8

\* add keeps them different.
LEMMA PrependDistinct ==
  ASSUME TypeOK, HistoryBounded, NEW t \in Tasks, NEW D \in SUBSET Tasks,
         NEW u \in Tasks, NEW v \in Tasks, u # v,
         Prepend(t, D)[u] # 0, Prepend(t, D)[v] # 0
  PROVE  Prepend(t, D)[u] # Prepend(t, D)[v]
<1> DEFINE newer(w) == {x \in InStore \ D : place[x] < place[w]}
<1>0. \A w \in Tasks : Cardinality(newer(w)) \in Nat /\ newer(w) \in SUBSET Tasks
  BY CountTasks DEF InStore
<1>1. \A w \in Tasks : /\ w = t => Prepend(t, D)[w] = 1
                       /\ w # t /\ w \in InStore \ D =>
                            Prepend(t, D)[w] = 2 + Cardinality(newer(w))
                       /\ w # t /\ w \notin InStore \ D => Prepend(t, D)[w] = 0
  BY DEF Prepend
<1>2. ASSUME NEW w \in InStore \ D, NEW x \in InStore \ D, place[w] < place[x]
      PROVE  Cardinality(newer(w)) # Cardinality(newer(x))
  <2>1. newer(w) \in SUBSET newer(x) /\ newer(w) # newer(x) /\ newer(x) \in SUBSET Tasks
    BY <1>2 DEF TypeOK, InStore
  <2>2. Cardinality(newer(w)) < Cardinality(newer(x))
    <3> HIDE DEF newer
    <3> QED  BY <2>1, FewerTasks
  <2> QED  BY <1>0, <2>2 DEF InStore
<1>3. CASE u = t \/ v = t
  <2> HIDE DEF newer
  <2> QED  BY <1>0, <1>1, <1>3
<1>4. CASE u # t /\ v # t
  <2>1. u \in InStore \ D /\ v \in InStore \ D
    BY <1>1, <1>4
  <2>2. place[u] < place[v] \/ place[v] < place[u]
    <3>1. u \in InStore /\ v \in InStore
      BY <2>1
    <3>2. place[u] # place[v]
      BY <3>1, PlacesDiffer
    <3>3. place[u] \in Nat /\ place[v] \in Nat
      BY DEF TypeOK
    <3> QED  BY <3>2, <3>3
  <2>3. Cardinality(newer(u)) # Cardinality(newer(v))
    BY <1>2, <2>1, <2>2
  <2> HIDE DEF newer
  <2> QED  BY <1>0, <1>1, <1>4, <2>1, <2>3
<1> QED  BY <1>3, <1>4

-----------------------------------------------------------------------------
LEMMA StoreInit == Init => StoreInv
<1> SUFFICES ASSUME Init PROVE StoreInv
  OBVIOUS
<1>1. InFlight = {} /\ InStore = {}
  BY DEF Init, InFlight, InStore
<1>2. Cardinality({}) = 0
  BY FS_EmptySet
<1> QED
  BY <1>1, <1>2, Limits DEF Init, StoreInv, RunningFindable, HistoryBounded, Unfinished

\* A step that leaves the store, the statuses and who is in flight alone.
LEMMA StoreSame ==
  ASSUME StoreInv, place' = place, status' = status,
         \A t \in Tasks : pc'[t] = pc[t] \/ (pc[t] \in Unfinished /\ pc'[t] \in Unfinished)
  PROVE  StoreInv'
<1>1. InFlight' = InFlight
  BY DEF InFlight, Unfinished
<1>2. InStore' = InStore
  BY DEF InStore
<1> QED  BY <1>1, <1>2 DEF StoreInv, RunningFindable, HistoryBounded, Unfinished

\* The end of a stage or an attempt leaves a task unfinished.
LEMMA StageEndsUnfinished ==
  ASSUME TypeOK, NEW t \in Tasks, pc[t] \in Unfinished,
         (\E res : StageEnds(t, res)) \/ AttemptFails(t)
  PROVE  \A u \in Tasks : pc'[u] = pc[u] \/ (pc[u] \in Unfinished /\ pc'[u] \in Unfinished)
<1>1. \E x \in {"stage", "record", "start"} : pc' = [pc EXCEPT ![t] = x]
  <2>1. CASE \E res : StageEnds(t, res)
    BY <2>1 DEF StageEnds
  <2>2. CASE ~\E res : StageEnds(t, res)
    BY <2>2 DEF AttemptFails
  <2> QED  BY <2>1, <2>2
<1> QED  BY <1>1 DEF TypeOK, Unfinished

\* add keeps what runs, and what it keeps of the history fits beside it.
LEMMA DispatchStore ==
  ASSUME TypeOK, StoreInv, NEW t \in Tasks, DispatchTask(t)
  PROVE  StoreInv'
<1>0. /\ pc[t] = "idle" /\ status[t] = "none" /\ place[t] = 0
      /\ pc' = [pc EXCEPT ![t] = "stage"] /\ status' = [status EXCEPT ![t] = "running"]
      /\ place' = Prepend(t, Surplus)
  BY DEF DispatchTask, StoreInv, Add
<1>1. Surplus \in SUBSET Tasks /\ \A u \in Surplus : status[u] \in Finished
  BY DEF Surplus, InStore, IsFinished
<1>2. \A u \in Tasks : place'[u] # 0 <=> u = t \/ u \in InStore \ Surplus
  BY <1>0, <1>1, PrependPlaces
<1>3. InStore' = (InStore \ Surplus) \cup {t}
  BY <1>2 DEF InStore
<1>4. InFlight' = InFlight \cup {t} /\ t \notin InFlight
  BY <1>0 DEF InFlight, TypeOK
<1>5. Cardinality(InFlight') <= Slots
  <2>1. InFlight \in SUBSET Tasks
    BY DEF InFlight
  <2>2. IsFiniteSet(InFlight) /\ Cardinality(InFlight) \in Nat
    BY <2>1, CountTasks
  <2>3. Cardinality(InFlight \cup {t}) = Cardinality(InFlight) + 1
    BY <2>2, <1>4, FS_AddElement
  <2>4. Cardinality(InFlight) < Slots
    BY DEF DispatchTask
  <2> QED  BY <1>4, <2>2, <2>3, <2>4, Limits
<1>6. RunningFindable'
  BY <1>0, <1>1, <1>2 DEF StoreInv, RunningFindable, InStore, TypeOK, Finished
<1>7. HistoryBounded'
  <2>1. \A u, v \in InStore' : place'[u] = place'[v] => u = v
    <3> SUFFICES ASSUME NEW u \in InStore', NEW v \in InStore', u # v
                 PROVE  place'[u] # place'[v]
      OBVIOUS
    <3>1. u \in Tasks /\ v \in Tasks /\ place'[u] # 0 /\ place'[v] # 0
      BY DEF InStore
    <3>2. HistoryBounded
      BY DEF StoreInv
    <3> QED  BY <1>0, <1>1, <3>1, <3>2, PrependDistinct
  <2> DEFINE K == {u \in InStore \ Surplus : IsFinished(u)}
  <2>2. Cardinality(K) <= HistoryLimit
    BY HistoryKept DEF StoreInv
  <2>3. InStore' \in SUBSET (K \cup InFlight')
    <3>1. \A u \in InStore : ~IsFinished(u) => u \in InFlight
      BY DEF StoreInv, InStore, InFlight, IsFinished, TypeOK, Unfinished
    <3> QED  BY <1>3, <1>4, <3>1
  <2>4. K \in SUBSET Tasks /\ InFlight' \in SUBSET Tasks
    BY DEF InStore, InFlight
  <2> HIDE DEF K
  <2>5. /\ IsFiniteSet(K) /\ Cardinality(K) \in Nat
        /\ IsFiniteSet(InFlight') /\ Cardinality(InFlight') \in Nat
        /\ Cardinality(K \cap InFlight') \in Nat
    <3>1. K \cap InFlight' \in SUBSET Tasks
      BY <2>4
    <3> QED  BY <2>4, <3>1, CountTasks
  <2>6. /\ IsFiniteSet(K \cup InFlight')
        /\ Cardinality(K \cup InFlight') =
             Cardinality(K) + Cardinality(InFlight') - Cardinality(K \cap InFlight')
    BY <2>5, FS_Union
  <2>7. Cardinality(InStore') <= Cardinality(K \cup InFlight')
    BY <2>3, <2>6, FS_Subset
  <2>8. Cardinality(InStore') \in Nat
    <3>1. InStore' \in SUBSET Tasks
      BY DEF InStore
    <3> QED  BY <3>1, CountTasks
  <2>9. Cardinality(InStore') <= HistoryLimit + Slots
    BY <1>5, <2>2, <2>5, <2>6, <2>7, <2>8, Limits
  <2> QED  BY <2>1, <2>9 DEF HistoryBounded
<1>8. \A u \in Tasks : /\ pc'[u] = "idle" <=> status'[u] = "none"
                       /\ pc'[u] \in Unfinished <=> status'[u] = "running"
                       /\ status'[u] = "none" => place'[u] = 0
  BY <1>0, <1>2 DEF StoreInv, InStore, TypeOK, Unfinished
<1> QED  BY <1>5, <1>6, <1>7, <1>8 DEF StoreInv

LEMMA StoreStep == TypeOK /\ StoreInv /\ [Next]_vars => StoreInv'
<1> SUFFICES ASSUME TypeOK, StoreInv, [Next]_vars PROVE StoreInv'
  OBVIOUS
<1>1. ASSUME NEW t \in Tasks, DispatchTask(t) PROVE StoreInv'
  BY <1>1, DispatchStore
<1>2. ASSUME NEW t \in Tasks, StageStarted(t) \/ Record(t) \/ ReadContext(t) PROVE StoreInv'
  BY <1>2, StoreSame DEF StageStarted, Record, ReadContext, TypeOK, Unfinished
<1>3. ASSUME NEW t \in Tasks, StageBuild(t) PROVE StoreInv'
  <2>1. place' = place /\ status' = status /\ pc[t] \in Unfinished
    BY <1>3 DEF StageBuild, Unfinished
  <2>2. CASE \E res : StageEnds(t, res)
    BY <2>1, <2>2, StageEndsUnfinished, StoreSame
  <2>3. CASE ~\E res : StageEnds(t, res)
    <3>1. pc' = [pc EXCEPT ![t] = "start"]
      BY <1>3, <2>3 DEF StageBuild
    <3> QED  BY <2>1, <3>1, StoreSame DEF TypeOK, Unfinished
  <2> QED  BY <2>2, <2>3
<1>4. ASSUME NEW t \in Tasks, Launch(t) PROVE StoreInv'
  <2>1. place' = place /\ status' = status /\ pc[t] \in Unfinished
    BY <1>4 DEF Launch, Unfinished
  <2>2. CASE AttemptFails(t)
    BY <2>1, <2>2, StageEndsUnfinished, StoreSame
  <2>3. CASE ~AttemptFails(t)
    <3>1. pc' = [pc EXCEPT ![t] = "exec"]
      BY <1>4, <2>3 DEF Launch
    <3> QED  BY <2>1, <3>1, StoreSame DEF TypeOK, Unfinished
  <2> QED  BY <2>2, <2>3
<1>5. ASSUME NEW t \in Tasks, NEW n, Output(t, n) PROVE StoreInv'
  BY <1>5, StoreSame DEF Output
<1>6. ASSUME NEW t \in Tasks, NEW how, CommandExit(t, how) PROVE StoreInv'
  <2>1. place' = place /\ status' = status /\ pc[t] \in Unfinished
    BY <1>6 DEF CommandExit, Unfinished
  <2>2. (\E res : StageEnds(t, res)) \/ AttemptFails(t)
    BY <1>6 DEF CommandExit
  <2> QED  BY <2>1, <2>2, StageEndsUnfinished, StoreSame
<1>7. ASSUME NEW t \in Tasks, Finish(t) PROVE StoreInv'
  <2>1. /\ pc[t] = "finish" /\ pc' = [pc EXCEPT ![t] = "release"] /\ place' = place
        /\ \E x \in Finished : status' = [status EXCEPT ![t] = x]
    BY <1>7 DEF Finish, Finished
  <2>2. InFlight' = InFlight /\ InStore' = InStore
    BY <2>1 DEF InFlight, InStore, TypeOK
  <2> QED  BY <2>1, <2>2
           DEF StoreInv, RunningFindable, HistoryBounded, Unfinished, TypeOK, Finished
<1>8. ASSUME NEW t \in Tasks, Release(t) PROVE StoreInv'
  <2>1. /\ pc[t] = "release" /\ pc' = [pc EXCEPT ![t] = "done"]
        /\ place' = place /\ status' = status
    BY <1>8 DEF Release
  <2>2. InStore' = InStore /\ InFlight' \in SUBSET InFlight /\ InFlight \in SUBSET Tasks
    BY <2>1 DEF InFlight, InStore, TypeOK
  <2>3. Cardinality(InFlight') <= Slots
    <3>1. IsFiniteSet(InFlight) /\ Cardinality(InFlight) \in Nat /\ Cardinality(InFlight') \in Nat
      BY <2>2, CountTasks
    <3>2. Cardinality(InFlight') <= Cardinality(InFlight)
      BY <2>2, <3>1, FS_Subset
    <3> QED  BY <3>1, <3>2, Limits DEF StoreInv
  <2> QED  BY <2>1, <2>2, <2>3
           DEF StoreInv, RunningFindable, HistoryBounded, Unfinished, TypeOK
<1>9. ASSUME NEW t \in Tasks, Deadline(t) \/ CancelRun(t) PROVE StoreInv'
  BY <1>9, StoreSame DEF Deadline, CancelRun
<1>10. ASSUME NEW c, NEW t, ReadOutput(c, t) PROVE StoreInv'
  BY <1>10, StoreSame DEF ReadOutput, run
<1>11. ASSUME NEW c, ReadSnapshot(c) PROVE StoreInv'
  BY <1>11, StoreSame DEF ReadSnapshot, run
<1>12. CASE Shutdown \/ Exit \/ UNCHANGED vars
  BY <1>12, StoreSame DEF Shutdown, Exit, vars, run
<1>13. ASSUME NEW t \in Tasks, NEW n, StageIdle(t, n) PROVE StoreInv'
  <2>1. place' = place /\ status' = status /\ pc[t] \in Unfinished
    BY <1>13 DEF StageIdle, Unfinished
  <2>2. \E res : StageEnds(t, res)
    BY <1>13 DEF StageIdle
  <2> QED  BY <2>1, <2>2, StageEndsUnfinished, StoreSame
<1> QED
  BY <1>1, <1>2, <1>3, <1>4, <1>5, <1>6, <1>7, <1>8, <1>9, <1>10, <1>11, <1>12, <1>13
     DEF Next, Step

\* The store's invariant.
LEMMA StoreInvariant == Spec => []StoreInv
  BY TaskTypes, StoreInit, StoreStep, PTL DEF Spec

(***************************************************************************)
(* taskStore.add drops no running task, for any number of tasks and any    *)
(* limits: every task that runs can be watched and cancelled.              *)
(***************************************************************************)
THEOREM RunningIsFindable == Spec => []RunningFindable
<1>1. StoreInv => RunningFindable
  BY DEF StoreInv
<1> QED  BY <1>1, StoreInvariant, PTL

(***************************************************************************)
(* taskStore.add bounds the store: no id twice, and never more tasks than  *)
(* the history limit and one per slot.                                     *)
(***************************************************************************)
THEOREM StoreIsBounded == Spec => []HistoryBounded
<1>1. StoreInv => HistoryBounded
  BY DEF StoreInv
<1> QED  BY <1>1, StoreInvariant, PTL
=============================================================================

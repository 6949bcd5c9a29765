------------------------------ MODULE OpTasks ------------------------------
(***************************************************************************)
(* Long native operations as tasks: the store of recent tasks, the run of  *)
(* a task through its stages and attempts, its output tail, and the        *)
(* clients that follow it (internal/daemon/tasks.go and tasks_http.go,     *)
(* with dispatchTask, runStages, runStage and runOpOnce of ops.go and      *)
(* Shutdown of app.go).                                                    *)
(*                                                                         *)
(* Output is counted, not spelled out: byte n is the n-th byte the run     *)
(* wrote to the task, and a tail or a client's buffer is a range of byte   *)
(* numbers. Each task's commands write to one stream here; stdout and      *)
(* stderr of the code run through the same writers. The configuration is   *)
(* not reloaded (RunSlots is about that), so the slots are a plain bound.  *)
(***************************************************************************)
EXTENDS Integers, FiniteSets

CONSTANTS
    Tasks,         \* task ids
    Clients,       \* watchers polling GET /api/v1/tasks/:id
    NStages,       \* the length of every plan
    MaxAttempts,   \* attempts a stage has at most
    Slots,         \* maxConcurrentRuns
    HistoryLimit,  \* taskHistoryLimit
    CaptureLimit,  \* the limit of a limitedBuffer
    TailLimit,     \* taskOutputLimit
    ChunkSizes,    \* sizes of one write of a command
    MaxWritten,    \* bound: bytes a task's tail is sent
    None

ASSUME TasksAssumption ==
    /\ IsFiniteSet(Tasks) /\ None \notin Tasks
    /\ {NStages, Slots, CaptureLimit, TailLimit} \subseteq Nat \ {0}
    /\ {MaxAttempts, HistoryLimit, MaxWritten} \subseteq Nat
    /\ ChunkSizes \subseteq Nat \ {0}

VARIABLES
    daemon,    \* "up", "stopping" (tasks cancelled, HTTP draining), "down"
    place,     \* where a task is in the store's place, newest first from 1;
               \* 0 if it is not there, nor in byID
    pc,        \* what a task's goroutine does next
    at,        \* the stage a task is in, and the attempts it still has
    stages,    \* the plan as a client sees it
    ctx,       \* the run's context: "live", "canceled" or "expired"
    status,    \* the task's status; "none" before it is made
    ok,        \* response.OK
    seen,      \* runCtx.Err() as finish was called with it
    capture,   \* the attempt's limitedBuffer: bytes held, and a short write
    exit,      \* how the last command really ended
    written,   \* bytes written to the task in all
    kept,      \* bytes of them in its tail
    client     \* what each watcher holds and was told

run == <<pc, at, stages, ctx, status, ok, seen, capture, exit>>
output == <<written, kept>>
vars == <<daemon, place, run, output, client>>

Stages == 1..NStages
Finished == {"succeeded", "failed", "canceled"}
PCs == {"idle", "stage", "build", "start", "exec", "record", "close",
        "finish", "release", "done"}
NoClient == [task |-> None, lo |-> 0, hi |-> 0, whole |-> TRUE, bytes |-> 0,
             state |-> "idle"]

Positions == [stage : 0..NStages, left : 0..MaxAttempts]
Captures == [held : 0..CaptureLimit, short : BOOLEAN]
Watchers == [task : Tasks \cup {None}, lo : Nat, hi : Nat, whole : BOOLEAN, bytes : Nat,
             state : {"idle", "snapshot", "watching", "over", "lost"}]

TypeOK ==
    /\ daemon \in {"up", "stopping", "down"}
    /\ place \in [Tasks -> Nat]
    /\ pc \in [Tasks -> PCs]
    /\ at \in [Tasks -> Positions]
    /\ stages \in [Tasks -> [Stages -> {"pending", "running", "succeeded", "failed"}]]
    /\ ctx \in [Tasks -> {"live", "canceled", "expired"}]
    /\ status \in [Tasks -> {"none", "running"} \cup Finished]
    /\ ok \in [Tasks -> BOOLEAN]
    /\ seen \in [Tasks -> {"live", "canceled", "expired"}]
    /\ capture \in [Tasks -> Captures]
    /\ exit \in [Tasks -> {"none", "zero", "nonzero", "killed"}]
    /\ written \in [Tasks -> Nat] /\ kept \in [Tasks -> 0..TailLimit]
    /\ client \in [Clients -> Watchers]

Empty == [held |-> 0, short |-> FALSE]

Init ==
    /\ daemon = "up"
    /\ place = [t \in Tasks |-> 0]
    /\ pc = [t \in Tasks |-> "idle"]
    /\ at = [t \in Tasks |-> [stage |-> 0, left |-> 0]]
    /\ stages = [t \in Tasks |-> [i \in Stages |-> "pending"]]
    /\ ctx = [t \in Tasks |-> "live"]
    /\ status = [t \in Tasks |-> "none"]
    /\ ok = [t \in Tasks |-> FALSE]
    /\ seen = [t \in Tasks |-> "live"]
    /\ capture = [t \in Tasks |-> Empty]
    /\ exit = [t \in Tasks |-> "none"]
    /\ written = [t \in Tasks |-> 0]
    /\ kept = [t \in Tasks |-> 0]
    /\ client = [c \in Clients |-> NoClient]

-----------------------------------------------------------------------------
\* The store.

InFlight == {t \in Tasks : pc[t] \notin {"idle", "done"}}
IsFinished(t) == status[t] \in Finished

InStore == {t \in Tasks : place[t] # 0}

\* The finished tasks of the store that have HistoryLimit newer ones.
Surplus ==
    {t \in InStore :
        /\ IsFinished(t)
        /\ Cardinality({u \in InStore : IsFinished(u) /\ place[u] < place[t]}) >= HistoryLimit}

\* The places once t is put in front and the tasks of drop are deleted.
Prepend(t, drop) ==
    [u \in Tasks |->
        IF u = t THEN 1
        ELSE IF u \in InStore \ drop
        THEN 2 + Cardinality({v \in InStore \ drop : place[v] < place[u]})
        ELSE 0]

\* (Mutant: the store keeps the newest tasks, running or not.)
AddKeepsNewest(t) == Prepend(t, {u \in InStore : place[u] > HistoryLimit})

\* taskStore.add: prepend, then drop finished tasks from the old end. Running
\* tasks are passed over, the new one among them.
Add(t) == Prepend(t, Surplus)

\* dispatchTask: a slot, a context of the task's own, the task in the store and
\* its goroutine. A refused request changes nothing.
DispatchTask(t) ==
    /\ daemon # "down"
    /\ pc[t] = "idle"
    /\ Cardinality(InFlight) < Slots
    /\ place' = Add(t)
    /\ status' = [status EXCEPT ![t] = "running"]
    /\ pc' = [pc EXCEPT ![t] = "stage"]
    /\ at' = [at EXCEPT ![t] = [stage |-> 1, left |-> 0]]
    /\ UNCHANGED <<daemon, stages, ctx, ok, seen, capture, exit, output, client>>

-----------------------------------------------------------------------------
\* The run: runStages.

\* What follows a stage: the next one, or the end of the plan.
StageEnds(t, res) ==
    /\ stages' = [stages EXCEPT ![t][at[t].stage] = res]
    /\ IF res = "succeeded" /\ at[t].stage < NStages
       THEN /\ at' = [at EXCEPT ![t] = [stage |-> @.stage + 1, left |-> 0]]
            /\ pc' = [pc EXCEPT ![t] = "stage"]
            /\ ok' = ok
       ELSE /\ at' = at
            /\ pc' = [pc EXCEPT ![t] = "record"]
            /\ ok' = [ok EXCEPT ![t] = (res = "succeeded")]

StageStarted(t) ==
    /\ daemon # "down" /\ pc[t] = "stage"
    /\ stages' = [stages EXCEPT ![t][at[t].stage] = "running"]
    /\ exit' = [exit EXCEPT ![t] = "none"]
    /\ pc' = [pc EXCEPT ![t] = "build"]
    /\ UNCHANGED <<daemon, place, at, ctx, status, ok, seen, capture, output, client>>

\* The stage's attempts: they cannot be worked out, there is nothing to run (and
\* nothing to say about it, see StageIdle), or there are some.
StageBuild(t) ==
    /\ daemon # "down" /\ pc[t] = "build"
    /\ \/ \E res \in {"succeeded", "failed"} : StageEnds(t, res)
       \/ \E n \in 1..MaxAttempts :
            /\ at' = [at EXCEPT ![t].left = n]
            /\ pc' = [pc EXCEPT ![t] = "start"]
            /\ UNCHANGED <<stages, ok>>
    /\ UNCHANGED <<daemon, place, ctx, status, seen, capture, exit, output, client>>

\* (Mutant: the plan goes on after a stage that failed.)
AttemptFailsOnward(t) ==
    IF at[t].left > 1 /\ ctx[t] # "expired"
    THEN /\ at' = [at EXCEPT ![t].left = @ - 1]
         /\ pc' = [pc EXCEPT ![t] = "start"]
         /\ UNCHANGED <<stages, ok>>
    ELSE /\ stages' = [stages EXCEPT ![t][at[t].stage] = "failed"]
         /\ IF at[t].stage < NStages
            THEN /\ at' = [at EXCEPT ![t] = [stage |-> @.stage + 1, left |-> 0]]
                 /\ pc' = [pc EXCEPT ![t] = "stage"]
                 /\ ok' = ok
            ELSE /\ at' = at
                 /\ pc' = [pc EXCEPT ![t] = "record"]
                 /\ ok' = [ok EXCEPT ![t] = TRUE]

\* runStage after a failed attempt: the next one, unless the deadline passed.
AttemptFails(t) ==
    IF at[t].left > 1 /\ ctx[t] # "expired"
    THEN /\ at' = [at EXCEPT ![t].left = @ - 1]
         /\ pc' = [pc EXCEPT ![t] = "start"]
         /\ UNCHANGED <<stages, ok>>
    ELSE StageEnds(t, "failed")

\* exec.Cmd.Start refuses under a context that has ended.
Launch(t) ==
    /\ daemon # "down" /\ pc[t] = "start"
    /\ capture' = [capture EXCEPT ![t] = Empty]
    /\ IF ctx[t] = "live"
       THEN /\ pc' = [pc EXCEPT ![t] = "exec"]
            /\ UNCHANGED <<at, stages, ok, exit>>
       ELSE /\ exit' = [exit EXCEPT ![t] = "killed"]
            /\ AttemptFails(t)
    /\ UNCHANGED <<daemon, place, ctx, status, seen, output, client>>

\* opTask.Write: append, and keep the last TailLimit bytes.
WriteTail(t, n) ==
    /\ written' = [written EXCEPT ![t] = @ + n]
    /\ kept' = [kept EXCEPT ![t] = IF @ + n > TailLimit THEN TailLimit ELSE @ + n]

\* A stage that has nothing to run and a note to say so: the note goes to the
\* task, and the stage has succeeded.
StageIdle(t, n) ==
    /\ daemon # "down" /\ pc[t] = "build"
    /\ written[t] + n <= MaxWritten
    /\ WriteTail(t, n)
    /\ StageEnds(t, "succeeded")
    /\ UNCHANGED <<daemon, place, ctx, status, seen, capture, exit, client>>

\* The command writes n bytes: limitedBuffer.Write, and then the task through
\* io.MultiWriter. A chunk that crosses the buffer's limit is answered with a
\* smaller count, which MultiWriter turns into io.ErrShortWrite before it comes
\* to the task, and which ends the copying of this stream.
Output(t, n) ==
    /\ daemon # "down" /\ pc[t] = "exec" /\ ~capture[t].short
    /\ written[t] + n <= MaxWritten
    /\ LET room == CaptureLimit - capture[t].held IN
       IF room = 0 THEN WriteTail(t, n) /\ capture' = capture
       ELSE IF n <= room
       THEN WriteTail(t, n) /\ capture' = [capture EXCEPT ![t].held = @ + n]
       ELSE /\ capture' = [capture EXCEPT ![t] = [held |-> CaptureLimit, short |-> TRUE]]
            /\ UNCHANGED output
    /\ UNCHANGED <<daemon, place, pc, at, stages, ctx, status, ok, seen, exit, client>>

\* cmd.Run returns. It succeeds if the command exited with zero and its output
\* was copied without error.
CommandExit(t, how) ==
    /\ daemon # "down" /\ pc[t] = "exec"
    /\ how = "killed" => ctx[t] # "live"
    /\ exit' = [exit EXCEPT ![t] = how]
    /\ IF how = "zero" /\ ~capture[t].short
       THEN StageEnds(t, "succeeded")
       ELSE AttemptFails(t)
    /\ UNCHANGED <<daemon, place, ctx, status, seen, capture, output, client>>

\* The audit record, the counters and publishFailure at the end of runStages.
Record(t) ==
    /\ daemon # "down" /\ pc[t] = "record"
    /\ pc' = [pc EXCEPT ![t] = "close"]
    /\ UNCHANGED <<daemon, place, at, stages, ctx, status, ok, seen, capture,
                   exit, output, client>>

\* The goroutine of dispatchTask reads runCtx.Err() ...
ReadContext(t) ==
    /\ daemon # "down" /\ pc[t] = "close"
    /\ seen' = [seen EXCEPT ![t] = ctx[t]]
    /\ pc' = [pc EXCEPT ![t] = "finish"]
    /\ UNCHANGED <<daemon, place, at, stages, ctx, status, ok, capture, exit,
                   output, client>>

\* ... and opTask.finish closes the task under its lock.
Finish(t) ==
    /\ daemon # "down" /\ pc[t] = "finish"
    /\ status' = [status EXCEPT ![t] =
                    IF seen[t] = "live" /\ ok[t] THEN "succeeded"
                    ELSE IF seen[t] = "canceled" THEN "canceled" ELSE "failed"]
    /\ pc' = [pc EXCEPT ![t] = "release"]
    /\ UNCHANGED <<daemon, place, at, stages, ctx, ok, seen, capture, exit,
                   output, client>>

\* The deferred cancel and releaseSlot.
Release(t) ==
    /\ daemon # "down" /\ pc[t] = "release"
    /\ pc' = [pc EXCEPT ![t] = "done"]
    /\ ctx' = [ctx EXCEPT ![t] = IF @ = "live" THEN "canceled" ELSE @]
    /\ UNCHANGED <<daemon, place, at, stages, status, ok, seen, capture, exit,
                   output, client>>

-----------------------------------------------------------------------------
\* What ends a context.

\* (Mutant: the run has no deadline.)
NoDeadline(t) ==
    /\ FALSE
    /\ UNCHANGED vars

\* runContext: the plan's timeout.
Deadline(t) ==
    /\ daemon # "down" /\ pc[t] \notin {"idle", "done"}
    /\ ctx[t] = "live"
    /\ ctx' = [ctx EXCEPT ![t] = "expired"]
    /\ UNCHANGED <<daemon, place, pc, at, stages, status, ok, seen, capture,
                   exit, output, client>>

\* handleTaskCancel and cancelRun: only a task that is in the store and running.
CancelRun(t) ==
    /\ daemon # "down" /\ t \in InStore
    /\ status[t] = "running" /\ ctx[t] = "live"
    /\ ctx' = [ctx EXCEPT ![t] = "canceled"]
    /\ UNCHANGED <<daemon, place, pc, at, stages, status, ok, seen, capture,
                   exit, output, client>>

\* Shutdown: cancelAll, then the HTTP server stops taking requests. Nobody
\* waits for the tasks.
Shutdown ==
    /\ daemon = "up"
    /\ daemon' = "stopping"
    /\ ctx' = [t \in Tasks |->
                 IF t \in InStore /\ status[t] = "running" /\ ctx[t] = "live"
                 THEN "canceled" ELSE ctx[t]]
    /\ UNCHANGED <<place, pc, at, stages, status, ok, seen, capture, exit,
                   output, client>>

\* Run returns from Shutdown and the process ends.
Exit ==
    /\ daemon = "stopping"
    /\ daemon' = "down"
    /\ UNCHANGED <<place, run, output, client>>

-----------------------------------------------------------------------------
\* A watcher: handleTaskGet takes the task's lock twice, for outputSince and for
\* snapshot. It asks for the bytes after the last one it holds, and replaces
\* what it holds when it is told that the answer does not follow on.

First(t) == written[t] - kept[t]

\* (Mutant: a watcher that has fallen behind the tail is not told so.)
OutputSinceUntold(t, since) ==
    [from |-> IF since < First(t) THEN First(t) ELSE since, truncated |-> FALSE]

\* outputSince(since), since = -1 for none: where the answer starts, and whether
\* it replaces what the watcher holds. It goes on to the last byte written.
OutputSince(t, since) ==
    [from |-> IF since < First(t) THEN First(t)
              ELSE IF since > written[t] THEN written[t] ELSE since,
     truncated |-> since >= 0 /\ since < First(t)]

ReadOutput(c, t) ==
    /\ daemon # "down"
    /\ client[c].state = "idle" \/ (client[c].state = "watching" /\ client[c].task = t)
    /\ status[t] # "none"
    /\ IF t \notin InStore
       THEN client' = [client EXCEPT ![c].task = t, ![c].state = "lost"]
       ELSE LET first == client[c].state = "idle"
                ans == OutputSince(t, IF first THEN -1 ELSE client[c].hi)
                replace == first \/ ans.truncated
            IN client' = [client EXCEPT
                 ![c].task = t,
                 ![c].lo = IF replace THEN ans.from ELSE @,
                 ![c].hi = written[t],
                 ![c].whole = replace \/ (@ /\ ans.from = client[c].hi),
                 ![c].state = "snapshot"]
    /\ UNCHANGED <<daemon, place, run, output>>

\* The snapshot of the same answer; a watcher stops at a finished task.
ReadSnapshot(c) ==
    /\ daemon # "down" /\ client[c].state = "snapshot"
    /\ LET t == client[c].task IN
       client' = [client EXCEPT
         ![c].bytes = written[t],
         ![c].state = IF IsFinished(t) THEN "over" ELSE "watching"]
    /\ UNCHANGED <<daemon, place, run, output>>

-----------------------------------------------------------------------------
\* What the goroutine of a task does by itself, commands that end apart.
Step(t) ==
    \/ StageStarted(t)
    \/ StageBuild(t)
    \/ Launch(t)
    \/ CommandExit(t, "killed")
    \/ Record(t)
    \/ ReadContext(t)
    \/ Finish(t)
    \/ Release(t)

Next ==
    \/ \E t \in Tasks :
         \/ DispatchTask(t)
         \/ Step(t)
         \/ \E n \in ChunkSizes : StageIdle(t, n)
         \/ \E n \in ChunkSizes : Output(t, n)
         \/ \E how \in {"zero", "nonzero"} : CommandExit(t, how)
         \/ Deadline(t)
         \/ CancelRun(t)
         \/ \E c \in Clients : ReadOutput(c, t)
    \/ \E c \in Clients : ReadSnapshot(c)
    \/ Shutdown
    \/ Exit

Spec == Init /\ [][Next]_vars

\* Goroutines run, a killed command's Run returns (exec's WaitDelay sees to it)
\* and time passes until the deadline. A command never has to end by itself.
FairSpec ==
    Spec /\ \A t \in Tasks : WF_vars(Step(t)) /\ WF_vars(Deadline(t))

-----------------------------------------------------------------------------
(***************************************************************************)
(* taskStore.add ("Running tasks are never dropped: a task is the only     *)
(* handle to a run in flight"): whatever was started and finished around   *)
(* it, a running task is in the store, so it can be watched and cancelled. *)
(***************************************************************************)
RunningFindable ==
    \A t \in Tasks : status[t] = "running" => t \in InStore

(***************************************************************************)
(* taskStore.add: the store holds no id twice, and never more than the     *)
(* history and one task per slot, although tasks finish between two calls  *)
(* of add and only add drops any.                                          *)
(***************************************************************************)
HistoryBounded ==
    /\ \A t, u \in InStore : place[t] = place[u] => t = u
    /\ Cardinality(InStore) <= HistoryLimit + Slots

(***************************************************************************)
(* runStages, finish: the plan a client sees is a row of succeeded stages, *)
(* then at most one running or failed, then pending ones; a task says it   *)
(* succeeded only if every stage did, failed or canceled with ok = false   *)
(* only if one failed.                                                     *)
(***************************************************************************)
PlanHonest ==
    \A t \in Tasks :
        /\ \A i, j \in Stages :
             i < j /\ stages[t][j] # "pending" => stages[t][i] = "succeeded"
        /\ status[t] = "succeeded" => \A i \in Stages : stages[t][i] = "succeeded"
        /\ IsFinished(t) /\ ~ok[t] => \E i \in Stages : stages[t][i] = "failed"

(***************************************************************************)
(* Write, outputSince: what a watcher holds is always one unbroken range   *)
(* of the run's output, however the run's writes and its reads interleave  *)
(* and however far it falls behind the tail.                               *)
(***************************************************************************)
NoGapInOutput ==
    \A c \in Clients :
        /\ client[c].whole
        /\ client[c].lo <= client[c].hi
        /\ client[c].task # None => client[c].hi <= written[client[c].task]

(***************************************************************************)
(* dispatchTask, runContext, runStage: a task that runs while the daemon   *)
(* stays up ends and gives its slot back, even if its commands never end   *)
(* by themselves.                                                          *)
(***************************************************************************)
TaskEnds ==
    \A t \in Tasks : pc[t] # "idle" ~> (pc[t] = "done" \/ daemon # "up")

(***************************************************************************)
(* Why these hold: the invariants that OpTasks_proofs rests on.            *)
(***************************************************************************)
Unfinished == {"stage", "build", "start", "exec", "record", "close", "finish"}

\* The status follows the goroutine; the store has every running task, no task
\* that was never started, and the slots bound the goroutines.
StoreInv ==
    /\ \A t \in Tasks :
         /\ pc[t] = "idle" <=> status[t] = "none"
         /\ pc[t] \in Unfinished <=> status[t] = "running"
         /\ status[t] = "none" => place[t] = 0
    /\ Cardinality(InFlight) <= Slots
    /\ RunningFindable
    /\ HistoryBounded

\* The plan around the stage in hand: succeeded before it, pending after it.
\* Once the plan is over the stage says what response.OK says, and a plan that
\* is ok has no stage left.
PlanOf(t) ==
    LET k == at[t].stage IN
    /\ pc[t] # "idle" => k \in Stages
    /\ \A i \in Stages : /\ i < k => stages[t][i] = "succeeded"
                         /\ i > k => stages[t][i] = "pending"
    /\ pc[t] = "stage" => stages[t][k] = "pending"
    /\ pc[t] = "idle" => k = 0
    /\ pc[t] \in {"build", "start", "exec"} => stages[t][k] = "running"
    /\ pc[t] \in {"record", "close", "finish", "release", "done"} =>
         IF ok[t] THEN k = NStages /\ stages[t][k] = "succeeded"
         ELSE stages[t][k] = "failed"
    /\ status[t] = "succeeded" => ok[t]
    /\ IsFinished(t) => pc[t] \in {"release", "done"}

PlanInv == \A t \in Tasks : PlanOf(t)

\* A tail is never longer than what was written, and neither is what a watcher
\* of the task holds.
OutputInv ==
    /\ \A t \in Tasks : kept[t] <= written[t]
    /\ \A c \in Clients : client[c].task = None => client[c].hi = 0 /\ client[c].state = "idle"
    /\ NoGapInOutput

-----------------------------------------------------------------------------
\* Claims of the repository that the code does not keep: TLC refutes each of
\* them, the README says with which constants and by which steps.

(***************************************************************************)
(* dispatch ("502 for non-zero exit, 504 for timeout"): a stage whose      *)
(* command exited with zero is not a failed one.                           *)
(***************************************************************************)
CleanExitSucceeds ==
    \A t \in Tasks : \A i \in Stages :
        i = at[t].stage /\ exit[t] = "zero" => stages[t][i] # "failed"

(***************************************************************************)
(* handleTaskGet ("returns the task with the output written since"): the   *)
(* output of an answer goes up to the output_bytes of the same answer.     *)
(***************************************************************************)
AnswerWhole ==
    \A c \in Clients :
        client[c].state \in {"watching", "over"} => client[c].hi = client[c].bytes

(***************************************************************************)
(* Shutdown ("a pull left running past the daemon would write to a store   *)
(* nothing is tracking any more"): no command of a task outlives the       *)
(* daemon.                                                                 *)
(***************************************************************************)
NoCommandLeftBehind ==
    \A t \in Tasks : daemon = "down" => pc[t] # "exec"
=============================================================================

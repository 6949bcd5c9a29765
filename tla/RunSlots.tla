------------------------------ MODULE RunSlots ------------------------------
(***************************************************************************)
(* The daemon's concurrency slots: the buffered channel of WebhookExecutor *)
(* (internal/daemon/webhook.go) that script runs and native operations     *)
(* share, the life of a run between taking and returning a slot (execute,  *)
(* dispatch, dispatchTask and the end of runStages), and the swap of the   *)
(* channel by a configuration reload (applyReload of reload.go).           *)
(*                                                                         *)
(* Script runs take and return their slot under slotsMu. Native operations *)
(* use the same field without the mutex, so reading the field and using    *)
(* the channel are two steps of theirs. A channel is named by its place in *)
(* the order of the swaps; its content is the number of its tokens.        *)
(***************************************************************************)
EXTENDS Integers, FiniteSets, FiniteSetsExt

CONSTANTS
    Scripts,     \* runs of webhooks and script actions (execute)
    Ops,         \* native operations inside a request (dispatch)
    Tasks,       \* native operations as tasks (dispatchTask)
    Untimed,     \* the runs whose effective timeout is 0: no deadline ends them
    Sizes,       \* the values maxConcurrentRuns may take
    MaxReloads,  \* bound: how often the configuration is reloaded
    Free         \* slotsMu is not held

Runs == Scripts \cup Ops \cup Tasks
Native == Ops \cup Tasks
Gens == 0..MaxReloads

ASSUME SlotsAssumption ==
    /\ IsFiniteSet(Scripts) /\ IsFiniteSet(Ops) /\ IsFiniteSet(Tasks)
    /\ Scripts \cap Native = {} /\ Ops \cap Tasks = {}
    /\ Untimed \subseteq Runs
    /\ Sizes \subseteq Nat \ {0}
    /\ MaxReloads \in Nat
    /\ Free \notin Runs

VARIABLES
    gen,        \* e.slots: the channel in use
    cap,        \* the capacity each channel was made with
    tokens,     \* the tokens in each channel
    mutex,      \* slotsMu: the run that holds it, or Free
    pc,         \* what a run does next
    ref,        \* the channel a run read from e.slots last
    outcome,    \* how a run ended
    audited,    \* how many audit records a run has
    successes,  \* counts.successes
    failures    \* counts.failures

vars == <<gen, cap, tokens, mutex, pc, ref, outcome, audited, successes, failures>>
books == <<outcome, audited, successes, failures>>
pool == <<gen, cap, tokens, mutex, ref>>

\* A run owns a slot from the send that took it to the receive that returns it.
Holding == {"running", "count", "notify", "audit", "finish", "return", "receive"}
PCs == {"idle", "send", "refused", "done"} \cup Holding
Outcomes == {"none", "ok", "failed", "invalid"}

TypeOK ==
    /\ gen \in Gens
    /\ cap \in [Gens -> Sizes]
    /\ tokens \in [Gens -> Nat]
    /\ \A g \in Gens : tokens[g] <= cap[g]
    /\ mutex \in Runs \cup {Free}
    /\ pc \in [Runs -> PCs]
    /\ ref \in [Runs -> Gens]
    /\ outcome \in [Runs -> Outcomes]
    /\ audited \in [Runs -> Nat]
    /\ successes \in Nat
    /\ failures \in Nat

\* Capacities of channels not made yet are already chosen here.
Init ==
    /\ gen = 0
    /\ cap \in [Gens -> Sizes]
    /\ tokens = [g \in Gens |-> 0]
    /\ mutex = Free
    /\ pc = [r \in Runs |-> "idle"]
    /\ ref = [r \in Runs |-> 0]
    /\ outcome = [r \in Runs |-> "none"]
    /\ audited = [r \in Runs |-> 0]
    /\ successes = 0
    /\ failures = 0

-----------------------------------------------------------------------------
\* Taking a slot: a send on the channel that gives up when the channel is full.

TrySend(r, g) ==
    IF tokens[g] < cap[g]
    THEN /\ tokens' = [tokens EXCEPT ![g] = @ + 1]
         /\ pc' = [pc EXCEPT ![r] = "running"]
    ELSE /\ tokens' = tokens
         /\ pc' = [pc EXCEPT ![r] = "refused"]

\* acquireSlot of the executor: one critical section of slotsMu.
ScriptAcquire(r) ==
    /\ r \in Scripts /\ pc[r] = "idle"
    /\ mutex = Free
    /\ TrySend(r, gen)
    /\ UNCHANGED <<gen, cap, mutex, ref, books>>

\* acquireSlot of the native runner: the field is read without slotsMu ...
OpRead(r) ==
    /\ r \in Native /\ pc[r] = "idle"
    /\ ref' = [ref EXCEPT ![r] = gen]
    /\ pc' = [pc EXCEPT ![r] = "send"]
    /\ UNCHANGED <<gen, cap, tokens, mutex, books>>

\* (Mutant: the send is never refused.)
OpSendUnbounded(r) ==
    /\ pc[r] = "send"
    /\ tokens' = [tokens EXCEPT ![ref[r]] = @ + 1]
    /\ pc' = [pc EXCEPT ![r] = "running"]
    /\ UNCHANGED <<gen, cap, mutex, ref, books>>

\* ... and the channel that was read is used.
OpSend(r) ==
    /\ pc[r] = "send"
    /\ TrySend(r, ref[r])
    /\ UNCHANGED <<gen, cap, mutex, ref, books>>

-----------------------------------------------------------------------------
\* A run between its slot's two ends.

\* The command ends. execute counts the result first; runStages records it in
\* the audit log first.
CommandEnds(r, res) ==
    /\ pc[r] = "running"
    /\ outcome' = [outcome EXCEPT ![r] = res]
    /\ pc' = [pc EXCEPT ![r] = IF r \in Scripts THEN "count" ELSE "audit"]
    /\ UNCHANGED <<pool, audited, successes, failures>>

\* (Mutant: an invalid script returns before the audit record is deferred.)
ScriptInvalidUnaudited(r) ==
    /\ r \in Scripts /\ pc[r] = "running"
    /\ outcome' = [outcome EXCEPT ![r] = "invalid"]
    /\ pc' = [pc EXCEPT ![r] = "return"]
    /\ UNCHANGED <<pool, audited, successes, failures>>

\* execute: the template's variables are missing or the script's file cannot
\* be written. Nothing runs and nothing is counted; the deferred audit record
\* is still written.
ScriptInvalid(r) ==
    /\ r \in Scripts /\ pc[r] = "running"
    /\ outcome' = [outcome EXCEPT ![r] = "invalid"]
    /\ pc' = [pc EXCEPT ![r] = "audit"]
    /\ UNCHANGED <<pool, audited, successes, failures>>

\* counts.successes or counts.failures; then the completion is published.
Count(r) ==
    /\ pc[r] = "count"
    /\ IF outcome[r] = "ok"
       THEN successes' = successes + 1 /\ failures' = failures
       ELSE failures' = failures + 1 /\ successes' = successes
    /\ pc' = [pc EXCEPT ![r] = "notify"]
    /\ UNCHANGED <<pool, outcome, audited>>

\* onComplete of a script run, publishFailure of a failed operation: a request
\* to the cloud made while the slot is held. A task then closes its record.
Notify(r) ==
    /\ pc[r] = "notify"
    /\ pc' = [pc EXCEPT ![r] = IF r \in Scripts THEN "audit"
                               ELSE IF r \in Tasks THEN "finish" ELSE "return"]
    /\ UNCHANGED <<pool, books>>

\* audit.Record: the last thing execute does before its slot, the first thing
\* runStages does after its last stage.
Record(r) ==
    /\ pc[r] = "audit"
    /\ audited' = [audited EXCEPT ![r] = @ + 1]
    /\ pc' = [pc EXCEPT ![r] = IF r \in Scripts THEN "return" ELSE "count"]
    /\ UNCHANGED <<pool, outcome, successes, failures>>

\* task.finish: from here on clients see the task as finished.
TaskFinish(r) ==
    /\ r \in Tasks /\ pc[r] = "finish"
    /\ pc' = [pc EXCEPT ![r] = "return"]
    /\ UNCHANGED <<pool, books>>

-----------------------------------------------------------------------------
\* Returning a slot: a receive from the channel that is in use *now*.

\* releaseSlot of the executor takes slotsMu and keeps it across the receive.
ScriptLock(r) ==
    /\ r \in Scripts /\ pc[r] = "return"
    /\ mutex = Free
    /\ mutex' = r
    /\ ref' = [ref EXCEPT ![r] = gen]
    /\ pc' = [pc EXCEPT ![r] = "receive"]
    /\ UNCHANGED <<gen, cap, tokens, books>>

\* releaseSlot of the native runner reads the field without slotsMu.
OpReadAgain(r) ==
    /\ r \in Native /\ pc[r] = "return"
    /\ ref' = [ref EXCEPT ![r] = gen]
    /\ pc' = [pc EXCEPT ![r] = "receive"]
    /\ UNCHANGED <<gen, cap, tokens, mutex, books>>

\* (Mutant: the critical section is not left.)
ReceiveKeepsMutex(r) ==
    /\ pc[r] = "receive"
    /\ tokens[ref[r]] > 0
    /\ tokens' = [tokens EXCEPT ![ref[r]] = @ - 1]
    /\ pc' = [pc EXCEPT ![r] = "done"]
    /\ UNCHANGED <<gen, cap, mutex, ref, books>>

\* The receive blocks while its channel is empty.
Receive(r) ==
    /\ pc[r] = "receive"
    /\ tokens[ref[r]] > 0
    /\ tokens' = [tokens EXCEPT ![ref[r]] = @ - 1]
    /\ mutex' = IF r \in Scripts THEN Free ELSE mutex
    /\ pc' = [pc EXCEPT ![r] = "done"]
    /\ UNCHANGED <<gen, cap, ref, books>>

-----------------------------------------------------------------------------
\* SetMaxConcurrentRuns: every reload swaps the channel, also for the same n.
SetMaxConcurrentRuns ==
    /\ gen < MaxReloads
    /\ mutex = Free
    /\ gen' = gen + 1
    /\ UNCHANGED <<cap, tokens, mutex, pc, ref, books>>

\* Everything a run does once it has its slot.
Proceed(r) ==
    \/ \E res \in {"ok", "failed"} : CommandEnds(r, res)
    \/ ScriptInvalid(r)
    \/ Count(r)
    \/ Notify(r)
    \/ Record(r)
    \/ TaskFinish(r)
    \/ ScriptLock(r)
    \/ OpReadAgain(r)
    \/ Receive(r)

Next ==
    \/ \E r \in Runs : ScriptAcquire(r) \/ OpRead(r) \/ OpSend(r) \/ Proceed(r)
    \/ SetMaxConcurrentRuns

Spec == Init /\ [][Next]_vars

\* The command of a run without a deadline may go on for ever ("0 disables
\* the run deadline"); that of any other run ends, if only because it is killed.
MayRunOn(r) == pc[r] = "running" /\ r \in Untimed

\* A goroutine that can run does, a command with a deadline ends, and the
\* cloud answers or the client's timeout passes. Nobody has to ask for runs or
\* reloads, and nothing ends the command of a run without a deadline.
FairSpec ==
    Spec /\ \A r \in Runs : WF_vars(OpSend(r) \/ (~MayRunOn(r) /\ Proceed(r)))

-----------------------------------------------------------------------------
Holders == {r \in Runs : pc[r] \in Holding}

\* The runs whose audit record is written, and those whose result is counted.
Audited == {r \in Runs : pc[r] \in {"return", "receive", "done"}
                            \cup IF r \in Native
                                 THEN {"count", "notify", "finish"} ELSE {}}
Counted == {r \in Runs :
              /\ outcome[r] # "invalid"
              /\ pc[r] \in {"notify", "return", "receive", "done"}
                     \cup IF r \in Native THEN {"finish"} ELSE {"audit"}}

(***************************************************************************)
(* The inductive invariant behind SlotsBoundRuns and BooksBalance: until   *)
(* the first reload the one channel holds a token for every run that owns  *)
(* a slot, and nobody has read another channel; and each book agrees with  *)
(* how far every run has come.                                             *)
(***************************************************************************)
SlotsInv ==
    /\ \A r \in Runs : ref[r] <= gen
    /\ gen = 0 => tokens[0] = Cardinality(Holders)
    /\ \A r \in Runs : audited[r] = IF r \in Audited THEN 1 ELSE 0
    /\ \A r \in Runs : r \in Native \/ pc[r] = "count" => outcome[r] # "invalid"
    /\ successes + failures = Cardinality(Counted)

(***************************************************************************)
(* acquireSlot, releaseSlot: over all channels there are as many tokens as *)
(* runs that own a slot, whatever order runs and reloads come in: a slot   *)
(* is never taken twice by one run nor returned twice.                     *)
(***************************************************************************)
TokenPerRun ==
    MapThenSumSet(LAMBDA g : tokens[g], Gens) = Cardinality(Holders)

(***************************************************************************)
(* acquireSlot ("bounds tasks and script actions together"): as long as    *)
(* the configuration has not been reloaded, script runs and native         *)
(* operations together never exceed maxConcurrentRuns, although only half  *)
(* of them use slotsMu, and the receive of a run that returns its slot     *)
(* finds a token.                                                          *)
(***************************************************************************)
SlotsBoundRuns ==
    gen = 0 =>
        /\ Cardinality(Holders) <= cap[0]
        /\ \A r \in Runs : pc[r] = "receive" => tokens[ref[r]] > 0

(***************************************************************************)
(* execute, runStages: when no run owns a slot, every run that was let in  *)
(* has exactly one audit record, every refused one none, and the counters  *)
(* add up to the runs whose command ran. The two kinds of run write the    *)
(* two books in opposite order and give the slot back last.                *)
(***************************************************************************)
BooksBalance ==
    Holders = {} =>
        LET ran == {r \in Runs : pc[r] = "done"} IN
        /\ \A r \in Runs : audited[r] = IF r \in ran THEN 1 ELSE 0
        /\ successes + failures
             = Cardinality({r \in ran : outcome[r] # "invalid"})

(***************************************************************************)
(* acquireSlot, releaseSlot: until the configuration is reloaded, a run    *)
(* that took a slot gives it back and does not keep slotsMu, although the  *)
(* mutex is held over a receive that could block and other runs may keep   *)
(* their slots for ever. A run without a deadline owes it from the moment  *)
(* its command has ended.                                                  *)
(***************************************************************************)
SlotReturnedUnlessReloaded ==
    \A r \in Runs :
        (pc[r] \in Holding /\ ~MayRunOn(r))
            ~> (gen > 0 \/ (pc[r] = "done" /\ mutex # r))

(***************************************************************************)
(* SetMaxConcurrentRuns ("a swap mid-run can never strand or               *)
(* double-release a token"): a run that returns its slot gets through, and *)
(* gives slotsMu up again.                                                 *)
(***************************************************************************)
SlotReturned ==
    \A r \in Runs :
        (pc[r] \in Holding /\ ~MayRunOn(r)) ~> (pc[r] = "done" /\ mutex # r)
=============================================================================

# MaidCafe: TLA+ models, model checking and proofs

MaidCafe is a pair of Go programs. A **daemon** runs on a managed host: it
collects metrics, runs scripts and native operations (container, systemd,
compose, process, firewall, package), serves files, logs and interactive
shells. A **cloud** is the meeting point of the daemons and of the people who
operate them: it stores what daemons report, raises alarms, and relays webhook
requests and terminal sessions to daemons that cannot be reached directly. A
third, small program, `maidkit-priv`, performs privileged file, firewall and
package operations for the daemon.

This directory models the parts of that system where steps of several actors
meet. Every module is written from the source named in its header; `PROJECT.json`
maps each definition to its lines.

## 1. Inventory

| component | source | state | operations | what is hard |
|---|---|---|---|---|
| cloud terminal store | `internal/cloud/terminal.go` | rows of `terminal_sessions`: status, ticket, lease, timestamps | create, consume ticket, lease, reclaim, attach, finish, revoke, sweep | every operation is several SQL statements; nothing is in one transaction |
| cloud terminal pairing | `internal/handler/terminal.go` | registry of pairs in memory; two sockets per pair | register, wait, pump, finish, release, revoke | the two sides, a revoke, the sweep and restarts in any order |
| terminal pickup | `internal/cloud/terminal.go`, `internal/handler/terminal.go` | one waiter per daemon | register, list, lease, park, wake, deregister | lost wake-ups, two polls of one daemon |
| terminal session (daemon) | `internal/daemon/terminal.go`, `terminal_ws.go` | shell, PTY, output queue, connection | open, read, reap, pump, read loop, close, CloseAll | five goroutines end the same session |
| terminal relay (daemon) | `internal/daemon/terminal_relay.go` | sessions being served | poll, serve | composes the two above |
| run slots | `internal/daemon/webhook.go`, `ops.go`, `reload.go` | slot channel, its mutex, counters, audit log | acquire, run, count, audit, release, swap | half of the users ignore the mutex; the channel is replaced while in use |
| operation tasks | `internal/daemon/tasks.go`, `tasks_http.go`, `ops.go`, `app.go` | recent tasks, stages, output tails | start, stage, attempt, write, cancel, finish, get, prune, shutdown | readers, writers, cancels and deadlines race |
| webhook relay queue | `internal/cloud/service.go`, `internal/daemon/relay.go` | rows of `webhook_requests` | enqueue, reclaim, select, lease, run, report, complete | lost answers and reports, restarts, overlapping polls |
| metrics ingest and pacing | `internal/cloud/service.go`, `internal/daemon/publisher.go` | last seen, polling quota | ingest, refresh quota, pace | both sides keep a clock |
| disconnect alarms | `internal/cloud/service.go` | disconnected mark, newest notification | evaluate, ingest clears, administrators edit | evaluator, ingest and edits read and write the same row in separate statements |
| container status | `internal/daemon/app.go`, `internal/cloud/service.go` | one row per container | snapshot, upload, reconcile | partial snapshots, late uploads |
| scheduled jobs | `internal/daemon/jobs.go` | job table, running marks, next due | tick, run, replace table | reload during a run |
| log capture and upload | `internal/daemon/logs.go`, `app.go`, `internal/cloud/service.go` | ring, cursor, files, upload buffer | tail, append, rotate, flush, ingest | every stage has a limit and may fail |
| live stream hub | `internal/daemon/stream.go` | subscribers with bounded queues | subscribe, broadcast, unsubscribe | slow consumers |
| configuration and reload | `internal/config`, `internal/daemon/reload.go`, `config_api.go` | main file, fragments, what runs | load, merge, validate, patch, watch, apply | reload from file, API and signal; a migration under way |
| native host operations and privileged helper | `internal/daemon/ops.go`, `internal/privfs` | firewall, packages and units of the host | plan, attempt, check the grant, run commands | several commands per operation, two ways to run each |
| file API | `internal/daemon/files*.go`, `internal/privfs/privfs.go` | the file system | read, write, mkdir, delete, move, copy | links and renames between two system calls |
| daemon alarms, audit log, update checker, watched containers, compose stacks | `internal/daemon/alarms.go`, `audit.go`, `updatecheck.go`, `watched_store.go`, `compose_stacks*.go` | files and caches | evaluate; append; refresh | little: one goroutine or one mutex each |
| notifications, preferences, localisation, HTTP routes, collectors, stdio transport, TLS and database set-up | the rest | – | CRUD, parsing, plumbing | little: sequential code |

How they meet: the daemon long-polls the cloud for terminal sessions and polls
it for webhook requests; both queues hand work out under a lease that a later
poll reclaims. A terminal session then needs both sockets to find each other in
the cloud's registry. On the daemon, webhooks, actions, relayed requests and
tasks share one channel of slots, which a reload replaces. On its metrics tick
the daemon posts a metric, which is its heartbeat, and a snapshot of its
containers; the cloud evaluates the heartbeats on a ticker of its own.

What makes each correct, in one line: a ticket admits one browser and a pair
has one reader and one writer per direction (pairing); a waiting daemon is woken
and is handed a session once per lease (pickup); a session ends once and leaves no
goroutine, process or map entry (session); no run takes two slots or returns two,
and every admitted run is audited once (slots); a running task can be found and
cancelled, its plan and its output are told as they happened (tasks); a request
stays open until it is answered with a result it produced (relay); silence is
noticed and a report ends it (heartbeat); a job that is configured recurs (jobs); a line
that was captured reaches the cloud, once (logs); a store that does not answer costs
no row (container status); the daemon ends up running what its file says (reload),
and the files say the same at every step of a migration (load); a slow client loses
old frames only (stream); success means that all took effect, and nothing ungranted
ever does (host operations); nothing outside the roots changes (files).

## 2. Modules

| module | models | state and actions |
|---|---|---|
| `TerminalStore` | the row and every SQL statement on it | operators from row to row; timestamps are ages that saturate above every limit |
| `TerminalPairing` | one session in the cloud | one program counter per HTTP handler; a step is one statement, one critical section or one blocking call; `Tick`, `Sweep`, `ClientLeaves`, `Restart` are the environment |
| `TerminalPickup` | create route and pickup long-poll of one daemon | as above; waiters are objects with a one-place channel; the daemon waits for one poll at a time (`current`) and may give it up, after which the cloud still works on it |
| `RunSlots` | slot channel and life of a run | channels are numbered by the swaps; a script's acquire is one critical section, a native operation's read of the field and its send are two steps; the runs of `Untimed` have no deadline |
| `OpTasks` | tasks | one goroutine per task, `Write` of a command, `Cancel`, `Deadline`, the two lock sections of a GET, shutdown; output is a range of byte numbers; the store's list is `place`, the position of every task in it |
| `TerminalSession` | a shell session on the daemon | reader, reaper, pump, read loop, the one `closeSession`, `CloseAll`; output is a number of chunks; a keystroke is a write to the PTY that may block |
| `WebhookQueue` | what the webhook relay promises | abstract: submit, process, answer |
| `WebhookRelay` | cloud queue and daemon loop | rows with their order of creation; the statements of a poll one by one, several polls at once of which the daemon waits for one, answers and reports that may be lost or late, restarts of the daemon |
| `Heartbeat` | publisher, ingest, disconnect evaluator, administrators' edits of one daemon | one step per SQL statement; `Save` writes back the whole row that was read; times are ages; a running handler is at most `Slow` old, so differences of ages are exact |
| `Jobs` | the scheduler | the tick's goroutine runs what it collected, one after the other; `SetJobs` swaps the table from another goroutine |
| `LogCapture` | one container's lines | one goroutine: tail, append, queue, flush; the container, which stops and starts, the upload's fate and restarts around it; a line is its number, and lines may share a timestamp |
| `ConfigReload` | the file while it is written | PATCH requests by their system calls, the editor, the watcher with its debounce, the swap component by component |
| `ConfigLoad` | what the files mean | `Load` and `ValidateDaemon` as operators over the main file and the fragments; the migration, the operator and the host are the environment of reloads and restarts |
| `ContainerStatus` | snapshots and rows | the snapshot remembers the host it saw; uploads may be lost, given up and stored late |
| `StreamHub` | subscribers and collectors | the hub's critical sections are one step each; the collector's look and its broadcast are two |
| `HostOps` | systemd, package and firewall operations | planning and the helper are operators; the attempts of several clients run command by command on a small host |
| `FileAPI` | file requests and the helper's file verbs | a tree of paths, inodes and links, which are texts relative to where they are; a request is split at the system calls between which another can come: `MkdirAll` makes one directory per step, a copy goes by names and looks each of them up anew |
| `MCLoops`, `MCServing` | – | sums: each behaviour is a behaviour of one of the modules they extend, which share no state |
| the other `MC*` | – | symmetry sets and constants for TLC |
| `TerminalPairing_proofs`, `RunSlots_proofs`, `TerminalSession_proofs`, `WebhookRelay_proofs`, `OpTasks_proofs`, `TerminalPickup_proofs`, `Loops_proofs`, `Serving_proofs` | – | theorems checked by TLAPS, of the module of that name; the last two are about `ContainerStatus`, `ConfigReload`, `Heartbeat` and `LogCapture`, and about `StreamHub`, `ConfigLoad`, `HostOps` and `FileAPI` |

`TerminalPairing` and `TerminalPickup` both extend `TerminalStore`: the first
follows one session through both sockets and abstracts the pickup to a lease that
happens; the second follows several sessions up to their lease and abstracts the
attach away.

Definitions marked *(Mutant: ...)* are altered forms of the definition that
follows them. No specification uses them; replacing the original by one of them
makes the property it is paired with in `PROJECT.json` fail, which shows that the
property depends on that piece of code.

## 3. Runs

| run | instance | what it shows |
|---|---|---|
| `pairing` | 2 browsers, 2 agent sockets, symmetric | a ticket admits one browser; each slot of a pair has one socket; a waiting handler is in the pair the registry hands out; the registry names no abandoned pair; an attached row is never offered again |
| `pairing_live` | 1 browser, 1 agent, 1 revoke | under fairness, the handler of a closed socket ends and every live row ends |
| `pickup` | 1 create, 2 polls, 3 waiters, one row per pickup | with polls that overlap, a create racing the park is not missed; a session is handed out once, and again only after its lease was reclaimed (1.2 million states) |
| `slots` | a script, a task and an operation without a deadline, sizes 1 and 2, 1 reload | scripts and operations together stay below the bound until a reload; audit records and counters agree; until a reload every slot comes back once its command has ended |
| `tasks_store` | 4 tasks, 2 slots, history of 1 | a running task stays findable |
| `tasks_output` | 1 task of 2 stages and up to 2 attempts, 1 client, tail of 2 bytes, 5 bytes | stages tell what happened; a client that follows offsets never misses bytes without being told; every task ends |
| `session` | 2 chunks of output, queue of 1 | one end of a session, no leftovers, an exit frame after all output when nothing is slow, and an end in every case but `InputStuck` (594,001 states) |
| `relay` | 2 requests, batch of 2, 2 polls at once, 1 restart, 1 loss | a request runs again only after a lease on it ran out; implementation of `WebhookQueue` up to the lease of an overlapped poll; every request answered (902,765 states) |
| `heartbeat` | 1 ingest, 1 edit (of another column, or a rotation of the secret), limits of 1, 2 and 2 ticks | silence is marked for good, also by an evaluator that is interrupted and over an edit that saves an old row; a running daemon does not stay marked, although two limiters refuse its reports and answers are lost; notifications keep their distance |
| `loops`: jobs | 2 jobs, period 2, 1 reload | a job in the table runs again and again |
| `loops`: logs | 4 lines, two of them with one timestamp, tail of 3, ring, file and buffer of 2, batch of 1, 1 restart, 1 stop of the container | lines are kept once and in order and none before the cursor is forgotten; those of a running container reach the cloud unless a step that is known to lose lines lost them |
| `loops`: config | 1 PATCH at a time beside the editor and the watcher, 3 writes, 2 keys | the components end up with what the file says; a refused PATCH leaves no invalid file |
| `loops`: status | 2 containers, 3 stores, 2 uploads at once, 2 allowlists | a store that fails costs no row; the rows become what is on the host |
| `serving`: stream | 2 clients, 2 event types, buffer of 2, 3 frames | no send on a closed channel; the newest frame survives a full buffer |
| `serving`: host | 2 clients, 3 operations, 8 machines (ufw and firewalld, each direct and through the helper, wrong grants, file profiles only, no root, a grant file that is not root's) | success is effective for both address families; what the grant file does not grant never happens |
| `serving`: files | 2 clients, 2 requests, a plain and a privileged root, links in and out of them that are also moved and copied (553,049 states with the other parts) | nothing outside the roots changes; a privileged file is never torn |
| `serving`: config | 9 entries of all kinds, 5 settings, 2 edits or host changes | at each step of a migration the files make what was asked for |
| `slot_stranded` | a script, 1 reload | violation, see 5 |

**Bounds.** The races in this code are between two actors at a time, so two of
each side show them; a third symmetric one repeats a race already seen. Queue
sizes, tails, histories and caps are as small as keeps "full", "one below" and
"over" distinct. Ages saturate at a cap above every limit, so the clock is not
a bound but an abstraction; limits of 0 and 1 keep "just valid" and "too
old" apart. `MaxReloads`, `MaxCrashes`, `MaxLosses`, `MaxWritten` and `MaxChunks`
are true bounds: a second reload or crash starts from a state like one the
first already reached, and one more chunk than the queue holds is what makes a
reader wait. The daemon waits for one poll at a time, but a poll it gave up, by a
timeout or a restart, is still served: `pickup` and `relay` have two, and the theorems
any number. (`pickup` has one session because what is said of a session does
not involve another one; `due` counts up to `DueCap`.) `MaxStops`, `MaxSwaps`, `MaxRestarts`, `MaxWrites`, `MaxAdmin`, `MaxFrames`,
`MaxHostOps`, `MaxFileOps` and `MaxEdits` are bounds of the same kind: two operations
suffice for one to come between the steps of another, and a third (host
operations, writes of the file) undoes the first behind the second's back. Clients
of `HostOps` work on ports, packages and units of their own, since two people
who ask for opposite things cannot both be served. Stores fail in the
combinations `Hiccups` names: none, one of a runtime's two, and enough to cover
no runtime at all. A walk along a path of `FileAPI` crosses eight names and links at
most (`WalkEight`) and then gives up, as a system call does after some number of links: no
path of the instance needs more, and no theorem depends on the number.

In the sums `loops` and `serving` the parts that are not chosen are idle, which
makes their properties true of them; the state counts of the parts add up, and the
coverage of TLC shows that every action of each part occurs.

**Deadlock** is checked in the pairing and pickup runs. The others stop
legitimately: runs, tasks, the session, requests, lines and edits are finite in number.

**Fairness.** Weak fairness, always of code that runs by itself: goroutines
between two blocking calls, handlers once started, the sweep's ticker, the
clock, a timer that has been armed (the wait for the peer, a task's deadline,
the close grace periods), the relay's poll loop, messages that have not been
lost. Nothing is assumed of people (creating, revoking, cancelling, leaving), of
a shell or a command (it may run for ever and ignore signals other than KILL) or
of failures. Strong fairness is assumed of outcomes that depend on the network,
the database or a container runtime and are tried again on every tick: a tail that
succeeds, an upload that is stored, an evaluation that is not cut short, a
snapshot in which every store answered. The code retries for ever and without
backoff, so nothing less than a permanent failure defeats them.

A command ends only where the code gives it a deadline, and a timeout of 0 means that
there is none (`webhook.go:467`, `ops.go:1651`, `config.go:1427`). In `RunSlots` the runs of `Untimed` may
hold their slot for ever, and what is promised of them starts when their command has ended. Three
modules assume more, and what they say holds for the daemons that have deadlines: `JobEnds` is fair in `Jobs`, although a job
without a deadline (`jobs.go:126`) that never returns stops all jobs; `Process` is fair in `WebhookRelay`, where a hook
without one holds up the requests behind it; and every task of `OpTasks` has the deadline whose expiry `TaskEnds` is about. In
`TerminalSession` the pump's ping is fair because a ticker drives it, and a write to the PTY is not:
`SessionEnds` excepts the behaviours that end with the read loop in a write that nobody is left to end.

## 4. Theorems

Proved by TLAPS for every value of the constants that satisfies the assumptions named in the
modules: sets of actors of any size (finite where they are counted, disjoint where handlers of two
kinds share variables), limits and sizes that are natural numbers, positive where the code fixes
them so, an age cap above the limits. The bounds of section 3 (`MaxChunks`, `MaxLosses`, `MaxFrames`
and the like) are constants too, so a theorem holds for each of their values. Every inductive
invariant was an invariant of a TLC run of its module before it was proved.

Some theorems have a hypothesis without which the property is false. Each is a formula of the proof
module, and the instances of section 3 satisfy all of them:

- `OnePatch` (`ConfigReload`, for `BadPatchIsUndone`): PATCH requests come one at a time (counterexample in section 5).
- `OneAlarmPerKind` (`ConfigLoad`): two alarms of one kind watch one target, since a fragment is
  matched by the kind (`TwoAlarms` of section 5).
- `FirewallUnitLeftAlone` (`HostOps`): no client asks systemd for `firewalld.service`. A grant on that unit
  turns the firewall off without the firewall grant's leave.
- `OwnWork` (`HostOps`, for `SuccessIsEffective`): two clients work on different units, packages and rules. Of two who ask
  for opposite things, one is told of a success that the other undoes.
- `RootsApart` (`FileAPI`): no root is inside another (`NestedRoots` of section 5). `NoHardLinks`: at the start
  a file has one path; a second one outside of the roots would show what is written to the first, and no
  check of a path can see it.

**Pairing** (`TerminalPairing_proofs`). `TicketUsedOnce`, `OneReaderOneWriterHolds`,
`WaitersAreFindable`, `NoRegistryLeak`, `NeverReoffered` and `TypeCorrect` hold for any
number of browsers, agents and revokes. None but the type invariant is inductive. `PairingInv` adds:

- `ProgramOK`: which program points a handler of each kind can be at, and that it
  has a pair, or a verdict, where it needs one;
- `TicketSpent`: an admitted browser implies an empty ticket, which is why the next
  conditional update matches no row;
- `SlotOwned`, `SlotFilled`: a handler from `wait` to `release` is the one named in its
  slot of its pair, and a filled slot names a handler that registered there;
- `PairFresh`: the pair named after a handler that has not registered is empty, so
  registering never resurrects an old one;
- `RegisteredHeld`, `UnregisteredLeft`: nobody has left the pair in the registry,
  and somebody has left any pair that is held and not registered, and that
  side's slot stays filled: a handler still waiting there finds the pair ready.

The proof has a part for the row (types, ticket, status) and a part for the
registry. In the second, actions are first sorted into a few shapes (nothing of
the registry changes, a handler moves before registering, a handler moves while
holding its slot), so only registering, releasing and the restart need arguments
of their own.

**Slots** (`RunSlots_proofs`). `RunsBounded`, `BooksAlwaysBalance` and `TypeCorrect` hold for any
runs, sizes and number of reloads. `SlotsInv` says that a run's reference is to
a channel that exists, that before the first reload the tokens of the channel
equal the number of owners, that a run has one audit record exactly when it is
past the step that writes it, and that the counters sum to the runs past the step
that counts them (the order of the two differs between scripts and native
operations). Token and counter steps are lemmas on the
cardinality of the set of owners, cited by the actions that send or receive.

**Session** (`TerminalSession_proofs`). `EndsExactlyOnce`, `HandlerCleansUp` and `ExitAfterAllOutput`, for
any number of chunks and any queue. `SessionInv` says that the program points of the five goroutines,
the flag of `closeSession` and its caller agree (`CloseOnce`, `HandlerOrder`), that every chunk is
written, read, queued or in the pump's hand (`Conserved`), and, for the exit frame, that a session
that is done without having been closed has been reaped after its reader saw the end (`QuietEnd`), and
that the pump sends the frame last (`ExitLast`).

**Pickup** (`TerminalPickup_proofs`). `WakeupKept` and `LeaseIsExclusive`, for any number of polls of one daemon at once. What the daemon
may still be handed is counted: `due` is one for a new session, one more for each reclaim of its lease, one less for
each answer that reaches the daemon. `PickupInv` says that a session that can still be selected, or was
selected by the poll the daemon waits for, is paid for, and so is one in the answer the daemon waits for, both if both are
the case (`HandOversPaid`): two polls may select and answer the same session, but the daemon takes the answer of one. For the
wake-up, `EmptyListTold`: from an empty list to the end of the park, a session the poll is to be told of has a token,
a create about to send it, or a poll with the same waiter that has just taken the token.
`ToBeTold` says of whom that can be claimed. A poll that no other overlaps is told of everything (`alone`); of those that overlap, the ones
still registered are told of new sessions, because the first to leave deregisters the waiter they share, and a
session that another poll reclaims wakes nobody.

**Relay** (`WebhookRelay_proofs`). `EveryRunIsDue`, and `ImplementsQueue`: every behaviour is one of
`WebhookQueue` under the mapping of the row's status to absent, open or answered (`Seen`) and of its
result (`Stored`), up to the lease of a poll that another one overlapped (the step that `DoneStaysDone` of section 5 is about). Any
number of polls may be at work in the cloud. `RelayInv` counts as above (`RunsPaid`): what may be selected or was selected for
the daemon, and what it was handed and has not run, is paid for by a first run or a lease that ran out; a row that a poll
alone in the cloud has selected is still pending (`AloneUndisturbed`, so that its lease never reopens an answered one); a
report on its way is a result that was produced. The refinement is proved action by action: completing a leased request is the
abstract answer, running one the abstract processing, everything else a stutter.

**Tasks** (`OpTasks_proofs`). `RunningIsFindable`, `PlanIsHonest`, `OutputHasNoGap` and `StoreIsBounded`, for any
tasks, slots, stages, attempts, history and tail. The store's argument is about counting: adding a
task drops the finished tasks with `HistoryLimit` newer ones, so that at most `HistoryLimit` finished
ones are left (the last of them in the order has fewer than that before it, the least-element
argument that stands for an induction), and the slots bound the rest. `PlanInv` describes the plan
around the stage in hand; `OutputInv` that no tail and no client is ahead of what was written.

**Loops** (`Loops_proofs`). `RowsSurviveHiccups` is an action property of `ContainerStatus`: it needs types
and one lemma, that a container a covering snapshot does not mention was gone when it was taken.
`OnlyValidatedRuns` holds for any number of PATCH requests (`ReloadsValidated`: a reload applies the copy
it validated); `BadPatchIsUndone` for one at a time (`UndoReady`: while nobody saved an invalid file, the
request holds a valid old text, and the temporary file it renames back is that text).
`NotificationsAreSpaced` is an action property of `Heartbeat` for any limits and any number of reports
and edits at once: the evaluator's decision is read in one statement and acted on in a later one, and
`NotifyStaysDue` says that it stays good while both age, also when the notification's age has reached its cap.
`LinesCapturedOnce`, for any timestamps that do not fall, any sizes of the ring, the batch, the buffer and the files, and any stops
of the container: `LogInv` says that ring and buffer rise and stay below the cursor, that every line up to the cursor is queued, uploaded,
let go by the buffer or a restart (`dropped`) or passed over by a tail (`missed`), and, before a restart, that the two files are one rising
sequence. A collection adds the lines of a tail whose timestamp is after the cursor's, which is a suffix of it because timestamps
do not fall; what it leaves out above the cursor has the cursor's timestamp, or is what a first tail does not reach back to.

**Serving** (`Serving_proofs`). Stream: `NeverSendsOnClosed`, and from it `SlowClientGetsNewest`, for any clients, event types,
limits and buffer size. A client's frames, written and queued, are one sequence whose numbers
rise up to the hub's (`QueueInv`, pairwise, as a frame dropped from the middle makes neighbours of two
that were not): writing a frame leaves the sequence as it is, and a push takes away at
most one frame and adds the newest at the end (`PushQueue`).

Configuration: `MigrationIsInvisible`. `LoadInv` is small (what was asked for is in the main file or in a fragment, and
fragments hold entries of the kinds that have fragments); the work is in `LoadInvMeansInvisible`, that `Load` of such
files makes exactly the entries asked for, and that `ValidateDaemon` accepts them exactly when they are sensible.

Host operations: `OnlyGrantedHappens` and `RefusedMeansNothingRan`, for any clients, requests, grant files, sets of tools and
failures. `HostInv` says of each operation that the attempts and commands it has left are bounded by its family
(`CmdOK`: anything if the family is not routed to the helper, what the grant file grants if it is) and that
a helper's attempt is the only one; of the host, that it differs from the first one by what is granted; and of an
ended operation, that no command's exit code was mistaken for an answer of the helper. The lemmas go along the
code: the commands each table builds, what the helper admits (`HelperRunsGranted`), what the daemon plans (`PlanOK`),
what a command does to the host (`ApplyKeeps`).
`SuccessIsEffective` is about the same operations: what one reports as done is done, for every address family of a rule,
and stays so, on every machine. The exception, which is part of the property, is a rule that the daemon itself divides into
attempts of `firewall-cmd` (`Divided`, section 5). A success is the last command's, so `EffectInv` says that the commands an operation has left finish it
(`Ready`): each is one of its request's, the reload comes last, and every item of the rule is either in the
permanent configuration as wanted or still to be edited. The effect (`TookEffect`) speaks of the permanent configuration
too, for otherwise another client's reload would undo it; and the host holds only items that some rule of its backend has
(`Proper`), for a rule is looked for by its port and source whereas a delete removes items. The lemmas show that another
client's command leaves the items of a rule alone (`ItemsLeftAlone`, `EffectLasts`, `StaysReady`), that an operation's own
command brings it forward, and that what the helper runs and what the daemon plans is `Ready`.

Files: `RequestsStayInside` and `NeverTorn`, for any tree, links, roots, requests, failures and interleavings. The walk of
`os.Root` never leaves its root because each component and each link it follows stays below it (`WalkStepInside`). `FilesInv`
says of the tree that everything outside of the roots is as it was, that files which requests may write are of
one kind of root (`KindsApart`: no inode has a path in a plain root and one in a privileged root), that every path of a
privileged root but the temporary ones holds whole bytes (`Whole`); of each request, that what it writes in place is in no
privileged root, that what the helper fills has temporary names alone until it is whole (`WritesApart`, `Filled`); of two
requests, that they write different inodes if one of them is the helper's (`DifferentFiles`). Actions are sorted
into five shapes (`RearrangedKeeps`, `OverwrittenKeeps`, `CreatedKeeps`, `RenamedKeeps`, a request that moves on), so that moves, deletes
and copies of directories are one argument: a tree rearranged inside a root.

**Only model-checked:** liveness, which is out of the prover's reach, in all modules. The type
invariants of `Heartbeat`, `Jobs`, `HostOps`, `FileAPI` and `ConfigLoad` are proved as far as the
theorems above need them, and `TokenPerRun` holds in the instances of section 3 but belongs to no run. `StoreIsBounded`,
`OnlyValidatedRuns` and `RefusalRanNothing` state properties that no run checks any more because a theorem does.

## 5. Where the code and its documentation part

The run `slot_stranded` keeps one such disagreement, with its entry under `findings`: a
script takes its token; a reload swaps the channel; the script's command ends and `releaseSlot` receives from
the new, empty channel with `slotsMu` held. No script can send a token there, as `acquireSlot` needs the
mutex, and neither can the next reload run: only a native operation, which ignores the mutex, could end the wait, by
giving a token that it will miss itself.

The others are properties of the modules that do not hold, or hold only in the
instances of section 3. TLC refutes them with these constants (the rest as in the
run of the same module):

| property | constants | code | the claim | steps |
|---|---|---|---|---|
| `EndedStaysEnded` (`TerminalPairing`) | 1 browser, 1 agent, 1 revoke | `cloud/terminal.go:354` | `:331` "A finished session is gone." | the agent reads a live row; a revoke closes it; the agent's update makes it active |
| `PeerLossEndsPump` | same, `FairSpec` | `handler/terminal.go:271` | `docs/CLOUD_APIS.md:764` "The cloud closes both sockets when either ends" | the agent's 90-second wait runs out while the browser has looked its pair up and not yet taken its slot; the agent records the end and leaves, the browser fills the pair, finds it ready and pumps with nobody until its client sends or leaves |
| `RevokeClosesSockets` | same | `handler/terminal.go:453` | `docs/CLOUD_APIS.md:752` | the revoke looks the pair up before an authenticated socket registers |
| `NoLostWakeup` (`TerminalPickup`) without `ToBeTold` | as `pickup` | `cloud/terminal.go:519` | `:481` | an old poll's deregistration removes the waiter it shares with the newer one, which stays parked beside a new session until its timeout |
| `CapRespected` | 2 creates, cap 1 | `cloud/terminal.go:203` | `:160` | both count before either inserts |
| `CleanExitSucceeds` (`OpTasks`) | 1 task, 1 stage | `daemon/webhook.go:88` | `daemon/ops.go:775` "(502 for non-zero exit, 504 for timeout)" | a command writes past the capture limit; `limitedBuffer` answers a short write; the copy fails and with it a command that exits with zero |
| `AnswerWhole` | as `tasks_output` | `daemon/tasks_http.go:50` | `README.md:1038` | the run writes and finishes between the two lock sections of one GET |
| `NoCommandLeftBehind` | 1 task | `daemon/app.go:852` | `:849` | the process ends while a cancelled task's command is being killed |
| `SignalsUnreaped` (`TerminalSession`) | 1 chunk | `daemon/terminal.go:417` | `:414` | the reaper has returned from Wait and sits in its drain grace; Close still sees `done` open and signals the pid |
| `ExitFollowsOutput` | 4 chunks | `daemon/terminal_ws.go:325` | `:310` | a slow client keeps the queue full past the drain grace; the exit frame overtakes output |
| `SessionEnds` without `InputStuck` | as `session` | `daemon/terminal_ws.go:342` | `daemon/terminal.go:420` | the read loop is in a write to a PTY that nobody reads; the pump ends without closing the session, and only a close would end the write |
| `DoneStaysDone` (`WebhookRelay`) | 1 request, the rest as `relay` | `cloud/service.go:2191` | `docs/webhooks.md:260` "`done` once reported" | poll 1 selects a request and the daemon gives up on it; poll 2 leases the request, which is run and reported; poll 1's update turns it from `done` to `leased` |
| `SecretStaysRotated` (`Heartbeat`) | 2 administrators, rename and rotate, 2 edits | `cloud/service.go:704` | `docs/CLOUD_APIS.md:329` "The previous secret stops working immediately." | a rename reads the row; the secret is rotated; the rename saves the whole row with the old secret |
| `EveryOutageCloses` | as `heartbeat` | `cloud/service.go:1277` | `:1187` | the evaluator marks the daemon from a row it read before a report was stored; its next evaluation clears the mark without the reconnected notification |
| `ReplacedJobNotStarted` (`Jobs`) | as `loops` | `daemon/jobs.go:97` | `:55` | a job that was collected as due behind a long run is started after the reload that removed it |
| `LinesReachCloud` (`LogCapture`) without `TailFits` | `TailLimit = 2` | `daemon/logs.go:488` | `README.md:1178` | a tail that outgrows its limit is a short write, the command fails and the same tail is tried for ever; one whose writes end exactly at the limit is cut, and continued at the next tick |
| `LinesReachCloud` without `missed` | as `loops` | `daemon/logs.go:427` | `README.md:1178` | a line that came after the last collection with the timestamp of the line at the cursor is not after it, and is dropped |
| `LinesReachCloud` without `up` | as `loops` | `daemon/logs.go:345` | `README.md:1178` | a container that stops is not tailed any more: its last lines are not captured until it runs again |
| `LinesReachCloud` | `Poison = {2}`, `PendingLines = 4` | `cloud/service.go:998` | `README.md:1178` "Failed uploads remain queued in a bounded local buffer and retry" | one line the cloud refuses fails its whole batch, which stays at the head of the buffer |
| `BadPatchUndone` (`ConfigReload`) | 2 patchers | `daemon/config_api.go:333` | `:281` | one PATCH reads the file while the other's refused text is on disk, and puts that text back |
| `ConfigConverges` | `Quick = FALSE` | `daemon/reload.go:116` | `:114` "Safe to call concurrently; reloads are serialized." | a PATCH's reload is slower than the debounce: the watcher's newer reload is overtaken component by component. (`Load` also resets the process-wide viper, so two loads at once are a data race) |
| `UnreadableDirHarmless` (`ConfigLoad`) | as `serving` | `config/config.go:1021` | `:1005` "A missing or unreadable directory is not an error" | a fragment directory that exists and cannot be read fails the load |
| `MigrationInvisible` | entries and first file of two `container_down` alarms (`TwoAlarms`) | `config/config.go:1120` | `:1083` "A fragment covering an inline alarm wins" | the fragment of one covers both, as it is matched by kind and not by target: the other is gone |
| `SuccessTakesEffect` (`HostOps`) without `Divided` | as `serving` | `daemon/ops.go:693` | `docs/PRIVILEGED.md:519` "a deny that leaves IPv6 open is not a deny" | without the helper, every command of a firewalld operation becomes an alternative attempt of one stage, which ends at the first that succeeds: the IPv6 rule and the reload never run, and success is reported |
| `ReadsAreReal` (`FileAPI`) | as `serving` | `daemon/files.go:475` | the comment on the read window | a write shortens the file between the stat and the read; the window is filled up with zeros |
| `FilesConfined` | `FileRoots <- NestedRoots` | `daemon/files.go:750` | "A configured root is never deletable through the API." | a root inside another root is deleted or moved with the outer one's directory |

One more, which no property states: `compose.update` is a native operation for
`ops.go:121` and the repository's README, but `config.NativeOpNames` lacks it, so its name
is not reserved and the paths that dispatch by that list do not know it.

## 6. What is left out

Frame contents, wording, logging and HTTP status codes; authorisation of the
person behind a request (each action models the request that passed it), except the
credential of the file API and the grants of the helper; SQL failures, except
where a half-done operation is left behind by one. The terminal handshake's policy
(which shell, which user) is not in `TerminalSession`, nor are the defaults that `Load` fills
in part of `ConfigLoad`, in which all fields of a table that only have to be well
formed are one flag.

Abstractions inside what is modelled, each named where it is made:

- `pushLocked` (`stream.go:200`) is one step; a client that takes a frame between its selects costs one more old frame.
- `EditorSave` replaces the file at once, and SIGHUP is not an action of its own: it starts the reload the watcher starts,
  and a reload that overlaps another one is what `Quick = FALSE` of section 5 is about.
- A privileged root's profile names the root's own directory: the daemon passes the profile's name, and `priv.toml` says which directory it is.
- A request of `FileAPI` looks its paths up from the root at each step, where the code holds the descriptor of the root and `copyFileTree` that of
  a directory whose entries it reads; the removal of an old entry and the link that replaces it are one step.
- A tail is written in whole lines, and the timestamps of one container's lines do not fall.
- The idle note of a stage is output like any other (`StageIdle`); its wording is left out.

Not modelled, with the reason also in `PROJECT.json`: the collectors, routes, transports and
set-up (I/O and parsing); listing and stat of files (they change nothing); daemon
alarms, log alerts, audit log, watched containers, compose stacks and the update cache
(each one goroutine or one mutex around one file or map); container, process and
compose plans (the same attempts as in `OpTasks`, whose stages are theirs); notifications
(rows written once and read); the creation of daemons under a quota, whose race is the
one `CapRespected` shows for sessions; the daemon's terminal relay loop, whose two ends
are `TerminalPickup` and `TerminalSession`.

## 7. Plan

Every safety property that a passing run checks has a theorem. What is left:

1. `Jobs`: a type invariant as a theorem; its only run property is a liveness one.
2. The parts of section 6 that have state of their own: the daemon's alarms and the compose stacks.

---------------------------- MODULE WebhookRelay ----------------------------
(***************************************************************************)
(* The webhook relay: the cloud's queue of webhook requests of one daemon  *)
(* (EnqueueWebhook, ListPendingWebhooks and CompleteWebhook of             *)
(* internal/cloud/service.go) and the daemon's loop that polls it, runs    *)
(* what it was handed and reports (internal/daemon/relay.go).              *)
(*                                                                         *)
(* The handler of a poll runs its statements one by one, and to the end    *)
(* even when the daemon has hung up: gin's context is not cancelled with   *)
(* the connection. A poll's answer or a report may be lost or come late,   *)
(* and the daemon may restart at any point.                                *)
(***************************************************************************)
EXTENDS Integers, FiniteSets

CONSTANTS
    NumRequests, \* how many requests callers may enqueue
    Polls,       \* handlers of polls that may run in the cloud at once
    Limit,       \* webhookPendingLimit
    MaxCrashes,  \* bound: restarts of the daemon
    MaxLosses,   \* bound: failed or lost or late answers and reports
    None

\* A request is named by its place in the order of created_at.
Requests == 1..NumRequests

ASSUME RelayAssumption ==
    /\ NumRequests \in Nat
    /\ Limit \in Nat \ {0}
    /\ MaxCrashes \in Nat /\ MaxLosses \in Nat
    /\ None \notin Polls

\* A result is of a run (its command succeeded or failed), or of a request the
\* daemon would not run: no such hook, a bad signature, no free slot.
Results == {"ran", "refused"}
NoResult == "none"

VARIABLES
    row,      \* the rows of webhook_requests; stale: leased_at is too old
    poll,     \* the handlers of polls
    daemon,   \* the relay loop: where it is, its poll, what is left of its
              \* batch, the request in hand and its result
    reports,  \* reports on their way to the cloud
    due,      \* how many runs of a request are due: one, and one more for each
              \* lease on it that ran out, less those it has had
    alone,    \* the polls that no other poll overlapped so far
    produced, \* the results the daemon came to, per request
    crashes, losses

vars == <<row, poll, daemon, reports, due, alone, produced, crashes, losses>>
history == <<due, alone, produced>>

DueCap == 2   \* bound: more runs than this are not told apart

Idle == [at |-> "idle", poll |-> None, batch |-> {}, req |-> None, res |-> NoResult]
NoPoll == [pc |-> "idle", batch |-> {}]

Rows == [status : {"absent", "pending", "leased", "done"}, stale : BOOLEAN,
         result : Results \cup {NoResult}]
Handlers == [pc : {"idle", "reclaim", "select", "lease", "respond"},
             batch : SUBSET Requests]
Loops == [at : {"idle", "poll", "run", "report", "sent"}, poll : Polls \cup {None},
          batch : SUBSET Requests, req : Requests \cup {None},
          res : Results \cup {NoResult}]

TypeOK ==
    /\ row \in [Requests -> Rows]
    /\ poll \in [Polls -> Handlers]
    /\ daemon \in Loops
    /\ daemon.at = "run" => daemon.batch # {}
    /\ daemon.at \in {"report", "sent"} => daemon.req \in Requests /\ daemon.res \in Results
    /\ reports \subseteq Requests \X Results
    /\ due \in [Requests -> Int]
    /\ alone \subseteq Polls
    /\ produced \in [Requests -> SUBSET Results]
    /\ crashes \in 0..MaxCrashes /\ losses \in 0..MaxLosses

Init ==
    /\ row = [r \in Requests |-> [status |-> "absent", stale |-> FALSE,
                                  result |-> NoResult]]
    /\ poll = [p \in Polls |-> NoPoll]
    /\ daemon = Idle
    /\ reports = {}
    /\ due = [r \in Requests |-> 1]
    /\ alone = {}
    /\ produced = [r \in Requests |-> {}]
    /\ crashes = 0 /\ losses = 0

Fails == losses < MaxLosses /\ losses' = losses + 1

-----------------------------------------------------------------------------
\* The cloud.

\* EnqueueWebhook, for a caller that is allowed to; a refused one changes
\* nothing.
EnqueueWebhook(r) ==
    /\ row[r].status = "absent"
    /\ \A q \in 1..(r - 1) : row[q].status # "absent"
    /\ row' = [row EXCEPT ![r].status = "pending"]
    /\ UNCHANGED <<poll, daemon, reports, history, crashes, losses>>

\* Two minutes pass since the lease was taken.
LeaseExpires(r) ==
    /\ row[r].status = "leased" /\ ~row[r].stale
    /\ row' = [row EXCEPT ![r].stale = TRUE]
    /\ due' = [due EXCEPT ![r] = IF @ < DueCap THEN @ + 1 ELSE @]
    /\ UNCHANGED <<poll, daemon, reports, alone, produced, crashes, losses>>

\* (Mutant: leases are not reclaimed.)
ReclaimNothing(p) ==
    /\ poll[p].pc = "reclaim"
    /\ poll' = [poll EXCEPT ![p].pc = "select"]
    /\ UNCHANGED <<row, daemon, reports, history, crashes, losses>>

\* ListPendingWebhooks: reclaim the leases that ran out ...
ListReclaim(p) ==
    /\ poll[p].pc = "reclaim"
    /\ row' = [r \in Requests |->
                 IF row[r].status = "leased" /\ row[r].stale
                 THEN [row[r] EXCEPT !.status = "pending", !.stale = FALSE]
                 ELSE row[r]]
    /\ poll' = [poll EXCEPT ![p].pc = "select"]
    /\ UNCHANGED <<daemon, reports, history, crashes, losses>>

\* ... find the oldest pending requests ...
ListSelect(p) ==
    /\ poll[p].pc = "select"
    /\ LET pending == {r \in Requests : row[r].status = "pending"}
           older(r) == {q \in pending : q < r}
           batch == {r \in pending : Cardinality(older(r)) < Limit}
       IN poll' = [poll EXCEPT ![p] =
                     [pc |-> IF batch = {} THEN "respond" ELSE "lease",
                      batch |-> batch]]
    /\ UNCHANGED <<row, daemon, reports, history, crashes, losses>>

\* (Mutant: the requests are handed out without a lease.)
LeaseNothing(p) ==
    /\ poll[p].pc = "lease"
    /\ poll' = [poll EXCEPT ![p].pc = "respond"]
    /\ UNCHANGED <<row, daemon, reports, history, crashes, losses>>

\* ... and lease them, whatever their status has become since.
ListLease(p) ==
    /\ poll[p].pc = "lease"
    /\ row' = [r \in Requests |->
                 IF r \in poll[p].batch
                 THEN [row[r] EXCEPT !.status = "leased", !.stale = FALSE]
                 ELSE row[r]]
    /\ poll' = [poll EXCEPT ![p].pc = "respond"]
    /\ UNCHANGED <<daemon, reports, history, crashes, losses>>

\* The answer reaches the daemon if it still waits for it.
Respond(p) ==
    /\ poll[p].pc = "respond"
    /\ poll' = [poll EXCEPT ![p] = NoPoll]
    /\ daemon' = IF daemon.at # "poll" \/ daemon.poll # p THEN daemon
                 ELSE IF poll[p].batch = {} THEN Idle
                 ELSE [daemon EXCEPT !.at = "run", !.poll = None,
                                     !.batch = poll[p].batch]
    /\ UNCHANGED <<row, reports, history, crashes, losses>>

\* The handler gives up: a statement fails, or the daemon is disabled.
ListError(p) ==
    /\ poll[p].pc \notin {"idle", "respond"}
    /\ Fails
    /\ poll' = [poll EXCEPT ![p] = NoPoll]
    /\ daemon' = IF daemon.poll = p THEN Idle ELSE daemon
    /\ UNCHANGED <<row, reports, history, crashes>>

\* The daemon goes on to what is left of its batch.
Advance ==
    IF daemon.batch = {} THEN Idle
    ELSE [Idle EXCEPT !.at = "run", !.batch = daemon.batch]

\* (Mutant: a report is stored whatever became of the request.)
CompleteAlways(m) ==
    /\ m \in reports
    /\ reports' = reports \ {m}
    /\ row' = [row EXCEPT ![m[1]].status = "done", ![m[1]].result = m[2]]
    /\ daemon' = IF daemon.at = "sent" /\ m = <<daemon.req, daemon.res>>
                 THEN Advance ELSE daemon
    /\ UNCHANGED <<poll, history, crashes, losses>>

\* CompleteWebhook: a leased request is done, any other answers 404, which the
\* daemon logs.
CompleteWebhook(m) ==
    /\ m \in reports
    /\ reports' = reports \ {m}
    /\ row' = IF row[m[1]].status = "leased"
              THEN [row EXCEPT ![m[1]].status = "done", ![m[1]].result = m[2]]
              ELSE row
    /\ daemon' = IF daemon.at = "sent" /\ m = <<daemon.req, daemon.res>>
                 THEN Advance ELSE daemon
    /\ UNCHANGED <<poll, history, crashes, losses>>

-----------------------------------------------------------------------------
\* The daemon: Run, pollOnce, process, report.

PollOnce(p) ==
    /\ daemon.at = "idle" /\ poll[p].pc = "idle"
    /\ daemon' = [Idle EXCEPT !.at = "poll", !.poll = p]
    /\ poll' = [poll EXCEPT ![p].pc = "reclaim"]
    /\ alone' = IF \A q \in Polls : poll[q].pc = "idle" THEN {p} ELSE {}
    /\ UNCHANGED <<row, reports, due, produced, crashes, losses>>

\* The request's timeout passes or the connection breaks; the next tick polls
\* again, while the handler of the poll that was given up is still at work.
PollFails ==
    /\ daemon.at = "poll"
    /\ Fails
    /\ daemon' = Idle
    /\ UNCHANGED <<row, poll, reports, history, crashes>>

\* A batch is in the order of created_at.
Oldest(batch) == CHOOSE r \in batch : \A q \in batch : r <= q

\* process, on the next request of the batch: run it, or refuse to.
Process(res) ==
    /\ daemon.at = "run"
    /\ LET r == Oldest(daemon.batch)
       IN /\ produced' = [produced EXCEPT ![r] = @ \cup {res}]
          /\ due' = [due EXCEPT ![r] = IF res = "ran" THEN @ - 1 ELSE @]
          /\ daemon' = [daemon EXCEPT !.at = "report", !.batch = @ \ {r},
                                      !.req = r, !.res = res]
    /\ UNCHANGED <<row, poll, reports, alone, crashes, losses>>

\* report: sent once.
Report ==
    /\ daemon.at = "report"
    /\ reports' = reports \cup {<<daemon.req, daemon.res>>}
    /\ daemon' = [daemon EXCEPT !.at = "sent"]
    /\ UNCHANGED <<row, poll, history, crashes, losses>>

\* It fails: it never arrives, or the daemon stops waiting for it before it
\* does.
ReportFails ==
    /\ daemon.at = "sent"
    /\ Fails
    /\ daemon' = Advance
    /\ reports' \in {reports, reports \ {<<daemon.req, daemon.res>>}}
    /\ UNCHANGED <<row, poll, history, crashes>>

\* The daemon stops and starts again; what it had been handed is forgotten.
Restart ==
    /\ daemon.at # "idle" /\ crashes < MaxCrashes
    /\ crashes' = crashes + 1
    /\ daemon' = Idle
    /\ UNCHANGED <<row, poll, reports, history, losses>>

-----------------------------------------------------------------------------
HandlerStep(p) == ListReclaim(p) \/ ListSelect(p) \/ ListLease(p) \/ Respond(p)
DaemonStep ==
    (\E p \in Polls : PollOnce(p)) \/ (\E res \in Results : Process(res)) \/ Report

Next ==
    \/ \E r \in Requests : EnqueueWebhook(r) \/ LeaseExpires(r)
    \/ \E p \in Polls : HandlerStep(p) \/ ListError(p)
    \/ \E m \in reports : CompleteWebhook(m)
    \/ DaemonStep \/ PollFails \/ ReportFails \/ Restart

Spec == Init /\ [][Next]_vars

\* Handlers and the relay's loop run, messages that are not lost arrive, and
\* time passes. Nobody has to enqueue, and nothing has to fail. Process is one
\* step of the loop: a command is taken to end, by itself or by its deadline. A
\* hook whose effective timeout is 0 may hold up the requests behind it for
\* ever, as the comment in execute says.
FairSpec ==
    /\ Spec
    /\ \A p \in Polls : WF_vars(HandlerStep(p))
    /\ \A r \in Requests : WF_vars(LeaseExpires(r))
    /\ \A m \in Requests \X Results : WF_vars(CompleteWebhook(m))
    /\ WF_vars(DaemonStep)

-----------------------------------------------------------------------------
(***************************************************************************)
(* ListPendingWebhooks ("a concurrent poll does not double-execute"): a    *)
(* request is run again only when a lease on it has run out since, however *)
(* many polls work on it in the cloud at once, and also when reports are   *)
(* lost and the daemon restarts between running and reporting.             *)
(***************************************************************************)
RunsAreDue == \A r \in Requests : due[r] >= 0

\* What a caller sees (viewWebhookRequest), and the promise made to it.
Seen == [r \in Requests |-> CASE row[r].status = "absent" -> "absent"
                              [] row[r].status = "done" -> "answered"
                              [] OTHER -> "open"]
Stored == [r \in Requests |-> row[r].result]

Queue == INSTANCE WebhookQueue WITH state <- Seen, answer <- Stored

(***************************************************************************)
(* The relay implements WebhookQueue: every request stays open until it is *)
(* answered, with a result that processing it produced, and stays answered *)
(* with that result, whatever is reclaimed, run again or reported late.    *)
(* The one step that may leave the queue's promise is the lease of a poll  *)
(* that another poll overlapped: it leases what it selected also when the  *)
(* request has been answered since (DoneStaysDone).                        *)
(***************************************************************************)
QueueImplemented ==
    /\ Queue!Init
    /\ [][Queue!Next \/ (\E p \in Polls \ alone : ListLease(p))]_(Queue!vars)

(***************************************************************************)
(* ListPendingWebhooks ("so a daemon that died mid-execution does not lose *)
(* requests"): every request is answered in the end, whichever poll,       *)
(* answer or report is lost and wherever the daemon restarts.              *)
(***************************************************************************)
EveryRequestAnswered ==
    \A r \in Requests : row[r].status = "pending" ~> row[r].status = "done"

(***************************************************************************)
(* Why these hold, for any number of polls: the invariant that             *)
(* WebhookRelay_proofs rests on. A run of r that may still come is paid    *)
(* for by what is due.                                                     *)
(***************************************************************************)

\* r may be selected, or was selected by the poll the daemon waits for.
ToBeLeased(r) ==
    \/ row[r].status \in {"absent", "pending"}
    \/ row[r].status = "leased" /\ row[r].stale
    \/ \E p \in Polls :
          daemon.poll = p /\ poll[p].pc = "lease" /\ r \in poll[p].batch

\* r was leased for the daemon, which has not come to it yet.
ToBeRun(r) ==
    \/ r \in daemon.batch
    \/ \E p \in Polls :
          daemon.poll = p /\ poll[p].pc = "respond" /\ r \in poll[p].batch

RunsPaid ==
    \A r \in Requests : due[r] >= (IF ToBeLeased(r) THEN 1 ELSE 0)
                                  + (IF ToBeRun(r) THEN 1 ELSE 0)

\* A batch is in one place, and holds requests that exist.
BatchesPlaced ==
    /\ daemon.poll # None <=> daemon.at = "poll"
    /\ daemon.at \in {"idle", "poll"} => daemon.batch = {}
    /\ \A r \in daemon.batch : row[r].status # "absent"
    /\ \A p \in Polls :
         /\ poll[p].pc \notin {"lease", "respond"} => poll[p].batch = {}
         /\ \A r \in poll[p].batch : row[r].status # "absent"

\* What a poll that is alone selected is pending until it leases it.
AloneUndisturbed ==
    \A p \in alone :
        /\ \A q \in Polls \ {p} : poll[q].pc = "idle"
        /\ poll[p].pc = "lease" => \A r \in poll[p].batch : row[r].status = "pending"

\* A report, sent or about to be, says what processing the request came to.
ReportsHonest ==
    /\ \A m \in reports : m[2] \in produced[m[1]]
    /\ daemon.at \in {"report", "sent"} => daemon.res \in produced[daemon.req]

RelayInv == RunsPaid /\ BatchesPlaced /\ AloneUndisturbed /\ ReportsHonest

(***************************************************************************)
(* docs/webhooks.md ("`done` once reported"): a request that is done stays *)
(* done, also when a poll that the daemon gave up is still at work in the  *)
(* cloud.                                                                  *)
(***************************************************************************)
DoneStaysDone ==
    [][\A r \in Requests : row[r].status = "done" => row'[r].status = "done"]_vars
=============================================================================

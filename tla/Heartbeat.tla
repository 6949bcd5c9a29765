------------------------------ MODULE Heartbeat ------------------------------
(***************************************************************************)
(* The heartbeat of one daemon: its paced metric posts (daemon/publisher), *)
(* their ingest and the disconnect evaluator of the cloud, and the         *)
(* administrator's edits of the same database row (cloud/service.go).      *)
(*                                                                         *)
(* The database runs at READ COMMITTED: one SQL statement is one step, and *)
(* anything may run between two statements of a handler. Save(&d) writes   *)
(* back every column of the row that was read. Times are ages, as in       *)
(* TerminalStore; an ingest or an evaluation still running is at most Slow *)
(* old, which makes every difference of two ages the code compares exact.  *)
(***************************************************************************)
EXTENDS Integers, FiniteSetsExt

CONSTANTS
    DisconnectAfter,  \* daemonDisconnectAfter
    Cooldown,         \* daemonDisconnectNotificationCooldown
    PollInterval,     \* the quota polling_interval_seconds, 0: no limit
    Slow,             \* how long a handler or an evaluation may run
    Posts,            \* ingest handlers that may run at once
    Admins,           \* requests of administrators that may run at once
    AdminOps,         \* the edits administrators make in this instance
    MaxAdmin          \* bound: how many edits they make

AgeCap == Max({DisconnectAfter, Cooldown, PollInterval}) + Slow

ASSUME HeartbeatAssumption ==
    /\ DisconnectAfter \in Nat \ {0} /\ Cooldown \in Nat /\ PollInterval \in Nat
    /\ Slow \in Nat /\ MaxAdmin \in Nat
    /\ AdminOps \subseteq {"rename", "enable", "disable", "rotate"}

NoTime  == -1
Never   == AgeCap
Age     == 0..AgeCap

Older(t) == IF t \in {NoTime, AgeCap} THEN t ELSE t + 1
Nobody  == "nobody"

VARIABLES
    row,      \* database.Daemon: secret hash, enabled, last seen, disconnected
    note,     \* age of the newest stored daemon.disconnected notification
    pollHit,  \* Service.pollHit of the daemon: lost with the process
    post,     \* post[h]: the IngestMetric call in slot h
    eval,     \* the evaluator loop
    admin,    \* admin[a]: an UpdateDaemon, RotateSecret or DisableDaemon
              \* between its read and its save
    edits,    \* how many edits were started
    issued,   \* the newest secret RotateSecret returned
    client    \* the daemon: its publisher and its metrics ticker

hbVars == <<row, note, pollHit, post, eval, admin, edits, issued, client>>

DaemonRow == [secret : 0..MaxAdmin, enabled : BOOLEAN,
              seen : Age \cup {NoTime}, down : BOOLEAN]
IdlePost  == [pc |-> "idle", now |-> 0]
IdleEval  == [pc |-> "idle", now |-> 0]
NewDaemon == [secret |-> 0, enabled |-> TRUE, seen |-> NoTime, down |-> FALSE]
IdleAdmin == [op |-> "none", copy |-> NewDaemon]

Evaluations == [pc : {"idle", "read", "notify", "mark", "clear"}, now : 0..Slow]

\* Every value has its type, and a call in flight is no older than Slow.
HeartbeatTypeOK ==
    /\ row \in DaemonRow
    /\ note \in Age \cup {NoTime} /\ pollHit \in Age \cup {NoTime}
    /\ post \in [Posts -> [pc : {"idle", "limit", "seen", "clear", "notify"},
                           now : 0..Slow]]
    /\ eval \in Evaluations
    /\ admin \in [Admins -> [op : AdminOps \cup {"none"}, copy : DaemonRow]]
    /\ edits \in 0..MaxAdmin /\ issued \in 0..MaxAdmin
    /\ client \in [on : BOOLEAN, cred : 0..MaxAdmin, paced : BOOLEAN,
                   due : BOOLEAN, wait : Posts \cup {Nobody}, last : Age]

HeartbeatInit ==
    /\ row = NewDaemon
    /\ note = NoTime /\ pollHit = NoTime
    /\ post = [h \in Posts |-> IdlePost]
    /\ eval = IdleEval
    /\ admin = [a \in Admins |-> IdleAdmin] /\ edits = 0 /\ issued = 0
    /\ client = [on |-> TRUE, cred |-> 0, paced |-> FALSE, due |-> TRUE,
                 wait |-> Nobody, last |-> Never]

-----------------------------------------------------------------------------
\* The clock. Every timestamp ages, the copy an administrator's request holds
\* included, and the metrics ticker of the daemon fires.
Tick ==
    /\ \A h \in Posts : post[h].pc # "idle" => post[h].now < Slow
    /\ eval.pc # "idle" => eval.now < Slow
    /\ row' = [row EXCEPT !.seen = Older(@)]
    /\ note' = Older(note) /\ pollHit' = Older(pollHit)
    /\ post' = [h \in Posts |-> IF post[h].pc = "idle" THEN IdlePost
                                ELSE [post[h] EXCEPT !.now = @ + 1]]
    /\ eval' = IF eval.pc = "idle" THEN eval ELSE [eval EXCEPT !.now = @ + 1]
    /\ admin' = [a \in Admins |-> [admin[a] EXCEPT !.copy.seen = Older(@)]]
    /\ client' = [client EXCEPT !.due = client.on, !.last = Older(@)]
    /\ UNCHANGED <<edits, issued>>

-----------------------------------------------------------------------------
(* The daemon *)

\* refreshQuota: the interval is known once one fetch succeeded, and a failed
\* fetch keeps the previous one; before that nothing is paced.
RefreshQuota(paced) == {paced, TRUE}

\* (Mutant: the window is tested with the opposite sign.)
PacedOK_Inverted(last, paced) == paced /\ last < PollInterval

\* pacedOK: a publish inside the window of the last successful one is skipped.
PacedOK(last, paced) == paced /\ PollInterval > 0 => last >= PollInterval

\* PublishMetrics on a due tick, up to authenticateDaemon in the cloud. An
\* unknown secret or a disabled daemon is ErrUnauthorized, and the failed
\* publish leaves the window where it was.
PublishMetrics(h) ==
    /\ client.on /\ client.due /\ client.wait = Nobody
    /\ post[h].pc = "idle"
    /\ \E p \in RefreshQuota(client.paced) :
        IF /\ PacedOK(client.last, p)
           /\ row.enabled /\ client.cred = row.secret
        THEN /\ client' = [client EXCEPT !.due = FALSE, !.paced = p, !.wait = h]
             /\ post' = [post EXCEPT ![h] = [pc |-> "limit", now |-> 0]]
        ELSE /\ client' = [client EXCEPT !.due = FALSE, !.paced = p]
             /\ post' = post
    /\ UNCHANGED <<row, note, pollHit, eval, admin, edits, issued>>

\* The answer of handler h reaches the daemon, if it is still waiting for it.
\* pacedDone: only a success advances the window, to where the post started
\* (the handler took its time in the step in which the daemon did).
Answer(h, ok) ==
    client' = IF client.wait # h THEN client
              ELSE [client EXCEPT !.wait = Nobody,
                      !.last = IF ok /\ client.paced THEN post[h].now ELSE @]

\* The request times out, or its answer is lost: the daemon counts a failure
\* while the handler may still be running.
GiveUp ==
    /\ client.wait # Nobody
    /\ client' = [client EXCEPT !.wait = Nobody]
    /\ UNCHANGED <<row, note, pollHit, post, eval, admin, edits, issued>>

\* The daemon goes silent; a restart forgets the pacing state.
DaemonStop ==
    /\ client.on
    /\ client' = [client EXCEPT !.on = FALSE, !.paced = FALSE, !.due = FALSE,
                                !.wait = Nobody, !.last = Never]
    /\ UNCHANGED <<row, note, pollHit, post, eval, admin, edits, issued>>

DaemonStart ==
    /\ ~client.on
    /\ client' = [client EXCEPT !.on = TRUE]
    /\ UNCHANGED <<row, note, pollHit, post, eval, admin, edits, issued>>

\* CloudPublisher.Reload with the secret RotateSecret returned.
ReloadSecret ==
    /\ client.cred # issued
    /\ client' = [client EXCEPT !.cred = issued]
    /\ UNCHANGED <<row, note, pollHit, post, eval, admin, edits, issued>>

-----------------------------------------------------------------------------
(* IngestMetric *)

Finish(h) == post' = [post EXCEPT ![h] = IdlePost]
Goto(h, l) == post' = [post EXCEPT ![h].pc = l]

\* enforcePollInterval: the time the handler took at its start is compared
\* with the time of the last accepted report.
EnforcePollInterval(h) ==
    \/ PollInterval = 0 \/ pollHit = NoTime
    \/ pollHit - post[h].now >= PollInterval

\* The report is inside the window: 429.
RateLimited(h) ==
    /\ post[h].pc = "limit" /\ ~EnforcePollInterval(h)
    /\ Finish(h) /\ Answer(h, FALSE)
    /\ UNCHANGED <<row, note, pollHit, eval, admin, edits, issued>>

\* It is accepted and the metric row inserted. A failed insert has consumed
\* the window all the same.
AcceptReport(h, inserted) ==
    /\ post[h].pc = "limit" /\ EnforcePollInterval(h)
    /\ pollHit' = IF PollInterval = 0 THEN pollHit ELSE post[h].now
    /\ IF inserted THEN Goto(h, "seen") /\ UNCHANGED client
                   ELSE Finish(h) /\ Answer(h, FALSE)
    /\ UNCHANGED <<row, note, eval, admin, edits, issued>>

\* UPDATE daemons SET last_seen_at: the handler's time, whatever is there.
SetSeen(h) ==
    /\ post[h].pc = "seen"
    /\ row' = [row EXCEPT !.seen = post[h].now]
    /\ Goto(h, "clear")
    /\ UNCHANGED <<note, pollHit, eval, admin, edits, issued, client>>

\* UPDATE ... SET disconnected_at = NULL WHERE it is not: the handler whose
\* statement changed the row owes the reconnected notification.
ClearDown(h) ==
    /\ post[h].pc = "clear"
    /\ row' = [row EXCEPT !.down = FALSE]
    /\ IF row.down THEN Goto(h, "notify") /\ UNCHANGED client
                   ELSE Finish(h) /\ Answer(h, TRUE)
    /\ UNCHANGED <<note, pollHit, eval, admin, edits, issued>>

\* The daemon.reconnected notification is stored and pushed, or one of these
\* fails and the daemon gets an error for a report that was stored.
NotifyReconnected(h, ok) ==
    /\ post[h].pc = "notify"
    /\ Finish(h) /\ Answer(h, ok)
    /\ UNCHANGED <<row, note, pollHit, eval, admin, edits, issued>>

\* The daemon gave up: the request context is cancelled and the next
\* statement fails.
IngestCancelled(h) ==
    /\ post[h].pc # "idle" /\ client.wait # h
    /\ Finish(h)
    /\ UNCHANGED <<row, note, pollHit, eval, admin, edits, issued, client>>

-----------------------------------------------------------------------------
(* EvaluateDisconnectedDaemonsWithCooldown *)

\* (Mutant: any daemon silent for less than the limit is the stale one.)
Stale_Swapped(seen, now) == seen # NoTime /\ seen - now < DisconnectAfter

\* The evaluation's own time is DisconnectAfter past the last report.
Stale(seen, now) == seen # NoTime /\ seen - now >= DisconnectAfter

\* (Mutant: the previous notification is not looked up.)
InCooldown_Forgotten(now) == FALSE

\* The newest daemon.disconnected notification is younger than the cooldown.
InCooldown(now) == note # NoTime /\ note - now < Cooldown

\* The loop's tick: the enabled rows are listed.
EvalStart ==
    /\ eval.pc = "idle" /\ row.enabled
    /\ eval' = [pc |-> "read", now |-> 0]
    /\ UNCHANGED <<row, note, pollHit, post, admin, edits, issued, client>>

\* The transaction reads the row and the previous notification, and decides;
\* the row's enabled flag is not looked at again.
EvalRead ==
    /\ eval.pc = "read"
    /\ eval' = IF Stale(row.seen, eval.now)
               THEN IF row.down THEN IdleEval
                    ELSE [eval EXCEPT !.pc = IF InCooldown(eval.now)
                                             THEN "mark" ELSE "notify"]
               ELSE IF row.down THEN [eval EXCEPT !.pc = "clear"] ELSE IdleEval
    /\ UNCHANGED <<row, note, pollHit, post, admin, edits, issued, client>>

\* The marking UPDATE ... WHERE disconnected_at IS NULL, with the notification
\* in the same transaction; stored unless the account's preference rejects it.
EvalMark(stored) ==
    /\ eval.pc \in {"mark", "notify"}
    /\ row' = [row EXCEPT !.down = TRUE]
    /\ note' = IF eval.pc = "notify" /\ ~row.down /\ stored THEN eval.now ELSE note
    /\ eval' = IdleEval
    /\ UNCHANGED <<pollHit, post, admin, edits, issued, client>>

\* A row that is no longer stale is cleared without any notification.
EvalClear ==
    /\ eval.pc = "clear"
    /\ row' = [row EXCEPT !.down = FALSE]
    /\ eval' = IdleEval
    /\ UNCHANGED <<note, pollHit, post, admin, edits, issued, client>>

\* A query of the evaluation fails: the daemon is skipped until the next one.
EvalFail ==
    /\ eval.pc # "idle"
    /\ eval' = IdleEval
    /\ UNCHANGED <<row, note, pollHit, post, admin, edits, issued, client>>

-----------------------------------------------------------------------------
(* Administrators *)

\* daemonForAccount: the row as the request read it.
AdminRead(a, op) ==
    /\ admin[a].op = "none" /\ edits < MaxAdmin
    /\ admin' = [admin EXCEPT ![a] = [op |-> op, copy |-> row]]
    /\ edits' = edits + 1
    /\ UNCHANGED <<row, note, pollHit, post, eval, issued, client>>

\* What the edit makes of the copy, before it saves all of it. DisableDaemon
\* and UpdateDaemon(enabled: false) also clear the mark.
Edited(copy, op) ==
    CASE op = "rename"  -> copy
      [] op = "enable"  -> [copy EXCEPT !.enabled = TRUE]
      [] op = "disable" -> [copy EXCEPT !.enabled = FALSE, !.down = FALSE]
      [] op = "rotate"  -> [copy EXCEPT !.secret = issued + 1]

AdminSave(a) ==
    /\ admin[a].op # "none"
    /\ row' = Edited(admin[a].copy, admin[a].op)
    /\ issued' = IF admin[a].op = "rotate" THEN issued + 1 ELSE issued
    /\ admin' = [admin EXCEPT ![a] = IdleAdmin]
    /\ UNCHANGED <<note, pollHit, post, eval, edits, client>>

-----------------------------------------------------------------------------
\* The cloud process restarts: the limiter's memory, the running handlers and
\* the evaluation are gone, the rows stay.
Restart ==
    /\ pollHit # NoTime \/ eval.pc # "idle" \/ \E h \in Posts : post[h].pc # "idle"
    /\ pollHit' = NoTime /\ eval' = IdleEval
    /\ post' = [h \in Posts |-> IdlePost]
    /\ client' = [client EXCEPT !.wait = Nobody]
    /\ UNCHANGED <<row, note, admin, edits, issued>>

Ingest(h) ==
    \/ RateLimited(h) \/ \E ok \in BOOLEAN : AcceptReport(h, ok)
    \/ SetSeen(h) \/ ClearDown(h) \/ \E ok \in BOOLEAN : NotifyReconnected(h, ok)

Evaluate == EvalStart \/ EvalRead \/ (\E s \in BOOLEAN : EvalMark(s)) \/ EvalClear

HeartbeatNext ==
    \/ Tick \/ GiveUp \/ DaemonStop \/ DaemonStart \/ ReloadSecret
    \/ \E h \in Posts : PublishMetrics(h) \/ Ingest(h) \/ IngestCancelled(h)
    \/ Evaluate \/ EvalFail
    \/ \E a \in Admins : AdminSave(a) \/ \E op \in AdminOps : AdminRead(a, op)
    \/ Restart

\* The clock, the daemon's ticker, the handlers and the evaluator loop keep
\* running. A report or an evaluation that is tried again and again is not
\* cut short every time: the database and the network are up often enough.
HeartbeatFairness ==
    /\ WF_hbVars(Tick)
    /\ WF_hbVars(\E h \in Posts : PublishMetrics(h))
    /\ WF_hbVars(\E h \in Posts : Ingest(h))
    /\ WF_hbVars(Evaluate) /\ SF_hbVars(EvalRead)
    /\ SF_hbVars(\E s \in BOOLEAN : EvalMark(s))
    /\ SF_hbVars(\E h \in Posts : AcceptReport(h, TRUE))
    /\ SF_hbVars(\E h \in Posts : SetSeen(h))
    /\ SF_hbVars(\E h \in Posts : ClearDown(h))

HeartbeatSpec == HeartbeatInit /\ [][HeartbeatNext]_hbVars /\ HeartbeatFairness

-----------------------------------------------------------------------------
(* What holds *)

\* A daemon that has reported once, stays enabled and falls silent for good is
\* marked disconnected, and stays marked: through the cooldown, restarts of
\* the cloud, failing evaluations and edits that write back an old row.
OutageNoticed ==
    <>[](~client.on /\ row.enabled /\ row.seen # NoTime) => <>[]row.down

\* A daemon that runs, enabled and with the right secret, does not stay marked:
\* neither the two limiters, which keep different clocks, nor lost answers and
\* failed inserts that consume the window starve its reports.
OutageCleared ==
    <>[](client.on /\ row.enabled /\ client.cred = row.secret)
        => []<>(~row.down /\ row.seen \in 0..Slow)

\* Two stored daemon.disconnected notifications are Cooldown apart, whatever
\* cleared the mark in between.
NotificationsSpaced ==
    [][note' # Older(note) /\ note' # note /\ note # NoTime
        => note - note' >= Cooldown]_hbVars

\* Why, as Loops_proofs shows: the decision to notify stays good until it is
\* acted on. The notification and the evaluation age together, and an age at
\* its cap is still a cooldown past an evaluation that is at most Slow old.
NotifyStaysDue ==
    /\ note \in Age \cup {NoTime} /\ eval \in Evaluations
    /\ eval.pc = "notify" /\ note # NoTime => note - eval.now >= Cooldown

-----------------------------------------------------------------------------
(* Claims of the repository that the code does not keep *)

\* "The previous secret stops working immediately": once RotateSecret returned
\* a secret, the row holds no older one. An edit that read the row before the
\* rotation and saves it afterwards brings the old secret back.
SecretStaysRotated == [][row'.secret >= row.secret]_hbVars

\* "A later metric clears the state and publishes a reconnected notification":
\* the mark of an enabled daemon is never taken away by the evaluator. It is
\* when the mark was set from a row read before the report was stored.
EveryOutageCloses == [][eval.pc = "clear" => row' = row]_hbVars
=============================================================================

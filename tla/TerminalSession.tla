-------------------------- MODULE TerminalSession --------------------------
(***************************************************************************)
(* One interactive shell of the daemon: the shell on its PTY, the reader   *)
(* and the reaper of internal/daemon/terminal.go, closeSession with its    *)
(* signals and grace periods, and the two loops that serve the session's   *)
(* connection (runTerminalSession, terminalPump and terminalReadLoop of    *)
(* terminal_ws.go). The same loops serve the direct endpoint and the       *)
(* relay's agent socket.                                                   *)
(*                                                                         *)
(* Output is a number of chunks: of those the shell has produced, `read`   *)
(* have been taken off the PTY, `queued` wait in the session's queue and   *)
(* `delivered` have been written to the client.                            *)
(***************************************************************************)
EXTENDS Integers

CONSTANTS
    MaxChunks,   \* bound: chunks of output the shell produces
    QueueSize    \* terminalOutputQueue

ASSUME SessionAssumption == MaxChunks \in Nat /\ QueueSize \in Nat \ {0}

\* Who calls Close: the pump (unreachable, idle or too old), the handler (the
\* read loop ended), CloseAll (the daemon shuts down).
Closers == {"pump", "main", "shutdown"}

VARIABLES
    shell,      \* "running", "exited" (a zombie), "reaped" (Wait returned)
    lingers,    \* a child of the shell still holds the PTY open
    ptyOpen,    \* the PTY master is open
    produced, read, queued, delivered,
    reader,     \* readOutput: "read", "send" (it holds a chunk), "parked" (it
                \* sleeps on the full queue), "over"
    reaper,     \* reap: "wait", "drain", "over"
    expired,    \* the reaper's drain grace passed before the reader ended: "no",
                \* "blocked" (by a full queue), "late" (anything else)
    done,       \* s.done is closed
    doneCloses, \* how often close(s.done) was called
    closed,     \* s.closed; s.closing is closed with it
    closer,     \* the caller that carries out the close, or "none"
    step,       \* what closeSession does next, "none" when nobody is in it
    struck,     \* a signal was sent to the pid of a shell that was reaped
    listed,     \* the session is in the manager's map
    audits,     \* audit records of the session
    pump,       \* terminalPump
    main,       \* runTerminalSession after starting the pump
    conn,       \* the connection: "open" or "closed"
    ctxDone,    \* the context of runTerminalSession is cancelled
    exitAt      \* chunks delivered before the exit frame, or -1

pty == <<shell, lingers, ptyOpen, produced>>
flow == <<read, queued, reader>>
ending == <<reaper, expired, done, doneCloses>>
closing == <<closed, closer, step, struck, listed, audits>>
serving == <<delivered, pump, main, conn, ctxDone, exitAt>>
vars == <<pty, flow, ending, closing, serving>>

Chunks == 0..MaxChunks

TypeOK ==
    /\ shell \in {"running", "exited", "reaped"}
    /\ lingers \in BOOLEAN /\ ptyOpen \in BOOLEAN
    /\ produced \in Chunks /\ read \in Chunks /\ delivered \in Chunks
    /\ queued \in 0..QueueSize
    /\ reader \in {"read", "send", "parked", "over"}
    /\ reaper \in {"wait", "drain", "over"}
    /\ expired \in {"no", "blocked", "late"}
    /\ done \in BOOLEAN /\ closed \in BOOLEAN /\ struck \in BOOLEAN
    /\ listed \in BOOLEAN /\ ctxDone \in BOOLEAN
    /\ doneCloses \in Nat /\ audits \in Nat
    /\ closer \in Closers \cup {"none"}
    /\ step \in {"none", "check", "term", "kill", "finish", "release", "record"}
    /\ pump \in {"loop", "select", "write", "closeLoop", "closeEnd", "drain",
                 "drainWrite", "exit", "hangup", "over"}
    /\ main \in {"read", "input", "refuse", "closeRead", "close", "closing", "wait", "over"}
    /\ conn \in {"open", "closed"}
    /\ exitAt \in Chunks \cup {-1}

\* Open: the shell is started, the session listed, reader and reaper running;
\* handleTerminal then starts runTerminalSession.
Init ==
    /\ shell = "running" /\ lingers = FALSE /\ ptyOpen = TRUE
    /\ produced = 0 /\ read = 0 /\ queued = 0 /\ delivered = 0
    /\ reader = "read" /\ reaper = "wait"
    /\ expired = "no" /\ done = FALSE /\ doneCloses = 0
    /\ closed = FALSE /\ closer = "none" /\ step = "none" /\ struck = FALSE
    /\ listed = TRUE /\ audits = 0
    /\ pump = "loop" /\ main = "read"
    /\ conn = "open" /\ ctxDone = FALSE /\ exitAt = -1

-----------------------------------------------------------------------------
\* The shell (external), which may leave children behind that hold the PTY.

ShellWrites ==
    /\ shell = "running" \/ lingers
    /\ ptyOpen /\ produced < MaxChunks
    /\ produced' = produced + 1
    /\ UNCHANGED <<shell, lingers, ptyOpen, flow, ending, closing, serving>>

ShellExits ==
    /\ shell = "running"
    /\ shell' = "exited"
    /\ lingers' \in BOOLEAN
    /\ UNCHANGED <<ptyOpen, produced, flow, ending, closing, serving>>

-----------------------------------------------------------------------------
\* readOutput.

ReadChunk ==
    /\ reader = "read" /\ ptyOpen /\ read < produced
    /\ read' = read + 1
    /\ reader' = "send"
    /\ UNCHANGED <<queued, pty, ending, closing, serving>>

\* The PTY ends when nobody has the other side open and it is empty, or when
\* closeSession closed the master.
ReadEnds ==
    /\ reader = "read"
    /\ \/ ~ptyOpen
       \/ shell # "running" /\ ~lingers /\ read = produced
    /\ reader' = "over"
    /\ UNCHANGED <<read, queued, pty, ending, closing, serving>>

QueueChunk ==
    /\ reader = "send" /\ queued < QueueSize
    /\ queued' = queued + 1
    /\ reader' = "read"
    /\ UNCHANGED <<read, pty, ending, closing, serving>>

ParkReader ==
    /\ reader = "send" /\ queued = QueueSize /\ ~closed
    /\ reader' = "parked"
    /\ UNCHANGED <<read, queued, pty, ending, closing, serving>>

\* A receive from the full queue takes a parked reader's chunk in at once.
Take ==
    /\ queued > 0
    /\ queued' = IF reader = "parked" THEN queued ELSE queued - 1
    /\ reader' = IF reader = "parked" THEN "read" ELSE reader

\* The chunk in the reader's hands is dropped.
AbandonChunk ==
    /\ reader \in {"send", "parked"} /\ closed
    /\ reader' = "over"
    /\ UNCHANGED <<read, queued, pty, ending, closing, serving>>

-----------------------------------------------------------------------------
\* reap, and finish, which the closer calls too.

\* (Mutant: finish closes the channel whoever comes.)
FinishAlways ==
    /\ done' = TRUE
    /\ doneCloses' = doneCloses + 1

FinishOnce ==
    /\ done' = TRUE
    /\ doneCloses' = IF done THEN doneCloses ELSE doneCloses + 1

ReapWait ==
    /\ reaper = "wait" /\ shell = "exited"
    /\ shell' = "reaped"
    /\ reaper' = "drain"
    /\ UNCHANGED <<lingers, ptyOpen, produced, flow, expired, done, doneCloses,
                   closing, serving>>

\* (Mutant: the reaper does not wait for the reader.)
ReapWithoutReader ==
    /\ reaper = "drain"
    /\ reaper' = "over"
    /\ FinishOnce
    /\ UNCHANGED <<expired, pty, flow, closing, serving>>

ReapDrained ==
    /\ reaper = "drain" /\ reader = "over"
    /\ reaper' = "over"
    /\ FinishOnce
    /\ UNCHANGED <<expired, pty, flow, closing, serving>>

\* terminalDrainGrace passes first.
ReapGrace ==
    /\ reaper = "drain" /\ reader # "over"
    /\ reaper' = "over"
    /\ expired' = IF reader = "parked" THEN "blocked" ELSE "late"
    /\ FinishOnce
    /\ UNCHANGED <<pty, flow, closing, serving>>

-----------------------------------------------------------------------------
\* closeSession. The first caller carries it out; the others return at once.

Enter(c) ==
    /\ closed' = TRUE
    /\ closer' = IF closed THEN closer ELSE c
    /\ step' = IF closed THEN step ELSE "check"
    /\ UNCHANGED <<struck, listed, audits>>

\* A caller is back when it does not carry the close out (any more).
Back(c) == closer # c

\* (Mutant: the grace period for the signal to work is not bounded.)
CloseWaitsForEver ==
    /\ step \in {"check", "term", "kill"} /\ done
    /\ step' = "finish"
    /\ UNCHANGED <<struck, closed, closer, listed, audits, pty, flow, ending, serving>>

\* Only a session that is not done is signalled: SIGTERM, and SIGKILL after a
\* grace period.
CloseSignal ==
    /\ \/ step = "check" /\ ~done /\ step' = "term"
       \/ step = "term" /\ ~done /\ step' = "kill"
    /\ struck' = (struck \/ shell = "reaped")
    /\ UNCHANGED <<closed, closer, listed, audits, pty, flow, ending, serving>>

\* Done was closed, or the second grace period passed.
CloseWait ==
    /\ \/ step \in {"check", "term", "kill"} /\ done
       \/ step = "kill"
    /\ step' = "finish"
    /\ UNCHANGED <<struck, closed, closer, listed, audits, pty, flow, ending, serving>>

\* The forced finish, and the PTY master closed.
CloseFinish ==
    /\ step = "finish"
    /\ FinishOnce
    /\ ptyOpen' = FALSE
    /\ step' = "release"
    /\ UNCHANGED <<closed, closer, struck, listed, audits, shell, lingers, produced,
                   flow, reaper, expired, serving>>

\* (Mutant: the session stays in the map.)
CloseKeepsListed ==
    /\ step = "release"
    /\ step' = "record"
    /\ UNCHANGED <<closed, closer, struck, listed, audits, pty, flow, ending, serving>>

CloseRelease ==
    /\ step = "release"
    /\ listed' = FALSE
    /\ step' = "record"
    /\ UNCHANGED <<closed, closer, struck, audits, pty, flow, ending, serving>>

CloseRecord ==
    /\ step = "record"
    /\ audits' = audits + 1
    /\ step' = "none"
    /\ closer' = "none"
    /\ UNCHANGED <<closed, struck, listed, pty, flow, ending, serving>>

-----------------------------------------------------------------------------
\* terminalPump, the writer of the connection, after its hello frame.

\* The pump ends: its goroutine cancels the context.
PumpOver == pump' = "over" /\ ctxDone' = TRUE

\* An ended session outranks everything else, then the context.
PumpCheck ==
    /\ pump = "loop"
    /\ IF done THEN pump' = "drain" /\ UNCHANGED <<conn, ctxDone>>
       ELSE IF ctxDone THEN PumpOver /\ conn' = "closed"
       ELSE pump' = "select" /\ UNCHANGED <<conn, ctxDone>>
    /\ UNCHANGED <<delivered, main, exitAt, pty, flow, ending, closing>>

PumpEnded ==
    /\ pump = "select"
    /\ \/ done /\ pump' = "drain" /\ UNCHANGED <<conn, ctxDone>>
       \/ ctxDone /\ PumpOver /\ conn' = "closed"
    /\ UNCHANGED <<delivered, main, exitAt, pty, flow, ending, closing>>

PumpTakes ==
    /\ pump = "select"
    /\ Take
    /\ pump' = "write"
    /\ UNCHANGED <<read, delivered, main, conn, ctxDone, exitAt, pty, ending,
                   closing>>

\* A write fails on a closed connection, or when the client stalls past the
\* write timeout (the library then closes the connection).
PumpWrites ==
    /\ pump = "write"
    /\ \/ /\ conn = "open"
          /\ delivered' = delivered + 1 /\ pump' = "loop" /\ conn' = conn
       \/ /\ delivered' = delivered /\ pump' = "closeEnd" /\ conn' = "closed"
    /\ UNCHANGED <<main, ctxDone, exitAt, pty, flow, ending, closing>>

\* A ping goes unanswered; the session is idle or too old.
PumpPing ==
    /\ pump = "select"
    /\ \/ conn = "open" /\ pump' = "loop"
       \/ pump' = "closeEnd"
    /\ UNCHANGED <<delivered, main, conn, ctxDone, exitAt, pty, flow, ending, closing>>

PumpIdle ==
    /\ pump = "select"
    /\ pump' = "closeLoop"
    /\ UNCHANGED <<delivered, main, conn, ctxDone, exitAt, pty, flow, ending, closing>>

\* session.Close by the pump, which then goes on or ends.
PumpCloses ==
    /\ pump \in {"closeLoop", "closeEnd"} /\ ~closed
    /\ Enter("pump")
    /\ UNCHANGED <<pty, flow, ending, serving>>

PumpClosed ==
    /\ pump \in {"closeLoop", "closeEnd"} /\ closed /\ Back("pump")
    /\ IF pump = "closeLoop" THEN pump' = "loop" /\ ctxDone' = ctxDone ELSE PumpOver
    /\ UNCHANGED <<delivered, main, conn, exitAt, pty, flow, ending, closing>>

\* terminalExit: what the queue holds at this moment goes out first. An empty
\* queue ends the draining, whether the reader is through or not.
DrainTakes ==
    /\ pump = "drain"
    /\ Take
    /\ pump' = "drainWrite"
    /\ UNCHANGED <<read, delivered, main, conn, ctxDone, exitAt, pty, ending,
                   closing>>

DrainWrites ==
    /\ pump = "drainWrite"
    /\ \/ /\ conn = "open"
          /\ delivered' = delivered + 1 /\ pump' = "drain"
          /\ UNCHANGED <<conn, ctxDone>>
       \/ /\ delivered' = delivered /\ conn' = "closed" /\ PumpOver
    /\ UNCHANGED <<main, exitAt, pty, flow, ending, closing>>

DrainEmpty ==
    /\ pump = "drain" /\ queued = 0
    /\ pump' = "exit"
    /\ UNCHANGED <<delivered, main, conn, ctxDone, exitAt, pty, flow, ending, closing>>

ExitFrame ==
    /\ pump = "exit"
    /\ exitAt' = IF conn = "open" THEN delivered ELSE exitAt
    /\ pump' = "hangup"
    /\ UNCHANGED <<delivered, main, conn, ctxDone, pty, flow, ending, closing>>

Hangup ==
    /\ pump = "hangup"
    /\ conn' = "closed"
    /\ PumpOver
    /\ UNCHANGED <<delivered, main, exitAt, pty, flow, ending, closing>>

-----------------------------------------------------------------------------
\* terminalReadLoop and the rest of runTerminalSession.

\* A frame of input: session.Write blocks until somebody reads it off the PTY.
InputFrame ==
    /\ main = "read" /\ conn = "open"
    /\ main' = "input"
    /\ UNCHANGED <<delivered, pump, conn, ctxDone, exitAt, pty, flow, ending, closing>>

InputTaken ==
    /\ main = "input" /\ ptyOpen
    /\ main' = "read"
    /\ UNCHANGED <<delivered, pump, conn, ctxDone, exitAt, pty, flow, ending, closing>>

\* The write fails: nobody has the other side open, or the master is closed.
InputFails ==
    /\ main = "input"
    /\ ~ptyOpen \/ (shell # "running" /\ ~lingers)
    /\ main' = "refuse"
    /\ UNCHANGED <<delivered, pump, conn, ctxDone, exitAt, pty, flow, ending, closing>>

\* A frame the protocol does not know; it is answered with an error frame.
BadFrame ==
    /\ main = "read" /\ conn = "open"
    /\ main' = "refuse"
    /\ UNCHANGED <<delivered, pump, conn, ctxDone, exitAt, pty, flow, ending, closing>>

\* The read loop closes the session itself.
Refuse ==
    /\ main = "refuse"
    /\ main' = IF closed THEN "close" ELSE "closeRead"
    /\ Enter("main")
    /\ UNCHANGED <<delivered, pump, conn, ctxDone, exitAt, pty, flow, ending>>

RefuseBack ==
    /\ main = "closeRead" /\ Back("main")
    /\ main' = "close"
    /\ UNCHANGED <<delivered, pump, conn, ctxDone, exitAt, pty, flow, ending, closing>>

ReadFails ==
    /\ main = "read" /\ (conn = "closed" \/ ctxDone)
    /\ main' = "close"
    /\ UNCHANGED <<delivered, pump, conn, ctxDone, exitAt, pty, flow, ending, closing>>

MainCloses ==
    /\ main = "close"
    /\ main' = "closing"
    /\ Enter("main")
    /\ UNCHANGED <<delivered, pump, conn, ctxDone, exitAt, pty, flow, ending>>

MainClosed ==
    /\ main = "closing" /\ Back("main")
    /\ main' = "wait"
    /\ UNCHANGED <<delivered, pump, conn, ctxDone, exitAt, pty, flow, ending, closing>>

\* <-writeDone, and the handler returns.
MainReturns ==
    /\ main = "wait" /\ pump = "over"
    /\ main' = "over"
    /\ UNCHANGED <<delivered, pump, conn, ctxDone, exitAt, pty, flow, ending, closing>>

-----------------------------------------------------------------------------
\* The surroundings: CloseAll, the end of the daemon's context (the relay's
\* sessions run under it), and the client or the network going away.

CloseAll ==
    /\ listed /\ ~closed
    /\ Enter("shutdown")
    /\ UNCHANGED <<pty, flow, ending, serving>>

DaemonStops ==
    /\ ~ctxDone
    /\ ctxDone' = TRUE
    /\ UNCHANGED <<delivered, pump, main, conn, exitAt, pty, flow, ending, closing>>

ConnLost ==
    /\ conn = "open"
    /\ conn' = "closed"
    /\ UNCHANGED <<delivered, pump, main, ctxDone, exitAt, pty, flow, ending, closing>>

-----------------------------------------------------------------------------
ReaderStep == ReadChunk \/ ReadEnds \/ QueueChunk \/ ParkReader \/ AbandonChunk
ReaperStep == ReapWait \/ ReapDrained \/ ReapGrace
CloseStep == CloseSignal \/ CloseWait \/ CloseFinish \/ CloseRelease \/ CloseRecord
PumpStep ==
    \/ PumpCheck \/ PumpEnded \/ PumpTakes \/ PumpWrites
    \/ PumpCloses \/ PumpClosed \/ DrainTakes \/ DrainWrites \/ DrainEmpty
    \/ ExitFrame \/ Hangup
MainStep ==
    \/ InputFails \/ Refuse \/ RefuseBack \/ ReadFails \/ MainCloses \/ MainClosed \/ MainReturns

Next ==
    \/ ShellWrites \/ ShellExits
    \/ ReaderStep \/ ReaperStep \/ CloseStep \/ PumpStep \/ MainStep
    \/ PumpPing \/ PumpIdle \/ InputFrame \/ InputTaken \/ BadFrame
    \/ CloseAll \/ DaemonStops \/ ConnLost

Spec == Init /\ [][Next]_vars

\* Every goroutine runs when it can and every timer fires, the one of the pings
\* among them. Nothing else has to happen: the shell may run for ever, even
\* after SIGKILL, and need not read its input, and a silent client may stay
\* connected.
FairSpec ==
    /\ Spec
    /\ WF_vars(ReaderStep) /\ WF_vars(ReaperStep) /\ WF_vars(CloseStep)
    /\ WF_vars(PumpStep) /\ WF_vars(PumpPing) /\ WF_vars(MainStep)

-----------------------------------------------------------------------------
(***************************************************************************)
(* finish ("releases Done exactly once, so a reaper racing a forced close  *)
(* cannot close the channel twice") and closeSession ("the first caller    *)
(* wins"): with the pump, the handler and CloseAll closing and the reaper  *)
(* finishing in any order, s.done is closed once and the session is        *)
(* recorded once.                                                          *)
(***************************************************************************)
EndsOnce == doneCloses <= 1 /\ audits <= 1

(***************************************************************************)
(* runTerminalSession: when the handler has returned the session is out of *)
(* the manager's map, so it no longer counts against maxSessions, except   *)
(* while another caller of Close is still carrying it out, and by then the *)
(* pump has stopped writing.                                               *)
(***************************************************************************)
HandlerLeavesNothing ==
    main = "over" => /\ pump = "over"
                     /\ closed
                     /\ listed => closer # "none"

(***************************************************************************)
(* reap, drainTerminalOutput: when a shell ends by itself and the reader   *)
(* was through within the grace period, the exit frame comes after all of  *)
(* the shell's output.                                                     *)
(***************************************************************************)
QuietExitComplete ==
    exitAt >= 0 /\ expired = "no" /\ ~closed => exitAt = produced

\* The read loop is blocked in a write to the PTY, the pump has ended and nobody
\* has closed the session: a child of the shell that has exited holds the PTY
\* and does not read it, or the daemon's context ended.
InputStuck == main = "input" /\ pump = "over" /\ ~closed

(***************************************************************************)
(* closeSession, terminalPump: once the session is being closed, the shell *)
(* has ended or the connection is gone, the handler returns and the        *)
(* session is recorded, whatever the shell does with its signals and its   *)
(* input. The one way to stay for ever is InputStuck: only the pump can    *)
(* end a blocked write, and it has left.                                   *)
(***************************************************************************)
SessionEnds ==
    \/ <>[]InputStuck
    \/ (closed \/ shell # "running" \/ conn = "closed")
           ~> (main = "over" /\ audits = 1 /\ ~listed)

-----------------------------------------------------------------------------
(***************************************************************************)
(* Why the safety properties hold: the inductive invariant that            *)
(* TerminalSession_proofs rests on.                                        *)
(***************************************************************************)

HeldByReader == IF reader \in {"send", "parked"} THEN 1 ELSE 0
HeldByPump == IF pump \in {"write", "drainWrite"} THEN 1 ELSE 0

\* close(s.done) was called as often as s.done is closed, and the close is
\* carried out once: nobody before it, one caller during, one record after.
CloseOnce ==
    /\ doneCloses = IF done THEN 1 ELSE 0
    /\ audits = IF closed /\ step = "none" THEN 1 ELSE 0
    /\ step = "none" <=> closer = "none"
    /\ ~closed => step = "none" /\ ptyOpen
    /\ closed /\ step \in {"none", "record"} => ~listed

\* The handler passes its own Close and the end of the pump on its way out.
HandlerOrder ==
    /\ main \in {"closing", "wait", "over"} => closed
    /\ main = "over" => pump = "over"

\* No chunk is counted twice; none is lost as long as the pump has not failed
\* and nobody closes.
Conserved ==
    LET accounted == delivered + queued + HeldByPump + HeldByReader IN
    /\ accounted <= read /\ read <= produced
    /\ ~closed /\ pump \notin {"closeEnd", "over"} => accounted = read

\* A session that ends without a close ended because the reaper was through,
\* the reaper because the reader was, the reader because the PTY was empty.
QuietEnd ==
    /\ done /\ ~closed => reaper = "over"
    /\ reaper = "over" /\ expired = "no" => reader = "over"
    /\ reader = "over" /\ ~closed
         => shell # "running" /\ ~lingers /\ read = produced

\* The pump drains only what has ended, and the exit frame is its last.
ExitLast ==
    /\ pump \in {"drain", "drainWrite", "exit", "hangup"} \/ exitAt >= 0 => done
    /\ exitAt >= 0 => pump \in {"hangup", "over"}
    /\ pump = "exit" /\ expired = "no" /\ ~closed => queued = 0

SessionInv ==
    /\ CloseOnce /\ HandlerOrder /\ Conserved /\ QuietEnd /\ ExitLast
    /\ QuietExitComplete

-----------------------------------------------------------------------------
\* Claims of the repository that the code does not keep: TLC refutes each of
\* them, the README says with which constants and by which steps.

(***************************************************************************)
(* closeSession ("A reaped child's pid may already belong to another       *)
(* process, so the group is only signalled while the shell is still        *)
(* unreaped"): no signal goes to a reaped pid.                             *)
(***************************************************************************)
SignalsUnreaped == ~struck

(***************************************************************************)
(* drainTerminalOutput ("so the exit frame never overtakes the last bytes",*)
(* "The PTY reader closes the queue before the exit is released"): the     *)
(* exit frame of a shell that ended by itself, with nothing left behind,   *)
(* follows everything the shell wrote, also when a slow client kept the    *)
(* reader waiting for longer than the grace period.                        *)
(***************************************************************************)
ExitFollowsOutput ==
    exitAt >= 0 /\ ~closed /\ ~lingers /\ expired # "late" => exitAt = produced
=============================================================================

----------------------------- MODULE LogCapture -----------------------------
(***************************************************************************)
(* The logs of one container on their way from the runtime to the cloud    *)
(* (daemon/logs.go, runLogsCollector of daemon/app.go, IngestLogs of       *)
(* cloud/service.go). One goroutine does everything on the daemon: it      *)
(* tails the container from its cursor, if it is running, appends to the   *)
(* ring and the file, queues the lines for upload and flushes one batch.   *)
(* A line is its number. Timestamps do not fall, but lines may share one.  *)
(***************************************************************************)
EXTENDS Integers, Sequences, SequencesExt, FiniteSetsExt

CONSTANTS
    MaxLines,      \* bound: lines the container writes
    FirstTail,     \* the backfill of the first tail (200 lines)
    TailLimit,     \* containerLogTailBytes, in lines
    RingLines,     \* containerLogRingLines
    FileLines,     \* containerLogFileBytes, in lines
    PendingLines,  \* the upload buffer's limit (5000)
    BatchLines,    \* logsUploadBatchLines
    Stamp,         \* the timestamp of each line; Stamp[0] is the zero time
    Poison,        \* lines IngestLogs refuses: empty ones, or over 4096 bytes
    MaxRestarts,   \* bound: restarts of the daemon
    MaxStops       \* bound: how often the container is stopped

ASSUME LogAssumption ==
    /\ \A n \in {MaxLines, FirstTail, TailLimit, RingLines, FileLines,
                 PendingLines, BatchLines} : n \in Nat \ {0}
    /\ Stamp \in [0..MaxLines -> Nat] /\ Stamp[0] < Stamp[1]
    /\ \A k, l \in 0..MaxLines : k <= l => Stamp[k] <= Stamp[l]
    /\ Poison \subseteq 1..MaxLines /\ MaxRestarts \in Nat /\ MaxStops \in Nat

VARIABLES
    emitted,    \* lines the container has written
    up,         \* the container is running
    ring,       \* containerLogTail.lines
    cursor,     \* the line whose timestamp is containerLogTail.lastTS, or 0
    file,       \* <id>.jsonl
    file1,      \* <id>.jsonl.1
    pending,    \* logUploadBuffer.pending
    logPc,      \* where the collector's goroutine is in its tick
    sudoPath,   \* the runtime has needed sudo
    cloudLogs,  \* the DaemonLog rows
    dropped,    \* lines the upload buffer has let go, ghost
    missed,     \* lines a tail passed over, ghost
    restarts, stops

\* What the container does, and what the daemon remembers.
containerVars == <<emitted, up, stops>>
captureVars == <<ring, cursor, file, file1>>
logVars == <<containerVars, captureVars, pending, logPc, sudoPath, cloudLogs,
             dropped, missed, restarts>>

Lines == 1..MaxLines
From(a, b) == [i \in 1..(b - a + 1) |-> a + i - 1]
LastN(s, n) == IF Len(s) > n THEN SubSeq(s, Len(s) - n + 1, Len(s)) ELSE s

LogInit ==
    /\ emitted = 0 /\ up = TRUE /\ stops = 0
    /\ ring = <<>> /\ cursor = 0 /\ file = <<>> /\ file1 = <<>>
    /\ pending = <<>> /\ logPc = "idle" /\ sudoPath = FALSE
    /\ cloudLogs = {} /\ dropped = {} /\ missed = {} /\ restarts = 0

Emit ==
    /\ up /\ emitted < MaxLines
    /\ emitted' = emitted + 1
    /\ UNCHANGED <<up, stops, captureVars, pending, logPc, sudoPath, cloudLogs,
                   dropped, missed, restarts>>

ContainerStop ==
    /\ up /\ stops < MaxStops
    /\ up' = FALSE /\ stops' = stops + 1
    /\ UNCHANGED <<emitted, captureVars, pending, logPc, sudoPath, cloudLogs,
                   dropped, missed, restarts>>

ContainerStart ==
    /\ ~up /\ up' = TRUE
    /\ UNCHANGED <<emitted, stops, captureVars, pending, logPc, sudoPath, cloudLogs,
                   dropped, missed, restarts>>

-----------------------------------------------------------------------------
\* What `logs` prints: the last FirstTail lines, or every line from the
\* cursor's timestamp on, the line at the cursor included.
TailFirst ==
    IF cursor > 0 THEN Min({l \in 1..emitted : Stamp[l] = Stamp[cursor]})
    ELSE IF emitted > FirstTail THEN emitted - FirstTail + 1 ELSE 1

TailFits == emitted - TailFirst < TailLimit

\* combinedBuffer.Write: what comes after the limit is cut.
TailOutput == From(TailFirst, IF TailFits THEN emitted ELSE TailFirst + TailLimit - 1)

\* The write that crosses the limit returns a short count, which makes os/exec
\* fail the command; after one that ends exactly at the limit the rest is
\* discarded without a word. (A write is of whole lines.)
TailWritten(exact) == TailFits \/ exact

\* What the tail passes over, for good: the lines a first tail does not reach
\* back to, and those that came after the line at the cursor with its timestamp.
PassedOver ==
    IF cursor = 0 THEN 1..(TailFirst - 1)
    ELSE {l \in Range(TailOutput) : l > cursor /\ Stamp[l] = Stamp[cursor]}

\* (Mutant: the command's lines are taken as they are.)
AcceptTail_All(lines) == lines

\* acceptTail: lines whose timestamp is not after the cursor's are dropped.
\* (Timestamps do not fall: these are the first ones.)
AcceptTail(lines) ==
    LET old == Max({0} \cup {i \in DOMAIN lines : Stamp[lines[i]] <= Stamp[cursor]})
    IN  SubSeq(lines, old + 1, Len(lines))

\* containerLogStore.Append: ring, cursor, and the file, which is rotated
\* first once it has reached its size.
AppendLog(lines) ==
    /\ ring' = LastN(ring \o lines, RingLines)
    /\ cursor' = Max({cursor} \cup Range(lines))
    /\ IF Len(file) >= FileLines
       THEN file' = lines /\ file1' = file
       ELSE file' = file \o lines /\ file1' = file1

\* logUploadBuffer.Add: past its limit the buffer lets its oldest lines go.
AddPending(lines) == LastN(pending \o lines, PendingLines)

\* One tick: a container that is not running is left alone; otherwise tail with
\* or without sudo, and when a line came, append, match the alerts, queue for
\* upload and broadcast. A failed tail leaves all as is.
CollectLogs(direct, sudo, exact) ==
    LET lines == AcceptTail(TailOutput)
        queued == AddPending(lines)
        ok == up /\ (direct \/ sudo) /\ TailWritten(exact)
    IN  /\ logPc = "idle" /\ emitted > 0
        /\ sudoPath' = IF up THEN sudo /\ TailWritten(exact) /\ (sudoPath \/ ~direct)
                       ELSE sudoPath
        /\ IF ok /\ lines # <<>>
           THEN /\ AppendLog(lines)
                /\ pending' = queued
                /\ dropped' = dropped \cup (Range(pending \o lines) \ Range(queued))
           ELSE UNCHANGED <<captureVars, pending, dropped>>
        /\ missed' = IF ok THEN missed \cup PassedOver ELSE missed
        /\ logPc' = "flush"
        /\ UNCHANGED <<containerVars, cloudLogs, restarts>>

-----------------------------------------------------------------------------
Batch == SubSeq(pending, 1, IF Len(pending) < BatchLines THEN Len(pending)
                            ELSE BatchLines)

\* IngestLogs: one line that is empty or too long refuses the whole batch.
IngestAccepts(batch) == batch # <<>> /\ Range(batch) \cap Poison = {}

\* Flush: nothing to send, or not due.
FlushNothing ==
    /\ logPc = "flush" /\ logPc' = "idle"
    /\ UNCHANGED <<containerVars, captureVars, pending, sudoPath, cloudLogs,
                   dropped, missed, restarts>>

\* (Mutant: the batch is taken off the buffer before it is known to be stored.)
FlushFails_Forget(stored) ==
    /\ logPc = "flush" /\ pending # <<>>
    /\ cloudLogs' = IF stored /\ IngestAccepts(Batch)
                    THEN cloudLogs \cup Range(Batch) ELSE cloudLogs
    /\ pending' = SubSeq(pending, Len(Batch) + 1, Len(pending))
    /\ logPc' = "idle"
    /\ UNCHANGED <<containerVars, captureVars, sudoPath, dropped, missed, restarts>>

\* The upload fails, or only its answer is lost: the batch stays queued.
FlushFails(stored) ==
    /\ logPc = "flush" /\ pending # <<>>
    /\ cloudLogs' = IF stored /\ IngestAccepts(Batch)
                    THEN cloudLogs \cup Range(Batch) ELSE cloudLogs
    /\ logPc' = "idle"
    /\ UNCHANGED <<containerVars, captureVars, pending, sudoPath, dropped, missed,
                   restarts>>

FlushOK ==
    /\ logPc = "flush" /\ IngestAccepts(Batch)
    /\ cloudLogs' = cloudLogs \cup Range(Batch)
    /\ pending' = SubSeq(pending, Len(Batch) + 1, Len(pending))
    /\ logPc' = "idle"
    /\ UNCHANGED <<containerVars, captureVars, sudoPath, dropped, missed, restarts>>

\* A restart forgets ring, cursor and upload buffer; the files stay.
LogRestart ==
    /\ restarts < MaxRestarts
    /\ restarts' = restarts + 1
    /\ ring' = <<>> /\ cursor' = 0 /\ pending' = <<>> /\ sudoPath' = FALSE
    /\ logPc' = "idle"
    /\ dropped' = dropped \cup Range(pending)
    /\ UNCHANGED <<containerVars, file, file1, cloudLogs, missed>>

LogNext ==
    \/ Emit \/ ContainerStop \/ ContainerStart \/ FlushNothing \/ FlushOK \/ LogRestart
    \/ \E d, s, x \in BOOLEAN : CollectLogs(d, s, x)
    \/ \E s \in BOOLEAN : FlushFails(s)

\* A tail that nothing is wrong with.
TailWorks == up /\ TailFits /\ CollectLogs(TRUE, TRUE, FALSE)

\* The loop keeps ticking, and neither the runtime nor the cloud fails each
\* time it is asked. Nobody has to start a stopped container.
LogFairness ==
    /\ WF_logVars(\E d, s, x \in BOOLEAN : CollectLogs(d, s, x))
    /\ SF_logVars(TailWorks)
    /\ WF_logVars(FlushNothing) /\ SF_logVars(FlushOK)

LogSpec == LogInit /\ [][LogNext]_logVars /\ LogFairness

-----------------------------------------------------------------------------
(* What holds *)

\* The ring and what waits for upload hold each line once and in order, and so
\* does the record on disk until the daemon restarts. No line before the cursor
\* is forgotten: it waits for upload, was uploaded, or was let go or passed over
\* by a step that is known to lose lines, also after a restart, which starts
\* from the last lines again.
CapturedOnce ==
    LET rising(s) == \A i \in 1..(Len(s) - 1) : s[i] < s[i+1] IN
    /\ rising(ring) /\ rising(pending)
    /\ restarts = 0 => rising(file1 \o file)
    /\ 1..cursor \subseteq Range(pending) \cup cloudLogs \cup dropped \cup missed

\* Every line the container writes reaches the cloud, unless the upload buffer
\* let it go, a restart lost it, the first tail did not reach back to it, or it
\* came with the timestamp of a line captured before: time and again nothing
\* else is outstanding. It holds for a container that is found running, with a
\* tail that fits, time and again, and while no line is one the cloud refuses.
LinesReachCloud ==
    []<>(up /\ TailFits) => []<>(1..emitted \subseteq cloudLogs \cup dropped \cup missed)
=============================================================================

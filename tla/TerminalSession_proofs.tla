----------------------- MODULE TerminalSession_proofs -----------------------
(***************************************************************************)
(* Proofs about TerminalSession, for any amount of output and any size of  *)
(* the queue: type correctness, one end per session, a handler that leaves *)
(* nothing behind, and an exit frame that follows all output of a shell    *)
(* that ended by itself.                                                   *)
(***************************************************************************)
EXTENDS TerminalSession, TLAPS

\* Every part of the invariant, with the counters it uses expanded.
USE DEF Chunks, Closers, HeldByReader, HeldByPump, QuietExitComplete
USE SessionAssumption

\* The session starts with nothing produced and nobody in closeSession.
LEMMA SessionInit == Init => TypeOK /\ SessionInv
<1> SUFFICES ASSUME Init PROVE TypeOK /\ SessionInv
  OBVIOUS
<1>1. TypeOK
  <2>1. 0 \in Chunks /\ 0 \in 0..QueueSize
    BY DEF Chunks
  <2> QED  BY <2>1, Zenon DEF Init, TypeOK
<1>2. CloseOnce /\ HandlerOrder /\ Conserved
  BY DEF Init, CloseOnce, HandlerOrder, Conserved
<1>3. QuietEnd /\ ExitLast /\ QuietExitComplete
  BY DEF Init, QuietEnd, ExitLast
<1> QED  BY <1>1, <1>2, <1>3 DEF SessionInv

-----------------------------------------------------------------------------
\* The shell and the reader move chunks towards the queue and touch nothing of
\* the close.
LEMMA ReaderPreserves ==
  ASSUME TypeOK, SessionInv, ShellWrites \/ ShellExits \/ ReaderStep
  PROVE  TypeOK' /\ SessionInv'
<1> USE DEF pty, flow, ending, closing, serving
<1>1. CASE ShellWrites
  BY <1>1 DEF ShellWrites, TypeOK, SessionInv, CloseOnce, HandlerOrder, Conserved,
              QuietEnd, ExitLast
<1>2. CASE ShellExits
  BY <1>2 DEF ShellExits, TypeOK, SessionInv, CloseOnce, HandlerOrder, Conserved,
              QuietEnd, ExitLast
<1>3. CASE ReadChunk
  BY <1>3 DEF ReadChunk, TypeOK, SessionInv, CloseOnce, HandlerOrder, Conserved,
              QuietEnd, ExitLast
<1>4. CASE ReadEnds
  BY <1>4 DEF ReadEnds, TypeOK, SessionInv, CloseOnce, HandlerOrder, Conserved,
              QuietEnd, ExitLast
<1>5. CASE QueueChunk
  BY <1>5 DEF QueueChunk, TypeOK, SessionInv, CloseOnce, HandlerOrder, Conserved,
              QuietEnd, ExitLast
<1>6. CASE ParkReader
  BY <1>6 DEF ParkReader, TypeOK, SessionInv, CloseOnce, HandlerOrder, Conserved,
              QuietEnd, ExitLast
<1>7. CASE AbandonChunk
  BY <1>7 DEF AbandonChunk, TypeOK, SessionInv, CloseOnce, HandlerOrder, Conserved,
              QuietEnd, ExitLast
<1> QED  BY <1>1, <1>2, <1>3, <1>4, <1>5, <1>6, <1>7 DEF ReaderStep

\* finish by the reaper closes s.done at most once, and without a close in
\* progress only after the reader or the grace period.
LEMMA ReaperPreserves ==
  ASSUME TypeOK, SessionInv, ReaperStep
  PROVE  TypeOK' /\ SessionInv'
<1> USE DEF pty, flow, ending, closing, serving
<1>1. CASE ReapWait
  BY <1>1 DEF ReapWait, TypeOK, SessionInv, CloseOnce, HandlerOrder,
              Conserved, QuietEnd, ExitLast
<1>2. CASE ReapDrained
  BY <1>2 DEF ReapDrained, FinishOnce, TypeOK, SessionInv, CloseOnce, HandlerOrder,
              Conserved, QuietEnd, ExitLast
<1>3. CASE ReapGrace
  BY <1>3 DEF ReapGrace, FinishOnce, TypeOK, SessionInv, CloseOnce, HandlerOrder,
              Conserved, QuietEnd, ExitLast
<1> QED  BY <1>1, <1>2, <1>3 DEF ReaperStep

\* closeSession, carried out by whoever came first, in any of its steps.
LEMMA ClosePreserves ==
  ASSUME TypeOK, SessionInv, CloseStep \/ CloseAll
  PROVE  TypeOK' /\ SessionInv'
<1> USE DEF pty, flow, ending, closing, serving
<1>1. CASE CloseSignal
  BY <1>1 DEF CloseSignal, TypeOK, SessionInv, CloseOnce, HandlerOrder,
              Conserved, QuietEnd, ExitLast
<1>2. CASE CloseWait
  BY <1>2 DEF CloseWait, TypeOK, SessionInv, CloseOnce, HandlerOrder,
              Conserved, QuietEnd, ExitLast
<1>3. CASE CloseFinish
  <2>1. done' \in BOOLEAN /\ ptyOpen' \in BOOLEAN
    BY <1>3, Zenon DEF CloseFinish, FinishOnce, TypeOK
  <2> QED  BY <1>3, <2>1 DEF CloseFinish, FinishOnce, TypeOK, SessionInv, CloseOnce,
                   HandlerOrder, Conserved, QuietEnd, ExitLast
<1>4. CASE CloseRelease
  <2>1. listed' \in BOOLEAN
    BY <1>4, Zenon DEF CloseRelease, TypeOK
  <2> QED  BY <1>4, <2>1 DEF CloseRelease, TypeOK, SessionInv, CloseOnce,
                   HandlerOrder, Conserved, QuietEnd, ExitLast
<1>5. CASE CloseRecord
  BY <1>5 DEF CloseRecord, TypeOK, SessionInv, CloseOnce, HandlerOrder,
              Conserved, QuietEnd, ExitLast
<1>6. CASE CloseAll
  BY <1>6 DEF CloseAll, Enter, TypeOK, SessionInv, CloseOnce, HandlerOrder,
              Conserved, QuietEnd, ExitLast
<1> QED  BY <1>1, <1>2, <1>3, <1>4, <1>5, <1>6 DEF CloseStep

\* The pump hands chunks on, closes, drains and sends the exit frame.
LEMMA PumpPreserves ==
  ASSUME TypeOK, SessionInv, PumpStep \/ PumpPing \/ PumpIdle
  PROVE  TypeOK' /\ SessionInv'
<1> USE DEF pty, flow, ending, closing, serving
<1>1. CASE PumpCheck
  <2>1. ctxDone' \in BOOLEAN
    BY <1>1, Zenon DEF PumpCheck, PumpOver, TypeOK
  <2> QED  BY <1>1, <2>1 DEF PumpCheck, PumpOver, TypeOK, SessionInv, CloseOnce,
                   HandlerOrder, Conserved, QuietEnd, ExitLast
<1>2. CASE PumpEnded
  <2>1. ctxDone' \in BOOLEAN
    BY <1>2, Zenon DEF PumpEnded, PumpOver, TypeOK
  <2> QED  BY <1>2, <2>1 DEF PumpEnded, PumpOver, TypeOK, SessionInv, CloseOnce,
                   HandlerOrder, Conserved, QuietEnd, ExitLast
<1>3. CASE PumpTakes
  BY <1>3 DEF PumpTakes, Take, TypeOK, SessionInv, CloseOnce, HandlerOrder,
              Conserved, QuietEnd, ExitLast
<1>4. CASE PumpWrites
  BY <1>4 DEF PumpWrites, TypeOK, SessionInv, CloseOnce, HandlerOrder,
              Conserved, QuietEnd, ExitLast
<1>5. CASE PumpCloses
  BY <1>5 DEF PumpCloses, Enter, TypeOK, SessionInv, CloseOnce, HandlerOrder,
              Conserved, QuietEnd, ExitLast
<1>6. CASE PumpClosed
  <2>1. ctxDone' \in BOOLEAN
    BY <1>6, Zenon DEF PumpClosed, PumpOver, Back, TypeOK
  <2> QED  BY <1>6, <2>1 DEF PumpClosed, PumpOver, Back, TypeOK, SessionInv, CloseOnce,
                   HandlerOrder, Conserved, QuietEnd, ExitLast
<1>7. CASE DrainTakes
  BY <1>7 DEF DrainTakes, Take, TypeOK, SessionInv, CloseOnce, HandlerOrder,
              Conserved, QuietEnd, ExitLast
<1>8. CASE DrainWrites
  <2>1. ctxDone' \in BOOLEAN
    BY <1>8, Zenon DEF DrainWrites, PumpOver, TypeOK
  <2> QED  BY <1>8, <2>1 DEF DrainWrites, PumpOver, TypeOK, SessionInv, CloseOnce,
                   HandlerOrder, Conserved, QuietEnd, ExitLast
<1>9. CASE DrainEmpty
  BY <1>9 DEF DrainEmpty, TypeOK, SessionInv, CloseOnce, HandlerOrder,
              Conserved, QuietEnd, ExitLast
<1>10. CASE ExitFrame
  BY <1>10 DEF ExitFrame, TypeOK, SessionInv, CloseOnce, HandlerOrder,
              Conserved, QuietEnd, ExitLast
<1>11. CASE Hangup
  BY <1>11 DEF Hangup, PumpOver, TypeOK, SessionInv, CloseOnce, HandlerOrder,
              Conserved, QuietEnd, ExitLast
<1>12. CASE PumpPing
  BY <1>12 DEF PumpPing, TypeOK, SessionInv, CloseOnce, HandlerOrder,
              Conserved, QuietEnd, ExitLast
<1>13. CASE PumpIdle
  BY <1>13 DEF PumpIdle, TypeOK, SessionInv, CloseOnce, HandlerOrder,
              Conserved, QuietEnd, ExitLast
<1> QED  BY <1>1, <1>2, <1>3, <1>4, <1>5, <1>6, <1>7, <1>8, <1>9, <1>10, <1>11, <1>12, <1>13 DEF PumpStep

\* The read loop and the rest of the handler, and what happens around it.
LEMMA MainPreserves ==
  ASSUME TypeOK, SessionInv, MainStep \/ InputFrame \/ InputTaken \/ BadFrame \/ DaemonStops \/ ConnLost
  PROVE  TypeOK' /\ SessionInv'
<1> USE DEF pty, flow, ending, closing, serving
<1>1. CASE Refuse
  BY <1>1 DEF Refuse, Enter, TypeOK, SessionInv, CloseOnce, HandlerOrder,
              Conserved, QuietEnd, ExitLast
<1>2. CASE RefuseBack
  BY <1>2 DEF RefuseBack, Back, TypeOK, SessionInv, CloseOnce, HandlerOrder,
              Conserved, QuietEnd, ExitLast
<1>3. CASE ReadFails
  BY <1>3 DEF ReadFails, TypeOK, SessionInv, CloseOnce, HandlerOrder,
              Conserved, QuietEnd, ExitLast
<1>4. CASE MainCloses
  BY <1>4 DEF MainCloses, Enter, TypeOK, SessionInv, CloseOnce, HandlerOrder,
              Conserved, QuietEnd, ExitLast
<1>5. CASE MainClosed
  BY <1>5 DEF MainClosed, Back, TypeOK, SessionInv, CloseOnce, HandlerOrder,
              Conserved, QuietEnd, ExitLast
<1>6. CASE MainReturns
  BY <1>6 DEF MainReturns, TypeOK, SessionInv, CloseOnce, HandlerOrder,
              Conserved, QuietEnd, ExitLast
<1>7. CASE BadFrame
  BY <1>7 DEF BadFrame, TypeOK, SessionInv, CloseOnce, HandlerOrder,
              Conserved, QuietEnd, ExitLast
<1>8. CASE DaemonStops
  BY <1>8 DEF DaemonStops, TypeOK, SessionInv, CloseOnce, HandlerOrder,
              Conserved, QuietEnd, ExitLast
<1>9. CASE ConnLost
  BY <1>9 DEF ConnLost, TypeOK, SessionInv, CloseOnce, HandlerOrder,
              Conserved, QuietEnd, ExitLast
<1>10. CASE InputFrame
  BY <1>10 DEF InputFrame, TypeOK, SessionInv, CloseOnce, HandlerOrder,
              Conserved, QuietEnd, ExitLast
<1>11. CASE InputTaken
  BY <1>11 DEF InputTaken, TypeOK, SessionInv, CloseOnce, HandlerOrder,
              Conserved, QuietEnd, ExitLast
<1>12. CASE InputFails
  BY <1>12 DEF InputFails, TypeOK, SessionInv, CloseOnce, HandlerOrder,
              Conserved, QuietEnd, ExitLast
<1> QED  BY <1>1, <1>2, <1>3, <1>4, <1>5, <1>6, <1>7, <1>8, <1>9, <1>10, <1>11, <1>12
         DEF MainStep

-----------------------------------------------------------------------------
\* Every step of every goroutine preserves the invariant.
LEMMA SessionStep == TypeOK /\ SessionInv /\ [Next]_vars => TypeOK' /\ SessionInv'
<1> SUFFICES ASSUME TypeOK, SessionInv, [Next]_vars PROVE TypeOK' /\ SessionInv'
  OBVIOUS
<1>1. CASE UNCHANGED vars
  BY <1>1 DEF vars, pty, flow, ending, closing, serving, TypeOK, SessionInv, CloseOnce,
              HandlerOrder, Conserved, QuietEnd, ExitLast
<1>2. CASE Next
  BY <1>2, ReaderPreserves, ReaperPreserves, ClosePreserves, PumpPreserves,
     MainPreserves DEF Next
<1> QED  BY <1>1, <1>2

\* TypeOK and the invariant hold in every reachable state.
THEOREM SessionCorrect == Spec => [](TypeOK /\ SessionInv)
  BY SessionInit, SessionStep, PTL DEF Spec

\* EndsOnce: however the pump, the handler, CloseAll and the reaper race,
\* close(s.done) runs once and the session is recorded once.
THEOREM EndsExactlyOnce == Spec => []EndsOnce
<1>1. TypeOK /\ SessionInv => EndsOnce
  BY DEF TypeOK, SessionInv, CloseOnce, EndsOnce
<1> QED  BY <1>1, SessionCorrect, PTL

\* HandlerLeavesNothing: a handler that has returned left no pump behind, and
\* the session is out of the manager's map or being taken out by another caller.
THEOREM HandlerCleansUp == Spec => []HandlerLeavesNothing
<1>1. TypeOK /\ SessionInv => HandlerLeavesNothing
  BY DEF TypeOK, SessionInv, CloseOnce, HandlerOrder, HandlerLeavesNothing
<1> QED  BY <1>1, SessionCorrect, PTL

\* QuietExitComplete: the exit frame of a shell that ended by itself, within the
\* drain grace, comes after everything the shell wrote, however much that was and
\* however small the queue.
THEOREM ExitAfterAllOutput == Spec => []QuietExitComplete
<1>1. TypeOK /\ SessionInv => QuietExitComplete
  BY DEF SessionInv
<1> QED  BY <1>1, SessionCorrect, PTL
=============================================================================

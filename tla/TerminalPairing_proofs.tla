----------------------- MODULE TerminalPairing_proofs -----------------------
(***************************************************************************)
(* Proofs about TerminalPairing, for any sets of handlers and any limits.  *)
(* PairingInv is inductive; the safety properties follow from it.          *)
(***************************************************************************)
EXTENDS TerminalPairing, TLAPS

\* What every statement of the store keeps: the row's type, a cleared ticket
\* stays cleared, and only a pending or an offered row is offered.
RowStep(r, s) ==
    /\ s \in Row
    /\ r.ticket = "" => s.ticket = ""
    /\ r.status \notin {"pending", "offered"}
         => s.status \notin {"pending", "offered"}

\* Ages stay ages.
LEMMA AgeFacts ==
    /\ 0 \in Time /\ 0 \in Ages /\ NoTime \in Ages
    /\ \A a \in Time : Older(a) \in Time
    /\ \A a \in Ages : Older(a) \in Ages
BY StoreAssumption DEF Older, Ages, NoTime, Time

\* Each SQL statement of the terminal store is such a step.
LEMMA StatementsStep ==
    ASSUME NEW r \in Row
    PROVE  /\ RowStep(r, r)
           /\ RowStep(r, ConsumeTicket(r)) /\ ConsumeTicket(r).ticket = ""
           /\ RowStep(r, ReclaimLease(r))
           /\ RowStep(r, LeaseRow(r))
           /\ RowStep(r, AttachRow(r))
           /\ AttachRow(r).status \notin {"pending", "offered"}
           /\ RowStep(r, FinishRow(r, "closed"))
           /\ RowStep(r, FinishRow(r, "failed"))
           /\ RowStep(r, RevokeRow(r))
           /\ RowStep(r, SweepRow(r))
           /\ RowStep(r, AgeRow(r))
<1> USE AgeFacts DEF RowStep, Row, Live, Ended, Gone
<1>1. RowStep(r, r)
  OBVIOUS
<1>2. RowStep(r, ConsumeTicket(r)) /\ ConsumeTicket(r).ticket = ""
  BY DEF ConsumeTicket
<1>3. RowStep(r, ReclaimLease(r)) /\ RowStep(r, LeaseRow(r))
  BY DEF ReclaimLease, LeaseRow
<1>4. /\ RowStep(r, AttachRow(r))
      /\ AttachRow(r).status \notin {"pending", "offered"}
  BY DEF AttachRow
<1>5. /\ RowStep(r, FinishRow(r, "closed"))
      /\ RowStep(r, FinishRow(r, "failed"))
      /\ RowStep(r, RevokeRow(r))
  BY DEF FinishRow, RevokeRow
<1>6. RowStep(r, SweepRow(r))
  BY DEF SweepRow
<1>7. RowStep(r, AgeRow(r))
  BY DEF AgeRow
<1> QED BY <1>1, <1>2, <1>3, <1>4, <1>5, <1>6, <1>7

-----------------------------------------------------------------------------
\* Type correctness, and every handler within its own program.

\* Nothing has happened yet: every variable has its type and every handler is idle.
LEMMA TypeInit == Init => TypeOK /\ ProgramOK
<1> USE HandlersAssumption, AgeFacts
<1>1. NewRow \in Row
  BY DEF NewRow, Row, Live
<1>2. Init => TypeOK
  BY <1>1 DEF Init, TypeOK, EmptyPair, PairObject, SocketPCs
<1>3. Init => ProgramOK
  BY DEF Init, ProgramOK, SocketPCs, RevokerPCs, Holding, Sockets, Handlers
<1> QED BY <1>2, <1>3

\* Every handler, sweep, restart and client step keeps the types and each handler in its own program.
LEMMA TypeStep ==
    TypeOK /\ ProgramOK /\ [Next]_vars => TypeOK' /\ ProgramOK'
<1> SUFFICES ASSUME TypeOK, ProgramOK, [Next]_vars
             PROVE  TypeOK' /\ ProgramOK'
  OBVIOUS
<1> USE HandlersAssumption DEF Sockets, Handlers
<1>0. /\ RowStep(row, row) /\ RowStep(row, ConsumeTicket(row))
      /\ RowStep(row, ReclaimLease(row)) /\ RowStep(row, LeaseRow(row))
      /\ RowStep(row, AttachRow(row)) /\ RowStep(row, RevokeRow(row))
      /\ RowStep(row, FinishRow(row, "closed"))
      /\ RowStep(row, FinishRow(row, "failed"))
      /\ RowStep(row, SweepRow(row)) /\ RowStep(row, AgeRow(row))
  BY StatementsStep DEF TypeOK
<1>1. ASSUME NEW h \in Sockets, BrowserRead(h) PROVE TypeOK' /\ ProgramOK'
  BY <1>0, <1>1 DEF BrowserRead, Goto, TypeOK, ProgramOK, SocketPCs, RevokerPCs,
     Holding, RowStep
<1>2. ASSUME NEW h \in Sockets, BrowserConsume(h) PROVE TypeOK' /\ ProgramOK'
  <2>1. pc' \in [Handlers -> SocketPCs \cup RevokerPCs]
    BY <1>2 DEF BrowserConsume, Goto, TypeOK, SocketPCs
  <2>2. TypeOK'
    BY <1>0, <1>2, <2>1 DEF BrowserConsume, Goto, TypeOK, ProgramOK, SocketPCs, Holding,
       RowStep
  <2>3. ProgramOK'
    BY <1>0, <1>2 DEF BrowserConsume, Goto, TypeOK, ProgramOK, SocketPCs,
       RevokerPCs, Holding
  <2> QED BY <2>2, <2>3
<1>3. ASSUME NEW h \in Sockets, AgentRead(h) PROVE TypeOK' /\ ProgramOK'
  BY <1>0, <1>3 DEF AgentRead, Goto, TypeOK, ProgramOK, SocketPCs, RevokerPCs,
     Holding, RowStep
<1>4. ASSUME NEW h \in Sockets, AgentAttach(h) PROVE TypeOK' /\ ProgramOK'
  BY <1>0, <1>4 DEF AgentAttach, Goto, TypeOK, ProgramOK, SocketPCs, RevokerPCs,
     Holding, RowStep
<1>5. ASSUME NEW h \in Sockets, Accept(h) PROVE TypeOK' /\ ProgramOK'
  <2>1. /\ pc' \in [Handlers -> SocketPCs \cup RevokerPCs]
        /\ sock' \in [Sockets -> {"none", "open", "closed"}]
    BY <1>5 DEF Accept, Goto, TypeOK, SocketPCs
  <2>2. TypeOK'
    BY <1>5, <2>1 DEF Accept, TypeOK
  <2>3. ProgramOK'
    BY <1>5 DEF Accept, Goto, TypeOK, ProgramOK, SocketPCs, RevokerPCs, Holding
  <2> QED BY <2>2, <2>3
<1>6. ASSUME NEW h \in Sockets, RegisterLookup(h) PROVE TypeOK' /\ ProgramOK'
  BY <1>0, <1>6 DEF RegisterLookup, Goto, TypeOK, ProgramOK, SocketPCs, RevokerPCs,
     Holding, RowStep
<1>7. ASSUME NEW h \in Sockets, RegisterSlot(h) PROVE TypeOK' /\ ProgramOK'
  <2>1. at[h] \in Sockets
    BY <1>7 DEF RegisterSlot, TypeOK, ProgramOK, Holding
  <2>2. pair' \in [Sockets -> PairObject]
    BY <1>7, <2>1 DEF RegisterSlot, TypeOK, PairObject
  <2>3. pc' \in [Handlers -> SocketPCs \cup RevokerPCs]
    BY <1>7 DEF RegisterSlot, Goto, TypeOK, SocketPCs
  <2>4. TypeOK'
    BY <1>0, <1>7, <2>1, <2>2, <2>3 DEF RegisterSlot, Goto, TypeOK, ProgramOK, SocketPCs, Holding,
       RowStep
  <2>5. ProgramOK'
    BY <1>0, <1>7, <2>1, <2>2 DEF RegisterSlot, Goto, TypeOK, ProgramOK, SocketPCs,
       RevokerPCs, Holding
  <2> QED BY <2>4, <2>5
<1>8. ASSUME NEW h \in Sockets, WaitReady(h) PROVE TypeOK' /\ ProgramOK'
  BY <1>0, <1>8 DEF WaitReady, Goto, TypeOK, ProgramOK, SocketPCs, RevokerPCs,
     Holding, RowStep
<1>9. ASSUME NEW h \in Sockets, WaitTimeout(h) PROVE TypeOK' /\ ProgramOK'
  BY <1>0, <1>9 DEF WaitTimeout, Goto, TypeOK, ProgramOK, SocketPCs, RevokerPCs,
     Holding, RowStep
<1>10. ASSUME NEW h \in Sockets, PumpStart(h) PROVE TypeOK' /\ ProgramOK'
  BY <1>0, <1>10 DEF PumpStart, Goto, TypeOK, ProgramOK, SocketPCs, RevokerPCs,
     Holding, RowStep
<1>11. ASSUME NEW h \in Sockets, PumpReadError(h) PROVE TypeOK' /\ ProgramOK'
  <2>1. at[h] \in Sockets
    BY <1>11 DEF PumpReadError, TypeOK, ProgramOK, Holding
  <2>2. pair' \in [Sockets -> PairObject]
    BY <1>11, <2>1 DEF PumpReadError, TypeOK, PairObject, PumpExit
  <2>3. TypeOK'
    BY <1>0, <1>11, <2>1, <2>2 DEF PumpReadError, Goto, TypeOK, ProgramOK, SocketPCs, Holding,
       RowStep, PumpExit, ShutdownSockets
  <2>4. ProgramOK'
    BY <1>0, <1>11, <2>1, <2>2 DEF PumpReadError, Goto, TypeOK, ProgramOK, SocketPCs,
       RevokerPCs, Holding, PumpExit, ShutdownSockets
  <2> QED BY <2>3, <2>4
<1>12. ASSUME NEW h \in Sockets, PumpWriteError(h) PROVE TypeOK' /\ ProgramOK'
  <2>1. at[h] \in Sockets
    BY <1>12 DEF PumpWriteError, TypeOK, ProgramOK, Holding
  <2>2. pair' \in [Sockets -> PairObject]
    BY <1>12, <2>1 DEF PumpWriteError, TypeOK, PairObject, PumpExit
  <2>3. TypeOK'
    BY <1>0, <1>12, <2>1, <2>2 DEF PumpWriteError, Goto, TypeOK, ProgramOK, SocketPCs, Holding,
       RowStep, PumpExit, ShutdownSockets
  <2>4. ProgramOK'
    BY <1>0, <1>12, <2>1, <2>2 DEF PumpWriteError, Goto, TypeOK, ProgramOK, SocketPCs,
       RevokerPCs, Holding, PumpExit, ShutdownSockets
  <2> QED BY <2>3, <2>4
<1>13. ASSUME NEW h \in Sockets, FinishOnce(h) PROVE TypeOK' /\ ProgramOK'
  <2>1. at[h] \in Sockets
    BY <1>13 DEF FinishOnce, TypeOK, ProgramOK, Holding
  <2>2. pair' \in [Sockets -> PairObject]
    BY <1>13, <2>1 DEF FinishOnce, TypeOK, PairObject
  <2>3. pc' \in [Handlers -> SocketPCs \cup RevokerPCs]
    BY <1>13 DEF FinishOnce, Goto, TypeOK, SocketPCs
  <2>4. TypeOK'
    BY <1>0, <1>13, <2>1, <2>2, <2>3 DEF FinishOnce, Goto, TypeOK, ProgramOK, SocketPCs, Holding,
       RowStep
  <2>5. ProgramOK'
    BY <1>0, <1>13, <2>1, <2>2 DEF FinishOnce, Goto, TypeOK, ProgramOK, SocketPCs,
       RevokerPCs, Holding
  <2> QED BY <2>4, <2>5
<1>14. ASSUME NEW h \in Sockets, FinishRecord(h) PROVE TypeOK' /\ ProgramOK'
  <2>1. at[h] \in Sockets
    BY <1>14 DEF FinishRecord, TypeOK, ProgramOK, Holding
  <2>2. pair' \in [Sockets -> PairObject]
    BY <1>14, <2>1 DEF FinishRecord, TypeOK, PairObject
  <2>3. TypeOK'
    BY <1>0, <1>14, <2>1, <2>2 DEF FinishRecord, Goto, TypeOK, ProgramOK, SocketPCs, Holding,
       RowStep
  <2>4. ProgramOK'
    BY <1>0, <1>14, <2>1, <2>2 DEF FinishRecord, Goto, TypeOK, ProgramOK, SocketPCs,
       RevokerPCs, Holding
  <2> QED BY <2>3, <2>4
<1>15. ASSUME NEW h \in Sockets, Release(h) PROVE TypeOK' /\ ProgramOK'
  BY <1>0, <1>15 DEF Release, Goto, TypeOK, ProgramOK, SocketPCs, RevokerPCs,
     Holding, RowStep
<1>16. ASSUME NEW h \in Revokers, RevokeRead(h) PROVE TypeOK' /\ ProgramOK'
  BY <1>0, <1>16 DEF RevokeRead, Goto, TypeOK, ProgramOK, SocketPCs, RevokerPCs,
     Holding, RowStep
<1>17. ASSUME NEW h \in Revokers, RevokeUpdate(h) PROVE TypeOK' /\ ProgramOK'
  BY <1>0, <1>17 DEF RevokeUpdate, Goto, TypeOK, ProgramOK, SocketPCs, RevokerPCs,
     Holding, RowStep
<1>18. ASSUME NEW h \in Revokers, RevokeLookup(h) PROVE TypeOK' /\ ProgramOK'
  BY <1>0, <1>18 DEF RevokeLookup, Goto, TypeOK, ProgramOK, SocketPCs, RevokerPCs,
     Holding, RowStep
<1>19. ASSUME NEW h \in Revokers, RevokeShutdown(h) PROVE TypeOK' /\ ProgramOK'
  <2>1. at[h] \in Sockets
    BY <1>19 DEF RevokeShutdown, TypeOK, ProgramOK
  <2>2. pair' \in [Sockets -> PairObject]
    BY <1>19, <2>1 DEF RevokeShutdown, TypeOK, PairObject
  <2>3. TypeOK'
    BY <1>0, <1>19, <2>1, <2>2 DEF RevokeShutdown, Goto, TypeOK, ProgramOK, SocketPCs, Holding,
       RowStep, ShutdownSockets
  <2>4. ProgramOK'
    BY <1>0, <1>19, <2>1, <2>2 DEF RevokeShutdown, Goto, TypeOK, ProgramOK, SocketPCs,
       RevokerPCs, Holding, ShutdownSockets
  <2> QED BY <2>3, <2>4
<1>20. ASSUME NEW h \in Sockets, ClientLeaves(h) PROVE TypeOK' /\ ProgramOK'
  BY <1>0, <1>20 DEF ClientLeaves, Goto, TypeOK, ProgramOK, SocketPCs, RevokerPCs,
     Holding, RowStep
<1>21. CASE Reclaim
  BY <1>0, <1>21 DEF Reclaim, Goto, TypeOK, ProgramOK, SocketPCs, RevokerPCs,
     Holding, RowStep
<1>22. CASE Lease
  BY <1>0, <1>22 DEF Lease, Goto, TypeOK, ProgramOK, SocketPCs, RevokerPCs,
     Holding, RowStep
<1>23. CASE Sweep
  BY <1>0, <1>23 DEF Sweep, Goto, TypeOK, ProgramOK, SocketPCs, RevokerPCs,
     Holding, RowStep
<1>24. CASE Tick
  BY <1>0, <1>24 DEF Tick, Goto, TypeOK, ProgramOK, SocketPCs, RevokerPCs,
     Holding, RowStep
<1>25. CASE Restart
  BY <1>0, <1>25 DEF Restart, Goto, TypeOK, ProgramOK, SocketPCs, RevokerPCs,
     Holding, RowStep
<1>26. CASE UNCHANGED vars
  BY <1>26 DEF vars, TypeOK, ProgramOK
<1> QED
  BY <1>1, <1>2, <1>3, <1>4, <1>5, <1>6, <1>7, <1>8, <1>9, <1>10, <1>11,
     <1>12, <1>13, <1>14, <1>15, <1>16, <1>17, <1>18, <1>19, <1>20, <1>21,
     <1>22, <1>23, <1>24, <1>25, <1>26
     DEF Next, SocketStep, RevokerStep

-----------------------------------------------------------------------------
\* The ticket. Only BrowserConsume admits a browser, and it clears the hash.

\* No step of any handler lets two browsers past AuthenticateTerminalTicket.
LEMMA TicketStep ==
    TypeOK /\ ProgramOK /\ TicketSpent /\ TicketSingleUse /\ [Next]_vars
        => TicketSpent' /\ TicketSingleUse'
<1> SUFFICES ASSUME TypeOK, ProgramOK, TicketSpent, TicketSingleUse,
                    [Next]_vars
             PROVE  TicketSpent' /\ TicketSingleUse'
  OBVIOUS
<1> USE HandlersAssumption DEF Sockets, Handlers
<1> DEFINE Quiet == /\ row.ticket = "" => row'.ticket = ""
                    /\ \A b \in Browsers : Admitted(b)' => Admitted(b)
<1>0. /\ RowStep(row, row) /\ RowStep(row, ConsumeTicket(row))
      /\ RowStep(row, ReclaimLease(row)) /\ RowStep(row, LeaseRow(row))
      /\ RowStep(row, AttachRow(row)) /\ RowStep(row, RevokeRow(row))
      /\ RowStep(row, FinishRow(row, "closed"))
      /\ RowStep(row, FinishRow(row, "failed"))
      /\ RowStep(row, SweepRow(row)) /\ RowStep(row, AgeRow(row))
      /\ ConsumeTicket(row).ticket = ""
  BY StatementsStep DEF TypeOK
<1>1. ASSUME Quiet PROVE TicketSpent' /\ TicketSingleUse'
  BY <1>1 DEF TicketSpent, TicketSingleUse
<1>2. ASSUME NEW h \in Sockets, BrowserConsume(h)
      PROVE  TicketSpent' /\ TicketSingleUse'
  <2>1. CASE TicketUnconsumed(row)
    <3>1. \A b \in Browsers : ~Admitted(b)
      BY <2>1 DEF TicketSpent, TicketUnconsumed
    <3>2. row'.ticket = "" /\ pc' = [pc EXCEPT ![h] = "accept"]
      BY <1>0, <1>2, <2>1 DEF BrowserConsume, Goto
    <3> QED BY <3>1, <3>2 DEF TicketSpent, TicketSingleUse, Admitted, TypeOK
  <2>2. CASE ~TicketUnconsumed(row)
    <3>1. Quiet
      BY <1>2, <2>2 DEF BrowserConsume, Goto, Admitted, TypeOK
    <3> QED BY <1>1, <3>1
  <2> QED BY <2>1, <2>2
<1>3. ASSUME NEW h \in Sockets, BrowserRead(h) PROVE Quiet
  BY <1>0, <1>3 DEF BrowserRead, Goto, Admitted, TypeOK, ProgramOK, RowStep
<1>4. ASSUME NEW h \in Sockets, AgentRead(h) PROVE Quiet
  BY <1>0, <1>4 DEF AgentRead, Goto, Admitted, TypeOK, ProgramOK, RowStep
<1>5. ASSUME NEW h \in Sockets, AgentAttach(h) PROVE Quiet
  BY <1>0, <1>5 DEF AgentAttach, Goto, Admitted, TypeOK, ProgramOK, RowStep
<1>6. ASSUME NEW h \in Sockets, Accept(h) PROVE Quiet
  BY <1>0, <1>6 DEF Accept, Goto, Admitted, TypeOK, ProgramOK, RowStep
<1>7. ASSUME NEW h \in Sockets, RegisterLookup(h) PROVE Quiet
  BY <1>0, <1>7 DEF RegisterLookup, Goto, Admitted, TypeOK, ProgramOK, RowStep
<1>8. ASSUME NEW h \in Sockets, RegisterSlot(h) PROVE Quiet
  BY <1>0, <1>8 DEF RegisterSlot, Goto, Admitted, TypeOK, ProgramOK, RowStep
<1>9. ASSUME NEW h \in Sockets, WaitReady(h) PROVE Quiet
  BY <1>0, <1>9 DEF WaitReady, Goto, Admitted, TypeOK, ProgramOK, RowStep
<1>10. ASSUME NEW h \in Sockets, WaitTimeout(h) PROVE Quiet
  BY <1>0, <1>10 DEF WaitTimeout, Goto, Admitted, TypeOK, ProgramOK, RowStep, SocketPCs
<1>11. ASSUME NEW h \in Sockets, PumpStart(h) PROVE Quiet
  BY <1>0, <1>11 DEF PumpStart, Goto, Admitted, TypeOK, ProgramOK, RowStep
<1>12. ASSUME NEW h \in Sockets, PumpReadError(h) PROVE Quiet
  BY <1>0, <1>12 DEF PumpReadError, Goto, Admitted, TypeOK, ProgramOK, RowStep, PumpExit
<1>13. ASSUME NEW h \in Sockets, PumpWriteError(h) PROVE Quiet
  BY <1>0, <1>13 DEF PumpWriteError, Goto, Admitted, TypeOK, ProgramOK, RowStep, PumpExit
<1>14. ASSUME NEW h \in Sockets, FinishOnce(h) PROVE Quiet
  BY <1>0, <1>14 DEF FinishOnce, Goto, Admitted, TypeOK, ProgramOK, RowStep
<1>15. ASSUME NEW h \in Sockets, FinishRecord(h) PROVE Quiet
  BY <1>0, <1>15 DEF FinishRecord, Goto, Admitted, TypeOK, ProgramOK, RowStep, SocketPCs
<1>16. ASSUME NEW h \in Sockets, Release(h) PROVE Quiet
  BY <1>0, <1>16 DEF Release, Goto, Admitted, TypeOK, ProgramOK, RowStep
<1>17. ASSUME NEW h \in Revokers, RevokeRead(h) PROVE Quiet
  BY <1>0, <1>17 DEF RevokeRead, Goto, Admitted, TypeOK, ProgramOK, RowStep
<1>18. ASSUME NEW h \in Revokers, RevokeUpdate(h) PROVE Quiet
  BY <1>0, <1>18 DEF RevokeUpdate, Goto, Admitted, TypeOK, ProgramOK, RowStep
<1>19. ASSUME NEW h \in Revokers, RevokeLookup(h) PROVE Quiet
  BY <1>0, <1>19 DEF RevokeLookup, Goto, Admitted, TypeOK, ProgramOK, RowStep
<1>20. ASSUME NEW h \in Revokers, RevokeShutdown(h) PROVE Quiet
  BY <1>0, <1>20 DEF RevokeShutdown, Goto, Admitted, TypeOK, ProgramOK, RowStep
<1>21. ASSUME NEW h \in Sockets, ClientLeaves(h) PROVE Quiet
  BY <1>0, <1>21 DEF ClientLeaves, Goto, Admitted, TypeOK, ProgramOK, RowStep
<1>22. ASSUME Reclaim PROVE Quiet
  BY <1>0, <1>22 DEF Reclaim, Admitted, TypeOK, RowStep
<1>23. ASSUME Lease PROVE Quiet
  BY <1>0, <1>23 DEF Lease, Admitted, TypeOK, RowStep
<1>24. ASSUME Sweep PROVE Quiet
  BY <1>0, <1>24 DEF Sweep, Admitted, TypeOK, RowStep
<1>25. ASSUME Tick PROVE Quiet
  BY <1>0, <1>25 DEF Tick, Admitted, TypeOK, RowStep
<1>26. ASSUME Restart PROVE Quiet
  BY <1>0, <1>26 DEF Restart, Admitted, TypeOK, RowStep
<1>27. ASSUME UNCHANGED vars PROVE Quiet
  BY <1>27 DEF vars, Admitted
<1> HIDE DEF Quiet
<1> QED
  BY <1>1, <1>2, <1>3, <1>4, <1>5, <1>6, <1>7, <1>8, <1>9, <1>10, <1>11,
     <1>12, <1>13, <1>14, <1>15, <1>16, <1>17, <1>18, <1>19, <1>20,
     <1>21, <1>22, <1>23, <1>24, <1>25, <1>26, <1>27
     DEF Next, SocketStep, RevokerStep

\* The offer. An agent that is let in finds or leaves the row active, and no
\* statement turns such a row into a pending or an offered one.
LEMMA AttachedStep ==
    TypeOK /\ ProgramOK /\ AttachedNotReoffered /\ [Next]_vars
        => AttachedNotReoffered'
<1> SUFFICES ASSUME TypeOK, ProgramOK, AttachedNotReoffered, [Next]_vars
             PROVE  AttachedNotReoffered'
  OBVIOUS
<1> USE HandlersAssumption DEF Sockets, Handlers
<1> DEFINE Out == {"idle", "attach", "denied"}
           Quiet == /\ row.status \notin {"pending", "offered"}
                         => row'.status \notin {"pending", "offered"}
                    /\ \A a \in Agents : pc'[a] \notin Out => pc[a] \notin Out
<1>0. /\ RowStep(row, row) /\ RowStep(row, ConsumeTicket(row))
      /\ RowStep(row, ReclaimLease(row)) /\ RowStep(row, LeaseRow(row))
      /\ RowStep(row, AttachRow(row)) /\ RowStep(row, RevokeRow(row))
      /\ RowStep(row, FinishRow(row, "closed"))
      /\ RowStep(row, FinishRow(row, "failed"))
      /\ RowStep(row, SweepRow(row)) /\ RowStep(row, AgeRow(row))
      /\ AttachRow(row).status \notin {"pending", "offered"}
  BY StatementsStep DEF TypeOK
<1>1. ASSUME Quiet PROVE AttachedNotReoffered'
  BY <1>1 DEF AttachedNotReoffered
<1>2. ASSUME NEW h \in Sockets, AgentAttach(h) PROVE AttachedNotReoffered'
  BY <1>0, <1>2 DEF AgentAttach, AttachedNotReoffered
<1>3. ASSUME NEW h \in Sockets, AgentRead(h) PROVE AttachedNotReoffered'
  <2>1. CASE AttachAllowed(row) /\ ~NeedsAttach(row)
    BY <1>3, <2>1 DEF AgentRead, NeedsAttach, AttachedNotReoffered
  <2>2. CASE ~(AttachAllowed(row) /\ ~NeedsAttach(row))
    BY <1>1, <1>3, <2>2 DEF AgentRead, Goto, TypeOK
  <2> QED BY <2>1, <2>2
<1>4. ASSUME NEW h \in Sockets, BrowserConsume(h) PROVE Quiet
  BY <1>0, <1>4 DEF BrowserConsume, Goto, TypeOK, ProgramOK, RowStep
<1>5. ASSUME NEW h \in Sockets, BrowserRead(h) PROVE Quiet
  BY <1>0, <1>5 DEF BrowserRead, Goto, TypeOK, ProgramOK, RowStep
<1>6. ASSUME NEW h \in Sockets, Accept(h) PROVE Quiet
  BY <1>0, <1>6 DEF Accept, Goto, TypeOK, ProgramOK, RowStep
<1>7. ASSUME NEW h \in Sockets, RegisterLookup(h) PROVE Quiet
  BY <1>0, <1>7 DEF RegisterLookup, Goto, TypeOK, ProgramOK, RowStep
<1>8. ASSUME NEW h \in Sockets, RegisterSlot(h) PROVE Quiet
  BY <1>0, <1>8 DEF RegisterSlot, Goto, TypeOK, ProgramOK, RowStep
<1>9. ASSUME NEW h \in Sockets, WaitReady(h) PROVE Quiet
  BY <1>0, <1>9 DEF WaitReady, Goto, TypeOK, ProgramOK, RowStep
<1>10. ASSUME NEW h \in Sockets, WaitTimeout(h) PROVE Quiet
  BY <1>0, <1>10 DEF WaitTimeout, Goto, TypeOK, ProgramOK, RowStep
<1>11. ASSUME NEW h \in Sockets, PumpStart(h) PROVE Quiet
  BY <1>0, <1>11 DEF PumpStart, Goto, TypeOK, ProgramOK, RowStep
<1>12. ASSUME NEW h \in Sockets, PumpReadError(h) PROVE Quiet
  BY <1>0, <1>12 DEF PumpReadError, Goto, TypeOK, ProgramOK, RowStep, PumpExit
<1>13. ASSUME NEW h \in Sockets, PumpWriteError(h) PROVE Quiet
  BY <1>0, <1>13 DEF PumpWriteError, Goto, TypeOK, ProgramOK, RowStep, PumpExit
<1>14. ASSUME NEW h \in Sockets, FinishOnce(h) PROVE Quiet
  BY <1>0, <1>14 DEF FinishOnce, Goto, TypeOK, ProgramOK, RowStep
<1>15. ASSUME NEW h \in Sockets, FinishRecord(h) PROVE Quiet
  BY <1>0, <1>15 DEF FinishRecord, Goto, TypeOK, ProgramOK, RowStep
<1>16. ASSUME NEW h \in Sockets, Release(h) PROVE Quiet
  BY <1>0, <1>16 DEF Release, Goto, TypeOK, ProgramOK, RowStep
<1>17. ASSUME NEW h \in Revokers, RevokeRead(h) PROVE Quiet
  BY <1>0, <1>17 DEF RevokeRead, Goto, TypeOK, ProgramOK, RowStep
<1>18. ASSUME NEW h \in Revokers, RevokeUpdate(h) PROVE Quiet
  BY <1>0, <1>18 DEF RevokeUpdate, Goto, TypeOK, ProgramOK, RowStep
<1>19. ASSUME NEW h \in Revokers, RevokeLookup(h) PROVE Quiet
  BY <1>0, <1>19 DEF RevokeLookup, Goto, TypeOK, ProgramOK, RowStep
<1>20. ASSUME NEW h \in Revokers, RevokeShutdown(h) PROVE Quiet
  BY <1>0, <1>20 DEF RevokeShutdown, Goto, TypeOK, ProgramOK, RowStep
<1>21. ASSUME NEW h \in Sockets, ClientLeaves(h) PROVE Quiet
  BY <1>0, <1>21 DEF ClientLeaves, Goto, TypeOK, ProgramOK, RowStep
<1>22. ASSUME Reclaim PROVE Quiet
  BY <1>0, <1>22 DEF Reclaim, TypeOK, RowStep
<1>23. ASSUME Lease PROVE Quiet
  BY <1>0, <1>23 DEF Lease, TypeOK, RowStep
<1>24. ASSUME Sweep PROVE Quiet
  BY <1>0, <1>24 DEF Sweep, TypeOK, RowStep
<1>25. ASSUME Tick PROVE Quiet
  BY <1>0, <1>25 DEF Tick, TypeOK, RowStep
<1>26. ASSUME Restart PROVE Quiet
  BY <1>0, <1>26 DEF Restart, TypeOK, RowStep
<1>27. ASSUME UNCHANGED vars PROVE Quiet
  BY <1>27 DEF vars
<1> HIDE DEF Quiet
<1> QED
  BY <1>1, <1>2, <1>3, <1>4, <1>5, <1>6, <1>7, <1>8, <1>9, <1>10, <1>11,
     <1>12, <1>13, <1>14, <1>15, <1>16, <1>17, <1>18, <1>19, <1>20,
     <1>21, <1>22, <1>23, <1>24, <1>25, <1>26, <1>27
     DEF Next, SocketStep, RevokerStep

-----------------------------------------------------------------------------
\* The registry. What a step does to it depends only on which of a few kinds
\* the step is: it touches no socket's handler, it moves one that has not been
\* to the registry, it moves one that holds a slot, or it is one of the steps
\* that change the registry itself.

RegistryInv ==
    SlotOwned /\ SlotFilled /\ PairFresh /\ RegisteredHeld /\ UnregisteredLeft
    /\ RegistryNotLeaked

SameSlots ==
    \A p \in Sockets : /\ pair'[p].browser = pair[p].browser
                       /\ pair'[p].agent = pair[p].agent

Aside ==
    /\ SameSlots /\ pairs' = pairs
    /\ \A h \in Sockets : pc'[h] = pc[h] /\ at'[h] = at[h]

MovesEarly(h) ==
    /\ pc[h] \in NotRegistered
    /\ \E w \in NotRegistered \cup {"done", "denied"} : Goto(h, w)
    /\ SameSlots /\ pairs' = pairs /\ at' = at

MovesHolding(h) ==
    /\ pc[h] \in Holding
    /\ \E w \in Holding : Goto(h, w) /\ (w \in {"paired", "pump"} => Ready(at[h]))
    /\ SameSlots /\ pairs' = pairs /\ at' = at

\* The registry starts empty, with no handler registered.
LEMMA RegistryInit == Init => RegistryInv
BY HandlersAssumption
   DEF Init, RegistryInv, SlotOwned, SlotFilled, InPair, PairFresh,
       RegisteredHeld, EmptyPair, UnregisteredLeft, RegistryNotLeaked, Holding, NotRegistered, Sockets,
       Handlers

\* A step that touches neither the registry nor a program counter keeps the registry facts.
LEMMA AsideStep ==
    ASSUME TypeOK, ProgramOK, RegistryInv, Aside
    PROVE  RegistryInv'
<1> USE HandlersAssumption DEF Sockets, Handlers
<1>1. SlotOwned'
  BY DEF TypeOK, ProgramOK, RegistryInv, SlotOwned, Ready, Aside, SameSlots, Holding
<1>2. PairFresh'
  BY DEF TypeOK, RegistryInv, PairFresh, Aside, SameSlots
<1>3. RegisteredHeld'
  BY DEF TypeOK, ProgramOK, RegistryInv, RegisteredHeld, SameSlots,
     Aside, InPair, PairObject
<1>4. UnregisteredLeft'
  BY DEF TypeOK, ProgramOK, RegistryInv, UnregisteredLeft, SameSlots,
     Aside, InPair, PairObject
<1>5. RegistryNotLeaked'
  BY DEF TypeOK, RegistryInv, RegistryNotLeaked, Aside
<1>6. SlotFilled'
  BY DEF TypeOK, ProgramOK, RegistryInv, SlotFilled, SameSlots, Aside, InPair,
     PairObject, Holding
<1> QED BY <1>1, <1>2, <1>3, <1>4, <1>5, <1>6 DEF RegistryInv

\* A handler that has not reached register (or gives up before it) keeps the registry facts.
LEMMA EarlyStep ==
    ASSUME TypeOK, ProgramOK, RegistryInv, NEW h \in Sockets, MovesEarly(h)
    PROVE  RegistryInv'
<1> USE HandlersAssumption DEF Sockets, Handlers
<1> PICK w \in NotRegistered \cup {"done", "denied"} : pc' = [pc EXCEPT ![h] = w]
  BY DEF MovesEarly, Goto
<1>1. SlotOwned'
  BY DEF TypeOK, ProgramOK, RegistryInv, SlotOwned, Ready, MovesEarly, SameSlots, Holding,
     NotRegistered
<1>2. PairFresh'
  BY DEF TypeOK, RegistryInv, PairFresh, MovesEarly, SameSlots
<1>3. RegisteredHeld'
  BY DEF TypeOK, ProgramOK, RegistryInv, RegisteredHeld, SameSlots,
     MovesEarly, InPair,
     PairObject, Holding, NotRegistered
<1>4. UnregisteredLeft'
  BY DEF TypeOK, ProgramOK, RegistryInv, UnregisteredLeft, SameSlots,
     MovesEarly, InPair,
     PairObject, Holding, NotRegistered
<1>5. RegistryNotLeaked'
  BY DEF TypeOK, RegistryInv, RegistryNotLeaked, MovesEarly, Holding,
     NotRegistered
<1>6. SlotFilled'
  BY DEF TypeOK, ProgramOK, RegistryInv, SlotFilled, SameSlots, MovesEarly, InPair,
     PairObject, Holding, NotRegistered
<1> QED BY <1>1, <1>2, <1>3, <1>4, <1>5, <1>6 DEF RegistryInv

\* A registered handler that moves between wait, pump, finish and record keeps the registry facts.
LEMMA HoldingStep ==
    ASSUME TypeOK, ProgramOK, RegistryInv, NEW h \in Sockets, MovesHolding(h)
    PROVE  RegistryInv'
<1> USE HandlersAssumption DEF Sockets, Handlers
<1> PICK w \in Holding : /\ pc' = [pc EXCEPT ![h] = w]
                         /\ w \in {"paired", "pump"} => Ready(at[h])
  BY DEF MovesHolding, Goto
<1>1. SlotOwned'
  BY DEF TypeOK, ProgramOK, RegistryInv, SlotOwned, Ready, MovesHolding, SameSlots, Holding
<1>2. PairFresh'
  BY DEF TypeOK, RegistryInv, PairFresh, MovesHolding, SameSlots,
     NotRegistered, Holding
<1>3. RegisteredHeld'
  BY DEF TypeOK, ProgramOK, RegistryInv, RegisteredHeld, SameSlots,
     MovesHolding, InPair,
     PairObject
<1>4. UnregisteredLeft'
  BY DEF TypeOK, ProgramOK, RegistryInv, UnregisteredLeft, SameSlots,
     MovesHolding, InPair,
     PairObject, Holding
<1>5. RegistryNotLeaked'
  BY DEF TypeOK, RegistryInv, RegistryNotLeaked, MovesHolding
<1>6. SlotFilled'
  BY DEF TypeOK, ProgramOK, RegistryInv, SlotFilled, SameSlots, MovesHolding, InPair,
     PairObject, Holding
<1> QED BY <1>1, <1>2, <1>3, <1>4, <1>5, <1>6 DEF RegistryInv

\* Finding or making the pair. A pair that is made is fresh; one that is found
\* is in the registry.
LEMMA LookupStep ==
    ASSUME TypeOK, ProgramOK, RegistryInv, NEW h \in Sockets, RegisterLookup(h)
    PROVE  RegistryInv'
<1> USE HandlersAssumption DEF Sockets, Handlers
<1> DEFINE p == IF pairs = None THEN h ELSE pairs
<1>0. /\ pc[h] = "lookup" /\ pc' = [pc EXCEPT ![h] = "slot"] /\ pair' = pair
      /\ pairs' = p /\ at' = [at EXCEPT ![h] = p] /\ p \in Sockets /\ p # None
  BY DEF RegisterLookup, Goto, TypeOK
<1> HIDE DEF p
<1>1. SlotOwned'
  BY <1>0 DEF TypeOK, ProgramOK, RegistryInv, SlotOwned, Ready, Holding
<1>2. PairFresh'
  BY <1>0 DEF TypeOK, RegistryInv, PairFresh, NotRegistered, p
<1>3. RegisteredHeld'
  <2>1. CASE pairs = None
    BY <1>0, <2>1 DEF RegistryInv, PairFresh, NotRegistered, RegisteredHeld,
       InPair, p
  <2>2. CASE pairs # None
    BY <1>0, <2>2 DEF TypeOK, RegistryInv, RegisteredHeld, InPair, PairObject,
       Holding, p
  <2> QED BY <2>1, <2>2
<1>4. UnregisteredLeft'
  <2> SUFFICES ASSUME NEW g \in Sockets, pc'[g] \in Holding \cup {"slot"},
                      at'[g] # pairs'
               PROVE  \E i \in InPair(at[g])' : pc'[i] = "done"
    BY <1>0 DEF UnregisteredLeft, InPair, TypeOK
  <2>1. g # h /\ pc[g] \in Holding \cup {"slot"} /\ at[g] \in Sockets
        /\ at'[g] = at[g]
    BY <1>0 DEF TypeOK, ProgramOK
  <2>2. at[g] # pairs
    BY <1>0, <2>1 DEF ProgramOK, p
  <2>3. PICK i \in InPair(at[g]) : pc[i] = "done"
    BY <2>1, <2>2 DEF RegistryInv, UnregisteredLeft
  <2>4. i \in Sockets /\ i # h
    BY <1>0, <2>1, <2>3 DEF InPair, TypeOK, PairObject
  <2> QED BY <1>0, <2>1, <2>3, <2>4 DEF InPair, TypeOK
<1>5. RegistryNotLeaked'
  BY <1>0 DEF TypeOK, RegistryNotLeaked
<1>6. SlotFilled'
  BY <1>0 DEF TypeOK, RegistryInv, SlotFilled, InPair, PairObject, Holding
<1> QED BY <1>1, <1>2, <1>3, <1>4, <1>5, <1>6 DEF RegistryInv

\* Taking the slot, or being refused because another handler is in it.
LEMMA SlotStep ==
    ASSUME TypeOK, ProgramOK, RegistryInv, NEW h \in Sockets, RegisterSlot(h)
    PROVE  RegistryInv'
<1> USE HandlersAssumption DEF Sockets, Handlers
<1>0. pc[h] = "slot" /\ at[h] \in Sockets /\ pairs' = pairs /\ at' = at
  BY DEF RegisterSlot, TypeOK, ProgramOK
<1>1. CASE SlotTaken(h)
  <2>0. pc' = [pc EXCEPT ![h] = "done"] /\ pair' = pair
    BY <1>1 DEF RegisterSlot, Goto
  <2>1. SlotOwned' /\ PairFresh'
    BY <1>0, <2>0 DEF TypeOK, RegistryInv, SlotOwned, Ready, Holding,
       PairFresh, NotRegistered
  <2>2. RegisteredHeld'
    BY <1>0, <2>0 DEF TypeOK, RegistryInv, RegisteredHeld, InPair, PairObject,
       Holding
  <2>3. UnregisteredLeft'
    BY <1>0, <2>0 DEF TypeOK, RegistryInv, UnregisteredLeft, InPair, PairObject,
       Holding
  <2>4. RegistryNotLeaked'
    <3>1. CASE pairs = at[h]
      <4>1. PICK g \in InPair(at[h]) : g \in Sockets
        BY <1>0, <1>1 DEF SlotTaken, InPair, TypeOK, PairObject
      <4>2. pc[g] \in Holding /\ at[g] = pairs
        BY <1>0, <3>1, <4>1 DEF RegistryInv, RegisteredHeld, SlotFilled, TypeOK
      <4>3. g # h
        BY <1>0, <4>2 DEF Holding
      <4> QED BY <1>0, <2>0, <4>1, <4>2, <4>3 DEF RegistryNotLeaked, TypeOK
    <3>2. CASE pairs # at[h]
      BY <1>0, <2>0, <3>2 DEF RegistryInv, RegistryNotLeaked, TypeOK
    <3> QED BY <3>1, <3>2
  <2>5. SlotFilled'
    BY <1>0, <2>0 DEF TypeOK, RegistryInv, SlotFilled, InPair, PairObject,
       Holding
  <2> QED BY <2>1, <2>2, <2>3, <2>4, <2>5 DEF RegistryInv
<1>2. CASE ~SlotTaken(h)
  <2> DEFINE q == at[h]
  <2>0. /\ pc' = [pc EXCEPT ![h] = "wait"]
        /\ \A p \in Sockets : p # q => pair'[p] = pair[p]
        /\ h \in Browsers => /\ pair[q].browser = None
                             /\ pair'[q].browser = h
                             /\ pair'[q].agent = pair[q].agent
        /\ h \in Agents => /\ pair[q].agent = None
                           /\ pair'[q].agent = h
                           /\ pair'[q].browser = pair[q].browser
    BY <1>0, <1>2 DEF RegisterSlot, Goto, TypeOK, PairObject, SlotTaken
  <2>1. SlotOwned'
    BY <1>0, <2>0 DEF TypeOK, ProgramOK, RegistryInv, SlotOwned, Ready, Holding
  <2>2. PairFresh'
    BY <1>0, <2>0 DEF TypeOK, RegistryInv, PairFresh, NotRegistered
  <2>3. RegisteredHeld'
    BY <1>0, <2>0 DEF TypeOK, RegistryInv, RegisteredHeld, InPair, PairObject,
       Holding
  <2>4. UnregisteredLeft'
    <3> SUFFICES ASSUME NEW g \in Sockets, pc'[g] \in Holding \cup {"slot"},
                        at[g] # pairs
                 PROVE  \E i \in InPair(at[g])' : pc'[i] = "done"
      BY <1>0 DEF UnregisteredLeft, InPair
    <3>1. pc[g] \in Holding \cup {"slot"} /\ at[g] \in Sockets
      BY <1>0, <2>0 DEF TypeOK, ProgramOK
    <3>2. PICK i \in InPair(at[g]) : pc[i] = "done"
      BY <3>1 DEF RegistryInv, UnregisteredLeft
    <3>3. i \in Sockets /\ i # h /\ i \in {pair[at[g]].browser, pair[at[g]].agent}
          /\ i # None
      BY <1>0, <3>1, <3>2 DEF InPair, TypeOK, PairObject
    <3>4. i \in {pair'[at[g]].browser, pair'[at[g]].agent}
      BY <2>0, <3>1, <3>3
    <3> QED BY <1>0, <2>0, <3>2, <3>3, <3>4 DEF InPair, TypeOK
  <2>5. RegistryNotLeaked'
    BY <1>0, <2>0 DEF TypeOK, RegistryInv, RegistryNotLeaked, Holding
  <2>6. SlotFilled'
    BY <1>0, <2>0 DEF TypeOK, RegistryInv, SlotFilled, InPair, PairObject,
       Holding
  <2> QED BY <2>1, <2>2, <2>3, <2>4, <2>5, <2>6 DEF RegistryInv
<1> QED BY <1>1, <1>2

\* Leaving the registry: from now on the pair is out, and this handler is the
\* one that left it.
LEMMA ReleaseStep ==
    ASSUME TypeOK, ProgramOK, RegistryInv, NEW h \in Sockets, Release(h)
    PROVE  RegistryInv'
<1> USE HandlersAssumption DEF Sockets, Handlers
<1>0. /\ pc[h] = "release" /\ pc' = [pc EXCEPT ![h] = "done"] /\ pair' = pair
      /\ at' = at /\ at[h] \in Sockets /\ h \in InPair(at[h])
      /\ pairs' = IF pairs = at[h] THEN None ELSE pairs
  BY DEF Release, Goto, TypeOK, ProgramOK, Holding, RegistryInv, SlotOwned,
     InPair
<1>1. SlotOwned' /\ PairFresh'
  BY <1>0 DEF TypeOK, RegistryInv, SlotOwned, Ready, Holding, PairFresh,
     NotRegistered
<1>2. RegisteredHeld'
  BY <1>0 DEF TypeOK, RegistryInv, RegisteredHeld, SlotFilled, InPair,
     PairObject
<1>3. UnregisteredLeft'
  <2> SUFFICES ASSUME NEW g \in Sockets, pc'[g] \in Holding \cup {"slot"},
                      at[g] # pairs'
               PROVE  \E i \in InPair(at[g]) : pc'[i] = "done"
    BY <1>0 DEF UnregisteredLeft, InPair
  <2>1. g # h /\ pc[g] \in Holding \cup {"slot"} /\ at[g] \in Sockets
    BY <1>0 DEF TypeOK, ProgramOK, Holding
  <2>2. CASE at[g] = at[h]
    BY <1>0, <2>2 DEF TypeOK
  <2>3. CASE at[g] # at[h]
    <3>1. PICK i \in InPair(at[g]) : pc[i] = "done"
      BY <1>0, <2>1, <2>3 DEF RegistryInv, UnregisteredLeft
    <3>2. i \in Sockets
      BY <2>1, <3>1 DEF InPair, TypeOK, PairObject
    <3> QED BY <1>0, <3>1, <3>2 DEF TypeOK
  <2> QED BY <2>2, <2>3
<1>4. RegistryNotLeaked'
  BY <1>0 DEF TypeOK, RegistryInv, RegistryNotLeaked
<1>5. SlotFilled'
  BY <1>0 DEF TypeOK, RegistryInv, SlotFilled, InPair, PairObject, Holding
<1> QED BY <1>1, <1>2, <1>3, <1>4, <1>5 DEF RegistryInv

\* A restart empties the registry and leaves nobody in it.
LEMMA RestartStep ==
    ASSUME TypeOK, ProgramOK, RegistryInv, Restart
    PROVE  RegistryInv'
<1> USE HandlersAssumption DEF Sockets, Handlers
<1>0. /\ pairs' = None /\ at' = at /\ pair' = pair
      /\ \A h \in Sockets :
            /\ pc'[h] \in {"idle", "done", "denied"}
            /\ pc'[h] = "idle" => pc[h] = "idle"
            /\ pc[h] \in Holding \cup {"done"} => pc'[h] = "done"
  BY DEF Restart, TypeOK, ProgramOK, RevokerPCs, Holding
<1>1. SlotFilled'
  BY <1>0 DEF RegistryInv, SlotFilled, InPair, TypeOK, PairObject
<1> QED BY <1>0, <1>1 DEF RegistryInv, SlotOwned, PairFresh, RegisteredHeld,
     UnregisteredLeft, RegistryNotLeaked, Holding, NotRegistered

\* Every step of the system keeps the registry facts: register, wait, release, shutdown and restart included.
LEMMA RegistryStep ==
    TypeOK /\ ProgramOK /\ RegistryInv /\ [Next]_vars => RegistryInv'
<1> SUFFICES ASSUME TypeOK, ProgramOK, RegistryInv, [Next]_vars
             PROVE  RegistryInv'
  OBVIOUS
<1> USE HandlersAssumption DEF Sockets, Handlers
<1>1. ASSUME NEW h \in Sockets, BrowserRead(h) PROVE RegistryInv'
  <2>1. MovesEarly(h)
    BY <1>1 DEF BrowserRead, MovesEarly, NotRegistered, SameSlots, Goto
  <2> QED BY <2>1, EarlyStep
<1>2. ASSUME NEW h \in Sockets, BrowserConsume(h) PROVE RegistryInv'
  <2>1. MovesEarly(h)
    BY <1>2 DEF BrowserConsume, MovesEarly, NotRegistered, SameSlots, Goto
  <2> QED BY <2>1, EarlyStep
<1>3. ASSUME NEW h \in Sockets, AgentRead(h) PROVE RegistryInv'
  <2>1. MovesEarly(h)
    BY <1>3 DEF AgentRead, MovesEarly, NotRegistered, SameSlots, Goto
  <2> QED BY <2>1, EarlyStep
<1>4. ASSUME NEW h \in Sockets, AgentAttach(h) PROVE RegistryInv'
  <2>1. MovesEarly(h)
    BY <1>4 DEF AgentAttach, MovesEarly, NotRegistered, SameSlots, Goto
  <2> QED BY <2>1, EarlyStep
<1>5. ASSUME NEW h \in Sockets, Accept(h) PROVE RegistryInv'
  <2>1. MovesEarly(h)
    BY <1>5 DEF Accept, MovesEarly, NotRegistered, SameSlots, Goto
  <2> QED BY <2>1, EarlyStep
<1>6. ASSUME NEW h \in Sockets, WaitReady(h) PROVE RegistryInv'
  <2>1. MovesHolding(h)
    BY <1>6 DEF WaitReady, MovesHolding, Holding, SameSlots, Goto
  <2> QED BY <2>1, HoldingStep
<1>7. ASSUME NEW h \in Sockets, WaitTimeout(h) PROVE RegistryInv'
  <2>1. MovesHolding(h)
    BY <1>7 DEF WaitTimeout, MovesHolding, Holding, SameSlots, Goto
  <2> QED BY <2>1, HoldingStep
<1>8. ASSUME NEW h \in Sockets, PumpStart(h) PROVE RegistryInv'
  <2>1. MovesHolding(h)
    BY <1>8 DEF PumpStart, MovesHolding, Holding, SameSlots, Goto, RegistryInv, SlotOwned
  <2> QED BY <2>1, HoldingStep
<1>9. ASSUME NEW h \in Sockets, PumpReadError(h) PROVE RegistryInv'
  <2>1. MovesHolding(h)
    BY <1>9 DEF PumpReadError, MovesHolding, Holding, SameSlots, Goto, PumpExit, TypeOK, ProgramOK, PairObject
  <2> QED BY <2>1, HoldingStep
<1>10. ASSUME NEW h \in Sockets, PumpWriteError(h) PROVE RegistryInv'
  <2>1. MovesHolding(h)
    BY <1>10 DEF PumpWriteError, MovesHolding, Holding, SameSlots, Goto, PumpExit, TypeOK, ProgramOK, PairObject
  <2> QED BY <2>1, HoldingStep
<1>11. ASSUME NEW h \in Sockets, FinishOnce(h) PROVE RegistryInv'
  <2>1. MovesHolding(h)
    BY <1>11 DEF FinishOnce, MovesHolding, Holding, SameSlots, Goto, TypeOK, ProgramOK, PairObject
  <2> QED BY <2>1, HoldingStep
<1>12. ASSUME NEW h \in Sockets, FinishRecord(h) PROVE RegistryInv'
  <2>1. MovesHolding(h)
    BY <1>12 DEF FinishRecord, MovesHolding, Holding, SameSlots, Goto, TypeOK, ProgramOK, PairObject
  <2> QED BY <2>1, HoldingStep
<1>13. ASSUME NEW h \in Revokers, RevokeRead(h) PROVE RegistryInv'
  <2>1. Aside
    BY <1>13 DEF RevokeRead, Aside, SameSlots, Goto, TypeOK, ProgramOK, PairObject
  <2> QED BY <2>1, AsideStep
<1>14. ASSUME NEW h \in Revokers, RevokeUpdate(h) PROVE RegistryInv'
  <2>1. Aside
    BY <1>14 DEF RevokeUpdate, Aside, SameSlots, Goto, TypeOK, ProgramOK, PairObject
  <2> QED BY <2>1, AsideStep
<1>15. ASSUME NEW h \in Revokers, RevokeLookup(h) PROVE RegistryInv'
  <2>1. Aside
    BY <1>15 DEF RevokeLookup, Aside, SameSlots, Goto, TypeOK, ProgramOK, PairObject
  <2> QED BY <2>1, AsideStep
<1>16. ASSUME NEW h \in Revokers, RevokeShutdown(h) PROVE RegistryInv'
  <2>1. Aside
    BY <1>16 DEF RevokeShutdown, Aside, SameSlots, Goto, TypeOK, ProgramOK, PairObject
  <2> QED BY <2>1, AsideStep
<1>17. ASSUME NEW h \in Sockets, ClientLeaves(h) PROVE RegistryInv'
  <2>1. Aside
    BY <1>17 DEF ClientLeaves, Aside, SameSlots
  <2> QED BY <2>1, AsideStep
<1>18. CASE Reclaim \/ Lease \/ Sweep \/ Tick \/ UNCHANGED vars
  <2>1. Aside
    BY <1>18 DEF Reclaim, Lease, Sweep, Tick, vars, Aside, SameSlots
  <2> QED BY <2>1, AsideStep
<1> QED
  BY LookupStep, SlotStep, ReleaseStep, RestartStep,
     <1>1, <1>2, <1>3, <1>4, <1>5, <1>6, <1>7, <1>8, <1>9, <1>10, <1>11,
     <1>12, <1>13, <1>14, <1>15, <1>16, <1>17, <1>18
     DEF Next, SocketStep, RevokerStep

-----------------------------------------------------------------------------
\* PairingInv is an invariant of the specification: the type of the state, the
\* program of each handler, the spent ticket, and what the registry's two
\* critical sections keep between them.
THEOREM PairingInvariant == Spec => []PairingInv
<1>1. Init => PairingInv
  BY TypeInit, RegistryInit
     DEF PairingInv, RegistryInv, Init, TicketSpent, TicketSingleUse, Admitted,
         AttachedNotReoffered, Handlers, Sockets
<1>2. PairingInv /\ [Next]_vars => PairingInv'
  BY TypeStep, TicketStep, AttachedStep, RegistryStep
     DEF PairingInv, RegistryInv
<1> QED BY <1>1, <1>2, PTL DEF Spec

\* TypeOK is an invariant: every statement and every step of every handler
\* keeps the shape of the row, the registry and the pairs.
THEOREM TypeCorrect == Spec => []TypeOK
BY PairingInvariant, PTL DEF PairingInv

\* The ticket minted by CreateTerminalSession admits at most one browser,
\* however many handshakes race for it.
THEOREM TicketUsedOnce == Spec => []TicketSingleUse
BY PairingInvariant, PTL DEF PairingInv

\* A session the daemon attached to is never offered again.
THEOREM NeverReoffered == Spec => []AttachedNotReoffered
BY PairingInvariant, PTL DEF PairingInv

\* register and release never leak an entry of terminalRegistry.pairs.
THEOREM NoRegistryLeak == Spec => []RegistryNotLeaked
BY PairingInvariant, PTL DEF PairingInv

\* A socket waiting for its peer is in the registry, where its peer looks:
\* somebody left a pair that is out of the registry, and a waiter that shares
\* a pair with somebody else is ready.
THEOREM WaitersAreFindable == Spec => []WaiterFindable
<1>1. PairingInv => WaiterFindable
  <2> SUFFICES ASSUME PairingInv, NEW h \in Sockets, pc[h] = "wait",
                      pairs # at[h]
               PROVE  Ready(at[h])
    BY DEF WaiterFindable
  <2>1. at[h] \in Sockets
    BY DEF PairingInv, TypeOK, ProgramOK, Holding, Handlers
  <2>2. PICK g \in InPair(at[h]) : pc[g] = "done"
    BY DEF PairingInv, UnregisteredLeft, Holding
  <2>3. g # h
    BY <2>2
  <2>4. /\ h \in Browsers => pair[at[h]].browser = h
        /\ h \in Agents => pair[at[h]].agent = h
    BY DEF PairingInv, SlotOwned, Holding
  <2> QED BY <2>2, <2>3, <2>4, HandlersAssumption
          DEF Ready, InPair, Sockets, Handlers
<1> QED BY <1>1, PairingInvariant, PTL

\* The rule coder/websocket needs: one reader and one writer per socket.
THEOREM OneReaderOneWriterHolds == Spec => []OneReaderOneWriter
<1>1. PairingInv => OneReaderOneWriter
  <2> SUFFICES ASSUME PairingInv, NEW g \in Sockets, NEW h \in Sockets,
                      pc[g] = "pump", pc[h] = "pump"
               PROVE  Peer(g) # None /\ (Peer(g) = Peer(h) => g = h)
    BY DEF OneReaderOneWriter
  <2>1. at[g] \in Sockets /\ at[h] \in Sockets
    BY DEF PairingInv, TypeOK, ProgramOK, Holding, Handlers
  <2>2. Ready(at[g]) /\ Ready(at[h])
    BY DEF PairingInv, SlotOwned
  <2>3. Peer(g) # None
    BY <2>2 DEF Peer, Ready
  <2>4. /\ g \in Browsers => pair[at[g]].browser = g
        /\ g \in Agents => pair[at[g]].agent = g
        /\ h \in Browsers => pair[at[h]].browser = h
        /\ h \in Agents => pair[at[h]].agent = h
    BY DEF PairingInv, SlotOwned, Holding
  <2>5. at[Peer(g)] = at[g] /\ at[Peer(h)] = at[h]
    BY <2>1, <2>2 DEF PairingInv, SlotFilled, InPair, Peer, Ready
  <2>6. /\ g \in Browsers => Peer(g) \in Agents
        /\ g \notin Browsers => Peer(g) \in Browsers
        /\ h \in Browsers => Peer(h) \in Agents
        /\ h \notin Browsers => Peer(h) \in Browsers
    BY <2>1, <2>2 DEF PairingInv, TypeOK, PairObject, Peer, Ready
  <2> QED BY <2>3, <2>4, <2>5, <2>6, HandlersAssumption DEF Sockets
<1> QED BY <1>1, PairingInvariant, PTL

=============================================================================

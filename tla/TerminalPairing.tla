--------------------------- MODULE TerminalPairing ---------------------------
(***************************************************************************)
(* One relayed terminal session on the cloud: the row of the session, the  *)
(* in-memory registry that pairs the browser's socket with the daemon's    *)
(* agent socket, the request handlers of both, the revoke route and the    *)
(* sweep (internal/handler/terminal.go over internal/cloud/terminal.go).   *)
(* Sessions share nothing here, so the module follows one of them.         *)
(*                                                                         *)
(* A handler is one HTTP request and runs once. Its program counter names  *)
(* what it does next; each step is one SQL statement, one critical section *)
(* or one blocking call. A pair object is named after the handler whose    *)
(* register call created it, and a socket after the handler it belongs to. *)
(***************************************************************************)
EXTENDS TerminalStore

CONSTANTS
    Browsers,    \* requests on GET /api/daemons/:id/terminal
    Agents,      \* requests on GET .../terminal/agent
    Revokers,    \* requests on DELETE .../terminal/:session_id
    None         \* no pair, no socket

Sockets  == Browsers \cup Agents
Handlers == Sockets \cup Revokers

ASSUME HandlersAssumption ==
    /\ Browsers \cap Agents = {}
    /\ Sockets \cap Revokers = {}
    /\ None \notin Handlers

VARIABLES
    row,      \* the session's row in the database
    pairs,    \* terminalRegistry.pairs[session]: a pair or None
    pair,     \* the pair objects
    pc,       \* what each handler does next
    at,       \* the pair a handler got from the registry
    sock,     \* the socket a handler accepted: "none", "open" or "closed"
    verdict   \* the end state a handler wants recorded

vars == <<row, pairs, pair, pc, at, sock, verdict>>

SocketPCs == {"idle", "consume", "attach", "accept", "lookup", "slot", "wait",
              "paired", "pump", "finish", "record", "release", "done",
              "denied"}
RevokerPCs == {"idle", "revoke", "close", "shutdown", "done", "denied"}

\* A handler that took its role's slot and has not yet left the registry.
Holding == {"wait", "paired", "pump", "finish", "record", "release"}

PairObject == [browser : Browsers \cup {None},
               agent : Agents \cup {None},
               closeOn : {"no", "done"},
               finish : {"no", "running", "done"}]

EmptyPair == [browser |-> None, agent |-> None, closeOn |-> "no",
              finish |-> "no"]

TypeOK ==
    /\ row \in Row
    /\ pairs \in Sockets \cup {None}
    /\ pair \in [Sockets -> PairObject]
    /\ pc \in [Handlers -> SocketPCs \cup RevokerPCs]
    /\ at \in [Handlers -> Sockets \cup {None}]
    /\ sock \in [Sockets -> {"none", "open", "closed"}]
    /\ verdict \in [Sockets -> {"none", "closed", "failed"}]

Init ==
    /\ row = NewRow
    /\ pairs = None
    /\ pair = [h \in Sockets |-> EmptyPair]
    /\ pc = [h \in Handlers |-> "idle"]
    /\ at = [h \in Handlers |-> None]
    /\ sock = [h \in Sockets |-> "none"]
    /\ verdict = [h \in Sockets |-> "none"]

Goto(h, where) == pc' = [pc EXCEPT ![h] = where]

-----------------------------------------------------------------------------
\* Mutants: the code with one plausible mistake each.

\* The ticket is cleared without the compare in the WHERE clause.
ConsumeUnconditionally(h) ==
    /\ h \in Browsers /\ pc[h] = "consume"
    /\ row' = ConsumeTicket(row)
    /\ Goto(h, "accept")
    /\ UNCHANGED <<pairs, pair, at, sock, verdict>>

\* A second socket of a role replaces the first.
TakeSlotOver(h) ==
    /\ h \in Sockets /\ pc[h] = "slot"
    /\ pair' = [pair EXCEPT ![at[h]] =
                  IF h \in Browsers THEN [@ EXCEPT !.browser = h]
                                    ELSE [@ EXCEPT !.agent = h]]
    /\ Goto(h, "wait")
    /\ UNCHANGED <<row, pairs, at, sock, verdict>>

\* A handler leaves without taking its pair out of the registry.
ReleaseNothing(h) ==
    /\ h \in Sockets /\ pc[h] = "release"
    /\ Goto(h, "done")
    /\ UNCHANGED <<row, pairs, pair, at, sock, verdict>>

\* A refused handler takes the pair of the others out of the registry.
ReleaseOnRefusal(h) ==
    /\ h \in Sockets /\ pc[h] = "slot"
    /\ LET taken == IF h \in Browsers THEN pair[at[h]].browser # None
                                      ELSE pair[at[h]].agent # None
       IN \/ /\ taken
             /\ sock' = [sock EXCEPT ![h] = "closed"]
             /\ pairs' = IF pairs = at[h] THEN None ELSE pairs
             /\ Goto(h, "done")
             /\ UNCHANGED pair
          \/ /\ ~taken
             /\ pair' = [pair EXCEPT ![at[h]] =
                           IF h \in Browsers THEN [@ EXCEPT !.browser = h]
                                             ELSE [@ EXCEPT !.agent = h]]
             /\ Goto(h, "wait")
             /\ UNCHANGED <<sock, pairs>>
    /\ UNCHANGED <<row, at, verdict>>

\* The waiter's timer is forgotten.
NeverTimesOut(h) == FALSE

-----------------------------------------------------------------------------
\* The browser's handshake: AuthenticateTerminalTicket.

BrowserRead(h) ==
    /\ h \in Browsers /\ pc[h] = "idle"
    /\ Goto(h, IF TicketValid(row) THEN "consume" ELSE "denied")
    /\ UNCHANGED <<row, pairs, pair, at, sock, verdict>>

BrowserConsume(h) ==
    /\ h \in Browsers /\ pc[h] = "consume"
    /\ \/ /\ TicketUnconsumed(row)
          /\ row' = ConsumeTicket(row)
          /\ Goto(h, "accept")
       \/ /\ ~TicketUnconsumed(row)
          /\ Goto(h, "denied")
          /\ UNCHANGED row
    /\ UNCHANGED <<pairs, pair, at, sock, verdict>>

\* The daemon's attach: AttachTerminalAgent. The update follows the read in a
\* statement of its own, and is skipped for a row read active.
AgentRead(h) ==
    /\ h \in Agents /\ pc[h] = "idle"
    /\ Goto(h, IF ~AttachAllowed(row) THEN "denied"
               ELSE IF NeedsAttach(row) THEN "attach" ELSE "accept")
    /\ UNCHANGED <<row, pairs, pair, at, sock, verdict>>

AgentAttach(h) ==
    /\ h \in Agents /\ pc[h] = "attach"
    /\ row' = AttachRow(row)
    /\ Goto(h, "accept")
    /\ UNCHANGED <<pairs, pair, at, sock, verdict>>

\* websocket.Accept: the upgrade, or its refusal (an Origin that is not
\* allowed, a client that left). The ticket stays spent, the row active.
Accept(h) ==
    /\ h \in Sockets /\ pc[h] = "accept"
    /\ \/ /\ sock' = [sock EXCEPT ![h] = "open"]
          /\ Goto(h, "lookup")
       \/ /\ Goto(h, "done")
          /\ UNCHANGED sock
    /\ UNCHANGED <<row, pairs, pair, at, verdict>>

-----------------------------------------------------------------------------
\* terminalRegistry.register, its two critical sections: the registry's mutex
\* to find or make the pair, the pair's mutex to take the role's slot.

RegisterLookup(h) ==
    /\ h \in Sockets /\ pc[h] = "lookup"
    /\ LET p == IF pairs = None THEN h ELSE pairs
       IN pairs' = p /\ at' = [at EXCEPT ![h] = p]
    /\ Goto(h, "slot")
    /\ UNCHANGED <<row, pair, sock, verdict>>

SlotTaken(h) ==
    IF h \in Browsers THEN pair[at[h]].browser # None
                      ELSE pair[at[h]].agent # None

\* Whether pair.ready is closed: the second slot to fill closes it.
Ready(p) == pair[p].browser # None /\ pair[p].agent # None

RegisterSlot(h) ==
    /\ h \in Sockets /\ pc[h] = "slot"
    /\ \/ /\ SlotTaken(h)
          /\ sock' = [sock EXCEPT ![h] = "closed"]
          /\ Goto(h, "done")
          /\ UNCHANGED pair
       \/ /\ ~SlotTaken(h)
          /\ pair' = [pair EXCEPT ![at[h]] =
                        IF h \in Browsers THEN [@ EXCEPT !.browser = h]
                                          ELSE [@ EXCEPT !.agent = h]]
          /\ Goto(h, "wait")
          /\ UNCHANGED sock
    /\ UNCHANGED <<row, pairs, at, verdict>>

\* terminalPair.wait: the peer arrived, or the 90 seconds are over. When both
\* hold, the select takes either. A side that gives up closes its own socket
\* only.
WaitReady(h) ==
    /\ h \in Sockets /\ pc[h] = "wait"
    /\ Ready(at[h])
    /\ Goto(h, "paired")
    /\ UNCHANGED <<row, pairs, pair, at, sock, verdict>>

WaitTimeout(h) ==
    /\ h \in Sockets /\ pc[h] = "wait"
    /\ sock' = [sock EXCEPT ![h] = "closed"]
    /\ verdict' = [verdict EXCEPT ![h] = "failed"]
    /\ Goto(h, "finish")
    /\ UNCHANGED <<row, pairs, pair, at>>

\* terminalPair.shutdown: closeOn runs once, and closes the sockets that are
\* in the pair at that moment.
InPair(p) == {pair[p].browser, pair[p].agent} \ {None}
ShutdownSockets(p) ==
    [s \in Sockets |-> IF s \in InPair(p) /\ pair[p].closeOn = "no" THEN "closed"
                       ELSE sock[s]]

Peer(h) == IF h \in Browsers THEN pair[at[h]].agent ELSE pair[at[h]].browser

\* pumpTerminal: pumps.Add, then the loop. A frame that is forwarded changes
\* nothing here. The loop ends when its own socket cannot be read, or when a
\* frame arrives that the peer's socket will not take; then the deferred
\* shutdown and pumps.Done.
PumpStart(h) ==
    /\ h \in Sockets /\ pc[h] = "paired"
    /\ Goto(h, "pump")
    /\ UNCHANGED <<row, pairs, pair, at, sock, verdict>>

PumpExit(h) ==
    /\ sock' = ShutdownSockets(at[h])
    /\ pair' = [pair EXCEPT ![at[h]].closeOn = "done"]
    /\ verdict' = [verdict EXCEPT ![h] = "closed"]
    /\ Goto(h, "finish")
    /\ UNCHANGED <<row, pairs, at>>

PumpReadError(h) ==
    /\ h \in Sockets /\ pc[h] = "pump"
    /\ sock[h] = "closed"
    /\ PumpExit(h)

PumpWriteError(h) ==
    /\ h \in Sockets /\ pc[h] = "pump"
    /\ sock[Peer(h)] = "closed"
    /\ PumpExit(h)

\* finishTerminalPair: finishOn lets one handler record the end state while
\* the other waits for it. The write waits for the pumps, but five seconds at
\* most, so it may come while one still runs; it is tried three times and
\* then given up.
FinishOnce(h) ==
    /\ h \in Sockets /\ pc[h] = "finish"
    /\ \/ /\ pair[at[h]].finish = "no"
          /\ pair' = [pair EXCEPT ![at[h]].finish = "running"]
          /\ Goto(h, "record")
       \/ /\ pair[at[h]].finish = "done"
          /\ Goto(h, "release")
          /\ UNCHANGED pair
    /\ UNCHANGED <<row, pairs, at, sock, verdict>>

FinishRecord(h) ==
    /\ h \in Sockets /\ pc[h] = "record"
    /\ row' \in {row, FinishRow(row, verdict[h])}
    /\ pair' = [pair EXCEPT ![at[h]].finish = "done"]
    /\ Goto(h, "release")
    /\ UNCHANGED <<pairs, at, sock, verdict>>

\* The deferred terminalRegistry.release.
Release(h) ==
    /\ h \in Sockets /\ pc[h] = "release"
    /\ pairs' = IF pairs = at[h] THEN None ELSE pairs
    /\ Goto(h, "done")
    /\ UNCHANGED <<row, pair, at, sock, verdict>>

-----------------------------------------------------------------------------
\* The revoke route: CloseTerminalSession (a read, then the guarded update),
\* terminalRegistry.close (the lookup, then shutdown).

RevokeRead(h) ==
    /\ h \in Revokers /\ pc[h] = "idle"
    /\ Goto(h, CASE row.status = Gone -> "denied"
                 [] row.status \in Ended -> "close"
                 [] OTHER -> "revoke")
    /\ UNCHANGED <<row, pairs, pair, at, sock, verdict>>

RevokeUpdate(h) ==
    /\ h \in Revokers /\ pc[h] = "revoke"
    /\ row' = RevokeRow(row)
    /\ Goto(h, "close")
    /\ UNCHANGED <<pairs, pair, at, sock, verdict>>

RevokeLookup(h) ==
    /\ h \in Revokers /\ pc[h] = "close"
    /\ at' = [at EXCEPT ![h] = pairs]
    /\ Goto(h, IF pairs = None THEN "done" ELSE "shutdown")
    /\ UNCHANGED <<row, pairs, pair, sock, verdict>>

RevokeShutdown(h) ==
    /\ h \in Revokers /\ pc[h] = "shutdown"
    /\ sock' = ShutdownSockets(at[h])
    /\ pair' = [pair EXCEPT ![at[h]].closeOn = "done"]
    /\ Goto(h, "done")
    /\ UNCHANGED <<row, pairs, at, verdict>>

-----------------------------------------------------------------------------
\* The rest of the cloud and the world around it.

\* ListPendingTerminalSessions on behalf of the daemon's long-poll, as far as
\* it changes the row (TerminalPickup has the poll itself).
Reclaim ==
    /\ row' = ReclaimLease(row)
    /\ UNCHANGED <<pairs, pair, pc, at, sock, verdict>>

Lease ==
    /\ Selectable(row)
    /\ row' = LeaseRow(row)
    /\ UNCHANGED <<pairs, pair, pc, at, sock, verdict>>

Sweep ==
    /\ row' = SweepRow(row)
    /\ UNCHANGED <<pairs, pair, pc, at, sock, verdict>>

Tick ==
    /\ row' = AgeRow(row)
    /\ UNCHANGED <<pairs, pair, pc, at, sock, verdict>>

\* A client leaves: its socket is gone, which the cloud sees when it reads.
ClientLeaves(h) ==
    /\ sock[h] = "open"
    /\ sock' = [sock EXCEPT ![h] = "closed"]
    /\ UNCHANGED <<row, pairs, pair, pc, at, verdict>>

\* The cloud process restarts: every running request, every socket and the
\* registry are gone, the row stays.
Restart ==
    /\ pairs' = None
    /\ pc' = [h \in Handlers |->
                CASE pc[h] \in {"idle", "done", "denied"} -> pc[h]
                  [] pc[h] \in {"consume", "attach", "revoke", "close", "shutdown"} -> "denied"
                  [] OTHER -> "done"]
    /\ sock' = [h \in Sockets |-> IF sock[h] = "open" THEN "closed" ELSE sock[h]]
    /\ UNCHANGED <<row, pair, at, verdict>>

SocketStep(h) ==
    \/ BrowserRead(h) \/ BrowserConsume(h) \/ AgentRead(h) \/ AgentAttach(h)
    \/ Accept(h) \/ RegisterLookup(h) \/ RegisterSlot(h)
    \/ WaitReady(h) \/ WaitTimeout(h)
    \/ PumpStart(h) \/ PumpReadError(h) \/ PumpWriteError(h)
    \/ FinishOnce(h) \/ FinishRecord(h) \/ Release(h)

RevokerStep(h) ==
    RevokeRead(h) \/ RevokeUpdate(h) \/ RevokeLookup(h) \/ RevokeShutdown(h)

Next ==
    \/ \E h \in Sockets : SocketStep(h)
    \/ \E h \in Revokers : RevokerStep(h)
    \/ \E h \in Sockets : ClientLeaves(h)
    \/ Reclaim \/ Lease \/ Sweep \/ Tick \/ Restart

Spec == Init /\ [][Next]_vars

\* What the code drives by itself once a request is in: its own steps, the
\* pair timer, a read error on a dead socket, the clock and the minutely
\* sweep. A client need not send a request, type or leave, so BrowserRead,
\* AgentRead, RevokeRead, PumpWriteError and ClientLeaves carry no fairness.
Driven(h) ==
    \/ BrowserConsume(h) \/ AgentAttach(h) \/ Accept(h)
    \/ RegisterLookup(h) \/ RegisterSlot(h) \/ WaitReady(h) \/ WaitTimeout(h)
    \/ PumpStart(h) \/ PumpReadError(h)
    \/ FinishOnce(h) \/ FinishRecord(h) \/ Release(h)

RevokerDriven(h) == RevokeUpdate(h) \/ RevokeLookup(h) \/ RevokeShutdown(h)

Fairness ==
    /\ \A h \in Sockets : WF_vars(Driven(h))
    /\ \A h \in Revokers : WF_vars(RevokerDriven(h))
    /\ WF_vars(Tick) /\ WF_vars(Sweep)

FairSpec == Spec /\ Fairness

-----------------------------------------------------------------------------
\* Properties.

\* A browser's handshake got past AuthenticateTerminalTicket.
Admitted(h) == pc[h] \notin {"idle", "consume", "denied"}

\* The ticket is single use: of any number of handshakes that present it,
\* interleaved in any way, AuthenticateTerminalTicket admits at most one.
TicketSingleUse ==
    \A g, h \in Browsers : Admitted(g) /\ Admitted(h) => g = h

\* The rule of terminalPair: across the pump goroutines every socket has one
\* reader and one writer. A pump reads its own socket and has a peer to write
\* to, and no two pumps write to the same socket.
OneReaderOneWriter ==
    \A g, h \in Sockets :
        pc[g] = "pump" /\ pc[h] = "pump" =>
            /\ Peer(g) # None
            /\ Peer(g) = Peer(h) => g = h

\* A socket that waits for its peer can be found by it: register's two
\* critical sections never leave a lone waiter in a pair that release has
\* already taken out of the registry.
WaiterFindable ==
    \A h \in Sockets : pc[h] = "wait" /\ ~Ready(at[h]) => pairs = at[h]

\* The registry does not leak: a pair that is still in it belongs to a handler
\* that has yet to run its deferred release (or to lose its slot to one).
RegistryNotLeaked ==
    pairs # None =>
        \E h \in Sockets : at[h] = pairs /\ pc[h] \in Holding \cup {"slot"}

\* Once AttachTerminalAgent let the daemon in, the session is not handed out
\* again, whatever the leases, sweeps and revocations around it do.
AttachedNotReoffered ==
    (\E h \in Agents : pc[h] \notin {"idle", "attach", "denied"})
        => row.status \notin {"pending", "offered"}

\* A handler whose socket died gets out: it stops pumping or waiting, sees the
\* end state recorded or given up, and leaves the registry.
ClosedSocketDrains ==
    \A h \in Sockets :
        (sock[h] = "closed" /\ pc[h] \in Holding) ~> pc[h] = "done"

\* A session does not hold one of the workspace's slots for ever: whatever was
\* lost on the way, every live row ends.
EveryRowEnds == row.status \in Live ~> row.status \notin Live

-----------------------------------------------------------------------------
\* The inductive invariant behind the safety properties above.

\* A handler that has not been to the registry.
NotRegistered == {"idle", "consume", "attach", "accept", "lookup"}

\* Each kind of handler stays within its own program.
ProgramOK ==
    /\ \A h \in Browsers : pc[h] \in SocketPCs \ {"attach"}
    /\ \A h \in Agents : pc[h] \in SocketPCs \ {"consume"}
    /\ \A h \in Revokers : pc[h] \in RevokerPCs
    /\ \A h \in Sockets : pc[h] \in Holding \cup {"slot"} => at[h] # None
    /\ \A h \in Revokers : pc[h] = "shutdown" => at[h] # None
    /\ \A h \in Sockets : pc[h] \in {"finish", "record"} => verdict[h] # "none"

\* An admitted browser has cleared the stored hash.
TicketSpent == \A h \in Browsers : Admitted(h) => row.ticket = ""

\* A handler that holds a slot is in it, and pumps only in a full pair.
SlotOwned ==
    \A h \in Sockets :
        /\ pc[h] \in Holding =>
              /\ h \in Browsers => pair[at[h]].browser = h
              /\ h \in Agents => pair[at[h]].agent = h
        /\ pc[h] \in {"paired", "pump"} => Ready(at[h])

\* A socket is in one pair, the one its handler registered with.
SlotFilled ==
    \A p \in Sockets : \A g \in InPair(p) :
        at[g] = p /\ pc[g] \in Holding \cup {"done"}

\* The pair a handler would make does not exist before it does.
PairFresh ==
    \A h \in Sockets :
        pc[h] \in NotRegistered =>
            /\ pairs # h
            /\ pair[h].browser = None /\ pair[h].agent = None
            /\ \A g \in Sockets : at[g] # h

\* Nobody has left a pair that is in the registry...
RegisteredHeld ==
    pairs # None =>
        \A g \in InPair(pairs) : pc[g] \in Holding

\* ...and somebody has left a pair that is not.
UnregisteredLeft ==
    \A h \in Sockets :
        pc[h] \in Holding \cup {"slot"} /\ at[h] # pairs =>
            \E g \in InPair(at[h]) : pc[g] = "done"

PairingInv ==
    /\ TypeOK /\ ProgramOK /\ TicketSpent /\ TicketSingleUse /\ SlotOwned
    /\ SlotFilled /\ PairFresh /\ RegisteredHeld /\ UnregisteredLeft
    /\ RegistryNotLeaked /\ AttachedNotReoffered

-----------------------------------------------------------------------------
\* Claims of the repository that the code does not keep: TLC refutes each of
\* them, the README says with which constants and by which steps.

\* "A finished session is gone" (AttachTerminalAgent): an ended row stays
\* ended.
EndedStaysEnded ==
    [][row.status \in Ended => row'.status \in Ended \cup {Gone}]_vars

\* "The cloud closes both sockets when either ends": once the daemon's side of
\* a pair has left, the browser's does not pump on.
PeerLossEndsPump ==
    \A g \in Browsers, h \in Agents :
        (pc[h] = "done" /\ pc[g] = "pump" /\ Peer(g) = h) ~> pc[g] # "pump"

\* "Revoke a session: close both sockets": after a revoke returned, no open
\* socket of the session pumps.
RevokeClosesSockets ==
    \A r \in Revokers, h \in Sockets :
        pc[r] = "done" => ~(pc[h] = "pump" /\ sock[h] = "open")
=============================================================================

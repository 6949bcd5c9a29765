--------------------------- MODULE TerminalPickup ---------------------------
(***************************************************************************)
(* How a relayed terminal session reaches its daemon: the create route     *)
(* with the workspace's cap, the daemon's pickup long-poll with its waiter *)
(* registration, and the leases on the rows (CreateTerminalSession,        *)
(* ListPendingTerminalSessions, TerminalWait and wakeTerminalWaiters of    *)
(* internal/cloud/terminal.go under listPendingTerminalSessions of         *)
(* internal/handler/terminal.go). One workspace, one daemon.               *)
(*                                                                         *)
(* A session is named after the create request that makes it. The daemon   *)
(* (Run of internal/daemon/terminal_relay.go) has one poll at a time, for  *)
(* ever; several polls of it are at work in the cloud when it gave some up *)
(* - its timeout passed, its connection broke, it was restarted - and the  *)
(* cloud still holds their requests. Their answers reach nobody.           *)
(***************************************************************************)
EXTENDS TerminalStore, FiniteSets

CONSTANTS
    Creates,       \* requests on POST /api/daemons/:id/terminal
    Polls,         \* connections on which the daemon polls
    Waiters,       \* terminalWaiter objects, enough to always have a free one
    Cap,           \* the workspace's session cap
    PendingLimit,  \* terminalPendingLimit: rows one pickup may lease
    None

ASSUME PickupAssumption ==
    /\ Cap \in Nat \ {0} /\ PendingLimit \in Nat \ {0}
    /\ IsFiniteSet(Creates) /\ IsFiniteSet(Polls) /\ IsFiniteSet(Waiters)
    /\ Cardinality(Waiters) > Cardinality(Polls)
    /\ None \notin Waiters \cup Polls

VARIABLES
    rows,      \* the workspace's rows; Gone before a create and after a prune
    cpc,       \* what a create request does next
    ppc,       \* what a poll does next
    waiting,   \* the waiter a poll registered with, or None
    batch,     \* the rows a poll's list selected
    waiter,    \* terminalWait[daemon]: the registered waiter, or None
    token,     \* the waiters whose channel holds a wake-up
    current,   \* the poll whose answer the daemon waits for, or None
    due,       \* how many hand-overs of a session are due: one, and one more for
               \* each lease on it that was reclaimed, less those it has had
    handed,    \* the sessions that were ever handed to the daemon
    alone      \* the polls that no other poll overlapped so far

vars == <<rows, cpc, ppc, waiting, batch, waiter, token, current, due, handed, alone>>
daemonVars == <<current, due, handed, alone>>
pollVars == <<ppc, waiting, batch, waiter, token, daemonVars>>

DueCap == 2   \* bound: more hand-overs than this are not told apart

CreatePCs == {"idle", "insert", "wake", "done", "limited"}
\* First list: reclaim, select, lease; then leave at once, or park, leave and
\* list once more: reclaim2, select2, lease2.
PollPCs == {"idle", "reclaim", "select", "lease", "empty", "park", "leave",
            "leaveParked", "reclaim2", "select2", "lease2", "respond"}

TypeOK ==
    /\ rows \in [Creates -> Row]
    /\ cpc \in [Creates -> CreatePCs]
    /\ ppc \in [Polls -> PollPCs]
    /\ waiting \in [Polls -> Waiters \cup {None}]
    /\ batch \in [Polls -> SUBSET Creates]
    /\ waiter \in Waiters \cup {None}
    /\ token \in SUBSET Waiters
    /\ current \in Polls \cup {None}
    /\ due \in [Creates -> Int]
    /\ handed \subseteq Creates
    /\ alone \subseteq Polls

NoRow == [NewRow EXCEPT !.status = Gone]

Init ==
    /\ rows = [s \in Creates |-> NoRow]
    /\ cpc = [s \in Creates |-> "idle"]
    /\ ppc = [p \in Polls |-> "idle"]
    /\ waiting = [p \in Polls |-> None]
    /\ batch = [p \in Polls |-> {}]
    /\ waiter = None
    /\ token = {}
    /\ current = None
    /\ due = [s \in Creates |-> 1]
    /\ handed = {}
    /\ alone = {}

LiveRows == {s \in Creates : rows[s].status \in Live}

-----------------------------------------------------------------------------
\* CreateTerminalSession: the count of live rows, the insert and the wake-up
\* are three steps.

CreateCount(s) ==
    /\ cpc[s] = "idle"
    /\ cpc' = [cpc EXCEPT ![s] = IF Cardinality(LiveRows) >= Cap
                                 THEN "limited" ELSE "insert"]
    /\ UNCHANGED <<rows, pollVars>>

CreateInsert(s) ==
    /\ cpc[s] = "insert"
    /\ rows' = [rows EXCEPT ![s] = NewRow]
    /\ cpc' = [cpc EXCEPT ![s] = "wake"]
    /\ UNCHANGED pollVars

\* wakeTerminalWaiters: a token for the registered waiter, if there is one.
\* Its channel holds one.
CreateWake(s) ==
    /\ cpc[s] = "wake"
    /\ token' = IF waiter = None THEN token ELSE token \cup {waiter}
    /\ cpc' = [cpc EXCEPT ![s] = "done"]
    /\ UNCHANGED <<rows, ppc, waiting, batch, waiter, daemonVars>>

-----------------------------------------------------------------------------
\* The poll. The request that arrives is the one the daemon waits for, or one
\* it has given up on the way.
Arrives(p) ==
    /\ \/ current = None /\ current' = p
       \/ UNCHANGED current
    /\ alone' = IF \A q \in Polls : ppc[q] = "idle" THEN {p} ELSE {}

\* Mutants.

\* Registering only when parking, after the list.
PollRegisterNothing(p) ==
    /\ ppc[p] = "idle"
    /\ waiting' = [waiting EXCEPT ![p] = CHOOSE w \in Waiters : w # waiter]
    /\ ppc' = [ppc EXCEPT ![p] = "reclaim"]
    /\ Arrives(p)
    /\ UNCHANGED <<rows, cpc, batch, waiter, token, due, handed>>

\* A list that selects and returns without taking the lease.
LeaseNothing(p) ==
    /\ ppc[p] \in {"lease", "lease2"}
    /\ ppc' = [ppc EXCEPT ![p] = IF @ = "lease" THEN "leave" ELSE "respond"]
    /\ UNCHANGED <<rows, cpc, waiting, batch, waiter, token, daemonVars>>

\* TerminalWait: join the registered waiter or register a new one.
PollRegister(p) ==
    /\ ppc[p] = "idle"
    /\ \E w \in Waiters :
          /\ waiter # None => w = waiter
          /\ waiter = None => \A q \in Polls : waiting[q] # w
          /\ waiter' = w
          /\ waiting' = [waiting EXCEPT ![p] = w]
          /\ token' = IF waiter = None THEN token \ {w} ELSE token
    /\ ppc' = [ppc EXCEPT ![p] = "reclaim"]
    /\ Arrives(p)
    /\ UNCHANGED <<rows, cpc, batch, due, handed>>

\* ListPendingTerminalSessions: reclaim the leases that ran out.
ListReclaim(p) ==
    /\ ppc[p] \in {"reclaim", "reclaim2"}
    /\ rows' = [s \in Creates |-> ReclaimLease(rows[s])]
    /\ due' = [s \in Creates |-> IF rows'[s] # rows[s] /\ due[s] < DueCap
                                 THEN due[s] + 1 ELSE due[s]]
    /\ ppc' = [ppc EXCEPT ![p] = IF @ = "reclaim" THEN "select" ELSE "select2"]
    /\ UNCHANGED <<cpc, waiting, batch, waiter, token, current, handed, alone>>

\* Select the oldest pending rows, PendingLimit at most.
Selections ==
    LET all == {s \in Creates : Selectable(rows[s])}
    IN {b \in SUBSET all :
          /\ Cardinality(b) = IF Cardinality(all) < PendingLimit
                              THEN Cardinality(all) ELSE PendingLimit
          /\ \A s \in b, t \in all \ b : rows[s].created >= rows[t].created}

ListSelect(p) ==
    /\ ppc[p] \in {"select", "select2"}
    /\ \E b \in Selections :
          /\ batch' = [batch EXCEPT ![p] = b]
          /\ ppc' = [ppc EXCEPT ![p] =
                       CASE b # {} -> IF @ = "select" THEN "lease" ELSE "lease2"
                         [] b = {} /\ @ = "select" -> "empty"
                         [] OTHER -> "respond"]
    /\ UNCHANGED <<rows, cpc, waiting, waiter, token, daemonVars>>

\* Lease the selected rows that are still pending. The batch is answered as it
\* was selected, whatever the update did.
ListLease(p) ==
    /\ ppc[p] \in {"lease", "lease2"}
    /\ rows' = [s \in Creates |-> IF s \in batch[p] THEN LeaseRow(rows[s])
                                  ELSE rows[s]]
    /\ ppc' = [ppc EXCEPT ![p] = IF @ = "lease" THEN "leave" ELSE "respond"]
    /\ UNCHANGED <<cpc, waiting, batch, waiter, token, daemonVars>>

\* A statement fails, the caller is not who it says, or the request's context
\* is done: the handler answers an error and returns. Only the second list
\* comes after the registration was given up.
ListError(p) ==
    /\ ppc[p] \in {"reclaim", "select", "lease", "reclaim2", "select2", "lease2"}
    /\ ppc' = [ppc EXCEPT ![p] = "idle"]
    /\ waiting' = [waiting EXCEPT ![p] = None]
    /\ batch' = [batch EXCEPT ![p] = {}]
    /\ current' = IF current = p THEN None ELSE current
    /\ UNCHANGED <<rows, cpc, waiter, token, due, handed, alone>>

\* Nothing pending: park, or leave when the request asked for no wait.
PollEmpty(p) ==
    /\ ppc[p] = "empty"
    /\ \E next \in {"park", "leave"} : ppc' = [ppc EXCEPT ![p] = next]
    /\ UNCHANGED <<rows, cpc, waiting, batch, waiter, token, daemonVars>>

\* The park ends with a token, the timeout or the request's context.
ParkWoken(p) ==
    /\ ppc[p] = "park"
    /\ waiting[p] \in token
    /\ token' = token \ {waiting[p]}
    /\ ppc' = [ppc EXCEPT ![p] = "leaveParked"]
    /\ UNCHANGED <<rows, cpc, waiting, batch, waiter, daemonVars>>

ParkTimeout(p) ==
    /\ ppc[p] = "park"
    /\ ppc' = [ppc EXCEPT ![p] = "leaveParked"]
    /\ UNCHANGED <<rows, cpc, waiting, batch, waiter, token, daemonVars>>

\* releaseTerminalWait: the entry goes if it is still this waiter, whoever
\* else shares it.
Leave(p) ==
    /\ ppc[p] \in {"leave", "leaveParked"}
    /\ waiter' = IF waiter = waiting[p] THEN None ELSE waiter
    /\ waiting' = [waiting EXCEPT ![p] = None]
    /\ ppc' = [ppc EXCEPT ![p] = IF @ = "leave" THEN "respond" ELSE "reclaim2"]
    /\ UNCHANGED <<rows, cpc, batch, token, daemonVars>>

\* The answer reaches the daemon if it still waits for it; it starts serving
\* what it was handed and polls again.
Respond(p) ==
    /\ ppc[p] = "respond"
    /\ IF current = p
       THEN /\ due' = [s \in Creates |-> IF s \in batch[p] THEN due[s] - 1 ELSE due[s]]
            /\ handed' = handed \cup batch[p]
            /\ current' = None
       ELSE UNCHANGED <<current, due, handed>>
    /\ ppc' = [ppc EXCEPT ![p] = "idle"]
    /\ batch' = [batch EXCEPT ![p] = {}]
    /\ UNCHANGED <<rows, cpc, waiting, waiter, token, alone>>

\* The daemon's timeout passes, its connection breaks or it restarts: it gives
\* its poll up, which the cloud still works on.
GiveUp ==
    /\ current # None
    /\ current' = None
    /\ UNCHANGED <<rows, cpc, ppc, waiting, batch, waiter, token, due, handed, alone>>

-----------------------------------------------------------------------------
\* What else happens to the rows: the daemon attaches to a session it was
\* handed, the session ends or is revoked, the sweep, the clock
\* (TerminalPairing has their steps).

Attach(s) ==
    /\ s \in handed /\ AttachAllowed(rows[s])
    /\ rows' = [rows EXCEPT ![s] = AttachRow(@)]
    /\ UNCHANGED <<cpc, pollVars>>

End(s) ==
    /\ rows' = [rows EXCEPT ![s] = FinishRow(@, "closed")]
    /\ UNCHANGED <<cpc, pollVars>>

Sweep ==
    /\ rows' = [s \in Creates |-> SweepRow(rows[s])]
    /\ UNCHANGED <<cpc, pollVars>>

Tick ==
    /\ rows' = [s \in Creates |-> AgeRow(rows[s])]
    /\ UNCHANGED <<cpc, pollVars>>

CreateStep(s) == CreateCount(s) \/ CreateInsert(s) \/ CreateWake(s)

PollStep(p) ==
    \/ PollRegister(p) \/ ListReclaim(p) \/ ListSelect(p) \/ ListLease(p)
    \/ ListError(p) \/ PollEmpty(p) \/ ParkWoken(p) \/ ParkTimeout(p)
    \/ Leave(p) \/ Respond(p)

Next ==
    \/ \E s \in Creates : CreateStep(s) \/ Attach(s) \/ End(s)
    \/ \E p \in Polls : PollStep(p)
    \/ GiveUp \/ Sweep \/ Tick

Spec == Init /\ [][Next]_vars

-----------------------------------------------------------------------------
\* Properties.

\* Never handed out, and no lease on it was ever reclaimed.
Fresh(s) == due[s] = 1 /\ s \notin handed

\* A parked poll is told of s: creates look up the waiter it is registered with
\* and s is new. A poll that is alone is told of every session.
ToBeTold(p, s) == p \in alone \/ (waiter = waiting[p] /\ Fresh(s))

\* A token for p has been taken by a poll that shares p's waiter, and is about
\* to deregister it.
TakenByOther(p) ==
    \E q \in Polls \ {p} : ppc[q] = "leaveParked" /\ waiting[q] = waiting[p]

\* The wake-up is not lost between TerminalWait's registration and the park:
\* while a poll is parked, a session it is to be told of and could pick up has
\* left a token in the poll's channel, or is about to, or the token went to a
\* poll that shares the waiter. Polls that overlap share one waiter, and the
\* first to leave deregisters it (releaseTerminalWait); a session that another
\* poll reclaims wakes nobody.
NoLostWakeup ==
    \A p \in Polls, s \in Creates :
        ppc[p] = "park" /\ Selectable(rows[s]) /\ ToBeTold(p, s) =>
            \/ waiting[p] \in token
            \/ cpc[s] = "wake" /\ waiter = waiting[p]
            \/ TakenByOther(p)

\* A lease is exclusive: a session is handed to the daemon again only after a
\* lease on it was reclaimed, so one shell is started for it, however many
\* polls select the same row before one of them leases it.
LeaseExclusive == \A s \in Creates : due[s] >= 0

\* Why these hold, for any number of polls: the invariant that
\* TerminalPickup_proofs rests on.

Registered == {"reclaim", "select", "lease", "empty", "park", "leave", "leaveParked"}

\* A registered poll has a waiter, a poll that is alone the one that creates
\* look up.
WaiterKnown ==
    \A p \in Polls : ppc[p] \in Registered =>
        waiting[p] # None /\ (p \in alone => waiting[p] = waiter)

AloneIsAlone == \A p \in alone : \A q \in Polls \ {p} : ppc[q] = "idle"

\* From an empty list to the end of the park, what can be picked up is new.
EmptyListTold ==
    \A p \in Polls, s \in Creates :
        ppc[p] \in {"empty", "park"} /\ Selectable(rows[s]) /\ ToBeTold(p, s) =>
            waiting[p] \in token \/ cpc[s] = "wake" \/ TakenByOther(p)

\* s may be selected, or was selected by the poll the daemon waits for.
ToBeLeased(s) ==
    \/ cpc[s] \notin {"wake", "done"}
    \/ rows[s].status = "pending"
    \/ \E p \in Polls :
          current = p /\ ppc[p] \in {"lease", "lease2"} /\ s \in batch[p]

\* s is in the answer that the daemon waits for.
ToBeHanded(s) ==
    \E p \in Polls : current = p /\ ppc[p] \in {"leave", "respond"} /\ s \in batch[p]

HandOversPaid ==
    \A s \in Creates :
        /\ due[s] >= (IF ToBeLeased(s) THEN 1 ELSE 0) + (IF ToBeHanded(s) THEN 1 ELSE 0)
        /\ s \notin handed => due[s] >= 1

BatchesPlaced ==
    \A p \in Polls :
        /\ ppc[p] \notin {"lease", "leave", "lease2", "respond"} => batch[p] = {}
        /\ \A s \in batch[p] : cpc[s] \in {"wake", "done"}

UnmadeGone == \A s \in Creates : cpc[s] \notin {"wake", "done"} => rows[s].status = Gone

PickupInv ==
    /\ WaiterKnown /\ AloneIsAlone /\ EmptyListTold
    /\ HandOversPaid /\ BatchesPlaced /\ UnmadeGone

-----------------------------------------------------------------------------
\* Claims of the repository that the code does not keep: TLC refutes each of
\* them, the README says with which constants and by which steps.

\* CreateTerminalSession ("It enforces the workspace concurrency cap"): the
\* live sessions of a workspace never exceed its cap.
CapRespected == Cardinality(LiveRows) <= Cap
=============================================================================

---------------------------- MODULE TerminalStore ----------------------------
(***************************************************************************)
(* The row the cloud keeps for one relayed terminal session, and the SQL   *)
(* statements internal/cloud/terminal.go runs against it.                  *)
(*                                                                         *)
(* Every statement is one operator from the stored row to the row after    *)
(* the statement; a WHERE clause that does not match leaves the row as it  *)
(* is, and a statement is atomic, as the database makes it.                *)
(*                                                                         *)
(* Timestamps are kept as ages: how long ago the column was written, in    *)
(* units of the model's clock, saturating at AgeCap, which lies past every *)
(* limit the code compares an age with. A NULL column is NoTime.           *)
(***************************************************************************)
EXTENDS Integers

CONSTANTS
    TicketTTL,       \* terminalTicketTTL: the browser's ticket is valid
    LeaseTTL,        \* terminalLeaseDuration: an offer is the daemon's own
    PendingExpiry,   \* terminalPendingExpiry: a session never attached fails
    ActiveMaxAge,    \* terminalActiveMaxAge: an active session fails
    Retention,       \* terminalRetention: a finished row is deleted
    AgeCap           \* ages above this are not told apart

ASSUME StoreAssumption ==
    /\ TicketTTL \in Nat /\ LeaseTTL \in Nat /\ PendingExpiry \in Nat
    /\ ActiveMaxAge \in Nat /\ Retention \in Nat /\ AgeCap \in Nat
    /\ TicketTTL < AgeCap /\ LeaseTTL < AgeCap /\ PendingExpiry < AgeCap
    /\ ActiveMaxAge < AgeCap /\ Retention < AgeCap

Live  == {"pending", "offered", "active"}
Ended == {"closed", "failed"}
Gone  == "gone"                     \* no row: deleted by the sweep

NoTime == -1
Time   == 0..AgeCap
Ages   == {NoTime} \cup Time

\* The columns of database.TerminalSession that a statement tests.
Row == [status : Live \cup Ended \cup {Gone},
        ticket : {"hash", ""},      \* ticket_hash, cleared when consumed
        created : Time,
        leased : Ages,
        started : Ages,
        updated : Time]

\* What CreateTerminalSession inserts.
NewRow == [status |-> "pending", ticket |-> "hash", created |-> 0,
           leased |-> NoTime, started |-> NoTime, updated |-> 0]

-----------------------------------------------------------------------------
\* AuthenticateTerminalTicket up to the compare-and-swap: the row was found,
\* has not ended, is not older than the ticket and still holds the hash.
TicketValid(r) ==
    /\ r.status \in Live
    /\ r.created <= TicketTTL
    /\ r.ticket # ""

\* The compare-and-swap itself: WHERE id = ? AND ticket_hash = ?. It does not
\* test the status again.
TicketUnconsumed(r) == r.status # Gone /\ r.ticket # ""
ConsumeTicket(r) == [r EXCEPT !.ticket = "", !.updated = 0]

\* ListPendingTerminalSessions, first statement: leases that ran out.
ReclaimWithoutStatus(r) ==
    IF r.status # Gone /\ r.leased > LeaseTTL
    THEN [r EXCEPT !.status = "pending", !.leased = NoTime, !.updated = 0]
    ELSE r

ReclaimLease(r) ==
    IF r.status = "offered" /\ r.leased > LeaseTTL
    THEN [r EXCEPT !.status = "pending", !.leased = NoTime, !.updated = 0]
    ELSE r

\* Second statement: the rows it selects.
Selectable(r) == r.status = "pending" /\ r.created < PendingExpiry

\* Third statement: the lease of the selected rows, guarded by the status.
LeaseRow(r) ==
    IF r.status = "pending"
    THEN [r EXCEPT !.status = "offered", !.leased = 0, !.updated = 0]
    ELSE r

\* AttachTerminalAgent: the test made on the row it read, whether that row
\* calls for the update, and the update, whose WHERE clause is the id alone.
AttachAllowed(r) == r.status \in Live
NeedsAttach(r)   == r.status # "active" \/ r.started = NoTime
AttachRow(r) ==
    IF r.status = Gone THEN r
    ELSE [r EXCEPT !.status = "active", !.started = 0, !.updated = 0]

\* FinishTerminalSession and CloseTerminalSession: an ended row is untouched.
FinishRow(r, status) ==
    IF r.status \in Live THEN [r EXCEPT !.status = status, !.updated = 0]
    ELSE r

RevokeRow(r) == FinishRow(r, "closed")

\* SweepTerminalSessions. A row matches at most one of its three statements,
\* since the first two stamp updated_at with the sweep's own time.
StartedOrCreated(r) == IF r.started = NoTime THEN r.created ELSE r.started

\* (Mutant: an active row never expires.)
SweepWithoutActive(r) ==
    IF r.status \in {"pending", "offered"} /\ r.created > PendingExpiry
    THEN [r EXCEPT !.status = "failed", !.updated = 0]
    ELSE IF r.status \in Ended /\ r.updated > Retention
         THEN [r EXCEPT !.status = Gone]
         ELSE r

SweepRow(r) ==
    CASE r.status \in {"pending", "offered"} /\ r.created > PendingExpiry ->
            [r EXCEPT !.status = "failed", !.updated = 0]
      [] r.status = "active" /\ StartedOrCreated(r) > ActiveMaxAge ->
            [r EXCEPT !.status = "failed", !.updated = 0]
      [] r.status \in Ended /\ r.updated > Retention ->
            [r EXCEPT !.status = Gone]
      [] OTHER -> r

\* One unit of time passes for a column and for a row.
Older(a) == IF a = NoTime \/ a = AgeCap THEN a ELSE a + 1
AgeRow(r) ==
    IF r.status = Gone THEN r
    ELSE [r EXCEPT !.created = Older(r.created), !.leased = Older(r.leased),
                   !.started = Older(r.started), !.updated = Older(r.updated)]
=============================================================================

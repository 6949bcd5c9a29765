------------------------ MODULE WebhookRelay_proofs ------------------------
(***************************************************************************)
(* Proofs about WebhookRelay, for any number of requests, polls, losses    *)
(* and restarts and any batch size: type correctness, no run that is not   *)
(* due, and the refinement of WebhookQueue up to the lease of a poll that  *)
(* another one overlapped.                                                 *)
(***************************************************************************)
EXTENDS WebhookRelay, WellFoundedInduction, TLAPS

\* A non-empty set of natural numbers has a least element.
LEMMA LeastNat ==
  ASSUME NEW T \in SUBSET Nat, T # {}
  PROVE  \E m \in T : \A k \in T : m <= k
<1>1. PICK m \in T : \A k \in T : ~(<<k, m>> \in OpToRel(<, Nat))
  BY WFMin, NatLessThanWellFounded
<1>2. \A k \in T : ~(k < m)
  BY <1>1 DEF OpToRel
<1> QED  BY <1>2

\* A batch that is not empty has an oldest request.
LEMMA OldestInBatch ==
  ASSUME NEW S \in SUBSET Requests, S # {}
  PROVE  Oldest(S) \in S
<1>1. S \in SUBSET Nat
  BY RelayAssumption DEF Requests
<1>2. PICK m \in S : \A k \in S : m <= k
  BY <1>1, LeastNat
<1> QED  BY <1>2 DEF Oldest

-----------------------------------------------------------------------------
\* The queue and the loop start empty.
LEMMA RelayInit == Init => TypeOK /\ RelayInv
<1> SUFFICES ASSUME Init PROVE TypeOK /\ RelayInv
  OBVIOUS
<1>1. TypeOK
  BY RelayAssumption DEF Init, TypeOK, Rows, Handlers, Loops, Idle, NoPoll, Results, NoResult
<1>2. RunsPaid
  BY DEF Init, RunsPaid, ToBeLeased, ToBeRun, Idle, NoPoll
<1>3. BatchesPlaced /\ AloneUndisturbed /\ ReportsHonest
  BY DEF Init, BatchesPlaced, AloneUndisturbed, ReportsHonest, Idle, NoPoll
<1> QED  BY <1>1, <1>2, <1>3 DEF RelayInv

\* Changing one field of a row, a handler or the loop keeps its type.
LEMMA RowFields ==
  ASSUME NEW x \in Rows
  PROVE  /\ [x EXCEPT !.status = "pending", !.stale = FALSE] \in Rows
         /\ [x EXCEPT !.status = "leased", !.stale = FALSE] \in Rows
         /\ [x EXCEPT !.status = "pending"] \in Rows
         /\ [x EXCEPT !.stale = TRUE] \in Rows
         /\ \A res \in Results : [x EXCEPT !.status = "done", !.result = res] \in Rows
  BY DEF Rows

\* Every step keeps the types.
LEMMA TypeStep == TypeOK /\ [Next]_vars => TypeOK'
<1> SUFFICES ASSUME TypeOK, [Next]_vars PROVE TypeOK'
  OBVIOUS
<1> USE DEF TypeOK, history
<1>1. ASSUME NEW r \in Requests, EnqueueWebhook(r) PROVE TypeOK'
  <2>2. row' \in [Requests -> Rows]
    BY <1>1, RowFields DEF EnqueueWebhook
  <2> QED  BY <1>1, <2>2 DEF EnqueueWebhook
<1>2. ASSUME NEW r \in Requests, LeaseExpires(r) PROVE TypeOK'
  <2>1. row' \in [Requests -> Rows]
    BY <1>2, RowFields DEF LeaseExpires
  <2>2. due' \in [Requests -> Int]
    BY <1>2 DEF LeaseExpires
  <2> QED  BY <1>2, <2>1, <2>2 DEF LeaseExpires
<1>3. ASSUME NEW p \in Polls, ListReclaim(p) PROVE TypeOK'
  <2>1. row' \in [Requests -> Rows]
    BY <1>3, RowFields DEF ListReclaim
  <2>2. poll' \in [Polls -> Handlers]
    BY <1>3 DEF ListReclaim, Handlers
  <2> QED  BY <1>3, <2>1, <2>2 DEF ListReclaim
<1>4. ASSUME NEW p \in Polls, ListSelect(p) PROVE TypeOK'
  BY <1>4 DEF ListSelect, Handlers
<1>5. ASSUME NEW p \in Polls, ListLease(p) PROVE TypeOK'
  <2>1. row' \in [Requests -> Rows]
    BY <1>5, RowFields DEF ListLease
  <2>2. poll' \in [Polls -> Handlers]
    BY <1>5 DEF ListLease, Handlers
  <2> QED  BY <1>5, <2>1, <2>2 DEF ListLease
<1>6. ASSUME NEW p \in Polls, Respond(p) PROVE TypeOK'
  BY <1>6 DEF Respond, Idle, NoPoll, Handlers, Loops
<1>7. ASSUME NEW p \in Polls, ListError(p) PROVE TypeOK'
  BY <1>7, RelayAssumption DEF ListError, Fails, Idle, NoPoll, Handlers, Loops
<1>8. ASSUME NEW m \in reports, CompleteWebhook(m) PROVE TypeOK'
  <2>1. m[1] \in Requests /\ m[2] \in Results
    OBVIOUS
  <2>2. row' \in [Requests -> Rows]
    BY <1>8, <2>1, RowFields DEF CompleteWebhook
  <2>3. daemon' \in Loops /\ TypeOK!4' /\ TypeOK!5'
    BY <1>8 DEF CompleteWebhook, Advance, Idle, Loops
  <2> QED  BY <1>8, <2>2, <2>3 DEF CompleteWebhook
<1>9. ASSUME NEW p \in Polls, PollOnce(p) PROVE TypeOK'
  BY <1>9 DEF PollOnce, Idle, Handlers, Loops
<1>10. ASSUME NEW res \in Results, Process(res) PROVE TypeOK'
  <2> DEFINE r == Oldest(daemon.batch)
  <2>1. r \in daemon.batch /\ daemon.batch \in SUBSET Requests
    BY <1>10, OldestInBatch DEF Process, Loops
  <2> HIDE DEF r
  <2>2. produced' \in [Requests -> SUBSET Results] /\ due' \in [Requests -> Int]
    BY <1>10, <2>1 DEF Process, r
  <2>3. daemon' \in Loops /\ TypeOK!4' /\ TypeOK!5'
    BY <1>10, <2>1 DEF Process, Loops, r
  <2> QED  BY <1>10, <2>2, <2>3 DEF Process
<1>11. CASE Report
  <2>1. reports' \subseteq Requests \X Results
    BY <1>11 DEF Report
  <2> QED  BY <1>11, <2>1 DEF Report, Loops
<1>12. CASE PollFails
  BY <1>12, RelayAssumption DEF PollFails, Fails, Idle, Loops
<1>13. CASE ReportFails
  <2>1. reports' \subseteq Requests \X Results
    BY <1>13 DEF ReportFails
  <2>2. daemon' \in Loops /\ TypeOK!4' /\ TypeOK!5'
    BY <1>13 DEF ReportFails, Advance, Idle, Loops
  <2>3. losses' \in 0..MaxLosses
    BY <1>13, RelayAssumption DEF ReportFails, Fails
  <2> QED  BY <1>13, <2>1, <2>2, <2>3 DEF ReportFails
<1>14. CASE Restart
  BY <1>14, RelayAssumption DEF Restart, Idle, Loops
<1>15. CASE UNCHANGED vars
  BY <1>15 DEF vars
<1> QED
  BY <1>1, <1>2, <1>3, <1>4, <1>5, <1>6, <1>7, <1>8, <1>9, <1>10, <1>11, <1>12,
     <1>13, <1>14, <1>15 DEF Next, HandlerStep, DaemonStep

-----------------------------------------------------------------------------
\* The types of the parts that the proofs below take apart.
LEMMA PartTypes ==
  ASSUME TypeOK
  PROVE  /\ \A r \in Requests : row[r] \in Rows /\ due[r] \in Int
         /\ \A p \in Polls : poll[p] \in Handlers /\ poll[p].batch \in SUBSET Requests
         /\ daemon \in Loops /\ daemon.batch \in SUBSET Requests
         /\ \A m \in reports : m[1] \in Requests /\ m[2] \in Results
  BY DEF TypeOK, Handlers, Loops

\* What a reclaim and a lease do to each row and each handler.
LEMMA ReclaimEffect ==
  ASSUME TypeOK, NEW p \in Polls, ListReclaim(p)
  PROVE  /\ \A r \in Requests :
              \/ row'[r] = row[r]
              \/ /\ row[r].status = "leased" /\ row[r].stale
                 /\ row'[r].status = "pending"
         /\ poll[p].pc = "reclaim"
         /\ poll'[p].pc = "select" /\ poll'[p].batch = poll[p].batch
         /\ \A q \in Polls \ {p} : poll'[q] = poll[q]
         /\ UNCHANGED <<daemon, reports, due, alone, produced>>
<1>1. ASSUME NEW r \in Requests
      PROVE  \/ row'[r] = row[r]
             \/ /\ row[r].status = "leased" /\ row[r].stale
                /\ row'[r].status = "pending"
  BY PartTypes DEF ListReclaim, Rows
<1> QED  BY <1>1, PartTypes DEF ListReclaim, TypeOK, Handlers, history

LEMMA LeaseEffect ==
  ASSUME TypeOK, NEW p \in Polls, ListLease(p)
  PROVE  /\ \A r \in poll[p].batch : row'[r].status = "leased" /\ ~row'[r].stale
         /\ \A r \in Requests \ poll[p].batch : row'[r] = row[r]
         /\ poll[p].pc = "lease"
         /\ poll'[p].pc = "respond" /\ poll'[p].batch = poll[p].batch
         /\ \A q \in Polls \ {p} : poll'[q] = poll[q]
         /\ UNCHANGED <<daemon, reports, due, alone, produced>>
<1>1. ASSUME NEW r \in poll[p].batch
      PROVE  row'[r].status = "leased" /\ ~row'[r].stale
  <2>1. row'[r] = [row[r] EXCEPT !.status = "leased", !.stale = FALSE]
    BY PartTypes DEF ListLease
  <2> QED  BY <2>1, PartTypes DEF Rows
<1>2. ASSUME NEW r \in Requests \ poll[p].batch
      PROVE  row'[r] = row[r]
  BY DEF ListLease
<1> QED  BY <1>1, <1>2, PartTypes DEF ListLease, TypeOK, Handlers, history

\* Every step keeps batches in one place and reports honest.
LEMMA PlacedStep ==
  ASSUME TypeOK, BatchesPlaced, ReportsHonest, [Next]_vars
  PROVE  BatchesPlaced' /\ ReportsHonest'
<1> USE PartTypes, RelayAssumption DEF BatchesPlaced, ReportsHonest, history
<1>1. ASSUME NEW r \in Requests, EnqueueWebhook(r) \/ LeaseExpires(r)
      PROVE  BatchesPlaced' /\ ReportsHonest'
  BY <1>1 DEF EnqueueWebhook, LeaseExpires, TypeOK, Rows
<1>2. ASSUME NEW p \in Polls, ListReclaim(p) PROVE BatchesPlaced' /\ ReportsHonest'
  BY <1>2, ReclaimEffect
<1>3. ASSUME NEW p \in Polls, ListSelect(p) PROVE BatchesPlaced' /\ ReportsHonest'
  BY <1>3 DEF ListSelect, TypeOK, Rows
<1>4. ASSUME NEW p \in Polls, ListLease(p) PROVE BatchesPlaced' /\ ReportsHonest'
  BY <1>4, LeaseEffect
<1>5. ASSUME NEW p \in Polls, Respond(p) PROVE BatchesPlaced' /\ ReportsHonest'
  BY <1>5 DEF Respond, TypeOK, Idle, NoPoll
<1>6. ASSUME NEW p \in Polls, ListError(p) PROVE BatchesPlaced' /\ ReportsHonest'
  BY <1>6 DEF ListError, TypeOK, Idle, NoPoll
<1>7. ASSUME NEW m \in reports, CompleteWebhook(m) PROVE BatchesPlaced' /\ ReportsHonest'
  BY <1>7 DEF CompleteWebhook, TypeOK, Advance, Idle, Rows
<1>8. ASSUME NEW p \in Polls, PollOnce(p) PROVE BatchesPlaced' /\ ReportsHonest'
  BY <1>8 DEF PollOnce, TypeOK, Idle
<1>9. ASSUME NEW res \in Results, Process(res) PROVE BatchesPlaced' /\ ReportsHonest'
  <2>1. Oldest(daemon.batch) \in daemon.batch
    BY <1>9, OldestInBatch DEF Process, TypeOK
  <2> QED  BY <1>9, <2>1 DEF Process, TypeOK
<1>10. CASE Report
  BY <1>10 DEF Report, TypeOK
<1>12. CASE ReportFails
  BY <1>12 DEF ReportFails, TypeOK, Advance, Idle
<1>13. CASE PollFails \/ Restart
  BY <1>13 DEF PollFails, Restart, Idle
<1>11. CASE UNCHANGED vars
  BY <1>11 DEF vars
<1> QED
  BY <1>1, <1>2, <1>3, <1>4, <1>5, <1>6, <1>7, <1>8, <1>9, <1>10, <1>11,
     <1>12, <1>13 DEF Next, HandlerStep, DaemonStep

\* Every step leaves a poll that is alone undisturbed: nobody else leases what
\* it selected, and a report answers only what is leased.
LEMMA AloneStep ==
  ASSUME TypeOK, AloneUndisturbed, [Next]_vars
  PROVE  AloneUndisturbed'
<1> USE PartTypes DEF AloneUndisturbed, history
<1>0. alone \subseteq Polls
  BY DEF TypeOK
<1>1. ASSUME NEW r \in Requests, EnqueueWebhook(r) \/ LeaseExpires(r)
      PROVE  AloneUndisturbed'
  BY <1>0, <1>1 DEF EnqueueWebhook, LeaseExpires, TypeOK, Rows
<1>2. ASSUME NEW p \in Polls, ListReclaim(p) PROVE AloneUndisturbed'
  BY <1>0, <1>2, ReclaimEffect
<1>3. ASSUME NEW p \in Polls, ListSelect(p) PROVE AloneUndisturbed'
  BY <1>0, <1>3 DEF ListSelect, TypeOK, Rows
<1>4. ASSUME NEW p \in Polls, ListLease(p) PROVE AloneUndisturbed'
  BY <1>0, <1>4, LeaseEffect
<1>5. ASSUME NEW p \in Polls, Respond(p) \/ ListError(p) PROVE AloneUndisturbed'
  BY <1>0, <1>5 DEF Respond, ListError, TypeOK, NoPoll
<1>6. ASSUME NEW m \in reports, CompleteWebhook(m) PROVE AloneUndisturbed'
  BY <1>0, <1>6 DEF CompleteWebhook, TypeOK, Rows
<1>7. ASSUME NEW p \in Polls, PollOnce(p) PROVE AloneUndisturbed'
  BY <1>0, <1>7 DEF PollOnce, TypeOK
<1>8. ASSUME NEW res \in Results, Process(res) PROVE AloneUndisturbed'
  BY <1>0, <1>8 DEF Process, TypeOK
<1>9. CASE Report \/ PollFails \/ ReportFails \/ Restart \/ UNCHANGED vars
  BY <1>0, <1>9 DEF Report, PollFails, ReportFails, Restart, vars
<1> QED
  BY <1>1, <1>2, <1>3, <1>4, <1>5, <1>6, <1>7, <1>8, <1>9
     DEF Next, HandlerStep, DaemonStep

\* A step that lets no new run of r come and leaves what is due.
PaidAsBefore(r) ==
    /\ ToBeLeased(r)' => ToBeLeased(r)
    /\ ToBeRun(r)' => ToBeRun(r)
    /\ due'[r] = due[r]

LEMMA PaidKept ==
  ASSUME TypeOK, RunsPaid, \A r \in Requests : PaidAsBefore(r)
  PROVE  RunsPaid'
  BY PartTypes DEF RunsPaid, PaidAsBefore

\* Every step keeps the runs that may still come paid for. The cases that
\* matter: a lease that runs out pays for the run it makes possible; the lease
\* of the daemon's own poll turns a request to be leased into one to be run,
\* that of another poll hands it to nobody; and a run uses up what was due.
LEMMA PaidStep ==
  ASSUME TypeOK, BatchesPlaced, RunsPaid, [Next]_vars
  PROVE  RunsPaid'
<1> USE PartTypes, RelayAssumption DEF history
<1>1. ASSUME NEW r \in Requests, EnqueueWebhook(r) PROVE RunsPaid'
  <2>1. \A s \in Requests : PaidAsBefore(s)
    BY <1>1 DEF EnqueueWebhook, TypeOK, Rows, PaidAsBefore, ToBeLeased, ToBeRun
  <2> QED  BY <2>1, PaidKept
<1>2. ASSUME NEW r \in Requests, LeaseExpires(r) PROVE RunsPaid'
  <2>1. \A s \in Requests \ {r} : PaidAsBefore(s)
    BY <1>2 DEF LeaseExpires, TypeOK, Rows, PaidAsBefore, ToBeLeased, ToBeRun
  <2>2. /\ ToBeRun(r)' => ToBeRun(r)
        /\ due'[r] = IF due[r] < DueCap THEN due[r] + 1 ELSE due[r]
    BY <1>2 DEF LeaseExpires, TypeOK, ToBeRun
  <2>3. due'[r] >= 1 + (IF ToBeRun(r) THEN 1 ELSE 0)
    BY <2>2 DEF RunsPaid, DueCap
  <2>4. \A s \in Requests \ {r} : due'[s] >= (IF ToBeLeased(s)' THEN 1 ELSE 0)
                                             + (IF ToBeRun(s)' THEN 1 ELSE 0)
    BY <2>1 DEF RunsPaid, PaidAsBefore
  <2>5. due'[r] >= (IF ToBeLeased(r)' THEN 1 ELSE 0) + (IF ToBeRun(r)' THEN 1 ELSE 0)
    BY <2>2, <2>3
  <2> QED  BY <2>4, <2>5 DEF RunsPaid
<1>3. ASSUME NEW p \in Polls, ListReclaim(p) PROVE RunsPaid'
  <2>1. \A s \in Requests : PaidAsBefore(s)
    BY <1>3, ReclaimEffect DEF PaidAsBefore, ToBeLeased, ToBeRun
  <2> QED  BY <2>1, PaidKept
<1>4. ASSUME NEW p \in Polls, ListSelect(p) PROVE RunsPaid'
  <2>1. \A s \in Requests : PaidAsBefore(s)
    BY <1>4 DEF ListSelect, TypeOK, Rows, PaidAsBefore, ToBeLeased, ToBeRun
  <2> QED  BY <2>1, PaidKept
<1>5. ASSUME NEW p \in Polls, ListLease(p) PROVE RunsPaid'
  <2>1. /\ \A s \in Requests : due'[s] = due[s]
        /\ \A s \in poll[p].batch : row'[s].status = "leased" /\ ~row'[s].stale
        /\ \A s \in Requests \ poll[p].batch : row'[s] = row[s]
        /\ poll'[p].pc = "respond" /\ poll'[p].batch = poll[p].batch
        /\ \A q \in Polls \ {p} : poll'[q] = poll[q]
        /\ daemon' = daemon /\ poll[p].pc = "lease"
    BY <1>5, LeaseEffect
  <2>2. CASE daemon.poll # p
    <3>1. \A s \in Requests : PaidAsBefore(s)
      BY <2>1, <2>2 DEF PaidAsBefore, ToBeLeased, ToBeRun
    <3> QED  BY <3>1, PaidKept
  <2>3. CASE daemon.poll = p
    <3>1. daemon.batch = {}
      BY <2>3 DEF BatchesPlaced
    <3>2. \A s \in poll[p].batch : ~ToBeLeased(s)' /\ ToBeLeased(s)
      BY <2>1, <2>3 DEF ToBeLeased
    <3>3. \A s \in Requests \ poll[p].batch :
            ~ToBeRun(s)' /\ (ToBeLeased(s)' => ToBeLeased(s))
      BY <2>1, <2>3, <3>1 DEF ToBeLeased, ToBeRun
    <3> QED  BY <2>1, <3>2, <3>3 DEF RunsPaid
  <2> QED  BY <2>2, <2>3
<1>6. ASSUME NEW p \in Polls, Respond(p) PROVE RunsPaid'
  <2>1. \A s \in Requests : PaidAsBefore(s)
    BY <1>6 DEF Respond, TypeOK, Idle, NoPoll, PaidAsBefore, ToBeLeased, ToBeRun
  <2> QED  BY <2>1, PaidKept
<1>7. ASSUME NEW p \in Polls, ListError(p) PROVE RunsPaid'
  <2>1. \A s \in Requests : PaidAsBefore(s)
    BY <1>7 DEF ListError, TypeOK, Idle, NoPoll, PaidAsBefore, ToBeLeased, ToBeRun
  <2> QED  BY <2>1, PaidKept
<1>8. ASSUME NEW m \in reports, CompleteWebhook(m) PROVE RunsPaid'
  <2>1. \A s \in Requests : PaidAsBefore(s)
    BY <1>8 DEF CompleteWebhook, TypeOK, Advance, Idle, Rows, BatchesPlaced,
                PaidAsBefore, ToBeLeased, ToBeRun
  <2> QED  BY <2>1, PaidKept
<1>9. ASSUME NEW p \in Polls, PollOnce(p) PROVE RunsPaid'
  <2>1. \A s \in Requests : PaidAsBefore(s)
    BY <1>9 DEF PollOnce, TypeOK, Idle, BatchesPlaced, PaidAsBefore, ToBeLeased, ToBeRun
  <2> QED  BY <2>1, PaidKept
<1>10. ASSUME NEW res \in Results, Process(res) PROVE RunsPaid'
  <2>0. Oldest(daemon.batch) \in daemon.batch
    BY <1>10, OldestInBatch DEF Process, TypeOK
  <2>1. PICK r \in Requests : r = Oldest(daemon.batch) /\ r \in daemon.batch
    BY <2>0
  <2>2. /\ daemon'.batch = daemon.batch \ {r} /\ daemon'.poll = daemon.poll
        /\ row' = row /\ poll' = poll
        /\ due' = [due EXCEPT ![r] = IF res = "ran" THEN @ - 1 ELSE @]
    BY <1>10, <2>1 DEF Process, TypeOK, Loops
  <2>3. daemon.poll = None
    BY <1>10 DEF Process, BatchesPlaced
  <2>a. ToBeRun(r) /\ ~ToBeRun(r)'
    BY <2>1, <2>2, <2>3 DEF ToBeRun
  <2>b. ASSUME NEW s \in Requests PROVE ToBeLeased(s)' => ToBeLeased(s)
    BY <2>2 DEF ToBeLeased
  <2>c. ASSUME NEW s \in Requests \ {r} PROVE ToBeRun(s)' => ToBeRun(s)
    BY <2>2 DEF ToBeRun
  <2>d. ASSUME NEW s \in Requests \ {r} PROVE due'[s] = due[s]
    BY <2>2 DEF TypeOK
  <2>4. \A s \in Requests \ {r} : PaidAsBefore(s)
    BY <2>b, <2>c, <2>d DEF PaidAsBefore
  <2>5. due'[r] >= due[r] - 1
    BY <2>1, <2>2 DEF TypeOK
  <2>6. due'[r] \in Int
    BY <2>1, <2>2 DEF TypeOK
  <2>7. due'[r] >= (IF ToBeLeased(r)' THEN 1 ELSE 0) + (IF ToBeRun(r)' THEN 1 ELSE 0)
    BY <2>1, <2>a, <2>b, <2>5, <2>6 DEF RunsPaid
  <2>8. \A s \in Requests \ {r} : due'[s] >= (IF ToBeLeased(s)' THEN 1 ELSE 0)
                                             + (IF ToBeRun(s)' THEN 1 ELSE 0)
    BY <2>4 DEF RunsPaid, PaidAsBefore
  <2> QED  BY <2>1, <2>7, <2>8 DEF RunsPaid
<1>11. CASE Report \/ PollFails \/ ReportFails \/ Restart
  <2>1. row' = row /\ poll' = poll /\ due' = due
    BY <1>11 DEF Report, PollFails, ReportFails, Restart
  <2>a. daemon' \in {Idle, Advance, [daemon EXCEPT !.at = "sent"]}
    BY <1>11 DEF Report, PollFails, ReportFails, Restart
  <2>b. /\ daemon'.poll = daemon.poll \/ daemon'.poll = None
        /\ daemon'.batch = daemon.batch \/ daemon'.batch = {}
    <3>1. CASE daemon' = Idle
      BY <3>1 DEF Idle
    <3>2. CASE daemon' = Advance
      BY <3>2 DEF Advance, Idle
    <3>3. CASE daemon' = [daemon EXCEPT !.at = "sent"]
      BY <3>3 DEF Loops
    <3> QED  BY <2>a, <3>1, <3>2, <3>3
  <2>2. \A s \in Requests : PaidAsBefore(s)
    BY <2>1, <2>b DEF PaidAsBefore, ToBeLeased, ToBeRun
  <2> QED  BY <2>2, PaidKept
<1>12. CASE UNCHANGED vars
  BY <1>12 DEF vars, RunsPaid, ToBeLeased, ToBeRun
<1> QED
  BY <1>1, <1>2, <1>3, <1>4, <1>5, <1>6, <1>7, <1>8, <1>9, <1>10, <1>11, <1>12
     DEF Next, HandlerStep, DaemonStep

(***************************************************************************)
(* Type correctness of the relay, for any number of polls at once.         *)
(***************************************************************************)
THEOREM RelayTypes == Spec => []TypeOK
<1>1. Init => TypeOK
  BY RelayInit
<1> QED  BY <1>1, TypeStep, PTL DEF Spec

\* The invariant that the two theorems below use.
LEMMA RelayInvariant == Spec => [](TypeOK /\ RelayInv)
<1>1. Init => TypeOK /\ RelayInv
  BY RelayInit
<1>2. TypeOK /\ RelayInv /\ [Next]_vars => (TypeOK /\ RelayInv)'
  BY TypeStep, PlacedStep, AloneStep, PaidStep DEF RelayInv
<1> QED  BY <1>1, <1>2, PTL DEF Spec

(***************************************************************************)
(* ListPendingWebhooks: a request is run again only when a lease on it has *)
(* run out since, however many polls the daemon gave up and left at work   *)
(* in the cloud, whatever is lost and wherever the daemon restarts.        *)
(***************************************************************************)
THEOREM EveryRunIsDue == Spec => []RunsAreDue
<1>1. TypeOK /\ RelayInv => RunsAreDue
  BY PartTypes DEF RelayInv, RunsPaid, RunsAreDue
<1> QED  BY <1>1, RelayInvariant, PTL

-----------------------------------------------------------------------------
\* What the caller sees of rows of the right type.
LEMMA SeenRows ==
  ASSUME TypeOK, NEW r \in Requests
  PROVE  /\ Seen[r] = "absent" <=> row[r].status = "absent"
         /\ Seen[r] = "answered" <=> row[r].status = "done"
         /\ Seen[r] = "open" <=> row[r].status \in {"pending", "leased"}
         /\ Stored[r] = row[r].result
<1>1. row[r] \in Rows
  BY DEF TypeOK
<1> QED  BY <1>1 DEF Seen, Stored, Rows

\* A step that changes no row in the caller's eyes.
LEMMA SeenSame ==
  ASSUME \A r \in Requests :
           /\ row'[r].status = "absent" <=> row[r].status = "absent"
           /\ row'[r].status = "done" <=> row[r].status = "done"
           /\ row'[r].result = row[r].result
  PROVE  Seen' = Seen /\ Stored' = Stored
  BY DEF Seen, Stored

\* A request that enters or leaves the open ones.
LEMMA SeenChange ==
  ASSUME TypeOK, NEW r \in Requests, NEW s \in {"pending", "done"}, NEW res,
         row'[r].status = s, row'[r].result = res,
         \A q \in Requests \ {r} : row'[q] = row[q]
  PROVE  /\ Seen' = [Seen EXCEPT ![r] = IF s = "done" THEN "answered" ELSE "open"]
         /\ Stored' = [Stored EXCEPT ![r] = res]
<1>1. Stored' = [Stored EXCEPT ![r] = res]
  BY DEF Stored
<1>2. Seen' = [Seen EXCEPT ![r] = IF s = "done" THEN "answered" ELSE "open"]
  BY DEF Seen
<1> QED  BY <1>1, <1>2

\* Every step of the relay is a step of the queue, changes nothing that a
\* caller sees, or is the lease of a poll that another one overlapped. The lease
\* of a poll that was alone finds its batch still pending, so it takes no answer
\* back.
LEMMA QueueStep ==
  ASSUME TypeOK, TypeOK', RelayInv, [Next]_vars
  PROVE  [Queue!Next \/ (\E p \in Polls \ alone : ListLease(p))]_(Queue!vars)
<1> DEFINE Same == Seen' = Seen /\ Stored' = Stored /\ produced' = produced
<1> USE DEF history
<1>0. row \in [Requests -> Rows]
  BY DEF TypeOK
<1>a. ASSUME row' = row PROVE Seen' = Seen /\ Stored' = Stored
  BY <1>a DEF Seen, Stored
<1>1. ASSUME NEW r \in Requests, EnqueueWebhook(r) PROVE Queue!Submit(r)
  <2>1. /\ row'[r].status = "pending" /\ row'[r].result = row[r].result
        /\ \A q \in Requests \ {r} : row'[q] = row[q]
    BY <1>1, <1>0 DEF EnqueueWebhook, Rows
  <2>2. /\ Seen' = [Seen EXCEPT ![r] = "open"]
        /\ Stored' = [Stored EXCEPT ![r] = row[r].result]
    BY <2>1, <1>0, SeenChange DEF Rows
  <2>3. Stored' = Stored
    BY <2>2 DEF Stored
  <2>4. Seen[r] = "absent"
    BY <1>1, SeenRows DEF EnqueueWebhook
  <2> QED  BY <1>1, <2>2, <2>3, <2>4 DEF EnqueueWebhook, Queue!Submit
<1>2. ASSUME NEW r \in Requests, LeaseExpires(r) PROVE Same
  BY <1>2, <1>0, SeenSame DEF LeaseExpires, Rows
<1>3. ASSUME NEW p \in Polls, ListReclaim(p) PROVE Same
  BY <1>3, <1>0, SeenSame DEF ListReclaim, Rows
<1>5. ASSUME NEW p \in alone, ListLease(p) PROVE Same
  <2>1. \A r \in poll[p].batch : row[r].status = "pending"
    BY <1>5 DEF ListLease, RelayInv, AloneUndisturbed
  <2> QED  BY <1>5, <1>0, <2>1, SeenSame DEF ListLease, Rows
<1>6. ASSUME NEW p \in Polls, ListSelect(p) \/ Respond(p) \/ ListError(p) \/ PollOnce(p)
      PROVE  Same
  BY <1>6, <1>a DEF ListSelect, Respond, ListError, PollOnce
<1>8. ASSUME NEW m \in reports, CompleteWebhook(m)
      PROVE  Same \/ (\E r \in Requests : Queue!Answer(r))
  <2>1. m[1] \in Requests /\ m[2] \in Results /\ m[2] \in produced[m[1]]
    BY DEF TypeOK, RelayInv, ReportsHonest
  <2>2. CASE row[m[1]].status # "leased"
    BY <1>8, <2>2, <1>a DEF CompleteWebhook
  <2>3. CASE row[m[1]].status = "leased"
    <3>1. /\ row'[m[1]].status = "done" /\ row'[m[1]].result = m[2]
          /\ \A q \in Requests \ {m[1]} : row'[q] = row[q]
      BY <1>8, <2>1, <2>3, <1>0 DEF CompleteWebhook, Rows
    <3>2. /\ Seen' = [Seen EXCEPT ![m[1]] = "answered"]
          /\ Stored' = [Stored EXCEPT ![m[1]] = m[2]]
      BY <3>1, <2>1, SeenChange
    <3>3. Seen[m[1]] = "open"
      BY <2>1, <2>3, SeenRows
    <3>4. produced' = produced
      BY <1>8 DEF CompleteWebhook
    <3>5. Queue!Answer(m[1])
      BY <2>1, <3>2, <3>3, <3>4 DEF Queue!Answer
    <3> QED  BY <3>5, <2>1
  <2> QED  BY <2>2, <2>3
<1>10. ASSUME NEW res \in Results, Process(res)
       PROVE  \E r \in Requests : Queue!Process(r, res)
  <2> DEFINE r == Oldest(daemon.batch)
  <2>1. r \in daemon.batch /\ r \in Requests
    BY <1>10, OldestInBatch DEF Process, TypeOK, Loops
  <2> HIDE DEF r
  <2>2. row[r].status # "absent"
    BY <2>1 DEF RelayInv, BatchesPlaced
  <2>3. Seen[r] # "absent"
    BY <2>1, <2>2, SeenRows
  <2>4. produced' = [produced EXCEPT ![r] = @ \cup {res}] /\ row' = row
    BY <1>10 DEF Process, r
  <2>5. Queue!Process(r, res)
    BY <2>3, <2>4, <1>a DEF Queue!Process
  <2> QED  BY <2>1, <2>5
<1>11. CASE Report \/ PollFails \/ ReportFails \/ Restart \/ UNCHANGED vars
  <2>1. Same
    BY <1>11, <1>a DEF Report, PollFails, ReportFails, Restart, vars
  <2> QED  BY <2>1 DEF Queue!vars
<1>12. Same => UNCHANGED Queue!vars
  BY DEF Queue!vars
<1> HIDE DEF Same
<1> QED
  BY <1>1, <1>2, <1>3, <1>5, <1>6, <1>8, <1>10, <1>11, <1>12
     DEF Next, HandlerStep, DaemonStep, Queue!Next

(***************************************************************************)
(* The relay implements WebhookQueue but for the lease of an overlapped    *)
(* poll: an answer is a result that processing the request produced, and   *)
(* nothing else takes it back or changes it.                               *)
(***************************************************************************)
THEOREM ImplementsQueue == Spec => QueueImplemented
<1>1. Init => Queue!Init
  <2> SUFFICES ASSUME Init PROVE Queue!Init
    OBVIOUS
  <2>1. Seen = [r \in Requests |-> "absent"] /\ Stored = [r \in Requests |-> NoResult]
    BY DEF Init, Seen, Stored
  <2> QED  BY <2>1 DEF Init, Queue!Init
<1>2. TypeOK /\ TypeOK' /\ RelayInv /\ [Next]_vars
        => [Queue!Next \/ (\E p \in Polls \ alone : ListLease(p))]_(Queue!vars)
  BY QueueStep
<1> QED
  BY <1>1, <1>2, RelayInvariant, PTL DEF Spec, QueueImplemented
=============================================================================

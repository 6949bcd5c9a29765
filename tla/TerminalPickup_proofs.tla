------------------------ MODULE TerminalPickup_proofs ------------------------
(***************************************************************************)
(* Proofs about TerminalPickup, for any number of create requests and      *)
(* polls and any limits: type correctness, the wake-up that is not lost    *)
(* and the lease that is exclusive.                                        *)
(***************************************************************************)
EXTENDS TerminalPickup, FiniteSetTheorems, TLAPS

\* What the statements other than a reclaim and the insert do to a row: it
\* keeps its type, does not come back, and does not become pending or, if it is
\* too old to be selected, young again.
Tame(r, s) ==
    /\ s \in Row
    /\ r.status = Gone => s.status = Gone
    /\ s.status = "pending" => r.status = "pending"
    /\ Selectable(s) => Selectable(r)

LEMMA AgeFacts ==
  /\ AgeCap \in Nat /\ PendingExpiry \in Nat /\ LeaseTTL \in Nat
  /\ \A a \in Ages : Older(a) \in Ages
  /\ \A a \in Time : Older(a) \in Time /\ a \in Nat /\ a <= Older(a)
  /\ 0 \in Time /\ 0 \in Ages /\ NoTime \in Ages
  BY StoreAssumption DEF Older, Ages, Time, NoTime

LEMMA AgedRow ==
  ASSUME NEW r \in Row
  PROVE  Tame(r, AgeRow(r))
<1>1. CASE r.status = Gone
  BY <1>1 DEF AgeRow, Tame
<1>2. CASE r.status # Gone
  <2>1. AgeRow(r) \in Row
    BY <1>2, AgeFacts DEF AgeRow, Row
  <2>2. AgeRow(r).status = r.status /\ AgeRow(r).created = Older(r.created)
    BY <1>2 DEF AgeRow, Row
  <2>3. r.created \in Time
    BY DEF Row
  <2>4. Older(r.created) < PendingExpiry => r.created < PendingExpiry
    <3>1. r.created \in Nat /\ Older(r.created) \in Nat /\ r.created <= Older(r.created)
      BY <2>3, AgeFacts
    <3>2. PendingExpiry \in Nat
      BY AgeFacts
    <3> QED  BY <3>1, <3>2
  <2> QED  BY <1>2, <2>1, <2>2, <2>4 DEF Tame, Selectable
<1> QED  BY <1>1, <1>2

LEMMA TameRows ==
  ASSUME NEW r \in Row
  PROVE  /\ Tame(r, r)
         /\ Tame(r, LeaseRow(r)) /\ LeaseRow(r).status # "pending"
         /\ AttachAllowed(r) => Tame(r, AttachRow(r))
         /\ Tame(r, FinishRow(r, "closed"))
         /\ Tame(r, SweepRow(r))
         /\ Tame(r, AgeRow(r))
<1> USE AgeFacts DEF Tame, Row, Live, Ended, Gone, Selectable
<1>1. Tame(r, r)
  OBVIOUS
<1>2. Tame(r, LeaseRow(r)) /\ LeaseRow(r).status # "pending"
  BY DEF LeaseRow
<1>3. AttachAllowed(r) => Tame(r, AttachRow(r))
  BY DEF AttachRow, AttachAllowed
<1>4. Tame(r, FinishRow(r, "closed"))
  BY DEF FinishRow
<1>5. Tame(r, SweepRow(r))
  BY DEF SweepRow
<1>6. Tame(r, AgeRow(r))
  BY AgedRow
<1> QED  BY <1>1, <1>2, <1>3, <1>4, <1>5, <1>6

\* A reclaim keeps the type, and makes a row pending that was not only by
\* changing it.
LEMMA ReclaimedRow ==
  ASSUME NEW r \in Row
  PROVE  /\ ReclaimLease(r) \in Row
         /\ r.status = Gone => ReclaimLease(r) = r
  BY AgeFacts DEF ReclaimLease, Row, Live, Ended, Gone

LEMMA NewRows == NewRow \in Row /\ NoRow \in Row /\ NoRow.status = Gone
  BY AgeFacts DEF NewRow, NoRow, Row, Live, Ended, Gone

\* A selection is a set of selectable rows, and is empty only if there is none.
LEMMA SelectionFacts ==
  ASSUME NEW b \in Selections
  PROVE  /\ b \in SUBSET Creates
         /\ \A s \in b : Selectable(rows[s])
         /\ b = {} => \A s \in Creates : ~Selectable(rows[s])
<1> DEFINE avail == {s \in Creates : Selectable(rows[s])}
<1>1. /\ b \in SUBSET avail
      /\ Cardinality(b) = IF Cardinality(avail) < PendingLimit
                          THEN Cardinality(avail) ELSE PendingLimit
  BY DEF Selections
<1>2. IsFiniteSet(avail)
  BY PickupAssumption, FS_Subset
<1>3. b = {} => avail = {}
  <2> HIDE DEF avail
  <2> QED  BY <1>1, <1>2, PickupAssumption, FS_EmptySet, FS_CardinalityType
<1> QED  BY <1>1, <1>3

-----------------------------------------------------------------------------
LEMMA PickupInit == Init => TypeOK /\ PickupInv
<1> SUFFICES ASSUME Init PROVE TypeOK /\ PickupInv
  OBVIOUS
<1>1. TypeOK
  BY NewRows DEF Init, TypeOK, CreatePCs, PollPCs
<1>2. PickupInv
  BY NewRows, PickupAssumption
     DEF Init, PickupInv, WaiterKnown, AloneIsAlone, EmptyListTold, HandOversPaid,
         ToBeLeased, ToBeHanded, BatchesPlaced, UnmadeGone, Registered, Selectable, Gone
<1> QED  BY <1>1, <1>2

LEMMA TypeStep == TypeOK /\ [Next]_vars => TypeOK'
<1> SUFFICES ASSUME TypeOK, [Next]_vars PROVE TypeOK'
  OBVIOUS
<1> USE DEF TypeOK, pollVars, daemonVars
<1>1. ASSUME NEW s \in Creates, CreateCount(s) PROVE TypeOK'
  BY <1>1 DEF CreateCount, CreatePCs
<1>2. ASSUME NEW s \in Creates, CreateInsert(s) PROVE TypeOK'
  BY <1>2, NewRows DEF CreateInsert, CreatePCs
<1>3. ASSUME NEW s \in Creates, CreateWake(s) PROVE TypeOK'
  BY <1>3 DEF CreateWake, CreatePCs
<1>4. ASSUME NEW s \in Creates, Attach(s) PROVE TypeOK'
  BY <1>4, TameRows DEF Attach, Tame
<1>5. ASSUME NEW s \in Creates, End(s) PROVE TypeOK'
  BY <1>5, TameRows DEF End, Tame
<1>6. ASSUME NEW p \in Polls, PollRegister(p) PROVE TypeOK'
  BY <1>6 DEF PollRegister, Arrives, PollPCs
<1>7. ASSUME NEW p \in Polls, ListReclaim(p) PROVE TypeOK'
  <2>1. rows' \in [Creates -> Row]
    BY <1>7, ReclaimedRow DEF ListReclaim
  <2>2. due' \in [Creates -> Int]
    BY <1>7 DEF ListReclaim
  <2> QED  BY <1>7, <2>1, <2>2 DEF ListReclaim, PollPCs
<1>8. ASSUME NEW p \in Polls, ListSelect(p) PROVE TypeOK'
  <2>1. PICK b \in Selections :
          /\ batch' = [batch EXCEPT ![p] = b]
          /\ \E x \in {"lease", "lease2", "empty", "respond"} : ppc' = [ppc EXCEPT ![p] = x]
    BY <1>8 DEF ListSelect
  <2>2. b \in SUBSET Creates
    BY SelectionFacts
  <2> QED  BY <1>8, <2>1, <2>2 DEF ListSelect, PollPCs
<1>9. ASSUME NEW p \in Polls, ListLease(p) PROVE TypeOK'
  <2>1. rows' \in [Creates -> Row]
    BY <1>9, TameRows DEF ListLease, Tame
  <2> QED  BY <1>9, <2>1 DEF ListLease, PollPCs
<1>10. ASSUME NEW p \in Polls, ListError(p) \/ PollEmpty(p) PROVE TypeOK'
  BY <1>10 DEF ListError, PollEmpty, PollPCs
<1>11. ASSUME NEW p \in Polls, ParkWoken(p) \/ ParkTimeout(p) \/ Leave(p) PROVE TypeOK'
  BY <1>11 DEF ParkWoken, ParkTimeout, Leave, PollPCs
<1>12. ASSUME NEW p \in Polls, Respond(p) PROVE TypeOK'
  <2>1. due' \in [Creates -> Int]
    BY <1>12 DEF Respond
  <2> QED  BY <1>12, <2>1 DEF Respond, PollPCs
<1>13. CASE Sweep
  BY <1>13, TameRows DEF Sweep, Tame
<1>14. CASE Tick
  BY <1>14, TameRows DEF Tick, Tame
<1>15. CASE GiveUp \/ UNCHANGED vars
  BY <1>15 DEF GiveUp, vars
<1> QED
  BY <1>1, <1>2, <1>3, <1>4, <1>5, <1>6, <1>7, <1>8, <1>9, <1>10, <1>11, <1>12,
     <1>13, <1>14, <1>15 DEF Next, CreateStep, PollStep

-----------------------------------------------------------------------------
\* What a reclaim, a selection, a lease and an answer do, poll by poll and row
\* by row.
LEMMA ReclaimEffect ==
  ASSUME TypeOK, NEW p \in Polls, ListReclaim(p)
  PROVE  /\ ppc[p] \in {"reclaim", "reclaim2"}
         /\ ppc'[p] = IF ppc[p] = "reclaim" THEN "select" ELSE "select2"
         /\ \A q \in Polls \ {p} : ppc'[q] = ppc[q]
         /\ UNCHANGED <<cpc, waiting, batch, waiter, token, current, handed, alone>>
         /\ \A s \in Creates :
              /\ rows[s].status = Gone => rows'[s] = rows[s]
              /\ rows'[s] = rows[s] => due'[s] = due[s]
              /\ rows'[s] # rows[s] =>
                   due'[s] = IF due[s] < DueCap THEN due[s] + 1 ELSE due[s]
<1>1. ASSUME NEW s \in Creates
      PROVE  /\ rows[s].status = Gone => rows'[s] = rows[s]
             /\ rows'[s] = rows[s] => due'[s] = due[s]
             /\ rows'[s] # rows[s] =>
                  due'[s] = IF due[s] < DueCap THEN due[s] + 1 ELSE due[s]
  BY ReclaimedRow DEF ListReclaim, TypeOK
<1> QED  BY <1>1 DEF ListReclaim, TypeOK

LEMMA SelectEffect ==
  ASSUME TypeOK, NEW p \in Polls, ListSelect(p)
  PROVE  /\ ppc[p] \in {"select", "select2"}
         /\ ppc'[p] \in {"lease", "lease2", "empty", "respond"}
         /\ ppc'[p] \in {"lease", "empty"} <=> ppc[p] = "select"
         /\ ppc'[p] \in {"empty", "respond"} <=> batch'[p] = {}
         /\ \A q \in Polls \ {p} : ppc'[q] = ppc[q] /\ batch'[q] = batch[q]
         /\ batch'[p] \in SUBSET Creates
         /\ \A s \in batch'[p] : rows[s].status = "pending"
         /\ batch'[p] = {} => \A s \in Creates : ~Selectable(rows[s])
         /\ UNCHANGED <<rows, cpc, waiting, waiter, token, current, due, handed, alone>>
<1>1. PICK b \in Selections :
        /\ batch' = [batch EXCEPT ![p] = b]
        /\ \E x \in {"lease", "lease2", "empty", "respond"} :
             /\ ppc' = [ppc EXCEPT ![p] = x]
             /\ x \in {"lease", "empty"} <=> ppc[p] = "select"
             /\ x \in {"empty", "respond"} <=> b = {}
  BY DEF ListSelect
<1>2. /\ b \in SUBSET Creates
      /\ \A s \in b : rows[s].status = "pending"
      /\ b = {} => \A s \in Creates : ~Selectable(rows[s])
  BY SelectionFacts DEF Selectable
<1>3. batch'[p] = b /\ \A q \in Polls \ {p} : ppc'[q] = ppc[q] /\ batch'[q] = batch[q]
  BY <1>1 DEF TypeOK
<1>4. /\ ppc'[p] \in {"lease", "lease2", "empty", "respond"}
      /\ ppc'[p] \in {"lease", "empty"} <=> ppc[p] = "select"
      /\ ppc'[p] \in {"empty", "respond"} <=> b = {}
  BY <1>1 DEF TypeOK
<1> QED  BY <1>2, <1>3, <1>4 DEF ListSelect, daemonVars

LEMMA LeaseEffect ==
  ASSUME TypeOK, NEW p \in Polls, ListLease(p)
  PROVE  /\ ppc[p] \in {"lease", "lease2"}
         /\ ppc'[p] = IF ppc[p] = "lease" THEN "leave" ELSE "respond"
         /\ \A q \in Polls \ {p} : ppc'[q] = ppc[q]
         /\ \A s \in Creates :
              /\ Tame(rows[s], rows'[s])
              /\ s \in batch[p] => rows'[s].status # "pending"
         /\ UNCHANGED <<cpc, waiting, batch, waiter, token, current, due, handed, alone>>
<1>1. ASSUME NEW s \in Creates
      PROVE  Tame(rows[s], rows'[s]) /\ (s \in batch[p] => rows'[s].status # "pending")
  BY TameRows DEF ListLease, TypeOK
<1> QED  BY <1>1 DEF ListLease, TypeOK, daemonVars

LEMMA RegisterEffect ==
  ASSUME TypeOK, NEW p \in Polls, PollRegister(p)
  PROVE  /\ ppc[p] = "idle" /\ ppc'[p] = "reclaim"
         /\ waiting'[p] = waiter' /\ waiter' \in Waiters /\ waiter' # None
         /\ \A q \in Polls \ {p} : ppc'[q] = ppc[q] /\ waiting'[q] = waiting[q]
         /\ waiter # None => waiter' = waiter /\ token' = token
         /\ waiter = None => \A q \in Polls : waiting[q] # waiter'
         /\ token \ {waiter'} \subseteq token'
         /\ current' \in {current, p}
         /\ alone' = IF \A q \in Polls : ppc[q] = "idle" THEN {p} ELSE {}
         /\ UNCHANGED <<rows, cpc, batch, due, handed>>
<1>1. PICK w \in Waiters :
          /\ waiter # None => w = waiter
          /\ waiter = None => \A q \in Polls : waiting[q] # w
          /\ waiter' = w
          /\ waiting' = [waiting EXCEPT ![p] = w]
          /\ token' = IF waiter = None THEN token \ {w} ELSE token
  BY DEF PollRegister
<1>2. w # None
  BY PickupAssumption
<1>3. /\ ppc[p] = "idle" /\ ppc' = [ppc EXCEPT ![p] = "reclaim"]
      /\ current' \in {current, p}
      /\ alone' = IF \A q \in Polls : ppc[q] = "idle" THEN {p} ELSE {}
      /\ UNCHANGED <<rows, cpc, batch, due, handed>>
  BY DEF PollRegister, Arrives
<1> QED  BY <1>1, <1>2, <1>3 DEF TypeOK

LEMMA RespondEffect ==
  ASSUME TypeOK, NEW p \in Polls, Respond(p)
  PROVE  /\ ppc[p] = "respond" /\ ppc'[p] = "idle" /\ batch'[p] = {}
         /\ \A q \in Polls \ {p} : ppc'[q] = ppc[q] /\ batch'[q] = batch[q]
         /\ current # p => UNCHANGED <<current, due, handed>>
         /\ current = p =>
              /\ current' = None /\ handed' = handed \cup batch[p]
              /\ \A s \in Creates :
                   due'[s] = IF s \in batch[p] THEN due[s] - 1 ELSE due[s]
         /\ UNCHANGED <<rows, cpc, waiting, waiter, token, alone>>
  BY DEF Respond, TypeOK

-----------------------------------------------------------------------------
\* Every step keeps batches where they belong, and what has not been made has no
\* row.
LEMMA PlacedStep ==
  ASSUME TypeOK, BatchesPlaced, UnmadeGone, [Next]_vars
  PROVE  BatchesPlaced' /\ UnmadeGone'
<1> USE DEF BatchesPlaced, UnmadeGone
<1>0. \A s \in Creates : rows[s] \in Row
  BY DEF TypeOK
<1>a. ASSUME UNCHANGED <<cpc, ppc, batch>>, \A s \in Creates : Tame(rows[s], rows'[s])
      PROVE  BatchesPlaced' /\ UnmadeGone'
  BY <1>a DEF Tame
<1>1. ASSUME NEW s \in Creates, CreateCount(s) \/ CreateWake(s)
      PROVE  BatchesPlaced' /\ UnmadeGone'
  BY <1>1 DEF CreateCount, CreateWake, TypeOK, pollVars
<1>2. ASSUME NEW s \in Creates, CreateInsert(s) PROVE BatchesPlaced' /\ UnmadeGone'
  BY <1>2 DEF CreateInsert, TypeOK, pollVars
<1>3. ASSUME NEW s \in Creates, Attach(s) PROVE BatchesPlaced' /\ UnmadeGone'
  <2>1. \A t \in Creates : Tame(rows[t], rows'[t])
    BY <1>3, <1>0, TameRows DEF Attach, TypeOK
  <2> QED  BY <1>3, <1>a, <2>1 DEF Attach, pollVars
<1>4. ASSUME NEW s \in Creates, End(s) PROVE BatchesPlaced' /\ UnmadeGone'
  <2>1. \A t \in Creates : Tame(rows[t], rows'[t])
    BY <1>4, <1>0, TameRows DEF End, TypeOK
  <2> QED  BY <1>4, <1>a, <2>1 DEF End, pollVars
<1>5. ASSUME NEW p \in Polls, PollRegister(p) PROVE BatchesPlaced' /\ UnmadeGone'
  BY <1>5, RegisterEffect
<1>6. ASSUME NEW p \in Polls, ListReclaim(p) PROVE BatchesPlaced' /\ UnmadeGone'
  BY <1>6, ReclaimEffect
<1>7. ASSUME NEW p \in Polls, ListSelect(p) PROVE BatchesPlaced' /\ UnmadeGone'
  BY <1>7, SelectEffect DEF Gone
<1>8. ASSUME NEW p \in Polls, ListLease(p) PROVE BatchesPlaced' /\ UnmadeGone'
  BY <1>8, LeaseEffect DEF Tame
<1>9. ASSUME NEW p \in Polls, ListError(p) \/ PollEmpty(p)
      PROVE  BatchesPlaced' /\ UnmadeGone'
  BY <1>9 DEF ListError, PollEmpty, TypeOK
<1>10. ASSUME NEW p \in Polls, ParkWoken(p) \/ ParkTimeout(p) \/ Leave(p)
      PROVE  BatchesPlaced' /\ UnmadeGone'
  BY <1>10 DEF ParkWoken, ParkTimeout, Leave, TypeOK
<1>11. ASSUME NEW p \in Polls, Respond(p) PROVE BatchesPlaced' /\ UnmadeGone'
  BY <1>11, RespondEffect
<1>12. CASE Sweep
  BY <1>12, <1>0, <1>a, TameRows DEF Sweep, pollVars
<1>13. CASE Tick
  BY <1>13, <1>0, <1>a, TameRows DEF Tick, pollVars
<1>14. CASE GiveUp \/ UNCHANGED vars
  BY <1>14 DEF GiveUp, vars
<1> QED
  BY <1>1, <1>2, <1>3, <1>4, <1>5, <1>6, <1>7, <1>8, <1>9, <1>10, <1>11, <1>12,
     <1>13, <1>14 DEF Next, CreateStep, PollStep

\* A step that leads to no new hand-over of s and leaves what is due.
PaidAsBefore(s) ==
    /\ ToBeLeased(s)' => ToBeLeased(s)
    /\ ToBeHanded(s)' => ToBeHanded(s)
    /\ due'[s] = due[s] /\ (s \in handed <=> s \in handed')

LEMMA PaidKept ==
  ASSUME TypeOK, HandOversPaid, \A s \in Creates : PaidAsBefore(s)
  PROVE  HandOversPaid'
  BY DEF HandOversPaid, PaidAsBefore, TypeOK

\* A step that only ages, ends or otherwise tames rows leads to no hand-over.
LEMMA PaidTame ==
  ASSUME TypeOK, HandOversPaid, UNCHANGED <<cpc, ppc, batch, current, due, handed>>,
         \A s \in Creates : Tame(rows[s], rows'[s])
  PROVE  HandOversPaid'
<1>1. \A s \in Creates : PaidAsBefore(s)
  BY DEF PaidAsBefore, ToBeLeased, ToBeHanded, Tame
<1> QED  BY <1>1, PaidKept

\* Every step keeps the hand-overs that may still come paid for. The cases that
\* matter: a reclaim pays for the hand-over it makes possible; the lease of the
\* poll the daemon waits for turns a session to be leased into one to be handed
\* over, also when another poll got to the row first; an answer that reaches the
\* daemon uses up what was due.
LEMMA PaidStep ==
  ASSUME TypeOK, BatchesPlaced, UnmadeGone, HandOversPaid, [Next]_vars
  PROVE  HandOversPaid'
<1>0. /\ \A s \in Creates : rows[s] \in Row /\ due[s] \in Int
      /\ \A p \in Polls : batch[p] \in SUBSET Creates
      /\ None \notin Polls
  BY PickupAssumption DEF TypeOK
<1>1. ASSUME NEW s \in Creates, CreateCount(s) \/ CreateWake(s) PROVE HandOversPaid'
  <2>1. \A t \in Creates : PaidAsBefore(t)
    BY <1>1 DEF CreateCount, CreateWake, TypeOK, pollVars, daemonVars, PaidAsBefore,
                ToBeLeased, ToBeHanded
  <2> QED  BY <2>1, PaidKept
<1>2. ASSUME NEW s \in Creates, CreateInsert(s) PROVE HandOversPaid'
  <2>1. \A t \in Creates : PaidAsBefore(t)
    BY <1>2 DEF CreateInsert, TypeOK, pollVars, daemonVars, PaidAsBefore,
                ToBeLeased, ToBeHanded
  <2> QED  BY <2>1, PaidKept
<1>3. ASSUME NEW s \in Creates, Attach(s) PROVE HandOversPaid'
  <2>1. \A t \in Creates : Tame(rows[t], rows'[t])
    BY <1>3, <1>0, TameRows DEF Attach, TypeOK
  <2> QED  BY <1>3, <2>1, PaidTame DEF Attach, pollVars, daemonVars
<1>4. ASSUME NEW s \in Creates, End(s) PROVE HandOversPaid'
  <2>1. \A t \in Creates : Tame(rows[t], rows'[t])
    BY <1>4, <1>0, TameRows DEF End, TypeOK
  <2> QED  BY <1>4, <2>1, PaidTame DEF End, pollVars, daemonVars
<1>5. ASSUME NEW p \in Polls, PollRegister(p) PROVE HandOversPaid'
  <2>1. \A s \in Creates : PaidAsBefore(s)
    BY <1>5, <1>0, RegisterEffect DEF PaidAsBefore, ToBeLeased, ToBeHanded
  <2> QED  BY <2>1, PaidKept
<1>6. ASSUME NEW p \in Polls, ListReclaim(p) PROVE HandOversPaid'
  <2>1. \A s \in Creates : (ToBeHanded(s)' => ToBeHanded(s)) /\ (s \in handed <=> s \in handed')
    BY <1>6, ReclaimEffect DEF ToBeHanded
  <2>2. ASSUME NEW s \in Creates, rows'[s] = rows[s]
        PROVE  (ToBeLeased(s)' => ToBeLeased(s)) /\ due'[s] = due[s]
    BY <1>6, <2>2, ReclaimEffect DEF ToBeLeased
  <2>3. ASSUME NEW s \in Creates, rows'[s] # rows[s]
        PROVE  due'[s] = IF due[s] < DueCap THEN due[s] + 1 ELSE due[s]
    BY <1>6, <2>3, ReclaimEffect
  <2>4. \A s \in Creates : due'[s] \in Int
    BY <1>0, <2>2, <2>3
  <2> QED  BY <1>0, <2>1, <2>2, <2>3, <2>4 DEF HandOversPaid, DueCap
<1>7. ASSUME NEW p \in Polls, ListSelect(p) PROVE HandOversPaid'
  <2>1. \A s \in Creates : PaidAsBefore(s)
    BY <1>7, SelectEffect DEF PaidAsBefore, ToBeLeased, ToBeHanded
  <2> QED  BY <2>1, PaidKept
<1>8. ASSUME NEW p \in Polls, ListLease(p) PROVE HandOversPaid'
  <2>1. CASE current # p
    <3>1. \A s \in Creates : PaidAsBefore(s)
      BY <1>8, <2>1, LeaseEffect DEF PaidAsBefore, ToBeLeased, ToBeHanded, Tame
    <3> QED  BY <3>1, PaidKept
  <2>2. CASE current = p
    <3>1. ASSUME NEW s \in batch[p] PROVE ~ToBeLeased(s)' /\ ToBeLeased(s)
      BY <1>0, <1>8, <2>2, <3>1, LeaseEffect DEF ToBeLeased, BatchesPlaced
    <3>2. ASSUME NEW s \in Creates \ batch[p]
          PROVE  ~ToBeHanded(s)' /\ (ToBeLeased(s)' => ToBeLeased(s))
      BY <1>0, <1>8, <2>2, <3>2, LeaseEffect DEF ToBeLeased, ToBeHanded, Tame
    <3>3. due' = due /\ handed' = handed
      BY <1>8, LeaseEffect
    <3> QED  BY <1>0, <3>1, <3>2, <3>3 DEF HandOversPaid
  <2> QED  BY <2>1, <2>2
<1>9. ASSUME NEW p \in Polls, ListError(p) \/ PollEmpty(p) PROVE HandOversPaid'
  <2>1. \A s \in Creates : PaidAsBefore(s)
    BY <1>9, <1>0 DEF ListError, PollEmpty, TypeOK, daemonVars, PaidAsBefore,
                      ToBeLeased, ToBeHanded, BatchesPlaced
  <2> QED  BY <2>1, PaidKept
<1>10. ASSUME NEW p \in Polls, ParkWoken(p) \/ ParkTimeout(p) \/ Leave(p)
       PROVE  HandOversPaid'
  <2>1. \A s \in Creates : PaidAsBefore(s)
    BY <1>10 DEF ParkWoken, ParkTimeout, Leave, TypeOK, daemonVars, PaidAsBefore,
                 ToBeLeased, ToBeHanded
  <2> QED  BY <2>1, PaidKept
<1>11. ASSUME NEW p \in Polls, Respond(p) PROVE HandOversPaid'
  <2>1. CASE current # p
    <3>1. \A s \in Creates : PaidAsBefore(s)
      BY <1>11, <2>1, RespondEffect DEF PaidAsBefore, ToBeLeased, ToBeHanded
    <3> QED  BY <3>1, PaidKept
  <2>2. CASE current = p
    <3>1. ASSUME NEW s \in Creates
          PROVE  ~ToBeHanded(s)' /\ (ToBeLeased(s)' => ToBeLeased(s))
      BY <1>0, <1>11, <2>2, RespondEffect DEF ToBeLeased, ToBeHanded
    <3>2. \A s \in batch[p] : ToBeHanded(s)
      BY <1>11, <2>2, RespondEffect DEF ToBeHanded
    <3>3. /\ handed' = handed \cup batch[p]
          /\ \A s \in Creates : due'[s] = IF s \in batch[p] THEN due[s] - 1 ELSE due[s]
      BY <1>11, <2>2, RespondEffect
    <3> QED  BY <1>0, <3>1, <3>2, <3>3 DEF HandOversPaid
  <2> QED  BY <2>1, <2>2
<1>12. CASE Sweep
  BY <1>12, <1>0, PaidTame, TameRows DEF Sweep, pollVars, daemonVars
<1>13. CASE Tick
  BY <1>13, <1>0, PaidTame, TameRows DEF Tick, pollVars, daemonVars
<1>14. CASE GiveUp
  <2>1. \A s \in Creates : PaidAsBefore(s)
    BY <1>14, <1>0 DEF GiveUp, PaidAsBefore, ToBeLeased, ToBeHanded
  <2> QED  BY <2>1, PaidKept
<1>15. CASE UNCHANGED vars
  BY <1>15, <1>0, PaidTame, TameRows DEF vars
<1> QED
  BY <1>1, <1>2, <1>3, <1>4, <1>5, <1>6, <1>7, <1>8, <1>9, <1>10, <1>11, <1>12,
     <1>13, <1>14, <1>15 DEF Next, CreateStep, PollStep

-----------------------------------------------------------------------------
WakeInv == WaiterKnown /\ AloneIsAlone /\ EmptyListTold

\* A step that only ages, ends or otherwise tames rows loses no wake-up.
LEMMA WakeTame ==
  ASSUME TypeOK, WakeInv, UNCHANGED <<cpc, ppc, waiting, waiter, token, due, handed, alone>>,
         \A s \in Creates : Tame(rows[s], rows'[s])
  PROVE  WakeInv'
<1>1. WaiterKnown' /\ AloneIsAlone'
  BY DEF WakeInv, WaiterKnown, AloneIsAlone
<1>2. EmptyListTold'
  BY DEF WakeInv, EmptyListTold, ToBeTold, Fresh, TakenByOther, Tame
<1> QED  BY <1>1, <1>2 DEF WakeInv

\* Every step keeps the wake-ups. The cases that matter: a reclaim makes old
\* sessions selectable, of which only a poll that is alone must be told; a poll
\* that takes a token, or leaves, deregisters the waiter it shares.
LEMMA WakeStep ==
  ASSUME TypeOK, HandOversPaid, WakeInv, [Next]_vars
  PROVE  WakeInv'
<1> USE DEF WakeInv
<1>0. /\ \A s \in Creates : rows[s] \in Row /\ due[s] \in Int
      /\ alone \subseteq Polls
  BY DEF TypeOK
<1>1. ASSUME NEW s \in Creates, CreateCount(s) PROVE WakeInv'
  BY <1>1 DEF CreateCount, TypeOK, pollVars, daemonVars, WaiterKnown, AloneIsAlone,
              EmptyListTold, ToBeTold, Fresh, TakenByOther
<1>2. ASSUME NEW s \in Creates, CreateInsert(s) PROVE WakeInv'
  BY <1>2 DEF CreateInsert, TypeOK, pollVars, daemonVars, WaiterKnown, AloneIsAlone,
              EmptyListTold, ToBeTold, Fresh, TakenByOther
<1>3. ASSUME NEW s \in Creates, CreateWake(s) PROVE WakeInv'
  BY <1>3 DEF CreateWake, TypeOK, pollVars, daemonVars, WaiterKnown, AloneIsAlone,
              EmptyListTold, ToBeTold, Fresh, TakenByOther, Registered
<1>4. ASSUME NEW s \in Creates, Attach(s) PROVE WakeInv'
  <2>1. \A t \in Creates : Tame(rows[t], rows'[t])
    BY <1>4, <1>0, TameRows DEF Attach, TypeOK
  <2> QED  BY <1>4, <2>1, WakeTame DEF Attach, pollVars, daemonVars
<1>5. ASSUME NEW s \in Creates, End(s) PROVE WakeInv'
  <2>1. \A t \in Creates : Tame(rows[t], rows'[t])
    BY <1>5, <1>0, TameRows DEF End, TypeOK
  <2> QED  BY <1>5, <2>1, WakeTame DEF End, pollVars, daemonVars
<1>6. ASSUME NEW p \in Polls, PollRegister(p) PROVE WakeInv'
  <2>1. WaiterKnown' /\ AloneIsAlone'
    BY <1>6, RegisterEffect DEF WaiterKnown, AloneIsAlone, Registered
  <2>2. ASSUME NEW q \in Polls \ {p}, ppc[q] \in {"empty", "park"}
        PROVE  /\ q \notin alone'
               /\ waiting'[q] = waiter' => waiter = waiting[q] /\ token' = token
    BY <1>6, <2>2, RegisterEffect
  <2>3. \A q \in Polls : ppc'[q] \in {"empty", "park"} => q # p /\ ppc[q] = ppc'[q]
    BY <1>6, RegisterEffect
  <2>4. \A q \in Polls \ {p} : waiting'[q] = waiting[q] /\ ppc'[q] = ppc[q]
    BY <1>6, RegisterEffect
  <2>5. ppc[p] = "idle" /\ UNCHANGED <<rows, cpc, due, handed>>
    BY <1>6, RegisterEffect
  <2>6. EmptyListTold'
    BY <2>2, <2>3, <2>4, <2>5 DEF EmptyListTold, ToBeTold, Fresh, TakenByOther
  <2> QED  BY <2>1, <2>6
<1>7. ASSUME NEW p \in Polls, ListReclaim(p) PROVE WakeInv'
  <2>1. WaiterKnown' /\ AloneIsAlone'
    BY <1>7, ReclaimEffect DEF WaiterKnown, AloneIsAlone, Registered
  <2>2. ASSUME NEW s \in Creates, Fresh(s)' PROVE rows'[s] = rows[s] /\ Fresh(s)
    BY <1>7, <1>0, <2>2, ReclaimEffect DEF Fresh, HandOversPaid, DueCap
  <2>3. \A q \in Polls : ppc'[q] \in {"empty", "park"} =>
          q # p /\ ppc[q] = ppc'[q] /\ q \notin alone
    BY <1>7, ReclaimEffect DEF AloneIsAlone
  <2>4. /\ \A q \in Polls \ {p} : ppc'[q] = ppc[q]
        /\ ppc[p] # "leaveParked"
        /\ UNCHANGED <<cpc, waiting, waiter, token, alone>>
    BY <1>7, ReclaimEffect
  <2>5. EmptyListTold'
    BY <2>2, <2>3, <2>4 DEF EmptyListTold, ToBeTold, TakenByOther
  <2> QED  BY <2>1, <2>5
<1>8. ASSUME NEW p \in Polls, ListSelect(p) PROVE WakeInv'
  <2>1. WaiterKnown' /\ AloneIsAlone'
    BY <1>8, SelectEffect DEF WaiterKnown, AloneIsAlone, Registered
  <2>2. EmptyListTold'
    BY <1>8, SelectEffect DEF EmptyListTold, ToBeTold, Fresh, TakenByOther
  <2> QED  BY <2>1, <2>2
<1>9. ASSUME NEW p \in Polls, ListLease(p) PROVE WakeInv'
  <2>1. WaiterKnown' /\ AloneIsAlone'
    BY <1>9, LeaseEffect DEF WaiterKnown, AloneIsAlone, Registered
  <2>2. EmptyListTold'
    BY <1>9, LeaseEffect DEF EmptyListTold, ToBeTold, Fresh, TakenByOther, Tame
  <2> QED  BY <2>1, <2>2
<1>10. ASSUME NEW p \in Polls, ListError(p) \/ PollEmpty(p) PROVE WakeInv'
  <2>1. WaiterKnown' /\ AloneIsAlone'
    BY <1>10 DEF ListError, PollEmpty, TypeOK, daemonVars, WaiterKnown, AloneIsAlone, Registered
  <2>2. EmptyListTold'
    BY <1>10 DEF ListError, PollEmpty, TypeOK, daemonVars, EmptyListTold, ToBeTold, Fresh, TakenByOther
  <2> QED  BY <2>1, <2>2
<1>11. ASSUME NEW p \in Polls, ParkWoken(p) \/ ParkTimeout(p) PROVE WakeInv'
  <2>1. WaiterKnown' /\ AloneIsAlone'
    BY <1>11 DEF ParkWoken, ParkTimeout, TypeOK, daemonVars, WaiterKnown, AloneIsAlone, Registered
  <2>2. EmptyListTold'
    BY <1>11 DEF ParkWoken, ParkTimeout, TypeOK, daemonVars, EmptyListTold, ToBeTold, Fresh, TakenByOther
  <2> QED  BY <2>1, <2>2
<1>12. ASSUME NEW p \in Polls, Leave(p) PROVE WakeInv'
  <2>1. WaiterKnown' /\ AloneIsAlone'
    BY <1>12 DEF Leave, TypeOK, daemonVars, WaiterKnown, AloneIsAlone, Registered
  <2>2. EmptyListTold'
    BY <1>12 DEF Leave, TypeOK, daemonVars, EmptyListTold, ToBeTold, Fresh, TakenByOther,
                 WaiterKnown, AloneIsAlone, Registered
  <2> QED  BY <2>1, <2>2
<1>13. ASSUME NEW p \in Polls, Respond(p) PROVE WakeInv'
  <2>1. WaiterKnown' /\ AloneIsAlone'
    BY <1>13, RespondEffect DEF WaiterKnown, AloneIsAlone, Registered
  <2>2. ASSUME NEW s \in Creates, Fresh(s)' PROVE Fresh(s)
    BY <1>13, <1>0, <2>2, RespondEffect DEF Fresh
  <2>3. EmptyListTold'
    BY <1>13, <2>2, RespondEffect DEF EmptyListTold, ToBeTold, TakenByOther
  <2> QED  BY <2>1, <2>3
<1>14. CASE Sweep
  BY <1>14, <1>0, WakeTame, TameRows DEF Sweep, pollVars, daemonVars
<1>15. CASE Tick
  BY <1>15, <1>0, WakeTame, TameRows DEF Tick, pollVars, daemonVars
<1>16. CASE GiveUp \/ UNCHANGED vars
  BY <1>16, <1>0, WakeTame, TameRows DEF GiveUp, vars
<1> QED
  BY <1>1, <1>2, <1>3, <1>4, <1>5, <1>6, <1>7, <1>8, <1>9, <1>10, <1>11, <1>12,
     <1>13, <1>14, <1>15, <1>16 DEF Next, CreateStep, PollStep

(***************************************************************************)
(* Type correctness of the pickup, for any number of polls at once.        *)
(***************************************************************************)
THEOREM PickupTypes == Spec => []TypeOK
<1>1. Init => TypeOK
  BY PickupInit
<1> QED  BY <1>1, TypeStep, PTL DEF Spec

LEMMA PickupInvariant == Spec => [](TypeOK /\ PickupInv)
<1>1. Init => TypeOK /\ PickupInv
  BY PickupInit
<1>2. TypeOK /\ PickupInv /\ [Next]_vars => (TypeOK /\ PickupInv)'
  BY TypeStep, PlacedStep, PaidStep, WakeStep DEF PickupInv, WakeInv
<1> QED  BY <1>1, <1>2, PTL DEF Spec

(***************************************************************************)
(* TerminalWait registers before the list, so no wake-up is lost: a parked *)
(* poll that is to be told of a session it could pick up has a token in    *)
(* its channel, or the create is about to put one there, or a poll that    *)
(* shares the waiter took it. For any number of polls at once.             *)
(***************************************************************************)
THEOREM WakeupKept == Spec => []NoLostWakeup
<1>1. TypeOK /\ PickupInv => NoLostWakeup
  <2> SUFFICES ASSUME TypeOK, PickupInv, NEW p \in Polls, NEW s \in Creates,
                      ppc[p] = "park", Selectable(rows[s]), ToBeTold(p, s)
               PROVE  \/ waiting[p] \in token
                      \/ cpc[s] = "wake" /\ waiter = waiting[p]
                      \/ TakenByOther(p)
    BY DEF NoLostWakeup
  <2>1. waiting[p] \in token \/ cpc[s] = "wake" \/ TakenByOther(p)
    BY DEF PickupInv, EmptyListTold
  <2>2. waiter = waiting[p]
    BY DEF ToBeTold, PickupInv, WaiterKnown, Registered
  <2> QED  BY <2>1, <2>2
<1> QED  BY <1>1, PickupInvariant, PTL

(***************************************************************************)
(* ListPendingTerminalSessions: a session is handed to the daemon again    *)
(* only after a lease on it was reclaimed, however many polls the daemon   *)
(* gave up select and lease the same row, and whatever expires, ends,      *)
(* fails or is swept in between.                                           *)
(***************************************************************************)
THEOREM LeaseIsExclusive == Spec => []LeaseExclusive
<1>1. TypeOK /\ PickupInv => LeaseExclusive
  BY DEF PickupInv, HandOversPaid, LeaseExclusive, TypeOK
<1> QED  BY <1>1, PickupInvariant, PTL
=============================================================================

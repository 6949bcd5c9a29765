--------------------------- MODULE RunSlots_proofs ---------------------------
(***************************************************************************)
(* Proofs about RunSlots, for any number of runs of each kind, any values  *)
(* of maxConcurrentRuns and any number of reloads: type correctness, the   *)
(* bound on concurrent runs until the first reload, and the agreement of   *)
(* audit log and counters.                                                 *)
(***************************************************************************)
EXTENDS RunSlots, FiniteSetTheorems, TLAPS

\* There are finitely many runs, so the sets of runs below can be counted.
LEMMA RunsFinite == IsFiniteSet(Runs)
  BY SlotsAssumption, FS_Union DEF Runs, Native

\* Any set of runs is finite and its cardinality is a natural number; adding or
\* removing one run changes it by one.
LEMMA CountByOne ==
  ASSUME NEW S \in SUBSET Runs, NEW r \in Runs
  PROVE  /\ IsFiniteSet(S)
         /\ Cardinality(S) \in Nat
         /\ r \notin S => Cardinality(S \cup {r}) = Cardinality(S) + 1
         /\ r \in S => /\ Cardinality(S \ {r}) = Cardinality(S) - 1
                       /\ Cardinality(S) > 0
<1>1. IsFiniteSet(S)
  BY RunsFinite, FS_Subset
<1>2. Cardinality(S) \in Nat
  BY <1>1, FS_CardinalityType
<1>3. r \notin S => Cardinality(S \cup {r}) = Cardinality(S) + 1
  BY <1>1, FS_AddElement
<1>4. ASSUME r \in S
      PROVE  Cardinality(S \ {r}) = Cardinality(S) - 1 /\ Cardinality(S) > 0
  <2>1. Cardinality(S \ {r}) = Cardinality(S) - 1
    BY <1>1, <1>4, FS_RemoveElement
  <2>2. Cardinality(S \ {r}) \in Nat
    BY <1>1, FS_Subset, FS_CardinalityType
  <2> QED  BY <1>2, <2>1, <2>2
<1> QED  BY <1>1, <1>2, <1>3, <1>4

\* How the number of slot owners changes when one run moves on.
LEMMA HoldersMove ==
  ASSUME pc \in [Runs -> PCs], NEW r \in Runs, NEW v \in PCs,
         pc' = [pc EXCEPT ![r] = v]
  PROVE  /\ Cardinality(Holders) \in Nat
         /\ pc[r] \notin Holding /\ v \in Holding
              => Cardinality(Holders') = Cardinality(Holders) + 1
         /\ pc[r] \in Holding /\ v \notin Holding
              => Cardinality(Holders') = Cardinality(Holders) - 1
         /\ pc[r] \in Holding /\ v \in Holding => Holders' = Holders
         /\ pc[r] \notin Holding /\ v \notin Holding => Holders' = Holders
<1>1. Holders \in SUBSET Runs
  BY DEF Holders
<1>2. (r \in Holders) <=> (pc[r] \in Holding)
  BY DEF Holders
<1>3. Holders' = IF v \in Holding THEN Holders \cup {r} ELSE Holders \ {r}
  BY DEF Holders
<1>4. pc[r] \in Holding /\ v \in Holding => Holders' = Holders
  BY <1>2, <1>3
<1>5. pc[r] \notin Holding /\ v \notin Holding => Holders' = Holders
  BY <1>2, <1>3
<1> QED  BY <1>1, <1>2, <1>3, <1>4, <1>5, CountByOne

\* How the number of counted results changes when one run moves on; only a run
\* that is not counted yet gets an outcome.
LEMMA CountedMove ==
  ASSUME pc \in [Runs -> PCs], outcome \in [Runs -> Outcomes],
         NEW r \in Runs, NEW v \in PCs, NEW w \in Outcomes,
         pc' = [pc EXCEPT ![r] = v], outcome' = [outcome EXCEPT ![r] = w]
  PROVE  /\ Cardinality(Counted) \in Nat
         /\ r \notin Counted /\ r \in Counted'
              => Cardinality(Counted') = Cardinality(Counted) + 1
         /\ (r \in Counted <=> r \in Counted') => Counted' = Counted
<1>1. Counted \in SUBSET Runs
  BY DEF Counted
<1>2. \A q \in Runs \ {r} : q \in Counted <=> q \in Counted'
  BY DEF Counted
<1>3. r \in Counted' => Counted' = Counted \cup {r}
  <2>1. \A q : q \in Counted' => q \in Runs
    BY DEF Counted
  <2> QED  BY <1>1, <1>2, <2>1
<1>4. (r \in Counted <=> r \in Counted') => Counted' = Counted
  <2>1. \A q : q \in Counted' => q \in Runs
    BY DEF Counted
  <2> QED  BY <1>1, <1>2, <2>1
<1> QED  BY <1>1, <1>3, <1>4, CountByOne

-----------------------------------------------------------------------------
\* The five parts of SlotsInv by name.
RefsOld == \A r \in Runs : ref[r] <= gen
TokensMatch == gen = 0 => tokens[0] = Cardinality(Holders)
AuditMatches == \A r \in Runs : audited[r] = IF r \in Audited THEN 1 ELSE 0
ValidRan == \A r \in Runs : r \in Native \/ pc[r] = "count" => outcome[r] # "invalid"
CountsMatch == successes + failures = Cardinality(Counted)

\* Naming the parts loses nothing.
LEMMA SlotsInvParts ==
  /\ SlotsInv <=> RefsOld /\ TokensMatch /\ AuditMatches /\ ValidRan /\ CountsMatch
  /\ SlotsInv' <=> RefsOld' /\ TokensMatch' /\ AuditMatches' /\ ValidRan' /\ CountsMatch'
  BY DEF SlotsInv, RefsOld, TokensMatch, AuditMatches, ValidRan, CountsMatch

\* Zero is the first channel, and channels are natural numbers.
LEMMA GenFacts == 0 \in Gens /\ Gens \subseteq Nat
  BY SlotsAssumption DEF Gens

\* Initially every book and every channel is empty.
LEMMA InitInv == Init => TypeOK /\ SlotsInv
<1> SUFFICES ASSUME Init PROVE TypeOK /\ SlotsInv
  OBVIOUS
<1>0. \A g \in Gens : tokens[g] = 0 /\ cap[g] \in Nat
  BY SlotsAssumption DEF Init
<1>1. TypeOK
  BY <1>0, GenFacts DEF Init, TypeOK, PCs, Outcomes
<1>2. Holders = {} /\ Counted = {} /\ Audited = {}
  BY DEF Init, Holders, Counted, Audited, Holding
<1>3. Cardinality({}) = 0
  BY FS_EmptySet
<1>4. TokensMatch /\ CountsMatch
  BY <1>2, <1>3, GenFacts DEF Init, TokensMatch, CountsMatch
<1>5. RefsOld /\ AuditMatches /\ ValidRan
  BY <1>2, SlotsAssumption DEF Init, RefsOld, AuditMatches, ValidRan, Runs, Native
<1> QED  BY <1>1, <1>4, <1>5, SlotsInvParts

-----------------------------------------------------------------------------
\* A send keeps the pool within its capacity and, until the first reload, the
\* tokens equal to the owners.
LEMMA SendStep ==
  ASSUME TypeOK, TokensMatch, NEW r \in Runs, NEW g \in Gens,
         pc[r] \in {"idle", "send"}, gen = 0 => g = 0,
         TrySend(r, g), UNCHANGED <<gen, cap>>
  PROVE  /\ tokens' \in [Gens -> Nat]
         /\ \A h \in Gens : tokens'[h] <= cap'[h]
         /\ pc' \in [Runs -> PCs]
         /\ TokensMatch'
         /\ \E v \in {"running", "refused"} : pc' = [pc EXCEPT ![r] = v]
<1>1. cap[g] \in Nat
  BY SlotsAssumption DEF TypeOK
<1>2. CASE tokens[g] < cap[g]
  <2>1. /\ tokens' = [tokens EXCEPT ![g] = tokens[g] + 1]
        /\ pc' = [pc EXCEPT ![r] = "running"]
    BY <1>2 DEF TrySend
  <2>2. /\ tokens' \in [Gens -> Nat]
        /\ \A h \in Gens : tokens'[h] <= cap'[h]
        /\ pc' \in [Runs -> PCs]
    BY <1>1, <1>2, <2>1 DEF TypeOK, PCs, Holding
  <2>3. Cardinality(Holders') = Cardinality(Holders) + 1
    BY <2>1, HoldersMove DEF TypeOK, PCs, Holding
  <2>4. TokensMatch'
    BY <2>1, <2>3, GenFacts DEF TypeOK, TokensMatch
  <2> QED  BY <2>1, <2>2, <2>4
<1>3. CASE ~ (tokens[g] < cap[g])
  <2>1. tokens' = tokens /\ pc' = [pc EXCEPT ![r] = "refused"]
    BY <1>3 DEF TrySend
  <2>2. /\ tokens' \in [Gens -> Nat]
        /\ \A h \in Gens : tokens'[h] <= cap'[h]
        /\ pc' \in [Runs -> PCs]
    BY <2>1 DEF TypeOK, PCs, Holding
  <2>a. "refused" \in PCs /\ "refused" \notin Holding /\ pc[r] \notin Holding
    BY DEF PCs, Holding
  <2>3. Holders' = Holders
    BY <2>1, <2>a, HoldersMove DEF TypeOK
  <2>4. TokensMatch'
    BY <2>1, <2>3 DEF TokensMatch
  <2> QED  BY <2>1, <2>2, <2>4
<1> QED  BY <1>2, <1>3

\* A step that moves a run on inside its slot leaves pool and owners alone.
LEMMA InsideStep ==
  ASSUME TypeOK, RefsOld, TokensMatch, NEW r \in Runs, NEW v \in Holding,
         pc[r] \in Holding, pc' = [pc EXCEPT ![r] = v], UNCHANGED pool
  PROVE  /\ gen' \in Gens /\ cap' \in [Gens -> Sizes] /\ tokens' \in [Gens -> Nat]
         /\ \A g \in Gens : tokens'[g] <= cap'[g]
         /\ mutex' \in Runs \cup {Free} /\ ref' \in [Runs -> Gens]
         /\ pc' \in [Runs -> PCs]
         /\ RefsOld' /\ TokensMatch'
<1>1. v \in PCs
  BY DEF PCs
<1>2. Holders' = Holders
  BY <1>1, HoldersMove DEF TypeOK
<1> QED  BY <1>1, <1>2 DEF TypeOK, pool, RefsOld, TokensMatch

\* The audit log agrees with the runs' progress after any step that moves one
\* run and, exactly when it passes the audit log, adds a record for it.
LEMMA AuditMove ==
  ASSUME pc \in [Runs -> PCs], audited \in [Runs -> Nat], AuditMatches,
         NEW r \in Runs, NEW v \in PCs, pc' = [pc EXCEPT ![r] = v],
         \/ audited' = audited /\ (r \in Audited <=> r \in Audited')
         \/ /\ audited' = [audited EXCEPT ![r] = @ + 1]
            /\ r \notin Audited /\ r \in Audited'
  PROVE  AuditMatches' /\ audited' \in [Runs -> Nat]
<1>1. \A q \in Runs \ {r} : q \in Audited <=> q \in Audited'
  BY DEF Audited
<1>2. CASE audited' = audited /\ (r \in Audited <=> r \in Audited')
  BY <1>1, <1>2 DEF AuditMatches
<1>3. CASE /\ audited' = [audited EXCEPT ![r] = @ + 1]
           /\ r \notin Audited /\ r \in Audited'
  <2>1. audited'[r] = 1
    BY <1>3 DEF AuditMatches
  <2> QED  BY <1>1, <1>3, <2>1 DEF AuditMatches
<1> QED  BY <1>2, <1>3

\* A step that moves one run and leaves the books alone keeps them in order if
\* it passes neither of them.
LEMMA BooksUntouched ==
  ASSUME TypeOK, AuditMatches, ValidRan, CountsMatch, NEW r \in Runs, NEW v \in PCs,
         pc' = [pc EXCEPT ![r] = v], UNCHANGED books,
         v # "count", r \in Audited <=> r \in Audited', r \in Counted <=> r \in Counted'
  PROVE  /\ AuditMatches' /\ ValidRan' /\ CountsMatch'
         /\ outcome' \in [Runs -> Outcomes] /\ audited' \in [Runs -> Nat]
         /\ successes' \in Nat /\ failures' \in Nat
<1>1. outcome' = [outcome EXCEPT ![r] = outcome[r]] /\ outcome[r] \in Outcomes
  BY DEF TypeOK, books
<1>2. Counted' = Counted
  BY <1>1, CountedMove DEF TypeOK
<1>3. AuditMatches' /\ audited' \in [Runs -> Nat]
  BY AuditMove DEF TypeOK, books
<1> QED  BY <1>2, <1>3 DEF TypeOK, books, ValidRan, CountsMatch

-----------------------------------------------------------------------------
\* Every step preserves type correctness and the five parts.
LEMMA StepInv == TypeOK /\ SlotsInv /\ [Next]_vars => TypeOK' /\ SlotsInv'
<1> SUFFICES ASSUME TypeOK, SlotsInv, [Next]_vars
             PROVE  TypeOK' /\ SlotsInv'
  OBVIOUS
<1> USE GenFacts
<1>0. RefsOld /\ TokensMatch /\ AuditMatches /\ ValidRan /\ CountsMatch
  BY SlotsInvParts
<1>a. \A r \in Runs : r \in Native <=> r \notin Scripts
  BY SlotsAssumption DEF Runs, Native
<1>b. \A r \in Runs : gen = 0 => ref[r] = 0
  <2>1. \A r \in Runs : ref[r] \in Nat
    BY DEF TypeOK
  <2> QED  BY <1>0, <2>1 DEF RefsOld
<1>1. ASSUME NEW r \in Runs, ScriptAcquire(r) PROVE TypeOK' /\ SlotsInv'
  <2>1. PICK v \in {"running", "refused"} : pc' = [pc EXCEPT ![r] = v]
    BY <1>0, <1>1, SendStep DEF ScriptAcquire, TypeOK
  <2>2. /\ tokens' \in [Gens -> Nat]
        /\ \A h \in Gens : tokens'[h] <= cap'[h]
        /\ pc' \in [Runs -> PCs]
        /\ TokensMatch'
    BY <1>0, <1>1, SendStep DEF ScriptAcquire, TypeOK
  <2>3. v \in PCs /\ UNCHANGED books
    BY <1>1 DEF PCs, Holding, ScriptAcquire
  <2>4. (r \in Audited <=> r \in Audited') /\ (r \in Counted <=> r \in Counted')
    BY <1>1, <2>1, <2>3 DEF ScriptAcquire, Audited, Counted, TypeOK, books
  <2>5. /\ AuditMatches' /\ ValidRan' /\ CountsMatch'
        /\ outcome' \in [Runs -> Outcomes] /\ audited' \in [Runs -> Nat]
        /\ successes' \in Nat /\ failures' \in Nat
    BY <1>0, <2>1, <2>3, <2>4, BooksUntouched
  <2>6. RefsOld'
    BY <1>0, <1>1 DEF ScriptAcquire, RefsOld
  <2>7. TypeOK'
    BY <1>1, <2>2, <2>5 DEF ScriptAcquire, TypeOK
  <2> QED  BY <2>2, <2>5, <2>6, <2>7, SlotsInvParts
<1>2. ASSUME NEW r \in Runs, OpRead(r) PROVE TypeOK' /\ SlotsInv'
  <2>1. pc' = [pc EXCEPT ![r] = "send"] /\ "send" \in PCs /\ UNCHANGED books
    BY <1>2 DEF OpRead, PCs
  <2>2. (r \in Audited <=> r \in Audited') /\ (r \in Counted <=> r \in Counted')
    BY <1>2, <2>1 DEF OpRead, Audited, Counted, TypeOK, books
  <2>3. /\ AuditMatches' /\ ValidRan' /\ CountsMatch'
        /\ outcome' \in [Runs -> Outcomes] /\ audited' \in [Runs -> Nat]
        /\ successes' \in Nat /\ failures' \in Nat
    BY <1>0, <2>1, <2>2, BooksUntouched
  <2>4. Holders' = Holders
    BY <1>2, <2>1, HoldersMove DEF OpRead, TypeOK, Holding
  <2>5. RefsOld' /\ TokensMatch'
    BY <1>0, <1>2, <2>4 DEF OpRead, RefsOld, TokensMatch, TypeOK
  <2>6. TypeOK'
    BY <1>2, <2>1, <2>3 DEF OpRead, TypeOK
  <2> QED  BY <2>3, <2>5, <2>6, SlotsInvParts
<1>3. ASSUME NEW r \in Runs, OpSend(r) PROVE TypeOK' /\ SlotsInv'
  <2>0. ref[r] \in Gens
    BY DEF TypeOK
  <2>1. PICK v \in {"running", "refused"} : pc' = [pc EXCEPT ![r] = v]
    BY <1>0, <1>b, <1>3, <2>0, SendStep DEF OpSend
  <2>2. /\ tokens' \in [Gens -> Nat]
        /\ \A h \in Gens : tokens'[h] <= cap'[h]
        /\ pc' \in [Runs -> PCs]
        /\ TokensMatch'
    BY <1>0, <1>b, <1>3, <2>0, SendStep DEF OpSend
  <2>3. v \in PCs /\ UNCHANGED books
    BY <1>3 DEF PCs, Holding, OpSend
  <2>4. (r \in Audited <=> r \in Audited') /\ (r \in Counted <=> r \in Counted')
    BY <1>3, <2>1, <2>3 DEF OpSend, Audited, Counted, TypeOK, books
  <2>5. /\ AuditMatches' /\ ValidRan' /\ CountsMatch'
        /\ outcome' \in [Runs -> Outcomes] /\ audited' \in [Runs -> Nat]
        /\ successes' \in Nat /\ failures' \in Nat
    BY <1>0, <2>1, <2>3, <2>4, BooksUntouched
  <2>6. RefsOld'
    BY <1>0, <1>3 DEF OpSend, RefsOld
  <2>7. TypeOK'
    BY <1>3, <2>2, <2>5 DEF OpSend, TypeOK
  <2> QED  BY <2>2, <2>5, <2>6, <2>7, SlotsInvParts
<1>4. ASSUME NEW r \in Runs, NEW w \in Outcomes, NEW v \in {"count", "audit"},
             pc[r] = "running", v = "count" => w # "invalid",
             v = "audit" /\ r \in Scripts => w = "invalid",
             r \in Native => w # "invalid" /\ v = "audit",
             outcome' = [outcome EXCEPT ![r] = w], pc' = [pc EXCEPT ![r] = v],
             UNCHANGED <<pool, audited, successes, failures>>
      PROVE  TypeOK' /\ SlotsInv'
  <2>1. v \in Holding /\ v \in PCs /\ pc[r] \in Holding
    BY <1>4 DEF Holding, PCs
  <2>2. /\ gen' \in Gens /\ cap' \in [Gens -> Sizes] /\ tokens' \in [Gens -> Nat]
        /\ \A g \in Gens : tokens'[g] <= cap'[g]
        /\ mutex' \in Runs \cup {Free} /\ ref' \in [Runs -> Gens]
        /\ pc' \in [Runs -> PCs]
        /\ RefsOld' /\ TokensMatch'
    BY <1>0, <1>4, <2>1, InsideStep
  <2>3. r \notin Counted /\ r \notin Counted'
    BY <1>4, <1>a DEF Counted, TypeOK
  <2>4. r \notin Audited /\ r \notin Audited'
    BY <1>4, <1>a DEF Audited, TypeOK
  <2>5. Counted' = Counted
    BY <1>4, <2>1, <2>3, CountedMove DEF TypeOK
  <2>6. AuditMatches' /\ audited' \in [Runs -> Nat]
    BY <1>0, <1>4, <2>1, <2>4, AuditMove DEF TypeOK
  <2>7. ValidRan' /\ CountsMatch'
    BY <1>0, <1>4, <2>5 DEF ValidRan, CountsMatch, TypeOK
  <2>8. TypeOK'
    BY <1>4, <2>2, <2>6 DEF TypeOK
  <2> QED  BY <2>2, <2>6, <2>7, <2>8, SlotsInvParts
<1>5. ASSUME NEW r \in Runs, Count(r) PROVE TypeOK' /\ SlotsInv'
  <2>1. /\ "notify" \in Holding /\ "notify" \in PCs /\ pc[r] \in Holding
        /\ pc' = [pc EXCEPT ![r] = "notify"] /\ UNCHANGED pool
    BY <1>5 DEF Holding, PCs, Count
  <2>2. /\ gen' \in Gens /\ cap' \in [Gens -> Sizes] /\ tokens' \in [Gens -> Nat]
        /\ \A g \in Gens : tokens'[g] <= cap'[g]
        /\ mutex' \in Runs \cup {Free} /\ ref' \in [Runs -> Gens]
        /\ pc' \in [Runs -> PCs]
        /\ RefsOld' /\ TokensMatch'
    BY <1>0, <2>1, InsideStep
  <2>3. (r \in Audited <=> r \in Audited')
    BY <1>5, <2>1 DEF Count, Audited, TypeOK
  <2>4. AuditMatches' /\ audited' \in [Runs -> Nat]
    BY <1>0, <1>5, <2>1, <2>3, AuditMove DEF TypeOK, Count
  <2>5. outcome' = [outcome EXCEPT ![r] = outcome[r]] /\ outcome[r] \in Outcomes
    BY <1>5 DEF Count, TypeOK
  <2>6. r \notin Counted /\ r \in Counted'
    BY <1>0, <1>5, <2>1 DEF Count, Counted, ValidRan, TypeOK
  <2>7. /\ Cardinality(Counted') = Cardinality(Counted) + 1
        /\ Cardinality(Counted) \in Nat
    BY <2>1, <2>5, <2>6, CountedMove DEF TypeOK
  <2>8. /\ successes' + failures' = successes + failures + 1
        /\ successes' \in Nat /\ failures' \in Nat
    BY <1>5 DEF Count, TypeOK
  <2>9. CountsMatch'
    BY <1>0, <2>7, <2>8 DEF CountsMatch
  <2>10. ValidRan'
    BY <1>0, <1>5 DEF Count, ValidRan, TypeOK
  <2>11. TypeOK'
    BY <1>5, <2>2, <2>4, <2>8 DEF Count, TypeOK
  <2> QED  BY <2>2, <2>4, <2>9, <2>10, <2>11, SlotsInvParts
<1>6. ASSUME NEW r \in Runs, Record(r) PROVE TypeOK' /\ SlotsInv'
  <2>1. PICK v \in {"return", "count"} :
          pc' = [pc EXCEPT ![r] = v] /\ (v = "count" <=> r \in Native)
    BY <1>6, <1>a DEF Record
  <2>2. v \in Holding /\ v \in PCs /\ pc[r] \in Holding /\ UNCHANGED pool
    BY <1>6 DEF Holding, PCs, Record
  <2>3. /\ gen' \in Gens /\ cap' \in [Gens -> Sizes] /\ tokens' \in [Gens -> Nat]
        /\ \A g \in Gens : tokens'[g] <= cap'[g]
        /\ mutex' \in Runs \cup {Free} /\ ref' \in [Runs -> Gens]
        /\ pc' \in [Runs -> PCs]
        /\ RefsOld' /\ TokensMatch'
    BY <1>0, <2>1, <2>2, InsideStep
  <2>4. r \notin Audited /\ r \in Audited'
    BY <1>6, <2>1 DEF Record, Audited, TypeOK
  <2>5. AuditMatches' /\ audited' \in [Runs -> Nat]
    BY <1>0, <1>6, <2>1, <2>2, <2>4, AuditMove DEF TypeOK, Record
  <2>6. outcome' = [outcome EXCEPT ![r] = outcome[r]] /\ outcome[r] \in Outcomes
    BY <1>6 DEF Record, TypeOK
  <2>7. r \in Counted <=> r \in Counted'
    BY <1>6, <1>a, <2>1 DEF Record, Counted, TypeOK
  <2>8. Counted' = Counted
    BY <2>1, <2>2, <2>6, <2>7, CountedMove DEF TypeOK
  <2>9. CountsMatch' /\ ValidRan'
    BY <1>0, <1>6, <2>1, <2>8 DEF Record, CountsMatch, ValidRan, TypeOK
  <2>10. TypeOK'
    BY <1>6, <2>3, <2>5 DEF Record, TypeOK
  <2> QED  BY <2>3, <2>5, <2>9, <2>10, SlotsInvParts
<1>7. ASSUME NEW r \in Runs, Notify(r) \/ TaskFinish(r) PROVE TypeOK' /\ SlotsInv'
  <2>1. PICK v \in {"audit", "finish", "return"} :
          /\ pc' = [pc EXCEPT ![r] = v]
          /\ v = "audit" => r \in Scripts /\ pc[r] = "notify"
          /\ v = "finish" => r \in Native /\ pc[r] = "notify"
          /\ v = "return" => r \in Native
    <3>1. CASE Notify(r)
      BY <3>1, <1>a DEF Notify, Native, Runs
    <3>2. CASE TaskFinish(r)
      BY <3>2 DEF TaskFinish, Native
    <3> QED  BY <1>7, <3>1, <3>2
  <2>2. v \in Holding /\ v \in PCs /\ pc[r] \in Holding /\ UNCHANGED <<pool, books>>
    BY <1>7 DEF Holding, PCs, Notify, TaskFinish
  <2>3. /\ gen' \in Gens /\ cap' \in [Gens -> Sizes] /\ tokens' \in [Gens -> Nat]
        /\ \A g \in Gens : tokens'[g] <= cap'[g]
        /\ mutex' \in Runs \cup {Free} /\ ref' \in [Runs -> Gens]
        /\ pc' \in [Runs -> PCs]
        /\ RefsOld' /\ TokensMatch'
    BY <1>0, <2>1, <2>2, InsideStep
  <2>4. pc[r] = "notify" \/ (pc[r] = "finish" /\ r \in Native)
    BY <1>7 DEF Notify, TaskFinish, Native
  <2>5. r \in Audited <=> r \in Audited'
    BY <1>a, <2>1, <2>4 DEF Audited, TypeOK
  <2>6. r \in Counted <=> r \in Counted'
    BY <1>a, <2>1, <2>2, <2>4 DEF Counted, TypeOK, books
  <2>7. v # "count" /\ UNCHANGED books
    BY <2>2
  <2>8. /\ AuditMatches' /\ ValidRan' /\ CountsMatch'
        /\ outcome' \in [Runs -> Outcomes] /\ audited' \in [Runs -> Nat]
        /\ successes' \in Nat /\ failures' \in Nat
    BY <1>0, <2>1, <2>2, <2>5, <2>6, <2>7, BooksUntouched
  <2>9. TypeOK'
    BY <2>3, <2>8 DEF TypeOK
  <2> QED  BY <2>3, <2>8, <2>9, SlotsInvParts
<1>8. ASSUME NEW r \in Runs, ScriptLock(r) \/ OpReadAgain(r)
      PROVE  TypeOK' /\ SlotsInv'
  <2>1. /\ pc[r] = "return" /\ pc' = [pc EXCEPT ![r] = "receive"]
        /\ ref' = [ref EXCEPT ![r] = gen] /\ mutex' \in {r, mutex}
        /\ UNCHANGED <<gen, cap, tokens, books>>
    BY <1>8 DEF ScriptLock, OpReadAgain
  <2>2. "receive" \in Holding /\ "receive" \in PCs /\ pc[r] \in Holding
    BY <2>1 DEF Holding, PCs
  <2>3. (r \in Audited <=> r \in Audited') /\ (r \in Counted <=> r \in Counted')
    BY <2>1 DEF Audited, Counted, TypeOK, books
  <2>4. /\ AuditMatches' /\ ValidRan' /\ CountsMatch'
        /\ outcome' \in [Runs -> Outcomes] /\ audited' \in [Runs -> Nat]
        /\ successes' \in Nat /\ failures' \in Nat
    BY <1>0, <2>1, <2>2, <2>3, BooksUntouched
  <2>5. Holders' = Holders
    BY <2>1, <2>2, HoldersMove DEF TypeOK
  <2>6. RefsOld' /\ TokensMatch'
    BY <1>0, <2>1, <2>5 DEF RefsOld, TokensMatch, TypeOK
  <2>7. TypeOK'
    BY <2>1, <2>2, <2>4 DEF TypeOK
  <2> QED  BY <2>4, <2>6, <2>7, SlotsInvParts
<1>9. ASSUME NEW r \in Runs, Receive(r) PROVE TypeOK' /\ SlotsInv'
  <2>0. ref[r] \in Gens
    BY DEF TypeOK
  <2>1. /\ pc[r] = "receive" /\ pc' = [pc EXCEPT ![r] = "done"]
        /\ tokens[ref[r]] > 0
        /\ tokens' = [tokens EXCEPT ![ref[r]] = tokens[ref[r]] - 1]
        /\ mutex' \in {Free, mutex}
        /\ UNCHANGED <<gen, cap, ref, books>>
    BY <1>9 DEF Receive
  <2>2. "done" \notin Holding /\ "done" \in PCs /\ pc[r] \in Holding
    BY <2>1 DEF Holding, PCs
  <2>3. (r \in Audited <=> r \in Audited') /\ (r \in Counted <=> r \in Counted')
    BY <2>1 DEF Audited, Counted, TypeOK, books
  <2>4. /\ AuditMatches' /\ ValidRan' /\ CountsMatch'
        /\ outcome' \in [Runs -> Outcomes] /\ audited' \in [Runs -> Nat]
        /\ successes' \in Nat /\ failures' \in Nat
    BY <1>0, <2>1, <2>2, <2>3, BooksUntouched
  <2>5. Cardinality(Holders') = Cardinality(Holders) - 1
    BY <2>1, <2>2, HoldersMove DEF TypeOK
  <2>6. TokensMatch'
    BY <1>0, <1>b, <2>0, <2>1, <2>5 DEF TokensMatch, TypeOK
  <2>7. RefsOld'
    BY <1>0, <2>1 DEF RefsOld
  <2>8. tokens' \in [Gens -> Nat] /\ \A g \in Gens : tokens'[g] <= cap'[g]
    <3>1. \A g \in Gens : cap[g] \in Nat
      BY SlotsAssumption DEF TypeOK
    <3>2. tokens[ref[r]] - 1 \in Nat /\ tokens[ref[r]] - 1 <= tokens[ref[r]]
      <4>1. tokens[ref[r]] \in Nat /\ tokens[ref[r]] > 0
        BY <2>0, <2>1 DEF TypeOK
      <4> QED  BY <4>1
    <3>3. tokens' \in [Gens -> Nat]
      BY <2>1, <3>2 DEF TypeOK
    <3>4. ASSUME NEW g \in Gens PROVE tokens'[g] <= cap'[g]
      <4>1. tokens'[g] <= tokens[g] /\ tokens[g] <= cap[g]
        BY <2>1, <3>2 DEF TypeOK
      <4>2. tokens'[g] \in Nat /\ tokens[g] \in Nat /\ cap[g] \in Nat
        BY <3>1, <3>3 DEF TypeOK
      <4> QED  BY <2>1, <4>1, <4>2
    <3> QED  BY <3>3, <3>4
  <2>9. TypeOK'
    BY <2>1, <2>2, <2>4, <2>8 DEF TypeOK
  <2> QED  BY <2>4, <2>6, <2>7, <2>9, SlotsInvParts
<1>10. CASE SetMaxConcurrentRuns
  <2>1. /\ gen' = gen + 1 /\ gen' \in Gens /\ gen \in Nat
        /\ UNCHANGED <<cap, tokens, mutex, pc, ref, books>>
    BY <1>10, SlotsAssumption DEF SetMaxConcurrentRuns, TypeOK, Gens
  <2>2. TypeOK'
    BY <2>1 DEF TypeOK, books
  <2>3. RefsOld'
    <3>1. \A r \in Runs : ref[r] \in Nat
      BY DEF TypeOK
    <3> QED  BY <1>0, <2>1, <3>1 DEF RefsOld
  <2>4. TokensMatch'
    BY <2>1 DEF TokensMatch
  <2>5. AuditMatches' /\ ValidRan' /\ CountsMatch'
    BY <1>0, <2>1 DEF AuditMatches, ValidRan, CountsMatch, Audited, Counted, books
  <2> QED  BY <2>2, <2>3, <2>4, <2>5, SlotsInvParts
<1>11. CASE UNCHANGED vars
  <2>1. TypeOK'
    BY <1>11 DEF TypeOK, vars
  <2>2. Holders' = Holders /\ Audited' = Audited /\ Counted' = Counted
    BY <1>11 DEF vars, Holders, Audited, Counted
  <2>3. RefsOld' /\ TokensMatch' /\ AuditMatches' /\ ValidRan' /\ CountsMatch'
    BY <1>0, <1>11, <2>2
    DEF vars, RefsOld, TokensMatch, AuditMatches, ValidRan, CountsMatch
  <2> QED  BY <2>1, <2>3, SlotsInvParts
<1>12. ASSUME NEW r \in Runs, NEW res \in {"ok", "failed"}, CommandEnds(r, res)
       PROVE  TypeOK' /\ SlotsInv'
  <2>1. CASE r \in Scripts
    BY <1>4, <1>a, <1>12, <2>1 DEF CommandEnds, Outcomes
  <2>2. CASE r \notin Scripts
    BY <1>4, <1>a, <1>12, <2>2 DEF CommandEnds, Outcomes
  <2> QED  BY <2>1, <2>2
<1>13. ASSUME NEW r \in Runs, ScriptInvalid(r) PROVE TypeOK' /\ SlotsInv'
  BY <1>4, <1>a, <1>13 DEF ScriptInvalid, Outcomes
<1> QED
  BY <1>1, <1>2, <1>3, <1>5, <1>6, <1>7, <1>8, <1>9, <1>10, <1>11, <1>12, <1>13
  DEF Next, Proceed

-----------------------------------------------------------------------------
(***************************************************************************)
(* SlotsInv is an invariant: what acquireSlot, releaseSlot, execute and    *)
(* runStages keep true together, for any runs, sizes and reloads.          *)
(***************************************************************************)
THEOREM SlotsInvariant == Spec => [](TypeOK /\ SlotsInv)
  BY InitInv, StepInv, PTL DEF Spec

(***************************************************************************)
(* Type correctness; in particular no channel of acquireSlot ever holds    *)
(* more tokens than it was made for.                                       *)
(***************************************************************************)
THEOREM TypeCorrect == Spec => []TypeOK
  BY SlotsInvariant, PTL

(***************************************************************************)
(* Until the first reload, script runs and native operations together stay *)
(* within maxConcurrentRuns and releaseSlot never blocks.                  *)
(***************************************************************************)
THEOREM RunsBounded == Spec => []SlotsBoundRuns
<1>1. TypeOK /\ SlotsInv => SlotsBoundRuns
  <2> SUFFICES ASSUME TypeOK, SlotsInv, gen = 0
               PROVE  /\ Cardinality(Holders) <= cap[0]
                      /\ \A r \in Runs : pc[r] = "receive" => tokens[ref[r]] > 0
    BY DEF SlotsBoundRuns
  <2>1. tokens[0] = Cardinality(Holders) /\ tokens[0] <= cap[0]
    BY GenFacts DEF SlotsInv, TypeOK
  <2>2. ASSUME NEW r \in Runs, pc[r] = "receive" PROVE tokens[ref[r]] > 0
    <3>1. Holders \in SUBSET Runs /\ r \in Holders
      BY <2>2 DEF Holders, Holding
    <3>2. Cardinality(Holders) > 0
      BY <3>1, CountByOne
    <3>3. ref[r] \in Nat /\ ref[r] <= 0
      BY GenFacts DEF TypeOK, SlotsInv
    <3>4. ref[r] = 0
      BY <3>3
    <3> QED  BY <2>1, <3>2, <3>4
  <2> QED  BY <2>1, <2>2
<1> QED  BY <1>1, SlotsInvariant, PTL

(***************************************************************************)
(* When no run owns a slot, execute and runStages have written one audit   *)
(* record for each run that was let in, none for a refused one, and the    *)
(* counters add up to the runs whose command ran.                          *)
(***************************************************************************)
THEOREM BooksAlwaysBalance == Spec => []BooksBalance
<1>1. TypeOK /\ SlotsInv => BooksBalance
  <2> SUFFICES ASSUME TypeOK, SlotsInv, Holders = {} PROVE BooksBalance
    BY DEF BooksBalance
  <2> DEFINE ran == {r \in Runs : pc[r] = "done"}
  <2>1. \A r \in Runs : pc[r] \in {"idle", "send", "refused", "done"}
    BY DEF Holders, TypeOK, PCs
  <2>2. \A r \in Runs : r \in Audited <=> r \in ran
    BY <2>1 DEF Audited
  <2>3. Counted = {r \in ran : outcome[r] # "invalid"}
    BY <2>1 DEF Counted
  <2>4. \A r \in Runs : audited[r] = IF r \in ran THEN 1 ELSE 0
    BY <2>2 DEF SlotsInv
  <2>5. successes + failures = Cardinality({r \in ran : outcome[r] # "invalid"})
    BY <2>3 DEF SlotsInv
  <2> QED  BY <2>4, <2>5 DEF BooksBalance
<1> QED  BY <1>1, SlotsInvariant, PTL
=============================================================================

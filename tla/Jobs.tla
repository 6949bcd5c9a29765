-------------------------------- MODULE Jobs --------------------------------
(***************************************************************************)
(* The scheduler of recurring jobs (daemon/jobs.go). One goroutine ticks   *)
(* once a second, collects the jobs that are due under the mutex and then  *)
(* runs them one after the other itself; SetJobs swaps the table from the  *)
(* goroutine of a configuration reload. A run borrows the executor, which  *)
(* is external here: it ends some time, well or badly. A job without a     *)
(* deadline whose command never ends would hold up all the others.         *)
(***************************************************************************)
EXTENDS Integers, Sequences, SequencesExt

CONSTANTS
    JobNames,     \* the names a configuration may schedule
    JobPeriod,    \* ticks between two due times of a job
    MaxSwaps      \* bound: how many reloads

ASSUME JobsAssumption == JobPeriod \in Nat \ {0} /\ MaxSwaps \in Nat

VARIABLES
    jobs,        \* jobs[g]: the jobState objects of table g, by name
    jobTable,    \* which table the runner points at: the newest
    jobsDue,     \* the jobStates the tick still has to run: <<g, name>>
    jobRunning   \* the jobState whose command runs: a sequence of at most one

jobsVars == <<jobs, jobTable, jobsDue, jobRunning>>

Tables == 0..MaxSwaps

\* SetJobs: the states of a table start from their next due time. A disabled
\* job, or one whose schedule does not parse, is left out.
TableOf(names) == [j \in names |-> [next |-> JobPeriod, running |-> FALSE]]

\* Every table holds configured names only, and only tables that exist are
\* referred to.
JobsTypeOK ==
    /\ \A g \in Tables : jobs[g] \in UNION {[ns -> [next : 0..JobPeriod,
                                 running : BOOLEAN]] : ns \in SUBSET JobNames}
    /\ jobTable \in Tables
    /\ Range(jobsDue) \cup Range(jobRunning) \subseteq (0..jobTable) \X JobNames
    /\ Len(jobRunning) <= 1

JobsIdle ==
    /\ jobs = [g \in Tables |-> TableOf({})]
    /\ jobTable = 0 /\ jobsDue = <<>> /\ jobRunning = <<>>

JobsInit ==
    /\ \E names \in SUBSET JobNames :
          jobs = [g \in Tables |-> TableOf(IF g = 0 THEN names ELSE {})]
    /\ jobTable = 0 /\ jobsDue = <<>> /\ jobRunning = <<>>

\* A reload swaps the table. States the tick has collected stay in its list.
SetJobs(names) ==
    /\ jobTable < MaxSwaps
    /\ jobTable' = jobTable + 1
    /\ jobs' = [jobs EXCEPT ![jobTable'] = TableOf(names)]
    /\ UNCHANGED <<jobsDue, jobRunning>>

\* A second passes. While the goroutine is busy the ticker drops its ticks;
\* the due times come nearer all the same.
SecondPasses ==
    /\ jobs' = [g \in Tables |-> [j \in DOMAIN jobs[g] |->
                   [jobs[g][j] EXCEPT !.next = IF @ > 0 THEN @ - 1 ELSE @]]]
    /\ UNCHANGED <<jobTable, jobsDue, jobRunning>>

\* tick: the due states of the current table, in the map's order (any).
CollectDue ==
    LET ready == {j \in DOMAIN jobs[jobTable] : jobs[jobTable][j].next = 0} IN
    /\ jobsDue = <<>> /\ jobRunning = <<>> /\ ready # {}
    /\ \E order \in SetToSeqs(ready) :
          jobsDue' = [i \in DOMAIN order |-> <<jobTable, order[i]>>]
    /\ UNCHANGED <<jobs, jobTable, jobRunning>>

\* runJob, up to the command: a state that is running is skipped; either way
\* its next due time is set.
RunJob ==
    /\ jobRunning = <<>> /\ jobsDue # <<>>
    /\ LET g == jobsDue[1][1]  j == jobsDue[1][2] IN
       /\ jobs' = [jobs EXCEPT ![g][j] = [next |-> JobPeriod, running |-> TRUE]]
       /\ jobRunning' = IF jobs[g][j].running THEN <<>> ELSE <<jobsDue[1]>>
    /\ jobsDue' = Tail(jobsDue)
    /\ UNCHANGED jobTable

\* (Mutant: the run ends and the flag stays.)
JobEnds_FlagKept ==
    /\ jobRunning # <<>>
    /\ jobRunning' = <<>>
    /\ UNCHANGED <<jobs, jobTable, jobsDue>>

\* The command returned or its deadline passed; publishing a failure changes
\* nothing here. Jobs run one after the other: where the timeouts are 0, a job
\* has no deadline, and one that never returns is the last that runs.
JobEnds ==
    /\ jobRunning # <<>>
    /\ jobs' = [jobs EXCEPT ![jobRunning[1][1]][jobRunning[1][2]].running = FALSE]
    /\ jobRunning' = <<>>
    /\ UNCHANGED <<jobTable, jobsDue>>

JobsNext ==
    \/ SecondPasses \/ CollectDue \/ RunJob \/ JobEnds
    \/ \E names \in SUBSET JobNames : SetJobs(names)

-----------------------------------------------------------------------------
(* What holds *)

\* A job that stays in the configured table is run again and again, whatever
\* tables were swapped in before and whatever else is due: no swap leaves a
\* state whose running flag nobody will reset.
JobsRecur ==
    \A j \in JobNames :
        <>[](j \in DOMAIN jobs[jobTable])
            => []<>(jobRunning = <<<<jobTable, j>>>>)

-----------------------------------------------------------------------------
(* Claims of the repository that the code does not keep *)

\* "Runs already in flight finish; new schedules start from their next due
\* time": a state of a replaced table is not started any more. It is, when it
\* was due behind a job that was running during the swap.
ReplacedJobNotStarted ==
    [][(jobRunning = <<>> /\ jobRunning' # <<>>)
        => jobRunning'[1][1] = jobTable]_jobsVars
=============================================================================

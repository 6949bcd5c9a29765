------------------------------ MODULE MCLoops ------------------------------
(***************************************************************************)
(* The background loops of the daemon, model-checked in one run. They do   *)
(* not share state, so a behaviour is a behaviour of one of them: loop,    *)
(* chosen at the start, says which, and the others stay idle. Each loop is *)
(* as fair as its own module says.                                         *)
(***************************************************************************)
EXTENDS Jobs, LogCapture, ConfigReload, ContainerStatus

VARIABLE loop

RuntimeOfStore == [s \in Stores |-> IF s = "docker" THEN "docker" ELSE "podman"]
StoreOfContainer ==
    [c \in Containers |-> IF c = "y" THEN "podman-root" ELSE "podman-user"]

\* The third line has the timestamp of the second.
StampOfLine == [l \in 0..MaxLines |-> IF l < 3 THEN l ELSE l - 1]

vars == <<loop, jobsVars, logVars, cfgVars, statusVars>>

Init ==
    \/ loop = "jobs"   /\ JobsInit /\ LogInit /\ CfgInit /\ StatusIdle
    \/ loop = "logs"   /\ JobsIdle /\ LogInit /\ CfgInit /\ StatusIdle
    \/ loop = "config" /\ JobsIdle /\ LogInit /\ CfgInit /\ StatusIdle
    \/ loop = "status" /\ JobsIdle /\ LogInit /\ CfgInit /\ StatusInit

Only(l, A) ==
    /\ loop = l /\ A /\ loop' = loop
    /\ IF l = "jobs"   THEN TRUE ELSE UNCHANGED jobsVars
    /\ IF l = "logs"   THEN TRUE ELSE UNCHANGED logVars
    /\ IF l = "config" THEN TRUE ELSE UNCHANGED cfgVars
    /\ IF l = "status" THEN TRUE ELSE UNCHANGED statusVars

Next ==
    \/ Only("jobs", JobsNext) \/ Only("logs", LogNext)
    \/ Only("config", CfgNext) \/ Only("status", StatusNext)

Fairness ==
    /\ WF_vars(Only("jobs", SecondPasses)) /\ WF_vars(Only("jobs", JobEnds))
    /\ WF_vars(Only("jobs", CollectDue \/ RunJob))
    /\ WF_vars(Only("logs", \E d, s, x \in BOOLEAN : CollectLogs(d, s, x)))
    /\ SF_vars(Only("logs", TailWorks))
    /\ WF_vars(Only("logs", FlushNothing)) /\ SF_vars(Only("logs", FlushOK))
    /\ WF_vars(Only("config", PatchStep)) /\ WF_vars(Only("config", WatchStep))
    /\ WF_vars(Only("status", UploadTimeout)) /\ WF_vars(Only("status", UploadEnds))
    /\ SF_vars(Only("status", FullSnapshot)) /\ SF_vars(Only("status", StoreFull))

Spec == Init /\ [][Next]_vars /\ Fairness
=============================================================================

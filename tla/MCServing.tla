----------------------------- MODULE MCServing -----------------------------
(***************************************************************************)
(* What a daemon serves beside its tasks, and the configuration it serves  *)
(* it with, model-checked in one run: the live stream, native host         *)
(* operations, the file API and the loading of the configuration. They     *)
(* share no state, so a behaviour is a behaviour of one of them: serving,  *)
(* chosen at the start, says which, and the others stay idle.              *)
(***************************************************************************)
EXTENDS StreamHub, MCHostOps, MCFileAPI, MCConfigLoad

VARIABLE serving

Init ==
    \/ serving = "stream" /\ StreamInit /\ HostIdle /\ FileIdle /\ LoadIdle
    \/ serving = "host"   /\ StreamInit /\ HostInit /\ FileIdle /\ LoadIdle
    \/ serving = "files"  /\ StreamInit /\ HostIdle /\ FileInit /\ LoadIdle
    \/ serving = "config" /\ StreamInit /\ HostIdle /\ FileIdle /\ LoadInit

Next ==
    \/ serving = "stream" /\ StreamNext /\ UNCHANGED <<serving, hostVars, fileVars, loadVars>>
    \/ serving = "host"   /\ HostNext   /\ UNCHANGED <<serving, streamVars, fileVars, loadVars>>
    \/ serving = "files"  /\ FileNext   /\ UNCHANGED <<serving, streamVars, hostVars, loadVars>>
    \/ serving = "config" /\ LoadNext   /\ UNCHANGED <<serving, streamVars, hostVars, fileVars>>

Spec == Init /\ [][Next]_<<serving, streamVars, hostVars, fileVars, loadVars>>
=============================================================================

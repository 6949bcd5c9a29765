---------------------------- MODULE ConfigReload ----------------------------
(***************************************************************************)
(* The daemon's configuration file and what is running from it             *)
(* (daemon/reload.go, daemon/config_api.go): PATCH requests read, patch    *)
(* and rename the file and reload, an operator's editor saves it, and the  *)
(* watcher reloads, debounced, whatever happened in the directory. A       *)
(* reload loads one snapshot of the file and then swaps the components one *)
(* after the other; only the watcher's reloads exclude each other.         *)
(*                                                                         *)
(* A configuration is what two of its keys say. Each value is fine for the *)
(* PATCH rules; together they can fail ValidateDaemon, as an upload that   *)
(* is enabled with no interval does.                                       *)
(***************************************************************************)
EXTENDS Integers, Sequences

CONSTANTS
    Patchers,       \* concurrent PATCH requests
    Quick,          \* a PATCH's reload takes less than reloadDebounce
    MaxWrites       \* bound: PATCH requests and editor saves

ASSUME ReloadAssumption == Quick \in BOOLEAN /\ MaxWrites \in Nat

VARIABLES
    cfgFile,    \* the configuration file
    tmpFile,    \* <path>.tmp, which every writeFileAtomic shares
    active,     \* active[c]: the configuration component c runs with
    patch,      \* patch[p]: a PATCH request
    watch,      \* the watcher's reload
    cfgEvent,   \* an event was seen and its reload is still to come
    writes,
    badSave     \* the editor has saved an invalid file, ghost

cfgVars == <<cfgFile, tmpFile, active, patch, watch, cfgEvent, writes, badSave>>

Config == [enabled : BOOLEAN, interval : {0, 1}]
NoFile == <<>>                      \* or a sequence of one configuration

\* ValidateDaemon, of the keys that matter here.
ValidateDaemon(c) == c.enabled => c.interval > 0

\* The components applyReload swaps, in its order.
Components == <<"executor", "jobs", "rt">>
Part == 1..Len(Components)

\* What a PATCH may ask for: one key with one value.
Patches == {<<"enabled", TRUE>>, <<"enabled", FALSE>>, <<"interval", 0>>, <<"interval", 1>>}

Start == [enabled |-> FALSE, interval |-> 0]
IdlePatch == [pc |-> "idle", old |-> Start, cfg |-> Start, at |-> 0]
IdleWatch == [pc |-> "idle", cfg |-> Start, at |-> 0]

CfgInit ==
    /\ cfgFile = Start /\ tmpFile = NoFile
    /\ active = [i \in Part |-> Start]
    /\ patch = [p \in Patchers |-> IdlePatch]
    /\ watch = IdleWatch /\ cfgEvent = FALSE /\ writes = 0
    /\ badSave = FALSE

PatchPCs == {"idle", "tmp", "rename", "load", "apply", "undo", "rename back"}

\* Files, patches and reloads hold configurations.
CfgTypeOK ==
    /\ cfgFile \in Config /\ tmpFile \in {NoFile} \cup {<<c>> : c \in Config}
    /\ active \in [Part -> Config]
    /\ patch \in [Patchers -> [pc : PatchPCs, old : Config, cfg : Config, at : 0..2]]
    /\ watch \in [pc : {"idle", "load", "apply"}, cfg : Config, at : 0..2]
    /\ cfgEvent \in BOOLEAN /\ writes \in 0..MaxWrites /\ badSave \in BOOLEAN

-----------------------------------------------------------------------------
(* PATCH *)

\* patchDaemonSection: the key's line replaced, or appended to the section;
\* every other line as it was.
PatchDaemonSection(c, kv) ==
    IF kv[1] = "enabled" THEN [c EXCEPT !.enabled = kv[2]]
                         ELSE [c EXCEPT !.interval = kv[2]]

\* handlePatchConfig reads the file and patches the text.
PatchRead(p, kv) ==
    /\ patch[p].pc = "idle" /\ writes < MaxWrites
    /\ writes' = writes + 1
    /\ patch' = [patch EXCEPT ![p] = [pc |-> "tmp", old |-> cfgFile,
                     cfg |-> PatchDaemonSection(cfgFile, kv), at |-> 0]]
    /\ UNCHANGED <<cfgFile, tmpFile, active, watch, cfgEvent, badSave>>

\* writeFileAtomic, for the patched text or to put the old one back: the
\* temporary file, which the watcher sees too, and the rename.
WriteTmp(p) ==
    /\ patch[p].pc \in {"tmp", "undo"}
    /\ tmpFile' = <<IF patch[p].pc = "tmp" THEN patch[p].cfg ELSE patch[p].old>>
    /\ patch' = [patch EXCEPT ![p].pc = IF @ = "tmp" THEN "rename" ELSE "rename back"]
    /\ cfgEvent' = TRUE
    /\ UNCHANGED <<cfgFile, active, watch, writes, badSave>>

RenameTmp(p) ==
    /\ patch[p].pc \in {"rename", "rename back"}
    /\ IF tmpFile = NoFile
       THEN \* another request has renamed it: an error, and nothing is undone
            /\ patch' = [patch EXCEPT ![p] = IdlePatch]
            /\ UNCHANGED <<cfgFile, tmpFile, cfgEvent>>
       ELSE /\ cfgFile' = tmpFile[1] /\ tmpFile' = NoFile /\ cfgEvent' = TRUE
            /\ patch' = [patch EXCEPT ![p] = IF patch[p].pc = "rename"
                            THEN [patch[p] EXCEPT !.pc = "load"] ELSE IdlePatch]
    /\ UNCHANGED <<active, watch, writes, badSave>>

\* (Mutant: a reload that fails leaves the new text on disk.)
PatchLoad_NotUndone(p) ==
    /\ patch[p].pc = "load"
    /\ patch' = [patch EXCEPT ![p] = IF ValidateDaemon(cfgFile)
                    THEN [patch[p] EXCEPT !.pc = "apply", !.cfg = cfgFile]
                    ELSE IdlePatch]
    /\ UNCHANGED <<cfgFile, tmpFile, active, watch, cfgEvent, writes, badSave>>

\* Reload: load and validate what the file says now. A failure leaves the
\* components alone and puts the old text back.
PatchLoad(p) ==
    /\ patch[p].pc = "load"
    /\ patch' = [patch EXCEPT ![p] = IF ValidateDaemon(cfgFile)
                    THEN [patch[p] EXCEPT !.pc = "apply", !.cfg = cfgFile]
                    ELSE [patch[p] EXCEPT !.pc = "undo"]]
    /\ UNCHANGED <<cfgFile, tmpFile, active, watch, cfgEvent, writes, badSave>>

\* applyReload swaps one component after the other.
PatchApply(p) ==
    /\ patch[p].pc = "apply"
    /\ active' = [active EXCEPT ![patch[p].at + 1] = patch[p].cfg]
    /\ patch' = [patch EXCEPT ![p] = IF patch[p].at + 1 = Len(Components)
                    THEN IdlePatch ELSE [patch[p] EXCEPT !.at = @ + 1]]
    /\ UNCHANGED <<cfgFile, tmpFile, watch, cfgEvent, writes, badSave>>

-----------------------------------------------------------------------------
(* The editor and the watcher *)

\* An operator saves a configuration of their own, valid or not, by replacing
\* the file. (A save in two writes is two saves, the first of half a file.
\* SIGHUP starts the same reload as the watcher, without an event.)
EditorSave(c) ==
    /\ writes < MaxWrites /\ c # cfgFile
    /\ writes' = writes + 1
    /\ cfgFile' = c /\ cfgEvent' = TRUE
    /\ badSave' = (badSave \/ ~ValidateDaemon(c))
    /\ UNCHANGED <<tmpFile, active, patch, watch>>

\* The debounce timer fires reloadDebounce after the last event; a PATCH that
\* loaded the file before that event and is Quick has applied it by now.
WatchFires ==
    /\ cfgEvent /\ watch.pc = "idle"
    /\ Quick => \A p \in Patchers : patch[p].pc = "apply" => patch[p].cfg = cfgFile
    /\ cfgEvent' = FALSE
    /\ watch' = [IdleWatch EXCEPT !.pc = "load"]
    /\ UNCHANGED <<cfgFile, tmpFile, active, patch, writes, badSave>>

WatchLoad ==
    /\ watch.pc = "load"
    /\ watch' = IF ValidateDaemon(cfgFile)
                THEN [watch EXCEPT !.pc = "apply", !.cfg = cfgFile] ELSE IdleWatch
    /\ UNCHANGED <<cfgFile, tmpFile, active, patch, cfgEvent, writes, badSave>>

\* (Mutant: the event flag is reset when the reload is over.)
WatchApply_LateReset ==
    /\ watch.pc = "apply"
    /\ active' = [active EXCEPT ![watch.at + 1] = watch.cfg]
    /\ watch' = IF watch.at + 1 = Len(Components) THEN IdleWatch
                ELSE [watch EXCEPT !.at = @ + 1]
    /\ cfgEvent' = (cfgEvent /\ watch'.pc # "idle")
    /\ UNCHANGED <<cfgFile, tmpFile, patch, writes, badSave>>

WatchApply ==
    /\ watch.pc = "apply"
    /\ active' = [active EXCEPT ![watch.at + 1] = watch.cfg]
    /\ watch' = IF watch.at + 1 = Len(Components) THEN IdleWatch
                ELSE [watch EXCEPT !.at = @ + 1]
    /\ UNCHANGED <<cfgFile, tmpFile, patch, cfgEvent, writes, badSave>>

PatchStep == \E p \in Patchers : WriteTmp(p) \/ RenameTmp(p) \/ PatchLoad(p) \/ PatchApply(p)
WatchStep == WatchFires \/ WatchLoad \/ WatchApply

CfgNext ==
    \/ PatchStep \/ WatchStep
    \/ \E p \in Patchers, kv \in Patches : PatchRead(p, kv)
    \/ \E c \in Config : EditorSave(c)

CfgSpec == CfgInit /\ [][CfgNext]_cfgVars /\ WF_cfgVars(PatchStep) /\ WF_cfgVars(WatchStep)

-----------------------------------------------------------------------------
(* What holds, of PATCH requests one at a time that are Quick *)

\* Whatever is running was validated, also halfway through a reload and while
\* an invalid file is on disk.
RunningValidated == \A i \in Part : ValidateDaemon(active[i])

\* "reloads are serialized": when the writes are over, all components run with
\* what the file says, however PATCH reloads, the editor's saves and the
\* watcher's reloads were interleaved. Two concurrent PATCH requests, or one
\* slower than the debounce, can leave the daemon with another configuration
\* than its file for good.
ConfigConverges ==
    <>[](ValidateDaemon(cfgFile) => \A i \in Part : active[i] = cfgFile)

\* "a bad PATCH never strands the daemon on an invalid on-disk config": with
\* no request under way the file is valid, unless the editor's was not. Of two
\* requests, one that reads the file while the other's bad text is on disk
\* puts that text back.
BadPatchUndone ==
    (\A p \in Patchers : patch[p].pc = "idle") /\ ~badSave => ValidateDaemon(cfgFile)

\* Why they hold, as Loops_proofs shows. A reload applies what it validated.
ReloadsValidated ==
    /\ RunningValidated
    /\ \A p \in Patchers : patch[p].pc = "apply" => ValidateDaemon(patch[p].cfg)
    /\ watch.pc = "apply" => ValidateDaemon(watch.cfg)

\* While nobody saved an invalid file, a request that is alone has a valid text
\* to put back; the file is valid but between its rename and the undo.
OnePatch == \A p, q \in Patchers : p = q

UndoReady ==
    ~badSave =>
        /\ BadPatchUndone
        /\ \A p \in Patchers :
             /\ patch[p].pc # "idle" => ValidateDaemon(patch[p].old)
             /\ patch[p].pc \notin {"load", "undo", "rename back"} => ValidateDaemon(cfgFile)
             /\ patch[p].pc = "rename back" => tmpFile = <<patch[p].old>>
=============================================================================

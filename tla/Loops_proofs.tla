---------------------------- MODULE Loops_proofs ----------------------------
(***************************************************************************)
(* What is proved of the background loops: container status, for any       *)
(* containers, stores and overlapping uploads; the configuration, for any  *)
(* number of PATCH requests; the cloud's disconnect evaluator, for any     *)
(* limits, overlapping reports and edits; and log capture, for any sizes   *)
(* of the ring, the batches and the files and any timestamps.              *)
(***************************************************************************)
EXTENDS ContainerStatus, ConfigReload, Heartbeat, LogCapture, SequenceTheorems,
        WellFoundedInduction, TLAPS

-----------------------------------------------------------------------------
(* Container status *)

LEMMA StatusTypesStep == StatusTypeOK /\ [StatusNext]_statusVars => StatusTypeOK'
<1> SUFFICES ASSUME StatusTypeOK, [StatusNext]_statusVars PROVE StatusTypeOK'
    OBVIOUS
<1> USE DEF StatusTypeOK
<1>1. CASE UNCHANGED statusVars
    BY <1>1 DEF statusVars
<1>2. ASSUME NEW c \in Containers, NEW s \in States \cup {Absent}, HostChange(c, s)
      PROVE  StatusTypeOK'
    BY <1>2 DEF HostChange, Host
<1>3. ASSUME NEW l \in Allowlists, ReloadManaged(l) PROVE StatusTypeOK'
    BY <1>3 DEF ReloadManaged
<1>4. CASE UploadTimeout
    BY <1>4 DEF UploadTimeout
<1>5. ASSUME NEW u \in Uploads, IngestStatus(u) PROVE StatusTypeOK'
    <2>1. PICK b : b = upload[u] /\ b \in Snapshots
        BY <1>5 DEF IngestStatus
    <2>2. b.was \in Host
        BY <2>1 DEF Snapshots
    <2>3. rows' = Reconciled(b)
        BY <1>5, <2>1 DEF IngestStatus
    <2>4. Reconciled(b) \in Host
        BY <2>2 DEF Reconciled, Host
    <2> QED  BY <1>5, <2>3, <2>4 DEF IngestStatus
<1>6. ASSUME NEW u \in Uploads, UploadLost(u) PROVE StatusTypeOK'
    BY <1>6 DEF UploadLost
<1>7. ASSUME NEW u \in Uploads, NEW failed \in Hiccups, PublishStatus(u, failed)
      PROVE  StatusTypeOK'
    BY <1>7 DEF PublishStatus, Snapshots
<1> QED  BY <1>1, <1>2, <1>3, <1>4, <1>5, <1>6, <1>7 DEF StatusNext

\* The rows the cloud keeps, the snapshots on their way and the host always
\* describe known containers (publishContainerStatus, IngestContainerStatus).
THEOREM StatusTypes == StatusSpec => []StatusTypeOK
<1>1. StatusInit => StatusTypeOK
    BY DEF StatusInit, StatusTypeOK, Host
<1> QED  BY <1>1, StatusTypesStep, PTL DEF StatusSpec

\* A container that a snapshot does not mention although its runtime is covered
\* was gone from the host or from the allowlist: a store of a covered runtime
\* has answered.
LEMMA UnmentionedIsGone ==
    ASSUME NEW b \in Snapshots, NEW c \in Containers,
           c \notin Mentioned(b), Runtime(c) \in Covered(b.failed)
    PROVE  b.was[c] = Absent \/ ~MatchManaged(c, b.list)
<1>1. StoreOf[c] \notin b.failed
    BY DEF Covered, Runtime
<1> QED  BY <1>1 DEF Mentioned

\* Storing a snapshot, however late and after whichever other one, removes only
\* rows of containers that were gone when it was taken, for any stores, any
\* sets of them failing together and any number of uploads under way at once
\* (IngestContainerStatus's delete of what a covered runtime does not list).
THEOREM RowsSurviveHiccups == StatusSpec => HiccupKeepsRows
<1> DEFINE Gone == \A c \in Containers : (rows[c] # Absent /\ rows'[c] = Absent)
                     => \E u \in Uploads : /\ upload[u].sent
                                           /\ \/ upload[u].was[c] = Absent
                                              \/ ~MatchManaged(c, upload[u].list)
<1>1. StatusTypeOK /\ [StatusNext]_statusVars => [Gone]_statusVars
    <2> SUFFICES ASSUME StatusTypeOK, StatusNext,
                        NEW c \in Containers, rows[c] # Absent, rows'[c] = Absent
                 PROVE  \E u \in Uploads : /\ upload[u].sent
                                           /\ \/ upload[u].was[c] = Absent
                                              \/ ~MatchManaged(c, upload[u].list)
        OBVIOUS
    <2>1. rows' # rows
        OBVIOUS
    <2>2. PICK u \in Uploads : IngestStatus(u)
        BY <2>1 DEF StatusNext, HostChange, ReloadManaged, UploadTimeout, UploadLost,
                    PublishStatus
    <2>3. PICK b : b = upload[u] /\ b \in Snapshots
        BY <2>2 DEF IngestStatus, StatusTypeOK
    <2>4. b.sent /\ b.was[c] \in States \cup {Absent}
        BY <2>3 DEF Snapshots, Host
    <2>5. rows'[c] = IF c \in Mentioned(b) THEN b.was[c]
                     ELSE IF Runtime(c) \in Covered(b.failed) THEN Absent ELSE rows[c]
        BY <2>2, <2>3 DEF IngestStatus, Reconciled
    <2>6. c \notin Mentioned(b)
        BY <2>5 DEF Mentioned
    <2>7. Runtime(c) \in Covered(b.failed)
        BY <2>5, <2>6
    <2>8. b.was[c] = Absent \/ ~MatchManaged(c, b.list)
        BY <2>3, <2>6, <2>7, UnmentionedIsGone
    <2> QED  BY <2>3, <2>4, <2>8
<1> QED  BY <1>1, StatusTypes, PTL DEF StatusSpec, HiccupKeepsRows

-----------------------------------------------------------------------------
(* Configuration *)

LEMMA ThreeComponents == Len(Components) = 3 /\ Part = 1..3
    BY DEF Components, Part

LEMMA StartIsValid == Start \in Config /\ ValidateDaemon(Start)
    BY DEF Start, Config, ValidateDaemon

LEMMA PatchedIsConfig ==
    ASSUME NEW c \in Config, NEW kv \in Patches
    PROVE  PatchDaemonSection(c, kv) \in Config
<1>1. /\ kv[1] = "enabled" => kv[2] \in BOOLEAN
      /\ kv[1] # "enabled" => kv[2] \in {0, 1}
    <2>1. CASE kv = <<"enabled", TRUE>>    BY <2>1
    <2>2. CASE kv = <<"enabled", FALSE>>   BY <2>2
    <2>3. CASE kv = <<"interval", 0>>      BY <2>3
    <2>4. CASE kv = <<"interval", 1>>      BY <2>4
    <2> QED  BY <2>1, <2>2, <2>3, <2>4 DEF Patches
<1>2. CASE kv[1] = "enabled"
    BY <1>1, <1>2 DEF Config, PatchDaemonSection
<1>3. CASE kv[1] # "enabled"
    BY <1>1, <1>3 DEF Config, PatchDaemonSection
<1> QED  BY <1>2, <1>3

LEMMA CfgTypesStep == CfgTypeOK /\ [CfgNext]_cfgVars => CfgTypeOK'
<1> SUFFICES ASSUME CfgTypeOK, [CfgNext]_cfgVars PROVE CfgTypeOK'
    OBVIOUS
<1> DEFINE Patching == [pc : PatchPCs, old : Config, cfg : Config, at : 0..2]
           Watching == [pc : {"idle", "load", "apply"}, cfg : Config, at : 0..2]
<1>a. IdlePatch \in Patching /\ IdleWatch \in Watching
    BY StartIsValid DEF IdlePatch, IdleWatch, PatchPCs
<1>b. patch \in [Patchers -> Patching] /\ watch \in Watching
    BY DEF CfgTypeOK
<1>c. \A c, d \in Config : [pc |-> "tmp", old |-> c, cfg |-> d, at |-> 0] \in Patching
    BY DEF PatchPCs
<1> USE DEF CfgTypeOK
<1>1. CASE UNCHANGED cfgVars
    BY <1>1 DEF cfgVars
<1>2. ASSUME NEW p \in Patchers, NEW kv \in Patches, PatchRead(p, kv) PROVE CfgTypeOK'
    <2>1. cfgFile \in Config /\ PatchDaemonSection(cfgFile, kv) \in Config
        BY PatchedIsConfig
    <2>2. patch' \in [Patchers -> Patching]
        BY <1>2, <1>b, <1>c, <2>1 DEF PatchRead
    <2>3. writes' \in 0..MaxWrites
        BY <1>2, ReloadAssumption DEF PatchRead
    <2> QED  BY <1>2, <2>2, <2>3 DEF PatchRead
<1>3. ASSUME NEW p \in Patchers, WriteTmp(p) PROVE CfgTypeOK'
    <2>1. patch[p] \in Patching
        BY <1>b
    <2>2. tmpFile' \in {<<c>> : c \in Config}
        BY <1>3, <2>1 DEF WriteTmp
    <2>3. patch' \in [Patchers -> Patching]
        BY <1>3, <1>b, <2>1 DEF WriteTmp, PatchPCs
    <2> QED  BY <1>3, <2>2, <2>3 DEF WriteTmp
<1>4. ASSUME NEW p \in Patchers, RenameTmp(p) PROVE CfgTypeOK'
    <2>1. patch[p] \in Patching
        BY <1>b
    <2>2. patch'[p] \in Patching /\ patch' = [patch EXCEPT ![p] = patch'[p]]
        <3>1. [patch[p] EXCEPT !.pc = "load"] \in Patching
            BY <2>1 DEF PatchPCs
        <3>2. \E r \in Patching : patch' = [patch EXCEPT ![p] = r]
            BY <1>4, <1>a, <3>1 DEF RenameTmp
        <3> QED  BY <1>b, <3>2
    <2>3. cfgFile' \in Config
        <3>1. tmpFile # NoFile => tmpFile[1] \in Config
            OBVIOUS
        <3> QED  BY <1>4, <3>1 DEF RenameTmp
    <2>4. patch' \in [Patchers -> Patching]
        BY <1>b, <2>2
    <2> QED  BY <1>4, <2>3, <2>4 DEF RenameTmp
<1>5. ASSUME NEW p \in Patchers, PatchLoad(p) PROVE CfgTypeOK'
    <2>1. patch[p] \in Patching
        BY <1>b
    <2>2. patch' \in [Patchers -> Patching]
        BY <1>5, <1>a, <1>b, <2>1 DEF PatchLoad, PatchPCs
    <2> QED  BY <1>5, <2>2 DEF PatchLoad
<1>6. ASSUME NEW p \in Patchers, PatchApply(p) PROVE CfgTypeOK'
    <2>1. patch[p] \in Patching
        BY <1>b
    <2>2. patch[p].at + 1 # 3 => patch[p].at + 1 \in 0..2
        BY <2>1
    <2>3. patch' \in [Patchers -> Patching]
        BY <1>6, <1>a, <1>b, <2>1, <2>2, ThreeComponents DEF PatchApply
    <2>4. active' \in [Part -> Config]
        BY <1>6, <2>1, ThreeComponents DEF PatchApply
    <2> QED  BY <1>6, <2>3, <2>4 DEF PatchApply
<1>7. ASSUME NEW c \in Config, EditorSave(c) PROVE CfgTypeOK'
    <2>1. writes' \in 0..MaxWrites
        BY <1>7, ReloadAssumption DEF EditorSave
    <2> QED  BY <1>7, <2>1 DEF EditorSave
<1>8. CASE WatchFires
    BY <1>8, <1>a, <1>b DEF WatchFires
<1>9. CASE WatchLoad
    BY <1>9, <1>a, <1>b DEF WatchLoad
<1>10. CASE WatchApply
    <2>1. watch' \in Watching
        BY <1>10, <1>a, <1>b, ThreeComponents DEF WatchApply
    <2>2. active' \in [Part -> Config]
        BY <1>10, <1>b, ThreeComponents DEF WatchApply
    <2> QED  BY <1>10, <2>1, <2>2 DEF WatchApply
<1> QED  BY <1>1, <1>2, <1>3, <1>4, <1>5, <1>6, <1>7, <1>8, <1>9, <1>10
         DEF CfgNext, PatchStep, WatchStep

LEMMA CfgTypes == CfgSpec => []CfgTypeOK
<1>1. CfgInit => CfgTypeOK
    <2> SUFFICES ASSUME CfgInit PROVE CfgTypeOK
        OBVIOUS
    <2>1. IdlePatch \in [pc : PatchPCs, old : Config, cfg : Config, at : 0..2]
        BY StartIsValid DEF IdlePatch, PatchPCs
    <2>2. IdleWatch \in [pc : {"idle", "load", "apply"}, cfg : Config, at : 0..2]
        BY StartIsValid DEF IdleWatch
    <2>3. active \in [Part -> Config] /\ cfgFile \in Config
        BY StartIsValid DEF CfgInit
    <2>4. writes \in 0..MaxWrites
        BY ReloadAssumption DEF CfgInit
    <2> QED  BY <2>1, <2>2, <2>3, <2>4 DEF CfgInit, CfgTypeOK
<1> QED  BY <1>1, CfgTypesStep, PTL DEF CfgSpec

\* What a reload applies is the copy it validated, whatever became of the file.
LEMMA ValidatedStep ==
    CfgTypeOK /\ ReloadsValidated /\ [CfgNext]_cfgVars => ReloadsValidated'
<1> SUFFICES ASSUME CfgTypeOK, ReloadsValidated, [CfgNext]_cfgVars
             PROVE  ReloadsValidated'
    OBVIOUS
<1> USE DEF ReloadsValidated, RunningValidated
<1>a. DOMAIN patch = Patchers /\ DOMAIN active = Part
    BY DEF CfgTypeOK
<1>b. \A p \in Patchers : DOMAIN patch[p] = {"pc", "old", "cfg", "at"}
    BY DEF CfgTypeOK
<1>c. IdlePatch.pc # "apply" /\ IdleWatch.pc # "apply"
    BY DEF IdlePatch, IdleWatch
<1>1. CASE UNCHANGED cfgVars
    BY <1>1 DEF cfgVars
<1>2. ASSUME NEW p \in Patchers, NEW kv \in Patches, PatchRead(p, kv)
      PROVE  ReloadsValidated'
    BY <1>2, <1>a DEF PatchRead
<1>3. ASSUME NEW p \in Patchers, WriteTmp(p) PROVE ReloadsValidated'
    <2>1. patch'[p].pc # "apply"
        BY <1>3, <1>a, <1>b DEF WriteTmp
    <2>2. \A q \in Patchers \ {p} : patch'[q] = patch[q]
        BY <1>3, <1>a DEF WriteTmp
    <2> QED  BY <1>3, <2>1, <2>2 DEF WriteTmp
<1>4. ASSUME NEW p \in Patchers, RenameTmp(p) PROVE ReloadsValidated'
    <2>1. patch'[p].pc # "apply"
        BY <1>4, <1>a, <1>b, <1>c DEF RenameTmp
    <2>2. \A q \in Patchers \ {p} : patch'[q] = patch[q]
        BY <1>4, <1>a DEF RenameTmp
    <2> QED  BY <1>4, <2>1, <2>2 DEF RenameTmp
<1>5. ASSUME NEW p \in Patchers, PatchLoad(p) PROVE ReloadsValidated'
    <2>1. patch'[p].pc = "apply" => ValidateDaemon(patch'[p].cfg)
        BY <1>5, <1>a, <1>b DEF PatchLoad
    <2>2. \A q \in Patchers \ {p} : patch'[q] = patch[q]
        BY <1>5, <1>a DEF PatchLoad
    <2> QED  BY <1>5, <2>1, <2>2 DEF PatchLoad
<1>6. ASSUME NEW p \in Patchers, PatchApply(p) PROVE ReloadsValidated'
    <2>1. patch'[p].pc = "apply" => patch'[p].cfg = patch[p].cfg
        BY <1>6, <1>a, <1>b, <1>c DEF PatchApply
    <2>2. \A q \in Patchers \ {p} : patch'[q] = patch[q]
        BY <1>6, <1>a DEF PatchApply
    <2>3. \A i \in Part : active'[i] \in {active[i], patch[p].cfg}
        BY <1>6, <1>a DEF PatchApply
    <2>4. ValidateDaemon(patch[p].cfg)
        BY <1>6 DEF PatchApply
    <2> QED  BY <1>6, <2>1, <2>2, <2>3, <2>4 DEF PatchApply
<1>7. ASSUME NEW c \in Config, EditorSave(c) PROVE ReloadsValidated'
    BY <1>7 DEF EditorSave
<1>8. CASE WatchFires
    BY <1>8 DEF WatchFires, IdleWatch
<1>9. CASE WatchLoad
    <2>1. DOMAIN watch = {"pc", "cfg", "at"}
        BY DEF CfgTypeOK
    <2>2. watch'.pc = "apply" => ValidateDaemon(watch'.cfg)
        BY <1>9, <1>c, <2>1 DEF WatchLoad
    <2> QED  BY <1>9, <2>2 DEF WatchLoad
<1>10. CASE WatchApply
    <2>1. watch'.pc = "apply" => watch'.cfg = watch.cfg
        BY <1>10, <1>c DEF WatchApply, CfgTypeOK
    <2>2. \A i \in Part : active'[i] \in {active[i], watch.cfg}
        BY <1>10, <1>a DEF WatchApply
    <2>3. ValidateDaemon(watch.cfg)
        BY <1>10 DEF WatchApply
    <2> QED  BY <1>10, <2>1, <2>2, <2>3 DEF WatchApply
<1> QED  BY <1>1, <1>2, <1>3, <1>4, <1>5, <1>6, <1>7, <1>8, <1>9, <1>10
         DEF CfgNext, PatchStep, WatchStep

\* Every component runs, at every moment of every reload, with a configuration
\* that ValidateDaemon accepted, for any number of concurrent PATCH requests
\* and whatever the editor saves.
THEOREM OnlyValidatedRuns == CfgSpec => []RunningValidated
<1>1. CfgInit => ReloadsValidated
    BY StartIsValid DEF CfgInit, ReloadsValidated, RunningValidated, IdlePatch, IdleWatch
<1>2. ReloadsValidated => RunningValidated
    BY DEF ReloadsValidated
<1> QED  BY <1>1, <1>2, CfgTypes, ValidatedStep, PTL DEF CfgSpec

-----------------------------------------------------------------------------
(* One PATCH request at a time *)

LEMMA UndoStep ==
    ASSUME OnePatch
    PROVE  CfgTypeOK /\ UndoReady /\ [CfgNext]_cfgVars => UndoReady'
<1> SUFFICES ASSUME CfgTypeOK, UndoReady, [CfgNext]_cfgVars, ~badSave'
             PROVE  /\ BadPatchUndone'
                    /\ \A p \in Patchers :
                         /\ patch'[p].pc # "idle" => ValidateDaemon(patch'[p].old)
                         /\ patch'[p].pc \notin {"load", "undo", "rename back"}
                              => ValidateDaemon(cfgFile')
                         /\ patch'[p].pc = "rename back" => tmpFile' = <<patch'[p].old>>
    BY DEF UndoReady
<1>a. ~badSave
    BY DEF CfgTypeOK, CfgNext, PatchStep, WatchStep, PatchRead, WriteTmp, RenameTmp,
           PatchLoad, PatchApply, EditorSave, WatchFires, WatchLoad, WatchApply, cfgVars
<1>b. DOMAIN patch = Patchers
      /\ \A p \in Patchers : DOMAIN patch[p] = {"pc", "old", "cfg", "at"}
    BY DEF CfgTypeOK
<1>c. IdlePatch.pc = "idle"
    BY DEF IdlePatch
<1>d. /\ BadPatchUndone
      /\ \A p \in Patchers :
           /\ patch[p].pc # "idle" => ValidateDaemon(patch[p].old)
           /\ patch[p].pc \notin {"load", "undo", "rename back"} => ValidateDaemon(cfgFile)
           /\ patch[p].pc = "rename back" => tmpFile = <<patch[p].old>>
    BY <1>a DEF UndoReady
<1> DEFINE Ready(p) ==
             /\ patch'[p].pc # "idle" => ValidateDaemon(patch'[p].old)
             /\ patch'[p].pc \notin {"load", "undo", "rename back"} => ValidateDaemon(cfgFile')
             /\ patch'[p].pc = "rename back" => tmpFile' = <<patch'[p].old>>
\* The request that takes a step is the only one.
<1>e. ASSUME NEW p \in Patchers, Ready(p)
      PROVE  BadPatchUndone' /\ \A q \in Patchers : Ready(q)
    <2>1. \A q \in Patchers : q = p
        BY DEF OnePatch
    <2>2. \A q \in Patchers : Ready(q)
        BY <1>e, <2>1
    <2>3. BadPatchUndone'
        BY <1>e DEF BadPatchUndone
    <2> QED  BY <2>2, <2>3
<1>1. CASE UNCHANGED cfgVars
    BY <1>1, <1>d DEF cfgVars, BadPatchUndone
<1>2. ASSUME NEW p \in Patchers, NEW kv \in Patches, PatchRead(p, kv)
      PROVE  Ready(p)
    <2>1. patch'[p].pc = "tmp" /\ patch'[p].old = cfgFile /\ cfgFile' = cfgFile
        BY <1>2, <1>b DEF PatchRead
    <2>2. ValidateDaemon(cfgFile)
        BY <1>2, <1>d DEF PatchRead
    <2> QED  BY <2>1, <2>2
<1>3. ASSUME NEW p \in Patchers, WriteTmp(p) PROVE Ready(p)
    <2>1. /\ patch[p].pc = "tmp" => patch'[p].pc = "rename"
          /\ patch[p].pc = "undo" => patch'[p].pc = "rename back"
          /\ patch'[p].old = patch[p].old
        BY <1>3, <1>b DEF WriteTmp
    <2>2. patch[p].pc = "undo" => tmpFile' = <<patch[p].old>>
        BY <1>3 DEF WriteTmp
    <2> QED  BY <1>3, <1>d, <2>1, <2>2 DEF WriteTmp
<1>4. ASSUME NEW p \in Patchers, RenameTmp(p) PROVE Ready(p)
    <2>1. CASE patch[p].pc = "rename back"
        <3>1. tmpFile = <<patch[p].old>> /\ ValidateDaemon(patch[p].old)
            BY <1>d, <2>1
        <3>2. tmpFile # NoFile /\ tmpFile[1] = patch[p].old
            BY <3>1 DEF NoFile
        <3>3. cfgFile' = patch[p].old /\ patch'[p] = IdlePatch
            BY <1>4, <1>b, <2>1, <3>2 DEF RenameTmp
        <3> QED  BY <1>c, <3>1, <3>3
    <2>2. CASE patch[p].pc = "rename" /\ tmpFile = NoFile
        <3>1. cfgFile' = cfgFile /\ patch'[p] = IdlePatch
            BY <1>4, <1>b, <2>2 DEF RenameTmp
        <3> QED  BY <1>c, <1>d, <2>2, <3>1
    <2>3. CASE patch[p].pc = "rename" /\ tmpFile # NoFile
        <3>1. patch'[p].pc = "load" /\ patch'[p].old = patch[p].old
            BY <1>4, <1>b, <2>3 DEF RenameTmp
        <3> QED  BY <1>d, <2>3, <3>1
    <2> QED  BY <1>4, <2>1, <2>2, <2>3 DEF RenameTmp
<1>5. ASSUME NEW p \in Patchers, PatchLoad(p) PROVE Ready(p)
    <2>1. /\ patch'[p].old = patch[p].old /\ cfgFile' = cfgFile
          /\ ValidateDaemon(cfgFile) => patch'[p].pc = "apply"
          /\ ~ValidateDaemon(cfgFile) => patch'[p].pc = "undo"
        BY <1>5, <1>b DEF PatchLoad
    <2> QED  BY <1>5, <1>d, <2>1 DEF PatchLoad
<1>6. ASSUME NEW p \in Patchers, PatchApply(p) PROVE Ready(p)
    <2>1. /\ patch'[p].pc \in {"idle", "apply"}
          /\ patch'[p].pc = "apply" => patch'[p].old = patch[p].old
          /\ cfgFile' = cfgFile
        BY <1>6, <1>b, <1>c DEF PatchApply
    <2> QED  BY <1>6, <1>d, <2>1 DEF PatchApply
<1>7. ASSUME NEW c \in Config, EditorSave(c)
      PROVE  BadPatchUndone' /\ \A q \in Patchers : Ready(q)
    <2>1. ValidateDaemon(c)
        BY <1>7, <1>a DEF EditorSave
    <2> QED  BY <1>7, <1>d, <2>1 DEF EditorSave, BadPatchUndone
<1>8. CASE WatchStep
    BY <1>8, <1>d DEF WatchStep, WatchFires, WatchLoad, WatchApply, BadPatchUndone
<1> QED  BY <1>1, <1>2, <1>3, <1>4, <1>5, <1>6, <1>7, <1>8, <1>e DEF CfgNext, PatchStep

\* PATCH requests that come one at a time never strand the daemon on an invalid
\* file: with none under way the file is valid unless the editor's was not
\* (handlePatchConfig puts the old text back when the reload fails).
THEOREM BadPatchIsUndone == ASSUME OnePatch PROVE CfgSpec => []BadPatchUndone
<1>1. CfgInit => UndoReady
    <2> SUFFICES ASSUME CfgInit PROVE UndoReady
        OBVIOUS
    <2>1. ValidateDaemon(cfgFile) /\ \A p \in Patchers : patch[p].pc = "idle"
        BY StartIsValid DEF CfgInit, IdlePatch
    <2> QED  BY <2>1 DEF UndoReady, BadPatchUndone
<1>2. UndoReady => BadPatchUndone
    BY DEF UndoReady, BadPatchUndone
<1> QED  BY <1>1, <1>2, CfgTypes, UndoStep, PTL DEF CfgSpec
-----------------------------------------------------------------------------
(* The disconnect evaluator *)

LEMMA MaxOfThree ==
    ASSUME NEW a \in Nat, NEW b \in Nat, NEW c \in Nat
    PROVE  Max({a, b, c}) \in Nat /\ Max({a, b, c}) >= b
<1>1. \E x \in {a, b, c} : \A y \in {a, b, c} : x >= y
    OBVIOUS
<1>2. /\ Max({a, b, c}) \in {a, b, c}
      /\ \A y \in {a, b, c} : Max({a, b, c}) >= y
    BY <1>1 DEF Max
<1> QED  BY <1>2

LEMMA AgesReach == AgeCap \in Nat /\ Slow \in Nat /\ Cooldown \in Nat /\ AgeCap >= Cooldown + Slow
    BY HeartbeatAssumption, MaxOfThree DEF AgeCap

LEMMA NotifyStep == NotifyStaysDue /\ [HeartbeatNext]_hbVars => NotifyStaysDue'
<1> SUFFICES ASSUME NotifyStaysDue, [HeartbeatNext]_hbVars PROVE NotifyStaysDue'
    OBVIOUS
<1>a. note \in Age \cup {NoTime} /\ eval \in Evaluations
    BY DEF NotifyStaysDue
<1>b. eval.now \in 0..Slow
    BY <1>a DEF Evaluations
<1>c. IdleEval \in Evaluations /\ IdleEval.pc # "notify"
    BY AgesReach DEF IdleEval, Evaluations
<1>1. CASE UNCHANGED <<note, eval>>
    BY <1>1 DEF NotifyStaysDue
<1>2. CASE note' = note /\ eval' = IdleEval
    BY <1>2, <1>a, <1>c DEF NotifyStaysDue
<1>3. CASE Tick
    <2>1. note' = Older(note)
        BY <1>3 DEF Tick
    <2>2. note' \in Age \cup {NoTime} /\ (note' # NoTime => note # NoTime)
        BY <1>a, <2>1, AgesReach DEF Older, Age, NoTime
    <2>3. CASE eval.pc = "idle"
        BY <1>3, <1>a, <2>2, <2>3 DEF Tick, NotifyStaysDue
    <2>4. CASE eval.pc # "idle"
        <3>1. eval' = [eval EXCEPT !.now = @ + 1] /\ eval.now < Slow
            BY <1>3, <2>4 DEF Tick
        <3>2. eval.now + 1 \in 0..Slow
            BY <1>b, <3>1, AgesReach
        <3>3. eval' \in Evaluations /\ eval'.pc = eval.pc /\ eval'.now = eval.now + 1
            BY <1>a, <3>1, <3>2 DEF Evaluations
        <3>4. ASSUME eval.pc = "notify", note' # NoTime
              PROVE  note' - (eval.now + 1) >= Cooldown
            <4>1. note - eval.now >= Cooldown /\ note \in Age
                BY <1>a, <2>2, <3>4 DEF NotifyStaysDue
            <4>2. CASE note = AgeCap
                BY <1>a, <2>1, <3>2, <4>2, AgesReach DEF Older
            <4>3. CASE note # AgeCap
                <5>1. note' = note + 1
                    BY <2>1, <2>2, <3>4, <4>3 DEF Older
                <5> QED  BY <1>b, <4>1, <5>1, AgesReach DEF Age
            <4> QED  BY <4>2, <4>3
        <3> QED  BY <2>2, <3>3, <3>4 DEF NotifyStaysDue
    <2> QED  BY <2>3, <2>4
<1>4. CASE EvalStart
    <2>1. eval' \in Evaluations /\ eval'.pc = "read" /\ note' = note
        BY <1>4, AgesReach DEF EvalStart, Evaluations
    <2> QED  BY <1>a, <2>1 DEF NotifyStaysDue
<1>5. CASE EvalRead
    <2>1. note' = note
        BY <1>5 DEF EvalRead
    <2>2. \A pc \in {"mark", "notify", "clear"} : [eval EXCEPT !.pc = pc] \in Evaluations
        BY <1>a DEF Evaluations
    <2>3. eval' \in Evaluations
        BY <1>5, <1>c, <2>2 DEF EvalRead
    <2>4. eval'.pc = "notify" => ~InCooldown(eval.now) /\ eval'.now = eval.now
        BY <1>5, <1>a, <1>c DEF EvalRead, Evaluations
    <2>5. note # NoTime /\ ~InCooldown(eval.now) => note - eval.now >= Cooldown
        BY <1>a, <1>b, AgesReach DEF InCooldown, Age
    <2> QED  BY <1>a, <2>1, <2>3, <2>4, <2>5 DEF NotifyStaysDue
<1>6. ASSUME NEW stored \in BOOLEAN, EvalMark(stored) PROVE NotifyStaysDue'
    <2>1. eval' = IdleEval /\ note' \in {note, eval.now}
        BY <1>6 DEF EvalMark
    <2>2. eval.now \in Age
        BY <1>b, AgesReach DEF Age
    <2> QED  BY <1>a, <1>c, <2>1, <2>2 DEF NotifyStaysDue
<1>7. CASE EvalClear \/ EvalFail \/ Restart
    BY <1>2, <1>7 DEF EvalClear, EvalFail, Restart
<1>8. CASE GiveUp \/ DaemonStop \/ DaemonStart \/ ReloadSecret
    BY <1>1, <1>8 DEF GiveUp, DaemonStop, DaemonStart, ReloadSecret
<1>9. ASSUME NEW h \in Posts, PublishMetrics(h) \/ Ingest(h) \/ IngestCancelled(h)
      PROVE  NotifyStaysDue'
    BY <1>1, <1>9 DEF PublishMetrics, Ingest, IngestCancelled, RateLimited, AcceptReport,
                      SetSeen, ClearDown, NotifyReconnected
<1>10. ASSUME NEW a \in Admins, AdminSave(a) \/ \E op \in AdminOps : AdminRead(a, op)
       PROVE  NotifyStaysDue'
    BY <1>1, <1>10 DEF AdminSave, AdminRead
<1>11. CASE UNCHANGED hbVars
    BY <1>1, <1>11 DEF hbVars
<1> QED  BY <1>3, <1>4, <1>5, <1>6, <1>7, <1>8, <1>9, <1>10, <1>11
         DEF HeartbeatNext, Evaluate

\* Two stored daemon.disconnected notifications are a cooldown apart, for any
\* limits and any number of reports, edits and restarts that clear the mark or
\* write it back between the evaluator's read and its marking update.
THEOREM NotificationsAreSpaced == HeartbeatSpec => NotificationsSpaced
<1> DEFINE Spaced == note' # Older(note) /\ note' # note /\ note # NoTime
                       => note - note' >= Cooldown
<1>1. HeartbeatInit => NotifyStaysDue
    BY AgesReach DEF HeartbeatInit, NotifyStaysDue, IdleEval, Evaluations, NoTime
<1>2. NotifyStaysDue /\ [HeartbeatNext]_hbVars => [Spaced]_hbVars
    <2> SUFFICES ASSUME NotifyStaysDue, HeartbeatNext, note' # Older(note), note' # note,
                        note # NoTime
                 PROVE  note - note' >= Cooldown
        OBVIOUS
    <2>1. PICK stored \in BOOLEAN : EvalMark(stored)
        BY DEF HeartbeatNext, Evaluate, Ingest, Tick, GiveUp, DaemonStop, DaemonStart,
               ReloadSecret, PublishMetrics, IngestCancelled, RateLimited, AcceptReport,
               SetSeen, ClearDown, NotifyReconnected, EvalStart, EvalRead, EvalClear,
               EvalFail, AdminSave, AdminRead, Restart
    <2>2. eval.pc = "notify" /\ note' = eval.now
        BY <2>1 DEF EvalMark
    <2> QED  BY <2>2 DEF NotifyStaysDue
<1> QED  BY <1>1, <1>2, NotifyStep, PTL DEF HeartbeatSpec, NotificationsSpaced

-----------------------------------------------------------------------------
(* Log capture *)

Ascending(s) == \A i, j \in 1..Len(s) : i < j => s[i] < s[j]
UpTo(s, n) == \A i \in 1..Len(s) : s[i] <= n

\* t is what is left of s when its first elements are dropped.
SuffixOf(t, s) ==
    \E k \in 0..Len(s) : Len(t) = Len(s) - k /\ \A i \in 1..Len(t) : t[i] = s[i + k]

Captured == Range(pending) \cup cloudLogs \cup dropped

FilesInOrder ==
    Ascending(file1 \o file) /\ UpTo(file1 \o file, cursor)

LogInv ==
    /\ emitted \in 0..MaxLines /\ cursor \in 0..emitted
    /\ ring \in Seq(Nat) /\ Ascending(ring) /\ UpTo(ring, cursor)
    /\ pending \in Seq(Nat) /\ Ascending(pending) /\ UpTo(pending, cursor)
    /\ file \in Seq(Nat) /\ file1 \in Seq(Nat)
    /\ restarts \in Nat
    /\ 1..cursor \subseteq Captured \cup missed
    /\ restarts = 0 => FilesInOrder

-----------------------------------------------------------------------------
(* Sequences of line numbers *)

LEMMA SuffixKeeps ==
    ASSUME NEW s \in Seq(Nat), NEW t \in Seq(Nat), SuffixOf(t, s), Ascending(s), NEW n \in Nat, UpTo(s, n)
    PROVE  Ascending(t) /\ UpTo(t, n) /\ Range(t) \subseteq Range(s)
<1>1. PICK k \in 0..Len(s) : Len(t) = Len(s) - k /\ \A i \in 1..Len(t) : t[i] = s[i + k]
    BY DEF SuffixOf
<1>2. \A i \in 1..Len(t) : i + k \in 1..Len(s) /\ t[i] = s[i + k]
    BY <1>1
<1>3. Ascending(t)
    <2> SUFFICES ASSUME NEW i \in 1..Len(t), NEW j \in 1..Len(t), i < j PROVE t[i] < t[j]
        BY DEF Ascending
    <2>1. i + k \in 1..Len(s) /\ j + k \in 1..Len(s) /\ i + k < j + k
        BY <1>2
    <2>2. s[i + k] < s[j + k]
        BY <2>1 DEF Ascending
    <2> QED  BY <2>2, <1>2
<1>4. UpTo(t, n)
    BY <1>2 DEF UpTo
<1>5. Range(t) \subseteq Range(s)
    <2>1. DOMAIN t = 1..Len(t) /\ DOMAIN s = 1..Len(s)
        BY LenProperties
    <2> SUFFICES ASSUME NEW i \in 1..Len(t) PROVE \E j \in 1..Len(s) : t[i] = s[j]
        BY <2>1 DEF Range
    <2> QED  BY <1>2
<1> QED  BY <1>3, <1>4, <1>5

LEMMA LastNSuffix ==
    ASSUME NEW s \in Seq(Nat), NEW n \in Nat
    PROVE  LastN(s, n) \in Seq(Nat) /\ SuffixOf(LastN(s, n), s)
<1>1. CASE Len(s) > n
    <2>1. LastN(s, n) = SubSeq(s, Len(s) - n + 1, Len(s))
        BY <1>1 DEF LastN
    <2>2. Len(s) - n + 1 \in 1..(Len(s) + 1) /\ Len(s) \in (Len(s) - n)..Len(s)
        BY <1>1
    <2>3. SubSeq(s, Len(s) - n + 1, Len(s)) \in Seq(Nat)
        BY <2>2
    <2>4. Len(SubSeq(s, Len(s) - n + 1, Len(s))) = n
        BY <2>2
    <2>5. \A i \in 1..n : SubSeq(s, Len(s) - n + 1, Len(s))[i] = s[i + (Len(s) - n)]
        BY <2>2
    <2>6. Len(s) - n \in 0..Len(s) /\ n = Len(s) - (Len(s) - n)
        BY <1>1
    <2> QED  BY <2>1, <2>3, <2>4, <2>5, <2>6 DEF SuffixOf
<1>2. CASE ~(Len(s) > n)
    <2>1. LastN(s, n) = s
        BY <1>2 DEF LastN
    <2>2. 0 \in 0..Len(s) /\ Len(s) = Len(s) - 0 /\ \A i \in 1..Len(s) : s[i] = s[i + 0]
        OBVIOUS
    <2>3. SuffixOf(s, s)
        BY <2>2 DEF SuffixOf
    <2> QED  BY <2>1, <2>3
<1> QED  BY <1>1, <1>2

LEMMA JoinAssociative ==
    ASSUME NEW s \in Seq(Nat), NEW t \in Seq(Nat), NEW u \in Seq(Nat)
    PROVE  (s \o t) \o u = s \o (t \o u)
OBVIOUS

\* Two ascending sequences, the second of which starts after the first ends.
LEMMA JoinKeeps ==
    ASSUME NEW s \in Seq(Nat), NEW t \in Seq(Nat), Ascending(s), Ascending(t),
           NEW n \in Nat, NEW m \in Nat, n <= m, UpTo(s, n), UpTo(t, m),
           \A i \in 1..Len(t) : n < t[i]
    PROVE  /\ s \o t \in Seq(Nat) /\ Ascending(s \o t) /\ UpTo(s \o t, m)
           /\ Range(s \o t) = Range(s) \cup Range(t)
<1>1. s \o t \in Seq(Nat) /\ Len(s \o t) = Len(s) + Len(t)
      /\ \A i \in 1..(Len(s) + Len(t)) :
            (s \o t)[i] = IF i <= Len(s) THEN s[i] ELSE t[i - Len(s)]
    OBVIOUS
<1>2. UpTo(s \o t, m)
    BY <1>1 DEF UpTo
<1>3. Ascending(s \o t)
    <2> SUFFICES ASSUME NEW i \in 1..(Len(s) + Len(t)), NEW j \in 1..(Len(s) + Len(t)), i < j
                 PROVE  (s \o t)[i] < (s \o t)[j]
        BY <1>1 DEF Ascending
    <2>1. CASE j <= Len(s)
        BY <1>1, <2>1 DEF Ascending
    <2>2. CASE i <= Len(s) /\ j > Len(s)
        <3>1. s[i] <= n /\ j - Len(s) \in 1..Len(t) /\ s[i] \in Nat /\ t[j - Len(s)] \in Nat
            BY <2>2 DEF UpTo
        <3>2. n < t[j - Len(s)]
            BY <3>1
        <3> QED  BY <1>1, <2>2, <3>1, <3>2
    <2>3. CASE i > Len(s)
        <3>1. i - Len(s) \in 1..Len(t) /\ j - Len(s) \in 1..Len(t) /\ i - Len(s) < j - Len(s)
            BY <2>3
        <3>2. t[i - Len(s)] < t[j - Len(s)]
            BY <3>1 DEF Ascending
        <3> QED  BY <1>1, <2>3, <3>2
    <2> QED  BY <2>1, <2>2, <2>3
<1>4. Range(s \o t) = Range(s) \cup Range(t)
    <2>1. ASSUME NEW x \in Range(s \o t) PROVE x \in Range(s) \cup Range(t)
        <3>1. PICK i \in 1..(Len(s) + Len(t)) : x = (s \o t)[i]
            BY <1>1 DEF Range
        <3>2. CASE i <= Len(s)
            BY <1>1, <3>1, <3>2 DEF Range
        <3>3. CASE ~(i <= Len(s))
            <4>1. i - Len(s) \in 1..Len(t) /\ x = t[i - Len(s)]
                BY <1>1, <3>1, <3>3
            <4> QED  BY <4>1 DEF Range
        <3> QED  BY <3>2, <3>3
    <2>2. ASSUME NEW x \in Range(s) PROVE x \in Range(s \o t)
        <3>1. PICK i \in 1..Len(s) : x = s[i]
            BY DEF Range
        <3>2. i \in DOMAIN (s \o t) /\ x = (s \o t)[i]
            BY <1>1, <3>1
        <3> QED  BY <3>2 DEF Range
    <2>3. ASSUME NEW x \in Range(t) PROVE x \in Range(s \o t)
        <3>0. DOMAIN t = 1..Len(t)
            BY LenProperties
        <3>1. PICK i \in 1..Len(t) : x = t[i]
            BY <2>3, <3>0 DEF Range
        <3>2. i + Len(s) \in DOMAIN (s \o t) /\ x = (s \o t)[i + Len(s)]
            BY <1>1, <3>1
        <3> QED  BY <3>2 DEF Range
    <2> QED  BY <2>1, <2>2, <2>3
<1> QED  BY <1>1, <1>2, <1>3, <1>4

\* A run of consecutive line numbers.
Consecutive(s, a, b) ==
    /\ s \in Seq(Nat) /\ Len(s) = b - a + 1
    /\ \A i \in 1..(b - a + 1) : s[i] = a + i - 1

LEMMA FromConsecutive ==
    ASSUME NEW a \in Nat, NEW b \in Nat, a <= b + 1 PROVE Consecutive(From(a, b), a, b)
<1>1. b - a + 1 \in Nat /\ \A i \in 1..(b - a + 1) : a + i - 1 \in Nat
    OBVIOUS
<1> QED  BY <1>1 DEF From, Consecutive

LEMMA ConsecutiveProps ==
    ASSUME NEW a \in Nat, NEW b \in Nat, a <= b + 1, NEW s, Consecutive(s, a, b)
    PROVE  /\ s \in Seq(Nat) /\ Ascending(s) /\ UpTo(s, b)
           /\ \A i \in 1..Len(s) : a <= s[i]
           /\ Range(s) = a..b
<1>1. s \in Seq(Nat) /\ Len(s) = b - a + 1 /\ \A i \in 1..(b - a + 1) : s[i] = a + i - 1
    BY DEF Consecutive
<1>2. \A x \in a..b : x - a + 1 \in DOMAIN s /\ s[x - a + 1] = x
    BY <1>1
<1>3. Ascending(s) /\ UpTo(s, b) /\ \A i \in 1..Len(s) : a <= s[i]
    BY <1>1 DEF Ascending, UpTo
<1>4. Range(s) \subseteq a..b
    BY <1>1 DEF Range
<1>5. a..b \subseteq Range(s)
    BY <1>2 DEF Range
<1> QED  BY <1>1, <1>3, <1>4, <1>5

\* What is left of a run without its first k elements.
LEMMA DropConsecutive ==
    ASSUME NEW a \in Nat, NEW b \in Nat, a <= b + 1, NEW s, Consecutive(s, a, b),
           NEW k \in 0..(b - a + 1)
    PROVE  Consecutive(SubSeq(s, k + 1, Len(s)), a + k, b)
<1>1. s \in Seq(Nat) /\ Len(s) = b - a + 1 /\ \A i \in 1..(b - a + 1) : s[i] = a + i - 1
    BY DEF Consecutive
<1> DEFINE t == SubSeq(s, k + 1, Len(s))
<1>2. t \in Seq(Nat) /\ Len(t) = Len(s) - k /\ \A i \in 1..(Len(s) - k) : t[i] = s[k + i]
    BY <1>1
<1> HIDE DEF t
<1>3. \A i \in 1..(b - (a + k) + 1) : t[i] = a + k + i - 1
    BY <1>1, <1>2
<1>4. Len(t) = b - (a + k) + 1
    BY <1>1, <1>2
<1>5. Consecutive(t, a + k, b)
    BY <1>2, <1>3, <1>4 DEF Consecutive
<1> QED  BY <1>5 DEF t

LEMMA LeastNumber ==
    ASSUME NEW S \in SUBSET Nat, S # {}
    PROVE  \E m \in S : \A k \in S : m <= k
<1>1. PICK m \in S : \A k \in S : ~(<<k, m>> \in OpToRel(<, Nat))
    BY WFMin, NatLessThanWellFounded
<1>2. \A k \in S : ~(k < m)
    BY <1>1 DEF OpToRel
<1> QED  BY <1>2

\* What a tail prints: the lines from its first one to some last one. With a
\* cursor the first has the timestamp of the line at the cursor.
LEMMA TailPrints ==
    ASSUME emitted \in 1..MaxLines, cursor \in 0..emitted
    PROVE  /\ TailFirst \in 1..emitted
           /\ cursor > 0 => TailFirst <= cursor
           /\ \E e \in TailFirst..emitted : Consecutive(TailOutput, TailFirst, e)
<1>1. /\ FirstTail \in Nat \ {0} /\ TailLimit \in Nat \ {0} /\ MaxLines \in Nat
      /\ Stamp \in [0..MaxLines -> Nat]
    BY LogAssumption
<1>2. TailFirst \in 1..emitted /\ (cursor > 0 => TailFirst <= cursor)
    <2>1. CASE cursor = 0
        BY <1>1, <2>1 DEF TailFirst
    <2>2. CASE cursor > 0
        <3> DEFINE S == {l \in 1..emitted : Stamp[l] = Stamp[cursor]}
        <3>1. S \in SUBSET Nat /\ cursor \in S
            BY <1>1, <2>2
        <3>2. PICK m \in S : \A k \in S : m <= k
            BY <3>1, LeastNumber
        <3>3. TailFirst = Min(S)
            BY <2>2 DEF TailFirst
        <3> HIDE DEF S
        <3>4. TailFirst \in S /\ \A k \in S : TailFirst <= k
            BY <3>2, <3>3 DEF Min
        <3> QED  BY <3>1, <3>4 DEF S
    <2> QED  BY <2>1, <2>2
<1>3. PICK e \in TailFirst..emitted : TailOutput = From(TailFirst, e)
    <2>1. CASE TailFits
        BY <1>2, <2>1 DEF TailOutput
    <2>2. CASE ~TailFits
        <3>1. TailFirst + TailLimit - 1 \in TailFirst..emitted
            BY <1>1, <1>2, <2>2 DEF TailFits
        <3> QED  BY <2>2, <3>1 DEF TailOutput
    <2> QED  BY <2>1, <2>2
<1> QED  BY <1>2, <1>3, FromConsecutive

\* What acceptTail leaves of it: the lines after the cursor, but for the ones
\* the tail passes over.
LEMMA NewLines ==
    ASSUME emitted \in 1..MaxLines, cursor \in 0..emitted
    PROVE  \E e \in 1..emitted : \E a \in 1..(e + 1) :
              /\ Consecutive(AcceptTail(TailOutput), a, e)
              /\ \A l \in a..e : cursor < l
              /\ (cursor + 1)..(a - 1) \subseteq PassedOver
<1>1. /\ MaxLines \in Nat /\ Stamp \in [0..MaxLines -> Nat] /\ Stamp[0] < Stamp[1]
      /\ \A k, l \in 0..MaxLines : k <= l => Stamp[k] <= Stamp[l]
    BY LogAssumption
<1> DEFINE t == TailOutput
           f == TailFirst
<1>2. f \in 1..emitted /\ (cursor > 0 => f <= cursor)
    BY TailPrints
<1>3. PICK e \in f..emitted : Consecutive(t, f, e)
    BY TailPrints
<1> HIDE DEF t, f
<1>4. /\ t \in Seq(Nat) /\ Len(t) = e - f + 1 /\ DOMAIN t = 1..(e - f + 1)
      /\ (\A i \in 1..(e - f + 1) : t[i] = f + i - 1) /\ Range(t) = f..e
    BY <1>2, <1>3, ConsecutiveProps DEF Consecutive
<1> DEFINE New(l) == Stamp[l] > Stamp[cursor]
           N == {n \in 0..(e - f + 1) : n = e - f + 1 \/ New(f + n)}
           Old == {i \in DOMAIN t : Stamp[t[i]] <= Stamp[cursor]}
<1>5. PICK k \in N : \A n \in N : k <= n
    <2>1. N \in SUBSET Nat /\ e - f + 1 \in N
        BY <1>2
    <2> HIDE DEF N
    <2> QED  BY <2>1, LeastNumber
<1>6. k \in 0..(e - f + 1)
    BY <1>5
<1>7. \A l \in f..(f + k - 1) : Stamp[l] <= Stamp[cursor]
    <2> SUFFICES ASSUME NEW l \in f..(f + k - 1), Stamp[l] > Stamp[cursor] PROVE FALSE
        BY <1>1, <1>2, <1>6
    <2>1. l - f \in N /\ l - f < k
        BY <1>2, <1>6
    <2> QED  BY <1>5, <1>6, <2>1
<1>8. \A l \in (f + k)..e : Stamp[l] > Stamp[cursor]
    <2> SUFFICES ASSUME NEW l \in (f + k)..e PROVE Stamp[l] > Stamp[cursor]
        OBVIOUS
    <2>1. New(f + k) /\ f + k \in 0..MaxLines /\ l \in 0..MaxLines
        BY <1>1, <1>2, <1>5
    <2>2. /\ Stamp[f + k] <= Stamp[l] /\ Stamp[f + k] \in Nat /\ Stamp[l] \in Nat
          /\ cursor \in 0..MaxLines /\ Stamp[cursor] \in Nat
        BY <1>1, <2>1
    <2>3. Stamp[f + k] > Stamp[cursor]
        BY <2>1
    <2> HIDE DEF New
    <2> QED  BY <2>2, <2>3
<1> HIDE DEF N, New
<1>9. Old = 1..k
    <2>1. ASSUME NEW i \in 1..(e - f + 1) PROVE i \in Old <=> i <= k
        <3>0. t[i] = f + i - 1 /\ t[i] \in f..e /\ t[i] \in 0..MaxLines /\ cursor \in 0..MaxLines
            BY <1>1, <1>2, <1>4, <2>1
        <3>1. /\ t[i] = f + i - 1 /\ t[i] \in f..e
              /\ Stamp[t[i]] \in Nat /\ Stamp[cursor] \in Nat
            BY <1>1, <3>0
        <3>2. CASE i <= k
            <4>1. t[i] \in f..(f + k - 1)
                BY <1>2, <1>6, <3>1, <3>2
            <4> QED  BY <1>4, <1>7, <3>2, <4>1
        <3>3. CASE ~(i <= k)
            <4>1. t[i] \in (f + k)..e
                BY <1>2, <1>6, <3>1, <3>3
            <4>2. Stamp[t[i]] > Stamp[cursor]
                BY <1>8, <4>1
            <4> QED  BY <3>1, <3>3, <4>2
        <3> QED  BY <3>2, <3>3
    <2> QED  BY <1>4, <1>6, <2>1
<1>10. Max({0} \cup Old) = k
    <2> DEFINE M == {0} \cup Old
    <2>1. k \in M /\ \A x \in M : x \in Int /\ k >= x
        BY <1>2, <1>6, <1>9
    <2> HIDE DEF M
    <2>2. Max(M) = k
        BY <2>1 DEF Max
    <2> QED  BY <2>2 DEF M
<1>11. AcceptTail(t) = SubSeq(t, k + 1, Len(t))
    BY <1>10, Zenon DEF AcceptTail
<1>12. Consecutive(AcceptTail(t), f + k, e)
    BY <1>2, <1>3, <1>6, <1>11, DropConsecutive
<1> HIDE DEF Old
<1>13. \A l \in (f + k)..e : cursor < l
    <2> SUFFICES ASSUME NEW l \in (f + k)..e, l <= cursor PROVE FALSE
        BY <1>2
    <2>1. l \in 0..MaxLines /\ cursor \in 0..MaxLines
        BY <1>1, <1>2, <1>6
    <2>2. Stamp[l] <= Stamp[cursor] /\ Stamp[l] \in Nat /\ Stamp[cursor] \in Nat
        BY <1>1, <2>1
    <2> QED  BY <1>8, <2>2
<1>14. (cursor + 1)..(f + k - 1) \subseteq PassedOver
    <2> SUFFICES ASSUME NEW l \in (cursor + 1)..(f + k - 1) PROVE l \in PassedOver
        OBVIOUS
    <2>0. l \in 1..e /\ l \in 0..MaxLines /\ cursor \in 0..MaxLines
        BY <1>1, <1>2, <1>6
    <2>1. CASE cursor = 0
        <3>1. Stamp[1] <= Stamp[l] /\ Stamp[l] \in Nat /\ Stamp[1] \in Nat /\ Stamp[0] \in Nat
            BY <1>1, <2>0
        <3>2. ~(l \in f..(f + k - 1))
            BY <1>1, <1>7, <2>1, <3>1
        <3>3. l \in 1..(f - 1)
            BY <1>2, <1>6, <2>0, <3>2
        <3> QED  BY <2>1, <3>3 DEF PassedOver, f
    <2>2. CASE cursor > 0
        <3>1. l \in f..(f + k - 1) /\ l > cursor
            BY <1>2, <1>6, <2>0, <2>2
        <3>2. Stamp[l] <= Stamp[cursor]
            BY <1>7, <3>1
        <3>3. Stamp[cursor] <= Stamp[l] /\ Stamp[l] \in Nat /\ Stamp[cursor] \in Nat
            BY <1>1, <2>0, <3>1
        <3>4. Stamp[l] = Stamp[cursor] /\ l \in Range(t)
            BY <1>2, <1>4, <1>6, <2>0, <3>1, <3>2, <3>3
        <3> QED  BY <2>0, <2>2, <3>1, <3>4 DEF PassedOver, t
    <2> QED  BY <2>1, <2>2
<1>15. e \in 1..emitted /\ f + k \in 1..(e + 1)
    BY <1>2, <1>6
<1>16. PICK a \in 1..(e + 1) : a = f + k
    BY <1>15
<1>17. Consecutive(AcceptTail(TailOutput), a, e) /\ \A l \in a..e : cursor < l
    BY <1>12, <1>13, <1>16, Zenon DEF t
<1>18. (cursor + 1)..(a - 1) \subseteq PassedOver
    <2>1. a - 1 = f + k - 1
        BY <1>2, <1>6, <1>16
    <2> QED  BY <1>14, <2>1
<1> QED  BY <1>15, <1>17, <1>18

-----------------------------------------------------------------------------
LEMMA LogInvInit == LogInit => LogInv
<1> SUFFICES ASSUME LogInit PROVE LogInv
    OBVIOUS
<1>1. <<>> \in Seq(Nat) /\ Len(<<>>) = 0 /\ <<>> \o <<>> = <<>> /\ Range(<<>>) = {}
    BY DEF Range
<1> QED  BY <1>1, LogAssumption DEF LogInit, LogInv, FilesInOrder, Captured, Ascending, UpTo

\* Emptying or not, an upload only moves lines from the buffer to the cloud.
LEMMA FlushKeepsLogInv ==
    ASSUME LogInv, pending' \in Seq(Nat), SuffixOf(pending', pending), Captured' = Captured,
           UNCHANGED <<emitted, ring, cursor, file, file1, missed, restarts>>
    PROVE  LogInv'
<1>1. Ascending(pending') /\ UpTo(pending', cursor)
    BY SuffixKeeps DEF LogInv
<1>2. FilesInOrder => FilesInOrder'
    BY DEF FilesInOrder
<1> QED  BY <1>1, <1>2 DEF LogInv

\* The buffer is the batch and what follows it.
LEMMA BatchAndRest ==
    ASSUME LogInv
    PROVE  /\ Range(Batch) \subseteq Range(pending)
           /\ LET rest == SubSeq(pending, Len(Batch) + 1, Len(pending))
              IN  /\ rest \in Seq(Nat) /\ SuffixOf(rest, pending)
                  /\ Range(pending) = Range(Batch) \cup Range(rest)
<1> DEFINE n == IF Len(pending) < BatchLines THEN Len(pending) ELSE BatchLines
           rest == SubSeq(pending, n + 1, Len(pending))
<1>1. pending \in Seq(Nat) /\ BatchLines \in Nat
    BY LogAssumption DEF LogInv
<1>2. n \in 0..Len(pending)
    BY <1>1
<1>3. Batch = SubSeq(pending, 1, n)
    BY DEF Batch
<1> HIDE DEF n
<1>4. Batch \in Seq(Nat) /\ Len(Batch) = n /\ \A i \in 1..n : Batch[i] = pending[i]
    BY <1>1, <1>2, <1>3
<1>5. rest \in Seq(Nat) /\ Len(rest) = Len(pending) - n
      /\ \A i \in 1..Len(rest) : rest[i] = pending[i + n]
    BY <1>1, <1>2
<1> HIDE DEF rest
<1>0. /\ DOMAIN rest = 1..Len(rest) /\ DOMAIN pending = 1..Len(pending)
      /\ Len(pending) \in Nat /\ Len(rest) \in Nat
    BY <1>1, <1>5, LenProperties
<1>6. SuffixOf(rest, pending)
    BY <1>2, <1>5 DEF SuffixOf
<1>7. Range(Batch) \subseteq Range(pending) /\ Range(rest) \subseteq Range(pending)
    <2>1. \A i \in DOMAIN Batch : i \in DOMAIN pending /\ Batch[i] = pending[i]
        BY <1>1, <1>2, <1>4
    <2>2. \A i \in DOMAIN rest : i + n \in DOMAIN pending /\ rest[i] = pending[i + n]
        BY <1>2, <1>5, <1>0
    <2> QED  BY <2>1, <2>2 DEF Range
<1>8. ASSUME NEW i \in DOMAIN pending PROVE pending[i] \in Range(Batch) \cup Range(rest)
    <2>1. CASE i <= n
        <3>1. i \in DOMAIN Batch /\ pending[i] = Batch[i]
            BY <1>1, <1>4, <2>1
        <3> QED  BY <3>1 DEF Range
    <2>2. CASE ~(i <= n)
        <3>1. i - n \in DOMAIN rest /\ pending[i] = rest[i - n]
            <4>1. i - n \in 1..Len(rest) /\ (i - n) + n = i
                BY <1>0, <1>2, <1>5, <2>2
            <4> QED  BY <1>0, <1>5, <4>1
        <3> QED  BY <3>1 DEF Range
    <2> QED  BY <2>1, <2>2
<1>9. Range(pending) = Range(Batch) \cup Range(rest)
    BY <1>7, <1>8 DEF Range
<1> QED  BY <1>4, <1>5, <1>6, <1>7, <1>9 DEF rest

\* A tick that brought lines.
LEMMA CollectKeepsLogInv ==
    ASSUME LogInv, emitted > 0,
           NEW lines, lines = AcceptTail(TailOutput), lines # <<>>, AppendLog(lines),
           pending' = AddPending(lines),
           dropped' = dropped \cup (Range(pending \o lines) \ Range(pending')),
           missed' = missed \cup PassedOver,
           UNCHANGED <<emitted, cloudLogs, restarts>>
    PROVE  LogInv'
<1>0. /\ emitted \in 1..MaxLines /\ cursor \in 0..emitted /\ emitted \in Nat
      /\ ring \in Seq(Nat) /\ pending \in Seq(Nat) /\ file \in Seq(Nat) /\ file1 \in Seq(Nat)
      /\ Ascending(ring) /\ UpTo(ring, cursor) /\ Ascending(pending) /\ UpTo(pending, cursor)
      /\ RingLines \in Nat /\ PendingLines \in Nat
    BY LogAssumption DEF LogInv
<1>a. PICK e \in 1..emitted : \E a \in 1..(e + 1) :
         /\ Consecutive(lines, a, e)
         /\ \A l \in a..e : cursor < l
         /\ (cursor + 1)..(a - 1) \subseteq PassedOver
    BY <1>0, NewLines
<1>1. PICK a \in 1..(e + 1) :
         /\ Consecutive(lines, a, e)
         /\ \A l \in a..e : cursor < l
         /\ (cursor + 1)..(a - 1) \subseteq PassedOver
    BY <1>a
<1>2. /\ lines \in Seq(Nat) /\ Ascending(lines) /\ UpTo(lines, e)
      /\ Range(lines) = a..e
      /\ \A i \in 1..Len(lines) : a <= lines[i]
    BY <1>0, <1>1, ConsecutiveProps
<1>3. \A i \in 1..Len(lines) : cursor < lines[i]
    <2>1. \A i \in 1..Len(lines) : lines[i] \in a..e
        BY <1>2 DEF UpTo
    <2> QED  BY <1>1, <2>1
<1>4. a <= e /\ cursor < e /\ cursor <= e /\ cursor \in Nat /\ e \in Nat
    <2>1. Len(lines) > 0 /\ Len(lines) = e - a + 1
        BY <1>1, <1>2 DEF Consecutive
    <2>2. a <= e /\ e \in a..e
        BY <1>0, <2>1
    <2>3. cursor < e
        BY <1>1, <2>2
    <2> QED  BY <1>0, <2>2, <2>3
<1>5. cursor' = e
    <2>1. cursor' = Max({cursor} \cup (a..e))
        BY <1>2 DEF AppendLog
    <2>2. e \in {cursor} \cup (a..e) /\ \A x \in {cursor} \cup (a..e) : x \in Int /\ e >= x
        BY <1>0, <1>4
    <2> QED  BY <2>1, <2>2 DEF Max
<1>6. /\ pending \o lines \in Seq(Nat) /\ Ascending(pending \o lines) /\ UpTo(pending \o lines, e)
      /\ Range(pending \o lines) = Range(pending) \cup Range(lines)
    BY <1>0, <1>2, <1>3, <1>4, JoinKeeps
<1>7. /\ pending' \in Seq(Nat) /\ Ascending(pending') /\ UpTo(pending', e)
      /\ Range(pending') \subseteq Range(pending \o lines)
    BY <1>0, <1>4, <1>6, LastNSuffix, SuffixKeeps DEF AddPending
<1>8. ring' \in Seq(Nat) /\ Ascending(ring') /\ UpTo(ring', e)
    <2>1. ring \o lines \in Seq(Nat) /\ Ascending(ring \o lines) /\ UpTo(ring \o lines, e)
        BY <1>0, <1>2, <1>3, <1>4, JoinKeeps
    <2>2. ring' = LastN(ring \o lines, RingLines)
        BY DEF AppendLog
    <2> QED  BY <1>0, <1>4, <2>1, <2>2, LastNSuffix, SuffixKeeps
<1>9. file' \in Seq(Nat) /\ file1' \in Seq(Nat)
    <2>1. file \o lines \in Seq(Nat)
        BY <1>0, <1>2
    <2> QED  BY <1>0, <1>2, <2>1 DEF AppendLog
<1>10. ASSUME restarts = 0 PROVE FilesInOrder'
    <2> DEFINE all == file1 \o file
    <2>1. all \in Seq(Nat) /\ Ascending(all) /\ UpTo(all, cursor)
        BY <1>0, <1>10 DEF LogInv, FilesInOrder
    <2>2. all \o lines \in Seq(Nat) /\ Ascending(all \o lines) /\ UpTo(all \o lines, e)
        BY <1>0, <1>2, <1>3, <1>4, <2>1, JoinKeeps
    <2>3. CASE Len(file) >= FileLines
        <3>1. file' = lines /\ file1' = file
            BY <2>3 DEF AppendLog
        <3>2. Ascending(file) /\ UpTo(file, cursor)
            <4>1. SuffixOf(file, all)
                <5>1. Len(file1) \in 0..Len(all) /\ Len(file) = Len(all) - Len(file1)
                      /\ \A i \in 1..Len(file) : file[i] = all[i + Len(file1)]
                    BY <1>0
                <5> QED  BY <5>1 DEF SuffixOf
            <4> QED  BY <1>0, <1>4, <2>1, <4>1, SuffixKeeps
        <3>3. Ascending(file \o lines) /\ UpTo(file \o lines, e)
            BY <1>0, <1>2, <1>3, <1>4, <3>2, JoinKeeps
        <3> QED  BY <1>5, <3>1, <3>3 DEF FilesInOrder
    <2>4. CASE ~(Len(file) >= FileLines)
        <3>1. file' = file \o lines /\ file1' = file1
            BY <2>4 DEF AppendLog
        <3>2. all \o lines = file1 \o (file \o lines)
            BY <1>0, <1>2, JoinAssociative
        <3> QED  BY <1>5, <2>2, <3>1, <3>2 DEF FilesInOrder
    <2> QED  BY <2>3, <2>4
<1>11. 1..e \subseteq Captured' \cup missed'
    <2>1. Captured' = Captured \cup (a..e)
        BY <1>2, <1>6, <1>7 DEF Captured
    <2>2. 1..cursor \subseteq Captured \cup missed
        BY DEF LogInv
    <2>3. 1..e \subseteq (1..cursor) \cup ((cursor + 1)..(a - 1)) \cup (a..e)
        BY <1>0, <1>1
    <2> QED  BY <1>1, <2>1, <2>2, <2>3
<1>12. e \in 0..emitted
    BY <1>1
<1> QED  BY <1>0, <1>5, <1>7, <1>8, <1>9, <1>10, <1>11, <1>12 DEF LogInv

LEMMA LogInvStep == LogInv /\ [LogNext]_logVars => LogInv'
<1> SUFFICES ASSUME LogInv, [LogNext]_logVars PROVE LogInv'
    OBVIOUS
<1>1. CASE Emit
    <2>1. emitted' \in 0..MaxLines /\ cursor \in 0..emitted'
        BY <1>1, LogAssumption DEF Emit, LogInv
    <2>2. UNCHANGED <<ring, cursor, file, file1, pending, cloudLogs, dropped, missed, restarts>>
        BY <1>1 DEF Emit, captureVars
    <2> QED  BY <2>1, <2>2 DEF LogInv, FilesInOrder, Captured
<1>2. CASE FlushNothing \/ ContainerStop \/ ContainerStart
    BY <1>2 DEF FlushNothing, ContainerStop, ContainerStart, captureVars, containerVars, LogInv, FilesInOrder, Captured
<1>3. CASE UNCHANGED logVars
    BY <1>3 DEF logVars, captureVars, containerVars, LogInv, FilesInOrder, Captured
<1>4. CASE FlushOK
    <2> DEFINE rest == SubSeq(pending, Len(Batch) + 1, Len(pending))
    <2>1. pending' = rest /\ cloudLogs' = cloudLogs \cup Range(Batch) /\ dropped' = dropped
        BY <1>4 DEF FlushOK
    <2>2. rest \in Seq(Nat) /\ SuffixOf(rest, pending) /\ Range(pending) = Range(Batch) \cup Range(rest)
        BY BatchAndRest
    <2> HIDE DEF rest
    <2>3. Captured' = Captured
        BY <2>1, <2>2 DEF Captured
    <2> QED  BY <1>4, <2>1, <2>2, <2>3, FlushKeepsLogInv DEF FlushOK, captureVars, containerVars
<1>5. ASSUME NEW stored \in BOOLEAN, FlushFails(stored) PROVE LogInv'
    <2>1. pending' = pending /\ dropped' = dropped
          /\ (cloudLogs' = cloudLogs \/ cloudLogs' = cloudLogs \cup Range(Batch))
        BY <1>5 DEF FlushFails
    <2>2. Captured' = Captured
        BY <2>1, BatchAndRest DEF Captured
    <2>3. 0 \in 0..Len(pending) /\ Len(pending) = Len(pending) - 0
          /\ (\A i \in 1..Len(pending) : pending[i] = pending[i + 0]) /\ pending \in Seq(Nat)
        BY DEF LogInv
    <2>4. SuffixOf(pending, pending)
        BY <2>3 DEF SuffixOf
    <2> QED  BY <1>5, <2>1, <2>2, <2>3, <2>4, FlushKeepsLogInv DEF FlushFails, captureVars, containerVars
<1>6. CASE LogRestart
    <2>1. <<>> \in Seq(Nat) /\ Len(<<>>) = 0
        OBVIOUS
    <2>2. restarts \in Nat /\ restarts' = restarts + 1
        BY <1>6 DEF LogRestart, LogInv
    <2>3. restarts' \in Nat /\ restarts' # 0
        BY <2>2
    <2> QED  BY <1>6, <2>1, <2>3 DEF LogRestart, containerVars, LogInv, Ascending, UpTo
<1>7. ASSUME NEW d \in BOOLEAN, NEW s \in BOOLEAN, NEW x \in BOOLEAN, CollectLogs(d, s, x)
      PROVE  LogInv'
    <2> DEFINE lines == AcceptTail(TailOutput)
               ok == up /\ (d \/ s) /\ TailWritten(x)
    <2>1. CASE ok /\ lines # <<>>
        <3>1. /\ AppendLog(lines) /\ pending' = AddPending(lines)
              /\ dropped' = dropped \cup (Range(pending \o lines) \ Range(pending'))
              /\ missed' = missed \cup PassedOver
              /\ UNCHANGED <<emitted, cloudLogs, restarts>> /\ emitted > 0
            BY <1>7, <2>1 DEF CollectLogs, containerVars
        <3> HIDE DEF lines
        <3> QED  BY <2>1, <3>1, CollectKeepsLogInv DEF lines
    <2>2. CASE ~(ok /\ lines # <<>>)
        <3>1. /\ UNCHANGED <<ring, cursor, file, file1, pending, dropped, emitted, cloudLogs, restarts>>
              /\ missed \subseteq missed'
            BY <1>7, <2>2 DEF CollectLogs, containerVars, captureVars
        <3> QED  BY <3>1 DEF LogInv, FilesInOrder, Captured
    <2> QED  BY <2>1, <2>2
<1> QED  BY <1>1, <1>2, <1>3, <1>4, <1>5, <1>6, <1>7 DEF LogNext

LEMMA LogInvCaptured == LogInv => CapturedOnce
<1> SUFFICES ASSUME LogInv PROVE CapturedOnce
    OBVIOUS
<1>1. ASSUME NEW s \in Seq(Nat), Ascending(s) PROVE \A i \in 1..(Len(s) - 1) : s[i] < s[i+1]
    BY <1>1 DEF Ascending
<1>2. file1 \o file \in Seq(Nat)
    BY DEF LogInv
<1> QED  BY <1>1, <1>2 DEF CapturedOnce, LogInv, FilesInOrder, Captured

\* Whatever the tails fail at or cut, the uploads lose, the timestamps repeat and
\* the limits are, the ring and the file hold each line once and in order, and no
\* line before the cursor is forgotten: it was uploaded, waits for upload, or is
\* one that the buffer let go or a tail passed over (LogsCollector,
\* logUploadBuffer, acceptTail).
THEOREM LinesCapturedOnce == LogSpec => []CapturedOnce
BY LogInvInit, LogInvStep, LogInvCaptured, PTL DEF LogSpec
=============================================================================

----------------------------- MODULE ConfigLoad -----------------------------
(***************************************************************************)
(* How a configuration is put together and judged (config/config.go): the  *)
(* entries of the main file, the fragment files of four directories merged *)
(* over them, and ValidateDaemon on the result. MaidKit moves entries out  *)
(* of the main file one by one, the operator edits it, the host changes    *)
(* underneath, and a reload or a restart may read all this at any moment.  *)
(*                                                                         *)
(* An entry is its identity and whether its own fields pass (sound); the   *)
(* other tables of the file are a record of switches, each with the fields *)
(* that only have to be well formed folded into one flag. The defaults     *)
(* that Load and ValidateDaemon fill in are left out.                      *)
(***************************************************************************)
EXTENDS Integers, FiniteSets

CONSTANTS
    Entries,      \* [kind, name, target, sound]: what the files may hold;
                  \* only an alarm has a target
    FirstFiles,   \* the main files a behaviour may start with: sets of entries
    Tables,       \* the other tables of the main file: a set of Settings
    MaxEdits      \* bound: edits of the operator and changes of the host

FragmentKinds == {"actions", "alarms", "jobs", "logAlerts"}
Kinds == FragmentKinds \cup {"webhooks"}

\* A root in the older form, a bare path, is an unprivileged root.
FilesRoots == {"none", "bare", "plain", "privileged"}

Settings ==
    [formed   : BOOLEAN,                \* identity, listen, secrets, intervals and limits
     cloud    : BOOLEAN,                \* cloudUrl and cloudSecret are set
     terminal : SUBSET {"enabled", "relay", "shells"},
     files    : [enabled : BOOLEAN, roots : FilesRoots],
     scan     : BOOLEAN,                \* compose.scanRoots is not empty
     priv     : SUBSET {"systemd", "packages", "firewall"}]

ASSUME ConfigLoadAssumption ==
    /\ MaxEdits \in Nat
    /\ \A e \in Entries : e.kind \in Kinds /\ (e.kind # "alarms" => e.target = "")
    /\ FirstFiles \subseteq SUBSET Entries
    /\ Tables \subseteq Settings

VARIABLES
    main,         \* the entries of the main file
    settings,     \* its other tables
    frags,        \* the fragment files: [entry, whole], named by kind and name
    environment,  \* what loading and validating look up on the host
    wanted,       \* the entries the operator has asked for, ghost
    table,        \* what the daemon runs: <<entries, settings>>, or Down
    edits

loadVars == <<main, settings, frags, environment, wanted, table, edits>>

Down == <<>>
AllUsable == [readable |-> TRUE, roots |-> TRUE, helper |-> TRUE]

\* A fragment file is named after its entry; an alarm's after its kind.
FileOf(e) == <<e.kind, e.name>>

-----------------------------------------------------------------------------
(* Load                                                                    *)

\* (Mutant: a fragment is added to what the main file says.)
CoveredByFragment_Never(e) == FALSE

\* A fragment wins over the inline entry of the same name; over every inline
\* alarm of the same kind, whatever its target.
CoveredByFragment(e) == \E f \in frags : FileOf(f.entry) = FileOf(e)

\* loadActionFragment and its siblings: the file must parse and have a name.
FragmentsParse(kind) == \A f \in frags : f.entry.kind = kind => f.whole

\* A directory that does not exist has no fragments; one that cannot be read
\* fails the load.
FragmentsOf(kind) ==
    [ok   |-> environment.readable /\ FragmentsParse(kind),
     list |-> {[from |-> "file", entry |-> f.entry] :
                   f \in {g \in frags : g.entry.kind = kind}}]

InlineOf(kind) ==
    {[from |-> "main", entry |-> e] :
         e \in {i \in main : i.kind = kind /\ (kind \in FragmentKinds => ~CoveredByFragment(i))}}

loadActionFragments == FragmentsOf("actions")
loadAlarmFragments == FragmentsOf("alarms")
loadJobFragments == FragmentsOf("jobs")
loadLogAlertFragments == FragmentsOf("logAlerts")

Load ==
    LET loads == {loadLogAlertFragments, loadActionFragments,
                  loadAlarmFragments, loadJobFragments}
    IN  [ok   |-> \A l \in loads : l.ok,
         list |-> (UNION {l.list : l \in loads}) \cup UNION {InlineOf(k) : k \in Kinds}]

-----------------------------------------------------------------------------
(* ValidateDaemon                                                          *)

IsNativeOpName(name) == name = "native"      \* stands for NativeOpNames

\* Names are unique within a list; webhooks and actions, which the executor
\* keeps in one table, are one list; an alarm's target is part of its name.
ListOf(kind) == IF kind \in {"webhooks", "actions"} THEN "hooks" ELSE kind
Clash(a, b) == /\ ListOf(a.kind) = ListOf(b.kind)
               /\ a.name = b.name /\ a.target = b.target
Unique(list, kinds) ==
    \A i, j \in {l \in list : ListOf(l.entry.kind) \in kinds} : i # j => ~Clash(i.entry, j.entry)

Sound(list, kinds) == \A i \in list : ListOf(i.entry.kind) \in kinds => i.entry.sound

ValidateHooks(list) ==
    /\ \A i \in list : ListOf(i.entry.kind) = "hooks" => ~IsNativeOpName(i.entry.name)
    /\ Sound(list, {"hooks"}) /\ Unique(list, {"hooks"})

ValidateLogAlerts(list) == Sound(list, {"logAlerts"}) /\ Unique(list, {"logAlerts"})
ValidateJobs(list) == Sound(list, {"jobs"}) /\ Unique(list, {"jobs"})

\* Only a container_down alarm has a target.
ValidateAlarms(list) ==
    /\ Sound(list, {"alarms"}) /\ Unique(list, {"alarms"})
    /\ \A i \in list : i.entry.target # "" => i.entry.name = "container_down"

ValidateRelay(s) == "relay" \in s.terminal => s.cloud
validateTerminal(s) == {"enabled", "relay"} \cap s.terminal # {} => "shells" \in s.terminal
validateFiles(s) == s.files.enabled => s.files.roots # "none" /\ environment.roots
validateCompose(s) == s.scan => environment.roots

\* A privileged root counts although the file API is off.
validatePriv(s) == s.priv # {} \/ s.files.roots = "privileged" => environment.helper

ValidateSettings(s) ==
    /\ s.formed
    /\ ValidateRelay(s) /\ validateTerminal(s)
    /\ validateFiles(s) /\ validateCompose(s) /\ validatePriv(s)

ValidateDaemon(list) ==
    /\ ValidateHooks(list) /\ ValidateLogAlerts(list)
    /\ ValidateJobs(list) /\ ValidateAlarms(list)
    /\ ValidateSettings(settings)

Accepted == Load.ok /\ ValidateDaemon(Load.list)
Loaded == {i.entry : i \in Load.list}

-----------------------------------------------------------------------------
LoadIdle ==
    /\ main = {} /\ wanted = {} /\ frags = {} /\ table = Down /\ edits = 0
    /\ settings = CHOOSE s \in Tables : TRUE
    /\ environment = AllUsable

\* The daemon runs what it was started with.
LoadInit ==
    /\ main \in FirstFiles /\ wanted = main /\ frags = {} /\ edits = 0
    /\ settings \in Tables /\ environment = AllUsable
    /\ Accepted /\ table = <<main, settings>>

\* MaidKit migrates an entry: its fragment file appears, is completed, and the
\* entry leaves the main file.
BeginFragment(e) ==
    /\ e \in main /\ e.kind \in FragmentKinds /\ ~CoveredByFragment(e)
    /\ frags' = frags \cup {[entry |-> e, whole |-> FALSE]}
    /\ UNCHANGED <<main, settings, environment, wanted, table, edits>>

EndFragment(f) ==
    /\ ~f.whole
    /\ frags' = (frags \ {f}) \cup {[f EXCEPT !.whole = TRUE]}
    /\ UNCHANGED <<main, settings, environment, wanted, table, edits>>

RemoveInline(f) ==
    /\ f.whole /\ f.entry \in main
    /\ main' = main \ {f.entry}
    /\ UNCHANGED <<settings, frags, environment, wanted, table, edits>>

\* The operator adds an entry to the main file, takes one out of it, or
\* changes its other tables.
EditMain(e) ==
    /\ edits < MaxEdits /\ ~CoveredByFragment(e)
    /\ edits' = edits + 1
    /\ main' = IF e \in main THEN main \ {e} ELSE main \cup {e}
    /\ wanted' = IF e \in main THEN wanted \ {e} ELSE wanted \cup {e}
    /\ UNCHANGED <<settings, frags, environment, table>>

EditSettings(s) ==
    /\ edits < MaxEdits /\ edits' = edits + 1
    /\ s # settings /\ settings' = s
    /\ UNCHANGED <<main, frags, environment, wanted, table>>

\* A directory, a root or the helper becomes unusable, or usable again.
HostChanges(what) ==
    /\ edits < MaxEdits /\ edits' = edits + 1
    /\ environment' = [environment EXCEPT ![what] = ~@]
    /\ UNCHANGED <<main, settings, frags, wanted, table>>

\* A reload keeps what runs when the files do not make a valid configuration;
\* a daemon that is started on such files does not come up.
ReloadConfig ==
    /\ table # Down
    /\ table' = IF Accepted THEN <<Loaded, settings>> ELSE table
    /\ UNCHANGED <<main, settings, frags, environment, wanted, edits>>

RestartDaemon ==
    /\ table' = IF Accepted THEN <<Loaded, settings>> ELSE Down
    /\ UNCHANGED <<main, settings, frags, environment, wanted, edits>>

LoadNext ==
    \/ ReloadConfig \/ RestartDaemon
    \/ \E e \in Entries : BeginFragment(e) \/ EditMain(e)
    \/ \E f \in frags : EndFragment(f) \/ RemoveInline(f)
    \/ \E s \in Tables : EditSettings(s)
    \/ \E what \in DOMAIN environment : HostChanges(what)

LoadSpec == LoadInit /\ [][LoadNext]_loadVars

-----------------------------------------------------------------------------
(* What holds                                                              *)

\* What the operator asked for makes sense as one set, wherever it is kept.
Sensible(es) ==
    /\ \A e \in es : /\ e.sound
                     /\ IsNativeOpName(e.name) => ListOf(e.kind) # "hooks"
                     /\ e.target # "" => e.name = "container_down"
    /\ \A a, b \in es : a # b => ~Clash(a, b)

FilesReadable == environment.readable /\ \A f \in frags : f.whole

\* A migration is invisible: at each of its steps at which no fragment is half
\* written, the files make exactly the configuration that was asked for if it
\* makes sense, and what they make is never more than was asked for, nor
\* senseless. So a reload or a restart in the middle of a migration loses no
\* entry, doubles none, resurrects none, and never finds a daemon that cannot
\* start on what ran before.
MigrationInvisible ==
    FilesReadable /\ ValidateSettings(settings)
        => /\ Sensible(wanted) => Accepted /\ Loaded = wanted
           /\ Accepted => Sensible(Loaded) /\ Loaded \subseteq wanted

-----------------------------------------------------------------------------
(* What the code says of itself and does not do                            *)

\* "A missing or unreadable directory is not an error" (config.go). Refuted: an
\* unreadable one fails the load, and a restart leaves the daemon down.
UnreadableDirHarmless ==
    [][Sensible(wanted) /\ ValidateSettings(settings) /\ (\A f \in frags : f.whole)
        => table' # Down]_table
=============================================================================

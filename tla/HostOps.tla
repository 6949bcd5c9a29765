------------------------------- MODULE HostOps -------------------------------
(***************************************************************************)
(* Native systemd, package and firewall operations: the daemon validates a *)
(* request and plans its attempts (daemon/ops.go), an attempt is either    *)
(* the root helper maidkit-priv (privfs/cli.go), which checks the request  *)
(* again against its own grant file and runs the commands it builds, or    *)
(* one command run by the daemon itself and then through sudo. The host    *)
(* (the tools and their effect) is external. Each command is one step, and *)
(* the operations of several clients interleave.                           *)
(***************************************************************************)
EXTENDS Integers, Sequences, FiniteSets, SequencesExt

CONSTANTS
    OpClients,      \* requests in flight, one per client
    Work,           \* Work[c]: the requests client c sends
    Machines,       \* [tools, routed, grants, root]: the installed tools, the
                    \* [daemon.priv] switches, the helper's grant file, and
                    \* whether the helper runs as root
    MaxHostOps      \* bound: operations planned in all

VARIABLES
    machine,     \* the host and its grant file, fixed for a behaviour
    host,        \* firewall, packages and units of the machine
    op,          \* op[c]: the operation c waits for
    last,        \* last[c]: how c's latest operation ended
    hostOps      \* operations planned

hostVars == <<machine, host, op, last, hostOps>>

Idle == [phase |-> "idle"]
None == [phase |-> "none"]
StartHost == [on |-> TRUE, permanent |-> {}, running |-> {},
              installed |-> {"old"}, active |-> {}]

HostIdle ==
    /\ machine = [phase |-> "none"] /\ host = StartHost /\ hostOps = 0
    /\ op = [c \in OpClients |-> Idle] /\ last = [c \in OpClients |-> None]

HostInit ==
    /\ machine \in Machines /\ host = StartHost /\ hostOps = 0
    /\ op = [c \in OpClients |-> Idle] /\ last = [c \in OpClients |-> None]

-----------------------------------------------------------------------------
(* The tables shared by the daemon and the helper (privfs)                 *)

SystemdVerbs == {"start", "stop", "restart", "reload", "enable", "disable"}
PackageVerbs == {"refresh", "upgrade", "install", "remove"}
FirewallVerbs == {"enable", "disable", "allow", "deny", "delete"}
RuleVerbs == {"allow", "deny", "delete"}

\* The order the daemon probes managers and backends in.
PackageManagerPreference == <<"apt", "dnf", "yum", "pacman", "zypper", "apk", "xbps">>
FirewallBackendPreference == <<"ufw", "firewalld">>

ManagerBinary(manager, verb) ==
    CASE manager = "apt" -> "apt-get"
      [] manager = "xbps" -> IF verb = "remove" THEN "xbps-remove" ELSE "xbps-install"
      [] OTHER -> manager

FirewallUnit == "firewalld.service"
FirewallBinaryFor(backend) == IF backend = "firewalld" THEN "firewall-cmd" ELSE "ufw"

\* The grammars: the literals "bad" and "" stand for what they refuse.
ValidPackageName(name) == name \notin {"bad", ""}
RefusedArg == "-bad"    \* begins with a dash
ValidUnit(unit) == unit \notin {"bad", "", RefusedArg}

ParseFirewallRule(action, rule) ==
    [ok |-> /\ action \in {"allow", "deny"} /\ rule.port # "bad"
            /\ rule.protocol # "bad" /\ rule.source # "bad",
     rule |-> [action |-> action, port |-> rule.port,
               protocol |-> IF rule.protocol = "" THEN "any" ELSE rule.protocol,
               source   |-> IF rule.source = "" THEN "any" ELSE rule.source]]

Refused == [ok |-> FALSE, commands |-> <<>>]
Cmd(tool, do, arg) == [tool |-> tool, do |-> do, arg |-> arg]

PackageCommand(manager, verb, name) ==
    IF \/ verb \in {"install", "remove"} /\ ~ValidPackageName(name)
       \/ verb \in {"refresh", "upgrade"} /\ name # ""
    THEN Refused
    ELSE [ok |-> TRUE,
          commands |-> <<Cmd(ManagerBinary(manager, verb), verb, name)>>]

Item(shape, family, r) ==
    [shape |-> shape, family |-> family, source |-> r.source, port |-> r.port,
     protocol |-> r.protocol, target |-> r.action]

FamilyOf(source) == IF source = "v6" THEN "ipv6" ELSE "ipv4"

\* (Mutant: a rule without a source is rendered for IPv4 alone.)
RichRules_V4Only(r) == <<Item("rich", FamilyOf(r.source), r)>>

\* A rich rule has a family: the source's, or one rule for each of them.
RichRules(r) ==
    IF r.source # "any" THEN <<Item("rich", FamilyOf(r.source), r)>>
    ELSE <<Item("rich", "ipv4", r), Item("rich", "ipv6", r)>>

\* A plain port object where there is no source to name, rich rules otherwise.
FirewalldItems(r) ==
    IF r.action = "allow" /\ r.source = "any" THEN <<Item("port", "both", r)>> ELSE RichRules(r)

Edit(verb) == IF verb = "delete" THEN "remove" ELSE "add"

\* ufw takes the rule's text; firewalld edits the permanent configuration and
\* reloads. Any protocol would be two rules there, and is refused.
RuleCommands(backend, verb, r) ==
    LET items == FirewalldItems(r)
        cmds  == [i \in DOMAIN items |-> Cmd("firewall-cmd", Edit(verb), items[i])]
    IN  IF backend = "ufw"
        THEN [ok |-> TRUE, commands |-> <<Cmd("ufw", Edit(verb), Item("ufw", "both", r))>>]
        ELSE IF r.protocol = "any" THEN Refused
        ELSE [ok |-> TRUE, commands |-> Append(cmds, Cmd("firewall-cmd", "reload", ""))]

ToggleCommands(backend, verb) ==
    [ok |-> TRUE,
     commands |-> IF backend = "ufw" THEN <<Cmd("ufw", verb, "")>>
                  ELSE <<Cmd("systemctl", IF verb = "enable" THEN "start" ELSE "stop",
                             FirewallUnit)>>]

FirewallCommand(backend, verb, r) ==
    IF verb \in RuleVerbs THEN RuleCommands(backend, verb, r)
    ELSE ToggleCommands(backend, verb)

-----------------------------------------------------------------------------
(* The helper                                                              *)

ExitOK == 0
ExitUsage == 2
ExitRefused == 3
ExitIO == 4
ExitNotRoot == 5
ExitConfigBad == 6

Answer(exit) == [exit |-> exit, commands |-> <<>>]

\* ParseArgs: the exact number of operands of each verb and no options.
\* An argv is <<command, verb, operands...>>.
ArgvOK(argv) ==
    LET command == argv[1]
        verb    == argv[2]
        arity   == CASE command = "systemd" -> 1
                     [] command = "packages" -> IF verb \in {"install", "remove"} THEN 1 ELSE 0
                     [] verb \in {"allow", "deny"} -> 3
                     [] verb = "delete" -> 4
                     [] OTHER -> 0
        operands == SubSeq(argv, 3, Len(argv))
    IN  /\ \A i \in DOMAIN argv : argv[i] # RefusedArg
        /\ verb \in CASE command = "systemd" -> SystemdVerbs
                      [] command = "packages" -> PackageVerbs
                      [] OTHER -> FirewallVerbs
        /\ Len(operands) = arity
        /\ command # "firewall" => \A i \in DOMAIN operands : operands[i] # ""

\* LoadSet: a file that is not root's own, or any entry of it that does not
\* validate, authorizes nothing. So does one without an entry; one with file
\* profiles alone is in order, and grants no operation of this module.
ProfilesOK(names) ==
    /\ "bad" \notin Range(names)
    /\ \A i, j \in DOMAIN names : names[i] = names[j] => i = j
GrantOK(verbs, all) == verbs # {} /\ verbs \subseteq all
PackageGrantOK(p) ==
    p.manager \in Range(PackageManagerPreference) /\ GrantOK(p.verbs, PackageVerbs)
FirewallGrantOK(f) ==
    f.backend \in Range(FirewallBackendPreference) /\ GrantOK(f.verbs, FirewallVerbs)

LoadSet(file) ==
    /\ file.rootOwned /\ ProfilesOK(file.profiles)
    /\ DOMAIN file.units # {} => \A u \in DOMAIN file.units : GrantOK(file.units[u], SystemdVerbs)
    /\ file.packages.manager # "none" => PackageGrantOK(file.packages)
    /\ file.firewall.backend # "none" => FirewallGrantOK(file.firewall)
    /\ \/ file.profiles # <<>> \/ DOMAIN file.units # {}
       \/ file.packages.manager # "none" \/ file.firewall.backend # "none"

\* runSystemd, runPackages, runFirewall up to the commands.
GrantedCommands(argv, g) ==
    LET verb == argv[2] IN
    CASE argv[1] = "systemd" ->
           IF argv[3] \in DOMAIN g.units /\ verb \in g.units[argv[3]]
           THEN [ok |-> TRUE, commands |-> <<Cmd("systemctl", verb, argv[3])>>] ELSE Refused
      [] argv[1] = "packages" ->
           IF g.packages.manager # "none" /\ verb \in g.packages.verbs
           THEN PackageCommand(g.packages.manager, verb, IF Len(argv) = 3 THEN argv[3] ELSE "")
           ELSE Refused
      [] OTHER ->
           LET at     == IF verb = "delete" THEN 3 ELSE 2
               parsed == IF verb \in RuleVerbs
                         THEN ParseFirewallRule(argv[at], [port |-> argv[at + 1],
                                 protocol |-> argv[at + 2], source |-> argv[at + 3]])
                         ELSE [ok |-> TRUE, rule |-> ""]
           IN  IF g.firewall.backend # "none" /\ parsed.ok /\ verb \in g.firewall.verbs
               THEN FirewallCommand(g.firewall.backend, verb, parsed.rule) ELSE Refused

\* Run: every binary is resolved before the first command runs.
HelperRun(argv) ==
    LET g       == machine.grants
        granted == GrantedCommands(argv, g)
    IN  IF ~ArgvOK(argv) THEN Answer(ExitUsage)
        ELSE IF ~machine.root THEN Answer(ExitNotRoot)
        ELSE IF ~LoadSet(g) THEN Answer(ExitConfigBad)
        ELSE IF \/ ~granted.ok
                \/ \E i \in DOMAIN granted.commands : granted.commands[i].tool \notin machine.tools
        THEN Answer(ExitRefused)
        ELSE [exit |-> ExitOK, commands |-> granted.commands]

\* A command's exit code never collides with one of the helper's own.
ExternalExitCode(code) == IF code \in ExitUsage..ExitConfigBad THEN ExitIO ELSE code

-----------------------------------------------------------------------------
(* The daemon's plan                                                       *)

Helper(argv) == [via |-> "helper", argv |-> argv, command |-> ""]
Direct(via, cmd) == [via |-> via, argv |-> <<>>, command |-> cmd]

\* Each command as the daemon account, then through sudo -n where there is sudo.
DirectThenSudo(cmds) ==
    IF "sudo" \in machine.tools
    THEN [i \in 1..(2 * Len(cmds)) |->
             Direct(IF i % 2 = 1 THEN "direct" ELSE "sudo", cmds[(i + 1) \div 2])]
    ELSE [i \in 1..Len(cmds) |-> Direct("direct", cmds[i])]

NoPlan == [ok |-> FALSE, attempts |-> <<>>]
Plan(attempts) == [ok |-> attempts # <<>>, attempts |-> attempts]

\* systemdHelperAttempt and its siblings: the family is routed to the helper
\* and there is a way to reach it.
Routed(family) == family \in machine.routed /\ "sudo" \in machine.tools

PlanSystemd(req) ==
    IF req.verb \notin SystemdVerbs \/ ~ValidUnit(req.name) THEN NoPlan
    ELSE IF Routed("systemd") THEN Plan(<<Helper(<<"systemd", req.verb, req.name>>)>>)
    ELSE Plan(DirectThenSudo(<<Cmd("systemctl", req.verb, req.name)>>))

\* detectPackageManager, detectFirewallBackend: the first one installed.
Detect(preference, binary) ==
    LET here == {i \in DOMAIN preference : binary[preference[i]] \in machine.tools}
    IN  IF here = {} THEN "none" ELSE preference[Min(here)]
RefreshBinary == [m \in Range(PackageManagerPreference) |-> ManagerBinary(m, "refresh")]
BackendBinary == [b \in Range(FirewallBackendPreference) |-> FirewallBinaryFor(b)]

\* The helper's arguments for a package and a firewall operation.
PackageArgv(verb, name) == <<"packages", verb>> \o (IF name = "" THEN <<>> ELSE <<name>>)
FirewallArgv(verb, r) ==
    <<"firewall", verb>> \o (IF verb = "delete" THEN <<r.action>> ELSE <<>>)
    \o (IF verb \in RuleVerbs THEN <<r.port, r.protocol, r.source>> ELSE <<>>)

\* (Mutant: the daemon's own attempts stay behind the helper's.)
PlanPackage_FallsBack(req) ==
    LET direct == PackageCommand("apt", req.verb, req.name)
    IN  IF ~direct.ok THEN NoPlan
        ELSE Plan((IF Routed("packages") THEN <<Helper(PackageArgv(req.verb, req.name))>>
                   ELSE <<>>) \o DirectThenSudo(direct.commands))

PlanPackage(req) ==
    LET manager == Detect(PackageManagerPreference, RefreshBinary)
        direct  == PackageCommand(manager, req.verb, req.name)
    IN  IF req.verb \notin PackageVerbs \/ ~PackageCommand("apt", req.verb, req.name).ok
        THEN NoPlan
        ELSE IF Routed("packages") THEN Plan(<<Helper(PackageArgv(req.verb, req.name))>>)
        ELSE IF manager = "none" \/ direct.commands[1].tool \notin machine.tools THEN NoPlan
        ELSE Plan(DirectThenSudo(direct.commands))

\* Every command of the operation, and its sudo form, becomes an alternative
\* attempt of one stage.
PlanFirewall(req) ==
    LET rules   == req.verb \in RuleVerbs
        action  == IF req.verb = "delete" THEN req.rule.action ELSE req.verb
        parsed  == IF rules THEN ParseFirewallRule(action, req.rule) ELSE [ok |-> TRUE, rule |-> ""]
        r       == parsed.rule
        backend == Detect(FirewallBackendPreference, BackendBinary)
        direct  == FirewallCommand(backend, req.verb, r)
    IN  IF req.verb \notin FirewallVerbs \/ ~parsed.ok THEN NoPlan
        ELSE IF Routed("firewall") THEN Plan(<<Helper(FirewallArgv(req.verb, r))>>)
        ELSE IF \/ backend = "none" \/ ~direct.ok
                \/ \E i \in DOMAIN direct.commands : direct.commands[i].tool \notin machine.tools
        THEN NoPlan
        ELSE Plan(DirectThenSudo(direct.commands))

PlanNativeOp(req) ==
    CASE req.family = "systemd"  -> PlanSystemd(req)
      [] req.family = "packages" -> PlanPackage(req)
      [] OTHER                   -> PlanFirewall(req)

-----------------------------------------------------------------------------
(* The host: what the commands do                                          *)

SameRule(a, b) == a.port = b.port /\ a.protocol = b.protocol /\ a.source = b.source

\* ufw edits the live rules and keeps them.
ApplyUfw(h, do, rule) ==
    LET kept == {i \in h.running : ~SameRule(i, rule)} \cup {rule} IN
    CASE do = "add"     -> [h EXCEPT !.permanent = kept, !.running = kept]
      [] do = "remove"  -> [h EXCEPT !.permanent = @ \ {rule}, !.running = @ \ {rule}]
      [] do = "enable"  -> [h EXCEPT !.on = TRUE]
      [] do = "disable" -> [h EXCEPT !.on = FALSE]

ApplyFirewalld(h, do, rule) ==
    CASE do = "add"    -> [h EXCEPT !.permanent = @ \cup {rule}]
      [] do = "remove" -> [h EXCEPT !.permanent = @ \ {rule}]
      [] do = "reload" -> [h EXCEPT !.running = h.permanent]

ApplySystemctl(h, do, unit) ==
    IF unit = FirewallUnit
    THEN IF do = "start" THEN [h EXCEPT !.on = TRUE, !.running = h.permanent]
         ELSE [h EXCEPT !.on = FALSE]
    ELSE CASE do \in {"start", "restart"} -> [h EXCEPT !.active = @ \cup {unit}]
           [] do = "stop" -> [h EXCEPT !.active = @ \ {unit}]
           [] OTHER -> h

ApplyPackages(h, do, name) ==
    CASE do = "install" -> [h EXCEPT !.installed = @ \cup {name}]
      [] do = "remove"  -> [h EXCEPT !.installed = @ \ {name}]
      [] OTHER -> h

Apply(h, cmd) ==
    CASE cmd.tool = "ufw" -> ApplyUfw(h, cmd.do, cmd.arg)
      [] cmd.tool = "firewall-cmd" -> ApplyFirewalld(h, cmd.do, cmd.arg)
      [] cmd.tool = "systemctl" -> ApplySystemctl(h, cmd.do, cmd.arg)
      [] OTHER -> ApplyPackages(h, cmd.do, cmd.arg)

\* firewall-cmd talks to a running firewalld only.
Possible(h, cmd) == cmd.tool = "firewall-cmd" => h.on

-----------------------------------------------------------------------------
(* Running the attempts (runStage, runExternal)                            *)

Ended(c, ok, exit) ==
    /\ last' = [last EXCEPT ![c] = [phase |-> "ended", req |-> op[c].req, ok |-> ok,
                                    exit |-> exit, ran |-> op[c].ran,
                                    via |-> op[c].attempts[1].via]]
    /\ op' = [op EXCEPT ![c] = Idle]

\* The attempt failed: the first attempt's exit code is the one reported, and
\* the next attempt is tried if there is one.
AttemptFails(c, exit, ran) ==
    LET primary == IF op[c].at = 1 THEN exit ELSE op[c].exit IN
    IF op[c].at < Len(op[c].attempts)
    THEN /\ op' = [op EXCEPT ![c].at = @ + 1, ![c].todo = <<>>, ![c].phase = "start",
                             ![c].exit = primary, ![c].ran = ran]
         /\ UNCHANGED last
    ELSE /\ last' = [last EXCEPT ![c] = [phase |-> "ended", req |-> op[c].req, ok |-> FALSE,
                                         exit |-> primary, ran |-> ran,
                                         via |-> op[c].attempts[1].via]]
         /\ op' = [op EXCEPT ![c] = Idle]

PlanRequest(c, req) ==
    LET plan == PlanNativeOp(req) IN
    /\ machine # [phase |-> "none"]
    /\ op[c].phase = "idle" /\ hostOps < MaxHostOps
    /\ hostOps' = hostOps + 1
    /\ IF plan.ok
       THEN op' = [op EXCEPT ![c] = [phase |-> "start", req |-> req, attempts |-> plan.attempts,
                                     at |-> 1, todo |-> <<>>, exit |-> ExitOK, ran |-> 0]]
       ELSE op' = op
    /\ last' = [last EXCEPT ![c] = None]
    /\ UNCHANGED <<machine, host>>

\* An attempt starts: sudo may not let it (exit 1), the helper may refuse it.
StartAttempt(c, allowed) ==
    LET attempt == op[c].attempts[op[c].at]
        answer  == IF attempt.via = "helper" THEN HelperRun(attempt.argv)
                   ELSE [exit |-> ExitOK, commands |-> <<attempt.command>>]
    IN  /\ op[c].phase = "start"
        /\ attempt.via = "direct" => allowed
        /\ IF allowed /\ answer.exit = ExitOK
           THEN /\ op' = [op EXCEPT ![c].phase = "run", ![c].todo = answer.commands]
                /\ UNCHANGED last
           ELSE AttemptFails(c, IF allowed THEN answer.exit ELSE 1, op[c].ran)
        /\ UNCHANGED <<machine, host, hostOps>>

\* The next command succeeds; the attempt has when it was the last one.
CommandOK(c) ==
    /\ op[c].phase = "run" /\ Possible(host, Head(op[c].todo))
    /\ host' = Apply(host, Head(op[c].todo))
    /\ IF Len(op[c].todo) = 1 THEN Ended(c, TRUE, ExitOK)
       ELSE /\ op' = [op EXCEPT ![c].todo = Tail(@), ![c].ran = @ + 1]
            /\ UNCHANGED last
    /\ UNCHANGED <<machine, hostOps>>

\* It fails, changing nothing; later commands of the attempt do not run.
CommandFails(c, code) ==
    LET exit == IF op[c].attempts[op[c].at].via = "helper"
                THEN ExternalExitCode(code) ELSE code
    IN  /\ op[c].phase = "run"
        /\ AttemptFails(c, exit, op[c].ran + 1)
        /\ UNCHANGED <<machine, host, hostOps>>

\* The operation's deadline kills the command, which may have done its work;
\* no further attempt is made.
DeadlineKills(c, applied) ==
    LET cmd == Head(op[c].todo) IN
    /\ op[c].phase = "run"
    /\ applied => Possible(host, cmd)
    /\ host' = IF applied THEN Apply(host, cmd) ELSE host
    /\ last' = [last EXCEPT ![c] = [phase |-> "ended", req |-> op[c].req, ok |-> FALSE, exit |-> -1,
                                    ran |-> op[c].ran + 1, via |-> op[c].attempts[1].via]]
    /\ op' = [op EXCEPT ![c] = Idle]
    /\ UNCHANGED <<machine, hostOps>>

HostNext ==
    \E c \in OpClients :
        \/ \E req \in Work[c] : PlanRequest(c, req)
        \/ \E allowed \in BOOLEAN : StartAttempt(c, allowed)
        \/ CommandOK(c)
        \/ \E code \in {1, ExitRefused} : CommandFails(c, code)
        \/ \E applied \in BOOLEAN : DeadlineKills(c, applied)

HostSpec == HostInit /\ [][HostNext]_hostVars

-----------------------------------------------------------------------------
(* What holds                                                              *)

Families(source) == IF source = "any" THEN {"ipv4", "ipv6"} ELSE {FamilyOf(source)}

\* The rule is among those the firewall applies, while it is on, to address
\* family f.
Listed(r, f) ==
    \E i \in host.running : /\ SameRule(i, r) /\ i.target = r.action
                            /\ i.family \in {f, "both"}

Effective(req) ==
    LET r == ParseFirewallRule(IF req.verb = "delete" THEN req.rule.action ELSE req.verb,
                               req.rule).rule
    IN  CASE req.family = "packages" /\ req.verb = "install" -> req.name \in host.installed
          [] req.family = "packages" /\ req.verb = "remove" -> req.name \notin host.installed
          [] req.family = "systemd" /\ req.verb = "start" -> req.name \in host.active
          [] req.family = "systemd" /\ req.verb = "stop" -> req.name \notin host.active
          [] req.verb \in {"allow", "deny"} -> \A f \in Families(r.source) : Listed(r, f)
          [] req.verb = "delete" -> \A f \in {"ipv4", "ipv6"} : ~Listed(r, f)
          [] OTHER -> TRUE

\* A rule the daemon gives to firewalld by its own commands. They are alternative
\* attempts of one stage, so the first that succeeds is the last to run.
Divided(req) ==
    /\ req.family \notin {"systemd", "packages"} /\ req.verb \in RuleVerbs
    /\ ~Routed("firewall") /\ Detect(FirewallBackendPreference, BackendBinary) # "ufw"

\* An operation that reports success has taken effect: a package or a unit is as
\* asked, a rule is among the firewall's live rules for every address family it
\* names, or gone from them. It stays so however the operations of other clients
\* interleave and whichever commands fail. (The clients work on different ports,
\* packages and units.) Nothing of the kind holds of a rule that is divided into
\* attempts: its success may leave the rule without its reload.
SuccessTakesEffect ==
    \A c \in OpClients :
        last[c].phase = "ended" /\ last[c].ok /\ op[c].phase = "idle" =>
            Effective(last[c].req) \/ Divided(last[c].req)

GrantsInForce ==
    IF machine.root /\ LoadSet(machine.grants) THEN machine.grants
    ELSE [units |-> <<>>, packages |-> [manager |-> "none", verbs |-> {}],
          firewall |-> [backend |-> "none", verbs |-> {}]]

\* A family routed to the helper changes by what the grant file grants and by
\* nothing else, whatever the daemon account or sudo itself could do.
UngrantedNeverHappens ==
    machine # [phase |-> "none"] =>
        LET g == GrantsInForce
        IN  /\ Routed("firewall") =>
                  /\ \A i \in host.running \cup host.permanent : i.target \in g.firewall.verbs
                  /\ ~host.on => "disable" \in g.firewall.verbs
            /\ Routed("packages") =>
                  /\ host.installed # {"old"} =>
                        {"install", "remove"} \cap g.packages.verbs # {}
                  /\ "old" \notin host.installed => "remove" \in g.packages.verbs
            /\ Routed("systemd") => host.active \subseteq DOMAIN g.units

\* The helper's answer "refused" (and every other answer of its own) means that
\* not one command has run.
RefusalRanNothing ==
    \A c \in OpClients :
        last[c].phase = "ended" /\ last[c].via = "helper"
        /\ last[c].exit \in {ExitUsage, ExitRefused, ExitNotRoot, ExitConfigBad}
            => last[c].ran = 0
=============================================================================

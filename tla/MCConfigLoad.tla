---------------------------- MODULE MCConfigLoad ----------------------------
(***************************************************************************)
(* A small set of configurations for ConfigLoad: entries that clash across *)
(* kinds, a reserved and an unsound one, and tables that need the host.    *)
(***************************************************************************)
EXTENDS ConfigLoad

Entry(k, n) == [kind |-> k, name |-> n, target |-> "", sound |-> TRUE]
DownAlarm(t) == [Entry("alarms", "container_down") EXCEPT !.target = t]

MCEntries ==
    {Entry("webhooks", "a"), Entry("actions", "a"), Entry("actions", "b"),
     [Entry("actions", "b") EXCEPT !.sound = FALSE], Entry("actions", "native"),
     Entry("jobs", "a"), Entry("logAlerts", "a"),
     DownAlarm("x"), [Entry("alarms", "cpu_percent") EXCEPT !.target = "x"]}

MCFirstFiles ==
    {{Entry("actions", "b"), Entry("jobs", "a")},
     {Entry("webhooks", "a"), Entry("logAlerts", "a"), DownAlarm("x")}}

Small == [formed |-> TRUE, cloud |-> FALSE, terminal |-> {}, scan |-> FALSE,
          files |-> [enabled |-> TRUE, roots |-> "bare"], priv |-> {"systemd"}]
Large == [formed |-> TRUE, cloud |-> TRUE, terminal |-> {"relay", "shells"}, scan |-> TRUE,
          files |-> [enabled |-> FALSE, roots |-> "privileged"], priv |-> {}]

MCTables == {Small, Large, [Small EXCEPT !.formed = FALSE],
             [Large EXCEPT !.cloud = FALSE], [Large EXCEPT !.terminal = {"enabled"}]}

\* Two alarms of one kind: MigrationInvisible does not hold for them (README).
TwoAlarms == {DownAlarm("x"), DownAlarm("y")}
TwoAlarmFiles == {TwoAlarms}
=============================================================================

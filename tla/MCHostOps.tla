----------------------------- MODULE MCHostOps -----------------------------
(***************************************************************************)
(* Instances of HostOps: two clients on ports, packages and units of their *)
(* own, machines with ufw and with firewalld and several grant files.      *)
(***************************************************************************)
EXTENDS HostOps

Rule(action, port, protocol, source) ==
    [action |-> action, port |-> port, protocol |-> protocol, source |-> source]
Req(family, verb, name, rule) ==
    [family |-> family, verb |-> verb, name |-> name, rule |-> rule]
NoRule == Rule("", "", "", "")

RuleWork(port, protocol, source) ==
    {Req("firewall", v, "", Rule("", port, protocol, source)) : v \in {"allow", "deny"}}
    \cup {Req("firewall", "delete", "", Rule(a, port, protocol, source)) : a \in {"allow", "deny"}}

MCWork == ("c1" :> RuleWork("22", "tcp", "") \cup {Req("firewall", "disable", "", NoRule)})
       @@ ("c2" :> {Req("firewall", "allow", "", Rule("", "80", "tcp", "v6")),
                    Req("firewall", "delete", "", Rule("allow", "80", "tcp", "v6")),
                    Req("packages", "install", "new", NoRule), Req("packages", "remove", "old", NoRule),
                    Req("systemd", "start", "u.service", NoRule), Req("packages", "install", "bad", NoRule)})

AllRouted == {"systemd", "packages", "firewall"}
UfwTools == {"ufw", "apt-get", "systemctl", "sudo"}
FirewalldTools == {"firewall-cmd", "xbps-install", "systemctl", "sudo"}

Grants(owned, units, manager, pverbs, backend, fverbs) ==
    [rootOwned |-> owned, profiles |-> <<>>, units |-> units, packages |-> [manager |-> manager, verbs |-> pverbs],
     firewall |-> [backend |-> backend, verbs |-> fverbs]]

UfwGrants == Grants(TRUE, ("u.service" :> {"start"}), "apt", {"install", "refresh"},
                    "ufw", {"allow", "delete", "disable"})
FirewalldGrants == Grants(TRUE, <<>>, "xbps", {"remove"},
                          "firewalld", {"allow", "deny", "delete"})
BadOwner == Grants(FALSE, <<>>, "none", {}, "ufw", {"allow"})
ProfilesOnly == [Grants(TRUE, <<>>, "none", {}, "none", {}) EXCEPT !.profiles = <<"p">>]

Machine(tools, routed, grants, root) ==
    [tools |-> tools, routed |-> routed, grants |-> grants, root |-> root]

\* Direct commands to ufw and to firewalld; the helper with its own backend's
\* grants, with those of a backend that is not installed, with file profiles
\* alone, without root, with a file it must refuse.
MCMachines == {
    Machine(UfwTools, {}, UfwGrants, TRUE),
    Machine(FirewalldTools, {}, FirewalldGrants, TRUE),
    Machine(UfwTools, AllRouted, UfwGrants, TRUE),
    Machine(FirewalldTools, AllRouted, FirewalldGrants, TRUE),
    Machine(UfwTools, AllRouted, FirewalldGrants, TRUE),
    Machine(FirewalldTools, AllRouted, ProfilesOnly, TRUE),
    Machine(FirewalldTools, AllRouted, FirewalldGrants, FALSE),
    Machine(UfwTools, AllRouted, BadOwner, TRUE)}
=============================================================================

----------------------------- MODULE MCFileAPI -----------------------------
(***************************************************************************)
(* An instance of FileAPI: an ordinary root r with a directory, a link to  *)
(* it and a link that leaves the root, a privileged root p, and a file x   *)
(* outside of both. The link in the directory leads nowhere, and out of    *)
(* the root from where a request moves it to. The requests name the roots  *)
(* themselves, what is below them and what is behind the links.            *)
(***************************************************************************)
EXTENDS FileAPI, TLC

FileReq(act, path, to, flag, data, route) ==
    [act |-> act, path |-> path, to |-> to, flag |-> flag, data |-> data, route |-> route]

MCRoots == {[path |-> <<"r">>, privileged |-> FALSE],
            [path |-> <<"p">>, privileged |-> TRUE]}

\* A root inside a root: a request on the outer one can move or remove it.
NestedRoots == {[path |-> <<"r">>, privileged |-> FALSE],
                [path |-> <<"r", "d", "s">>, privileged |-> TRUE]}

MCTree == (<<"r">> :> Dir) @@ (<<"r", "d">> :> Dir) @@ (<<"r", "d", "f">> :> File(1))
       @@ (<<"r", "d", "s">> :> Dir) @@ (<<"r", "d", "l">> :> Link(1, <<"x">>))
       @@ (<<"r", "out">> :> Link(1, <<"x">>)) @@ (<<"r", "in">> :> Link(0, <<"d">>))
       @@ (<<"p">> :> Dir) @@ (<<"p", "f">> :> File(2))
       @@ (<<"x">> :> Dir) @@ (<<"x", "f">> :> File(3))
MCDisk == <<<<"a", "a">>, <<"b">>, <<"x">>>>

MCRequests ==
    {FileReq(act, p, <<>>, FALSE, <<"n">>, "json") : act \in {"write", "read", "delete"},
        p \in {<<"r", "in", "f">>, <<"r", "out", "f">>, <<"p", "f">>, <<"p">>}}
    \cup {FileReq("mkdir", p, <<>>, TRUE, <<>>, "json") :
            p \in {<<"r", "e">>, <<"r", "in", "g", "e">>, <<"r", "out", "g">>, <<"p", "e">>}}
    \cup {FileReq(act, p, q, FALSE, <<>>, "json") : act \in {"move", "copy"},
            p \in {<<"r", "d">>, <<"r", "out">>},
            q \in {<<"r", "e">>, <<"r", "out", "f">>, <<"p", "f">>}}
    \cup {FileReq("copy", <<"r", "d">>, <<"r", "e">>, TRUE, <<>>, "json"),
          FileReq("copy", <<"r", "d">>, <<"r", "g", "e">>, FALSE, <<>>, "json"),
          FileReq("copy", <<"r", "in">>, <<"r", "d", "f">>, TRUE, <<>>, "json"),
          FileReq("move", <<"r", "d", "l">>, <<"r", "l">>, FALSE, <<>>, "json"),
          FileReq("write", <<"r", "l", "f">>, <<>>, FALSE, <<"n">>, "json"),
          FileReq("delete", <<"r", "d">>, <<>>, TRUE, <<>>, "json"),
          FileReq("delete", <<"r", "out">>, <<>>, TRUE, <<>>, "json"),
          FileReq("read", <<"r", "d", "f">>, <<>>, FALSE, <<>>, "raw")}
=============================================================================

------------------------------- MODULE FileAPI -------------------------------
(***************************************************************************)
(* The file API (daemon/files.go, files_http.go, files_priv.go) and the    *)
(* file verbs of the root helper (privfs/privfs.go). A path is a sequence  *)
(* of names, the tree a function from the paths that exist, a file's bytes *)
(* are on the disk under its inode: an open file is its inode, whatever    *)
(* becomes of its path. Requests of several clients interleave at the      *)
(* system calls that another request can come between. os.Root and the     *)
(* file system are external.                                               *)
(***************************************************************************)
EXTENDS Integers, Sequences, FiniteSets, SequencesExt

CONSTANTS
    Names,           \* what paths are made of
    FileClients,     \* requests in flight, one per client
    FileRoots,       \* [path, privileged]: daemon.files.roots
    FileRequests,    \* [act, path, to, flag, data, route] the clients send
    StartTree, StartDisk,
    MaxFileOps       \* bound: requests served in all

Path == Seq(Names)
Node == [kind : {"dir", "file", "link"}, ino : Nat, up : Nat, to : Path]
FileActs == {"read", "write", "mkdir", "move", "copy", "delete"}

\* A temporary file is named after its client. Roots are validated when the
\* configuration is loaded: existing directories, each listed once. The helper
\* is given a profile's name, and its own configuration says which directory
\* that is: here a privileged root's profile names the root's directory.
ASSUME FileAssumption ==
    /\ MaxFileOps \in Nat /\ FileClients \subseteq Names
    /\ StartDisk \in Seq(Range(StartDisk))
    /\ StartTree = [p \in DOMAIN StartTree |-> StartTree[p]]
    /\ \A p \in DOMAIN StartTree :
          /\ p \in Path /\ StartTree[p] \in Node
          /\ StartTree[p].kind = "file" => StartTree[p].ino \in 1..Len(StartDisk)
    /\ \A req \in FileRequests : req.act \in FileActs /\ req.path \in Path /\ req.to \in Path
    /\ \A r \in FileRoots : r.privileged \in BOOLEAN
    /\ \A r \in FileRoots : r.path \in DOMAIN StartTree /\ StartTree[r.path].kind = "dir"
    /\ \A r, s \in FileRoots : r.path = s.path => r = s

VARIABLES
    tree,       \* tree[p]: a directory, a file's inode or a link's text
    disk,       \* disk[i]: the bytes of inode i
    access,     \* [write, cred]: daemon.files.allowWrite, the callers' credential
    fop,        \* fop[c]: the request c waits for
    got,        \* got[c]: the bytes c's latest read returned
    fileOps     \* requests served

fileVars == <<tree, disk, access, fop, got, fileOps>>

FreeFop == [phase |-> "idle"]

FileIdle ==
    /\ tree = StartTree /\ disk = StartDisk /\ access = [write |-> FALSE, cred |-> "none"]
    /\ fop = [c \in FileClients |-> FreeFop] /\ got = [c \in FileClients |-> <<>>]
    /\ fileOps = 0

FileInit ==
    /\ tree = StartTree /\ disk = StartDisk
    /\ access \in [write : BOOLEAN, cred : {"header", "url"}]
    /\ fop = [c \in FileClients |-> FreeFop] /\ got = [c \in FileClients |-> <<>>]
    /\ fileOps = 0

-----------------------------------------------------------------------------
(* The file system and os.Root                                             *)

Dir == [kind |-> "dir", ino |-> 0, up |-> 0, to |-> <<>>]
File(i) == [kind |-> "file", ino |-> i, up |-> 0, to |-> <<>>]
\* The text of a relative link: "../" as often as up says, and then to. (An
\* absolute link leaves every root, as one does that climbs above it.)
Link(up, to) == [kind |-> "link", ino |-> 0, up |-> up, to |-> to]

Put(t, p, node) == [q \in DOMAIN t \cup {p} |-> IF q = p THEN node ELSE t[q]]
Under(t, p) == {q \in DOMAIN t : IsPrefix(p, q)}
Without(t, ps) == [q \in DOMAIN t \ ps |-> t[q]]
Rest(p, q) == SubSeq(q, Len(p) + 1, Len(q))
Grafted(t, from, to) ==
    LET moved == {to \o Rest(from, q) : q \in Under(t, from)}
        kept  == DOMAIN t \ (Under(t, from) \cup {to})
    IN  [q \in kept \cup moved |-> IF q \in moved THEN t[from \o Rest(to, q)] ELSE t[q]]
IsDir(t, p) == p \in DOMAIN t /\ t[p].kind = "dir"

Walking(at, rest) == [at |-> at, rest |-> rest, why |-> ""]
Stopped(at, rest, why) == [at |-> at, rest |-> rest, why |-> why]

\* A link at a place is read from the directory it is in.
LinkDepth(at, link) == Len(at) - (1 + link.up)
LeadsTo(at, link) == SubSeq(at, 1, LinkDepth(at, link)) \o link.to

\* One component of a path: a link is followed (the last one only if asked
\* to), and must not climb out of the root.
WalkStep(t, root, follow, s) ==
    LET at   == Append(s.at, Head(s.rest))
        more == Tail(s.rest)
    IN  IF s.why # "" \/ s.rest = <<>> THEN s
        ELSE IF at \notin DOMAIN t
        THEN IF more = <<>> THEN Walking(at, <<>>) ELSE Stopped(at, more, "missing")
        ELSE IF t[at].kind = "link" /\ (more # <<>> \/ follow)
        THEN IF LinkDepth(at, t[at]) >= Len(root)
             THEN Walking(root, Rest(root, LeadsTo(at, t[at])) \o more)
             ELSE Stopped(at, more, "escapes")
        ELSE IF t[at].kind # "dir" /\ more # <<>> THEN Stopped(at, more, "not a directory")
        ELSE Walking(at, more)

\* A walk crosses eight components and links at most, and then gives up.
WalkTwo(t, root, follow, s) == WalkStep(t, root, follow, WalkStep(t, root, follow, s))
WalkFour(t, root, follow, s) == WalkTwo(t, root, follow, WalkTwo(t, root, follow, s))
WalkEight(t, root, follow, s) == WalkFour(t, root, follow, WalkFour(t, root, follow, s))

\* Where a path inside a root leads: the place of the object, or of the one
\* that would be created there.
Walk(t, root, path, follow) ==
    LET end == WalkEight(t, root, follow, Walking(root, Rest(root, path)))
    IN  [ok |-> end.why = "" /\ end.rest = <<>>, at |-> end.at]

\* (Mutant: the joined path is handed to the operating system.)
Locate_Lexical(t, target, follow) ==
    LET end == WalkEight(t, <<>>, follow, Walking(<<>>, target.path))
    IN  [ok |-> end.why = "", at |-> end.at]

\* fileTarget.open and a method of the os.Root it returns.
Locate(t, target, follow) == Walk(t, target.root, target.path, follow)

\* The first directory that a path lacks, behind the links on the way to it; a
\* link at the end of the path is there.
FirstMissing(t, target) ==
    LET end == WalkEight(t, target.root, FALSE, Walking(target.root, Rest(target.root, target.path)))
    IN  [ok |-> \/ end.why = "missing"
                \/ end.why = "" /\ end.rest = <<>> /\ end.at \notin DOMAIN t,
         at |-> end.at]

-----------------------------------------------------------------------------
(* Requests                                                                *)

Changes(act) == act \in {"write", "mkdir", "move", "copy", "delete"}

\* fileAuthorizedRequest: a header everywhere, a URL token for the raw content
\* route alone. The stdio pipe asks for nothing.
Authorized(req) ==
    \/ req.route = "stdio" \/ access.cred = "header"
    \/ req.route = "raw" /\ req.act = "read"

\* resolve: the longest root a path is lexically in.
Resolve(path) ==
    LET inside == {r \in FileRoots : IsPrefix(r.path, path)}
        best   == CHOOSE r \in inside : \A s \in inside : Len(s.path) <= Len(r.path)
    IN  IF inside = {} THEN [ok |-> FALSE, root |-> <<>>, path |-> path, privileged |-> FALSE]
        ELSE [ok |-> TRUE, root |-> best.path, path |-> path, privileged |-> best.privileged]

IsRoot(target) == target.path = target.root

\* The write gate, the same for both kinds of root.
CheckPolicyWrite(target) == access.write /\ ~IsRoot(target)

\* dispatchFileAction up to the first system call.
Admitted(req) ==
    LET from == Resolve(req.path)
        to   == Resolve(req.to)
        pair == req.act \in {"move", "copy"}
    IN  /\ Authorized(req) /\ from.ok
        /\ Changes(req.act) => CheckPolicyWrite(from)
        /\ pair => /\ to.ok /\ ~from.privileged /\ ~to.privileged
                   /\ from.root = to.root /\ ~IsRoot(to)
        /\ req.act = "copy" => ~IsPrefix(req.path, req.to)
        /\ req.act = "delete" /\ from.privileged => ~req.flag

Serving(req, phase) ==
    [phase |-> phase, req |-> req, target |-> Resolve(req.path), dest |-> Resolve(req.to),
     ino |-> 0, src |-> 0, size |-> 0, temp |-> <<>>, todo |-> {}]

FileRequest(c, req) ==
    /\ access.cred # "none" /\ fop[c].phase = "idle" /\ fileOps < MaxFileOps
    /\ fileOps' = fileOps + 1
    /\ fop' = IF Admitted(req) THEN [fop EXCEPT ![c] = Serving(req, req.act)] ELSE fop
    /\ UNCHANGED <<tree, disk, access, got>>

Doing(c, act, privileged) ==
    fop[c].phase = act /\ fop[c].target.privileged = privileged
Done(c) == fop' = [fop EXCEPT ![c] = FreeFop]

-----------------------------------------------------------------------------
(* Ordinary roots                                                          *)

\* OpenFile(O_CREATE|O_TRUNC): an existing file loses its bytes, a missing one
\* is created, a directory or a missing parent is an error.
OpenTruncated(c, target, phase) ==
    LET w == Locate(tree, target, TRUE) IN
    /\ w.ok /\ ~IsDir(tree, w.at)
    /\ IF w.at \in DOMAIN tree
       THEN /\ disk' = [disk EXCEPT ![tree[w.at].ino] = <<>>] /\ UNCHANGED tree
            /\ fop' = [fop EXCEPT ![c].phase = phase, ![c].ino = tree[w.at].ino]
       ELSE /\ disk' = Append(disk, <<>>) /\ tree' = Put(tree, w.at, File(Len(disk) + 1))
            /\ fop' = [fop EXCEPT ![c].phase = phase, ![c].ino = Len(disk) + 1]

WriteOpen(c) ==
    /\ Doing(c, "write", FALSE) /\ OpenTruncated(c, fop[c].target, "fill")
    /\ UNCHANGED <<access, got, fileOps>>

WriteData(c) ==
    /\ fop[c].phase = "fill"
    /\ disk' = [disk EXCEPT ![fop[c].ino] = fop[c].req.data]
    /\ Done(c) /\ UNCHANGED <<tree, access, got, fileOps>>

\* Mkdir makes the last directory of a path; MkdirAll (all) makes the missing
\* ones, the outermost first, and is content with a path that is a directory or
\* a link to one.
MakeDirectory(c, all) ==
    LET target == fop[c].target
        first  == FirstMissing(tree, target)
        last   == Locate(tree, target, FALSE).ok
        there  == Locate(tree, target, TRUE)
    IN  \/ /\ first.ok /\ (last \/ all)
           /\ tree' = Put(tree, first.at, Dir)
           /\ IF last THEN Done(c) ELSE UNCHANGED fop
        \/ /\ all /\ there.ok /\ IsDir(tree, there.at)
           /\ Done(c) /\ UNCHANGED tree

Mkdir(c) ==
    /\ Doing(c, "mkdir", FALSE) /\ MakeDirectory(c, fop[c].req.flag)
    /\ UNCHANGED <<disk, access, got, fileOps>>

\* rename(2): a file replaces a file, a directory an empty directory.
Move(c) ==
    LET w == Locate(tree, fop[c].target, FALSE)
        d == Locate(tree, fop[c].dest, FALSE)
    IN  /\ Doing(c, "move", FALSE)
        /\ w.ok /\ d.ok /\ w.at \in DOMAIN tree /\ w.at # d.at /\ ~IsPrefix(w.at, d.at)
        /\ IsDir(tree, w.at) => \/ d.at \notin DOMAIN tree
                                \/ Under(tree, d.at) = {d.at} /\ IsDir(tree, d.at)
        /\ ~IsDir(tree, w.at) => ~IsDir(tree, d.at)
        /\ tree' = Grafted(tree, w.at, d.at)
        /\ Done(c) /\ UNCHANGED <<disk, access, got, fileOps>>

\* Remove unlinks a file, a link or an empty directory; RemoveAll unlinks the
\* entries one by one, the innermost first.
Delete(c) ==
    LET w == Locate(tree, fop[c].target, FALSE) IN
    /\ Doing(c, "delete", FALSE) /\ w.ok /\ w.at \in DOMAIN tree
    /\ \E p \in Under(tree, w.at) :
         /\ Under(tree, p) = {p} /\ (p = w.at \/ fop[c].req.flag)
         /\ tree' = Without(tree, {p})
         /\ IF p = w.at THEN Done(c) ELSE UNCHANGED fop
    /\ UNCHANGED <<disk, access, got, fileOps>>

\* copy: the source and the destination are looked at once, before anything
\* is copied.
CopyCheck(c) ==
    LET w == Locate(tree, fop[c].target, FALSE)
        d == Locate(tree, fop[c].dest, FALSE)
    IN  /\ Doing(c, "copy", FALSE)
        /\ w.ok /\ w.at \in DOMAIN tree
        /\ FirstMissing(tree, fop[c].dest).ok \/ (fop[c].req.flag /\ d.ok)
        /\ fop' = [fop EXCEPT ![c].phase = "tree",
                              ![c].todo = {<<fop[c].target.path, fop[c].dest.path>>}]
        /\ UNCHANGED <<tree, disk, access, got, fileOps>>

Children(t, p) == {q \in Under(t, p) : Len(q) = Len(p) + 1}
Within(c, p) == [root |-> fop[c].dest.root, path |-> p]

\* copyFileTree of a directory: MkdirAll of the destination, one missing
\* directory after the other, and then the entries are read.
CopyDirectory(c, e, src) ==
    LET first == FirstMissing(tree, Within(c, e[2]))
        there == Locate(tree, Within(c, e[2]), TRUE)
    IN  /\ IsDir(tree, src) /\ UNCHANGED disk
        /\ \/ first.ok /\ tree' = Put(tree, first.at, Dir) /\ UNCHANGED fop
           \/ /\ there.ok /\ IsDir(tree, there.at) /\ UNCHANGED tree
              /\ fop' = [fop EXCEPT ![c].todo = (@ \ {e}) \cup
                           {<<e[1] \o Rest(src, q), e[2] \o Rest(src, q)>> : q \in Children(tree, src)}]

\* A link in a tree is copied with its text.
CopyLink(c, e, src) ==
    LET d == Locate(tree, Within(c, e[2]), FALSE) IN
    /\ tree[src].kind = "link" /\ e[1] # fop[c].target.path /\ UNCHANGED disk
    /\ d.ok /\ (d.at \in DOMAIN tree => fop[c].req.flag /\ Under(tree, d.at) = {d.at})
    /\ tree' = Put(tree, d.at, tree[src])
    /\ fop' = [fop EXCEPT ![c].todo = @ \ {e}]

\* copyFileContents opens what a file or the request's own link leads to, and
\* then the destination: a directory is found out by the first read.
CopyFile(c, e, src) ==
    LET w   == Locate(tree, Within(c, e[1]), TRUE)
        d   == Locate(tree, Within(c, e[2]), TRUE)
        old == d.at \in DOMAIN tree
        ino == IF old THEN tree[d.at].ino ELSE Len(disk) + 1
    IN  /\ tree[src].kind = "file" \/ (tree[src].kind = "link" /\ e[1] = fop[c].target.path)
        /\ w.ok /\ w.at \in DOMAIN tree /\ d.ok /\ ~IsDir(tree, d.at)
        /\ disk' = IF old THEN [disk EXCEPT ![ino] = <<>>] ELSE Append(disk, <<>>)
        /\ tree' = IF old THEN tree ELSE Put(tree, d.at, File(ino))
        /\ IF tree[w.at].kind = "file"
           THEN fop' = [fop EXCEPT ![c].phase = "data", ![c].todo = @ \ {e},
                                   ![c].src = tree[w.at].ino, ![c].ino = ino]
           ELSE Done(c)

\* One entry of a copy. Its paths are names: what they lead to is found anew.
CopyEntry(c) ==
    /\ fop[c].phase = "tree"
    /\ \E e \in fop[c].todo :
         LET w == Locate(tree, Within(c, e[1]), FALSE) IN
         /\ w.ok /\ w.at \in DOMAIN tree
         /\ CopyDirectory(c, e, w.at) \/ CopyLink(c, e, w.at) \/ CopyFile(c, e, w.at)
    /\ UNCHANGED <<access, got, fileOps>>

\* copyFileContents streams what the source holds by now.
CopyData(c) ==
    /\ fop[c].phase = "data"
    /\ disk' = [disk EXCEPT ![fop[c].ino] = disk[fop[c].src]]
    /\ fop' = [fop EXCEPT ![c].phase = "tree"]
    /\ UNCHANGED <<tree, access, got, fileOps>>

CopyDone(c) ==
    /\ fop[c].phase = "tree" /\ fop[c].todo = {}
    /\ Done(c) /\ UNCHANGED <<tree, disk, access, got, fileOps>>

-----------------------------------------------------------------------------
(* Reading: the window is as long as the file was when it was opened.      *)

ReadOpen(c) ==
    LET w == Locate(tree, fop[c].target, TRUE) IN
    /\ fop[c].phase = "read" /\ w.ok /\ w.at \in DOMAIN tree /\ tree[w.at].kind = "file"
    /\ fop' = [fop EXCEPT ![c].phase = "window", ![c].ino = tree[w.at].ino,
                          ![c].size = Len(disk[tree[w.at].ino])]
    /\ UNCHANGED <<tree, disk, access, got, fileOps>>

\* read fills a buffer of the window's length; a file that has shrunk leaves
\* the rest of it zero, a file that has become empty is an error. The raw
\* route sends the bytes there are.
ReadWindow(c) ==
    LET bytes == disk[fop[c].ino]
        n     == fop[c].size
        short == Len(bytes) < n /\ Len(bytes) > 0 /\ fop[c].req.route # "raw"
        data  == IF short THEN bytes \o [i \in 1..(n - Len(bytes)) |-> "0"]
                 ELSE SubSeq(bytes, 1, IF n < Len(bytes) THEN n ELSE Len(bytes))
    IN  /\ fop[c].phase = "window"
        /\ got' = [got EXCEPT ![c] = data]
        /\ Done(c) /\ UNCHANGED <<tree, disk, access, fileOps>>

-----------------------------------------------------------------------------
(* Privileged roots: one run of the helper per request                     *)

\* tempName: a name nothing else has.
TempName(c) == c

\* (Mutant: the helper writes the destination in place.)
PrivWrite_InPlace(c) ==
    /\ Doing(c, "write", TRUE) /\ OpenTruncated(c, fop[c].target, "fill")
    /\ UNCHANGED <<access, got, fileOps>>

\* Set.Write: a temporary file of an unused name beside the destination.
PrivWrite(c) ==
    LET w    == Locate(tree, fop[c].target, FALSE)
        temp == SubSeq(w.at, 1, Len(w.at) - 1) \o <<TempName(c)>>
    IN  /\ Doing(c, "write", TRUE)
        /\ w.ok /\ ~IsDir(tree, w.at) /\ temp \notin DOMAIN tree
        /\ disk' = Append(disk, <<>>) /\ tree' = Put(tree, temp, File(Len(disk) + 1))
        /\ fop' = [fop EXCEPT ![c].phase = "temp", ![c].ino = Len(disk) + 1, ![c].temp = temp]
        /\ UNCHANGED <<access, got, fileOps>>

PrivFill(c) ==
    /\ fop[c].phase = "temp"
    /\ disk' = [disk EXCEPT ![fop[c].ino] = fop[c].req.data]
    /\ fop' = [fop EXCEPT ![c].phase = "rename"]
    /\ UNCHANGED <<tree, access, got, fileOps>>

PrivRename(c) ==
    LET at == SubSeq(fop[c].temp, 1, Len(fop[c].temp) - 1) \o <<Last(fop[c].target.path)>> IN
    /\ fop[c].phase = "rename" /\ fop[c].temp \in DOMAIN tree /\ ~IsDir(tree, at)
    /\ tree' = Put(Without(tree, {fop[c].temp}), at, File(fop[c].ino))
    /\ Done(c) /\ UNCHANGED <<disk, access, got, fileOps>>

\* Set.Mkdir makes the missing parents too, Set.Remove one file or link.
PrivMkdir(c) ==
    /\ Doing(c, "mkdir", TRUE) /\ MakeDirectory(c, TRUE)
    /\ UNCHANGED <<disk, access, got, fileOps>>

PrivRemove(c) ==
    LET w == Locate(tree, fop[c].target, FALSE) IN
    /\ Doing(c, "delete", TRUE) /\ w.ok /\ w.at \in DOMAIN tree /\ ~IsDir(tree, w.at)
    /\ tree' = Without(tree, {w.at})
    /\ Done(c) /\ UNCHANGED <<disk, access, got, fileOps>>

\* A system call failed, the helper refused the mode or the profile, or its
\* timeout killed it: the request ends where it stands. A helper that lives to
\* see the error removes its temporary file.
FileFails(c, killed) ==
    /\ fop[c].phase # "idle"
    /\ killed => fop[c].target.privileged
    /\ tree' = IF fop[c].phase \in {"temp", "rename"} /\ ~killed
               THEN Without(tree, {fop[c].temp}) ELSE tree
    /\ Done(c) /\ UNCHANGED <<disk, access, got, fileOps>>

FileStep(c) ==
    \/ WriteOpen(c) \/ WriteData(c) \/ Mkdir(c) \/ Move(c) \/ Delete(c)
    \/ CopyCheck(c) \/ CopyEntry(c) \/ CopyData(c) \/ CopyDone(c)
    \/ ReadOpen(c) \/ ReadWindow(c)
    \/ PrivWrite(c) \/ PrivFill(c) \/ PrivRename(c) \/ PrivMkdir(c) \/ PrivRemove(c)
    \/ \E killed \in BOOLEAN : FileFails(c, killed)

FileNext ==
    \E c \in FileClients : FileStep(c) \/ \E req \in FileRequests : FileRequest(c, req)

FileSpec == FileInit /\ [][FileNext]_fileVars

-----------------------------------------------------------------------------
(* What holds                                                              *)

Beneath(r, p) == IsPrefix(r.path, p) /\ p # r.path

\* The API changes nothing but what is below its roots, through links and
\* renames too: nothing outside of them, not the roots themselves, and, where
\* the policy is read-only or the caller holds only the token of a URL,
\* nothing at all.
FilesConfined ==
    LET roots == {r.path : r \in FileRoots}
        pipe == \E req \in FileRequests : req.route = "stdio"
        mayChange(p) == access.write /\ (access.cred = "header" \/ pipe)
                        /\ p \notin roots /\ \E r \in FileRoots : Beneath(r, p)
        bytes(t, d, p) == IF t[p].kind = "file" THEN d[t[p].ino] ELSE <<>>
    IN  \A p \in DOMAIN tree \cup DOMAIN StartTree :
          mayChange(p) \/ /\ p \in DOMAIN tree \cap DOMAIN StartTree
                          /\ tree[p] = StartTree[p]
                          /\ bytes(tree, disk, p) = bytes(StartTree, StartDisk, p)

\* A file of a privileged root is always whole: its old bytes or the bytes of
\* one write, at every step of a helper's run, after its failure and after its
\* death. (The temporary files are the helper's own.)
PrivilegedNeverTorn ==
    LET Written == {req.data : req \in {q \in FileRequests : q.act = "write"}} IN
    \A r \in FileRoots, p \in DOMAIN tree :
        r.privileged /\ Beneath(r, p) /\ tree[p].kind = "file"
        /\ Last(p) \notin {TempName(c) : c \in FileClients}
            => disk[tree[p].ino] \in Range(StartDisk) \cup Written

-----------------------------------------------------------------------------
(* What the code says of itself and does not do                            *)

\* A read returns bytes the file held (files.go: "so a client cannot mistake a
\* partial read for the whole file"). Refuted by a write that shortens the file
\* between the stat and the read: the JSON read pads the window with zeros.
ReadsAreReal == \A c \in FileClients : "0" \notin Range(got[c])
=============================================================================

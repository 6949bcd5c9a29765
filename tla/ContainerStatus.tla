--------------------------- MODULE ContainerStatus ---------------------------
(***************************************************************************)
(* The container status the cloud keeps for a host: snapshots the daemon   *)
(* posts on its metrics tick (publishContainerStatus, daemon/app.go) and   *)
(* their reconciliation (IngestContainerStatus, cloud/service.go).         *)
(*                                                                         *)
(* A runtime may have several stores (rootless and root), each of which is *)
(* listed by itself and may fail by itself; the snapshot covers a runtime  *)
(* only if all its stores answered. A post the daemon gave up goes on in   *)
(* the cloud and may be stored after a newer one: nothing orders snapshots *)
(* by sent_at.                                                             *)
(***************************************************************************)
EXTENDS Integers, FiniteSets

CONSTANTS
    Containers,     \* container ids, a recreated container being another one
    Stores,         \* the stores that are listed
    Hiccups,        \* the sets of stores that may fail together
    RuntimeOf,      \* RuntimeOf[s]: the runtime of a store
    StoreOf,        \* StoreOf[c]: the store a container lives in
    States,         \* the states a container on the host may be in
    Allowlists,     \* the allowlists a configuration may name; {}: all
    Uploads         \* ingest handlers that may run at once

ASSUME StatusAssumption ==
    /\ StoreOf \in [Containers -> Stores]
    /\ DOMAIN RuntimeOf = Stores
    /\ Hiccups \subseteq SUBSET Stores

VARIABLES
    host,       \* host[c]: what the runtime knows of c
    managed,    \* the allowlist (managedContainers, managedComposes)
    rows,       \* rows[c]: the DaemonContainer row
    upload,     \* upload[u]: a snapshot on its way
    posting     \* the upload the daemon waits for

statusVars == <<host, managed, rows, upload, posting>>

Absent    == "absent"
NoUpload  == [sent |-> FALSE]
Host      == [Containers -> States \cup {Absent}]
Runtime(c) == RuntimeOf[StoreOf[c]]
Runtimes  == {RuntimeOf[s] : s \in Stores}

Snapshots == [sent : {TRUE}, was : Host, list : Allowlists, failed : Hiccups]

\* Rows, snapshots and hosts describe known containers of known runtimes.
StatusTypeOK ==
    /\ host \in Host /\ rows \in Host /\ managed \in Allowlists
    /\ upload \in [Uploads -> {NoUpload} \cup Snapshots]
    /\ posting \in Uploads \cup {"none"}

StatusIdle ==
    /\ host = [c \in Containers |-> Absent] /\ managed = CHOOSE l \in Allowlists : TRUE
    /\ rows = [c \in Containers |-> Absent]
    /\ upload = [u \in Uploads |-> NoUpload] /\ posting = "none"

StatusInit ==
    /\ host \in Host /\ managed \in Allowlists
    /\ rows = [c \in Containers |-> Absent]
    /\ upload = [u \in Uploads |-> NoUpload] /\ posting = "none"

\* A container is started, stopped, removed or recreated.
HostChange(c, s) ==
    /\ host[c] # s
    /\ host' = [host EXCEPT ![c] = s]
    /\ UNCHANGED <<managed, rows, upload, posting>>

\* A configuration reload changes the allowlist.
ReloadManaged(l) ==
    /\ managed # l /\ managed' = l
    /\ UNCHANGED <<host, rows, upload, posting>>

-----------------------------------------------------------------------------
\* matchManagedContainer: an empty allowlist matches every container.
MatchManaged(c, list) == list = {} \/ c \in list

\* (Mutant: a runtime is covered as soon as one of its stores answered.)
Covered_AnyStore(failed) == {RuntimeOf[s] : s \in Stores \ failed}

\* containerStatusBatch: the runtimes none of whose stores failed...
Covered(failed) == Runtimes \ {RuntimeOf[s] : s \in failed}

\* ... and the managed containers of every store that answered.
Mentioned(b) == {c \in Containers : /\ b.was[c] # Absent /\ MatchManaged(c, b.list)
                                    /\ StoreOf[c] \notin b.failed}

\* publishContainerStatus on a tick: a snapshot that covers nothing is not sent.
PublishStatus(u, failed) ==
    /\ posting = "none" /\ upload[u] = NoUpload
    /\ Covered(failed) # {}
    /\ upload' = [upload EXCEPT ![u] = [sent |-> TRUE, was |-> host,
                                        list |-> managed, failed |-> failed]]
    /\ posting' = u
    /\ UNCHANGED <<host, managed, rows>>

\* The request times out while the cloud may still be storing it.
UploadTimeout ==
    /\ posting # "none" /\ posting' = "none"
    /\ UNCHANGED <<host, managed, rows, upload>>

\* The snapshot is lost, or its transaction rolled back.
UploadLost(u) ==
    /\ upload[u] # NoUpload
    /\ upload' = [upload EXCEPT ![u] = NoUpload]
    /\ posting' = IF posting = u THEN "none" ELSE posting
    /\ UNCHANGED <<host, managed, rows>>

\* (Mutant: rows the snapshot does not mention stay.)
Reconciled_UpsertOnly(b) ==
    [c \in Containers |-> IF c \in Mentioned(b) THEN b.was[c] ELSE rows[c]]

\* The transaction: upsert what the snapshot mentions, delete the rows of a
\* covered runtime that it does not.
Reconciled(b) ==
    [c \in Containers |-> IF c \in Mentioned(b) THEN b.was[c]
                          ELSE IF Runtime(c) \in Covered(b.failed) THEN Absent
                          ELSE rows[c]]

IngestStatus(u) ==
    /\ upload[u] # NoUpload
    /\ rows' = Reconciled(upload[u])
    /\ upload' = [upload EXCEPT ![u] = NoUpload]
    /\ posting' = IF posting = u THEN "none" ELSE posting
    /\ UNCHANGED <<host, managed>>

StatusNext ==
    \/ \E c \in Containers, s \in States \cup {Absent} : HostChange(c, s)
    \/ \E l \in Allowlists : ReloadManaged(l)
    \/ UploadTimeout
    \/ \E u \in Uploads : IngestStatus(u) \/ UploadLost(u)
          \/ \E failed \in Hiccups : PublishStatus(u, failed)

StatusSpec == StatusInit /\ [][StatusNext]_statusVars

\* A handler ends some time, well or badly.
UploadEnds == \E u \in Uploads : IngestStatus(u) \/ UploadLost(u)

\* A snapshot in which every store answered is tried, and one is stored, again
\* and again.
FullSnapshot == \E u \in Uploads : PublishStatus(u, {})
StoreFull == \E u \in Uploads : IngestStatus(u) /\ upload[u].failed = {}

-----------------------------------------------------------------------------
(* What holds *)

\* A row disappears only because its container was gone from the host, or from
\* the allowlist, when the snapshot was taken: a store that does not answer
\* costs no row, whichever snapshot is stored and however late.
HiccupKeepsRows ==
    [][\A c \in Containers : (rows[c] # Absent /\ rows'[c] = Absent)
         => \E u \in Uploads : /\ upload[u].sent
                               /\ \/ upload[u].was[c] = Absent
                                  \/ ~MatchManaged(c, upload[u].list)]_statusVars

Wanted == [c \in Containers |-> IF MatchManaged(c, managed) THEN host[c] ELSE Absent]

\* Once the host and the allowlist stay as they are, the rows become what is on
\* the host, although snapshots are lost, partial and stored out of order.
CloudConverges ==
    []<>(rows = Wanted) \/ []<><<<<host, managed>>' # <<host, managed>>>>_statusVars
=============================================================================

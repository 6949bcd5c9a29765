------------------------------ MODULE StreamHub ------------------------------
(***************************************************************************)
(* The live stream (daemon/stream.go, the collectors of daemon/app.go):    *)
(* collector goroutines broadcast frames, one SSE handler per client reads *)
(* its buffered channel and writes to the socket. Subscribe, Unsubscribe   *)
(* and Broadcast run under the hub's mutex, one step each; a collector     *)
(* looks for subscribers before it collects and broadcasts afterwards.     *)
(* A frame is its event type, its number and, for processes, its rows.     *)
(***************************************************************************)
EXTENDS Integers, Sequences, SequencesExt

CONSTANTS
    Clients,       \* SSE clients, each of which connects once
    EventTypes,    \* streamEventTypes
    Limits,        \* the processesLimit values clients ask for; 0: all
    BufferSize,    \* subscriberBufferSize
    TableRows,     \* rows of the process table
    MaxFrames      \* bound: frames broadcast in all

ASSUME StreamAssumption ==
    /\ BufferSize \in Nat \ {0} /\ TableRows \in Nat /\ MaxFrames \in Nat
    /\ Limits \subseteq Nat /\ "processes" \in EventTypes

VARIABLES
    all,          \* the registered subscribers
    subs,         \* subs[t]: the bucket of event type t
    sub,          \* sub[c]: a client's types, limit, buffer, channel state
    received,     \* received[c]: the frames written to the client
    collecting,   \* collecting[t]: the collector has seen subscribers
    frames,       \* number of frames broadcast
    sentLast      \* sentLast[c]: the newest frame pushed to c, ghost

streamVars == <<all, subs, sub, received, collecting, frames, sentLast>>

NoFrame == [type |-> "none", n |-> 0, rows |-> 0]
NewSub == [types |-> {}, limit |-> 0, buf |-> <<>>, open |-> FALSE, seen |-> FALSE]

Frames == [type : EventTypes \cup {"none"}, n : Nat, rows : Nat]
Subscribers == [types : SUBSET EventTypes, limit : Limits \cup {0}, buf : Seq(Frames),
                open : BOOLEAN, seen : BOOLEAN]

\* Buckets hold clients, channels and sockets hold frames.
StreamTypeOK ==
    /\ all \in SUBSET Clients /\ subs \in [EventTypes -> SUBSET Clients]
    /\ sub \in [Clients -> Subscribers] /\ received \in [Clients -> Seq(Frames)]
    /\ collecting \in [EventTypes -> BOOLEAN]
    /\ frames \in Nat /\ sentLast \in [Clients -> Frames]

StreamInit ==
    /\ all = {} /\ subs = [t \in EventTypes |-> {}]
    /\ sub = [c \in Clients |-> NewSub] /\ received = [c \in Clients |-> <<>>]
    /\ collecting = [t \in EventTypes |-> FALSE]
    /\ frames = 0 /\ sentLast = [c \in Clients |-> NoFrame]

-----------------------------------------------------------------------------
\* parseEventsParam, parseProcessesLimit: an unknown type or a limit out of
\* range is refused before anything is registered; no types means all.
RequestedTypes(types) == IF types = {} THEN EventTypes ELSE types

\* handleStream up to Subscribe.
Subscribe(c, types, limit) ==
    /\ ~sub[c].seen
    /\ sub' = [sub EXCEPT ![c] = [types |-> RequestedTypes(types), limit |-> limit,
                                  buf |-> <<>>, open |-> TRUE, seen |-> TRUE]]
    /\ all' = all \cup {c}
    /\ subs' = [t \in EventTypes |-> IF t \in RequestedTypes(types)
                                     THEN subs[t] \cup {c} ELSE subs[t]]
    /\ UNCHANGED <<received, collecting, frames, sentLast>>

\* (Mutant: only the register of all subscribers forgets the client.)
Unsubscribe_Half(c) ==
    /\ c \in all
    /\ all' = all \ {c}
    /\ sub' = [sub EXCEPT ![c].open = FALSE]
    /\ UNCHANGED <<subs, received, collecting, frames, sentLast>>

\* The client is gone or a write failed: out of every bucket, channel closed.
Unsubscribe(c) ==
    /\ c \in all
    /\ all' = all \ {c}
    /\ subs' = [t \in EventTypes |-> subs[t] \ {c}]
    /\ sub' = [sub EXCEPT ![c].open = FALSE]
    /\ UNCHANGED <<received, collecting, frames, sentLast>>

\* The handler receives one frame and writes it; what is left in a closed
\* channel is lost with the handler.
WriteFrame(c) ==
    /\ c \in all /\ sub[c].buf # <<>>
    /\ received' = [received EXCEPT ![c] = Append(@, Head(sub[c].buf))]
    /\ sub' = [sub EXCEPT ![c].buf = Tail(@)]
    /\ UNCHANGED <<all, subs, collecting, frames, sentLast>>

-----------------------------------------------------------------------------
\* (Mutant: a full buffer keeps what it has.)
Push_DropNewest(buf, frame) ==
    IF Len(buf) < BufferSize THEN Append(buf, frame) ELSE buf

\* pushLocked: a full buffer drops its oldest frame. Its try to send, its
\* receive and its second try are one step. The client can take a frame in
\* between, and then the frame that is dropped is one that had room: an old
\* frame more is lost, and the newest is queued all the same.
Push(buf, frame) ==
    Append(IF Len(buf) < BufferSize THEN buf ELSE Tail(buf), frame)

\* The process table up to a limit, 0 being all of it.
Cut(limit) == IF limit > 0 /\ limit < TableRows THEN limit ELSE TableRows

\* BroadcastProcesses: one frame is shared when every subscriber of the bucket
\* has the same limit, otherwise each is sent its own slice.
RowsFor(c, t) ==
    LET common == sub[CHOOSE s \in subs[t] : TRUE].limit
        shared == \A s \in subs[t] : sub[s].limit = common
    IN  IF t # "processes" THEN 0
        ELSE Cut(IF shared THEN common ELSE sub[c].limit)

\* The collector of type t ticks: nothing is collected for nobody.
CollectorTick(t) ==
    /\ ~collecting[t] /\ frames < MaxFrames /\ subs[t] # {}
    /\ collecting' = [collecting EXCEPT ![t] = TRUE]
    /\ UNCHANGED <<all, subs, sub, received, frames, sentLast>>

CollectFails(t) ==
    /\ collecting[t]
    /\ collecting' = [collecting EXCEPT ![t] = FALSE]
    /\ UNCHANGED <<all, subs, sub, received, frames, sentLast>>

\* Broadcast to whoever is in the bucket by now. A send on a closed channel
\* panics: Push is never reached for one (NoSendOnClosed).
Broadcast(t) ==
    LET frame(c) == [type |-> t, n |-> frames + 1, rows |-> RowsFor(c, t)] IN
    /\ collecting[t] /\ frames < MaxFrames
    /\ collecting' = [collecting EXCEPT ![t] = FALSE]
    /\ frames' = frames + 1
    /\ sub' = [c \in Clients |-> IF c \in subs[t]
                 THEN [sub[c] EXCEPT !.buf = Push(@, frame(c))] ELSE sub[c]]
    /\ sentLast' = [c \in Clients |-> IF c \in subs[t] THEN frame(c) ELSE sentLast[c]]
    /\ UNCHANGED <<all, subs, received>>

StreamNext ==
    \/ \E c \in Clients : Unsubscribe(c) \/ WriteFrame(c)
          \/ \E ts \in SUBSET EventTypes, l \in Limits : Subscribe(c, ts, l)
    \/ \E t \in EventTypes : CollectorTick(t) \/ CollectFails(t) \/ Broadcast(t)

StreamSpec == StreamInit /\ [][StreamNext]_streamVars

-----------------------------------------------------------------------------
(* What holds *)

\* The buckets hold exactly the open subscribers of the type: no broadcast
\* sends on a closed channel, and none misses a subscriber.
NoSendOnClosed ==
    \A t \in EventTypes : subs[t] = {c \in all : sub[c].open /\ t \in sub[c].types}

\* A client that lags behind loses old frames only: it gets its frames in
\* order, each with as many rows as it asked for, and the newest frame pushed
\* to it is written or still queued, however full its buffer was.
SlowClientKeepsNewest ==
    \A c \in Clients :
        LET queue == received[c] \o sub[c].buf IN
        /\ \A i \in 1..(Len(queue) - 1) : queue[i].n < queue[i+1].n
        /\ \A i \in DOMAIN queue : /\ queue[i].type \in sub[c].types
                                   /\ queue[i].type = "processes"
                                        => queue[i].rows = Cut(sub[c].limit)
        /\ sentLast[c] # NoFrame => Last(queue) = sentLast[c]

\* Why it holds, as Serving_proofs shows: what a client has and will get is a
\* sequence of frames whose numbers rise up to the hub's, so that dropping one
\* anywhere and adding a new one keeps its order.
Queue(c) == received[c] \o sub[c].buf

QueueInv ==
    \A c \in Clients :
        /\ \A i, j \in 1..Len(Queue(c)) : i < j => Queue(c)[i].n < Queue(c)[j].n
        /\ \A i \in 1..Len(Queue(c)) :
             /\ Queue(c)[i].n <= frames /\ Queue(c)[i].type \in sub[c].types
             /\ Queue(c)[i].type = "processes" => Queue(c)[i].rows = Cut(sub[c].limit)
        /\ sentLast[c] # NoFrame => Queue(c) # <<>> /\ Last(Queue(c)) = sentLast[c]
        /\ ~sub[c].seen => Queue(c) = <<>> /\ sentLast[c] = NoFrame

\* A client is registered while its channel is open.
OpenIsRegistered ==
    \A c \in Clients : /\ sub[c].open <=> c \in all
                       /\ sub[c].open => sub[c].seen

HubInv == NoSendOnClosed /\ QueueInv /\ OpenIsRegistered
=============================================================================

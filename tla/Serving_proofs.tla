--------------------------- MODULE Serving_proofs ---------------------------
(***************************************************************************)
(* What is proved of the live stream, for any clients, event types, limits *)
(* and buffer size: no broadcast reaches a closed channel, and a client    *)
(* that lags behind loses old frames only; of the configuration files, for *)
(* any entries: a load in the middle of an edit or a migration reads what  *)
(* was asked for; of native host operations, for any requests, grants and  *)
(* failures: a routed family changes by what is granted alone, and what an *)
(* operation reports as done is done and stays so; and of the file API,    *)
(* for any trees, roots and requests: nothing changes that is not below a  *)
(* root, and no file of a privileged root is seen half written.            *)
(***************************************************************************)
EXTENDS StreamHub, ConfigLoad, HostOps, FileAPI, SequenceTheorems, WellFoundedInduction, TLAPS

-----------------------------------------------------------------------------
(* Sequences *)

\* What pushLocked does to a buffer.
LEMMA PushOne ==
    ASSUME NEW S, NEW b \in Seq(S), NEW f \in S
    PROVE  /\ Push(b, f) \in Seq(S) /\ Len(Push(b, f)) > 0
           /\ Push(b, f)[Len(Push(b, f))] = f
           /\ \/ /\ Len(Push(b, f)) = Len(b) + 1
                 /\ \A i \in 1..Len(b) : Push(b, f)[i] = b[i]
              \/ /\ Len(Push(b, f)) = Len(b)
                 /\ \A i \in 1..(Len(b) - 1) : Push(b, f)[i] = b[i + 1]
<1>1. CASE Len(b) < BufferSize
    <2>1. Push(b, f) = Append(b, f)
        BY <1>1 DEF Push
    <2>2. Append(b, f) \in Seq(S) /\ Len(Append(b, f)) = Len(b) + 1
          /\ Append(b, f)[Len(b) + 1] = f
          /\ \A i \in 1..Len(b) : Append(b, f)[i] = b[i]
        OBVIOUS
    <2> QED  BY <2>1, <2>2
<1>2. CASE ~(Len(b) < BufferSize)
    <2>1. Push(b, f) = Append(Tail(b), f)
        BY <1>2 DEF Push
    <2>2. b # <<>>
        BY <1>2, StreamAssumption
    <2>3. Tail(b) \in Seq(S) /\ Len(Tail(b)) = Len(b) - 1
          /\ \A i \in 1..Len(Tail(b)) : Tail(b)[i] = b[i + 1]
        BY <2>2, HeadTailProperties
    <2>4. Append(Tail(b), f) \in Seq(S) /\ Len(Append(Tail(b), f)) = Len(b)
          /\ Append(Tail(b), f)[Len(b)] = f
          /\ \A i \in 1..(Len(b) - 1) : Append(Tail(b), f)[i] = Tail(b)[i]
        BY <2>3
    <2>5. \A i \in 1..(Len(b) - 1) : Push(b, f)[i] = b[i + 1]
        BY <2>1, <2>3, <2>4
    <2>6. Len(Push(b, f)) > 0
        BY <2>1, <2>2, <2>4
    <2> QED  BY <2>1, <2>4, <2>5, <2>6
<1> QED  BY <1>1, <1>2

\* All of m but its last element comes from q, in q's order.
Thinned(m, q) ==
    /\ \A i \in 1..(Len(m) - 1) : \E k \in 1..Len(q) : m[i] = q[k]
    /\ \A i, j \in 1..(Len(m) - 1) : i < j =>
          \E k, l \in 1..Len(q) : k < l /\ m[i] = q[k] /\ m[j] = q[l]

\* What a broadcast does to a client's queue: at most one frame is dropped
\* somewhere, the others keep their order, and the new one comes last.
LEMMA PushQueue ==
    ASSUME NEW S, NEW r \in Seq(S), NEW b \in Seq(S), NEW f \in S
    PROVE  /\ r \o Push(b, f) \in Seq(S) /\ r \o Push(b, f) # <<>>
           /\ Last(r \o Push(b, f)) = f
           /\ Thinned(r \o Push(b, f), r \o b)
<1> DEFINE p == Push(b, f)
           q == r \o b
           n == r \o p
<1>1. PICK d \in {0, 1} : /\ Len(b) + 1 = Len(p) + d
                          /\ \A i \in 1..(Len(p) - 1) : p[i] = b[i + d]
    <2>1. CASE Len(p) = Len(b) + 1 /\ \A i \in 1..Len(b) : p[i] = b[i]
        <3>1. \A i \in 1..(Len(p) - 1) : p[i] = b[i + 0]
            BY <2>1
        <3> QED  BY <2>1, <3>1
    <2>2. CASE Len(p) = Len(b) /\ \A i \in 1..(Len(b) - 1) : p[i] = b[i + 1]
        BY <2>2
    <2>3. \/ Len(p) = Len(b) + 1 /\ \A i \in 1..Len(b) : p[i] = b[i]
          \/ Len(p) = Len(b) /\ \A i \in 1..(Len(b) - 1) : p[i] = b[i + 1]
        BY PushOne, Zenon
    <2> QED  BY <2>1, <2>2, <2>3
<1>2. p \in Seq(S) /\ Len(p) > 0 /\ p[Len(p)] = f
    BY PushOne
<1>3. /\ q \in Seq(S) /\ Len(q) = Len(r) + Len(b)
      /\ \A i \in 1..Len(r) : q[i] = r[i]
      /\ \A i \in 1..Len(b) : q[Len(r) + i] = b[i]
    OBVIOUS
<1> HIDE DEF p
<1>4. /\ n \in Seq(S) /\ Len(n) = Len(r) + Len(p)
      /\ \A i \in 1..Len(r) : n[i] = r[i]
      /\ \A i \in 1..Len(p) : n[Len(r) + i] = p[i]
    BY <1>2
<1> HIDE DEF q, n
<1> DEFINE at(i) == IF i <= Len(r) THEN i ELSE i + d
<1>5. Len(r) \in Nat /\ Len(p) \in Nat /\ Len(b) \in Nat
    BY <1>2
<1>6. n # <<>> /\ n[Len(n)] = f
    BY <1>2, <1>4, <1>5
<1>7. ASSUME NEW i \in 1..(Len(n) - 1)
      PROVE  at(i) \in 1..Len(q) /\ n[i] = q[at(i)]
    <2>1. CASE i <= Len(r)
        BY <1>1, <1>3, <1>4, <1>5, <2>1
    <2>2. CASE i > Len(r)
        <3>1. PICK m \in Nat : i = Len(r) + m
            BY <1>5, <2>2
        <3>2. m \in 1..(Len(p) - 1)
            BY <1>4, <1>5, <2>2, <3>1
        <3>3. n[i] = p[m] /\ p[m] = b[m + d]
            <4>1. m \in 1..Len(p)
                BY <1>5, <3>2
            <4>2. n[i] = p[m]
                BY <1>4, <3>1, <4>1
            <4>3. p[m] = b[m + d]
                BY <1>1, <3>2
            <4> QED  BY <4>2, <4>3
        <3>4. m + d \in 1..Len(b)
            BY <1>1, <1>5, <3>2
        <3>5. q[Len(r) + (m + d)] = b[m + d]
            BY <1>3, <3>4
        <3>6. at(i) = Len(r) + (m + d)
            BY <1>5, <2>2, <3>1
        <3> QED  BY <1>3, <1>5, <3>3, <3>4, <3>5, <3>6
    <2> QED  BY <1>5, <2>1, <2>2
<1>8. \A i, j \in 1..(Len(n) - 1) : i < j => at(i) < at(j)
    BY <1>5
<1> HIDE DEF at
<1>9. \A i \in 1..(Len(n) - 1) : \E k \in 1..Len(q) : n[i] = q[k]
    BY <1>7
<1>10. \A i, j \in 1..(Len(n) - 1) : i < j =>
          \E k, l \in 1..Len(q) : k < l /\ n[i] = q[k] /\ n[j] = q[l]
    BY <1>7, <1>8
<1>11. Thinned(n, q)
    BY <1>9, <1>10 DEF Thinned
<1> QED  BY <1>4, <1>6, <1>11 DEF p, q, n, Last

\* Writing the head of a buffer to the socket moves it within the queue.
LEMMA WriteQueue ==
    ASSUME NEW S, NEW r \in Seq(S), NEW b \in Seq(S), b # <<>>
    PROVE  /\ Append(r, Head(b)) \in Seq(S) /\ Tail(b) \in Seq(S)
           /\ Append(r, Head(b)) \o Tail(b) = r \o b
<1>1. Head(b) \in S /\ Tail(b) \in Seq(S) /\ <<Head(b)>> \o Tail(b) = b
    BY HeadTailProperties, ConcatProperties
<1>2. Append(r, Head(b)) = r \o <<Head(b)>>
    BY <1>1, AppendIsConcat
<1>3. <<Head(b)>> \in Seq(S)
    BY <1>1
<1>4. (r \o <<Head(b)>>) \o Tail(b) = r \o (<<Head(b)>> \o Tail(b))
    BY <1>1, <1>3, ConcatAssociative
<1> QED  BY <1>1, <1>2, <1>4

LEMMA LengthOfFunction ==
    ASSUME NEW S, NEW n \in Nat, NEW s \in [1..n -> S] PROVE s \in Seq(S) /\ Len(s) = n
<1>1. s \in Seq(S)
    BY SeqDef
<1>2. DOMAIN s = 1..n /\ DOMAIN s = 1..Len(s) /\ Len(s) \in Nat
    BY <1>1, LenProperties
<1>3. 1..n = 1..Len(s)
    BY <1>2
<1>4. n > 0 => n \in 1..Len(s)
    BY <1>3
<1>5. n + 1 \notin 1..Len(s)
    <2>1. n + 1 \notin 1..n
        OBVIOUS
    <2> QED  BY <1>3, <2>1
<1> QED  BY <1>1, <1>2, <1>4, <1>5

-----------------------------------------------------------------------------
(* Broadcast *)

\* What a subscriber of the bucket is sent of the process table is what it
\* asked for, whether or not the frame is shared.
LEMMA RowsAskedFor ==
    ASSUME StreamTypeOK, NEW t \in EventTypes, NEW c \in subs[t]
    PROVE  /\ RowsFor(c, t) \in Nat
           /\ t = "processes" => RowsFor(c, t) = Cut(sub[c].limit)
<1> DEFINE s == CHOOSE s \in subs[t] : TRUE
<1>1. s \in subs[t]
    OBVIOUS
<1>2. c \in Clients /\ s \in Clients
    BY <1>1 DEF StreamTypeOK
<1>3. sub[c].limit \in Nat /\ sub[s].limit \in Nat
    <2>1. sub[c] \in Subscribers /\ sub[s] \in Subscribers
        BY <1>2 DEF StreamTypeOK
    <2>2. Limits \cup {0} \subseteq Nat
        BY StreamAssumption
    <2>3. \A x \in Subscribers : x.limit \in Limits \cup {0}
        BY DEF Subscribers
    <2> HIDE DEF s
    <2> QED  BY <2>1, <2>2, <2>3
<1>4. \A l \in Nat : Cut(l) \in Nat
    BY StreamAssumption DEF Cut
<1> HIDE DEF s
<1>5. RowsFor(c, t) = IF t # "processes" THEN 0
                      ELSE Cut(IF \A x \in subs[t] : sub[x].limit = sub[s].limit
                               THEN sub[s].limit ELSE sub[c].limit)
    BY DEF RowsFor, s
<1>6. (\A x \in subs[t] : sub[x].limit = sub[s].limit) => sub[s].limit = sub[c].limit
    OBVIOUS
<1> QED  BY <1>3, <1>4, <1>5, <1>6

LEMMA StreamTypesStep == StreamTypeOK /\ [StreamNext]_streamVars => StreamTypeOK'
<1> SUFFICES ASSUME StreamTypeOK, [StreamNext]_streamVars PROVE StreamTypeOK'
    OBVIOUS
<1>a. sub \in [Clients -> Subscribers] /\ received \in [Clients -> Seq(Frames)]
    BY DEF StreamTypeOK
<1>1. CASE UNCHANGED streamVars
    BY <1>1 DEF streamVars, StreamTypeOK
<1>2. ASSUME NEW c \in Clients, NEW ts \in SUBSET EventTypes, NEW l \in Limits,
             Subscribe(c, ts, l)
      PROVE  StreamTypeOK'
    <2>1. RequestedTypes(ts) \in SUBSET EventTypes
        BY DEF RequestedTypes
    <2>2. <<>> \in Seq(Frames)
        OBVIOUS
    <2>3. [types |-> RequestedTypes(ts), limit |-> l, buf |-> <<>>, open |-> TRUE,
           seen |-> TRUE] \in Subscribers
        BY <2>1, <2>2 DEF Subscribers
    <2>4. sub' \in [Clients -> Subscribers]
        BY <1>2, <1>a, <2>3 DEF Subscribe
    <2>5. all' \in SUBSET Clients /\ subs' \in [EventTypes -> SUBSET Clients]
        BY <1>2 DEF Subscribe, StreamTypeOK
    <2> QED  BY <1>2, <2>4, <2>5 DEF Subscribe, StreamTypeOK
<1>3. ASSUME NEW c \in Clients, Unsubscribe(c) PROVE StreamTypeOK'
    <2>1. sub' \in [Clients -> Subscribers]
        BY <1>3, <1>a DEF Unsubscribe, Subscribers
    <2>2. all' \in SUBSET Clients /\ subs' \in [EventTypes -> SUBSET Clients]
        BY <1>3 DEF Unsubscribe, StreamTypeOK
    <2> QED  BY <1>3, <2>1, <2>2 DEF Unsubscribe, StreamTypeOK
<1>4. ASSUME NEW c \in Clients, WriteFrame(c) PROVE StreamTypeOK'
    <2>1. sub[c] \in Subscribers /\ sub[c].buf \in Seq(Frames) /\ sub[c].buf # <<>>
        BY <1>4, <1>a DEF WriteFrame, Subscribers
    <2>2. received[c] \in Seq(Frames)
        BY <1>a
    <2>3. Append(received[c], Head(sub[c].buf)) \in Seq(Frames)
          /\ Tail(sub[c].buf) \in Seq(Frames)
        BY <2>1, <2>2, WriteQueue
    <2>4. [sub[c] EXCEPT !.buf = Tail(sub[c].buf)] \in Subscribers
        BY <2>1, <2>3 DEF Subscribers
    <2>5. sub' \in [Clients -> Subscribers]
        BY <1>4, <1>a, <2>4 DEF WriteFrame
    <2>6. received' \in [Clients -> Seq(Frames)]
        BY <1>4, <1>a, <2>3 DEF WriteFrame
    <2> QED  BY <1>4, <2>5, <2>6 DEF WriteFrame, StreamTypeOK
<1>5. ASSUME NEW t \in EventTypes, CollectorTick(t) PROVE StreamTypeOK'
    BY <1>5 DEF CollectorTick, StreamTypeOK
<1>6. ASSUME NEW t \in EventTypes, CollectFails(t) PROVE StreamTypeOK'
    BY <1>6 DEF CollectFails, StreamTypeOK
<1>7. ASSUME NEW t \in EventTypes, Broadcast(t) PROVE StreamTypeOK'
    <2> DEFINE frame(c) == [type |-> t, n |-> frames + 1, rows |-> RowsFor(c, t)]
    <2>1. ASSUME NEW c \in subs[t] PROVE frame(c) \in Frames
        <3>1. RowsFor(c, t) \in Nat
            BY <2>1, RowsAskedFor
        <3>2. frames + 1 \in Nat
            BY DEF StreamTypeOK
        <3> QED  BY <3>1, <3>2 DEF Frames
    <2>2. sub' = [c \in Clients |-> IF c \in subs[t]
                    THEN [sub[c] EXCEPT !.buf = Push(@, frame(c))] ELSE sub[c]]
          /\ sentLast' = [c \in Clients |-> IF c \in subs[t] THEN frame(c) ELSE sentLast[c]]
        BY <1>7 DEF Broadcast
    <2> HIDE DEF frame
    <2>3. ASSUME NEW c \in Clients, c \in subs[t]
          PROVE  [sub[c] EXCEPT !.buf = Push(@, frame(c))] \in Subscribers
        <3>1. sub[c] \in Subscribers /\ sub[c].buf \in Seq(Frames)
            BY <1>a DEF Subscribers
        <3>2. Push(sub[c].buf, frame(c)) \in Seq(Frames)
            BY <2>1, <2>3, <3>1, PushOne
        <3> QED  BY <3>1, <3>2 DEF Subscribers
    <2>4. sub' \in [Clients -> Subscribers]
        BY <1>a, <2>2, <2>3
    <2>5. sentLast' \in [Clients -> Frames]
        BY <2>1, <2>2 DEF StreamTypeOK
    <2>6. frames' \in Nat /\ collecting' \in [EventTypes -> BOOLEAN]
        BY <1>7 DEF Broadcast, StreamTypeOK
    <2> QED  BY <1>7, <2>4, <2>5, <2>6 DEF Broadcast, StreamTypeOK
<1> QED  BY <1>1, <1>2, <1>3, <1>4, <1>5, <1>6, <1>7 DEF StreamNext

\* Buckets hold clients, and channels and sockets hold frames, always.
LEMMA StreamTypes == StreamSpec => []StreamTypeOK
<1>1. StreamInit => StreamTypeOK
    <2> SUFFICES ASSUME StreamInit PROVE StreamTypeOK
        OBVIOUS
    <2>1. <<>> \in Seq(Frames)
        OBVIOUS
    <2>2. NewSub \in Subscribers /\ NoFrame \in Frames
        BY <2>1 DEF NewSub, Subscribers, NoFrame, Frames
    <2> QED  BY <2>1, <2>2 DEF StreamInit, StreamTypeOK
<1> QED  BY <1>1, StreamTypesStep, PTL DEF StreamSpec

-----------------------------------------------------------------------------
(* The buckets *)

LEMMA BucketsStep ==
    StreamTypeOK /\ NoSendOnClosed /\ OpenIsRegistered /\ [StreamNext]_streamVars
        => NoSendOnClosed' /\ OpenIsRegistered'
<1> SUFFICES ASSUME StreamTypeOK, NoSendOnClosed, OpenIsRegistered, [StreamNext]_streamVars
             PROVE  NoSendOnClosed' /\ OpenIsRegistered'
    OBVIOUS
<1>a. sub \in [Clients -> Subscribers] /\ all \subseteq Clients
    BY DEF StreamTypeOK
<1>b. \A c \in Clients : DOMAIN sub[c] = {"types", "limit", "buf", "open", "seen"}
    BY <1>a DEF Subscribers
<1>1. ASSUME UNCHANGED <<all, subs>>,
             \A c \in Clients : /\ sub'[c].types = sub[c].types /\ sub'[c].open = sub[c].open
                                /\ sub'[c].seen = sub[c].seen
      PROVE  NoSendOnClosed' /\ OpenIsRegistered'
    BY <1>1, <1>a DEF NoSendOnClosed, OpenIsRegistered
<1>2. ASSUME NEW c \in Clients, NEW ts \in SUBSET EventTypes, NEW l \in Limits,
             Subscribe(c, ts, l)
      PROVE  NoSendOnClosed' /\ OpenIsRegistered'
    <2>1. ~sub[c].open /\ c \notin all
        BY <1>2 DEF Subscribe, OpenIsRegistered
    <2>2. /\ sub'[c].types = RequestedTypes(ts) /\ sub'[c].open /\ sub'[c].seen
          /\ \A x \in Clients \ {c} : sub'[x] = sub[x]
        BY <1>2, <1>a DEF Subscribe
    <2>3. all' = all \cup {c}
        BY <1>2 DEF Subscribe
    <2>4. OpenIsRegistered'
        BY <2>2, <2>3 DEF OpenIsRegistered
    <2>5. ASSUME NEW t \in EventTypes
          PROVE  subs'[t] = {x \in all' : sub'[x].open /\ t \in sub'[x].types}
        <3>1. subs'[t] = IF t \in RequestedTypes(ts) THEN subs[t] \cup {c} ELSE subs[t]
            BY <1>2 DEF Subscribe
        <3>2. subs[t] = {x \in all : sub[x].open /\ t \in sub[x].types}
            BY DEF NoSendOnClosed
        <3>3. \A x \in all : x \in Clients \ {c}
            BY <1>a, <2>1
        <3> QED  BY <2>2, <2>3, <3>1, <3>2, <3>3
    <2> QED  BY <2>4, <2>5 DEF NoSendOnClosed
<1>3. ASSUME NEW c \in Clients, Unsubscribe(c)
      PROVE  NoSendOnClosed' /\ OpenIsRegistered'
    <2>1. /\ ~sub'[c].open
          /\ \A x \in Clients \ {c} : sub'[x] = sub[x]
        BY <1>3, <1>a, <1>b DEF Unsubscribe
    <2>2. all' = all \ {c}
        BY <1>3 DEF Unsubscribe
    <2>3. OpenIsRegistered'
        BY <2>1, <2>2 DEF OpenIsRegistered
    <2>4. ASSUME NEW t \in EventTypes
          PROVE  subs'[t] = {x \in all' : sub'[x].open /\ t \in sub'[x].types}
        <3>1. subs'[t] = subs[t] \ {c}
            BY <1>3 DEF Unsubscribe
        <3>2. subs[t] = {x \in all : sub[x].open /\ t \in sub[x].types}
            BY DEF NoSendOnClosed
        <3> QED  BY <1>a, <2>1, <2>2, <3>1, <3>2
    <2> QED  BY <2>3, <2>4 DEF NoSendOnClosed
<1>4. ASSUME NEW c \in Clients, WriteFrame(c)
      PROVE  NoSendOnClosed' /\ OpenIsRegistered'
    <2>1. \A x \in Clients : /\ sub'[x].types = sub[x].types /\ sub'[x].open = sub[x].open
                             /\ sub'[x].seen = sub[x].seen
        BY <1>4, <1>a, <1>b DEF WriteFrame
    <2> QED  BY <1>1, <1>4, <2>1 DEF WriteFrame
<1>5. ASSUME NEW t \in EventTypes, CollectorTick(t) \/ CollectFails(t)
      PROVE  NoSendOnClosed' /\ OpenIsRegistered'
    BY <1>1, <1>5 DEF CollectorTick, CollectFails
<1>6. ASSUME NEW t \in EventTypes, Broadcast(t)
      PROVE  NoSendOnClosed' /\ OpenIsRegistered'
    <2>1. \A x \in Clients : /\ sub'[x].types = sub[x].types /\ sub'[x].open = sub[x].open
                             /\ sub'[x].seen = sub[x].seen
        BY <1>6, <1>b DEF Broadcast
    <2> QED  BY <1>1, <1>6, <2>1 DEF Broadcast
<1>7. CASE UNCHANGED streamVars
    BY <1>1, <1>7 DEF streamVars
<1> QED  BY <1>2, <1>3, <1>4, <1>5, <1>6, <1>7 DEF StreamNext

LEMMA BucketsInit == StreamInit => NoSendOnClosed /\ OpenIsRegistered
    BY DEF StreamInit, NoSendOnClosed, OpenIsRegistered, NewSub

\* However subscriptions, disconnects and broadcasts interleave, the bucket of
\* a type holds exactly its open subscribers: Broadcast pushes to no closed
\* channel, which would panic, and misses nobody (stream.go).
THEOREM NeverSendsOnClosed == StreamSpec => []NoSendOnClosed
    BY BucketsInit, BucketsStep, StreamTypes, PTL DEF StreamSpec
-----------------------------------------------------------------------------
(* The queues *)

\* The part of QueueInv that is about one client, of a queue q, the hub's frame
\* number n, the newest frame pushed f, and the types and limit asked for.
Orderly(q, n, f, types, limit) ==
    /\ \A i, j \in 1..Len(q) : i < j => q[i].n < q[j].n
    /\ \A i \in 1..Len(q) : /\ q[i].n <= n /\ q[i].type \in types
                            /\ q[i].type = "processes" => q[i].rows = Cut(limit)
    /\ f # NoFrame => q # <<>> /\ Last(q) = f

LEMMA QueuesAreOrderly ==
    QueueInv <=> \A c \in Clients :
        /\ Orderly(Queue(c), frames, sentLast[c], sub[c].types, sub[c].limit)
        /\ ~sub[c].seen => Queue(c) = <<>> /\ sentLast[c] = NoFrame
    BY DEF QueueInv, Orderly

LEMMA FrameNumbers ==
    ASSUME NEW q \in Seq(Frames), NEW i \in 1..Len(q) PROVE q[i].n \in Nat
<1>1. q[i] \in Frames
    BY ElementOfSeq
<1> QED  BY <1>1 DEF Frames

\* An orderly queue stays so when a newer frame is pushed.
LEMMA PushKeepsOrder ==
    ASSUME NEW r \in Seq(Frames), NEW b \in Seq(Frames), NEW f \in Frames,
           NEW n \in Nat, NEW g, NEW types, NEW limit,
           Orderly(r \o b, n, g, types, limit),
           f.n = n + 1, f.type \in types, f.type = "processes" => f.rows = Cut(limit)
    PROVE  Orderly(r \o Push(b, f), n + 1, f, types, limit)
<1> DEFINE q == r \o b
           m == r \o Push(b, f)
<1>1. /\ m \in Seq(Frames) /\ m # <<>> /\ Last(m) = f
      /\ \A i \in 1..(Len(m) - 1) : \E k \in 1..Len(q) : m[i] = q[k]
      /\ \A i, j \in 1..(Len(m) - 1) : i < j =>
            \E k, l \in 1..Len(q) : /\ k < l
                                    /\ m[i] = q[k]
                                    /\ m[j] = q[l]
    <2>1. m \in Seq(Frames) /\ m # <<>> /\ Last(m) = f
        BY PushQueue
    <2>2. Thinned(m, q)
        BY PushQueue
    <2> QED  BY <2>1, <2>2 DEF Thinned
<1>2. /\ \A k, l \in 1..Len(q) : k < l => q[k].n < q[l].n
      /\ \A k \in 1..Len(q) : /\ q[k].n <= n /\ q[k].type \in types
                              /\ q[k].type = "processes" => q[k].rows = Cut(limit)
    BY DEF Orderly
<1>3. q \in Seq(Frames)
    OBVIOUS
<1> HIDE DEF q, m
<1>4. Len(m) \in Nat /\ Len(m) > 0 /\ m[Len(m)] = f
    BY <1>1 DEF Last
<1>5. \A k \in 1..Len(q) : q[k].n \in Nat
    BY <1>3, FrameNumbers
<1>6. ASSUME NEW i \in 1..Len(m)
      PROVE  /\ m[i].n <= n + 1 /\ m[i].type \in types
             /\ m[i].type = "processes" => m[i].rows = Cut(limit)
    <2>1. CASE i = Len(m)
        BY <1>4, <2>1
    <2>2. CASE i # Len(m)
        <3>1. i \in 1..(Len(m) - 1)
            BY <1>4, <2>2
        <3>2. PICK k \in 1..Len(q) : m[i] = q[k]
            BY <1>1, <3>1
        <3> QED  BY <1>2, <1>5, <3>2
    <2> QED  BY <2>1, <2>2
<1>7. ASSUME NEW i \in 1..Len(m), NEW j \in 1..Len(m), i < j
      PROVE  m[i].n < m[j].n
    <2>1. i \in 1..(Len(m) - 1)
        BY <1>4, <1>7
    <2>2. CASE j = Len(m)
        <3>1. PICK k \in 1..Len(q) : m[i] = q[k]
            BY <1>1, <2>1
        <3>2. q[k].n <= n /\ q[k].n \in Nat
            BY <1>2, <1>5
        <3> QED  BY <1>4, <2>2, <3>1, <3>2
    <2>3. CASE j # Len(m)
        <3>1. j \in 1..(Len(m) - 1)
            BY <1>4, <2>3
        <3>2. PICK k, l \in 1..Len(q) : k < l /\ m[i] = q[k] /\ m[j] = q[l]
            BY <1>1, <1>7, <2>1, <3>1
        <3> QED  BY <1>2, <3>2
    <2> QED  BY <2>2, <2>3
<1> QED  BY <1>1, <1>6, <1>7 DEF Orderly, m

LEMMA QueueStep ==
    StreamTypeOK /\ HubInv /\ [StreamNext]_streamVars => QueueInv'
<1> SUFFICES ASSUME StreamTypeOK, HubInv, [StreamNext]_streamVars PROVE QueueInv'
    OBVIOUS
<1> DEFINE Good(c) ==
        /\ Orderly(Queue(c), frames, sentLast[c], sub[c].types, sub[c].limit)
        /\ ~sub[c].seen => Queue(c) = <<>> /\ sentLast[c] = NoFrame
<1>a. \A c \in Clients : Good(c)
    BY QueuesAreOrderly DEF HubInv
<1>b. sub \in [Clients -> Subscribers] /\ received \in [Clients -> Seq(Frames)]
      /\ frames \in Nat
    BY DEF StreamTypeOK
<1>c. \A c \in Clients : DOMAIN sub[c] = {"types", "limit", "buf", "open", "seen"}
    BY <1>b DEF Subscribers
<1>d. \A c \in Clients : received[c] \in Seq(Frames) /\ sub[c].buf \in Seq(Frames)
    BY <1>b DEF Subscribers
<1>e. (\A c \in Clients : Good(c)') => QueueInv'
    BY DEF QueueInv, Orderly
\* Nothing that QueueInv mentions has changed for this client.
<1>f. ASSUME NEW c \in Clients, received'[c] = received[c], sub'[c].buf = sub[c].buf,
             sub'[c].types = sub[c].types, sub'[c].limit = sub[c].limit,
             sub'[c].seen = sub[c].seen, sentLast'[c] = sentLast[c],
             frames' = frames \/ frames' = frames + 1
      PROVE  Good(c)'
    <2>1. Queue(c)' = Queue(c)
        BY <1>f DEF Queue
    <2>2. Queue(c) \in Seq(Frames)
        BY <1>d DEF Queue
    <2>3. \A i \in 1..Len(Queue(c)) : Queue(c)[i].n \in Nat
        BY <2>2, FrameNumbers
    <2>4. Good(c)
        BY <1>a
    <2>5. \A i \in 1..Len(Queue(c)) : Queue(c)[i].n <= frames => Queue(c)[i].n <= frames'
        BY <1>b, <1>f, <2>3
    <2> QED  BY <1>f, <2>1, <2>4, <2>5 DEF Orderly
<1>1. CASE UNCHANGED streamVars
    BY <1>1, <1>e, <1>f DEF streamVars
<1>2. ASSUME NEW c \in Clients, NEW ts \in SUBSET EventTypes, NEW l \in Limits,
             Subscribe(c, ts, l)
      PROVE  QueueInv'
    <2>1. \A x \in Clients \ {c} : sub'[x] = sub[x]
        BY <1>2, <1>b DEF Subscribe
    <2>2. sub'[c].seen /\ sub'[c].buf = <<>>
        BY <1>2, <1>b DEF Subscribe
    <2>3. Queue(c) = <<>> /\ sentLast[c] = NoFrame
        BY <1>2, <1>a DEF Subscribe
    <2>4. received[c] = <<>>
        <3>1. Len(received[c] \o sub[c].buf) = Len(received[c]) + Len(sub[c].buf)
            BY <1>d
        <3>2. Len(received[c]) \in Nat /\ Len(sub[c].buf) \in Nat
            BY <1>d
        <3>3. Len(received[c]) = 0
            BY <2>3, <3>1, <3>2 DEF Queue
        <3> QED  BY <1>d, <3>3, EmptySeq
    <2>5. Queue(c)' = <<>> /\ sentLast'[c] = NoFrame
        BY <1>2, <2>2, <2>3, <2>4 DEF Queue, Subscribe
    <2>6. Good(c)'
        BY <2>2, <2>5 DEF Orderly
    <2>7. \A x \in Clients \ {c} : Good(x)'
        BY <1>2, <1>f, <2>1 DEF Subscribe
    <2> QED  BY <1>e, <2>6, <2>7
<1>3. ASSUME NEW c \in Clients, Unsubscribe(c) PROVE QueueInv'
    <2>1. \A x \in Clients : /\ sub'[x].buf = sub[x].buf /\ sub'[x].types = sub[x].types
                             /\ sub'[x].limit = sub[x].limit /\ sub'[x].seen = sub[x].seen
        BY <1>3, <1>b, <1>c DEF Unsubscribe
    <2> QED  BY <1>3, <1>e, <1>f, <2>1 DEF Unsubscribe
<1>4. ASSUME NEW c \in Clients, WriteFrame(c) PROVE QueueInv'
    <2>1. \A x \in Clients \ {c} : sub'[x] = sub[x] /\ received'[x] = received[x]
        BY <1>4, <1>b DEF WriteFrame
    <2>2. /\ received'[c] = Append(received[c], Head(sub[c].buf))
          /\ sub'[c].buf = Tail(sub[c].buf)
          /\ sub'[c].types = sub[c].types /\ sub'[c].limit = sub[c].limit
          /\ sub'[c].seen = sub[c].seen
        BY <1>4, <1>b, <1>c DEF WriteFrame
    <2>3. Queue(c)' = Queue(c)
        <3>1. sub[c].buf # <<>>
            BY <1>4 DEF WriteFrame
        <3>2. Append(received[c], Head(sub[c].buf)) \o Tail(sub[c].buf)
                = received[c] \o sub[c].buf
            BY <1>d, <3>1, WriteQueue
        <3> QED  BY <2>2, <3>2 DEF Queue
    <2>4. Good(c)'
        <3>1. Good(c)
            BY <1>a
        <3> QED  BY <1>4, <2>2, <2>3, <3>1 DEF WriteFrame
    <2>5. \A x \in Clients \ {c} : Good(x)'
        BY <1>4, <1>f, <2>1 DEF WriteFrame
    <2> QED  BY <1>e, <2>4, <2>5
<1>5. ASSUME NEW t \in EventTypes, CollectorTick(t) \/ CollectFails(t) PROVE QueueInv'
    BY <1>5, <1>e, <1>f DEF CollectorTick, CollectFails
<1>6. ASSUME NEW t \in EventTypes, Broadcast(t) PROVE QueueInv'
    <2> DEFINE frame(c) == [type |-> t, n |-> frames + 1, rows |-> RowsFor(c, t)]
    <2>1. sub' = [c \in Clients |-> IF c \in subs[t]
                    THEN [sub[c] EXCEPT !.buf = Push(@, frame(c))] ELSE sub[c]]
          /\ sentLast' = [c \in Clients |-> IF c \in subs[t] THEN frame(c) ELSE sentLast[c]]
          /\ frames' = frames + 1 /\ received' = received
        BY <1>6 DEF Broadcast
    <2>2. ASSUME NEW c \in Clients, c \in subs[t] PROVE Good(c)'
        <3>1. RowsFor(c, t) \in Nat /\ (t = "processes" => RowsFor(c, t) = Cut(sub[c].limit))
            BY <2>2, RowsAskedFor
        <3>2. frame(c) \in Frames
            BY <1>b, <3>1 DEF Frames
        <3>3. frame(c).n = frames + 1 /\ frame(c).type = t /\ frame(c).rows = RowsFor(c, t)
            OBVIOUS
        <3> HIDE DEF frame
        <3>4. t \in sub[c].types /\ sub[c].seen
            BY <2>2 DEF HubInv, NoSendOnClosed, OpenIsRegistered
        <3>5. Orderly(received[c] \o sub[c].buf, frames, sentLast[c], sub[c].types, sub[c].limit)
            BY <1>a DEF Queue
        <3>6. Orderly(received[c] \o Push(sub[c].buf, frame(c)), frames + 1, frame(c),
                      sub[c].types, sub[c].limit)
            BY <1>b, <1>d, <3>1, <3>2, <3>3, <3>4, <3>5, PushKeepsOrder
        <3>7. /\ sub'[c].buf = Push(sub[c].buf, frame(c)) /\ sub'[c].types = sub[c].types
              /\ sub'[c].limit = sub[c].limit /\ sub'[c].seen = sub[c].seen
              /\ sentLast'[c] = frame(c)
            BY <1>c, <2>1, <2>2
        <3>8. Queue(c)' = received[c] \o Push(sub[c].buf, frame(c))
            BY <2>1, <3>7 DEF Queue
        <3> QED  BY <2>1, <3>4, <3>6, <3>7, <3>8
    <2>3. ASSUME NEW c \in Clients, c \notin subs[t] PROVE Good(c)'
        BY <1>f, <2>1, <2>3
    <2> QED  BY <1>e, <2>2, <2>3
<1> QED  BY <1>1, <1>2, <1>3, <1>4, <1>5, <1>6 DEF StreamNext

\* The newest frame is never lost: whatever the clients, their limits and the
\* size of their buffers, a client gets its frames in order, each with the rows
\* it asked for, and the newest one pushed to it is written or still queued
\* (pushLocked drops the oldest frame of a full buffer).
THEOREM SlowClientGetsNewest == StreamSpec => []SlowClientKeepsNewest
<1>1. StreamInit => HubInv
    <2> SUFFICES ASSUME StreamInit PROVE QueueInv
        BY BucketsInit DEF HubInv
    <2>1. \A c \in Clients : /\ Queue(c) = <<>> /\ sentLast[c] = NoFrame
        BY DEF StreamInit, Queue, NewSub
    <2> QED  BY <2>1 DEF QueueInv
<1>2. StreamTypeOK /\ HubInv /\ [StreamNext]_streamVars => HubInv'
    BY BucketsStep, QueueStep DEF HubInv
<1>3. StreamTypeOK /\ HubInv => SlowClientKeepsNewest
    <2> SUFFICES ASSUME StreamTypeOK, QueueInv, NEW c \in Clients
                 PROVE  /\ \A i \in 1..(Len(Queue(c)) - 1) : Queue(c)[i].n < Queue(c)[i+1].n
                        /\ \A i \in DOMAIN Queue(c) :
                             /\ Queue(c)[i].type \in sub[c].types
                             /\ Queue(c)[i].type = "processes"
                                  => Queue(c)[i].rows = Cut(sub[c].limit)
                        /\ sentLast[c] # NoFrame => Last(Queue(c)) = sentLast[c]
        BY DEF HubInv, SlowClientKeepsNewest, Queue
    <2>1. Queue(c) \in Seq(Frames)
        BY DEF StreamTypeOK, Subscribers, Queue
    <2>2. DOMAIN Queue(c) = 1..Len(Queue(c)) /\ Len(Queue(c)) \in Nat
        BY <2>1
    <2>3. \A i \in 1..(Len(Queue(c)) - 1) :
             i \in 1..Len(Queue(c)) /\ i + 1 \in 1..Len(Queue(c)) /\ i < i + 1
        BY <2>2
    <2> QED  BY <2>2, <2>3 DEF QueueInv
<1> QED  BY <1>1, <1>2, <1>3, StreamTypes, PTL DEF StreamSpec

-----------------------------------------------------------------------------
(* Configuration files *)

\* Alarms of one kind watch one target: a fragment is matched by the alarm's
\* kind alone, and MigrationInvisible is false without this (README, section 5).
OneAlarmPerKind ==
    \A a, b \in Entries : a.kind = "alarms" /\ FileOf(a) = FileOf(b) => a.target = b.target

\* What was asked for is in the main file or in a fragment; an entry that a
\* fragment covers is never edited in the main file.
KeptSomewhere == wanted = main \cup {f.entry : f \in frags}

LoadInv ==
    /\ main \subseteq Entries
    /\ \A f \in frags : f.entry \in Entries /\ f.entry.kind \in FragmentKinds
    /\ KeptSomewhere

LEMMA LoadInvInit == LoadInit => LoadInv
BY ConfigLoadAssumption DEF LoadInit, LoadInv, KeptSomewhere

LEMMA LoadInvStep == LoadInv /\ [LoadNext]_loadVars => LoadInv'
<1> SUFFICES ASSUME LoadInv, [LoadNext]_loadVars PROVE LoadInv'
    OBVIOUS
<1> USE DEF LoadInv, KeptSomewhere
<1>1. ASSUME NEW e \in Entries, BeginFragment(e) PROVE LoadInv'
    <2> DEFINE new == [entry |-> e, whole |-> FALSE]
    <2>1. new.entry = e
        OBVIOUS
    <2>2. frags' = frags \cup {new} /\ main' = main /\ wanted' = wanted
          /\ e \in main /\ e.kind \in FragmentKinds
        BY <1>1 DEF BeginFragment
    <2> HIDE DEF new
    <2> QED  BY <2>1, <2>2
<1>2. ASSUME NEW e \in Entries, EditMain(e) PROVE LoadInv'
    <2>1. frags' = frags /\ \A f \in frags : f.entry # e
        BY <1>2 DEF EditMain, CoveredByFragment
    <2>2. CASE e \in main
        <3>1. main' = main \ {e} /\ wanted' = wanted \ {e}
            BY <1>2, <2>2 DEF EditMain
        <3> QED  BY <2>1, <3>1
    <2>3. CASE e \notin main
        <3>1. main' = main \cup {e} /\ wanted' = wanted \cup {e}
            BY <1>2, <2>3 DEF EditMain
        <3> QED  BY <2>1, <3>1
    <2> QED  BY <2>2, <2>3
<1>3. ASSUME NEW f \in frags, EndFragment(f) PROVE LoadInv'
    <2> DEFINE new == [f EXCEPT !.whole = TRUE]
    <2>1. new.entry = f.entry
        OBVIOUS
    <2>2. frags' = (frags \ {f}) \cup {new} /\ main' = main /\ wanted' = wanted
        BY <1>3 DEF EndFragment
    <2> HIDE DEF new
    <2>3. {g.entry : g \in frags'} = {g.entry : g \in frags}
        BY <2>1, <2>2
    <2> QED  BY <2>1, <2>2, <2>3
<1>4. ASSUME NEW f \in frags, RemoveInline(f) PROVE LoadInv'
    <2>1. frags' = frags /\ main' = main \ {f.entry} /\ wanted' = wanted
        BY <1>4 DEF RemoveInline
    <2> QED  BY <2>1
<1>5. CASE UNCHANGED <<main, frags, wanted>>
    BY <1>5
<1>6. ASSUME \/ ReloadConfig \/ RestartDaemon \/ UNCHANGED loadVars
             \/ \E s \in Tables : EditSettings(s)
             \/ \E what \in DOMAIN environment : HostChanges(what)
      PROVE  UNCHANGED <<main, frags, wanted>>
    BY <1>6 DEF ReloadConfig, RestartDaemon, EditSettings, HostChanges, loadVars
<1> QED  BY <1>1, <1>2, <1>3, <1>4, <1>5, <1>6 DEF LoadNext

FromFiles(k) == {[from |-> "file", entry |-> f.entry] : f \in {g \in frags : g.entry.kind = k}}

\* The entries a load finds: those of the fragments and the inline ones that no
\* fragment covers.
LEMMA LoadList ==
    ASSUME LoadInv
    PROVE  /\ \A i \in Load.list :
                \/ i.from = "file" /\ \E f \in frags : i = [from |-> "file", entry |-> f.entry]
                \/ /\ i.from = "main" /\ i = [from |-> "main", entry |-> i.entry]
                   /\ i.entry \in main
                   /\ i.entry.kind \in FragmentKinds => ~CoveredByFragment(i.entry)
           /\ \A f \in frags : [from |-> "file", entry |-> f.entry] \in Load.list
           /\ \A e \in main : e.kind \notin FragmentKinds \/ ~CoveredByFragment(e)
                => [from |-> "main", entry |-> e] \in Load.list
<1>1. Load.list = FromFiles("logAlerts") \cup FromFiles("actions") \cup FromFiles("alarms") \cup FromFiles("jobs")
                  \cup UNION {InlineOf(k) : k \in Kinds}
    <2>1. \A k : FragmentsOf(k).list = FromFiles(k)
        BY DEF FragmentsOf, FromFiles
    <2>2. Load.list = (UNION {l.list : l \in {FragmentsOf("logAlerts"), FragmentsOf("actions"),
                                             FragmentsOf("alarms"), FragmentsOf("jobs")}})
                      \cup UNION {InlineOf(k) : k \in Kinds}
        BY DEF Load, loadLogAlertFragments, loadActionFragments,
               loadAlarmFragments, loadJobFragments
    <2> QED  BY <2>1, <2>2
<1>2. \A f \in frags : f.entry.kind \in {"actions", "alarms", "jobs", "logAlerts"}
    BY DEF LoadInv, FragmentKinds
<1>3. \A e \in main : e.kind \in Kinds
    BY ConfigLoadAssumption DEF LoadInv
<1>4. \A f \in frags : [from |-> "file", entry |-> f.entry] \in Load.list
    BY <1>1, <1>2 DEF FromFiles
<1>5. ASSUME NEW e \in main, e.kind \notin FragmentKinds \/ ~CoveredByFragment(e)
      PROVE  [from |-> "main", entry |-> e] \in Load.list
    <2>1. [from |-> "main", entry |-> e] \in InlineOf(e.kind)
        BY <1>5 DEF InlineOf
    <2> QED  BY <1>1, <1>3, <2>1
<1>6. ASSUME NEW i \in Load.list, NEW k, i \in FromFiles(k)
      PROVE  i.from = "file" /\ \E f \in frags : i = [from |-> "file", entry |-> f.entry]
    BY <1>6 DEF FromFiles
<1>7. ASSUME NEW i \in Load.list, NEW k \in Kinds, i \in InlineOf(k)
      PROVE  /\ i.from = "main" /\ i = [from |-> "main", entry |-> i.entry]
             /\ i.entry \in main
             /\ i.entry.kind \in FragmentKinds => ~CoveredByFragment(i.entry)
    BY <1>7 DEF InlineOf
<1>8. ASSUME NEW i \in Load.list
      PROVE  (\E k : i \in FromFiles(k)) \/ (\E k \in Kinds : i \in InlineOf(k))
    BY <1>1
<1> QED  BY <1>4, <1>5, <1>6, <1>7, <1>8

\* Entries that share a fragment file clash.
LEMMA SameFileClashes ==
    ASSUME OneAlarmPerKind, NEW a \in Entries, NEW b \in Entries, FileOf(a) = FileOf(b)
    PROVE  Clash(a, b)
<1>1. a.kind = b.kind /\ a.name = b.name
    BY DEF FileOf
<1>2. a.target = b.target
    BY <1>1, ConfigLoadAssumption DEF OneAlarmPerKind
<1> QED  BY <1>1, <1>2 DEF Clash

LEMMA LoadInvMeansInvisible ==
    ASSUME OneAlarmPerKind, LoadInv PROVE MigrationInvisible
<1> SUFFICES ASSUME FilesReadable, ValidateSettings(settings)
             PROVE  /\ Sensible(wanted) => Accepted /\ Loaded = wanted
                    /\ Accepted => Sensible(Loaded) /\ Loaded \subseteq wanted
    BY DEF MigrationInvisible
<1> DEFINE L == Load.list
<1>1. Loaded = {i.entry : i \in L}
    BY DEF Loaded
<1>2. \A i \in L : i.entry \in wanted
    BY LoadList DEF LoadInv, KeptSomewhere
<1>3. wanted \subseteq Entries
    BY DEF LoadInv, KeptSomewhere
<1>4. \A e \in wanted : ListOf(e.kind) \in {"hooks", "logAlerts", "jobs", "alarms"}
    BY <1>3, ConfigLoadAssumption DEF ListOf, Kinds, FragmentKinds
<1>5. Load.ok
    <2>1. \A k : FragmentsOf(k).ok
        BY DEF FilesReadable, FragmentsOf, FragmentsParse
    <2> QED  BY <2>1 DEF Load, loadLogAlertFragments, loadActionFragments,
                         loadAlarmFragments, loadJobFragments
<1>6. ASSUME Sensible(wanted) PROVE Loaded = wanted
    <2>1. ASSUME NEW e \in main PROVE e \in Loaded
        <3>1. CASE ~CoveredByFragment(e)
            <4>1. [from |-> "main", entry |-> e] \in L
                BY <3>1, LoadList
            <4> QED  BY <4>1, <1>1
        <3>2. CASE CoveredByFragment(e)
            <4>1. PICK f \in frags : FileOf(f.entry) = FileOf(e)
                BY <3>2 DEF CoveredByFragment
            <4>2. Clash(f.entry, e) /\ f.entry \in wanted /\ e \in wanted
                BY <4>1, SameFileClashes DEF LoadInv, KeptSomewhere
            <4>3. e = f.entry
                BY <4>2, <1>6 DEF Sensible
            <4>4. [from |-> "file", entry |-> f.entry] \in L
                BY LoadList
            <4> QED  BY <4>3, <4>4, <1>1
        <3> QED  BY <3>1, <3>2
    <2>2. ASSUME NEW f \in frags PROVE f.entry \in Loaded
        <3>1. [from |-> "file", entry |-> f.entry] \in L
            BY LoadList
        <3> QED  BY <3>1, <1>1
    <2> QED  BY <1>1, <1>2, <2>1, <2>2 DEF LoadInv, KeptSomewhere
<1>7. ASSUME Sensible(wanted) PROVE ValidateDaemon(L)
    <2>1. \A i \in L : /\ i.entry.sound
                       /\ IsNativeOpName(i.entry.name) => ListOf(i.entry.kind) # "hooks"
                       /\ i.entry.target # "" => i.entry.name = "container_down"
        BY <1>2, <1>7 DEF Sensible
    <2>2. ASSUME NEW i \in L, NEW j \in L, i # j PROVE ~Clash(i.entry, j.entry)
        <3> SUFFICES ASSUME Clash(i.entry, j.entry) PROVE FALSE
            OBVIOUS
        <3>1. i.entry = j.entry
            BY <1>2, <1>7 DEF Sensible
        <3>2. ASSUME NEW x \in L, NEW y \in L, x.from = "file", y.from = "main", x.entry = y.entry
              PROVE  FALSE
            <4>1. PICK f \in frags : x = [from |-> "file", entry |-> f.entry]
                BY <3>2, LoadList
            <4>2. f.entry = y.entry
                BY <3>2, <4>1
            <4>3. y.entry.kind \in FragmentKinds /\ CoveredByFragment(y.entry)
                BY <4>2 DEF LoadInv, CoveredByFragment
            <4> QED  BY <3>2, <4>3, LoadList
        <3>3. /\ i.from = "file" => i = [from |-> "file", entry |-> i.entry]
              /\ i.from # "file" => i = [from |-> "main", entry |-> i.entry] /\ i.from = "main"
            BY LoadList
        <3>4. /\ j.from = "file" => j = [from |-> "file", entry |-> j.entry]
              /\ j.from # "file" => j = [from |-> "main", entry |-> j.entry] /\ j.from = "main"
            BY LoadList
        <3>5. CASE i.from = "file" /\ j.from = "main"
            BY <3>1, <3>2, <3>5
        <3>6. CASE i.from = "main" /\ j.from = "file"
            BY <3>1, <3>2, <3>6
        <3>7. CASE i.from = "file" /\ j.from = "file"
            BY <3>1, <3>3, <3>4, <3>7, <2>2
        <3>8. CASE i.from # "file" /\ j.from # "file"
            BY <3>1, <3>3, <3>4, <3>8, <2>2
        <3> QED  BY <3>3, <3>4, <3>5, <3>6, <3>7, <3>8
    <2> HIDE DEF L
    <2>3. \A kinds : Sound(L, kinds) /\ Unique(L, kinds)
        BY <2>1, <2>2 DEF Sound, Unique
    <2> QED  BY <2>1, <2>3 DEF ValidateDaemon, ValidateHooks, ValidateLogAlerts, ValidateJobs,
                              ValidateAlarms
<1>8. ASSUME ValidateDaemon(L) PROVE Sensible(Loaded)
    <2> HIDE DEF L
    <2>0. \A i \in L : ListOf(i.entry.kind) \in {"hooks", "logAlerts", "jobs", "alarms"}
        BY <1>2, <1>4
    <2>1. \A k \in {"hooks", "logAlerts", "jobs", "alarms"} : Sound(L, {k}) /\ Unique(L, {k})
        BY <1>8 DEF ValidateDaemon, ValidateHooks, ValidateLogAlerts, ValidateJobs, ValidateAlarms
    <2>2. \A i \in L : i.entry.sound
        BY <2>0, <2>1 DEF Sound
    <2>3. \A i, j \in L : i.entry # j.entry => ~Clash(i.entry, j.entry)
        <3> SUFFICES ASSUME NEW i \in L, NEW j \in L, i.entry # j.entry, Clash(i.entry, j.entry)
                     PROVE  FALSE
            OBVIOUS
        <3>1. i # j /\ ListOf(i.entry.kind) = ListOf(j.entry.kind)
            BY DEF Clash
        <3>2. Unique(L, {ListOf(i.entry.kind)})
            BY <2>0, <2>1
        <3> QED  BY <3>1, <3>2 DEF Unique
    <2>4. \A i \in L : /\ IsNativeOpName(i.entry.name) => ListOf(i.entry.kind) # "hooks"
                       /\ i.entry.target # "" => i.entry.name = "container_down"
        BY <1>8 DEF ValidateDaemon, ValidateHooks, ValidateAlarms
    <2>5. \A e \in Loaded : \E i \in L : e = i.entry
        BY <1>1
    <2>6. \A e \in Loaded : /\ e.sound
                            /\ IsNativeOpName(e.name) => ListOf(e.kind) # "hooks"
                            /\ e.target # "" => e.name = "container_down"
        BY <2>2, <2>4, <2>5
    <2>7. \A a, b \in Loaded : a # b => ~Clash(a, b)
        BY <2>3, <2>5
    <2> QED  BY <2>6, <2>7 DEF Sensible
<1> QED  BY <1>1, <1>2, <1>5, <1>6, <1>7, <1>8 DEF Accepted

\* A reload or a restart at any moment of a migration, whatever the operator
\* edits and the host does meanwhile, makes the configuration that was asked
\* for out of any entries, main files and tables (config.Load, ValidateDaemon).
THEOREM MigrationIsInvisible ==
    OneAlarmPerKind => (LoadSpec => []MigrationInvisible)
<1> SUFFICES ASSUME OneAlarmPerKind PROVE LoadSpec => []MigrationInvisible
    OBVIOUS
<1>1. LoadInv => MigrationInvisible
    BY LoadInvMeansInvisible
<1> QED  BY <1>1, LoadInvInit, LoadInvStep, PTL DEF LoadSpec

-----------------------------------------------------------------------------
(* Native host operations *)

\* No client asks for the firewall's own unit: what systemd may do to it is not
\* the firewall grant's to say.
FirewallUnitLeftAlone ==
    \A c \in OpClients : \A req \in Work[c] : req.family = "systemd" => req.name # FirewallUnit

Spared(unit) == FirewallUnitLeftAlone => unit # FirewallUnit

\* What a command may do, by the family it belongs to: everything if the family
\* is not routed to the helper, what is granted if it is.
FirewallCmdOK(cmd) ==
    LET verbs == GrantsInForce.firewall.verbs IN
    /\ \/ cmd.tool = "ufw" /\ cmd.do \in {"add", "remove", "enable", "disable"}
       \/ cmd.tool = "firewall-cmd" /\ cmd.do \in {"add", "remove", "reload"}
       \/ cmd.tool = "systemctl" /\ cmd.arg = FirewallUnit /\ cmd.do \in {"start", "stop"}
    /\ Routed("firewall") => /\ cmd.do = "add" => cmd.arg.target \in verbs
                             /\ cmd.do \in {"disable", "stop"} => "disable" \in verbs

PackageCmdOK(cmd) ==
    /\ cmd.tool \notin {"ufw", "firewall-cmd", "systemctl"}
    /\ Routed("packages") /\ cmd.do \in {"install", "remove"} =>
          cmd.do \in GrantsInForce.packages.verbs

UnitCmdOK(cmd) ==
    /\ cmd.tool = "systemctl" /\ Spared(cmd.arg) /\ cmd.do \in SystemdVerbs
    /\ Routed("systemd") => cmd.arg \in DOMAIN GrantsInForce.units

CmdOK(cmd) == FirewallCmdOK(cmd) \/ PackageCmdOK(cmd) \/ UnitCmdOK(cmd)

CommandsOK(cmds) ==
    cmds # <<>> /\ cmds \in Seq(Range(cmds)) /\ \A cmd \in Range(cmds) : CmdOK(cmd)

\* What an attempt of the daemon's own runs is within bounds; what the helper is
\* told to run it bounds itself.
AttemptOK(a) ==
    IF a.via = "helper" THEN a.argv[1] = "systemd" => Spared(a.argv[3])
    ELSE CmdOK(a.command)

AttemptsOK(tries) ==
    /\ tries # <<>> /\ tries \in Seq(Range(tries))
    /\ \A i \in 1..Len(tries) : AttemptOK(tries[i])
    /\ tries[1].via = "helper" => Len(tries) = 1

-----------------------------------------------------------------------------
(* The commands *)

LEMMA SeqOfOwnRange ==
    ASSUME NEW S, NEW s \in Seq(S)
    PROVE  s \in Seq(Range(s)) /\ Range(s) \subseteq S /\ \A i \in 1..Len(s) : s[i] \in Range(s)
<1>1. DOMAIN s = 1..Len(s) /\ Len(s) \in Nat /\ s \in [1..Len(s) -> S]
    BY LenProperties
<1>2. \A i \in 1..Len(s) : s[i] \in Range(s)
    BY <1>1 DEF Range
<1>3. s \in [1..Len(s) -> Range(s)]
    BY <1>1, <1>2
<1>4. s \in Seq(Range(s))
    BY <1>1, <1>3, SeqDef
<1> QED  BY <1>1, <1>2, <1>4 DEF Range

LEMMA AllCommandsOK ==
    ASSUME NEW S, NEW s \in Seq(S), s # <<>>, \A cmd \in S : CmdOK(cmd) PROVE CommandsOK(s)
<1>1. s \in Seq(Range(s)) /\ Range(s) \subseteq S
    BY SeqOfOwnRange
<1> QED  BY <1>1 DEF CommandsOK

LEMMA OneCommandOK ==
    ASSUME NEW cmd, CmdOK(cmd) PROVE CommandsOK(<<cmd>>)
<1> DEFINE S == {cmd}
           s == <<cmd>>
<1>1. s \in Seq(S) /\ s # <<>> /\ \A x \in S : CmdOK(x)
    OBVIOUS
<1> HIDE DEF S, s
<1>2. CommandsOK(s)
    BY <1>1, AllCommandsOK
<1> QED  BY <1>2 DEF s

LEMMA PackageCommandOK ==
    ASSUME NEW manager \in Range(PackageManagerPreference), NEW verb, NEW name,
           PackageCommand(manager, verb, name).ok,
           Routed("packages") => verb \in GrantsInForce.packages.verbs
    PROVE  CommandsOK(PackageCommand(manager, verb, name).commands)
<1> DEFINE cmd == Cmd(ManagerBinary(manager, verb), verb, name)
<1>1. PackageCommand(manager, verb, name).commands = <<cmd>>
    BY DEF PackageCommand, Refused
<1>2. manager \in {"apt", "dnf", "yum", "pacman", "zypper", "apk", "xbps"}
    BY DEF Range, PackageManagerPreference
<1>3. ManagerBinary(manager, verb) \notin {"ufw", "firewall-cmd", "systemctl"}
    BY <1>2 DEF ManagerBinary
<1>4. CmdOK(cmd)
    BY <1>3 DEF Cmd, CmdOK, PackageCmdOK
<1> HIDE DEF cmd
<1> QED  BY <1>1, <1>4, OneCommandOK

\* A rule's command is within bounds: what it adds is what its verb says.
LEMMA RuleCommandOK ==
    ASSUME NEW tool \in {"ufw", "firewall-cmd"}, NEW verb \in RuleVerbs, NEW r,
           verb \in {"allow", "deny"} => r.action = verb,
           Routed("firewall") => verb \in GrantsInForce.firewall.verbs,
           NEW shape, NEW family
    PROVE  CmdOK(Cmd(tool, Edit(verb), Item(shape, family, r)))
<1> DEFINE edit == Edit(verb)
           item == Item(shape, family, r)
           cmd == Cmd(tool, edit, item)
<1>1. item.target = r.action
    BY DEF Item
<1>2. edit \in {"add", "remove"} /\ (edit = "add" => r.action = verb)
    BY DEF RuleVerbs, Edit
<1> HIDE DEF edit, item
<1>3. cmd.tool = tool /\ cmd.do = edit /\ cmd.arg = item
    BY DEF Cmd
<1> HIDE DEF cmd
<1>4. FirewallCmdOK(cmd)
    BY <1>1, <1>2, <1>3 DEF FirewallCmdOK
<1> QED  BY <1>4 DEF CmdOK, cmd, edit, item

LEMMA FirewallCommandOK ==
    ASSUME NEW backend \in Range(FirewallBackendPreference), NEW verb \in FirewallVerbs, NEW r,
           FirewallCommand(backend, verb, r).ok,
           verb \in {"allow", "deny"} => r.action = verb,
           Routed("firewall") => verb \in GrantsInForce.firewall.verbs
    PROVE  CommandsOK(FirewallCommand(backend, verb, r).commands)
<1>1. backend \in {"ufw", "firewalld"}
    BY DEF Range, FirewallBackendPreference
<1>2. CASE verb \notin RuleVerbs
    <2>1. verb \in {"enable", "disable"}
        BY <1>2 DEF FirewallVerbs, RuleVerbs
    <2>2. CASE backend = "ufw"
        <3>1. FirewallCommand(backend, verb, r).commands = <<Cmd("ufw", verb, "")>>
            BY <1>2, <2>2 DEF FirewallCommand, ToggleCommands
        <3>2. CmdOK(Cmd("ufw", verb, ""))
            BY <2>1 DEF Cmd, CmdOK, FirewallCmdOK
        <3> QED  BY <3>1, <3>2, OneCommandOK
    <2>3. CASE backend = "firewalld"
        <3> DEFINE do == IF verb = "enable" THEN "start" ELSE "stop"
        <3>1. FirewallCommand(backend, verb, r).commands = <<Cmd("systemctl", do, FirewallUnit)>>
            BY <1>2, <2>3 DEF FirewallCommand, ToggleCommands
        <3>2. CmdOK(Cmd("systemctl", do, FirewallUnit))
            BY <2>1 DEF Cmd, CmdOK, FirewallCmdOK
        <3> HIDE DEF do
        <3> QED  BY <3>1, <3>2, OneCommandOK
    <2> QED  BY <1>1, <2>2, <2>3
<1>3. CASE verb \in RuleVerbs
    <2> DEFINE edit == Edit(verb)
               C(tool, shape, family) == Cmd(tool, edit, Item(shape, family, r))
    <2>1. FirewallCommand(backend, verb, r) = RuleCommands(backend, verb, r)
        BY <1>3 DEF FirewallCommand
    <2>2. \A tool \in {"ufw", "firewall-cmd"} : \A shape, family : CmdOK(C(tool, shape, family))
        BY <1>3, RuleCommandOK
    <2>3. CASE backend = "ufw"
        <3>1. RuleCommands(backend, verb, r).commands = <<C("ufw", "ufw", "both")>>
            BY <2>3 DEF RuleCommands
        <3> HIDE DEF C
        <3> QED  BY <2>1, <2>2, <3>1, OneCommandOK
    <2>4. CASE backend = "firewalld"
        <3> DEFINE items == FirewalldItems(r)
                   cmds  == [i \in DOMAIN items |-> Cmd("firewall-cmd", edit, items[i])]
                   reload == Cmd("firewall-cmd", "reload", "")
        <3>0. RuleCommands(backend, verb, r).ok
            BY <2>1
        <3>1. RuleCommands(backend, verb, r).commands = Append(cmds, reload)
            <4>1. r.protocol # "any"
                BY <2>4, <3>0 DEF RuleCommands, Refused
            <4> QED  BY <2>4, <4>1 DEF RuleCommands
        <3>2. \/ items = <<Item("port", "both", r)>>
              \/ items = <<Item("rich", FamilyOf(r.source), r)>>
              \/ items = <<Item("rich", "ipv4", r), Item("rich", "ipv6", r)>>
            BY DEF FirewalldItems, RichRules
        <3> HIDE DEF items
        <3> DEFINE S == {C("firewall-cmd", "port", "both"), C("firewall-cmd", "rich", FamilyOf(r.source)),
                         C("firewall-cmd", "rich", "ipv4"), C("firewall-cmd", "rich", "ipv6")}
        <3>3. cmds \in Seq(S)
            <4>1. CASE items = <<Item("port", "both", r)>>
                <5>1. cmds = <<C("firewall-cmd", "port", "both")>>
                    BY <4>1
                <5> HIDE DEF C, cmds
                <5> QED  BY <5>1
            <4>2. CASE items = <<Item("rich", FamilyOf(r.source), r)>>
                <5>1. cmds = <<C("firewall-cmd", "rich", FamilyOf(r.source))>>
                    BY <4>2
                <5> HIDE DEF C, cmds
                <5> QED  BY <5>1
            <4>3. CASE items = <<Item("rich", "ipv4", r), Item("rich", "ipv6", r)>>
                <5>1. cmds = <<C("firewall-cmd", "rich", "ipv4"), C("firewall-cmd", "rich", "ipv6")>>
                    BY <4>3
                <5> HIDE DEF C, cmds
                <5> QED  BY <5>1
            <4> QED  BY <3>2, <4>1, <4>2, <4>3
        <3>4. CmdOK(reload)
            BY DEF Cmd, CmdOK, FirewallCmdOK
        <3>5. \A cmd \in S : CmdOK(cmd)
            <4> HIDE DEF C
            <4> QED  BY <2>2
        <3> HIDE DEF cmds, reload, S
        <3>6. Append(cmds, reload) \in Seq(S \cup {reload}) /\ Append(cmds, reload) # <<>>
            <4> DEFINE T == S \cup {reload}
            <4>1. cmds \in Seq(T) /\ reload \in T
                BY <3>3, SeqMonotonic
            <4> HIDE DEF T
            <4>2. Append(cmds, reload) \in Seq(T) /\ Len(Append(cmds, reload)) = Len(cmds) + 1
                BY <4>1
            <4>3. Append(cmds, reload) # <<>>
                BY <4>1, <4>2, LenProperties, EmptySeq
            <4> QED  BY <4>2, <4>3 DEF T
        <3>7. CommandsOK(Append(cmds, reload))
            BY <3>4, <3>5, <3>6, AllCommandsOK
        <3> QED  BY <2>1, <3>1, <3>7
    <2> QED  BY <1>1, <2>3, <2>4
<1> QED  BY <1>2, <1>3

-----------------------------------------------------------------------------
(* The helper *)

LEMMA HelperAnswer ==
    ASSUME NEW argv, HelperRun(argv).exit = ExitOK
    PROVE  /\ ArgvOK(argv) /\ LoadSet(machine.grants) /\ GrantsInForce = machine.grants
           /\ GrantedCommands(argv, machine.grants).ok
           /\ HelperRun(argv).commands = GrantedCommands(argv, machine.grants).commands
BY DEF HelperRun, Answer, ExitOK, ExitUsage, ExitNotRoot, ExitConfigBad, ExitRefused, GrantsInForce

\* Whatever the daemon asks of it, the helper runs what the grant file grants.
LEMMA HelperRunsGranted ==
    ASSUME NEW argv, argv[1] = "systemd" => Spared(argv[3]), HelperRun(argv).exit = ExitOK
    PROVE  CommandsOK(HelperRun(argv).commands)
<1> DEFINE g == machine.grants
           verb == argv[2]
           granted == GrantedCommands(argv, g)
<1>1. ArgvOK(argv) /\ LoadSet(g) /\ GrantsInForce = g /\ granted.ok
      /\ HelperRun(argv).commands = granted.commands
    BY HelperAnswer
<1>2. CASE argv[1] = "systemd"
    <2>1. verb \in SystemdVerbs
        BY <1>1, <1>2 DEF ArgvOK
    <2>2. argv[3] \in DOMAIN g.units /\ granted.commands = <<Cmd("systemctl", verb, argv[3])>>
        BY <1>1, <1>2 DEF GrantedCommands, Refused
    <2>3. CmdOK(Cmd("systemctl", verb, argv[3]))
        BY <1>1, <1>2, <2>1, <2>2 DEF Cmd, CmdOK, UnitCmdOK
    <2> QED  BY <1>1, <2>2, <2>3, OneCommandOK
<1>3. CASE argv[1] = "packages"
    <2> DEFINE manager == g.packages.manager
               name == IF Len(argv) = 3 THEN argv[3] ELSE ""
    <2>1. manager # "none" /\ verb \in g.packages.verbs /\ granted = PackageCommand(manager, verb, name)
        BY <1>1, <1>3 DEF GrantedCommands, Refused
    <2>2. manager \in Range(PackageManagerPreference)
        BY <1>1, <2>1 DEF LoadSet, PackageGrantOK
    <2> HIDE DEF manager, name, granted, verb, g
    <2>3. CommandsOK(PackageCommand(manager, verb, name).commands)
        BY <1>1, <2>1, <2>2, PackageCommandOK
    <2> QED  BY <1>1, <2>1, <2>3
<1>4. CASE argv[1] \notin {"systemd", "packages"}
    <2> DEFINE backend == g.firewall.backend
               at == IF verb = "delete" THEN 3 ELSE 2
               parsed == IF verb \in RuleVerbs
                         THEN ParseFirewallRule(argv[at], [port |-> argv[at + 1],
                                 protocol |-> argv[at + 2], source |-> argv[at + 3]])
                         ELSE [ok |-> TRUE, rule |-> ""]
               r == parsed.rule
    <2>1. verb \in FirewallVerbs
        BY <1>1, <1>4 DEF ArgvOK
    <2>2. backend # "none" /\ verb \in g.firewall.verbs /\ granted = FirewallCommand(backend, verb, r)
        BY <1>1, <1>4 DEF GrantedCommands, Refused
    <2>3. backend \in Range(FirewallBackendPreference)
        BY <1>1, <2>2 DEF LoadSet, FirewallGrantOK
    <2>4. verb \in {"allow", "deny"} => r.action = verb
        BY DEF ParseFirewallRule, RuleVerbs
    <2> HIDE DEF backend, at, parsed, r, granted, verb, g
    <2>5. CommandsOK(FirewallCommand(backend, verb, r).commands)
        BY <1>1, <2>1, <2>2, <2>3, <2>4, FirewallCommandOK
    <2> QED  BY <1>1, <2>2, <2>5
<1> QED  BY <1>2, <1>3, <1>4

-----------------------------------------------------------------------------
(* The plan *)

LEMMA DirectAttemptsOK ==
    ASSUME NEW cmds, CommandsOK(cmds) PROVE AttemptsOK(DirectThenSudo(cmds))
<1> DEFINE S == Range(cmds)
           T == {Direct(via, cmd) : via \in {"direct", "sudo"}, cmd \in S}
           tries == DirectThenSudo(cmds)
           n == IF "sudo" \in machine.tools THEN 2 * Len(cmds) ELSE Len(cmds)
<1>1. cmds \in Seq(S) /\ Len(cmds) \in Nat /\ Len(cmds) > 0
    BY LenProperties, EmptySeq DEF CommandsOK
<1>2. \A i \in 1..Len(cmds) : cmds[i] \in S
    BY <1>1, SeqOfOwnRange
<1>3. \A cmd \in S : CmdOK(cmd)
    BY DEF CommandsOK
<1> HIDE DEF S
<1>4. \A i \in 1..(2 * Len(cmds)) : (i + 1) \div 2 \in 1..Len(cmds)
    BY <1>1
<1>5. tries \in [1..n -> T]
    BY <1>1, <1>2, <1>4 DEF DirectThenSudo
<1>6. n \in Nat /\ n > 0
    BY <1>1
<1>7. \A a \in T : AttemptOK(a) /\ a.via # "helper"
    BY <1>3 DEF AttemptOK, Direct
<1> HIDE DEF T, tries, n
<1>8. tries \in Seq(T) /\ Len(tries) = n
    <2>1. tries \in Seq(T)
        BY <1>5, <1>6, SeqDef
    <2>2. DOMAIN tries = 1..n /\ DOMAIN tries = 1..Len(tries) /\ Len(tries) \in Nat
        BY <1>5, <2>1, LenProperties
    <2>3. 1..n = 1..Len(tries)
        BY <2>2
    <2>4. n \in 1..n /\ n + 1 \notin 1..n
        BY <1>6
    <2>5. n \in 1..Len(tries) /\ n + 1 \notin 1..Len(tries)
        BY <2>3, <2>4
    <2> QED  BY <1>6, <2>1, <2>2, <2>5
<1>9. tries # <<>> /\ tries \in Seq(Range(tries)) /\ \A i \in 1..Len(tries) : tries[i] \in T
    <2>0. Len(tries) # 0
        BY <1>6, <1>8
    <2>1. tries # <<>>
        BY <2>0
    <2>2. tries \in Seq(Range(tries))
        BY <1>8, SeqOfOwnRange
    <2>3. \A i \in 1..Len(tries) : tries[i] \in T
        BY <1>5, <1>8
    <2> QED  BY <2>1, <2>2, <2>3
<1>10. AttemptsOK(tries)
    <2>1. 1 \in 1..Len(tries)
        BY <1>6, <1>8
    <2>2. tries[1].via # "helper"
        BY <1>7, <1>9, <2>1
    <2>3. \A i \in 1..Len(tries) : AttemptOK(tries[i])
        BY <1>7, <1>9
    <2> QED  BY <1>9, <2>2, <2>3 DEF AttemptsOK
<1> QED  BY <1>10 DEF tries

LEMMA HelperAttemptOK ==
    ASSUME NEW argv, argv[1] = "systemd" => Spared(argv[3])
    PROVE  Plan(<<Helper(argv)>>).attempts = <<Helper(argv)>> /\ AttemptsOK(<<Helper(argv)>>)
<1> DEFINE a == Helper(argv)
           tries == <<a>>
           S == {a}
<1>1. Plan(tries).attempts = tries
    BY DEF Plan
<1>2. AttemptOK(a)
    BY DEF AttemptOK, Helper
<1> HIDE DEF a
<1>3. tries \in Seq(S) /\ tries # <<>> /\ Len(tries) = 1 /\ \A i \in 1..Len(tries) : tries[i] = a
    OBVIOUS
<1> HIDE DEF tries, S
<1>4. tries \in Seq(Range(tries))
    BY <1>3, SeqOfOwnRange
<1>5. AttemptsOK(tries)
    BY <1>2, <1>3, <1>4 DEF AttemptsOK
<1> QED  BY <1>1, <1>5 DEF tries, a

\* A non-empty set of natural numbers has a least element.
LEMMA LeastNat ==
    ASSUME NEW T \in SUBSET Nat, T # {}
    PROVE  \E m \in T : \A k \in T : m <= k
<1>1. PICK m \in T : \A k \in T : ~(<<k, m>> \in OpToRel(<, Nat))
    BY WFMin, NatLessThanWellFounded
<1>2. \A k \in T : ~(k < m)
    BY <1>1 DEF OpToRel
<1> QED  BY <1>2

LEMMA DetectedInRange ==
    ASSUME NEW S, NEW preference \in Seq(S), NEW binary, Detect(preference, binary) # "none"
    PROVE  Detect(preference, binary) \in Range(preference)
<1> DEFINE here == {i \in DOMAIN preference : binary[preference[i]] \in machine.tools}
           P(i) == i \in here
<1>1. here # {} /\ Detect(preference, binary) = preference[Min(here)]
    BY DEF Detect
<1>2. here \subseteq DOMAIN preference /\ DOMAIN preference = 1..Len(preference) /\ Len(preference) \in Nat
    BY LenProperties
<1> HIDE DEF here
<1>3. PICK m \in here : \A i \in here : m <= i
    BY <1>1, <1>2, LeastNat
<1>4. Min(here) \in here
    BY <1>3 DEF Min
<1> QED  BY <1>1, <1>2, <1>4 DEF Range

LEMMA PreferencesAreSequences ==
    \E S : PackageManagerPreference \in Seq(S) /\ FirewallBackendPreference \in Seq(S)
<1> DEFINE S == {"apt", "dnf", "yum", "pacman", "zypper", "apk", "xbps", "ufw", "firewalld"}
<1>1. PackageManagerPreference \in Seq(S)
    BY DEF PackageManagerPreference
<1>2. FirewallBackendPreference \in Seq(S)
    BY DEF FirewallBackendPreference
<1> QED  BY <1>1, <1>2

\* An attempt the daemon makes itself belongs to a family that is not routed to
\* the helper.
LEMMA PlanOK ==
    ASSUME NEW req, req.family = "systemd" => Spared(req.name), PlanNativeOp(req).ok
    PROVE  AttemptsOK(PlanNativeOp(req).attempts)
<1>0. PICK S : PackageManagerPreference \in Seq(S) /\ FirewallBackendPreference \in Seq(S)
    BY PreferencesAreSequences
<1>1. CASE req.family = "systemd"
    <2> DEFINE cmd == Cmd("systemctl", req.verb, req.name)
               argv == <<"systemd", req.verb, req.name>>
    <2>1. PlanNativeOp(req) = PlanSystemd(req)
        BY <1>1 DEF PlanNativeOp
    <2>0. PlanSystemd(req) # NoPlan
        BY <2>1 DEF NoPlan
    <2>2. req.verb \in SystemdVerbs /\ Spared(req.name)
        <3>1. req.verb \notin SystemdVerbs => PlanSystemd(req) = NoPlan
            BY DEF PlanSystemd
        <3> QED  BY <1>1, <2>0, <3>1
    <2>3. CASE Routed("systemd")
        <3>1. PlanSystemd(req) = Plan(<<Helper(argv)>>)
            BY <2>0, <2>3 DEF PlanSystemd
        <3>2. Spared(argv[3])
            BY <2>2
        <3> HIDE DEF argv
        <3> QED  BY <2>1, <3>1, <3>2, HelperAttemptOK
    <2>4. CASE ~Routed("systemd")
        <3>1. PlanSystemd(req) = Plan(DirectThenSudo(<<cmd>>))
            BY <2>0, <2>4 DEF PlanSystemd
        <3>2. CmdOK(cmd)
            BY <2>2, <2>4 DEF CmdOK, UnitCmdOK, Cmd
        <3> HIDE DEF cmd
        <3>3. AttemptsOK(DirectThenSudo(<<cmd>>))
            BY <3>2, OneCommandOK, DirectAttemptsOK
        <3> QED  BY <2>1, <3>1, <3>3 DEF Plan
    <2> QED  BY <2>3, <2>4
<1>2. CASE req.family = "packages"
    <2> DEFINE manager == Detect(PackageManagerPreference, RefreshBinary)
               direct  == PackageCommand(manager, req.verb, req.name)
               operand == IF req.name = "" THEN <<>> ELSE <<req.name>>
               argv == PackageArgv(req.verb, req.name)
    <2>1. PlanNativeOp(req) = PlanPackage(req)
        BY <1>2 DEF PlanNativeOp
    <2>0. PlanPackage(req) # NoPlan
        BY <2>1 DEF NoPlan
    <2>2. CASE Routed("packages")
        <3>1. PlanPackage(req) = Plan(<<Helper(argv)>>)
            BY <2>0, <2>2 DEF PlanPackage
        <3>2. argv[1] = "packages"
            <4>1. operand = <<>> \/ operand = <<req.name>>
                OBVIOUS
            <4>2. argv = <<"packages", req.verb>> \o operand
                BY DEF PackageArgv
            <4> HIDE DEF operand
            <4> QED  BY <4>1, <4>2
        <3> HIDE DEF argv
        <3> QED  BY <2>1, <3>1, <3>2, HelperAttemptOK
    <2>3. CASE ~Routed("packages")
        <3>1. /\ PackageCommand("apt", req.verb, req.name).ok /\ manager # "none"
              /\ PlanPackage(req) = Plan(DirectThenSudo(direct.commands))
            BY <2>0, <2>3 DEF PlanPackage
        <3>2. manager \in Range(PackageManagerPreference)
            BY <1>0, <3>1, DetectedInRange
        <3> HIDE DEF manager
        <3>3. direct.ok
            BY <3>1 DEF PackageCommand, Refused
        <3>4. CommandsOK(direct.commands)
            BY <2>3, <3>2, <3>3, PackageCommandOK
        <3> HIDE DEF direct
        <3>5. AttemptsOK(DirectThenSudo(direct.commands))
            BY <3>4, DirectAttemptsOK
        <3> QED  BY <2>1, <3>1, <3>5 DEF Plan
    <2> QED  BY <2>2, <2>3
<1>3. CASE req.family \notin {"systemd", "packages"}
    <2> DEFINE rules   == req.verb \in RuleVerbs
               action  == IF req.verb = "delete" THEN req.rule.action ELSE req.verb
               parsed  == IF rules THEN ParseFirewallRule(action, req.rule)
                          ELSE [ok |-> TRUE, rule |-> ""]
               r       == parsed.rule
               second  == IF req.verb = "delete" THEN <<r.action>> ELSE <<>>
               third   == IF rules THEN <<r.port, r.protocol, r.source>> ELSE <<>>
               argv    == FirewallArgv(req.verb, r)
               backend == Detect(FirewallBackendPreference, BackendBinary)
               direct  == FirewallCommand(backend, req.verb, r)
    <2>1. PlanNativeOp(req) = PlanFirewall(req)
        BY <1>3 DEF PlanNativeOp
    <2>0. PlanFirewall(req) # NoPlan
        BY <2>1 DEF NoPlan
    <2>2. CASE Routed("firewall")
        <3>1. PlanFirewall(req) = Plan(<<Helper(argv)>>)
            BY <2>0, <2>2 DEF PlanFirewall
        <3>2. argv[1] = "firewall"
            <4>2. \/ second = <<>> /\ third = <<>>
                  \/ second = <<r.action>> /\ third = <<>>
                  \/ second = <<>> /\ third = <<r.port, r.protocol, r.source>>
                  \/ second = <<r.action>> /\ third = <<r.port, r.protocol, r.source>>
                OBVIOUS
            <4>3. argv = <<"firewall", req.verb>> \o second \o third
                BY DEF FirewallArgv
            <4> HIDE DEF second, third, r
            <4> QED  BY <4>2, <4>3
        <3> HIDE DEF argv
        <3> QED  BY <2>1, <3>1, <3>2, HelperAttemptOK
    <2>3. CASE ~Routed("firewall")
        <3>1. /\ req.verb \in FirewallVerbs /\ backend # "none" /\ direct.ok
              /\ PlanFirewall(req) = Plan(DirectThenSudo(direct.commands))
            BY <2>0, <2>3 DEF PlanFirewall
        <3>2. backend \in Range(FirewallBackendPreference)
            BY <1>0, <3>1, DetectedInRange
        <3>3. req.verb \in {"allow", "deny"} => r.action = req.verb
            BY DEF ParseFirewallRule, RuleVerbs
        <3> HIDE DEF backend, r
        <3>4. CommandsOK(direct.commands)
            BY <2>3, <3>1, <3>2, <3>3, FirewallCommandOK
        <3> HIDE DEF direct
        <3>5. AttemptsOK(DirectThenSudo(direct.commands))
            BY <3>4, DirectAttemptsOK
        <3> QED  BY <2>1, <3>1, <3>5 DEF Plan
    <2> QED  BY <2>2, <2>3
<1> QED  BY <1>1, <1>2, <1>3

-----------------------------------------------------------------------------
(* The host *)

HostShape(h) ==
    /\ h = [on |-> h.on, permanent |-> h.permanent, running |-> h.running,
            installed |-> h.installed, active |-> h.active]
    /\ h.on \in BOOLEAN

FirewallAllowed(h) ==
    Routed("firewall") =>
        /\ \A i \in h.running \cup h.permanent : i.target \in GrantsInForce.firewall.verbs
        /\ ~h.on => "disable" \in GrantsInForce.firewall.verbs

PackagesAllowed(h) ==
    Routed("packages") =>
        /\ h.installed # {"old"} => {"install", "remove"} \cap GrantsInForce.packages.verbs # {}
        /\ "old" \notin h.installed => "remove" \in GrantsInForce.packages.verbs

UnitsAllowed(h) == Routed("systemd") => h.active \subseteq DOMAIN GrantsInForce.units

HostAllowed(h) == FirewallAllowed(h) /\ PackagesAllowed(h) /\ UnitsAllowed(h)

\* The host is within bounds if no client asks for the firewall's unit.
HostOK(h) == HostShape(h) /\ (FirewallUnitLeftAlone => HostAllowed(h))

LEMMA ApplyShape ==
    ASSUME NEW h, HostShape(h), NEW cmd, CmdOK(cmd) PROVE HostShape(Apply(h, cmd))
<1> DEFINE new == Apply(h, cmd)
<1>1. CASE cmd.tool = "ufw"
    <2>0. cmd.do \in {"add", "remove", "enable", "disable"}
        BY <1>1 DEF CmdOK, FirewallCmdOK, PackageCmdOK, UnitCmdOK
    <2>1. new = ApplyUfw(h, cmd.do, cmd.arg)
        BY <1>1 DEF Apply
    <2>2. \/ \E k : new = [h EXCEPT !.permanent = k, !.running = k]
          \/ \E k, l : new = [h EXCEPT !.permanent = k, !.running = l]
          \/ \E b \in BOOLEAN : new = [h EXCEPT !.on = b]
        BY <2>0, <2>1 DEF ApplyUfw
    <2> HIDE DEF new
    <2> QED  BY <2>2 DEF HostShape, new
<1>2. CASE cmd.tool = "firewall-cmd"
    <2>0. cmd.do \in {"add", "remove", "reload"}
        BY <1>2 DEF CmdOK, FirewallCmdOK, PackageCmdOK, UnitCmdOK
    <2>1. new = ApplyFirewalld(h, cmd.do, cmd.arg)
        BY <1>2 DEF Apply
    <2>2. (\E k : new = [h EXCEPT !.permanent = k]) \/ \E k : new = [h EXCEPT !.running = k]
        BY <2>0, <2>1 DEF ApplyFirewalld
    <2> HIDE DEF new
    <2> QED  BY <2>2 DEF HostShape, new
<1>3. CASE cmd.tool = "systemctl"
    <2>1. new = ApplySystemctl(h, cmd.do, cmd.arg)
        BY <1>3 DEF Apply
    <2>2. \/ \E k : new = [h EXCEPT !.on = TRUE, !.running = k]
          \/ new = [h EXCEPT !.on = FALSE]
          \/ \E k : new = [h EXCEPT !.active = k]
          \/ new = h
        BY <2>1 DEF ApplySystemctl
    <2> HIDE DEF new
    <2> QED  BY <2>2 DEF HostShape, new
<1>4. CASE cmd.tool \notin {"ufw", "firewall-cmd", "systemctl"}
    <2>1. (\E k : new = [h EXCEPT !.installed = k]) \/ new = h
        BY <1>4 DEF Apply, ApplyPackages
    <2> HIDE DEF new
    <2> QED  BY <2>1 DEF HostShape, new
<1> QED  BY <1>1, <1>2, <1>3, <1>4

\* A command that is within bounds leaves the host within bounds.
LEMMA ApplyKeeps ==
    ASSUME FirewallUnitLeftAlone, NEW h, HostShape(h), HostAllowed(h), NEW cmd, CmdOK(cmd)
    PROVE  HostAllowed(Apply(h, cmd))
<1> DEFINE new == Apply(h, cmd)
<1> USE DEF HostShape, HostAllowed
<1>1. CASE cmd.tool = "ufw"
    <2>0. FirewallCmdOK(cmd) /\ cmd.do \in {"add", "remove", "enable", "disable"}
        BY <1>1 DEF CmdOK, FirewallCmdOK, PackageCmdOK, UnitCmdOK
    <2>1. new = ApplyUfw(h, cmd.do, cmd.arg)
        BY <1>1 DEF Apply
    <2>2. CASE cmd.do = "add"
        <3> DEFINE kept == {i \in h.running : ~SameRule(i, cmd.arg)} \cup {cmd.arg}
        <3>1. new = [h EXCEPT !.permanent = kept, !.running = kept]
            BY <2>1, <2>2 DEF ApplyUfw
        <3>2. \A i \in kept : i \in h.running \/ i = cmd.arg
            OBVIOUS
        <3> HIDE DEF kept, new
        <3>3. /\ HostShape(new) /\ new.running = kept /\ new.permanent = kept /\ new.on = h.on
              /\ new.installed = h.installed /\ new.active = h.active
            BY <3>1
        <3>4. FirewallAllowed(new)
            BY <2>0, <2>2, <3>2, <3>3 DEF FirewallAllowed, FirewallCmdOK
        <3> QED  BY <3>3, <3>4 DEF PackagesAllowed, UnitsAllowed, new
    <2>3. CASE cmd.do = "remove"
        <3>1. new = [h EXCEPT !.permanent = @ \ {cmd.arg}, !.running = @ \ {cmd.arg}]
            BY <2>1, <2>3 DEF ApplyUfw
        <3> HIDE DEF new
        <3> QED  BY <3>1 DEF PackagesAllowed, UnitsAllowed, FirewallAllowed, new
    <2>4. CASE cmd.do = "enable"
        <3>1. new = [h EXCEPT !.on = TRUE]
            BY <2>1, <2>4 DEF ApplyUfw
        <3> HIDE DEF new
        <3> QED  BY <3>1 DEF PackagesAllowed, UnitsAllowed, FirewallAllowed, new
    <2>5. CASE cmd.do = "disable"
        <3>1. new = [h EXCEPT !.on = FALSE]
            BY <2>1, <2>5 DEF ApplyUfw
        <3> HIDE DEF new
        <3> QED  BY <2>0, <2>5, <3>1 DEF PackagesAllowed, UnitsAllowed, FirewallAllowed, FirewallCmdOK, new
    <2> QED  BY <2>0, <2>2, <2>3, <2>4, <2>5
<1>2. CASE cmd.tool = "firewall-cmd"
    <2>0. FirewallCmdOK(cmd) /\ cmd.do \in {"add", "remove", "reload"}
        BY <1>2 DEF CmdOK, FirewallCmdOK, PackageCmdOK, UnitCmdOK
    <2>1. new = ApplyFirewalld(h, cmd.do, cmd.arg)
        BY <1>2 DEF Apply
    <2>2. CASE cmd.do = "add"
        <3>1. new = [h EXCEPT !.permanent = @ \cup {cmd.arg}]
            BY <2>1, <2>2 DEF ApplyFirewalld
        <3> HIDE DEF new
        <3> QED  BY <2>0, <2>2, <3>1 DEF PackagesAllowed, UnitsAllowed, FirewallAllowed, FirewallCmdOK, new
    <2>3. CASE cmd.do = "remove"
        <3>1. new = [h EXCEPT !.permanent = @ \ {cmd.arg}]
            BY <2>1, <2>3 DEF ApplyFirewalld
        <3> HIDE DEF new
        <3> QED  BY <3>1 DEF PackagesAllowed, UnitsAllowed, FirewallAllowed, new
    <2>4. CASE cmd.do = "reload"
        <3>1. new = [h EXCEPT !.running = h.permanent]
            BY <2>1, <2>4 DEF ApplyFirewalld
        <3> HIDE DEF new
        <3> QED  BY <3>1 DEF PackagesAllowed, UnitsAllowed, FirewallAllowed, new
    <2> QED  BY <2>0, <2>2, <2>3, <2>4
<1>3. CASE cmd.tool = "systemctl"
    <2>1. new = ApplySystemctl(h, cmd.do, cmd.arg)
        BY <1>3 DEF Apply
    <2>2. CASE cmd.arg = FirewallUnit
        <3>0. FirewallCmdOK(cmd) /\ cmd.do \in {"start", "stop"}
            BY <1>3, <2>2 DEF CmdOK, FirewallCmdOK, PackageCmdOK, UnitCmdOK, Spared
        <3>1. new = IF cmd.do = "start" THEN [h EXCEPT !.on = TRUE, !.running = h.permanent]
                    ELSE [h EXCEPT !.on = FALSE]
            BY <2>1, <2>2 DEF ApplySystemctl
        <3> HIDE DEF new
        <3> QED  BY <3>0, <3>1 DEF PackagesAllowed, UnitsAllowed, FirewallAllowed, FirewallCmdOK, new
    <2>3. CASE cmd.arg # FirewallUnit
        <3>0. UnitCmdOK(cmd)
            BY <1>3, <2>3 DEF CmdOK, FirewallCmdOK, PackageCmdOK
        <3>1. \/ new = [h EXCEPT !.active = @ \cup {cmd.arg}]
              \/ new = [h EXCEPT !.active = @ \ {cmd.arg}]
              \/ new = h
            BY <2>1, <2>3 DEF ApplySystemctl
        <3> HIDE DEF new
        <3> QED  BY <3>0, <3>1 DEF PackagesAllowed, UnitsAllowed, FirewallAllowed, UnitCmdOK, new
    <2> QED  BY <2>2, <2>3
<1>4. CASE cmd.tool \notin {"ufw", "firewall-cmd", "systemctl"}
    <2>0. PackageCmdOK(cmd)
        BY <1>4 DEF CmdOK, FirewallCmdOK, UnitCmdOK
    <2>1. \/ cmd.do = "install" /\ new = [h EXCEPT !.installed = @ \cup {cmd.arg}]
          \/ cmd.do = "remove" /\ new = [h EXCEPT !.installed = @ \ {cmd.arg}]
          \/ new = h
        BY <1>4 DEF Apply, ApplyPackages
    <2> HIDE DEF new
    <2> QED  BY <2>0, <2>1 DEF PackagesAllowed, UnitsAllowed, FirewallAllowed, PackageCmdOK, new
<1> QED  BY <1>1, <1>2, <1>3, <1>4

-----------------------------------------------------------------------------
(* The operations *)

\* An operation in flight: its attempts are within bounds and so is what is left
\* of the one that runs; the helper's only attempt has run nothing before it starts.
InFlight(o) ==
    /\ o = [phase |-> o.phase, req |-> o.req, attempts |-> o.attempts, at |-> o.at,
            todo |-> o.todo, exit |-> o.exit, ran |-> o.ran]
    /\ o.phase \in {"start", "run"}
    /\ AttemptsOK(o.attempts) /\ o.at \in 1..Len(o.attempts)
    /\ o.phase = "run" => CommandsOK(o.todo)
    /\ o.phase = "start" /\ o.attempts[1].via = "helper" => o.ran = 0

OperationOK(o) == o = Idle \/ InFlight(o)

OperationsOK ==
    op = [c \in OpClients |-> op[c]] /\ \A c \in OpClients : OperationOK(op[c])

\* RefusalRanNothing, for one answer.
EndOK(e) ==
    e.phase = "ended" /\ e.via = "helper"
    /\ e.exit \in {ExitUsage, ExitRefused, ExitNotRoot, ExitConfigBad} => e.ran = 0

EndsOK == last = [c \in OpClients |-> last[c]] /\ \A c \in OpClients : EndOK(last[c])

HostInv == OperationsOK /\ EndsOK /\ HostOK(host)

LEMMA HostInvInit == HostInit => HostInv
<1> SUFFICES ASSUME HostInit PROVE HostInv
    OBVIOUS
<1>1. OperationsOK
    BY DEF HostInit, OperationsOK, OperationOK
<1>2. EndsOK
    BY DEF HostInit, EndsOK, EndOK, None
<1>3. HostOK(host)
    BY DEF HostInit, StartHost, HostOK, HostShape, HostAllowed, FirewallAllowed, PackagesAllowed, UnitsAllowed
<1> QED  BY <1>1, <1>2, <1>3 DEF HostInv

\* The bounds are the machine's, which stays as it is.
LEMMA BoundsStay ==
    ASSUME machine' = machine
    PROVE  /\ \A x : OperationOK(x)' <=> OperationOK(x)
           /\ \A x : HostAllowed(x)' <=> HostAllowed(x)
<1>1. GrantsInForce' = GrantsInForce /\ \A f : Routed(f)' <=> Routed(f)
    BY DEF GrantsInForce, Routed
<1>2. \A x : CmdOK(x)' <=> CmdOK(x)
    BY <1>1 DEF CmdOK, FirewallCmdOK, PackageCmdOK, UnitCmdOK
<1>3. \A x : CommandsOK(x)' <=> CommandsOK(x)
    BY <1>2 DEF CommandsOK
<1>4. \A x : AttemptOK(x)' <=> AttemptOK(x)
    BY <1>2 DEF AttemptOK
<1>5. \A x : AttemptsOK(x)' <=> AttemptsOK(x)
    BY <1>4 DEF AttemptsOK
<1>6. \A x : OperationOK(x)' <=> OperationOK(x)
    BY <1>3, <1>5 DEF OperationOK, InFlight
<1>7. \A x : HostAllowed(x)' <=> HostAllowed(x)
    BY <1>1 DEF HostAllowed, FirewallAllowed, PackagesAllowed, UnitsAllowed
<1> QED  BY <1>6, <1>7

LEMMA OneOperation ==
    ASSUME OperationsOK, machine' = machine, NEW c \in OpClients, NEW o, OperationOK(o),
           op' = [op EXCEPT ![c] = o]
    PROVE  OperationsOK'
<1>1. op' = [d \in OpClients |-> IF d = c THEN o ELSE op[d]]
    BY DEF OperationsOK
<1>2. op' = [d \in OpClients |-> op'[d]]
    BY <1>1
<1>3. \A d \in OpClients : OperationOK(op'[d])
    BY <1>1 DEF OperationsOK
<1>4. \A d \in OpClients : OperationOK(op[d])'
    BY <1>3, BoundsStay
<1> QED  BY <1>2, <1>4 DEF OperationsOK

LEMMA OneEnd ==
    ASSUME EndsOK, NEW c \in OpClients, NEW e, EndOK(e), last' = [last EXCEPT ![c] = e]
    PROVE  EndsOK'
<1>1. last' = [d \in OpClients |-> IF d = c THEN e ELSE last[d]]
    BY DEF EndsOK
<1>2. last' = [d \in OpClients |-> last'[d]]
    BY <1>1
<1>3. \A d \in OpClients : EndOK(last'[d])
    BY <1>1 DEF EndsOK
<1> QED  BY <1>2, <1>3 DEF EndsOK

LEMMA HostMoves ==
    ASSUME machine' = machine, HostOK(host')
    PROVE  HostOK(host)'
<1>1. FirewallUnitLeftAlone => HostAllowed(host)'
    BY BoundsStay DEF HostOK
<1>2. HostShape(host)'
    BY DEF HostOK, HostShape
<1> QED  BY <1>1, <1>2 DEF HostOK

LEMMA IdleKeeps ==
    ASSUME HostInv, machine' = machine, NEW c \in OpClients, NEW e, EndOK(e),
           op' = [op EXCEPT ![c] = Idle], last' = [last EXCEPT ![c] = e],
           HostOK(host')
    PROVE  HostInv'
<1>1. OperationOK(Idle)
    BY DEF OperationOK
<1>2. OperationsOK'
    BY <1>1, OneOperation DEF HostInv
<1>3. EndsOK'
    BY OneEnd DEF HostInv
<1>4. HostOK(host)'
    BY HostMoves
<1> QED  BY <1>2, <1>3, <1>4 DEF HostInv

LEMMA GoesOnKeeps ==
    ASSUME HostInv, machine' = machine, NEW c \in OpClients, NEW o, InFlight(o),
           op' = [op EXCEPT ![c] = o], UNCHANGED last, HostOK(host')
    PROVE  HostInv'
<1>1. OperationOK(o)
    BY DEF OperationOK
<1>2. OperationsOK'
    BY <1>1, OneOperation DEF HostInv
<1>3. EndsOK'
    BY DEF HostInv, EndsOK, EndOK
<1>4. HostOK(host)'
    BY HostMoves
<1> QED  BY <1>2, <1>3, <1>4 DEF HostInv

\* An attempt that fails is followed by the next one, or ends the operation; the
\* helper's is the only one of its operation.
LEMMA FailureKeeps ==
    ASSUME HostInv, NEW c \in OpClients, NEW exit, NEW ran, InFlight(op[c]),
           op[c].attempts[1].via = "helper" =>
               ran = 0 \/ exit \notin {ExitUsage, ExitRefused, ExitNotRoot, ExitConfigBad},
           AttemptFails(c, exit, ran), UNCHANGED <<machine, host, hostOps>>
    PROVE  HostInv'
<1> DEFINE o == op[c]
           primary == IF o.at = 1 THEN exit ELSE o.exit
<1>0. HostOK(host')
    BY DEF HostInv
<1>1. AttemptsOK(o.attempts) /\ o.at \in 1..Len(o.attempts)
    BY DEF InFlight
<1>2. o.attempts[1].via = "helper" => Len(o.attempts) = 1
    BY <1>1 DEF AttemptsOK
<1>5. Len(o.attempts) \in Nat
    BY <1>1, LenProperties DEF AttemptsOK
<1>3. CASE o.at < Len(o.attempts)
    <2>1. op' = [op EXCEPT ![c].at = @ + 1, ![c].todo = <<>>, ![c].phase = "start",
                           ![c].exit = primary, ![c].ran = ran] /\ UNCHANGED last
        BY <1>3 DEF AttemptFails
    <2>2. PICK q : q = [o EXCEPT !.at = @ + 1, !.todo = <<>>, !.phase = "start",
                                 !.exit = primary, !.ran = ran]
        OBVIOUS
    <2>3. op' = [op EXCEPT ![c] = q]
        BY <2>1, <2>2
    <2>4. o.attempts[1].via # "helper" /\ o.at + 1 \in 1..Len(o.attempts)
        <3> DEFINE n == Len(o.attempts)
                   at == o.at
        <3>1. n \in Nat /\ at \in 1..n /\ at < n
            BY <1>1, <1>3, <1>5
        <3> HIDE DEF n, at
        <3>2. n # 1 /\ at + 1 \in 1..n
            BY <3>1
        <3> QED  BY <1>2, <3>2 DEF n, at
    <2>5. InFlight(q)
        <3>1. o = [phase |-> o.phase, req |-> o.req, attempts |-> o.attempts, at |-> o.at,
                   todo |-> o.todo, exit |-> o.exit, ran |-> o.ran]
            BY DEF InFlight
        <3> HIDE DEF o, primary
        <3>2. /\ q = [phase |-> q.phase, req |-> q.req, attempts |-> q.attempts, at |-> q.at,
                      todo |-> q.todo, exit |-> q.exit, ran |-> q.ran]
              /\ q.phase = "start" /\ q.attempts = o.attempts /\ q.at = o.at + 1
            BY <2>2, <3>1
        <3> QED  BY <1>1, <2>4, <3>2 DEF InFlight
    <2> QED  BY <1>0, <2>1, <2>3, <2>5, GoesOnKeeps
<1>4. CASE ~(o.at < Len(o.attempts))
    <2> DEFINE e == [phase |-> "ended", req |-> o.req, ok |-> FALSE, exit |-> primary,
                     ran |-> ran, via |-> o.attempts[1].via]
    <2>1. last' = [last EXCEPT ![c] = e] /\ op' = [op EXCEPT ![c] = Idle]
        BY <1>4 DEF AttemptFails
    <2>2. o.attempts[1].via = "helper" => primary = exit
        <3> HIDE DEF o
        <3>1. Len(o.attempts) = 1 => o.at = 1
            BY <1>1, <1>5
        <3> QED  BY <1>2, <3>1
    <2>3. EndOK(e)
        BY <2>2 DEF EndOK
    <2> HIDE DEF e
    <2> QED  BY <1>0, <2>1, <2>3, IdleKeeps
<1> QED  BY <1>3, <1>4

LEMMA BusyInFlight ==
    ASSUME HostInv, NEW c \in OpClients, op[c].phase \in {"start", "run"}
    PROVE  InFlight(op[c])
BY DEF HostInv, OperationsOK, OperationOK, Idle

LEMMA PlanKeeps ==
    ASSUME HostInv, NEW c \in OpClients, NEW req \in Work[c], PlanRequest(c, req)
    PROVE  HostInv'
<1> DEFINE plan == PlanNativeOp(req)
           o == [phase |-> "start", req |-> req, attempts |-> plan.attempts, at |-> 1,
                 todo |-> <<>>, exit |-> ExitOK, ran |-> 0]
<1>0. machine' = machine /\ host' = host /\ last' = [last EXCEPT ![c] = None]
    BY DEF PlanRequest
<1>1. EndsOK'
    <2>1. EndOK(None)
        BY DEF EndOK, None
    <2> QED  BY <1>0, <2>1, OneEnd DEF HostInv
<1>2. HostOK(host)'
    BY <1>0, HostMoves DEF HostInv
<1>3. OperationsOK'
    <2>1. CASE plan.ok
        <3>1. AttemptsOK(plan.attempts)
            BY <2>1, PlanOK DEF Spared, FirewallUnitLeftAlone
        <3>2. op' = [op EXCEPT ![c] = o]
            BY <2>1 DEF PlanRequest
        <3> HIDE DEF plan
        <3>3. 1 \in 1..Len(plan.attempts)
            <4>1. Len(plan.attempts) \in Nat \ {0}
                BY <3>1, EmptySeq DEF AttemptsOK
            <4> QED  BY <4>1
        <3>4. OperationOK(o)
            BY <3>1, <3>3 DEF OperationOK, InFlight
        <3> HIDE DEF o
        <3> QED  BY <1>0, <3>2, <3>4, OneOperation DEF HostInv
    <2>2. CASE ~plan.ok
        <3>1. op' = op
            BY <2>2 DEF PlanRequest
        <3>2. \A d \in OpClients : OperationOK(op'[d])
            BY <3>1 DEF HostInv, OperationsOK
        <3>3. \A d \in OpClients : OperationOK(op[d])'
            BY <1>0, <3>2, BoundsStay
        <3> QED  BY <3>1, <3>3 DEF HostInv, OperationsOK
    <2> QED  BY <2>1, <2>2
<1> QED  BY <1>1, <1>2, <1>3 DEF HostInv

LEMMA StartKeeps ==
    ASSUME HostInv, NEW c \in OpClients, NEW allowed \in BOOLEAN, StartAttempt(c, allowed)
    PROVE  HostInv'
<1> DEFINE o == op[c]
           attempt == o.attempts[o.at]
           answer == IF attempt.via = "helper" THEN HelperRun(attempt.argv)
                     ELSE [exit |-> ExitOK, commands |-> <<attempt.command>>]
<1>0. machine' = machine /\ host' = host /\ o.phase = "start"
    BY DEF StartAttempt
<1>1. InFlight(o)
    BY <1>0, BusyInFlight
<1>2. AttemptsOK(o.attempts) /\ o.at \in 1..Len(o.attempts)
    BY <1>1 DEF InFlight
<1>3. CASE allowed /\ answer.exit = ExitOK
    <2>1. op' = [op EXCEPT ![c].phase = "run", ![c].todo = answer.commands] /\ UNCHANGED last
        BY <1>3 DEF StartAttempt
    <2>2. AttemptOK(attempt)
        BY <1>2 DEF AttemptsOK
    <2>3. CommandsOK(answer.commands)
        <3> HIDE DEF attempt
        <3>1. CASE attempt.via = "helper"
            <4>1. answer = HelperRun(attempt.argv)
                BY <3>1
            <4>2. attempt.argv[1] = "systemd" => Spared(attempt.argv[3])
                BY <2>2, <3>1 DEF AttemptOK
            <4>3. HelperRun(attempt.argv).exit = ExitOK
                BY <1>3, <4>1
            <4> HIDE DEF answer
            <4> QED  BY <4>1, <4>2, <4>3, HelperRunsGranted
        <3>2. CASE attempt.via # "helper"
            <4>1. answer.commands = <<attempt.command>> /\ CmdOK(attempt.command)
                BY <2>2, <3>2 DEF AttemptOK
            <4> HIDE DEF answer
            <4> QED  BY <4>1, OneCommandOK
        <3> QED  BY <3>1, <3>2
    <2>4. PICK q : q = [o EXCEPT !.phase = "run", !.todo = answer.commands]
        OBVIOUS
    <2>5. op' = [op EXCEPT ![c] = q]
        BY <2>1, <2>4
    <2>6. InFlight(q)
        <3>1. o = [phase |-> o.phase, req |-> o.req, attempts |-> o.attempts, at |-> o.at,
                   todo |-> o.todo, exit |-> o.exit, ran |-> o.ran]
            BY <1>1 DEF InFlight
        <3> HIDE DEF o, answer
        <3>2. /\ q = [phase |-> q.phase, req |-> q.req, attempts |-> q.attempts, at |-> q.at,
                      todo |-> q.todo, exit |-> q.exit, ran |-> q.ran]
              /\ q.phase = "run" /\ q.attempts = o.attempts /\ q.at = o.at
              /\ q.todo = answer.commands
            BY <2>4, <3>1
        <3> QED  BY <1>2, <2>3, <3>2 DEF InFlight
    <2> QED  BY <1>0, <2>1, <2>5, <2>6, GoesOnKeeps DEF HostInv
<1>4. CASE ~(allowed /\ answer.exit = ExitOK)
    <2> DEFINE exit == IF allowed THEN answer.exit ELSE 1
    <2>1. AttemptFails(c, exit, o.ran) /\ UNCHANGED <<machine, host, hostOps>>
        BY <1>4 DEF StartAttempt
    <2>2. o.attempts[1].via = "helper" => o.ran = 0
        BY <1>0, <1>1 DEF InFlight
    <2> HIDE DEF exit
    <2> QED  BY <1>1, <2>1, <2>2, FailureKeeps
<1> QED  BY <1>3, <1>4

\* What runs next is within bounds, and so is the rest.
LEMMA NextCommand ==
    ASSUME NEW s, CommandsOK(s)
    PROVE  CmdOK(Head(s)) /\ (Len(s) # 1 => CommandsOK(Tail(s)))
<1>1. s \in Seq(Range(s)) /\ s # <<>> /\ \A cmd \in Range(s) : CmdOK(cmd)
    BY DEF CommandsOK
<1>2. CmdOK(Head(s))
    BY <1>1, HeadTailProperties
<1>3. ASSUME Len(s) # 1 PROVE CommandsOK(Tail(s))
    <2> DEFINE S == Range(s)
    <2>1. s \in Seq(S) /\ s # <<>> /\ \A cmd \in S : CmdOK(cmd)
        BY <1>1
    <2> HIDE DEF S
    <2>2. Tail(s) \in Seq(S) /\ Len(Tail(s)) = Len(s) - 1 /\ Len(s) \in Nat \ {0}
        BY <2>1, HeadTailProperties, EmptySeq
    <2> DEFINE rest == Tail(s)
    <2>3. rest \in Seq(S) /\ Len(rest) # 0
        BY <1>3, <2>2
    <2> HIDE DEF rest
    <2>4. rest # <<>>
        BY <2>3
    <2>5. CommandsOK(rest)
        BY <2>1, <2>3, <2>4, AllCommandsOK
    <2> QED  BY <2>5 DEF rest
<1> QED  BY <1>2, <1>3

LEMMA CommandKeeps ==
    ASSUME HostInv, NEW c \in OpClients, CommandOK(c) PROVE HostInv'
<1> DEFINE o == op[c]
<1>0. machine' = machine /\ o.phase = "run" /\ host' = Apply(host, Head(o.todo))
    BY DEF CommandOK
<1>1. InFlight(o)
    BY <1>0, BusyInFlight
<1>2. CommandsOK(o.todo)
    BY <1>0, <1>1 DEF InFlight
<1>3. HostOK(host')
    BY <1>0, <1>2, NextCommand, ApplyShape, ApplyKeeps DEF HostInv, HostOK
<1>4. CASE Len(o.todo) = 1
    <2> DEFINE e == [phase |-> "ended", req |-> o.req, ok |-> TRUE, exit |-> ExitOK,
                     ran |-> o.ran, via |-> o.attempts[1].via]
    <2>1. last' = [last EXCEPT ![c] = e] /\ op' = [op EXCEPT ![c] = Idle]
        BY <1>4 DEF CommandOK, Ended
    <2>2. EndOK(e)
        BY DEF EndOK, ExitOK, ExitUsage, ExitRefused, ExitNotRoot, ExitConfigBad
    <2> HIDE DEF e
    <2> QED  BY <1>0, <1>3, <2>1, <2>2, IdleKeeps
<1>5. CASE Len(o.todo) # 1
    <2>1. op' = [op EXCEPT ![c].todo = Tail(@), ![c].ran = @ + 1] /\ UNCHANGED last
        BY <1>5 DEF CommandOK
    <2>2. PICK q : q = [o EXCEPT !.todo = Tail(@), !.ran = @ + 1]
        OBVIOUS
    <2>3. op' = [op EXCEPT ![c] = q]
        BY <2>1, <2>2
    <2>4. InFlight(q)
        <3>1. /\ o = [phase |-> o.phase, req |-> o.req, attempts |-> o.attempts, at |-> o.at,
                      todo |-> o.todo, exit |-> o.exit, ran |-> o.ran]
              /\ AttemptsOK(o.attempts) /\ o.at \in 1..Len(o.attempts)
            BY <1>1 DEF InFlight
        <3>2. CommandsOK(Tail(o.todo))
            BY <1>2, <1>5, NextCommand
        <3> HIDE DEF o
        <3>3. /\ q = [phase |-> q.phase, req |-> q.req, attempts |-> q.attempts, at |-> q.at,
                      todo |-> q.todo, exit |-> q.exit, ran |-> q.ran]
              /\ q.phase = "run" /\ q.attempts = o.attempts /\ q.at = o.at
              /\ q.todo = Tail(o.todo)
            BY <1>0, <2>2, <3>1
        <3> QED  BY <3>1, <3>2, <3>3 DEF InFlight
    <2> QED  BY <1>0, <1>3, <2>1, <2>3, <2>4, GoesOnKeeps
<1> QED  BY <1>4, <1>5

LEMMA CommandFailureKeeps ==
    ASSUME HostInv, NEW c \in OpClients, NEW code \in {1, ExitRefused}, CommandFails(c, code)
    PROVE  HostInv'
<1> DEFINE o == op[c]
           exit == IF o.attempts[o.at].via = "helper" THEN ExternalExitCode(code) ELSE code
<1>0. /\ o.phase = "run" /\ AttemptFails(c, exit, o.ran + 1) /\ UNCHANGED <<machine, host, hostOps>>
    BY DEF CommandFails
<1>1. InFlight(o)
    BY <1>0, BusyInFlight
<1>2. ASSUME o.attempts[1].via = "helper"
      PROVE  exit \notin {ExitUsage, ExitRefused, ExitNotRoot, ExitConfigBad}
    <2>1. o.at = 1
        BY <1>1, <1>2 DEF InFlight, AttemptsOK
    <2>2. exit = ExternalExitCode(code)
        BY <1>2, <2>1
    <2> QED  BY <2>2 DEF ExternalExitCode, ExitIO, ExitUsage, ExitRefused, ExitNotRoot, ExitConfigBad
<1> HIDE DEF exit
<1> QED  BY <1>0, <1>1, <1>2, FailureKeeps

LEMMA DeadlineKeeps ==
    ASSUME HostInv, NEW c \in OpClients, NEW applied \in BOOLEAN, DeadlineKills(c, applied)
    PROVE  HostInv'
<1> DEFINE o == op[c]
           e == [phase |-> "ended", req |-> o.req, ok |-> FALSE, exit |-> -1,
                 ran |-> o.ran + 1, via |-> o.attempts[1].via]
<1>0. /\ machine' = machine /\ o.phase = "run"
      /\ host' = IF applied THEN Apply(host, Head(o.todo)) ELSE host
      /\ last' = [last EXCEPT ![c] = e] /\ op' = [op EXCEPT ![c] = Idle]
    BY DEF DeadlineKills
<1>1. InFlight(o)
    BY <1>0, BusyInFlight
<1>2. CmdOK(Head(o.todo))
    BY <1>0, <1>1, NextCommand DEF InFlight
<1>3. HostOK(host')
    BY <1>0, <1>2, ApplyShape, ApplyKeeps DEF HostInv, HostOK
<1>4. EndOK(e)
    BY DEF EndOK, ExitUsage, ExitRefused, ExitNotRoot, ExitConfigBad
<1> HIDE DEF e
<1> QED  BY <1>0, <1>3, <1>4, IdleKeeps

LEMMA HostInvStep == HostInv /\ [HostNext]_hostVars => HostInv'
<1> SUFFICES ASSUME HostInv, [HostNext]_hostVars PROVE HostInv'
    OBVIOUS
<1>1. CASE UNCHANGED hostVars
    <2>1. machine' = machine /\ host' = host /\ op' = op /\ last' = last
        BY <1>1 DEF hostVars
    <2>2. \A d \in OpClients : OperationOK(op'[d])
        BY <2>1 DEF HostInv, OperationsOK
    <2>3. \A d \in OpClients : OperationOK(op[d])'
        BY <2>1, <2>2, BoundsStay
    <2>4. HostOK(host)'
        BY <2>1, HostMoves DEF HostInv
    <2>5. EndsOK'
        BY <2>1 DEF HostInv, EndsOK, EndOK
    <2> QED  BY <2>1, <2>3, <2>4, <2>5 DEF HostInv, OperationsOK
<1>2. CASE HostNext
    BY <1>2, PlanKeeps, StartKeeps, CommandKeeps, CommandFailureKeeps, DeadlineKeeps DEF HostNext
<1> QED  BY <1>1, <1>2

\* A family of operations that is routed to the root helper changes the host by
\* what the grant file grants and by nothing else (runNativeOp, privfs.Run), for
\* any clients, requests, machines, grant files and failures.
THEOREM OnlyGrantedHappens ==
    FirewallUnitLeftAlone => (HostSpec => []UngrantedNeverHappens)
<1> SUFFICES ASSUME FirewallUnitLeftAlone PROVE HostSpec => []UngrantedNeverHappens
    OBVIOUS
<1>1. HostInv => UngrantedNeverHappens
    BY DEF HostInv, HostOK, HostAllowed, FirewallAllowed, PackagesAllowed, UnitsAllowed,
           UngrantedNeverHappens
<1> QED  BY <1>1, HostInvInit, HostInvStep, PTL DEF HostSpec

\* An answer of the helper's own, "refused" above all, means that none of its
\* commands has run: no command's exit code is mistaken for one of them
\* (externalExitCode), and no other attempt ran before the helper's.
THEOREM RefusedMeansNothingRan == HostSpec => []RefusalRanNothing
<1>1. HostInv => RefusalRanNothing
    BY DEF HostInv, EndsOK, EndOK, RefusalRanNothing
<1> QED  BY <1>1, HostInvInit, HostInvStep, PTL DEF HostSpec

-----------------------------------------------------------------------------
(* Native host operations: what success leaves behind                      *)

IsFirewall(req) == req.family \notin {"systemd", "packages"}
IsRule(req) == IsFirewall(req) /\ req.verb \in RuleVerbs
RuleOf(req) ==
    ParseFirewallRule(IF req.verb = "delete" THEN req.rule.action ELSE req.verb, req.rule).rule

\* The clients work on different units, packages and rules. Two who ask for
\* opposite things cannot both be served.
OwnWork ==
    \A c, d \in OpClients : \A req \in Work[c], other \in Work[d] : c # d =>
        /\ req.family = "systemd" /\ other.family = "systemd" => req.name # other.name
        /\ req.family = "packages" /\ other.family = "packages"
           /\ req.verb \in {"install", "remove"} /\ other.verb \in {"install", "remove"}
              => req.name # other.name
        /\ IsRule(req) /\ IsRule(other) => ~SameRule(RuleOf(req), RuleOf(other))

Backend ==
    IF Routed("firewall") THEN machine.grants.firewall.backend
    ELSE Detect(FirewallBackendPreference, BackendBinary)

\* What a rule is to the backend.
ItemsOf(r) == IF Backend = "ufw" THEN {Item("ufw", "both", r)} ELSE Range(FirewalldItems(r))
AsRule(i) == [action |-> i.target, port |-> i.port, protocol |-> i.protocol, source |-> i.source]

\* The host holds nothing but such rules.
Proper(h) == \A i \in h.running \cup h.permanent : i \in ItemsOf(AsRule(i))

\* A rule of firewalld takes several commands, which the helper runs one after
\* the other.
Stepwise(req) == IsRule(req) /\ Backend # "ufw"
Sequential(req) == Stepwise(req) /\ Routed("firewall")

Planned(req) ==
    req.verb \in IF req.family = "systemd" THEN SystemdVerbs
                 ELSE IF req.family = "packages" THEN PackageVerbs ELSE FirewallVerbs

\* The commands of a request.
UnitFor(cmd, req) ==
    /\ req.family = "systemd" /\ cmd.tool = "systemctl"
    /\ cmd.do = req.verb /\ cmd.arg = req.name
PackageFor(cmd, req) ==
    /\ req.family = "packages" /\ cmd.tool \notin {"ufw", "firewall-cmd", "systemctl"}
    /\ cmd.do = req.verb /\ cmd.arg = req.name
ToggleFor(cmd, req) ==
    /\ IsFirewall(req) /\ ~IsRule(req)
    /\ \/ cmd.tool = "ufw" /\ cmd.do \in {"enable", "disable"}
       \/ cmd.tool = "systemctl" /\ cmd.arg = FirewallUnit /\ cmd.do \in {"start", "stop"}
UfwFor(cmd, req) ==
    /\ IsRule(req) /\ ~Stepwise(req) /\ cmd.tool = "ufw"
    /\ cmd.do = Edit(req.verb) /\ cmd.arg = Item("ufw", "both", RuleOf(req))
FirewalldFor(cmd, req) ==
    /\ Stepwise(req) /\ cmd.tool = "firewall-cmd"
    /\ \/ cmd.do = "reload"
       \/ cmd.do = Edit(req.verb) /\ cmd.arg \in ItemsOf(RuleOf(req))

CmdFor(cmd, req) ==
    \/ UnitFor(cmd, req) \/ PackageFor(cmd, req) \/ ToggleFor(cmd, req)
    \/ UfwFor(cmd, req) \/ FirewalldFor(cmd, req)

\* An item is in the permanent configuration as the request wants it.
Placed(h, req, i) == i \in h.permanent <=> req.verb # "delete"

\* The commands left finish the request: the reload comes last, and every item
\* is placed by then. (Or there is one command, which does it all or is one of the
\* attempts that a rule is divided into.)
Finishes(h, req, todo) ==
    IF Sequential(req)
    THEN /\ \A i \in 1..Len(todo) : todo[i].do = "reload" <=> i = Len(todo)
         /\ \A x \in ItemsOf(RuleOf(req)) :
               Placed(h, req, x) \/ \E i \in 1..Len(todo) : todo[i].do # "reload" /\ todo[i].arg = x
    ELSE Len(todo) = 1

Ready(h, req, todo) ==
    (\A i \in 1..Len(todo) : CmdFor(todo[i], req)) /\ Finishes(h, req, todo)

ArgvOf(req) ==
    IF req.family = "systemd" THEN <<"systemd", req.verb, req.name>>
    ELSE IF req.family = "packages" THEN PackageArgv(req.verb, req.name)
    ELSE FirewallArgv(req.verb, IF IsRule(req) THEN RuleOf(req) ELSE "")

\* An attempt is the helper's, of this request, or one of its commands.
AttemptFor(a, req) ==
    IF a.via = "helper" THEN a.argv = ArgvOf(req) /\ (IsFirewall(req) => Routed("firewall"))
    ELSE CmdFor(a.command, req) /\ ~Sequential(req)

\* What a request that succeeded leaves behind, in the permanent configuration
\* too: a later reload must not undo it.
TookEffect(h, req) ==
    /\ req.family = "packages" /\ req.verb = "install" => req.name \in h.installed
    /\ req.family = "packages" /\ req.verb = "remove" => req.name \notin h.installed
    /\ req.family = "systemd" /\ req.verb = "start" => req.name \in h.active
    /\ req.family = "systemd" /\ req.verb = "stop" => req.name \notin h.active
    /\ IsRule(req) /\ ~Divided(req) => \A x \in ItemsOf(RuleOf(req)) :
          Placed(h, req, x) /\ (x \in h.running <=> x \in h.permanent)

UnderWay(c, h, o) ==
    /\ o.req \in Work[c] /\ Planned(o.req)
    /\ \A i \in 1..Len(o.attempts) : AttemptFor(o.attempts[i], o.req)
    /\ o.phase = "run" => Ready(h, o.req, o.todo)

Lasting(c, h, e) ==
    e.phase = "ended" /\ e.ok => e.req \in Work[c] /\ Planned(e.req) /\ TookEffect(h, e.req)

ClientOK(c, h, o, e) ==
    Lasting(c, h, e) /\ (o = Idle \/ (UnderWay(c, h, o) /\ e = None))

EffectInv ==
    /\ machine \in Machines /\ Proper(host)
    /\ \A c \in OpClients : ClientOK(c, host, op[c], last[c])

-----------------------------------------------------------------------------
(* Rules and their items *)

\* A rule of firewalld is carried out by the helper or divided into attempts.
LEMMA SequentialOrDivided ==
    ASSUME NEW req, Stepwise(req) PROVE Sequential(req) <=> ~Divided(req)
BY DEF Stepwise, Sequential, Divided, Backend, IsRule, IsFirewall

LEMMA RuleRecord ==
    ASSUME NEW req
    PROVE  LET r == RuleOf(req) IN
           /\ r = [action |-> r.action, port |-> r.port, protocol |-> r.protocol, source |-> r.source]
           /\ r.action = (IF req.verb = "delete" THEN req.rule.action ELSE req.verb)
           /\ r.protocol # "" /\ r.source # ""
<1> DEFINE action == IF req.verb = "delete" THEN req.rule.action ELSE req.verb
           protocol == IF req.rule.protocol = "" THEN "any" ELSE req.rule.protocol
           source == IF req.rule.source = "" THEN "any" ELSE req.rule.source
           r == RuleOf(req)
<1>1. r = [action |-> action, port |-> req.rule.port, protocol |-> protocol, source |-> source]
    BY DEF RuleOf, ParseFirewallRule
<1>2. protocol # "" /\ source # ""
    OBVIOUS
<1> HIDE DEF r, action, protocol, source
<1>3. /\ r = [action |-> r.action, port |-> r.port, protocol |-> r.protocol, source |-> r.source]
      /\ r.action = action /\ r.protocol # "" /\ r.source # ""
    BY <1>1, <1>2
<1> QED  BY <1>3 DEF r, action

\* Items of a rule, whatever the backend.
LEMMA ItemsAre ==
    ASSUME NEW r
    PROVE  \/ Backend = "ufw" /\ ItemsOf(r) = {Item("ufw", "both", r)}
           \/ /\ Backend # "ufw" /\ FirewalldItems(r) = <<Item("port", "both", r)>>
              /\ ItemsOf(r) = {Item("port", "both", r)}
           \/ /\ Backend # "ufw" /\ r.source # "any"
              /\ FirewalldItems(r) = <<Item("rich", FamilyOf(r.source), r)>>
              /\ ItemsOf(r) = {Item("rich", FamilyOf(r.source), r)}
           \/ /\ Backend # "ufw" /\ r.source = "any"
              /\ FirewalldItems(r) = <<Item("rich", "ipv4", r), Item("rich", "ipv6", r)>>
              /\ ItemsOf(r) = {Item("rich", "ipv4", r), Item("rich", "ipv6", r)}
<1> DEFINE items == FirewalldItems(r)
<1>1. \/ items = <<Item("port", "both", r)>>
      \/ r.source # "any" /\ items = <<Item("rich", FamilyOf(r.source), r)>>
      \/ r.source = "any" /\ items = <<Item("rich", "ipv4", r), Item("rich", "ipv6", r)>>
    BY DEF FirewalldItems, RichRules
<1>2. \A a : Range(<<a>>) = {a}
    BY DEF Range
<1>3. \A a, b : Range(<<a, b>>) = {a, b}
    BY DEF Range
<1>4. ItemsOf(r) = IF Backend = "ufw" THEN {Item("ufw", "both", r)} ELSE Range(items)
    BY DEF ItemsOf
<1> HIDE DEF items
<1>5. CASE items = <<Item("port", "both", r)>>
    BY <1>2, <1>4, <1>5 DEF items
<1>6. CASE r.source # "any" /\ items = <<Item("rich", FamilyOf(r.source), r)>>
    BY <1>2, <1>4, <1>6 DEF items
<1>7. CASE r.source = "any" /\ items = <<Item("rich", "ipv4", r), Item("rich", "ipv6", r)>>
    BY <1>3, <1>4, <1>7 DEF items
<1> QED  BY <1>1, <1>5, <1>6, <1>7

LEMMA ItemNames ==
    ASSUME NEW r, NEW x \in ItemsOf(r)
    PROVE  x.target = r.action /\ SameRule(x, r)
<1>1. \E shape, family : x = Item(shape, family, r)
    BY ItemsAre
<1> QED  BY <1>1 DEF Item, SameRule

LEMMA ItemsMine ==
    ASSUME NEW req, NEW x \in ItemsOf(RuleOf(req)) PROVE AsRule(x) = RuleOf(req)
<1> DEFINE r == RuleOf(req)
<1>1. x.target = r.action /\ SameRule(x, r)
    BY ItemNames
<1>2. r = [action |-> r.action, port |-> r.port, protocol |-> r.protocol, source |-> r.source]
    BY RuleRecord
<1> HIDE DEF r
<1>3. AsRule(x) = r
    BY <1>1, <1>2 DEF AsRule, SameRule
<1> QED  BY <1>3 DEF r

LEMMA ItemsApart ==
    ASSUME NEW r, NEW s, ~SameRule(r, s), NEW x \in ItemsOf(r), NEW y \in ItemsOf(s)
    PROVE  x # y /\ ~SameRule(x, y)
<1>1. SameRule(x, r) /\ SameRule(y, s)
    BY ItemNames
<1> QED  BY <1>1 DEF SameRule

-----------------------------------------------------------------------------
(* What the commands of a request do *)

LEMMA UnitDoes ==
    ASSUME NEW h, HostShape(h), NEW cmd, NEW req, UnitFor(cmd, req), req.name # FirewallUnit
    PROVE  LET new == Apply(h, cmd) IN
           /\ new.permanent = h.permanent /\ new.running = h.running /\ new.installed = h.installed
           /\ \A u : u # req.name => (u \in new.active <=> u \in h.active)
           /\ req.verb = "start" => req.name \in new.active
           /\ req.verb = "stop" => req.name \notin new.active
<1> DEFINE new == Apply(h, cmd)
<1>1. new = ApplySystemctl(h, cmd.do, cmd.arg)
    BY DEF Apply, UnitFor
<1>2. \/ new = [h EXCEPT !.active = @ \cup {req.name}] /\ req.verb # "stop"
      \/ new = [h EXCEPT !.active = @ \ {req.name}] /\ req.verb # "start"
      \/ new = h /\ req.verb \notin {"start", "stop"}
    BY <1>1 DEF ApplySystemctl, UnitFor
<1> HIDE DEF new
<1> QED  BY <1>2 DEF HostShape, new

LEMMA PackageDoes ==
    ASSUME NEW h, HostShape(h), NEW cmd, NEW req, PackageFor(cmd, req)
    PROVE  LET new == Apply(h, cmd) IN
           /\ new.permanent = h.permanent /\ new.running = h.running /\ new.active = h.active
           /\ req.verb \notin {"install", "remove"} => new.installed = h.installed
           /\ \A p : p # req.name => (p \in new.installed <=> p \in h.installed)
           /\ req.verb = "install" => req.name \in new.installed
           /\ req.verb = "remove" => req.name \notin new.installed
<1> DEFINE new == Apply(h, cmd)
<1>1. new = ApplyPackages(h, cmd.do, cmd.arg)
    BY DEF Apply, PackageFor
<1>2. \/ new = [h EXCEPT !.installed = @ \cup {req.name}] /\ req.verb = "install"
      \/ new = [h EXCEPT !.installed = @ \ {req.name}] /\ req.verb = "remove"
      \/ new = h /\ req.verb \notin {"install", "remove"}
    BY <1>1 DEF ApplyPackages, PackageFor
<1> HIDE DEF new
<1> QED  BY <1>2 DEF HostShape, new

LEMMA ToggleDoes ==
    ASSUME NEW h, HostShape(h), NEW cmd, NEW req, ToggleFor(cmd, req)
    PROVE  LET new == Apply(h, cmd) IN
           /\ new.permanent = h.permanent /\ new.active = h.active /\ new.installed = h.installed
           /\ new.running = h.running \/ new.running = h.permanent
<1> DEFINE new == Apply(h, cmd)
<1>1. CASE cmd.tool = "ufw" /\ cmd.do \in {"enable", "disable"}
    <2>1. \E b : new = [h EXCEPT !.on = b]
        BY <1>1 DEF Apply, ApplyUfw
    <2> HIDE DEF new
    <2> QED  BY <2>1 DEF HostShape, new
<1>2. CASE cmd.tool = "systemctl" /\ cmd.arg = FirewallUnit /\ cmd.do \in {"start", "stop"}
    <2>1. new = [h EXCEPT !.on = TRUE, !.running = h.permanent] \/ new = [h EXCEPT !.on = FALSE]
        BY <1>2 DEF Apply, ApplySystemctl
    <2> HIDE DEF new
    <2> QED  BY <2>1 DEF HostShape, new
<1> QED  BY <1>1, <1>2 DEF ToggleFor

LEMMA UfwDoes ==
    ASSUME NEW h, HostShape(h), NEW cmd, NEW req, UfwFor(cmd, req)
    PROVE  LET new == Apply(h, cmd)
               item == Item("ufw", "both", RuleOf(req))
           IN  /\ new.active = h.active /\ new.installed = h.installed
               /\ req.verb # "delete" =>
                     /\ new.running = {i \in h.running : ~SameRule(i, item)} \cup {item}
                     /\ new.permanent = new.running
               /\ req.verb = "delete" =>
                     new.running = h.running \ {item} /\ new.permanent = h.permanent \ {item}
<1> DEFINE new == Apply(h, cmd)
           item == Item("ufw", "both", RuleOf(req))
           kept == {i \in h.running : ~SameRule(i, item)} \cup {item}
<1>1. new = ApplyUfw(h, cmd.do, item) /\ cmd.do = (IF req.verb = "delete" THEN "remove" ELSE "add")
    BY DEF Apply, UfwFor, Edit
<1> HIDE DEF item
<1>2. \/ new = [h EXCEPT !.permanent = kept, !.running = kept] /\ req.verb # "delete"
      \/ new = [h EXCEPT !.permanent = @ \ {item}, !.running = @ \ {item}] /\ req.verb = "delete"
    BY <1>1 DEF ApplyUfw
<1>4. kept = {i \in h.running : ~SameRule(i, item)} \cup {item}
    OBVIOUS
<1> HIDE DEF new, kept
<1>3. /\ new.active = h.active /\ new.installed = h.installed
      /\ req.verb # "delete" => new.running = kept /\ new.permanent = kept
      /\ req.verb = "delete" => new.running = h.running \ {item} /\ new.permanent = h.permanent \ {item}
    BY <1>2 DEF HostShape
<1> QED  BY <1>3, <1>4 DEF new, item

LEMMA FirewalldDoes ==
    ASSUME NEW h, HostShape(h), NEW cmd, NEW req, FirewalldFor(cmd, req)
    PROVE  LET new == Apply(h, cmd) IN
           /\ new.active = h.active /\ new.installed = h.installed
           /\ \/ cmd.do = "reload" /\ new.running = h.permanent /\ new.permanent = h.permanent
              \/ /\ cmd.do # "reload" /\ cmd.arg \in ItemsOf(RuleOf(req)) /\ new.running = h.running
                 /\ \/ req.verb # "delete" /\ new.permanent = h.permanent \cup {cmd.arg}
                    \/ req.verb = "delete" /\ new.permanent = h.permanent \ {cmd.arg}
<1> DEFINE new == Apply(h, cmd)
<1>1. new = ApplyFirewalld(h, cmd.do, cmd.arg)
    BY DEF Apply, FirewalldFor
<1>2. CASE cmd.do = "reload"
    <2>1. new = [h EXCEPT !.running = h.permanent]
        BY <1>1, <1>2 DEF ApplyFirewalld
    <2> HIDE DEF new
    <2> QED  BY <1>2, <2>1 DEF HostShape, new
<1>3. CASE cmd.do # "reload"
    <2>1. /\ cmd.arg \in ItemsOf(RuleOf(req))
          /\ cmd.do = (IF req.verb = "delete" THEN "remove" ELSE "add")
        BY <1>3 DEF FirewalldFor, Edit
    <2>2. \/ new = [h EXCEPT !.permanent = @ \cup {cmd.arg}] /\ req.verb # "delete"
          \/ new = [h EXCEPT !.permanent = @ \ {cmd.arg}] /\ req.verb = "delete"
        BY <1>1, <2>1 DEF ApplyFirewalld
    <2> HIDE DEF new
    <2>3. new.active = h.active /\ new.installed = h.installed /\ new.running = h.running
        BY <2>2 DEF HostShape
    <2>4. \/ req.verb # "delete" /\ new.permanent = h.permanent \cup {cmd.arg}
          \/ req.verb = "delete" /\ new.permanent = h.permanent \ {cmd.arg}
        BY <2>2 DEF HostShape
    <2> QED  BY <1>3, <2>1, <2>3, <2>4 DEF new
<1> QED  BY <1>2, <1>3

\* The firewall's unit is the firewall requests' alone.
Spares(req) == req.family = "systemd" => req.name # FirewallUnit

LEMMA ProperKept ==
    ASSUME NEW h, HostShape(h), Proper(h), NEW cmd, NEW req, Spares(req), CmdFor(cmd, req)
    PROVE  Proper(Apply(h, cmd))
<1> DEFINE new == Apply(h, cmd)
           r == RuleOf(req)
           rules == h.running \cup h.permanent
<1>1. \A x \in ItemsOf(r) : x \in ItemsOf(AsRule(x))
    BY ItemsMine
<1>2. \A i \in rules : i \in ItemsOf(AsRule(i))
    BY DEF Proper
<1>3. \A i \in new.running \cup new.permanent : i \in rules \/ i \in ItemsOf(r)
    <2>1. CASE UnitFor(cmd, req)
        BY <2>1, UnitDoes DEF Spares, UnitFor
    <2>2. CASE PackageFor(cmd, req)
        BY <2>2, PackageDoes
    <2>3. CASE ToggleFor(cmd, req)
        BY <2>3, ToggleDoes
    <2>4. CASE UfwFor(cmd, req)
        <3> DEFINE item == Item("ufw", "both", r)
        <3>1. item \in ItemsOf(r)
            BY <2>4 DEF ItemsOf, UfwFor, Stepwise
        <3>2. \/ /\ new.running = {i \in h.running : ~SameRule(i, item)} \cup {item}
                 /\ new.permanent = new.running
              \/ new.running = h.running \ {item} /\ new.permanent = h.permanent \ {item}
            BY <2>4, UfwDoes
        <3> HIDE DEF new, item, r
        <3> QED  BY <3>1, <3>2
    <2>5. CASE FirewalldFor(cmd, req)
        <3>1. \/ new.running = h.permanent /\ new.permanent = h.permanent
              \/ /\ cmd.arg \in ItemsOf(r) /\ new.running = h.running
                 /\ \/ new.permanent = h.permanent \cup {cmd.arg}
                    \/ new.permanent = h.permanent \ {cmd.arg}
            BY <2>5, FirewalldDoes
        <3> HIDE DEF new, r
        <3> QED  BY <3>1
    <2> QED  BY <2>1, <2>2, <2>3, <2>4, <2>5 DEF CmdFor
<1> HIDE DEF new, r, rules
<1>4. Proper(new)
    BY <1>1, <1>2, <1>3 DEF Proper
<1> QED  BY <1>4 DEF new

-----------------------------------------------------------------------------
(* Another client's command *)

\* Two requests that concern different things.
Unrelated(req, other) ==
    /\ req.family = "systemd" /\ other.family = "systemd" => req.name # other.name
    /\ req.family = "packages" /\ other.family = "packages"
       /\ req.verb \in {"install", "remove"} /\ other.verb \in {"install", "remove"}
          => req.name # other.name
    /\ IsRule(req) /\ IsRule(other) => ~SameRule(RuleOf(req), RuleOf(other))

\* It leaves the items of a rule where they are.
LEMMA ItemsLeftAlone ==
    ASSUME NEW h, HostShape(h), NEW cmd, NEW req, NEW other, CmdFor(cmd, other), Spares(other),
           Unrelated(req, other), IsRule(req), NEW x \in ItemsOf(RuleOf(req))
    PROVE  LET new == Apply(h, cmd) IN
           /\ Stepwise(req) => (x \in new.permanent <=> x \in h.permanent)
           /\ (x \in h.running <=> x \in h.permanent) =>
                 /\ x \in new.running <=> x \in new.permanent
                 /\ x \in new.permanent <=> x \in h.permanent
<1> DEFINE new == Apply(h, cmd)
           s == RuleOf(other)
<1>0. IsRule(other) => \A y \in ItemsOf(s) : x # y /\ ~SameRule(x, y)
    BY ItemsApart DEF Unrelated
<1>1. CASE UnitFor(cmd, other)
    BY <1>1, UnitDoes DEF Spares, UnitFor
<1>2. CASE PackageFor(cmd, other)
    BY <1>2, PackageDoes
<1>3. CASE ToggleFor(cmd, other)
    BY <1>3, ToggleDoes
<1>4. CASE UfwFor(cmd, other)
    <2> DEFINE item == Item("ufw", "both", s)
    <2>1. item \in ItemsOf(s) /\ IsRule(other) /\ ~Stepwise(req)
        BY <1>4 DEF ItemsOf, UfwFor, Stepwise
    <2>2. x # item /\ ~SameRule(x, item)
        BY <1>0, <2>1
    <2>3. \/ /\ new.running = {i \in h.running : ~SameRule(i, item)} \cup {item}
             /\ new.permanent = new.running
          \/ new.running = h.running \ {item} /\ new.permanent = h.permanent \ {item}
        BY <1>4, UfwDoes
    <2> HIDE DEF new, item, s
    <2>4. (x \in h.running <=> x \in h.permanent) =>
                 /\ x \in new.running <=> x \in new.permanent
                 /\ x \in new.permanent <=> x \in h.permanent
        BY <2>2, <2>3
    <2> QED  BY <2>1, <2>4 DEF new
<1>5. CASE FirewalldFor(cmd, other)
    <2>1. IsRule(other)
        BY <1>5 DEF FirewalldFor, Stepwise
    <2>2. \/ new.running = h.permanent /\ new.permanent = h.permanent
          \/ /\ cmd.arg \in ItemsOf(s) /\ new.running = h.running
             /\ \/ new.permanent = h.permanent \cup {cmd.arg}
                \/ new.permanent = h.permanent \ {cmd.arg}
        BY <1>5, FirewalldDoes
    <2> HIDE DEF new, s
    <2>3. x \in new.permanent <=> x \in h.permanent
        BY <1>0, <2>1, <2>2
    <2>4. (x \in h.running <=> x \in h.permanent) => (x \in new.running <=> x \in new.permanent)
        BY <1>0, <2>1, <2>2
    <2> QED  BY <2>3, <2>4 DEF new
<1> QED  BY <1>1, <1>2, <1>3, <1>4, <1>5 DEF CmdFor

LEMMA EffectLasts ==
    ASSUME NEW h, HostShape(h), NEW cmd, NEW req, NEW other, CmdFor(cmd, other), Spares(other),
           Unrelated(req, other), TookEffect(h, req)
    PROVE  TookEffect(Apply(h, cmd), req)
<1> DEFINE new == Apply(h, cmd)
<1>1. IsRule(req) /\ ~Divided(req) => \A x \in ItemsOf(RuleOf(req)) :
          Placed(new, req, x) /\ (x \in new.running <=> x \in new.permanent)
    <2> SUFFICES ASSUME IsRule(req), ~Divided(req), NEW x \in ItemsOf(RuleOf(req))
                 PROVE  Placed(new, req, x) /\ (x \in new.running <=> x \in new.permanent)
        OBVIOUS
    <2>1. Placed(h, req, x) /\ (x \in h.running <=> x \in h.permanent)
        BY DEF TookEffect
    <2>2. /\ x \in new.running <=> x \in new.permanent
          /\ x \in new.permanent <=> x \in h.permanent
        BY <2>1, ItemsLeftAlone
    <2> HIDE DEF new
    <2> QED  BY <2>1, <2>2 DEF Placed
<1>2. /\ req.family = "packages" /\ req.verb \in {"install", "remove"} =>
            (req.name \in new.installed <=> req.name \in h.installed)
      /\ req.family = "systemd" => (req.name \in new.active <=> req.name \in h.active)
    <2>1. CASE UnitFor(cmd, other)
        BY <2>1, UnitDoes DEF Spares, UnitFor, Unrelated
    <2>2. CASE PackageFor(cmd, other)
        BY <2>2, PackageDoes DEF PackageFor, Unrelated
    <2>3. CASE ToggleFor(cmd, other)
        BY <2>3, ToggleDoes
    <2>4. CASE UfwFor(cmd, other)
        BY <2>4, UfwDoes
    <2>5. CASE FirewalldFor(cmd, other)
        BY <2>5, FirewalldDoes
    <2> QED  BY <2>1, <2>2, <2>3, <2>4, <2>5 DEF CmdFor
<1> HIDE DEF new
<1>3. TookEffect(new, req)
    BY <1>1, <1>2 DEF TookEffect
<1> QED  BY <1>3 DEF new

LEMMA StaysReady ==
    ASSUME NEW h, HostShape(h), NEW cmd, NEW req, NEW other, CmdFor(cmd, other), Spares(other),
           Unrelated(req, other), NEW todo, Ready(h, req, todo)
    PROVE  Ready(Apply(h, cmd), req, todo)
<1> DEFINE new == Apply(h, cmd)
<1>1. \A x \in ItemsOf(RuleOf(req)) : Stepwise(req) => (Placed(h, req, x) <=> Placed(new, req, x))
    <2> SUFFICES ASSUME Stepwise(req), NEW x \in ItemsOf(RuleOf(req))
                 PROVE  Placed(h, req, x) <=> Placed(new, req, x)
        OBVIOUS
    <2>1. x \in new.permanent <=> x \in h.permanent
        BY ItemsLeftAlone DEF Stepwise
    <2> HIDE DEF new
    <2> QED  BY <2>1 DEF Placed
<1> HIDE DEF new
<1>2. Ready(new, req, todo)
    BY <1>1 DEF Ready, Finishes, Sequential
<1> QED  BY <1>2 DEF new

-----------------------------------------------------------------------------
(* A client's own command *)

LEMMA LastCommand ==
    ASSUME NEW h, HostShape(h), NEW req, Spares(req), NEW todo, Ready(h, req, todo), Len(todo) = 1
    PROVE  TookEffect(Apply(h, todo[1]), req)
<1> DEFINE cmd == todo[1]
           new == Apply(h, cmd)
           r == RuleOf(req)
<1>0. CmdFor(cmd, req)
    BY DEF Ready
<1>1. CASE UnitFor(cmd, req)
    BY <1>1, UnitDoes DEF Spares, UnitFor, TookEffect, IsRule, IsFirewall
<1>2. CASE PackageFor(cmd, req)
    BY <1>2, PackageDoes DEF PackageFor, TookEffect, IsRule, IsFirewall
<1>3. CASE ToggleFor(cmd, req)
    BY <1>3 DEF ToggleFor, TookEffect, IsFirewall
<1>4. CASE UfwFor(cmd, req)
    <2> DEFINE item == Item("ufw", "both", r)
    <2>1. ItemsOf(r) = {item} /\ IsRule(req)
        BY <1>4 DEF ItemsOf, UfwFor, Stepwise
    <2>2. /\ req.verb # "delete" =>
               /\ new.running = {i \in h.running : ~SameRule(i, item)} \cup {item}
               /\ new.permanent = new.running
          /\ req.verb = "delete" =>
               new.running = h.running \ {item} /\ new.permanent = h.permanent \ {item}
        BY <1>4, UfwDoes
    <2> HIDE DEF new, item, r
    <2>3. \A x \in ItemsOf(r) : Placed(new, req, x) /\ (x \in new.running <=> x \in new.permanent)
        BY <2>1, <2>2 DEF Placed
    <2>4. TookEffect(new, req)
        BY <2>1, <2>3 DEF TookEffect, IsRule, IsFirewall, r
    <2> QED  BY <2>4 DEF new
<1>5. CASE FirewalldFor(cmd, req)
    <2>1. Stepwise(req) /\ IsRule(req)
        BY <1>5 DEF FirewalldFor, Stepwise
    <2>2. CASE Divided(req)
        BY <2>1, <2>2 DEF TookEffect, IsRule, IsFirewall
    <2>3. CASE ~Divided(req)
        <3>1. cmd.do = "reload" /\ \A x \in ItemsOf(r) : Placed(h, req, x)
            BY <2>1, <2>3, SequentialOrDivided DEF Ready, Finishes
        <3>2. new.running = h.permanent /\ new.permanent = h.permanent
            BY <1>5, <3>1, FirewalldDoes
        <3> HIDE DEF new, r
        <3>3. \A x \in ItemsOf(r) : Placed(new, req, x) /\ (x \in new.running <=> x \in new.permanent)
            BY <3>1, <3>2 DEF Placed
        <3>4. TookEffect(new, req)
            BY <2>1, <3>3 DEF TookEffect, IsRule, IsFirewall, r
        <3> QED  BY <3>4 DEF new
    <2> QED  BY <2>2, <2>3
<1> QED  BY <1>0, <1>1, <1>2, <1>3, <1>4, <1>5 DEF CmdFor

LEMMA OneOfMany ==
    ASSUME NEW h, HostShape(h), NEW req, NEW S, NEW todo \in Seq(S), Ready(h, req, todo),
           Len(todo) \notin {0, 1}
    PROVE  Ready(Apply(h, todo[1]), req, Tail(todo))
<1> DEFINE cmd == todo[1]
           new == Apply(h, cmd)
           r == RuleOf(req)
           rest == Tail(todo)
           n == Len(todo)
<1>0. n \in Nat /\ n > 1
    <2>1. n \in Nat
        BY LenProperties
    <2>2. n # 0 /\ n # 1
        OBVIOUS
    <2> HIDE DEF n
    <2> QED  BY <2>1, <2>2
<1>1. Len(rest) = n - 1 /\ \A i \in 1..(n - 1) : rest[i] = todo[i + 1]
    <2>1. todo # <<>>
        BY <1>0
    <2> QED  BY <1>0, <2>1, HeadTailProperties
<1> HIDE DEF rest, n
<1>2. Stepwise(req) /\ Sequential(req)
    BY <1>0 DEF Ready, Finishes, Sequential, n
<1>3. /\ \A i \in 1..n : CmdFor(todo[i], req)
      /\ \A i \in 1..n : todo[i].do = "reload" <=> i = n
      /\ \A x \in ItemsOf(r) :
            Placed(h, req, x) \/ \E i \in 1..n : todo[i].do # "reload" /\ todo[i].arg = x
    BY <1>2 DEF Ready, Finishes, n
<1>4. FirewalldFor(cmd, req) /\ cmd.do # "reload"
    <2>1. CmdFor(cmd, req) /\ cmd.do # "reload"
        BY <1>0, <1>3
    <2> QED  BY <1>2, <2>1 DEF CmdFor, UnitFor, PackageFor, ToggleFor, UfwFor, Stepwise, IsRule, IsFirewall
<1>5. \/ req.verb # "delete" /\ new.permanent = h.permanent \cup {cmd.arg}
      \/ req.verb = "delete" /\ new.permanent = h.permanent \ {cmd.arg}
    BY <1>4, FirewalldDoes
<1> HIDE DEF new, cmd, r
<1>6. Placed(new, req, cmd.arg) /\ \A x : Placed(h, req, x) => Placed(new, req, x)
    BY <1>5 DEF Placed
<1>7. \A i \in 1..Len(rest) : CmdFor(rest[i], req)
    <2> SUFFICES ASSUME NEW i \in 1..Len(rest) PROVE CmdFor(rest[i], req)
        OBVIOUS
    <2>1. i + 1 \in 1..n /\ rest[i] = todo[i + 1]
        BY <1>0, <1>1
    <2> QED  BY <1>3, <2>1
<1>8. \A i \in 1..Len(rest) : rest[i].do = "reload" <=> i = Len(rest)
    BY <1>0, <1>1, <1>3
<1>9. ASSUME NEW x \in ItemsOf(r)
      PROVE  Placed(new, req, x) \/ \E i \in 1..Len(rest) : rest[i].do # "reload" /\ rest[i].arg = x
    <2> SUFFICES ASSUME ~Placed(new, req, x)
                 PROVE  \E i \in 1..Len(rest) : rest[i].do # "reload" /\ rest[i].arg = x
        OBVIOUS
    <2>1. PICK i \in 1..n : todo[i].do # "reload" /\ todo[i].arg = x
        BY <1>3, <1>6
    <2>2. i # 1
        BY <1>6, <2>1 DEF cmd
    <2>3. i - 1 \in 1..Len(rest) /\ rest[i - 1] = todo[i]
        BY <1>0, <1>1, <2>2
    <2> QED  BY <2>1, <2>3
<1>10. Ready(new, req, rest)
    BY <1>2, <1>7, <1>8, <1>9 DEF Ready, Finishes, r
<1> QED  BY <1>10 DEF new, rest, cmd

-----------------------------------------------------------------------------
(* What success means *)

LEMMA EffectMeans ==
    ASSUME Proper(host), NEW req, Planned(req), TookEffect(host, req), ~Divided(req)
    PROVE  Effective(req)
<1> DEFINE r == RuleOf(req)
<1>1. ASSUME IsRule(req), req.verb # "delete" PROVE \A f \in Families(r.source) : Listed(r, f)
    <2>1. \A x \in ItemsOf(r) : x \in host.running /\ x.target = r.action /\ SameRule(x, r)
        BY <1>1, ItemNames DEF TookEffect, Placed
    <2>2. \A f \in Families(r.source) : \E x \in ItemsOf(r) : x.family \in {f, "both"}
        <3> HIDE DEF r
        <3>1. \A shape, family : Item(shape, family, r).family = family
            BY DEF Item
        <3>2. r.source # "any" => Families(r.source) = {FamilyOf(r.source)}
            BY DEF Families
        <3>3. r.source = "any" => Families(r.source) = {"ipv4", "ipv6"}
            BY DEF Families
        <3> QED  BY <3>1, <3>2, <3>3, ItemsAre
    <2> HIDE DEF r
    <2> QED  BY <2>1, <2>2 DEF Listed
<1>2. ASSUME IsRule(req), req.verb = "delete" PROVE \A f \in {"ipv4", "ipv6"} : ~Listed(r, f)
    <2> SUFFICES ASSUME NEW i \in host.running, SameRule(i, r), i.target = r.action PROVE FALSE
        BY DEF Listed
    <2>1. r = [action |-> r.action, port |-> r.port, protocol |-> r.protocol, source |-> r.source]
        BY RuleRecord
    <2> HIDE DEF r
    <2>2. AsRule(i) = r
        BY <2>1 DEF AsRule, SameRule
    <2>3. i \in ItemsOf(r)
        BY <2>2 DEF Proper
    <2> QED  BY <1>2, <2>3 DEF TookEffect, Placed, r
<1>3. r = ParseFirewallRule(IF req.verb = "delete" THEN req.rule.action ELSE req.verb, req.rule).rule
    BY DEF RuleOf
<1> HIDE DEF r
<1>4. CASE req.family = "packages"
    <2>1. req.verb \in {"refresh", "upgrade", "install", "remove"}
        BY <1>4 DEF Planned, PackageVerbs
    <2> QED  BY <1>4, <2>1 DEF Effective, TookEffect
<1>5. CASE req.family = "systemd"
    <2>1. req.verb \in {"start", "stop", "restart", "reload", "enable", "disable"}
        BY <1>5 DEF Planned, SystemdVerbs
    <2> QED  BY <1>5, <2>1 DEF Effective, TookEffect
<1>6. CASE IsFirewall(req)
    <2>1. req.verb \in {"enable", "disable", "allow", "deny", "delete"}
        BY <1>6 DEF Planned, IsFirewall, FirewallVerbs
    <2>2. req.verb \in {"allow", "deny", "delete"} => IsRule(req)
        BY <1>6 DEF IsRule, RuleVerbs
    <2>3. CASE req.verb \in {"allow", "deny"}
        <3>1. Effective(req) <=> \A f \in Families(r.source) : Listed(r, f)
            BY <1>3, <1>6, <2>3 DEF Effective, IsFirewall
        <3> QED  BY <1>1, <2>2, <2>3, <3>1
    <2>4. CASE req.verb = "delete"
        <3>1. Effective(req) <=> \A f \in {"ipv4", "ipv6"} : ~Listed(r, f)
            BY <1>3, <1>6, <2>4 DEF Effective, IsFirewall
        <3> QED  BY <1>2, <2>2, <2>4, <3>1
    <2>5. CASE req.verb \in {"enable", "disable"}
        BY <1>6, <2>5 DEF Effective, IsFirewall
    <2> QED  BY <2>1, <2>3, <2>4, <2>5
<1> QED  BY <1>4, <1>5, <1>6 DEF IsFirewall

-----------------------------------------------------------------------------
(* The commands of an attempt finish its request *)

LEMMA OneReady ==
    ASSUME NEW h, NEW req, ~Sequential(req), NEW cmd, CmdFor(cmd, req) PROVE Ready(h, req, <<cmd>>)
<1> DEFINE todo == <<cmd>>
<1>1. Len(todo) = 1 /\ todo[1] = cmd
    OBVIOUS
<1> HIDE DEF todo
<1>2. \A i \in 1..Len(todo) : todo[i] = cmd
    BY <1>1
<1>3. Ready(h, req, todo)
    BY <1>1, <1>2 DEF Ready, Finishes
<1> QED  BY <1>3 DEF todo

LEMMA AppendAt ==
    ASSUME NEW S, NEW s \in Seq(S), NEW a \in S
    PROVE  /\ Append(s, a) \in Seq(S) /\ Len(Append(s, a)) = Len(s) + 1
           /\ \A i \in 1..Len(s) : Append(s, a)[i] = s[i]
           /\ Append(s, a)[Len(s) + 1] = a
BY AppendProperties

LEMMA Appended ==
    ASSUME NEW a, NEW b, NEW c
    PROVE  /\ Len(Append(<<a>>, b)) = 2 /\ Append(<<a>>, b)[1] = a /\ Append(<<a>>, b)[2] = b
           /\ Len(Append(<<a, b>>, c)) = 3 /\ Append(<<a, b>>, c)[1] = a
           /\ Append(<<a, b>>, c)[2] = b /\ Append(<<a, b>>, c)[3] = c
<1> DEFINE S == {a, b, c}
           s == <<a>>
           t == <<a, b>>
           u == Append(s, b)
           v == Append(t, c)
<1>1. s \in Seq(S) /\ t \in Seq(S) /\ b \in S /\ c \in S
    OBVIOUS
<1>2. Len(s) = 1 /\ s[1] = a /\ Len(t) = 2 /\ t[1] = a /\ t[2] = b
    OBVIOUS
<1> HIDE DEF S, s, t
<1>3. Len(u) = Len(s) + 1 /\ (\A i \in 1..Len(s) : u[i] = s[i]) /\ u[Len(s) + 1] = b
    BY <1>1, AppendAt
<1>4. Len(v) = Len(t) + 1 /\ (\A i \in 1..Len(t) : v[i] = t[i]) /\ v[Len(t) + 1] = c
    BY <1>1, AppendAt
<1> HIDE DEF u, v
<1>5. Len(u) = 2 /\ u[1] = a /\ u[2] = b
    BY <1>2, <1>3
<1>6. Len(v) = 3 /\ v[1] = a /\ v[2] = b /\ v[3] = c
    BY <1>2, <1>4
<1> QED  BY <1>5, <1>6 DEF u, v, s, t

FirewalldEdits(verb, r) ==
    LET items == FirewalldItems(r)
    IN  [i \in DOMAIN items |-> Cmd("firewall-cmd", Edit(verb), items[i])]

LEMMA FirewalldRuleCommands ==
    ASSUME NEW backend, NEW verb, NEW r, backend # "ufw"
    PROVE  /\ r.protocol = "any" => RuleCommands(backend, verb, r) = Refused
           /\ r.protocol # "any" =>
                 RuleCommands(backend, verb, r).commands
                 = Append(FirewalldEdits(verb, r), Cmd("firewall-cmd", "reload", ""))
<1> DEFINE cmds == FirewalldEdits(verb, r)
           reload == Cmd("firewall-cmd", "reload", "")
<1>1. r.protocol = "any" => RuleCommands(backend, verb, r) = Refused
    BY DEF RuleCommands
<1>2. r.protocol # "any" =>
          RuleCommands(backend, verb, r) = [ok |-> TRUE, commands |-> Append(cmds, reload)]
    BY DEF RuleCommands, FirewalldEdits
<1> HIDE DEF cmds, reload
<1>3. r.protocol # "any" => RuleCommands(backend, verb, r).commands = Append(cmds, reload)
    BY <1>2
<1> QED  BY <1>1, <1>3 DEF cmds, reload

\* The edits of firewalld and the reload behind them.
LEMMA EditsReady ==
    ASSUME NEW h, NEW req, Stepwise(req)
    PROVE  LET todo == Append(FirewalldEdits(req.verb, RuleOf(req)), Cmd("firewall-cmd", "reload", ""))
           IN  /\ Len(todo) \in Nat
               /\ \A i \in 1..Len(todo) : CmdFor(todo[i], req)
               /\ Sequential(req) => Ready(h, req, todo)
<1> DEFINE r == RuleOf(req)
           items == FirewalldItems(r)
           C(x) == Cmd("firewall-cmd", Edit(req.verb), x)
           cmds == FirewalldEdits(req.verb, r)
           reload == Cmd("firewall-cmd", "reload", "")
           steps == Append(cmds, reload)
<1>1. FirewalldFor(reload, req) /\ reload.do = "reload"
    BY DEF FirewalldFor, Cmd
<1>2. \A x : C(x).tool = "firewall-cmd" /\ C(x).do = Edit(req.verb) /\ C(x).arg = x
    BY DEF Cmd
<1>3. Edit(req.verb) # "reload"
    BY DEF Edit
<1>4. \A x \in ItemsOf(r) : CmdFor(C(x), req)
    <2> HIDE DEF C
    <2> QED  BY <1>2 DEF CmdFor, FirewalldFor
<1>5. \/ \E x : items = <<x>> /\ ItemsOf(r) = {x}
      \/ \E x, y : items = <<x, y>> /\ ItemsOf(r) = {x, y}
    BY ItemsAre DEF Stepwise
<1>9. cmds = [i \in DOMAIN items |-> C(items[i])]
    BY DEF FirewalldEdits
<1> DEFINE Good(t) == /\ Len(t) \in Nat /\ \A i \in 1..Len(t) : CmdFor(t[i], req)
                      /\ Sequential(req) => Ready(h, req, t)
<1> HIDE DEF r, items, reload, cmds
<1>6. ASSUME NEW x, items = <<x>>, ItemsOf(r) = {x} PROVE Good(steps)
    <2>1. cmds = <<C(x)>>
        BY <1>6, <1>9
    <2> HIDE DEF C
    <2>3. Len(steps) = 2 /\ steps[1] = C(x) /\ steps[2] = reload
        BY <2>1, Appended
    <2> HIDE DEF steps
    <2>4. \A i \in 1..Len(steps) : i = 1 \/ i = 2
        BY <2>3
    <2>5. \A i \in 1..Len(steps) : CmdFor(steps[i], req)
        BY <1>1, <1>4, <1>6, <2>3, <2>4 DEF CmdFor
    <2>6. \A i \in 1..Len(steps) : steps[i].do = "reload" <=> i = Len(steps)
        BY <1>1, <1>2, <1>3, <2>3, <2>4
    <2>7. 1 \in 1..Len(steps) /\ steps[1].do # "reload" /\ steps[1].arg = x
        BY <1>2, <1>3, <2>3
    <2>8. Sequential(req) => Ready(h, req, steps)
        BY <1>6, <2>5, <2>6, <2>7 DEF Ready, Finishes, r
    <2> QED  BY <2>3, <2>5, <2>8
<1>7. ASSUME NEW x, NEW y, items = <<x, y>>, ItemsOf(r) = {x, y} PROVE Good(steps)
    <2>1. cmds = <<C(x), C(y)>>
        BY <1>7, <1>9
    <2> HIDE DEF C
    <2>3. Len(steps) = 3 /\ steps[1] = C(x) /\ steps[2] = C(y) /\ steps[3] = reload
        BY <2>1, Appended
    <2> HIDE DEF steps
    <2>4. \A i \in 1..Len(steps) : i = 1 \/ i = 2 \/ i = 3
        BY <2>3
    <2>5. \A i \in 1..Len(steps) : CmdFor(steps[i], req)
        BY <1>1, <1>4, <1>7, <2>3, <2>4 DEF CmdFor
    <2>6. \A i \in 1..Len(steps) : steps[i].do = "reload" <=> i = Len(steps)
        BY <1>1, <1>2, <1>3, <2>3, <2>4
    <2>7. /\ 1 \in 1..Len(steps) /\ steps[1].do # "reload" /\ steps[1].arg = x
          /\ 2 \in 1..Len(steps) /\ steps[2].do # "reload" /\ steps[2].arg = y
        BY <1>2, <1>3, <2>3
    <2>8. Sequential(req) => Ready(h, req, steps)
        BY <1>7, <2>5, <2>6, <2>7 DEF Ready, Finishes, r
    <2> QED  BY <2>3, <2>5, <2>8
<1>8. Good(steps)
    BY <1>5, <1>6, <1>7
<1> QED  BY <1>8 DEF r, cmds, reload

\* The commands of a firewall operation. The helper's finish it.
LEMMA FirewallReady ==
    ASSUME NEW h, NEW req, IsFirewall(req), Planned(req), NEW r, IsRule(req) => r = RuleOf(req),
           FirewallCommand(Backend, req.verb, r).ok
    PROVE  LET todo == FirewallCommand(Backend, req.verb, r).commands
           IN  /\ Len(todo) \in Nat /\ \A i \in 1..Len(todo) : CmdFor(todo[i], req)
               /\ Routed("firewall") \/ ~Stepwise(req) => Ready(h, req, todo)
<1> DEFINE todo == FirewallCommand(Backend, req.verb, r).commands
           Good(t) == /\ Len(t) \in Nat /\ \A i \in 1..Len(t) : CmdFor(t[i], req)
                      /\ Routed("firewall") \/ ~Stepwise(req) => Ready(h, req, t)
<1>0. ASSUME NEW cmd, CmdFor(cmd, req), ~Stepwise(req) PROVE Good(<<cmd>>)
    <2>1. Len(<<cmd>>) = 1 /\ Ready(h, req, <<cmd>>)
        BY <1>0, OneReady DEF Sequential
    <2> QED  BY <2>1 DEF Ready
<1>1. CASE ~IsRule(req)
    <2>1. req.verb \in {"enable", "disable"}
        BY <1>1 DEF Planned, IsFirewall, IsRule, FirewallVerbs, RuleVerbs
    <2> DEFINE ufw == Cmd("ufw", req.verb, "")
               unit == Cmd("systemctl", IF req.verb = "enable" THEN "start" ELSE "stop", FirewallUnit)
    <2>2. todo = <<ufw>> \/ todo = <<unit>>
        BY <2>1 DEF FirewallCommand, ToggleCommands, RuleVerbs
    <2>6. ToggleFor(ufw, req) /\ ToggleFor(unit, req)
        BY <1>1, <2>1 DEF ToggleFor, Cmd
    <2> HIDE DEF ufw, unit, todo
    <2>3. PICK cmd : todo = <<cmd>> /\ ToggleFor(cmd, req)
        BY <2>2, <2>6
    <2>4. ~Stepwise(req) /\ CmdFor(cmd, req)
        BY <1>1, <2>3 DEF Stepwise, CmdFor
    <2> QED  BY <1>0, <2>3, <2>4 DEF todo
<1>2. CASE IsRule(req)
    <2>1. FirewallCommand(Backend, req.verb, r) = RuleCommands(Backend, req.verb, RuleOf(req))
        BY <1>2 DEF FirewallCommand, IsRule
    <2>2. CASE Backend = "ufw"
        <3> DEFINE cmd == Cmd("ufw", Edit(req.verb), Item("ufw", "both", RuleOf(req)))
        <3>1. todo = <<cmd>>
            BY <2>1, <2>2 DEF RuleCommands
        <3>2. ~Stepwise(req) /\ CmdFor(cmd, req)
            BY <1>2, <2>2 DEF Stepwise, CmdFor, UfwFor, Cmd
        <3> HIDE DEF todo, cmd
        <3> QED  BY <1>0, <3>1, <3>2 DEF todo
    <2>3. CASE Backend # "ufw"
        <3>1. Stepwise(req)
            BY <1>2, <2>3 DEF Stepwise
        <3>2. RuleCommands(Backend, req.verb, RuleOf(req)) # Refused
            BY <2>1 DEF Refused
        <3> DEFINE cmds == FirewalldEdits(req.verb, RuleOf(req))
        <3>3. RuleCommands(Backend, req.verb, RuleOf(req)).commands
              = Append(cmds, Cmd("firewall-cmd", "reload", ""))
            BY <2>3, <3>2, FirewalldRuleCommands
        <3>4. Good(Append(cmds, Cmd("firewall-cmd", "reload", "")))
            BY <3>1, EditsReady DEF Sequential
        <3> HIDE DEF cmds, Good
        <3>5. Good(todo)
            BY <2>1, <3>3, <3>4
        <3> QED  BY <3>5 DEF Good
    <2> QED  BY <2>2, <2>3
<1> QED  BY <1>1, <1>2

-----------------------------------------------------------------------------
(* What the helper runs, and what the daemon plans *)

LEMMA FirewallArgvIs ==
    ASSUME NEW verb \in FirewallVerbs, NEW r
    PROVE  LET v == FirewallArgv(verb, r) IN
           /\ v[1] = "firewall" /\ v[2] = verb
           /\ verb \in {"allow", "deny"} => v[3] = r.port /\ v[4] = r.protocol /\ v[5] = r.source
           /\ verb = "delete" =>
                 v[3] = r.action /\ v[4] = r.port /\ v[5] = r.protocol /\ v[6] = r.source
<1> DEFINE a == r.action
           p == r.port
           q == r.protocol
           s == r.source
           v == FirewallArgv(verb, r)
<1>1. v = <<"firewall", verb>> \o (IF verb = "delete" THEN <<a>> ELSE <<>>)
          \o (IF verb \in RuleVerbs THEN <<p, q, s>> ELSE <<>>)
    BY DEF FirewallArgv
<1> HIDE DEF a, p, q, s, v
<1>2. CASE verb \in {"allow", "deny"}
    <2>1. v = <<"firewall", verb>> \o <<>> \o <<p, q, s>>
        BY <1>1, <1>2 DEF RuleVerbs
    <2>2. v[1] = "firewall" /\ v[2] = verb /\ v[3] = p /\ v[4] = q /\ v[5] = s
        BY <2>1
    <2> QED  BY <1>2, <2>2 DEF p, q, s, v
<1>3. CASE verb = "delete"
    <2>1. v = <<"firewall", verb>> \o <<a>> \o <<p, q, s>>
        BY <1>1, <1>3 DEF RuleVerbs
    <2>2. v[1] = "firewall" /\ v[2] = verb /\ v[3] = a /\ v[4] = p /\ v[5] = q /\ v[6] = s
        BY <2>1
    <2> QED  BY <1>3, <2>2 DEF a, p, q, s, v
<1>4. CASE verb \in {"enable", "disable"}
    <2>1. v = <<"firewall", verb>> \o <<>> \o <<>>
        BY <1>1, <1>4 DEF RuleVerbs
    <2>2. v[1] = "firewall" /\ v[2] = verb
        BY <2>1
    <2> QED  BY <1>4, <2>2 DEF v
<1> QED  BY <1>2, <1>3, <1>4 DEF FirewallVerbs

LEMMA PackageArgvIs ==
    ASSUME NEW req
    PROVE  LET v == PackageArgv(req.verb, req.name) IN
           /\ v[1] = "packages" /\ v[2] = req.verb
           /\ (IF Len(v) = 3 THEN v[3] ELSE "") = req.name
<1> DEFINE v == PackageArgv(req.verb, req.name)
           verb == req.verb
           name == req.name
<1>1. CASE name = ""
    <2>1. v = <<"packages", verb>> \o <<>>
        BY <1>1 DEF PackageArgv
    <2> HIDE DEF v, verb
    <2>2. v[1] = "packages" /\ v[2] = verb /\ Len(v) = 2
        BY <2>1
    <2>3. Len(v) # 3
        BY <2>2
    <2>4. (IF Len(v) = 3 THEN v[3] ELSE "") = req.name
        BY <1>1, <2>3, Zenon
    <2> QED  BY <2>2, <2>4 DEF v, verb
<1>2. CASE name # ""
    <2>1. v = <<"packages", verb>> \o <<name>>
        BY <1>2 DEF PackageArgv
    <2> HIDE DEF v, verb, name
    <2>2. v[1] = "packages" /\ v[2] = verb /\ Len(v) = 3 /\ v[3] = name
        BY <2>1
    <2>3. (IF Len(v) = 3 THEN v[3] ELSE "") = name
        BY <2>2
    <2> QED  BY <2>2, <2>3 DEF v, verb, name
<1> QED  BY <1>1, <1>2

\* The helper parses a rule again that the daemon has already put into its form.
LEMMA ParsedAgain ==
    ASSUME NEW req
    PROVE  LET r == RuleOf(req) IN
           ParseFirewallRule(r.action, [port |-> r.port, protocol |-> r.protocol, source |-> r.source]).rule
           = r
<1> DEFINE r == RuleOf(req)
<1>1. /\ r = [action |-> r.action, port |-> r.port, protocol |-> r.protocol, source |-> r.source]
      /\ r.protocol # "" /\ r.source # ""
    BY RuleRecord
<1> HIDE DEF r
<1>2. ParseFirewallRule(r.action, [port |-> r.port, protocol |-> r.protocol, source |-> r.source]).rule
      = [action |-> r.action, port |-> r.port, protocol |-> r.protocol, source |-> r.source]
    BY <1>1 DEF ParseFirewallRule
<1> QED  BY <1>1, <1>2 DEF r

LEMMA PackageReady ==
    ASSUME NEW h, NEW req, req.family = "packages", NEW manager \in Range(PackageManagerPreference),
           PackageCommand(manager, req.verb, req.name).ok
    PROVE  /\ PackageFor(PackageCommand(manager, req.verb, req.name).commands[1], req)
           /\ PackageCommand(manager, req.verb, req.name).commands
              = <<PackageCommand(manager, req.verb, req.name).commands[1]>>
           /\ Ready(h, req, PackageCommand(manager, req.verb, req.name).commands)
<1> DEFINE cmd == Cmd(ManagerBinary(manager, req.verb), req.verb, req.name)
<1>1. PackageCommand(manager, req.verb, req.name).commands = <<cmd>>
    BY DEF PackageCommand, Refused
<1>2. manager \in {"apt", "dnf", "yum", "pacman", "zypper", "apk", "xbps"}
    BY DEF Range, PackageManagerPreference
<1>3. ManagerBinary(manager, req.verb) \notin {"ufw", "firewall-cmd", "systemctl"}
    BY <1>2 DEF ManagerBinary
<1>4. PackageFor(cmd, req)
    BY <1>3 DEF PackageFor, Cmd
<1>5. ~Stepwise(req) /\ CmdFor(cmd, req)
    BY <1>4 DEF Stepwise, IsRule, IsFirewall, CmdFor
<1> HIDE DEF cmd
<1>6. Ready(h, req, <<cmd>>)
    BY <1>5, OneReady DEF Sequential
<1>7. <<cmd>>[1] = cmd
    OBVIOUS
<1> QED  BY <1>1, <1>4, <1>6, <1>7

LEMMA HelperReady ==
    ASSUME NEW h, NEW req, Planned(req), IsFirewall(req) => Routed("firewall"),
           HelperRun(ArgvOf(req)).exit = ExitOK
    PROVE  Ready(h, req, HelperRun(ArgvOf(req)).commands)
<1> DEFINE g == machine.grants
           argv == ArgvOf(req)
           verb == argv[2]
           granted == GrantedCommands(argv, g)
<1>1. LoadSet(g) /\ granted.ok /\ HelperRun(argv).commands = granted.commands
    BY HelperAnswer
<1>2. CASE req.family = "systemd"
    <2> DEFINE cmd == Cmd("systemctl", req.verb, req.name)
    <2>1. argv[1] = "systemd" /\ argv[2] = req.verb /\ argv[3] = req.name
        BY <1>2 DEF ArgvOf
    <2>2. granted.commands = <<cmd>>
        BY <1>1, <2>1 DEF GrantedCommands, Refused
    <2>3. ~Sequential(req) /\ CmdFor(cmd, req)
        BY <1>2 DEF Sequential, Stepwise, IsRule, IsFirewall, CmdFor, UnitFor, Cmd
    <2> HIDE DEF cmd, granted, argv, g
    <2> QED  BY <1>1, <2>2, <2>3, OneReady DEF argv
<1>3. CASE req.family = "packages"
    <2> DEFINE manager == g.packages.manager
    <2>1. argv = PackageArgv(req.verb, req.name)
        BY <1>3 DEF ArgvOf
    <2>2. argv[1] = "packages" /\ argv[2] = req.verb
        BY <2>1, PackageArgvIs
    <2>3. (IF Len(argv) = 3 THEN argv[3] ELSE "") = req.name
        BY <2>1, PackageArgvIs
    <2>4. manager # "none" /\ granted = PackageCommand(manager, req.verb, req.name)
        BY <1>1, <2>2, <2>3 DEF GrantedCommands, Refused
    <2>5. manager \in Range(PackageManagerPreference)
        BY <1>1, <2>4 DEF LoadSet, PackageGrantOK
    <2> HIDE DEF manager, granted, argv, g
    <2>6. Ready(h, req, granted.commands)
        BY <1>1, <1>3, <2>4, <2>5, PackageReady
    <2> QED  BY <1>1, <2>6 DEF argv
<1>4. CASE IsFirewall(req)
    <2> DEFINE s == IF IsRule(req) THEN RuleOf(req) ELSE ""
               at == IF verb = "delete" THEN 3 ELSE 2
               parsed == IF verb \in RuleVerbs
                         THEN ParseFirewallRule(argv[at], [port |-> argv[at + 1],
                                 protocol |-> argv[at + 2], source |-> argv[at + 3]])
                         ELSE [ok |-> TRUE, rule |-> ""]
               r == parsed.rule
               backend == g.firewall.backend
    <2>1. argv = FirewallArgv(req.verb, s) /\ req.verb \in FirewallVerbs
        BY <1>4 DEF ArgvOf, IsFirewall, Planned
    <2>2. /\ argv[1] = "firewall" /\ verb = req.verb
          /\ verb \in {"allow", "deny"} =>
                argv[3] = s.port /\ argv[4] = s.protocol /\ argv[5] = s.source
          /\ verb = "delete" =>
                argv[3] = s.action /\ argv[4] = s.port /\ argv[5] = s.protocol /\ argv[6] = s.source
        <3> HIDE DEF argv, s
        <3> QED  BY <2>1, FirewallArgvIs
    <2>3. Backend = backend
        BY <1>4 DEF Backend
    <2>4. granted = FirewallCommand(backend, verb, r)
        BY <1>1, <2>2 DEF GrantedCommands, Refused
    <2>5. IsRule(req) => r = RuleOf(req)
        <3> SUFFICES ASSUME IsRule(req) PROVE r = RuleOf(req)
            OBVIOUS
        <3>1. s = RuleOf(req) /\ req.verb \in {"allow", "deny", "delete"}
            BY DEF IsRule, RuleVerbs
        <3>2. req.verb # "delete" => s.action = req.verb
            BY <3>1, RuleRecord
        <3> HIDE DEF argv, s
        <3>3. /\ argv[at] = s.action /\ argv[at + 1] = s.port
              /\ argv[at + 2] = s.protocol /\ argv[at + 3] = s.source
            BY <2>2, <3>1, <3>2
        <3>4. parsed = ParseFirewallRule(s.action, [port |-> s.port, protocol |-> s.protocol,
                                                    source |-> s.source])
            BY <2>2, <3>1, <3>3 DEF RuleVerbs
        <3> HIDE DEF parsed
        <3> QED  BY <3>1, <3>4, ParsedAgain
    <2> HIDE DEF backend, at, parsed, r, granted, argv, g, s
    <2>6. granted = FirewallCommand(Backend, req.verb, r)
        BY <2>2, <2>3, <2>4
    <2>7. Ready(h, req, granted.commands)
        BY <1>1, <1>4, <2>5, <2>6, FirewallReady
    <2> QED  BY <1>1, <2>7 DEF argv
<1> QED  BY <1>2, <1>3, <1>4 DEF IsFirewall

LEMMA EachDirect ==
    ASSUME NEW cmds, Len(cmds) \in Nat
    PROVE  LET tries == DirectThenSudo(cmds) IN
           \A i \in 1..Len(tries) :
               tries[i].via # "helper" /\ \E j \in 1..Len(cmds) : tries[i].command = cmds[j]
<1> DEFINE tries == DirectThenSudo(cmds)
           T == {Direct(via, cmds[j]) : via \in {"direct", "sudo"}, j \in 1..Len(cmds)}
           n == IF "sudo" \in machine.tools THEN 2 * Len(cmds) ELSE Len(cmds)
<1>1. \A i \in 1..(2 * Len(cmds)) : (i + 1) \div 2 \in 1..Len(cmds)
    OBVIOUS
<1>2. tries \in [1..n -> T]
    BY <1>1 DEF DirectThenSudo
<1>3. n \in Nat
    OBVIOUS
<1>4. \A a \in T : a.via # "helper" /\ \E j \in 1..Len(cmds) : a.command = cmds[j]
    BY DEF Direct
<1> HIDE DEF tries, T, n
<1>5. Len(tries) = n
    BY <1>2, <1>3, LengthOfFunction
<1>6. \A i \in 1..Len(tries) :
          tries[i].via # "helper" /\ \E j \in 1..Len(cmds) : tries[i].command = cmds[j]
    BY <1>2, <1>4, <1>5
<1> QED  BY <1>6 DEF tries

LEMMA PlanFor ==
    ASSUME NEW req, PlanNativeOp(req).ok
    PROVE  /\ Planned(req)
           /\ \A i \in 1..Len(PlanNativeOp(req).attempts) : AttemptFor(PlanNativeOp(req).attempts[i], req)
<1>0. PICK S : PackageManagerPreference \in Seq(S) /\ FirewallBackendPreference \in Seq(S)
    BY PreferencesAreSequences
<1>1. ASSUME NEW cmds, Len(cmds) \in Nat, \A j \in 1..Len(cmds) : CmdFor(cmds[j], req),
             ~Sequential(req), PlanNativeOp(req).attempts = DirectThenSudo(cmds)
      PROVE  \A i \in 1..Len(PlanNativeOp(req).attempts) : AttemptFor(PlanNativeOp(req).attempts[i], req)
    <2> DEFINE tries == DirectThenSudo(cmds)
    <2>1. \A i \in 1..Len(tries) :
              tries[i].via # "helper" /\ \E j \in 1..Len(cmds) : tries[i].command = cmds[j]
        BY <1>1, EachDirect
    <2> HIDE DEF tries
    <2>2. \A i \in 1..Len(tries) : AttemptFor(tries[i], req)
        BY <1>1, <2>1 DEF AttemptFor
    <2> QED  BY <1>1, <2>2 DEF tries
<1>6. ASSUME NEW cmd, CmdFor(cmd, req), ~Stepwise(req),
             PlanNativeOp(req).attempts = DirectThenSudo(<<cmd>>)
      PROVE  \A i \in 1..Len(PlanNativeOp(req).attempts) : AttemptFor(PlanNativeOp(req).attempts[i], req)
    <2>1. PICK cmds : cmds = <<cmd>>
        OBVIOUS
    <2>2. Len(cmds) = 1 /\ cmds[1] = cmd
        BY <2>1
    <2>3. Len(cmds) \in Nat /\ \A j \in 1..Len(cmds) : CmdFor(cmds[j], req)
        BY <1>6, <2>2
    <2> QED  BY <1>1, <1>6, <2>1, <2>3 DEF Sequential
<1>2. ASSUME IsFirewall(req) => Routed("firewall"),
             PlanNativeOp(req).attempts = <<Helper(ArgvOf(req))>>
      PROVE  \A i \in 1..Len(PlanNativeOp(req).attempts) : AttemptFor(PlanNativeOp(req).attempts[i], req)
    <2> DEFINE a == Helper(ArgvOf(req))
               tries == <<a>>
    <2>1. AttemptFor(a, req)
        BY <1>2 DEF AttemptFor, Helper
    <2> HIDE DEF a
    <2>2. \A i \in 1..Len(tries) : tries[i] = a
        OBVIOUS
    <2> HIDE DEF tries
    <2> QED  BY <1>2, <2>1, <2>2 DEF tries, a
<1>3. CASE req.family = "systemd"
    <2> DEFINE cmd == Cmd("systemctl", req.verb, req.name)
    <2>1. PlanNativeOp(req) = PlanSystemd(req)
        BY <1>3 DEF PlanNativeOp
    <2>2. PlanSystemd(req) # NoPlan
        BY <2>1 DEF NoPlan
    <2>3. req.verb \in SystemdVerbs
        BY <2>2 DEF PlanSystemd
    <2>4. Planned(req) /\ ~IsFirewall(req) /\ ~Stepwise(req)
        BY <1>3, <2>3 DEF Planned, IsFirewall, IsRule, Stepwise
    <2>5. CASE Routed("systemd")
        <3>1. PlanSystemd(req) = Plan(<<Helper(ArgvOf(req))>>)
            BY <1>3, <2>2, <2>5 DEF PlanSystemd, ArgvOf
        <3> QED  BY <1>2, <2>1, <2>4, <3>1 DEF Plan
    <2>6. CASE ~Routed("systemd")
        <3>1. PlanSystemd(req) = Plan(DirectThenSudo(<<cmd>>))
            BY <2>2, <2>6 DEF PlanSystemd
        <3>2. CmdFor(cmd, req)
            BY <1>3 DEF CmdFor, UnitFor, Cmd
        <3> HIDE DEF cmd
        <3> QED  BY <1>6, <2>1, <2>4, <3>1, <3>2 DEF Plan
    <2> QED  BY <2>5, <2>6
<1>4. CASE req.family = "packages"
    <2> DEFINE manager == Detect(PackageManagerPreference, RefreshBinary)
               direct  == PackageCommand(manager, req.verb, req.name)
    <2>1. PlanNativeOp(req) = PlanPackage(req)
        BY <1>4 DEF PlanNativeOp
    <2>2. PlanPackage(req) # NoPlan
        BY <2>1 DEF NoPlan
    <2>3. req.verb \in PackageVerbs
        BY <2>2 DEF PlanPackage
    <2>4. Planned(req) /\ ~IsFirewall(req) /\ ~Stepwise(req)
        BY <1>4, <2>3 DEF Planned, IsFirewall, IsRule, Stepwise
    <2>5. CASE Routed("packages")
        <3>1. PlanPackage(req) = Plan(<<Helper(PackageArgv(req.verb, req.name))>>)
            BY <2>2, <2>5 DEF PlanPackage
        <3>2. ArgvOf(req) = PackageArgv(req.verb, req.name)
            BY <1>4 DEF ArgvOf
        <3> QED  BY <1>2, <2>1, <2>4, <3>1, <3>2 DEF Plan
    <2>6. CASE ~Routed("packages")
        <3>1. /\ PackageCommand("apt", req.verb, req.name).ok /\ manager # "none"
              /\ PlanPackage(req) = Plan(DirectThenSudo(direct.commands))
            BY <2>2, <2>6 DEF PlanPackage
        <3>2. manager \in Range(PackageManagerPreference)
            BY <1>0, <3>1, DetectedInRange
        <3> HIDE DEF manager
        <3>3. direct.ok
            BY <3>1 DEF PackageCommand, Refused
        <3> DEFINE cmd == direct.commands[1]
        <3>4. PackageFor(cmd, req) /\ direct.commands = <<cmd>>
            BY <1>4, <3>2, <3>3, PackageReady
        <3> HIDE DEF cmd, direct
        <3>5. CmdFor(cmd, req) /\ PlanNativeOp(req).attempts = DirectThenSudo(<<cmd>>)
            BY <2>1, <3>1, <3>4 DEF CmdFor, Plan
        <3> QED  BY <1>6, <2>4, <3>5
    <2> QED  BY <2>5, <2>6
<1>5. CASE IsFirewall(req)
    <2> DEFINE rules   == req.verb \in RuleVerbs
               action  == IF req.verb = "delete" THEN req.rule.action ELSE req.verb
               parsed  == IF rules THEN ParseFirewallRule(action, req.rule)
                          ELSE [ok |-> TRUE, rule |-> ""]
               r       == parsed.rule
               backend == Detect(FirewallBackendPreference, BackendBinary)
               direct  == FirewallCommand(backend, req.verb, r)
    <2>1. PlanNativeOp(req) = PlanFirewall(req)
        BY <1>5 DEF PlanNativeOp, IsFirewall
    <2>2. PlanFirewall(req) # NoPlan
        BY <2>1 DEF NoPlan
    <2>3. req.verb \in FirewallVerbs
        BY <2>2 DEF PlanFirewall
    <2>4. Planned(req)
        BY <1>5, <2>3 DEF Planned, IsFirewall
    <2>5. r = IF IsRule(req) THEN RuleOf(req) ELSE ""
        BY <1>5 DEF IsRule, RuleOf
    <2>6. CASE Routed("firewall")
        <3>1. PlanFirewall(req) = Plan(<<Helper(FirewallArgv(req.verb, r))>>)
            BY <2>2, <2>6 DEF PlanFirewall
        <3> HIDE DEF r
        <3>2. ArgvOf(req) = FirewallArgv(req.verb, r)
            BY <1>5, <2>5 DEF ArgvOf, IsFirewall
        <3> QED  BY <1>2, <2>1, <2>4, <2>6, <3>1, <3>2 DEF Plan
    <2>7. CASE ~Routed("firewall")
        <3>1. /\ backend # "none" /\ direct.ok
              /\ PlanFirewall(req) = Plan(DirectThenSudo(direct.commands))
            BY <2>2, <2>7 DEF PlanFirewall
        <3>2. Backend = backend /\ ~Sequential(req)
            BY <2>7 DEF Backend, Sequential
        <3> HIDE DEF backend, r
        <3>3. Len(direct.commands) \in Nat
              /\ \A i \in 1..Len(direct.commands) : CmdFor(direct.commands[i], req)
            BY <1>5, <2>4, <2>5, <3>1, <3>2, FirewallReady
        <3> HIDE DEF direct
        <3>4. PlanNativeOp(req).attempts = DirectThenSudo(direct.commands)
            BY <2>1, <3>1 DEF Plan
        <3> QED  BY <1>1, <2>4, <3>2, <3>3, <3>4
    <2> QED  BY <2>6, <2>7
<1> QED  BY <1>3, <1>4, <1>5 DEF IsFirewall

-----------------------------------------------------------------------------
(* The invariant *)

\* A behaviour has one machine, and what is said of requests is about it.
LEMMA EffectBoundsStay ==
    ASSUME machine' = machine
    PROVE  /\ \A c, h, o, e : ClientOK(c, h, o, e)' <=> ClientOK(c, h, o, e)
           /\ \A h : Proper(h)' <=> Proper(h)
<1>1. Backend' = Backend
    BY DEF Backend, Routed, Detect
<1>2. \A r : ItemsOf(r)' = ItemsOf(r)
    BY <1>1 DEF ItemsOf
<1>3. \A h : Proper(h)' <=> Proper(h)
    BY <1>2 DEF Proper
<1>4. \A req : /\ Stepwise(req)' <=> Stepwise(req)
               /\ Sequential(req)' <=> Sequential(req)
               /\ Divided(req)' <=> Divided(req)
    BY <1>1 DEF Stepwise, Sequential, Divided, Routed, Detect
<1>5. \A cmd, req : CmdFor(cmd, req)' <=> CmdFor(cmd, req)
    BY <1>2, <1>4 DEF CmdFor, UnitFor, PackageFor, ToggleFor, UfwFor, FirewalldFor
<1>6. \A h, req, todo : Ready(h, req, todo)' <=> Ready(h, req, todo)
    BY <1>2, <1>4, <1>5 DEF Ready, Finishes
<1>7. \A a, req : AttemptFor(a, req)' <=> AttemptFor(a, req)
    BY <1>4, <1>5 DEF AttemptFor, Routed
<1>8. \A h, req : TookEffect(h, req)' <=> TookEffect(h, req)
    BY <1>2, <1>4 DEF TookEffect
<1>9. \A c, h, o, e : ClientOK(c, h, o, e)' <=> ClientOK(c, h, o, e)
    BY <1>6, <1>7, <1>8 DEF ClientOK, Lasting, UnderWay
<1> QED  BY <1>3, <1>9

LEMMA SparesAll ==
    ASSUME FirewallUnitLeftAlone, NEW c \in OpClients, NEW req \in Work[c] PROVE Spares(req)
BY DEF FirewallUnitLeftAlone, Spares

\* What another client's command leaves of a client's operation and of its success.
LEMMA OthersKept ==
    ASSUME FirewallUnitLeftAlone, OwnWork, NEW h, HostShape(h),
           NEW c \in OpClients, NEW other \in Work[c], NEW cmd, CmdFor(cmd, other),
           NEW d \in OpClients, d # c, NEW o, NEW e, ClientOK(d, h, o, e)
    PROVE  ClientOK(d, Apply(h, cmd), o, e)
<1> DEFINE new == Apply(h, cmd)
<1>1. Spares(other)
    BY SparesAll
<1>2. \A req \in Work[d] : Unrelated(req, other)
    BY DEF OwnWork, Unrelated
<1>3. \A req \in Work[d] : TookEffect(h, req) => TookEffect(new, req)
    BY <1>1, <1>2, EffectLasts
<1>4. \A req \in Work[d] : \A todo : Ready(h, req, todo) => Ready(new, req, todo)
    BY <1>1, <1>2, StaysReady
<1> HIDE DEF new
<1>5. Lasting(d, new, e)
    BY <1>3 DEF ClientOK, Lasting
<1>6. UnderWay(d, h, o) => UnderWay(d, new, o)
    BY <1>4 DEF UnderWay
<1>7. ClientOK(d, new, o, e)
    BY <1>5, <1>6 DEF ClientOK
<1> QED  BY <1>7 DEF new

\* A step of one client.
LEMMA OneClientMoves ==
    ASSUME EffectInv, HostInv, machine' = machine, Proper(host'), NEW c \in OpClients, NEW o, NEW e,
           op' = [op EXCEPT ![c] = o], last' = [last EXCEPT ![c] = e], ClientOK(c, host', o, e),
           \A d \in OpClients : d # c => ClientOK(d, host', op[d], last[d])
    PROVE  EffectInv'
<1>1. machine' \in Machines
    BY DEF EffectInv
<1>2. op = [d \in OpClients |-> op[d]] /\ last = [d \in OpClients |-> last[d]]
    BY DEF HostInv, OperationsOK, EndsOK
<1>3. \A d \in OpClients : /\ op'[d] = IF d = c THEN o ELSE op[d]
                           /\ last'[d] = IF d = c THEN e ELSE last[d]
    BY <1>2
<1>4. \A d \in OpClients : ClientOK(d, host', op'[d], last'[d])
    BY <1>3
<1>5. \A d \in OpClients : ClientOK(d, host, op[d], last[d])'
    BY <1>4, EffectBoundsStay
<1>6. Proper(host)'
    BY EffectBoundsStay
<1> QED  BY <1>1, <1>5, <1>6 DEF EffectInv

LEMMA QuietMove ==
    ASSUME EffectInv, HostInv, machine' = machine, host' = host, NEW c \in OpClients, NEW o, NEW e,
           op' = [op EXCEPT ![c] = o], last' = [last EXCEPT ![c] = e], ClientOK(c, host, o, e)
    PROVE  EffectInv'
<1>1. Proper(host') /\ ClientOK(c, host', o, e)
    BY DEF EffectInv
<1>2. \A d \in OpClients : d # c => ClientOK(d, host', op[d], last[d])
    BY DEF EffectInv
<1> QED  BY <1>1, <1>2, OneClientMoves

LEMMA CommandMove ==
    ASSUME FirewallUnitLeftAlone, OwnWork, EffectInv, HostInv, machine' = machine,
           NEW c \in OpClients, NEW req \in Work[c], NEW cmd, CmdFor(cmd, req), host' = Apply(host, cmd),
           NEW o, NEW e,
           op' = [op EXCEPT ![c] = o], last' = [last EXCEPT ![c] = e], ClientOK(c, Apply(host, cmd), o, e)
    PROVE  EffectInv'
<1>1. HostShape(host)
    BY DEF HostInv, HostOK
<1>2. Proper(host')
    BY <1>1, SparesAll, ProperKept DEF EffectInv
<1>3. \A d \in OpClients : d # c => ClientOK(d, host', op[d], last[d])
    BY <1>1, OthersKept DEF EffectInv
<1> QED  BY <1>2, <1>3, OneClientMoves

\* Nothing is said of an operation that has not succeeded.
LEMMA NothingClaimed ==
    ASSUME NEW c, NEW h, NEW e, e = None \/ ~e.ok PROVE ClientOK(c, h, Idle, e)
BY DEF ClientOK, Lasting, None

LEMMA BusyClient ==
    ASSUME EffectInv, HostInv, NEW c \in OpClients, op[c].phase \in {"start", "run"}
    PROVE  /\ InFlight(op[c]) /\ UnderWay(c, host, op[c]) /\ last[c] = None
           /\ op[c].req \in Work[c]
BY BusyInFlight DEF EffectInv, ClientOK, Idle, UnderWay

LEMMA LastStays ==
    ASSUME HostInv, NEW c \in OpClients, UNCHANGED last PROVE last' = [last EXCEPT ![c] = last[c]]
BY DEF HostInv, EndsOK

LEMMA EffectPlan ==
    ASSUME EffectInv, HostInv, NEW c \in OpClients, NEW req \in Work[c],
           PlanRequest(c, req)
    PROVE  EffectInv'
<1> DEFINE plan == PlanNativeOp(req)
           o == [phase |-> "start", req |-> req, attempts |-> plan.attempts, at |-> 1,
                 todo |-> <<>>, exit |-> ExitOK, ran |-> 0]
<1>0. machine' = machine /\ host' = host /\ last' = [last EXCEPT ![c] = None] /\ op[c].phase = "idle"
    BY DEF PlanRequest
<1>1. CASE plan.ok
    <2>1. op' = [op EXCEPT ![c] = o]
        BY <1>1 DEF PlanRequest
    <2>2. /\ Planned(req)
          /\ \A i \in 1..Len(plan.attempts) : AttemptFor(plan.attempts[i], req)
        BY <1>1, PlanFor DEF EffectInv
    <2> HIDE DEF plan
    <2>3. UnderWay(c, host, o)
        BY <2>2 DEF UnderWay
    <2> HIDE DEF o
    <2>4. ClientOK(c, host, o, None)
        BY <2>3 DEF ClientOK, Lasting, None
    <2> QED  BY <1>0, <2>1, <2>4, QuietMove
<1>2. CASE ~plan.ok
    <2>1. op' = op
        BY <1>2 DEF PlanRequest
    <2>2. op' = [op EXCEPT ![c] = op[c]]
        BY <2>1 DEF HostInv, OperationsOK
    <2>3. op[c] = Idle
        BY <1>0 DEF HostInv, OperationsOK, OperationOK, InFlight
    <2>4. ClientOK(c, host, op[c], None)
        BY <2>3, NothingClaimed
    <2> QED  BY <1>0, <2>2, <2>4, QuietMove
<1> QED  BY <1>1, <1>2

LEMMA EffectFailure ==
    ASSUME EffectInv, HostInv, NEW c \in OpClients, NEW exit, NEW ran, op[c].phase \in {"start", "run"},
           AttemptFails(c, exit, ran), UNCHANGED <<machine, host, hostOps>>
    PROVE  EffectInv'
<1> DEFINE o == op[c]
           primary == IF o.at = 1 THEN exit ELSE o.exit
<1>0. machine' = machine /\ host' = host
    OBVIOUS
<1>1. InFlight(o) /\ UnderWay(c, host, o) /\ last[c] = None
    BY BusyClient
<1>3. CASE o.at < Len(o.attempts)
    <2>1. op' = [op EXCEPT ![c].at = @ + 1, ![c].todo = <<>>, ![c].phase = "start",
                           ![c].exit = primary, ![c].ran = ran] /\ UNCHANGED last
        BY <1>3 DEF AttemptFails
    <2>2. PICK q : q = [o EXCEPT !.at = @ + 1, !.todo = <<>>, !.phase = "start",
                                 !.exit = primary, !.ran = ran]
        OBVIOUS
    <2>3. op' = [op EXCEPT ![c] = q]
        BY <2>1, <2>2
    <2>4. q.phase = "start" /\ q.attempts = o.attempts /\ q.req = o.req
        <3>1. o = [phase |-> o.phase, req |-> o.req, attempts |-> o.attempts, at |-> o.at,
                   todo |-> o.todo, exit |-> o.exit, ran |-> o.ran]
            BY <1>1 DEF InFlight
        <3> HIDE DEF o, primary
        <3> QED  BY <2>2, <3>1
    <2>5. UnderWay(c, host, q)
        BY <1>1, <2>4 DEF UnderWay
    <2>6. ClientOK(c, host, q, last[c])
        BY <1>1, <2>5 DEF ClientOK, Lasting, None
    <2>7. last' = [last EXCEPT ![c] = last[c]]
        BY <2>1, LastStays
    <2> QED  BY <1>0, <2>3, <2>6, <2>7, QuietMove
<1>4. CASE ~(o.at < Len(o.attempts))
    <2> DEFINE e == [phase |-> "ended", req |-> o.req, ok |-> FALSE, exit |-> primary,
                     ran |-> ran, via |-> o.attempts[1].via]
    <2>1. last' = [last EXCEPT ![c] = e] /\ op' = [op EXCEPT ![c] = Idle]
        BY <1>4 DEF AttemptFails
    <2>2. ClientOK(c, host, Idle, e)
        BY NothingClaimed
    <2> HIDE DEF e
    <2> QED  BY <1>0, <2>1, <2>2, QuietMove
<1> QED  BY <1>3, <1>4

LEMMA EffectStart ==
    ASSUME EffectInv, HostInv, NEW c \in OpClients, NEW allowed \in BOOLEAN, StartAttempt(c, allowed)
    PROVE  EffectInv'
<1> DEFINE o == op[c]
           attempt == o.attempts[o.at]
           answer == IF attempt.via = "helper" THEN HelperRun(attempt.argv)
                     ELSE [exit |-> ExitOK, commands |-> <<attempt.command>>]
<1>0. machine' = machine /\ host' = host /\ o.phase = "start"
    BY DEF StartAttempt
<1>1. InFlight(o) /\ UnderWay(c, host, o) /\ last[c] = None
    BY <1>0, BusyClient
<1>2. AttemptFor(attempt, o.req) /\ Planned(o.req)
    BY <1>1 DEF InFlight, UnderWay
<1>3. CASE allowed /\ answer.exit = ExitOK
    <2>1. op' = [op EXCEPT ![c].phase = "run", ![c].todo = answer.commands] /\ UNCHANGED last
        BY <1>3 DEF StartAttempt
    <2>2. Ready(host, o.req, answer.commands)
        <3> HIDE DEF attempt
        <3>1. CASE attempt.via = "helper"
            <4>1. answer = HelperRun(attempt.argv)
                BY <3>1
            <4>2. attempt.argv = ArgvOf(o.req) /\ (IsFirewall(o.req) => Routed("firewall"))
                BY <1>2, <3>1 DEF AttemptFor
            <4>3. answer = HelperRun(ArgvOf(o.req)) /\ answer.exit = ExitOK
                BY <1>3, <4>1, <4>2
            <4> HIDE DEF answer
            <4> QED  BY <1>2, <4>2, <4>3, HelperReady
        <3>2. CASE attempt.via # "helper"
            <4>1. /\ answer.commands = <<attempt.command>> /\ CmdFor(attempt.command, o.req)
                  /\ ~Sequential(o.req)
                BY <1>2, <3>2 DEF AttemptFor
            <4> HIDE DEF answer
            <4> QED  BY <4>1, OneReady
        <3> QED  BY <3>1, <3>2
    <2>4. PICK q : q = [o EXCEPT !.phase = "run", !.todo = answer.commands]
        OBVIOUS
    <2>5. op' = [op EXCEPT ![c] = q]
        BY <2>1, <2>4
    <2>6. q.phase = "run" /\ q.attempts = o.attempts /\ q.req = o.req /\ q.todo = answer.commands
        <3>1. o = [phase |-> o.phase, req |-> o.req, attempts |-> o.attempts, at |-> o.at,
                   todo |-> o.todo, exit |-> o.exit, ran |-> o.ran]
            BY <1>1 DEF InFlight
        <3> HIDE DEF o, answer
        <3> QED  BY <2>4, <3>1
    <2> HIDE DEF answer
    <2>7. UnderWay(c, host, q)
        BY <1>1, <2>2, <2>6 DEF UnderWay
    <2>8. ClientOK(c, host, q, last[c])
        BY <1>1, <2>7 DEF ClientOK, Lasting, None
    <2>9. last' = [last EXCEPT ![c] = last[c]]
        BY <2>1, LastStays
    <2> QED  BY <1>0, <2>5, <2>8, <2>9, QuietMove
<1>4. CASE ~(allowed /\ answer.exit = ExitOK)
    <2> DEFINE exit == IF allowed THEN answer.exit ELSE 1
    <2>1. AttemptFails(c, exit, o.ran) /\ UNCHANGED <<machine, host, hostOps>>
        BY <1>4 DEF StartAttempt
    <2> HIDE DEF exit
    <2> QED  BY <1>0, <2>1, EffectFailure
<1> QED  BY <1>3, <1>4

\* The next command of an operation.
LEMMA NextFor ==
    ASSUME EffectInv, HostInv, NEW c \in OpClients, op[c].phase = "run"
    PROVE  LET todo == op[c].todo IN
           /\ todo \in Seq(Range(todo)) /\ Len(todo) \in Nat /\ Len(todo) # 0 /\ Head(todo) = todo[1]
           /\ Ready(host, op[c].req, todo) /\ CmdFor(todo[1], op[c].req)
<1> DEFINE todo == op[c].todo
<1>1. CommandsOK(todo) /\ Ready(host, op[c].req, todo)
    BY BusyClient DEF InFlight, UnderWay
<1> HIDE DEF todo
<1>2. todo \in Seq(Range(todo)) /\ todo # <<>>
    BY <1>1 DEF CommandsOK
<1>3. Len(todo) \in Nat /\ Len(todo) # 0 /\ Head(todo) = todo[1]
    BY <1>2, LenProperties, EmptySeq, HeadTailProperties
<1>4. 1 \in 1..Len(todo)
    BY <1>3
<1>5. CmdFor(todo[1], op[c].req)
    BY <1>1, <1>4 DEF Ready
<1> QED  BY <1>1, <1>2, <1>3, <1>5 DEF todo

LEMMA EffectCommand ==
    ASSUME FirewallUnitLeftAlone, OwnWork, EffectInv, HostInv, NEW c \in OpClients, CommandOK(c)
    PROVE  EffectInv'
<1> DEFINE o == op[c]
           cmd == o.todo[1]
           req == o.req
           new == Apply(host, cmd)
<1>0. machine' = machine /\ o.phase = "run" /\ host' = Apply(host, Head(o.todo))
    BY DEF CommandOK
<1>1. InFlight(o) /\ UnderWay(c, host, o) /\ last[c] = None /\ req \in Work[c]
    BY <1>0, BusyClient
<1>2. /\ o.todo \in Seq(Range(o.todo)) /\ Len(o.todo) \in Nat /\ Len(o.todo) # 0
      /\ Head(o.todo) = cmd /\ Ready(host, req, o.todo) /\ CmdFor(cmd, req)
    BY <1>0, NextFor
<1>3. HostShape(host) /\ Spares(req) /\ host' = new /\ Planned(req)
    BY <1>0, <1>1, <1>2, SparesAll DEF HostInv, HostOK, UnderWay
<1>4. CASE Len(o.todo) = 1
    <2> DEFINE e == [phase |-> "ended", req |-> req, ok |-> TRUE, exit |-> ExitOK,
                     ran |-> o.ran, via |-> o.attempts[1].via]
    <2>1. last' = [last EXCEPT ![c] = e] /\ op' = [op EXCEPT ![c] = Idle]
        BY <1>4 DEF CommandOK, Ended
    <2>2. TookEffect(new, req)
        BY <1>2, <1>3, <1>4, LastCommand
    <2>3. e.req = req
        OBVIOUS
    <2> HIDE DEF e, new, req
    <2>4. ClientOK(c, new, Idle, e)
        BY <1>1, <1>3, <2>2, <2>3 DEF ClientOK, Lasting
    <2> QED  BY <1>0, <1>1, <1>2, <1>3, <2>1, <2>4, CommandMove DEF new
<1>5. CASE Len(o.todo) # 1
    <2>1. op' = [op EXCEPT ![c].todo = Tail(@), ![c].ran = @ + 1] /\ UNCHANGED last
        BY <1>5 DEF CommandOK
    <2>2. PICK q : q = [o EXCEPT !.todo = Tail(@), !.ran = @ + 1]
        OBVIOUS
    <2>3. op' = [op EXCEPT ![c] = q]
        BY <2>1, <2>2
    <2>4. q.phase = "run" /\ q.attempts = o.attempts /\ q.req = o.req /\ q.todo = Tail(o.todo)
        <3>1. o = [phase |-> o.phase, req |-> o.req, attempts |-> o.attempts, at |-> o.at,
                   todo |-> o.todo, exit |-> o.exit, ran |-> o.ran]
            BY <1>1 DEF InFlight
        <3> HIDE DEF o
        <3> QED  BY <1>0, <2>2, <3>1
    <2>5. Ready(new, req, Tail(o.todo))
        BY <1>2, <1>3, <1>5, OneOfMany
    <2> HIDE DEF new
    <2>6. UnderWay(c, new, q)
        BY <1>1, <2>4, <2>5 DEF UnderWay
    <2>7. ClientOK(c, new, q, last[c])
        BY <1>1, <2>6 DEF ClientOK, Lasting, None
    <2>8. last' = [last EXCEPT ![c] = last[c]]
        BY <2>1, LastStays
    <2> HIDE DEF cmd, req
    <2> QED  BY <1>0, <1>1, <1>2, <1>3, <2>3, <2>7, <2>8, CommandMove DEF new
<1> QED  BY <1>4, <1>5

LEMMA EffectDeadline ==
    ASSUME FirewallUnitLeftAlone, OwnWork, EffectInv, HostInv, NEW c \in OpClients,
           NEW applied \in BOOLEAN, DeadlineKills(c, applied)
    PROVE  EffectInv'
<1> DEFINE o == op[c]
           cmd == o.todo[1]
           e == [phase |-> "ended", req |-> o.req, ok |-> FALSE, exit |-> -1,
                 ran |-> o.ran + 1, via |-> o.attempts[1].via]
<1>0. /\ machine' = machine /\ o.phase = "run"
      /\ host' = IF applied THEN Apply(host, Head(o.todo)) ELSE host
      /\ last' = [last EXCEPT ![c] = e] /\ op' = [op EXCEPT ![c] = Idle]
    BY DEF DeadlineKills
<1>1. o.req \in Work[c]
    BY <1>0, BusyClient
<1>2. Head(o.todo) = cmd /\ CmdFor(cmd, o.req)
    BY <1>0, NextFor
<1>3. \A h : ClientOK(c, h, Idle, e)
    BY NothingClaimed
<1> HIDE DEF e, cmd
<1>4. CASE applied
    <2>1. host' = Apply(host, cmd)
        BY <1>0, <1>2, <1>4
    <2> QED  BY <1>0, <1>1, <1>2, <1>3, <2>1, CommandMove
<1>5. CASE ~applied
    <2>1. host' = host
        BY <1>0, <1>5
    <2> QED  BY <1>0, <1>3, <2>1, QuietMove
<1> QED  BY <1>4, <1>5

LEMMA EffectStep ==
    ASSUME FirewallUnitLeftAlone, OwnWork, EffectInv, HostInv, [HostNext]_hostVars
    PROVE  EffectInv'
<1>1. CASE UNCHANGED hostVars
    <2>1. machine' = machine /\ host' = host /\ op' = op /\ last' = last
        BY <1>1 DEF hostVars
    <2>2. machine' \in Machines /\ Proper(host') /\ \A d \in OpClients : ClientOK(d, host', op'[d], last'[d])
        BY <2>1 DEF EffectInv
    <2>3. Proper(host)' /\ \A d \in OpClients : ClientOK(d, host, op[d], last[d])'
        BY <2>1, <2>2, EffectBoundsStay
    <2> QED  BY <2>2, <2>3 DEF EffectInv
<1>2. ASSUME NEW c \in OpClients, NEW code \in {1, ExitRefused}, CommandFails(c, code) PROVE EffectInv'
    <2> DEFINE exit == IF op[c].attempts[op[c].at].via = "helper" THEN ExternalExitCode(code) ELSE code
    <2>1. /\ op[c].phase = "run" /\ AttemptFails(c, exit, op[c].ran + 1)
          /\ UNCHANGED <<machine, host, hostOps>>
        BY <1>2 DEF CommandFails
    <2> HIDE DEF exit
    <2> QED  BY <2>1, EffectFailure
<1>3. CASE HostNext
    BY <1>2, <1>3, EffectPlan, EffectStart, EffectCommand, EffectDeadline DEF HostNext
<1> QED  BY <1>1, <1>3

LEMMA EffectInit == HostInit => EffectInv
<1> SUFFICES ASSUME HostInit PROVE EffectInv
    OBVIOUS
<1>1. machine \in Machines /\ host.running = {} /\ host.permanent = {}
    BY DEF HostInit, StartHost
<1>2. \A c \in OpClients : op[c] = Idle /\ last[c] = None
    BY DEF HostInit
<1>3. \A c \in OpClients : ClientOK(c, host, op[c], last[c])
    BY <1>2, NothingClaimed
<1>4. Proper(host)
    BY <1>1 DEF Proper
<1> QED  BY <1>1, <1>3, <1>4 DEF EffectInv

\* An operation that reports success has taken effect, and what it did stays in
\* effect whatever the other clients do, whichever commands fail and whenever a
\* deadline strikes (runStage, runExternal, privfs.Run): a rule is among the live
\* ones for every address family it names, or gone from them. On every machine:
\* of a rule that the daemon divides into attempts of firewall-cmd nothing is
\* said, but its commands undo nobody else's work either.
THEOREM SuccessIsEffective ==
    FirewallUnitLeftAlone /\ OwnWork => (HostSpec => []SuccessTakesEffect)
<1> SUFFICES ASSUME FirewallUnitLeftAlone, OwnWork
             PROVE  HostSpec => []SuccessTakesEffect
    OBVIOUS
<1>1. EffectInv => SuccessTakesEffect
    BY EffectMeans DEF EffectInv, ClientOK, Lasting, SuccessTakesEffect
<1>2. HostInv /\ EffectInv /\ [HostNext]_hostVars => HostInv' /\ EffectInv'
    BY HostInvStep, EffectStep
<1>3. HostInit => HostInv /\ EffectInv
    BY HostInvInit, EffectInit
<1> QED  BY <1>1, <1>2, <1>3, PTL DEF HostSpec

-----------------------------------------------------------------------------
(* The file API: paths                                                     *)

Below(root, p) == IsPrefix(root, p) /\ p # root

LEMMA PathFacts ==
    ASSUME NEW p \in Path
    PROVE  Len(p) \in Nat /\ DOMAIN p = 1..Len(p) /\ \A i \in 1..Len(p) : p[i] \in Names
BY LenProperties, ElementOfSeq DEF Path

LEMMA PrefixMeans ==
    ASSUME NEW s \in Path, NEW t \in Path
    PROVE  IsPrefix(s, t) <=> Len(s) <= Len(t) /\ \A i \in 1..Len(s) : s[i] = t[i]
<1>0. Len(s) \in Nat /\ Len(t) \in Nat
    BY PathFacts
<1>1. SubSeq(s, 1, Len(s)) = [i \in 1..Len(s) |-> s[i]]
    BY <1>0 DEF Path
<1>2. ASSUME Len(s) <= Len(t) PROVE SubSeq(t, 1, Len(s)) = [i \in 1..Len(s) |-> t[i]]
    BY <1>0, <1>2 DEF Path
<1>3. ASSUME IsPrefix(s, t) PROVE Len(s) <= Len(t) /\ \A i \in 1..Len(s) : s[i] = t[i]
    BY <1>1, <1>2, <1>3 DEF IsPrefix
<1>4. ASSUME Len(s) <= Len(t), \A i \in 1..Len(s) : s[i] = t[i] PROVE IsPrefix(s, t)
    <2>1. [i \in 1..Len(s) |-> s[i]] = [i \in 1..Len(s) |-> t[i]]
        BY <1>4
    <2> QED  BY <1>1, <1>2, <1>4, <2>1 DEF IsPrefix
<1> QED  BY <1>3, <1>4

LEMMA SamePath ==
    ASSUME NEW s \in Path, NEW t \in Path, Len(s) = Len(t), \A i \in 1..Len(s) : s[i] = t[i]
    PROVE  s = t
BY SeqEqual DEF Path

LEMMA PrefixTrans ==
    ASSUME NEW r \in Path, NEW s \in Path, NEW t \in Path, IsPrefix(r, s), IsPrefix(s, t)
    PROVE  IsPrefix(r, t)
<1>1. Len(r) \in Nat /\ Len(s) \in Nat /\ Len(t) \in Nat
    BY PathFacts
<1>2. Len(r) <= Len(s) /\ \A i \in 1..Len(r) : r[i] = s[i]
    BY PrefixMeans
<1>3. Len(s) <= Len(t) /\ \A i \in 1..Len(s) : s[i] = t[i]
    BY PrefixMeans
<1>4. Len(r) <= Len(t) /\ \A i \in 1..Len(r) : r[i] = t[i]
    BY <1>1, <1>2, <1>3
<1> QED  BY <1>4, PrefixMeans

LEMMA BelowMeans ==
    ASSUME NEW r \in Path, NEW p \in Path, IsPrefix(r, p)
    PROVE  Below(r, p) <=> Len(p) > Len(r)
<1>1. Len(r) \in Nat /\ Len(p) \in Nat /\ Len(r) <= Len(p) /\ \A i \in 1..Len(r) : r[i] = p[i]
    BY PathFacts, PrefixMeans
<1>2. Len(r) = Len(p) => r = p
    BY <1>1, SamePath
<1> QED  BY <1>1, <1>2 DEF Below

LEMMA BelowTrans ==
    ASSUME NEW r \in Path, NEW s \in Path, NEW t \in Path, Below(r, s), IsPrefix(s, t)
    PROVE  Below(r, t)
<1>1. IsPrefix(r, t) /\ IsPrefix(r, s)
    BY PrefixTrans DEF Below
<1>2. Len(s) <= Len(t) /\ Len(s) > Len(r) /\ Len(r) \in Nat /\ Len(s) \in Nat /\ Len(t) \in Nat
    BY <1>1, PathFacts, PrefixMeans, BelowMeans
<1> QED  BY <1>1, <1>2, BelowMeans

LEMMA PrefixConcat ==
    ASSUME NEW p \in Path, NEW q \in Path
    PROVE  p \o q \in Path /\ IsPrefix(p, p \o q) /\ Len(p \o q) = Len(p) + Len(q)
<1> DEFINE c == p \o q
<1>0. Len(p) \in Nat /\ Len(q) \in Nat
    BY PathFacts
<1>1. c \in Path /\ Len(c) = Len(p) + Len(q) /\ \A i \in 1..Len(p) : c[i] = p[i]
    BY ConcatProperties DEF Path
<1> HIDE DEF c
<1>2. IsPrefix(p, c)
    BY <1>0, <1>1, PrefixMeans
<1> QED  BY <1>1, <1>2 DEF c

LEMMA PrefixAppend ==
    ASSUME NEW r \in Path, NEW p \in Path, IsPrefix(r, p), NEW x \in Names
    PROVE  Append(p, x) \in Path /\ Below(r, Append(p, x))
<1> DEFINE a == Append(p, x)
<1>0. Len(p) \in Nat /\ Len(r) \in Nat /\ Len(r) <= Len(p)
    BY PathFacts, PrefixMeans
<1>1. a \in Path /\ Len(a) = Len(p) + 1 /\ \A i \in 1..Len(p) : a[i] = p[i]
    BY AppendProperties DEF Path
<1> HIDE DEF a
<1>2. IsPrefix(p, a)
    BY <1>0, <1>1, PrefixMeans
<1>3. IsPrefix(r, a)
    BY <1>1, <1>2, PrefixTrans
<1>4. Below(r, a)
    BY <1>0, <1>1, <1>3, BelowMeans
<1> QED  BY <1>1, <1>4 DEF a

LEMMA RestFacts ==
    ASSUME NEW p \in Path, NEW q \in Path, IsPrefix(p, q)
    PROVE  /\ Rest(p, q) \in Path /\ Len(Rest(p, q)) = Len(q) - Len(p)
           /\ \A i \in 1..(Len(q) - Len(p)) : Rest(p, q)[i] = q[Len(p) + i]
           /\ p \o Rest(p, q) = q
<1> DEFINE s == Rest(p, q)
           k == Len(q) - Len(p)
<1>0. Len(p) \in Nat /\ Len(q) \in Nat /\ Len(p) <= Len(q) /\ \A i \in 1..Len(p) : p[i] = q[i]
    BY PathFacts, PrefixMeans
<1>1. s = [i \in 1..k |-> q[Len(p) + i]]
    <2>1. SubSeq(q, Len(p) + 1, Len(q)) = [i \in 1..(Len(q) - (Len(p) + 1) + 1) |-> q[i + (Len(p) + 1) - 1]]
        BY <1>0 DEF Path
    <2>2. Len(q) - (Len(p) + 1) + 1 = k
        BY <1>0
    <2>3. \A i \in 1..k : i + (Len(p) + 1) - 1 = Len(p) + i
        BY <1>0
    <2> QED  BY <2>1, <2>2, <2>3 DEF Rest
<1>2. k \in Nat /\ \A i \in 1..k : q[Len(p) + i] \in Names
    BY <1>0, PathFacts
<1>3. s \in [1..k -> Names]
    BY <1>1, <1>2
<1>4. s \in Path /\ Len(s) = k
    BY <1>2, <1>3, LengthOfFunction DEF Path
<1>5. \A i \in 1..k : s[i] = q[Len(p) + i]
    BY <1>1
<1> HIDE DEF s
<1>6. p \o s = q
    <2> DEFINE c == p \o s
    <2>1. /\ c \in Path /\ Len(c) = Len(p) + k /\ \A i \in 1..Len(p) : c[i] = p[i]
          /\ \A i \in 1..k : c[Len(p) + i] = s[i]
        BY <1>0, <1>4, ConcatProperties DEF Path
    <2> HIDE DEF c
    <2>2. ASSUME NEW i \in 1..Len(q) PROVE c[i] = q[i]
        <3>1. CASE i <= Len(p)
            BY <1>0, <2>1, <3>1
        <3>2. CASE i > Len(p)
            <4>1. i - Len(p) \in 1..k /\ Len(p) + (i - Len(p)) = i
                BY <1>0, <3>2
            <4>2. c[i] = s[i - Len(p)] /\ s[i - Len(p)] = q[i]
                BY <1>5, <2>1, <4>1
            <4> QED  BY <4>2
        <3> QED  BY <1>0, <3>1, <3>2
    <2>3. Len(c) = Len(q)
        BY <1>0, <2>1
    <2> QED  BY <2>1, <2>2, <2>3, SamePath DEF c
<1> QED  BY <1>4, <1>5, <1>6 DEF s

\* The directory of p, with another name in it.
LEMMA Sibling ==
    ASSUME NEW r \in Path, NEW p \in Path, Below(r, p), NEW x \in Names
    PROVE  /\ SubSeq(p, 1, Len(p) - 1) \o <<x>> \in Path
           /\ Below(r, SubSeq(p, 1, Len(p) - 1) \o <<x>>)
           /\ Last(SubSeq(p, 1, Len(p) - 1) \o <<x>>) = x
<1> DEFINE n == Len(p) - 1
           d == SubSeq(p, 1, n)
           one == <<x>>
           s == d \o one
<1>0. Len(p) \in Nat /\ Len(r) \in Nat /\ Len(r) < Len(p) /\ \A i \in 1..Len(r) : r[i] = p[i]
    BY PathFacts, PrefixMeans, BelowMeans DEF Below
<1>1. n \in Nat
    BY <1>0
<1>2. d = [i \in 1..n |-> p[i]]
    BY <1>0 DEF Path
<1>3. d \in [1..n -> Names]
    <2>1. \A i \in 1..n : i \in 1..Len(p)
        BY <1>0
    <2>2. \A i \in 1..n : p[i] \in Names
        BY <2>1, PathFacts
    <2> QED  BY <1>2, <2>2
<1>4. d \in Path /\ Len(d) = n
    BY <1>1, <1>3, LengthOfFunction DEF Path
<1>5. \A i \in 1..n : d[i] = p[i]
    BY <1>2
<1>6. one \in Path /\ Len(one) = 1 /\ one[1] = x
    BY DEF Path
<1> HIDE DEF d, one
<1>7. IsPrefix(r, d)
    BY <1>0, <1>4, <1>5, PrefixMeans
<1>8. s \in Path /\ IsPrefix(d, s) /\ Len(s) = n + 1
    <2>1. s \in Path /\ IsPrefix(d, s) /\ Len(s) = Len(d) + Len(one)
        BY <1>4, <1>6, PrefixConcat
    <2> QED  BY <1>4, <1>6, <2>1
<1>9. s[n + 1] = x
    <2> HIDE DEF n
    <2>1. \A i \in 1..Len(one) : s[Len(d) + i] = one[i]
        BY <1>4, <1>6, ConcatProperties DEF Path
    <2> QED  BY <1>1, <1>4, <1>6, <2>1
<1> HIDE DEF s
<1>10. Below(r, s)
    <2>1. IsPrefix(r, s)
        BY <1>4, <1>7, <1>8, PrefixTrans
    <2> QED  BY <1>0, <1>8, <2>1, BelowMeans
<1>11. Last(s) = x
    BY <1>8, <1>9 DEF Last
<1> QED  BY <1>8, <1>10, <1>11 DEF s, d, one

\* What a link leads to that climbs no higher than to the root.
LEMMA LeadsInside ==
    ASSUME NEW r \in Path, NEW at \in Path, IsPrefix(r, at), NEW link \in Node,
           LinkDepth(at, link) >= Len(r)
    PROVE  LeadsTo(at, link) \in Path /\ IsPrefix(r, LeadsTo(at, link))
<1> DEFINE n == LinkDepth(at, link)
           p == SubSeq(at, 1, n)
<1>0. Len(at) \in Nat /\ Len(r) \in Nat /\ \A i \in 1..Len(r) : r[i] = at[i]
    BY PathFacts, PrefixMeans
<1>1. link.up \in Nat /\ link.to \in Path
    BY DEF Node
<1>2. n \in Nat /\ n <= Len(at) /\ Len(r) <= n
    BY <1>0, <1>1 DEF LinkDepth
<1> HIDE DEF n
<1>3. p = [i \in 1..n |-> at[i]]
    BY <1>0, <1>2 DEF Path
<1>4. p \in [1..n -> Names]
    <2>1. \A i \in 1..n : i \in 1..Len(at)
        BY <1>0, <1>2
    <2>2. \A i \in 1..n : at[i] \in Names
        BY <2>1, PathFacts
    <2> QED  BY <1>3, <2>2
<1>5. p \in Path /\ Len(p) = n
    BY <1>2, <1>4, LengthOfFunction DEF Path
<1>6. \A i \in 1..n : p[i] = at[i]
    BY <1>3
<1> HIDE DEF p
<1>7. IsPrefix(r, p)
    BY <1>0, <1>2, <1>5, <1>6, PrefixMeans
<1>8. p \o link.to \in Path /\ IsPrefix(p, p \o link.to)
    BY <1>1, <1>5, PrefixConcat
<1>9. IsPrefix(r, p \o link.to)
    BY <1>5, <1>7, <1>8, PrefixTrans
<1> QED  BY <1>8, <1>9 DEF LeadsTo, p, n

LEMMA Comparable ==
    ASSUME NEW r \in Path, NEW s \in Path, NEW p \in Path, IsPrefix(r, p), IsPrefix(s, p)
    PROVE  IsPrefix(r, s) \/ IsPrefix(s, r)
<1>1. Len(r) \in Nat /\ Len(s) \in Nat /\ Len(p) \in Nat
    BY PathFacts
<1>2. /\ \A i \in 1..Len(r) : r[i] = p[i]
      /\ \A i \in 1..Len(s) : s[i] = p[i]
    BY PrefixMeans
<1>3. CASE Len(r) <= Len(s)
    BY <1>1, <1>2, <1>3, PrefixMeans
<1>4. CASE Len(s) <= Len(r)
    BY <1>1, <1>2, <1>4, PrefixMeans
<1> QED  BY <1>1, <1>3, <1>4

-----------------------------------------------------------------------------
(* The file API: the file system                                           *)

\* A tree whose files have inodes of a disk of n.
NodesOK(t, n) ==
    /\ t = [p \in DOMAIN t |-> t[p]]
    /\ \A p \in DOMAIN t : p \in Path /\ t[p] \in Node /\ (t[p].kind = "file" => t[p].ino \in 1..n)

\* A walk that has not stopped is in its root; it ends on a link only if it does
\* not follow the last one, and on the root only if it does. One that lacks a
\* directory has stopped where it is missing.
WalkInside(t, root, follow, s) ==
    /\ s.why = "" =>
        /\ s.at \in Path /\ s.rest \in Path /\ IsPrefix(root, s.at)
        /\ follow /\ s.at \in DOMAIN t => t[s.at].kind # "link"
        /\ ~follow => s.rest # <<>> \/ s.at # root
    /\ s.why = "missing" => s.at \in Path /\ Below(root, s.at)

LEMMA HeadTailPath ==
    ASSUME NEW p \in Path, p # <<>> PROVE Head(p) \in Names /\ Tail(p) \in Path
BY HeadTailProperties DEF Path

LEMMA WalkStepInside ==
    ASSUME NEW n, NEW t, NodesOK(t, n), NEW root \in DOMAIN t, t[root].kind = "dir", NEW follow \in BOOLEAN,
           NEW s, WalkInside(t, root, follow, s)
    PROVE  WalkInside(t, root, follow, WalkStep(t, root, follow, s))
<1> DEFINE at == Append(s.at, Head(s.rest))
           more == Tail(s.rest)
           e == WalkStep(t, root, follow, s)
<1>0. root \in Path
    BY DEF NodesOK
<1>1. CASE s.why # "" \/ s.rest = <<>>
    <2>1. e = s
        BY <1>1 DEF WalkStep
    <2> QED  BY <2>1
<1>2. CASE ~(s.why # "" \/ s.rest = <<>>)
    <2>1. s.at \in Path /\ s.rest \in Path /\ s.rest # <<>> /\ IsPrefix(root, s.at)
        BY <1>2 DEF WalkInside
    <2>2. Head(s.rest) \in Names /\ more \in Path
        BY <2>1, HeadTailPath
    <2>3. at \in Path /\ Below(root, at)
        BY <1>0, <2>1, <2>2, PrefixAppend
    <2>4. e = IF at \notin DOMAIN t
              THEN IF more = <<>> THEN Walking(at, <<>>) ELSE Stopped(at, more, "missing")
              ELSE IF t[at].kind = "link" /\ (more # <<>> \/ follow)
              THEN IF LinkDepth(at, t[at]) >= Len(root)
                   THEN Walking(root, Rest(root, LeadsTo(at, t[at])) \o more)
                   ELSE Stopped(at, more, "escapes")
              ELSE IF t[at].kind # "dir" /\ more # <<>> THEN Stopped(at, more, "not a directory")
              ELSE Walking(at, more)
        BY <1>2 DEF WalkStep
    <2> HIDE DEF at, more, e
    <2>5. CASE \/ e = Stopped(at, more, "missing") \/ e = Stopped(at, more, "escapes")
               \/ e = Stopped(at, more, "not a directory")
        <3>0. \A why : Stopped(at, more, why).why = why /\ Stopped(at, more, why).at = at
            BY DEF Stopped
        <3>2. /\ e.why = "missing" \/ e.why = "escapes" \/ e.why = "not a directory"
              /\ e.at = at
            BY <2>5, <3>0
        <3>1. e.why # ""
            BY <3>2
        <3> QED  BY <2>3, <3>1, <3>2 DEF WalkInside, e
    <2>6. CASE at \notin DOMAIN t /\ more = <<>>
        <3>1. e.at = at /\ e.rest = <<>> /\ e.why = ""
            BY <2>4, <2>6 DEF Walking
        <3>2. <<>> \in Path
            BY DEF Path
        <3> QED  BY <2>3, <2>6, <3>1, <3>2 DEF WalkInside, Below, e
    <2>7. CASE e = Walking(at, more) /\ at \in DOMAIN t /\ (t[at].kind = "link" => more = <<>> /\ ~follow)
        <3>1. e.at = at /\ e.rest = more /\ e.why = ""
            BY <2>7 DEF Walking
        <3> QED  BY <2>2, <2>3, <2>7, <3>1 DEF WalkInside, Below, e
    <2>8. CASE /\ e = Walking(root, Rest(root, LeadsTo(at, t[at])) \o more) /\ at \in DOMAIN t
               /\ LinkDepth(at, t[at]) >= Len(root) /\ (more # <<>> \/ follow)
        <3> DEFINE rest == Rest(root, LeadsTo(at, t[at]))
                   joined == rest \o more
        <3>1. LeadsTo(at, t[at]) \in Path /\ IsPrefix(root, LeadsTo(at, t[at]))
            <4>1. t[at] \in Node /\ IsPrefix(root, at)
                BY <2>3, <2>8 DEF NodesOK, Below
            <4> QED  BY <1>0, <2>3, <2>8, <4>1, LeadsInside
        <3>2. rest \in Path
            BY <1>0, <3>1, RestFacts
        <3> HIDE DEF rest
        <3>3. joined \in Path /\ Len(joined) = Len(rest) + Len(more)
            BY <2>2, <3>2, PrefixConcat
        <3>4. ~follow => joined # <<>>
            <4>1. ASSUME ~follow PROVE Len(more) \in Nat \ {0}
                BY <2>2, <2>8, <4>1, EmptySeq DEF Path
            <4>2. ASSUME ~follow PROVE Len(joined) # 0
                BY <3>2, <3>3, <4>1, <4>2, PathFacts
            <4> HIDE DEF joined
            <4> QED  BY <3>3, <4>2
        <3>5. e = Walking(root, joined)
            BY <2>8 DEF rest
        <3> HIDE DEF joined
        <3>6. e.at = root /\ e.rest = joined /\ e.why = ""
            BY <3>5 DEF Walking
        <3>7. IsPrefix(root, root)
            BY <1>0, PathFacts, PrefixMeans
        <3> QED  BY <1>0, <3>3, <3>4, <3>6, <3>7 DEF WalkInside, e
    <2> QED  BY <2>4, <2>5, <2>6, <2>7, <2>8
<1> QED  BY <1>1, <1>2

LEMMA WalkEightInside ==
    ASSUME NEW n, NEW t, NodesOK(t, n), NEW root \in DOMAIN t, t[root].kind = "dir", NEW follow \in BOOLEAN,
           NEW s, WalkInside(t, root, follow, s)
    PROVE  WalkInside(t, root, follow, WalkEight(t, root, follow, s))
<1>1. \A x : WalkInside(t, root, follow, x) => WalkInside(t, root, follow, WalkStep(t, root, follow, x))
    BY WalkStepInside
<1>2. \A x : WalkInside(t, root, follow, x) => WalkInside(t, root, follow, WalkTwo(t, root, follow, x))
    BY <1>1 DEF WalkTwo
<1>3. \A x : WalkInside(t, root, follow, x) => WalkInside(t, root, follow, WalkFour(t, root, follow, x))
    BY <1>2 DEF WalkFour
<1> QED  BY <1>3 DEF WalkEight

\* os.Root: a place that a path in a root leads to is in the root, through links too.
LEMMA LocatedInside ==
    ASSUME NEW n, NEW t, NodesOK(t, n), NEW target, target.root \in DOMAIN t, t[target.root].kind = "dir",
           target.path \in Path, IsPrefix(target.root, target.path), NEW follow \in BOOLEAN,
           ~follow => target.path # target.root, Locate(t, target, follow).ok
    PROVE  LET at == Locate(t, target, follow).at
           IN  /\ at \in Path /\ IsPrefix(target.root, at)
               /\ ~follow => Below(target.root, at)
               /\ at \in DOMAIN t /\ follow => t[at].kind # "link"
               /\ ~IsDir(t, at) => Below(target.root, at)
<1> DEFINE root == target.root
           start == Walking(root, Rest(root, target.path))
           end == WalkEight(t, root, follow, start)
           w == Locate(t, target, follow)
<1>0. root \in Path
    BY DEF NodesOK
<1>1. start.at = root /\ start.rest = Rest(root, target.path) /\ start.why = ""
    BY DEF Walking
<1>2. w.at = end.at /\ end.why = "" /\ end.rest = <<>>
    BY DEF Locate, Walk
<1>3. Rest(root, target.path) \in Path /\ (~follow => Rest(root, target.path) # <<>>)
    <2> DEFINE rest == Rest(root, target.path)
    <2>1. rest \in Path /\ Len(rest) = Len(target.path) - Len(root)
        BY <1>0, RestFacts
    <2>2. ~follow => Len(target.path) > Len(root)
        BY <1>0, BelowMeans DEF Below
    <2>3. ~follow => Len(rest) # 0
        BY <1>0, <2>1, <2>2, PathFacts
    <2> HIDE DEF rest
    <2>4. ~follow => rest # <<>>
        BY <2>1, <2>3
    <2> QED  BY <2>1, <2>4 DEF rest
<1>4. IsPrefix(root, root)
    BY <1>0, PathFacts, PrefixMeans
<1> HIDE DEF start
<1>5. WalkInside(t, root, follow, start)
    BY <1>0, <1>1, <1>3, <1>4 DEF WalkInside
<1>6. WalkInside(t, root, follow, end)
    BY <1>5, WalkEightInside
<1> HIDE DEF end
<1>7. /\ end.at \in Path /\ IsPrefix(root, end.at)
      /\ follow /\ end.at \in DOMAIN t => t[end.at].kind # "link"
      /\ ~follow => end.at # root
    BY <1>2, <1>6 DEF WalkInside
<1>8. ~IsDir(t, end.at) => end.at # root
    BY DEF IsDir
<1> QED  BY <1>2, <1>7, <1>8 DEF Below

\* What MkdirAll makes is in the root too, through the links before it.
LEMMA MissingInside ==
    ASSUME NEW n, NEW t, NodesOK(t, n), NEW target, target.root \in DOMAIN t, t[target.root].kind = "dir",
           target.path \in Path, Below(target.root, target.path), FirstMissing(t, target).ok
    PROVE  FirstMissing(t, target).at \in Path /\ Below(target.root, FirstMissing(t, target).at)
<1> DEFINE root == target.root
           rest == Rest(root, target.path)
           start == Walking(root, rest)
           end == WalkEight(t, root, FALSE, start)
<1>0. root \in Path /\ IsPrefix(root, root)
    BY PathFacts, PrefixMeans DEF NodesOK
<1>1. start.at = root /\ start.rest = rest /\ start.why = ""
    BY DEF Walking
<1>2. /\ FirstMissing(t, target).at = end.at
      /\ end.why = "missing" \/ (end.why = "" /\ end.rest = <<>>)
    BY DEF FirstMissing
<1>3. rest \in Path /\ Len(rest) # 0
    <2>1. rest \in Path /\ Len(rest) = Len(target.path) - Len(root) /\ Len(target.path) > Len(root)
        BY <1>0, RestFacts, BelowMeans DEF Below
    <2> QED  BY <1>0, <2>1, PathFacts
<1> HIDE DEF rest
<1>4. rest # <<>>
    BY <1>3
<1> HIDE DEF start
<1>5. WalkInside(t, root, FALSE, start)
    BY <1>0, <1>1, <1>3, <1>4 DEF WalkInside
<1>6. WalkInside(t, root, FALSE, end)
    BY <1>5, WalkEightInside
<1> HIDE DEF end
<1>7. end.at \in Path /\ Below(root, end.at)
    BY <1>2, <1>6 DEF WalkInside, Below
<1> QED  BY <1>2, <1>7

-----------------------------------------------------------------------------
(* The file API: roots and what is below them                              *)

\* No root is below another one: FilesConfined is false of one that is, because a
\* request on the outer root can move or remove it (README, section 5).
RootsApart == \A r, s \in FileRoots : IsPrefix(r.path, s.path) => r = s

\* At the start a file has one path. A second one, outside of the roots, would
\* show what is written to the first.
NoHardLinks ==
    \A p, q \in DOMAIN StartTree :
        /\ StartTree[p].kind = "file" /\ StartTree[q].kind = "file"
        /\ StartTree[p].ino = StartTree[q].ino => p = q

InRoot(privileged, p) ==
    \E r \in FileRoots : r.privileged = privileged /\ Below(r.path, p)
Inside(p) == InRoot(FALSE, p) \/ InRoot(TRUE, p)

LEMMA RootFacts ==
    ASSUME NEW r \in FileRoots
    PROVE  r.path \in Path /\ r.path \in DOMAIN StartTree /\ StartTree[r.path].kind = "dir"
           /\ r.privileged \in BOOLEAN
BY FileAssumption

LEMMA OneRoot ==
    ASSUME RootsApart, NEW r \in FileRoots, NEW s \in FileRoots, NEW p \in Path,
           IsPrefix(r.path, p), IsPrefix(s.path, p)
    PROVE  r = s
<1>1. IsPrefix(r.path, s.path) \/ IsPrefix(s.path, r.path)
    BY RootFacts, Comparable
<1> QED  BY <1>1 DEF RootsApart

LEMMA RootKindsApart ==
    ASSUME RootsApart, NEW p \in Path PROVE ~(InRoot(FALSE, p) /\ InRoot(TRUE, p))
<1> SUFFICES ASSUME NEW r \in FileRoots, NEW s \in FileRoots, r.privileged = FALSE, s.privileged = TRUE,
                    Below(r.path, p), Below(s.path, p)
             PROVE  FALSE
    BY DEF InRoot
<1>1. r = s
    BY OneRoot DEF Below
<1> QED  BY <1>1

LEMMA RootNotInside ==
    ASSUME RootsApart, NEW r \in FileRoots PROVE ~Inside(r.path)
<1> SUFFICES ASSUME NEW s \in FileRoots, Below(s.path, r.path) PROVE FALSE
    BY DEF Inside, InRoot
<1> QED  BY DEF RootsApart, Below

\* A path that a request may name, with the root it is in.
TargetOK(x) ==
    \E r \in FileRoots : /\ x.root = r.path /\ x.privileged = r.privileged
                         /\ x.path \in Path /\ IsPrefix(r.path, x.path)

LEMMA ResolvedOK ==
    ASSUME RootsApart, NEW path \in Path, Resolve(path).ok
    PROVE  TargetOK(Resolve(path)) /\ Resolve(path).path = path
<1> DEFINE inside == {r \in FileRoots : IsPrefix(r.path, path)}
           best == CHOOSE r \in inside : \A s \in inside : Len(s.path) <= Len(r.path)
<1>1. inside # {}
    BY DEF Resolve
<1>2. Resolve(path) = [ok |-> TRUE, root |-> best.path, path |-> path, privileged |-> best.privileged]
    BY <1>1 DEF Resolve
<1>3. PICK r \in inside : TRUE
    BY <1>1
<1>4. \A s \in inside : s = r
    BY OneRoot
<1>5. Len(r.path) \in Nat
    BY RootFacts, PathFacts
<1>6. \A s \in inside : Len(s.path) <= Len(r.path)
    BY <1>4, <1>5
<1>7. best \in inside
    BY <1>3, <1>6
<1>8. best = r /\ r \in FileRoots /\ IsPrefix(r.path, path)
    BY <1>4, <1>7
<1> HIDE DEF best, inside
<1> QED  BY <1>2, <1>8 DEF TargetOK

-----------------------------------------------------------------------------
(* The file API: what requests keep                                        *)

\* An inode the API may write: no file outside of the roots has it.
Ours(i) ==
    ~\E p \in DOMAIN StartTree : /\ ~Inside(p) /\ StartTree[p].kind = "file" /\ StartTree[p].ino = i

OutsideKept(t) ==
    \A p : ~Inside(p) => /\ p \in DOMAIN t <=> p \in DOMAIN StartTree
                         /\ p \in DOMAIN t => t[p] = StartTree[p]

FilesOurs(t) == \A p \in DOMAIN t : Inside(p) /\ t[p].kind = "file" => Ours(t[p].ino)

\* No inode has a path in an ordinary root and one in a privileged root.
KindsApart(t) ==
    \A p, q \in DOMAIN t : InRoot(FALSE, p) /\ InRoot(TRUE, q) /\ t[p].kind = "file" /\ t[q].kind = "file"
        => t[p].ino # t[q].ino

TreeOK(t, n) == NodesOK(t, n) /\ OutsideKept(t) /\ FilesOurs(t) /\ KindsApart(t)

Data == Range(StartDisk) \cup {req.data : req \in FileRequests} \cup {<<>>}

DiskOK(d) ==
    /\ d \in Seq(Data) /\ Len(StartDisk) <= Len(d)
    /\ \A i \in 1..Len(StartDisk) : ~Ours(i) => d[i] = StartDisk[i]

TempNames == {TempName(c) : c \in FileClients}
WholeBytes == Range(StartDisk) \cup {req.data : req \in {q \in FileRequests : q.act = "write"}}

\* A file of a privileged root that is not a helper's temporary one.
Settled(t, p) == InRoot(TRUE, p) /\ t[p].kind = "file" /\ Last(p) \notin TempNames

Whole(t, d) == \A p \in DOMAIN t : Settled(t, p) => d[t[p].ino] \in WholeBytes

-----------------------------------------------------------------------------
(* The file API: a request that is served                                  *)

Reading == {"read", "window"}
Changing == {"write", "mkdir", "move", "copy", "delete", "fill", "tree", "data", "temp", "rename"}
InPlace == {"fill", "data"}
Aside == {"temp", "rename"}

ServedShape(o) ==
    o = [phase |-> o.phase, req |-> o.req, target |-> o.target, dest |-> o.dest, ino |-> o.ino,
         src |-> o.src, size |-> o.size, temp |-> o.temp, todo |-> o.todo]

Pairing(o) ==
    TargetOK(o.dest) /\ o.dest.path # o.dest.root /\ o.dest.privileged = FALSE

ServedOK(o, n) ==
    /\ ServedShape(o) /\ o.phase \in Reading \cup Changing
    /\ o.req \in FileRequests /\ (o.phase \in FileActs => o.req.act = o.phase)
    /\ TargetOK(o.target) /\ (o.phase \in Changing => o.target.path # o.target.root)
    /\ o.phase \in {"move", "copy", "tree", "data"} => Pairing(o)
    /\ o.phase \in InPlace \cup Aside => o.ino \in 1..n /\ Ours(o.ino)
    /\ o.phase = "data" => o.src \in 1..n
    /\ o.phase \in {"tree", "data"} =>
          \A e \in o.todo : e[2] \in Path /\ Below(o.dest.root, e[2])
    /\ o.phase \in Aside => /\ o.temp \in Path /\ Below(o.target.root, o.temp)
                            /\ o.target.privileged = TRUE /\ o.req.act = "write"

\* What a request writes in place is in no privileged root; what the helper
\* writes is seen under temporary names alone.
WritesApart(o, t) ==
    /\ o.phase \in InPlace =>
          \A p \in DOMAIN t : InRoot(TRUE, p) /\ t[p].kind = "file" => t[p].ino # o.ino
    /\ o.phase \in Aside =>
          \A p \in DOMAIN t : t[p].kind = "file" /\ t[p].ino = o.ino =>
              InRoot(TRUE, p) /\ Last(p) \in TempNames

Filled(o, d) == o.phase = "rename" => d[o.ino] = o.req.data

RequestOK(o, t, d) == o = FreeFop \/ (ServedOK(o, Len(d)) /\ WritesApart(o, t) /\ Filled(o, d))

\* Two requests write different inodes if one of them is the helper's.
DifferentFiles(o, u) ==
    /\ o.phase \in Aside /\ u.phase \in InPlace \cup Aside => o.ino # u.ino
    /\ u.phase \in Aside /\ o.phase \in InPlace \cup Aside => o.ino # u.ino

World(t, d, f) ==
    /\ TreeOK(t, Len(d)) /\ DiskOK(d) /\ Whole(t, d)
    /\ f = [c \in FileClients |-> f[c]]
    /\ \A c \in FileClients : RequestOK(f[c], t, d)
    /\ \A c, e \in FileClients : c # e => DifferentFiles(f[c], f[e])

LEMMA OneRequest ==
    ASSUME NEW t, NEW d, NEW f, World(t, d, f), NEW c \in FileClients, NEW u, NEW e, NEW o,
           TreeOK(u, Len(e)), DiskOK(e), Whole(u, e), RequestOK(o, u, e),
           \A x \in FileClients \ {c} : RequestOK(f[x], u, e) /\ DifferentFiles(o, f[x])
    PROVE  World(u, e, [f EXCEPT ![c] = o])
<1> DEFINE g == [f EXCEPT ![c] = o]
<1>1. g = [x \in FileClients |-> IF x = c THEN o ELSE f[x]]
    BY DEF World
<1> HIDE DEF g
<1>2. g = [x \in FileClients |-> g[x]]
    BY <1>1
<1>3. \A x \in FileClients : RequestOK(g[x], u, e)
    BY <1>1
<1>4. ASSUME NEW x \in FileClients, NEW y \in FileClients, x # y PROVE DifferentFiles(g[x], g[y])
    <2>1. CASE x = c
        <3>1. g[x] = o /\ g[y] = f[y] /\ DifferentFiles(o, f[y])
            BY <1>1, <1>4, <2>1
        <3> QED  BY <3>1
    <2>2. CASE y = c
        <3>1. g[y] = o /\ g[x] = f[x] /\ DifferentFiles(o, f[x])
            BY <1>1, <1>4, <2>2
        <3> QED  BY <3>1 DEF DifferentFiles
    <2>3. CASE x # c /\ y # c
        <3>1. g[y] = f[y] /\ g[x] = f[x]
            BY <1>1, <2>3
        <3> QED  BY <1>4, <3>1 DEF World
    <2> QED  BY <2>1, <2>2, <2>3
<1>5. World(u, e, g)
    BY <1>2, <1>3, <1>4 DEF World
<1> QED  BY <1>5 DEF g

\* A tree made of the nodes of another one: what is outside of the roots stays, a
\* file stays where it is or moves in the ordinary roots.
Rearranged(t, u) ==
    /\ u = [p \in DOMAIN u |-> u[p]]
    /\ \A p \in DOMAIN u : p \in Path /\ u[p] \in Node
    /\ \A p : ~Inside(p) => (p \in DOMAIN t <=> p \in DOMAIN u) /\ (p \in DOMAIN t => u[p] = t[p])
    /\ \A p \in DOMAIN u : u[p].kind = "file" =>
          \E q \in DOMAIN t : /\ t[q].kind = "file" /\ t[q].ino = u[p].ino
                              /\ q = p \/ (InRoot(FALSE, p) /\ InRoot(FALSE, q))

LEMMA RearrangedKeeps ==
    ASSUME RootsApart, NEW t, NEW d, NEW u, TreeOK(t, Len(d)), Whole(t, d), Rearranged(t, u)
    PROVE  /\ TreeOK(u, Len(d)) /\ Whole(u, d)
           /\ \A o : WritesApart(o, t) => WritesApart(o, u)
           /\ \A o : RequestOK(o, t, d) => RequestOK(o, u, d)
<1>0. \A p \in DOMAIN u : ~(InRoot(FALSE, p) /\ InRoot(TRUE, p))
    BY RootKindsApart DEF Rearranged
<1>a. \A p \in DOMAIN u : u[p].kind = "file" =>
          \E q \in DOMAIN t : /\ t[q].kind = "file" /\ t[q].ino = u[p].ino
                              /\ q = p \/ (InRoot(FALSE, p) /\ InRoot(FALSE, q))
    BY DEF Rearranged
<1>1. NodesOK(u, Len(d))
    BY <1>a DEF Rearranged, TreeOK, NodesOK
<1>2. OutsideKept(u)
    BY DEF Rearranged, TreeOK, OutsideKept
<1>3. FilesOurs(u)
    <2> SUFFICES ASSUME NEW p \in DOMAIN u, Inside(p), u[p].kind = "file" PROVE Ours(u[p].ino)
        BY DEF FilesOurs
    <2>1. PICK q \in DOMAIN t : /\ t[q].kind = "file" /\ t[q].ino = u[p].ino
                                /\ q = p \/ (InRoot(FALSE, p) /\ InRoot(FALSE, q))
        BY <1>a
    <2>2. Inside(q)
        BY <2>1 DEF Inside
    <2> QED  BY <2>1, <2>2 DEF TreeOK, FilesOurs
<1>4. KindsApart(u)
    <2> SUFFICES ASSUME NEW p \in DOMAIN u, NEW q \in DOMAIN u, InRoot(FALSE, p), InRoot(TRUE, q),
                        u[p].kind = "file", u[q].kind = "file"
                 PROVE  u[p].ino # u[q].ino
        BY DEF KindsApart
    <2>1. PICK a \in DOMAIN t : /\ t[a].kind = "file" /\ t[a].ino = u[p].ino
                                /\ a = p \/ (InRoot(FALSE, p) /\ InRoot(FALSE, a))
        BY <1>a
    <2>2. PICK b \in DOMAIN t : /\ t[b].kind = "file" /\ t[b].ino = u[q].ino
                                /\ b = q \/ (InRoot(FALSE, q) /\ InRoot(FALSE, b))
        BY <1>a
    <2>3. InRoot(FALSE, a) /\ InRoot(TRUE, b)
        BY <1>0, <2>1, <2>2
    <2> QED  BY <2>1, <2>2, <2>3 DEF TreeOK, KindsApart
<1>5. Whole(u, d)
    <2> SUFFICES ASSUME NEW p \in DOMAIN u, Settled(u, p) PROVE d[u[p].ino] \in WholeBytes
        BY DEF Whole
    <2>1. PICK q \in DOMAIN t : /\ t[q].kind = "file" /\ t[q].ino = u[p].ino
                                /\ q = p \/ (InRoot(FALSE, p) /\ InRoot(FALSE, q))
        BY <1>a DEF Settled
    <2>2. q = p
        BY <1>0, <2>1 DEF Settled
    <2> QED  BY <2>1, <2>2 DEF Whole, Settled
<1>6. ASSUME NEW o, WritesApart(o, t) PROVE WritesApart(o, u)
    <2>1. ASSUME o.phase \in InPlace, NEW p \in DOMAIN u, InRoot(TRUE, p), u[p].kind = "file"
          PROVE  u[p].ino # o.ino
        <3>1. PICK q \in DOMAIN t : /\ t[q].kind = "file" /\ t[q].ino = u[p].ino
                                    /\ q = p \/ (InRoot(FALSE, p) /\ InRoot(FALSE, q))
            BY <1>a, <2>1
        <3>2. q = p
            BY <1>0, <2>1, <3>1
        <3> QED  BY <1>6, <2>1, <3>1, <3>2 DEF WritesApart
    <2>2. ASSUME o.phase \in Aside, NEW p \in DOMAIN u, u[p].kind = "file", u[p].ino = o.ino
          PROVE  InRoot(TRUE, p) /\ Last(p) \in TempNames
        <3>1. PICK q \in DOMAIN t : /\ t[q].kind = "file" /\ t[q].ino = u[p].ino
                                    /\ q = p \/ (InRoot(FALSE, p) /\ InRoot(FALSE, q))
            BY <1>a, <2>2
        <3>2. InRoot(TRUE, q) /\ Last(q) \in TempNames
            BY <1>6, <2>2, <3>1 DEF WritesApart
        <3>3. q \in Path
            BY DEF TreeOK, NodesOK
        <3>4. ~InRoot(FALSE, q)
            BY <3>2, <3>3, RootKindsApart
        <3> QED  BY <3>1, <3>2, <3>4
    <2> QED  BY <2>1, <2>2 DEF WritesApart
<1>7. \A o : RequestOK(o, t, d) => RequestOK(o, u, d)
    BY <1>6 DEF RequestOK
<1> QED  BY <1>1, <1>2, <1>3, <1>4, <1>5, <1>6, <1>7 DEF TreeOK

-----------------------------------------------------------------------------
(* The file API: what a write, a new file and a rename do                  *)

\* What is written to a disk.
Overwritten(d, i, x) == [d EXCEPT ![i] = x]
Created(d) == Append(d, <<>>)

\* The tree and the disk, without the requests.
Standing(t, d) == TreeOK(t, Len(d)) /\ DiskOK(d) /\ Whole(t, d)

\* Inode i may be written: nothing outside of the roots has it, and no settled
\* file of a privileged root.
Writable(t, i) ==
    /\ Ours(i)
    /\ \A p \in DOMAIN t : InRoot(TRUE, p) /\ t[p].kind = "file" /\ t[p].ino = i => Last(p) \in TempNames

LEMMA OverwrittenKeeps ==
    ASSUME NEW t, NEW d, Standing(t, d), NEW i \in 1..Len(d), Writable(t, i), NEW x \in Data,
           NEW e, e = Overwritten(d, i, x)
    PROVE  /\ Standing(t, e) /\ Len(e) = Len(d) /\ e[i] = x
           /\ \A o : RequestOK(o, t, d) /\ (o.phase = "rename" => o.ino # i) => RequestOK(o, t, e)
<1>0. /\ TreeOK(t, Len(d)) /\ DiskOK(d) /\ Whole(t, d) /\ Ours(i)
      /\ \A p \in DOMAIN t : InRoot(TRUE, p) /\ t[p].kind = "file" /\ t[p].ino = i => Last(p) \in TempNames
    BY DEF Standing, Writable
<1>1. /\ d \in Seq(Data) /\ Len(d) \in Nat /\ Len(StartDisk) <= Len(d) /\ Len(StartDisk) \in Nat
      /\ \A j \in 1..Len(StartDisk) : ~Ours(j) => d[j] = StartDisk[j]
    <2>1. Len(StartDisk) \in Nat
        BY FileAssumption, LenProperties
    <2> QED  BY <1>0, <2>1, LenProperties DEF DiskOK
<1>2. /\ e \in Seq(Data) /\ Len(e) = Len(d)
      /\ \A j \in 1..Len(d) : e[j] = IF j = i THEN x ELSE d[j]
    BY <1>1, ExceptSeq DEF Overwritten
<1>3. TreeOK(t, Len(e))
    BY <1>0, <1>2
<1>4. DiskOK(e)
    <2>1. \A j \in 1..Len(StartDisk) : ~Ours(j) => e[j] = StartDisk[j]
        BY <1>0, <1>1, <1>2
    <2> QED  BY <1>1, <1>2, <2>1 DEF DiskOK
<1>5. Whole(t, e)
    <2> SUFFICES ASSUME NEW p \in DOMAIN t, Settled(t, p) PROVE e[t[p].ino] \in WholeBytes
        BY DEF Whole
    <2>1. t[p].ino \in 1..Len(d) /\ t[p].ino # i
        BY <1>0 DEF Settled, TreeOK, NodesOK
    <2>2. d[t[p].ino] \in WholeBytes
        BY <1>0 DEF Whole
    <2> QED  BY <1>2, <2>1, <2>2
<1>6. ASSUME NEW o, RequestOK(o, t, d), o.phase = "rename" => o.ino # i PROVE RequestOK(o, t, e)
    <2>1. CASE o = FreeFop
        BY <2>1 DEF RequestOK
    <2>2. CASE ServedOK(o, Len(d)) /\ WritesApart(o, t) /\ Filled(o, d)
        <3>1. ASSUME o.phase = "rename" PROVE e[o.ino] = o.req.data
            <4>1. o.ino \in 1..Len(d) /\ o.ino # i /\ d[o.ino] = o.req.data
                BY <1>6, <2>2, <3>1 DEF ServedOK, Filled, Aside
            <4> QED  BY <1>2, <4>1
        <3> QED  BY <1>2, <2>2, <3>1 DEF RequestOK, Filled
    <2> QED  BY <1>6, <2>1, <2>2 DEF RequestOK
<1> QED  BY <1>2, <1>3, <1>4, <1>5, <1>6 DEF Standing

LEMMA ServedGrows ==
    ASSUME NEW n \in Nat, NEW o, ServedOK(o, n) PROVE ServedOK(o, n + 1)
<1>1. \A i \in 1..n : i \in 1..(n + 1)
    OBVIOUS
<1> QED  BY <1>1 DEF ServedOK

LEMMA NewIsOurs ==
    ASSUME NEW n \in Nat, Len(StartDisk) <= n PROVE Ours(n + 1)
<1>1. Len(StartDisk) \in Nat
    BY FileAssumption, LenProperties
<1>2. n + 1 \notin 1..Len(StartDisk)
    BY <1>1
<1> QED  BY <1>2, FileAssumption DEF Ours

\* Where a new file may be made: the helper makes temporary ones only.
MayAppear(at) == InRoot(FALSE, at) \/ (InRoot(TRUE, at) /\ Last(at) \in TempNames)

LEMMA CreatedKeeps ==
    ASSUME RootsApart, NEW t, NEW d, Standing(t, d), NEW at \in Path, at \notin DOMAIN t, MayAppear(at),
           NEW i, i = Len(d) + 1, NEW e, e = Created(d), NEW u, u = Put(t, at, File(i))
    PROVE  /\ Standing(u, e) /\ Len(e) = i /\ i \in 1..Len(e) /\ Ours(i)
           /\ \A o : RequestOK(o, t, d) => RequestOK(o, u, e)
           /\ \A p \in DOMAIN u : u[p].kind = "file" /\ u[p].ino = i => p = at
<1>0. /\ TreeOK(t, Len(d)) /\ DiskOK(d) /\ Whole(t, d)
      /\ InRoot(FALSE, at) \/ (InRoot(TRUE, at) /\ Last(at) \in TempNames)
    BY DEF Standing, MayAppear
<1>1. /\ d \in Seq(Data) /\ Len(d) \in Nat /\ Len(StartDisk) <= Len(d) /\ Len(StartDisk) \in Nat
      /\ \A j \in 1..Len(StartDisk) : ~Ours(j) => d[j] = StartDisk[j]
    <2>1. Len(StartDisk) \in Nat
        BY FileAssumption, LenProperties
    <2> QED  BY <1>0, <2>1, LenProperties DEF DiskOK
<1>2. e \in Seq(Data) /\ Len(e) = i /\ \A j \in 1..Len(d) : e[j] = d[j]
    <2>1. <<>> \in Data
        BY DEF Data
    <2> QED  BY <1>1, <2>1, AppendProperties DEF Created
<1>3. i \in 1..Len(e) /\ i \in Nat /\ i \notin 1..Len(d) /\ \A j \in 1..Len(d) : j \in 1..i
    BY <1>1, <1>2
<1>4. Ours(i)
    BY <1>1, NewIsOurs
<1>5. /\ DOMAIN u = DOMAIN t \cup {at} /\ u = [p \in DOMAIN u |-> u[p]]
      /\ u[at] = File(i) /\ \A p \in DOMAIN t : u[p] = t[p]
    BY DEF Put
<1>6. File(i) \in Node /\ File(i).kind = "file" /\ File(i).ino = i
    <2>1. <<>> \in Path
        BY DEF Path
    <2> QED  BY <1>3, <2>1 DEF Node, File
<1>7. \A p \in DOMAIN t : p \in Path /\ t[p] \in Node /\ (t[p].kind = "file" => t[p].ino \in 1..Len(d))
    BY <1>0 DEF TreeOK, NodesOK
<1>8. \A p \in DOMAIN u : u[p].kind = "file" /\ u[p].ino = i => p = at
    BY <1>3, <1>5, <1>7
<1>9. NodesOK(u, Len(e))
    BY <1>2, <1>3, <1>5, <1>6, <1>7 DEF NodesOK
<1>10. Inside(at)
    BY <1>0 DEF Inside
<1>11. OutsideKept(u)
    <2>1. OutsideKept(t)
        BY <1>0 DEF TreeOK
    <2> QED  BY <1>5, <1>10, <2>1 DEF OutsideKept
<1>12. FilesOurs(u)
    <2>1. FilesOurs(t)
        BY <1>0 DEF TreeOK
    <2> QED  BY <1>4, <1>5, <1>6, <2>1 DEF FilesOurs
<1>13. KindsApart(u)
    <2> SUFFICES ASSUME NEW p \in DOMAIN u, NEW q \in DOMAIN u, InRoot(FALSE, p), InRoot(TRUE, q),
                        u[p].kind = "file", u[q].kind = "file", u[p].ino = u[q].ino
                 PROVE  FALSE
        BY DEF KindsApart
    <2>1. p # q
        BY <1>9, RootKindsApart DEF NodesOK
    <2>2. p # at /\ q # at
        BY <1>5, <1>6, <1>8, <2>1
    <2>3. p \in DOMAIN t /\ q \in DOMAIN t /\ u[p] = t[p] /\ u[q] = t[q]
        BY <1>5, <2>2
    <2>4. KindsApart(t)
        BY <1>0 DEF TreeOK
    <2>5. t[p].ino # t[q].ino
        BY <2>3, <2>4 DEF KindsApart
    <2> QED  BY <2>3, <2>5
<1>14. DiskOK(e)
    <2>1. \A j \in 1..Len(StartDisk) : ~Ours(j) => e[j] = StartDisk[j]
        BY <1>1, <1>2
    <2> QED  BY <1>1, <1>2, <2>1 DEF DiskOK
<1>15. Whole(u, e)
    <2> SUFFICES ASSUME NEW p \in DOMAIN u, Settled(u, p) PROVE e[u[p].ino] \in WholeBytes
        BY DEF Whole
    <2>1. p # at
        BY <1>0, RootKindsApart DEF Settled
    <2>2. p \in DOMAIN t /\ u[p] = t[p] /\ Settled(t, p)
        BY <1>5, <2>1 DEF Settled
    <2>3. t[p].ino \in 1..Len(d) /\ d[t[p].ino] \in WholeBytes
        BY <1>0, <1>7, <2>2 DEF Whole, Settled
    <2> QED  BY <1>2, <2>2, <2>3
<1>16. ASSUME NEW o, RequestOK(o, t, d) PROVE RequestOK(o, u, e)
    <2>1. CASE o = FreeFop
        BY <2>1 DEF RequestOK
    <2>2. CASE ServedOK(o, Len(d)) /\ WritesApart(o, t) /\ Filled(o, d)
        <3>1. ServedOK(o, Len(e))
            BY <1>1, <1>2, <2>2, ServedGrows
        <3>2. o.phase \in InPlace \cup Aside => o.ino \in 1..Len(d)
            BY <2>2 DEF ServedOK
        <3>3. WritesApart(o, u)
            <4>1. \A p \in DOMAIN u : u[p].kind = "file" /\ u[p].ino # i => p \in DOMAIN t /\ u[p] = t[p]
                BY <1>5, <1>6
            <4>2. o.phase \in InPlace \cup Aside => o.ino # i
                BY <1>3, <3>2
            <4>3. ASSUME o.phase \in InPlace, NEW p \in DOMAIN u, InRoot(TRUE, p), u[p].kind = "file"
                  PROVE  u[p].ino # o.ino
                BY <2>2, <4>1, <4>2, <4>3 DEF WritesApart
            <4>4. ASSUME o.phase \in Aside, NEW p \in DOMAIN u, u[p].kind = "file", u[p].ino = o.ino
                  PROVE  InRoot(TRUE, p) /\ Last(p) \in TempNames
                BY <2>2, <4>1, <4>2, <4>4 DEF WritesApart
            <4> QED  BY <4>3, <4>4 DEF WritesApart
        <3>4. Filled(o, e)
            BY <1>2, <2>2, <3>2 DEF Filled, Aside
        <3> QED  BY <3>1, <3>3, <3>4 DEF RequestOK
    <2> QED  BY <1>16, <2>1, <2>2 DEF RequestOK
<1> QED  BY <1>2, <1>3, <1>4, <1>8, <1>9, <1>11, <1>12, <1>13, <1>14, <1>15, <1>16 DEF Standing, TreeOK

\* The helper's rename: the file it has written appears under its own name.
LEMMA RenamedKeeps ==
    ASSUME RootsApart, NEW t, NEW d, TreeOK(t, Len(d)), DiskOK(d), Whole(t, d),
           NEW o, o # FreeFop, RequestOK(o, t, d), o.phase = "rename", NEW at \in Path, InRoot(TRUE, at),
           NEW u, u = Put(Without(t, {o.temp}), at, File(o.ino))
    PROVE  /\ TreeOK(u, Len(d)) /\ Whole(u, d)
           /\ \A v : RequestOK(v, t, d) /\ DifferentFiles(o, v) => RequestOK(v, u, d)
<1>1. /\ ServedOK(o, Len(d)) /\ WritesApart(o, t) /\ Filled(o, d)
    BY DEF RequestOK
<1>2. /\ o.ino \in 1..Len(d) /\ Ours(o.ino) /\ o.temp \in Path /\ Below(o.target.root, o.temp)
      /\ TargetOK(o.target) /\ o.target.privileged = TRUE /\ o.req.act = "write" /\ o.req \in FileRequests
    BY <1>1 DEF ServedOK, Aside
<1>3. InRoot(TRUE, o.temp)
    BY <1>2 DEF InRoot, TargetOK
<1>4. /\ DOMAIN u = (DOMAIN t \ {o.temp}) \cup {at} /\ u = [p \in DOMAIN u |-> u[p]]
      /\ u[at] = File(o.ino) /\ \A p \in DOMAIN u : p # at => p \in DOMAIN t /\ u[p] = t[p]
    BY DEF Put, Without
<1>5. Len(d) \in Nat
    BY LenProperties DEF DiskOK
<1>6. File(o.ino) \in Node /\ File(o.ino).kind = "file" /\ File(o.ino).ino = o.ino
    <2>1. <<>> \in Path
        BY DEF Path
    <2> QED  BY <1>2, <1>5, <2>1 DEF Node, File
<1>7. \A p \in DOMAIN t : p \in Path /\ t[p] \in Node /\ (t[p].kind = "file" => t[p].ino \in 1..Len(d))
    BY DEF TreeOK, NodesOK
<1>8. NodesOK(u, Len(d))
    <2>1. ASSUME NEW p \in DOMAIN u
          PROVE  p \in Path /\ u[p] \in Node /\ (u[p].kind = "file" => u[p].ino \in 1..Len(d))
        <3>1. CASE p = at
            BY <1>2, <1>4, <1>6, <3>1
        <3>2. CASE p # at
            BY <1>4, <1>7, <3>2
        <3> QED  BY <3>1, <3>2
    <2> QED  BY <1>4, <2>1 DEF NodesOK
<1>9. \A p \in DOMAIN t : t[p].kind = "file" /\ t[p].ino = o.ino => InRoot(TRUE, p) /\ Last(p) \in TempNames
    BY <1>1 DEF WritesApart, Aside
<1>10. Inside(at) /\ Inside(o.temp)
    BY <1>3 DEF Inside
<1>11. OutsideKept(u)
    <2>1. OutsideKept(t)
        BY DEF TreeOK
    <2> QED  BY <1>4, <1>10, <2>1 DEF OutsideKept
<1>12. FilesOurs(u)
    <2>1. FilesOurs(t)
        BY DEF TreeOK
    <2>2. ASSUME NEW p \in DOMAIN u, Inside(p), u[p].kind = "file" PROVE Ours(u[p].ino)
        <3>1. CASE p = at
            BY <1>2, <1>4, <1>6, <3>1
        <3>2. CASE p # at
            BY <1>4, <2>1, <2>2, <3>2 DEF FilesOurs
        <3> QED  BY <3>1, <3>2
    <2> QED  BY <2>2 DEF FilesOurs
<1>13. ~InRoot(FALSE, at)
    BY RootKindsApart
<1>14. KindsApart(u)
    <2> SUFFICES ASSUME NEW p \in DOMAIN u, NEW q \in DOMAIN u, InRoot(FALSE, p), InRoot(TRUE, q),
                        u[p].kind = "file", u[q].kind = "file", u[p].ino = u[q].ino
                 PROVE  FALSE
        BY DEF KindsApart
    <2>1. p \in DOMAIN t /\ u[p] = t[p]
        BY <1>4, <1>13
    <2>2. CASE q = at
        <3>1. InRoot(TRUE, p) /\ p \in Path
            BY <1>4, <1>6, <1>7, <1>9, <2>1, <2>2
        <3> QED  BY <3>1, RootKindsApart
    <2>3. CASE q # at
        <3>1. q \in DOMAIN t /\ u[q] = t[q]
            BY <1>4, <2>3
        <3>2. KindsApart(t)
            BY DEF TreeOK
        <3>3. t[p].ino # t[q].ino
            BY <2>1, <3>1, <3>2 DEF KindsApart
        <3> QED  BY <2>1, <3>1, <3>3
    <2> QED  BY <2>2, <2>3
<1>15. Whole(u, d)
    <2> SUFFICES ASSUME NEW p \in DOMAIN u, Settled(u, p) PROVE d[u[p].ino] \in WholeBytes
        BY DEF Whole
    <2>1. CASE p = at
        <3>1. d[o.ino] = o.req.data
            BY <1>1 DEF Filled
        <3>2. o.req.data \in WholeBytes
            BY <1>2 DEF WholeBytes
        <3> QED  BY <1>4, <1>6, <2>1, <3>1, <3>2
    <2>2. CASE p # at
        <3>1. p \in DOMAIN t /\ u[p] = t[p]
            BY <1>4, <2>2
        <3>2. Settled(t, p)
            BY <3>1 DEF Settled
        <3> QED  BY <3>1, <3>2 DEF Whole
    <2> QED  BY <2>1, <2>2
<1>16. ASSUME NEW v, RequestOK(v, t, d), DifferentFiles(o, v) PROVE RequestOK(v, u, d)
    <2>1. CASE v = FreeFop
        BY <2>1 DEF RequestOK
    <2>2. CASE ServedOK(v, Len(d)) /\ WritesApart(v, t) /\ Filled(v, d)
        <3>1. v.phase \in InPlace \cup Aside => v.ino # o.ino
            BY <1>16 DEF DifferentFiles, Aside
        <3>2. \A p \in DOMAIN u : u[p].ino # o.ino => p \in DOMAIN t /\ u[p] = t[p]
            BY <1>4, <1>6
        <3>3. ASSUME v.phase \in InPlace, NEW p \in DOMAIN u, InRoot(TRUE, p), u[p].kind = "file"
              PROVE  u[p].ino # v.ino
            BY <2>2, <3>1, <3>2, <3>3 DEF WritesApart
        <3>4. ASSUME v.phase \in Aside, NEW p \in DOMAIN u, u[p].kind = "file", u[p].ino = v.ino
              PROVE  InRoot(TRUE, p) /\ Last(p) \in TempNames
            BY <2>2, <3>1, <3>2, <3>4 DEF WritesApart
        <3>5. WritesApart(v, u)
            BY <3>3, <3>4 DEF WritesApart
        <3> QED  BY <2>2, <3>5 DEF RequestOK
    <2> QED  BY <1>16, <2>1, <2>2 DEF RequestOK
<1> QED  BY <1>8, <1>11, <1>12, <1>14, <1>15, <1>16 DEF TreeOK

-----------------------------------------------------------------------------
(* The file API: what only rearranges the tree                             *)

LEMMA PlainNodes ==
    /\ Dir \in Node /\ Dir.kind = "dir"
    /\ \A n : n \in Node => n.kind \in {"dir", "file", "link"}
<1>1. <<>> \in Path
    BY DEF Path
<1> QED  BY <1>1 DEF Dir, Node

\* Something that is not a file is put at a place below a root.
LEMMA PutRearranges ==
    ASSUME NEW n, NEW t, TreeOK(t, n), NEW at \in Path, Inside(at), NEW x \in Node, x.kind # "file"
    PROVE  Rearranged(t, Put(t, at, x))
<1> DEFINE u == Put(t, at, x)
<1>1. \A p \in DOMAIN t : p \in Path /\ t[p] \in Node
    BY DEF TreeOK, NodesOK
<1>2. /\ DOMAIN u = DOMAIN t \cup {at} /\ u = [p \in DOMAIN u |-> u[p]]
      /\ u[at] = x /\ \A p \in DOMAIN u : p # at => p \in DOMAIN t /\ u[p] = t[p]
    BY DEF Put
<1> HIDE DEF u
<1>3. Rearranged(t, u)
    BY <1>1, <1>2 DEF Rearranged
<1> QED  BY <1>3 DEF u

LEMMA WithoutRearranges ==
    ASSUME NEW n, NEW t, TreeOK(t, n), NEW ps, \A p \in ps : Inside(p)
    PROVE  Rearranged(t, Without(t, ps))
<1> DEFINE u == Without(t, ps)
<1>1. \A p \in DOMAIN t : p \in Path /\ t[p] \in Node
    BY DEF TreeOK, NodesOK
<1>2. /\ DOMAIN u = DOMAIN t \ ps /\ u = [p \in DOMAIN u |-> u[p]]
      /\ \A p \in DOMAIN u : u[p] = t[p]
    BY DEF Without
<1> HIDE DEF u
<1>3. Rearranged(t, u)
    BY <1>1, <1>2 DEF Rearranged
<1> QED  BY <1>3 DEF u

LEMMA RestOfConcat ==
    ASSUME NEW p \in Path, NEW q \in Path PROVE Rest(p, p \o q) = q
<1> DEFINE c == p \o q
           s == Rest(p, c)
<1>0. Len(p) \in Nat /\ Len(q) \in Nat
    BY PathFacts
<1>1. c \in Path /\ IsPrefix(p, c) /\ Len(c) = Len(p) + Len(q)
    BY PrefixConcat
<1>2. \A i \in 1..Len(q) : c[Len(p) + i] = q[i]
    BY <1>0, ConcatProperties DEF Path
<1> HIDE DEF c
<1>3. s \in Path /\ Len(s) = Len(c) - Len(p) /\ \A i \in 1..(Len(c) - Len(p)) : s[i] = c[Len(p) + i]
    BY <1>1, RestFacts
<1>4. Len(c) - Len(p) = Len(q)
    BY <1>0, <1>1
<1> HIDE DEF s
<1>5. s = q
    BY <1>2, <1>3, <1>4, SamePath
<1> QED  BY <1>5 DEF s, c

LEMMA GraftedRearranges ==
    ASSUME NEW n, NEW t, TreeOK(t, n), NEW from \in Path, NEW to \in Path, InRoot(FALSE, from), InRoot(FALSE, to)
    PROVE  Rearranged(t, Grafted(t, from, to))
<1> DEFINE moved == {to \o Rest(from, q) : q \in Under(t, from)}
           kept == DOMAIN t \ (Under(t, from) \cup {to})
           u == Grafted(t, from, to)
<1>1. \A p \in DOMAIN t : p \in Path /\ t[p] \in Node
    BY DEF TreeOK, NodesOK
<1>2. ASSUME NEW q \in Path, NEW a \in Path, InRoot(FALSE, a), IsPrefix(a, q) PROVE InRoot(FALSE, q)
    <2>1. PICK r \in FileRoots : r.privileged = FALSE /\ Below(r.path, a)
        BY <1>2 DEF InRoot
    <2>2. Below(r.path, q)
        BY <1>2, <2>1, RootFacts, BelowTrans
    <2> QED  BY <2>1, <2>2 DEF InRoot
<1>3. ASSUME NEW q \in Under(t, from) PROVE q \in DOMAIN t /\ q \in Path /\ InRoot(FALSE, q)
    BY <1>1, <1>2 DEF Under
<1>4. ASSUME NEW p \in moved
      PROVE  p \in Path /\ InRoot(FALSE, p) /\ from \o Rest(to, p) \in Under(t, from)
    <2>1. PICK q \in Under(t, from) : p = to \o Rest(from, q)
        OBVIOUS
    <2>2. q \in Path /\ IsPrefix(from, q)
        BY <1>3 DEF Under
    <2>3. Rest(from, q) \in Path /\ from \o Rest(from, q) = q
        BY <2>2, RestFacts
    <2>4. p \in Path /\ IsPrefix(to, p) /\ Rest(to, p) = Rest(from, q)
        BY <2>1, <2>3, PrefixConcat, RestOfConcat
    <2>5. InRoot(FALSE, p)
        BY <1>2, <2>4
    <2> QED  BY <2>3, <2>4, <2>5
<1>5. u = [q \in kept \cup moved |-> IF q \in moved THEN t[from \o Rest(to, q)] ELSE t[q]]
    BY DEF Grafted
<1>6. \A q \in kept : q \in DOMAIN t /\ q # to /\ q \notin Under(t, from)
    OBVIOUS
<1>7. \A q \in DOMAIN t : q \in kept \/ q = to \/ q \in Under(t, from)
    OBVIOUS
<1> HIDE DEF moved, kept, u
<1>8. /\ DOMAIN u = kept \cup moved /\ u = [p \in DOMAIN u |-> u[p]]
      /\ \A p \in moved : u[p] = t[from \o Rest(to, p)]
      /\ \A p \in kept : p \notin moved => u[p] = t[p]
    BY <1>5
<1>9. \A p \in DOMAIN u : p \in Path /\ u[p] \in Node
    BY <1>1, <1>3, <1>4, <1>6, <1>8
<1>10. ASSUME NEW p, ~Inside(p)
       PROVE  (p \in DOMAIN t <=> p \in DOMAIN u) /\ (p \in DOMAIN t => u[p] = t[p])
    <2>1. p \notin moved /\ p # to /\ p \notin Under(t, from)
        BY <1>3, <1>4, <1>10 DEF Inside
    <2> QED  BY <1>6, <1>7, <1>8, <2>1
<1>11. ASSUME NEW p \in DOMAIN u, u[p].kind = "file"
       PROVE  \E q \in DOMAIN t : /\ t[q].kind = "file" /\ t[q].ino = u[p].ino
                                  /\ q = p \/ (InRoot(FALSE, p) /\ InRoot(FALSE, q))
    <2>1. CASE p \in moved
        <3> DEFINE q == from \o Rest(to, p)
        <3>1. q \in DOMAIN t /\ InRoot(FALSE, p) /\ InRoot(FALSE, q) /\ u[p] = t[q]
            BY <1>3, <1>4, <1>8, <2>1
        <3> HIDE DEF q
        <3> QED  BY <1>11, <3>1
    <2>2. CASE p \notin moved
        BY <1>6, <1>8, <1>11, <2>2
    <2> QED  BY <2>1, <2>2
<1>12. Rearranged(t, u)
    BY <1>8, <1>9, <1>10, <1>11 DEF Rearranged
<1> QED  BY <1>12 DEF u

LEMMA NothingRearranged ==
    ASSUME NEW n, NEW t, TreeOK(t, n) PROVE Rearranged(t, t)
BY DEF TreeOK, NodesOK, Rearranged

-----------------------------------------------------------------------------
(* The file API: one step of one request                                   *)

LEMMA RequestFacts ==
    ASSUME NEW t, NEW d, NEW f, World(t, d, f), NEW c \in FileClients, f[c].phase # "idle"
    PROVE  /\ f[c] # FreeFop /\ RequestOK(f[c], t, d)
           /\ ServedOK(f[c], Len(d)) /\ WritesApart(f[c], t) /\ Filled(f[c], d)
<1>1. FreeFop.phase = "idle"
    BY DEF FreeFop
<1>2. f[c] # FreeFop
    BY <1>1
<1> QED  BY <1>2 DEF World, RequestOK

LEMMA TargetPlace ==
    ASSUME RootsApart, NEW n, NEW t, TreeOK(t, n), NEW x, TargetOK(x)
    PROVE  /\ x.root \in DOMAIN t /\ t[x.root].kind = "dir" /\ x.root \in Path
           /\ x.path \in Path /\ IsPrefix(x.root, x.path) /\ x.privileged \in BOOLEAN
           /\ \A p : Below(x.root, p) => InRoot(x.privileged, p)
<1>1. PICK r \in FileRoots : /\ x.root = r.path /\ x.privileged = r.privileged
                             /\ x.path \in Path /\ IsPrefix(r.path, x.path)
    BY DEF TargetOK
<1>2. r.path \in Path /\ r.path \in DOMAIN StartTree /\ StartTree[r.path].kind = "dir" /\ r.privileged \in BOOLEAN
    BY RootFacts
<1>3. ~Inside(r.path)
    BY RootNotInside
<1>4. r.path \in DOMAIN t /\ t[r.path] = StartTree[r.path]
    BY <1>2, <1>3 DEF TreeOK, OutsideKept
<1>5. \A p : Below(x.root, p) => InRoot(x.privileged, p)
    BY <1>1 DEF InRoot
<1> QED  BY <1>1, <1>2, <1>4, <1>5

\* A step that rearranges the tree, or leaves it, and opens no file to write.
LEMMA QuietStep ==
    ASSUME RootsApart, NEW t, NEW d, NEW f, World(t, d, f), NEW c \in FileClients, NEW u, Rearranged(t, u),
           NEW o, o = FreeFop \/ (ServedOK(o, Len(d)) /\ o.phase \notin InPlace \cup Aside)
    PROVE  World(u, d, [f EXCEPT ![c] = o])
<1>1. TreeOK(t, Len(d)) /\ DiskOK(d) /\ Whole(t, d) /\ \A x \in FileClients : RequestOK(f[x], t, d)
    BY DEF World
<1>2. TreeOK(u, Len(d)) /\ Whole(u, d) /\ \A x \in FileClients : RequestOK(f[x], u, d)
    BY <1>1, RearrangedKeeps
<1>3. o.phase \notin InPlace \cup Aside
    BY DEF FreeFop, InPlace, Aside
<1>4. RequestOK(o, u, d)
    BY <1>3 DEF RequestOK, WritesApart, Filled, Aside
<1>5. \A x \in FileClients : DifferentFiles(o, f[x])
    BY <1>3 DEF DifferentFiles
<1> QED  BY <1>1, <1>2, <1>4, <1>5, OneRequest

\* What O_CREATE|O_TRUNC does at a place, and to which inode.
Opened(t, d, at, i, u, e) ==
    /\ i = IF at \in DOMAIN t THEN t[at].ino ELSE Len(d) + 1
    /\ e = IF at \in DOMAIN t THEN Overwritten(d, i, <<>>) ELSE Created(d)
    /\ u = IF at \in DOMAIN t THEN t ELSE Put(t, at, File(i))

\* Where an ordinary root opens a file to write.
Openable(t, at) ==
    at \in Path /\ InRoot(FALSE, at) /\ ~IsDir(t, at) /\ (at \in DOMAIN t => t[at].kind # "link")

\* The request, once it has inode i open, or has given up at once.
Serves(o, i, d, e) ==
    \/ o = FreeFop
    \/ /\ o.phase \in InPlace /\ o.ino = i
       /\ i \in 1..Len(e) /\ Ours(i) /\ Len(d) <= Len(e) /\ Len(e) \in Nat => ServedOK(o, Len(e))

LEMMA OpenStep ==
    ASSUME RootsApart, NEW t, NEW d, NEW f, World(t, d, f), NEW c \in FileClients, NEW at, Openable(t, at),
           NEW i, NEW u, NEW e, Opened(t, d, at, i, u, e), NEW o, Serves(o, i, d, e)
    PROVE  World(u, e, [f EXCEPT ![c] = o])
<1>a. at \in Path /\ InRoot(FALSE, at) /\ ~IsDir(t, at) /\ (at \in DOMAIN t => t[at].kind # "link")
    BY DEF Openable
<1>b. /\ i = IF at \in DOMAIN t THEN t[at].ino ELSE Len(d) + 1
      /\ e = IF at \in DOMAIN t THEN Overwritten(d, i, <<>>) ELSE Created(d)
      /\ u = IF at \in DOMAIN t THEN t ELSE Put(t, at, File(i))
    BY DEF Opened
<1>c. \/ o = FreeFop
      \/ /\ o.phase \in InPlace /\ o.ino = i
         /\ i \in 1..Len(e) /\ Ours(i) /\ Len(d) <= Len(e) /\ Len(e) \in Nat => ServedOK(o, Len(e))
    BY DEF Serves
<1>1. TreeOK(t, Len(d)) /\ DiskOK(d) /\ Whole(t, d) /\ \A x \in FileClients : RequestOK(f[x], t, d)
    BY DEF World
<1>2. ~InRoot(TRUE, at)
    BY <1>a, RootKindsApart
<1>3. Len(d) \in Nat
    BY <1>1, LenProperties DEF DiskOK
<1>4. o.phase # "rename" /\ o.phase \notin Aside
    BY <1>c DEF InPlace, Aside, FreeFop
<1>d. o = FreeFop => \A x : DifferentFiles(o, x)
    BY DEF DifferentFiles, FreeFop, InPlace, Aside
<1>5. CASE at \in DOMAIN t
    <2>1. t[at].kind = "file"
        BY <1>a, <1>1, <1>5, PlainNodes DEF TreeOK, NodesOK, IsDir
    <2>2. i = t[at].ino /\ i \in 1..Len(d) /\ Ours(i) /\ e = Overwritten(d, i, <<>>) /\ u = t
        BY <1>a, <1>b, <1>1, <1>5, <2>1 DEF TreeOK, NodesOK, FilesOurs, Inside
    <2>3. \A p \in DOMAIN t : InRoot(TRUE, p) /\ t[p].kind = "file" => t[p].ino # i
        BY <1>a, <1>1, <1>5, <2>1, <2>2 DEF TreeOK, KindsApart
    <2>4. <<>> \in Data
        BY DEF Data
    <2>5. \A x \in FileClients : f[x].phase \in Aside => f[x].ino # i
        <3> SUFFICES ASSUME NEW x \in FileClients, f[x].phase \in Aside PROVE f[x].ino # i
            OBVIOUS
        <3>1. WritesApart(f[x], t)
            BY RequestFacts DEF Aside
        <3> QED  BY <1>2, <1>5, <2>1, <2>2, <3>1 DEF WritesApart
    <2>6. /\ TreeOK(t, Len(e)) /\ DiskOK(e) /\ Whole(t, e) /\ Len(e) = Len(d)
          /\ \A x : RequestOK(x, t, d) /\ (x.phase = "rename" => x.ino # i) => RequestOK(x, t, e)
        <3>1. Standing(t, d) /\ Writable(t, i)
            BY <1>1, <2>2, <2>3 DEF Standing, Writable
        <3>2. /\ Standing(t, e) /\ Len(e) = Len(d)
              /\ \A x : RequestOK(x, t, d) /\ (x.phase = "rename" => x.ino # i) => RequestOK(x, t, e)
            BY <2>2, <2>4, <3>1, OverwrittenKeeps
        <3> QED  BY <3>2 DEF Standing
    <2>7. \A x \in FileClients : RequestOK(f[x], u, e)
        BY <1>1, <2>2, <2>5, <2>6 DEF Aside
    <2>8. RequestOK(o, u, e)
        <3> SUFFICES ASSUME o # FreeFop PROVE RequestOK(o, u, e)
            BY DEF RequestOK
        <3>1. ServedOK(o, Len(e))
            BY <1>c, <1>3, <2>2, <2>6
        <3>2. WritesApart(o, u)
            BY <1>c, <1>4, <2>2, <2>3 DEF WritesApart
        <3> QED  BY <1>4, <3>1, <3>2 DEF RequestOK, Filled
    <2>9. \A x \in FileClients : DifferentFiles(o, f[x])
        <3>1. o # FreeFop => o.ino = i
            BY <1>c
        <3> QED  BY <1>d, <1>4, <2>5, <3>1 DEF DifferentFiles
    <2> QED  BY <2>2, <2>6, <2>7, <2>8, <2>9, OneRequest
<1>6. CASE at \notin DOMAIN t
    <2>1. i = Len(d) + 1 /\ e = Created(d) /\ u = Put(t, at, File(i))
        BY <1>b, <1>6
    <2>2. /\ TreeOK(u, Len(e)) /\ DiskOK(e) /\ Whole(u, e) /\ Len(e) = i /\ i \in 1..Len(e) /\ Ours(i)
          /\ \A x : RequestOK(x, t, d) => RequestOK(x, u, e)
          /\ \A p \in DOMAIN u : u[p].kind = "file" /\ u[p].ino = i => p = at
        <3>1. Standing(t, d) /\ MayAppear(at)
            BY <1>a, <1>1 DEF Standing, MayAppear
        <3>2. /\ Standing(u, e) /\ Len(e) = i /\ i \in 1..Len(e) /\ Ours(i)
              /\ \A x : RequestOK(x, t, d) => RequestOK(x, u, e)
              /\ \A p \in DOMAIN u : u[p].kind = "file" /\ u[p].ino = i => p = at
            BY <1>a, <1>6, <2>1, <3>1, CreatedKeeps
        <3> QED  BY <3>2 DEF Standing
    <2>3. RequestOK(o, u, e)
        <3> SUFFICES ASSUME o # FreeFop PROVE RequestOK(o, u, e)
            BY DEF RequestOK
        <3>1. ServedOK(o, Len(e))
            BY <1>c, <1>3, <2>1, <2>2
        <3>2. WritesApart(o, u)
            BY <1>c, <1>2, <1>4, <2>2 DEF WritesApart
        <3> QED  BY <1>4, <3>1, <3>2 DEF RequestOK, Filled
    <2>4. \A x \in FileClients : DifferentFiles(o, f[x])
        <3> SUFFICES ASSUME NEW x \in FileClients, f[x].phase \in Aside PROVE f[x].ino # i
            <4>1. o # FreeFop => o.ino = i
                BY <1>c
            <4> QED  BY <1>d, <1>4, <4>1 DEF DifferentFiles
        <3>1. f[x].ino \in 1..Len(d)
            BY RequestFacts DEF Aside, ServedOK
        <3> QED  BY <1>3, <2>1, <3>1
    <2> QED  BY <1>1, <2>2, <2>3, <2>4, OneRequest
<1> QED  BY <1>5, <1>6

\* An open file is written: in place, or aside by the helper.
LEMMA WriteStep ==
    ASSUME NEW t, NEW d, NEW f, World(t, d, f), NEW c \in FileClients,
           f[c].phase \in InPlace \cup {"temp"}, NEW x \in Data, NEW e, e = Overwritten(d, f[c].ino, x),
           NEW o, o = FreeFop
                  \/ /\ ServedOK(o, Len(d)) /\ o.phase \notin InPlace \cup {"temp"}
                     /\ o.phase \in Aside => f[c].phase = "temp" /\ o.ino = f[c].ino /\ x = o.req.data
    PROVE  World(t, e, [f EXCEPT ![c] = o])
<1> DEFINE i == f[c].ino
<1>1. TreeOK(t, Len(d)) /\ DiskOK(d) /\ Whole(t, d) /\ \A y \in FileClients : RequestOK(f[y], t, d)
    BY DEF World
<1>2. ServedOK(f[c], Len(d)) /\ WritesApart(f[c], t)
    BY RequestFacts DEF InPlace
<1>3. i \in 1..Len(d) /\ Ours(i)
    BY <1>2 DEF ServedOK, Aside
<1>4. \A p \in DOMAIN t : InRoot(TRUE, p) /\ t[p].kind = "file" /\ t[p].ino = i => Last(p) \in TempNames
    BY <1>2 DEF WritesApart, Aside
<1>5. \A y \in FileClients \ {c} : f[y].phase \in Aside => f[y].ino # i
    <2> SUFFICES ASSUME NEW y \in FileClients \ {c}, f[y].phase \in Aside PROVE f[y].ino # i
        OBVIOUS
    <2>1. DifferentFiles(f[y], f[c])
        BY DEF World
    <2> QED  BY <2>1 DEF DifferentFiles, Aside
<1>6. \A y \in FileClients \ {c} : f[c].phase = "temp" /\ f[y].phase \in InPlace \cup Aside => f[y].ino # i
    <2> SUFFICES ASSUME NEW y \in FileClients \ {c}, f[c].phase = "temp", f[y].phase \in InPlace \cup Aside
                 PROVE  f[y].ino # i
        OBVIOUS
    <2>1. DifferentFiles(f[c], f[y])
        BY DEF World
    <2> QED  BY <2>1 DEF DifferentFiles, Aside
<1> HIDE DEF i
<1>7. /\ TreeOK(t, Len(e)) /\ DiskOK(e) /\ Whole(t, e) /\ Len(e) = Len(d) /\ e[i] = x
      /\ \A y : RequestOK(y, t, d) /\ (y.phase = "rename" => y.ino # i) => RequestOK(y, t, e)
    <2>1. e = Overwritten(d, i, x)
        BY DEF i
    <2>2. Standing(t, d) /\ Writable(t, i)
        BY <1>1, <1>3, <1>4 DEF Standing, Writable
    <2>3. /\ Standing(t, e) /\ Len(e) = Len(d) /\ e[i] = x
          /\ \A y : RequestOK(y, t, d) /\ (y.phase = "rename" => y.ino # i) => RequestOK(y, t, e)
        BY <1>3, <2>1, <2>2, OverwrittenKeeps
    <2> QED  BY <2>3 DEF Standing
<1>8. \A y \in FileClients \ {c} : RequestOK(f[y], t, e)
    BY <1>1, <1>5, <1>7 DEF Aside
<1>9. CASE o = FreeFop
    <2>1. RequestOK(o, t, e)
        BY <1>9 DEF RequestOK
    <2>2. \A y \in FileClients : DifferentFiles(o, f[y])
        BY <1>9 DEF DifferentFiles, FreeFop, InPlace, Aside
    <2> QED  BY <1>7, <1>8, <2>1, <2>2, OneRequest
<1>10. CASE /\ ServedOK(o, Len(d)) /\ o.phase \notin InPlace \cup {"temp"}
            /\ o.phase \in Aside => f[c].phase = "temp" /\ o.ino = f[c].ino /\ x = o.req.data
    <2>1. o.phase \in Aside => o.phase = "rename" /\ f[c].phase = "temp" /\ o.ino = i /\ x = o.req.data
        BY <1>10 DEF Aside, i
    <2>2. ServedOK(o, Len(e))
        BY <1>7, <1>10
    <2>3. WritesApart(o, t)
        BY <1>2, <1>10 DEF WritesApart, Aside, InPlace
    <2>4. Filled(o, e)
        BY <1>7, <2>1 DEF Filled, Aside
    <2>5. RequestOK(o, t, e)
        BY <2>2, <2>3, <2>4 DEF RequestOK
    <2>6. \A y \in FileClients \ {c} : DifferentFiles(o, f[y])
        BY <1>6, <1>10, <2>1 DEF DifferentFiles
    <2> QED  BY <1>7, <1>8, <2>5, <2>6, OneRequest
<1> QED  BY <1>9, <1>10

-----------------------------------------------------------------------------
(* The file API: the inductive invariant                                   *)

\* The policy and the credential that a change needs.
Allowed(a) == a.write /\ (a.cred = "header" \/ \E req \in FileRequests : req.route = "stdio")

Obeyed(a, t, d, f) ==
    /\ Allowed(a) \/ (t = StartTree /\ d = StartDisk)
    /\ \A c \in FileClients : f[c].phase \in Changing => Allowed(a)

FilesInv == World(tree, disk, fop) /\ Obeyed(access, tree, disk, fop)

LEMMA ChangeStep ==
    ASSUME FilesInv, NEW c \in FileClients, fop[c].phase \in Changing, access' = access,
           World(tree', disk', fop')
    PROVE  FilesInv'
<1>1. Allowed(access)
    BY DEF FilesInv, Obeyed
<1>2. Obeyed(access', tree', disk', fop')
    BY <1>1 DEF Obeyed
<1> QED  BY <1>2 DEF FilesInv

LEMMA ReadStep ==
    ASSUME RootsApart, FilesInv, NEW c \in FileClients, access' = access, tree' = tree, disk' = disk,
           NEW o, fop' = [fop EXCEPT ![c] = o],
           o = FreeFop \/ (ServedOK(o, Len(disk)) /\ o.phase \notin InPlace \cup Aside),
           o.phase \in Changing => Allowed(access)
    PROVE  FilesInv'
<1>1. World(tree, disk, fop) /\ Obeyed(access, tree, disk, fop)
    BY DEF FilesInv
<1>2. Rearranged(tree, tree)
    BY <1>1, NothingRearranged DEF World
<1>3. World(tree, disk, fop')
    BY <1>1, <1>2, QuietStep
<1>4. \A x \in FileClients : fop'[x] = o \/ fop'[x] = fop[x]
    BY <1>1 DEF World
<1>5. Obeyed(access, tree, disk, fop')
    BY <1>1, <1>4 DEF Obeyed
<1> QED  BY <1>3, <1>5 DEF FilesInv

\* A step of a changing request that only rearranges the tree.
LEMMA TreeStep ==
    ASSUME RootsApart, FilesInv, NEW c \in FileClients, fop[c].phase \in Changing,
           access' = access, disk' = disk, Rearranged(tree, tree'), NEW o, fop' = [fop EXCEPT ![c] = o],
           o = FreeFop \/ (ServedOK(o, Len(disk)) /\ o.phase \notin InPlace \cup Aside)
    PROVE  FilesInv'
<1>1. World(tree', disk, fop')
    BY QuietStep DEF FilesInv
<1> QED  BY <1>1, ChangeStep

LEMMA ServedPhase ==
    ASSUME FilesInv, NEW c \in FileClients, fop[c].phase # "idle"
    PROVE  /\ ServedOK(fop[c], Len(disk)) /\ WritesApart(fop[c], tree) /\ Filled(fop[c], disk)
           /\ RequestOK(fop[c], tree, disk) /\ fop[c] # FreeFop
           /\ TreeOK(tree, Len(disk)) /\ DiskOK(disk) /\ Whole(tree, disk) /\ Len(disk) \in Nat
           /\ fop = [x \in FileClients |-> fop[x]]
<1>1. World(tree, disk, fop)
    BY DEF FilesInv
<1>2. Len(disk) \in Nat
    BY <1>1, LenProperties DEF World, DiskOK
<1> QED  BY <1>1, <1>2, RequestFacts DEF World

\* A place that a target leads to (os.Root), in the kind of root it is in.
LEMMA TargetLocated ==
    ASSUME RootsApart, NEW n, NEW t, TreeOK(t, n), NEW x, TargetOK(x), NEW follow \in BOOLEAN,
           ~follow => x.path # x.root, NEW at, at = Locate(t, x, follow).at, Locate(t, x, follow).ok
    PROVE  /\ at \in Path /\ (~follow => Below(x.root, at)) /\ (~IsDir(t, at) => Below(x.root, at))
           /\ at \in DOMAIN t /\ follow => t[at].kind # "link"
           /\ Below(x.root, at) => InRoot(x.privileged, at) /\ Inside(at)
<1>1. /\ x.root \in DOMAIN t /\ t[x.root].kind = "dir" /\ x.path \in Path /\ IsPrefix(x.root, x.path)
      /\ x.privileged \in BOOLEAN /\ \A p : Below(x.root, p) => InRoot(x.privileged, p)
    BY TargetPlace
<1>2. NodesOK(t, n)
    BY DEF TreeOK
<1>3. /\ at \in Path /\ (~follow => Below(x.root, at)) /\ (~IsDir(t, at) => Below(x.root, at))
      /\ at \in DOMAIN t /\ follow => t[at].kind # "link"
    BY <1>1, <1>2, LocatedInside
<1>4. Below(x.root, at) => InRoot(x.privileged, at) /\ Inside(at)
    BY <1>1 DEF Inside
<1> QED  BY <1>3, <1>4

LEMMA TargetMissing ==
    ASSUME RootsApart, NEW n, NEW t, TreeOK(t, n), NEW x, TargetOK(x), x.path # x.root,
           NEW at, at = FirstMissing(t, x).at, FirstMissing(t, x).ok
    PROVE  at \in Path /\ Inside(at)
<1>1. /\ x.root \in DOMAIN t /\ t[x.root].kind = "dir" /\ x.path \in Path /\ Below(x.root, x.path)
      /\ x.privileged \in BOOLEAN /\ \A p : Below(x.root, p) => InRoot(x.privileged, p)
    BY TargetPlace DEF Below
<1>2. NodesOK(t, n)
    BY DEF TreeOK
<1>3. at \in Path /\ Below(x.root, at)
    BY <1>1, <1>2, MissingInside
<1> QED  BY <1>1, <1>3 DEF Inside

LEMMA RequestKeeps ==
    ASSUME RootsApart, FilesInv, NEW c \in FileClients, NEW req \in FileRequests, FileRequest(c, req)
    PROVE  FilesInv'
<1>0. access' = access /\ tree' = tree /\ disk' = disk
    BY DEF FileRequest
<1>1. CASE ~Admitted(req)
    <2>1. fop' = fop
        BY <1>1 DEF FileRequest
    <2> QED  BY <1>0, <2>1 DEF FilesInv
<1>2. CASE Admitted(req)
    <2> DEFINE o == Serving(req, req.act)
    <2>1. fop' = [fop EXCEPT ![c] = o]
        BY <1>2 DEF FileRequest
    <2>2. req.act \in FileActs /\ req.path \in Path /\ req.to \in Path
        BY FileAssumption
    <2>3. /\ o.phase = req.act /\ o.req = req /\ o.target = Resolve(req.path) /\ o.dest = Resolve(req.to)
          /\ ServedShape(o)
        BY DEF Serving, ServedShape
    <2> HIDE DEF o
    <2>4. /\ Resolve(req.path).ok /\ Authorized(req)
          /\ Changes(req.act) => access.write /\ Resolve(req.path).path # Resolve(req.path).root
          /\ req.act \in {"move", "copy"} =>
                /\ Resolve(req.to).ok /\ Resolve(req.to).privileged # TRUE
                /\ Resolve(req.to).path # Resolve(req.to).root
        BY <1>2 DEF Admitted, CheckPolicyWrite, IsRoot
    <2>5. TargetOK(o.target)
        BY <2>2, <2>3, <2>4, ResolvedOK
    <2>6. o.phase \in {"move", "copy"} => Pairing(o)
        <3> SUFFICES ASSUME o.phase \in {"move", "copy"} PROVE Pairing(o)
            OBVIOUS
        <3>1. TargetOK(Resolve(req.to))
            BY <2>2, <2>3, <2>4, ResolvedOK
        <3>2. Resolve(req.to).privileged \in BOOLEAN
            BY <3>1, RootFacts DEF TargetOK
        <3> QED  BY <2>3, <2>4, <3>1, <3>2 DEF Pairing
    <2>7. o.phase \in FileActs /\ o.phase \notin InPlace \cup Aside /\ o.phase \notin {"tree", "data"}
        BY <2>2, <2>3 DEF FileActs, InPlace, Aside
    <2>8. o.phase \in Reading \cup Changing /\ (o.phase \in Changing => Changes(req.act))
        BY <2>2, <2>3 DEF FileActs, Reading, Changing, Changes
    <2>9. o.phase \in Changing => o.target.path # o.target.root
        BY <2>3, <2>4, <2>8
    <2>10. ServedOK(o, Len(disk))
        BY <2>3, <2>5, <2>6, <2>7, <2>8, <2>9 DEF ServedOK, InPlace
    <2>11. o.phase \in Changing => Allowed(access)
        BY <2>3, <2>4, <2>8 DEF Authorized, Allowed, Changes
    <2> QED  BY <1>0, <2>1, <2>7, <2>10, <2>11, ReadStep
<1> QED  BY <1>1, <1>2

-----------------------------------------------------------------------------
(* The file API: one lemma per action                                      *)

LEMMA WriteOpenKeeps ==
    ASSUME RootsApart, FilesInv, NEW c \in FileClients, WriteOpen(c) PROVE FilesInv'
<1> DEFINE w == Locate(tree, fop[c].target, TRUE)
           at == w.at
           i == IF at \in DOMAIN tree THEN tree[at].ino ELSE Len(disk) + 1
<1>0. access' = access /\ fop[c].phase = "write" /\ fop[c].target.privileged = FALSE
    BY DEF WriteOpen, Doing
<1>1. ServedOK(fop[c], Len(disk)) /\ TreeOK(tree, Len(disk)) /\ Len(disk) \in Nat
      /\ fop = [x \in FileClients |-> fop[x]] /\ World(tree, disk, fop)
    BY <1>0, ServedPhase DEF FilesInv
<1>2. w.ok /\ ~IsDir(tree, at)
    BY DEF WriteOpen, OpenTruncated
<1>3. PICK o : o = [fop[c] EXCEPT !.phase = "fill", !.ino = i]
    OBVIOUS
<1>4. ServedShape(fop[c])
    BY <1>1 DEF ServedOK
<1>5. /\ disk' = IF at \in DOMAIN tree THEN Overwritten(disk, i, <<>>) ELSE Created(disk)
      /\ tree' = IF at \in DOMAIN tree THEN tree ELSE Put(tree, at, File(i))
      /\ fop' = [fop EXCEPT ![c].phase = "fill", ![c].ino = i]
    BY DEF WriteOpen, OpenTruncated, Overwritten, Created
<1>6. fop' = [fop EXCEPT ![c] = o]
    BY <1>1, <1>3, <1>5
<1>7. /\ o.phase = "fill" /\ o.ino = i /\ o.req = fop[c].req /\ o.target = fop[c].target
      /\ ServedShape(o)
    BY <1>3, <1>4 DEF ServedShape
<1>8. TargetOK(fop[c].target) /\ o.req \in FileRequests /\ o.target.path # o.target.root
    BY <1>0, <1>1, <1>7 DEF ServedOK, Changing
<1>9. at \in Path /\ InRoot(FALSE, at) /\ (at \in DOMAIN tree => tree[at].kind # "link")
    BY <1>0, <1>1, <1>2, <1>8, TargetLocated
<1> HIDE DEF i, w
<1>10. i \in 1..Len(disk') /\ Ours(i) /\ Len(disk) <= Len(disk') /\ Len(disk') \in Nat => ServedOK(o, Len(disk'))
    BY <1>7, <1>8 DEF ServedOK, FileActs, Reading, Changing, InPlace, Aside
<1>11. World(tree', disk', fop')
    <2>1. Opened(tree, disk, at, i, tree', disk')
        BY <1>5 DEF i, Opened
    <2>2. Serves(o, i, disk, disk')
        BY <1>7, <1>10 DEF Serves, InPlace
    <2>3. Openable(tree, at)
        BY <1>2, <1>9 DEF Openable
    <2>4. World(tree', disk', [fop EXCEPT ![c] = o])
        BY <1>1, <2>1, <2>2, <2>3, OpenStep
    <2> QED  BY <1>6, <2>4
<1> QED  BY <1>0, <1>11, ChangeStep DEF Changing

LEMMA WriteDataKeeps ==
    ASSUME RootsApart, FilesInv, NEW c \in FileClients, WriteData(c) PROVE FilesInv'
<1>0. /\ access' = access /\ tree' = tree /\ fop[c].phase = "fill"
      /\ fop' = [fop EXCEPT ![c] = FreeFop] /\ disk' = Overwritten(disk, fop[c].ino, fop[c].req.data)
    BY DEF WriteData, Done, Overwritten
<1>1. World(tree, disk, fop) /\ fop[c].req \in FileRequests
    BY <1>0, ServedPhase DEF FilesInv, ServedOK
<1>2. fop[c].req.data \in Data
    BY <1>1 DEF Data
<1>3. fop[c].phase \in InPlace \cup {"temp"}
    BY <1>0 DEF InPlace
<1>4. World(tree, disk', [fop EXCEPT ![c] = FreeFop])
    BY <1>0, <1>1, <1>2, <1>3, WriteStep
<1> QED  BY <1>0, <1>4, ChangeStep DEF Changing

LEMMA MkdirKeeps ==
    ASSUME RootsApart, FilesInv, NEW c \in FileClients, Mkdir(c) \/ PrivMkdir(c) PROVE FilesInv'
<1> DEFINE first == FirstMissing(tree, fop[c].target)
<1>0. /\ access' = access /\ disk' = disk /\ fop[c].phase = "mkdir"
      /\ fop' = [fop EXCEPT ![c] = FreeFop] \/ fop' = fop
      /\ (first.ok /\ tree' = Put(tree, first.at, Dir)) \/ tree' = tree
    BY DEF Mkdir, PrivMkdir, MakeDirectory, Doing, Done
<1>1. /\ TreeOK(tree, Len(disk)) /\ TargetOK(fop[c].target) /\ fop[c].target.path # fop[c].target.root
      /\ ServedOK(fop[c], Len(disk)) /\ fop = [x \in FileClients |-> fop[x]]
    BY <1>0, ServedPhase DEF ServedOK, Changing
<1>2. Rearranged(tree, tree')
    <2>1. CASE first.ok /\ tree' = Put(tree, first.at, Dir)
        <3>1. first.at \in Path /\ Inside(first.at)
            BY <1>1, <2>1, TargetMissing
        <3> HIDE DEF first
        <3> QED  BY <1>1, <2>1, <3>1, PutRearranges, PlainNodes
    <2>2. CASE tree' = tree
        BY <1>1, <2>2, NothingRearranged
    <2> QED  BY <1>0, <2>1, <2>2
<1>3. PICK o : fop' = [fop EXCEPT ![c] = o] /\ (o = FreeFop \/ o = fop[c])
    <2>1. fop = [fop EXCEPT ![c] = fop[c]]
        BY <1>1
    <2> QED  BY <1>0, <2>1
<1>4. fop[c].phase \in Changing /\ fop[c].phase \notin InPlace \cup Aside
    BY <1>0 DEF Changing, InPlace, Aside
<1> QED  BY <1>0, <1>1, <1>2, <1>3, <1>4, TreeStep

LEMMA MoveKeeps ==
    ASSUME RootsApart, FilesInv, NEW c \in FileClients, Move(c) PROVE FilesInv'
<1> DEFINE w == Locate(tree, fop[c].target, FALSE)
           d == Locate(tree, fop[c].dest, FALSE)
<1>0. /\ access' = access /\ disk' = disk /\ fop[c].phase = "move" /\ fop' = [fop EXCEPT ![c] = FreeFop]
      /\ w.ok /\ d.ok /\ tree' = Grafted(tree, w.at, d.at) /\ fop[c].target.privileged = FALSE
    BY DEF Move, Doing, Done
<1>1. /\ TreeOK(tree, Len(disk)) /\ TargetOK(fop[c].target) /\ fop[c].target.path # fop[c].target.root
      /\ TargetOK(fop[c].dest) /\ fop[c].dest.path # fop[c].dest.root /\ fop[c].dest.privileged = FALSE
    BY <1>0, ServedPhase DEF ServedOK, Changing, Pairing
<1>2. w.at \in Path /\ InRoot(FALSE, w.at)
    BY <1>0, <1>1, TargetLocated
<1>3. d.at \in Path /\ InRoot(FALSE, d.at)
    BY <1>0, <1>1, TargetLocated
<1> HIDE DEF w, d
<1>4. Rearranged(tree, tree')
    BY <1>0, <1>1, <1>2, <1>3, GraftedRearranges
<1>5. fop[c].phase \in Changing
    BY <1>0 DEF Changing
<1> QED  BY <1>0, <1>4, <1>5, TreeStep

LEMMA BelowInside ==
    ASSUME NEW a \in Path, Inside(a), NEW p \in Path, IsPrefix(a, p) PROVE Inside(p)
<1>1. PICK r \in FileRoots : Below(r.path, a)
    BY DEF Inside, InRoot
<1>2. Below(r.path, p)
    BY <1>1, RootFacts, BelowTrans
<1>3. r.privileged \in BOOLEAN
    BY RootFacts
<1> QED  BY <1>2, <1>3 DEF Inside, InRoot

LEMMA DeleteKeeps ==
    ASSUME RootsApart, FilesInv, NEW c \in FileClients, Delete(c) \/ PrivRemove(c) PROVE FilesInv'
<1> DEFINE w == Locate(tree, fop[c].target, FALSE)
<1>0. /\ access' = access /\ disk' = disk /\ fop[c].phase = "delete" /\ w.ok
      /\ \E p \in DOMAIN tree : /\ p = w.at \/ IsPrefix(w.at, p)
                                /\ tree' = Without(tree, {p})
                                /\ fop' = [fop EXCEPT ![c] = FreeFop] \/ fop' = fop
    BY DEF Delete, PrivRemove, Doing, Done, Under
<1>1. /\ TreeOK(tree, Len(disk)) /\ TargetOK(fop[c].target) /\ fop[c].target.path # fop[c].target.root
      /\ ServedOK(fop[c], Len(disk)) /\ fop = [x \in FileClients |-> fop[x]]
    BY <1>0, ServedPhase DEF ServedOK, Changing
<1>2. w.at \in Path /\ Inside(w.at)
    BY <1>0, <1>1, TargetLocated
<1> HIDE DEF w
<1>3. PICK p \in DOMAIN tree : /\ p = w.at \/ IsPrefix(w.at, p)
                               /\ tree' = Without(tree, {p})
                               /\ fop' = [fop EXCEPT ![c] = FreeFop] \/ fop' = fop
    BY <1>0
<1>4. Inside(p)
    <2>1. p \in Path
        BY <1>1 DEF TreeOK, NodesOK
    <2> QED  BY <1>2, <1>3, <2>1, BelowInside
<1>5. Rearranged(tree, tree')
    BY <1>1, <1>3, <1>4, WithoutRearranges
<1>6. PICK o : fop' = [fop EXCEPT ![c] = o] /\ (o = FreeFop \/ o = fop[c])
    <2>1. fop = [fop EXCEPT ![c] = fop[c]]
        BY <1>1
    <2> QED  BY <1>3, <2>1
<1>7. fop[c].phase \in Changing /\ fop[c].phase \notin InPlace \cup Aside
    BY <1>0 DEF Changing, InPlace, Aside
<1> QED  BY <1>0, <1>1, <1>5, <1>6, <1>7, TreeStep

LEMMA PairSecond ==
    ASSUME NEW a, NEW b, NEW x, x = <<a, b>> PROVE x[2] = b
OBVIOUS

LEMMA CopyCheckKeeps ==
    ASSUME RootsApart, FilesInv, NEW c \in FileClients, CopyCheck(c) PROVE FilesInv'
<1> DEFINE from == fop[c].target.path
           to == fop[c].dest.path
           todo == {<<from, to>>}
<1>0. /\ access' = access /\ tree' = tree /\ disk' = disk /\ fop[c].phase = "copy"
      /\ fop' = [fop EXCEPT ![c].phase = "tree", ![c].todo = todo]
    BY DEF CopyCheck, Doing
<1>1. /\ ServedOK(fop[c], Len(disk)) /\ TreeOK(tree, Len(disk))
      /\ fop = [x \in FileClients |-> fop[x]] /\ Obeyed(access, tree, disk, fop)
    BY <1>0, ServedPhase DEF FilesInv
<1>2. /\ ServedShape(fop[c]) /\ fop[c].req \in FileRequests /\ TargetOK(fop[c].target) /\ Pairing(fop[c])
      /\ fop[c].target.path # fop[c].target.root
      /\ TargetOK(fop[c].dest) /\ to # fop[c].dest.root
    BY <1>0, <1>1 DEF ServedOK, Changing, Pairing
<1>3. to \in Path /\ Below(fop[c].dest.root, to)
    BY <1>2 DEF TargetOK, Below
<1>4. ASSUME NEW e \in todo PROVE e[2] \in Path /\ Below(fop[c].dest.root, e[2])
    <2> HIDE DEF from, to
    <2>1. e = <<from, to>>
        OBVIOUS
    <2>2. e[2] = to
        BY <2>1, PairSecond
    <2> QED  BY <1>3, <2>2
<1> HIDE DEF todo, from, to
<1>5. PICK o : o = [fop[c] EXCEPT !.phase = "tree", !.todo = todo]
    OBVIOUS
<1>6. fop' = [fop EXCEPT ![c] = o]
    BY <1>0, <1>1, <1>5
<1>7. /\ o.phase = "tree" /\ o.todo = todo /\ o.req = fop[c].req /\ o.target = fop[c].target
      /\ o.dest = fop[c].dest /\ ServedShape(o)
    BY <1>2, <1>5 DEF ServedShape
<1>8. Pairing(o)
    BY <1>2, <1>7 DEF Pairing
<1>9. ServedOK(o, Len(disk)) /\ o.phase \notin InPlace \cup Aside
    BY <1>2, <1>4, <1>7, <1>8 DEF ServedOK, FileActs, Reading, Changing, InPlace, Aside
<1>10. Allowed(access)
    BY <1>0, <1>1 DEF Obeyed, Changing
<1> QED  BY <1>0, <1>6, <1>9, <1>10, ReadStep

\* What the three kinds of entry have in common.
CopyRecord(o, old, phase, todo) ==
    /\ o.phase = phase /\ o.todo = todo /\ o.req = old.req /\ o.target = old.target
    /\ o.dest = old.dest /\ ServedShape(o)

LEMMA CopyServed ==
    ASSUME NEW n, NEW old, ServedOK(old, n), old.phase \in {"tree", "data"}, NEW o, NEW todo,
           CopyRecord(o, old, "tree", todo),
           \A e \in todo : e[2] \in Path /\ Below(old.dest.root, e[2])
    PROVE  ServedOK(o, n) /\ o.phase \notin InPlace \cup Aside
<1>1. /\ old.req \in FileRequests /\ TargetOK(old.target) /\ Pairing(old)
      /\ old.target.path # old.target.root
    BY DEF ServedOK, Changing
<1>2. Pairing(o)
    BY <1>1 DEF Pairing, CopyRecord
<1> QED  BY <1>1, <1>2 DEF CopyRecord, ServedOK, FileActs, Reading, Changing, InPlace, Aside

\* An entry of a copy, and the request that it is of.
Copying(c, e) == fop[c].phase = "tree" /\ e \in fop[c].todo /\ access' = access

LEMMA CopyFacts ==
    ASSUME RootsApart, FilesInv, NEW c \in FileClients, NEW e, Copying(c, e)
    PROVE  /\ fop[c].phase \in Changing /\ fop[c].phase \in {"tree", "data"}
           /\ ServedOK(fop[c], Len(disk)) /\ TreeOK(tree, Len(disk)) /\ Len(disk) \in Nat
           /\ fop = [x \in FileClients |-> fop[x]] /\ World(tree, disk, fop)
           /\ ServedShape(fop[c]) /\ TargetOK(fop[c].dest) /\ fop[c].dest.root \in Path
           /\ fop[c].dest.root \in DOMAIN tree /\ tree[fop[c].dest.root].kind = "dir"
           /\ fop[c].req \in FileRequests /\ TargetOK(fop[c].target) /\ Pairing(fop[c])
           /\ fop[c].target.path # fop[c].target.root
           /\ \A x \in fop[c].todo : x[2] \in Path /\ Below(fop[c].dest.root, x[2])
           /\ e[2] \in Path /\ Below(fop[c].dest.root, e[2])
           /\ \A p : Below(fop[c].dest.root, p) => InRoot(FALSE, p) /\ Inside(p)
<1>0. fop[c].phase = "tree" /\ fop[c].phase \in Changing
    BY DEF Copying, Changing
<1>1. /\ ServedOK(fop[c], Len(disk)) /\ TreeOK(tree, Len(disk)) /\ Len(disk) \in Nat
      /\ fop = [x \in FileClients |-> fop[x]] /\ World(tree, disk, fop)
    BY <1>0, ServedPhase DEF FilesInv
<1>2. /\ ServedShape(fop[c]) /\ TargetOK(fop[c].dest) /\ fop[c].dest.privileged = FALSE
      /\ fop[c].req \in FileRequests /\ TargetOK(fop[c].target) /\ Pairing(fop[c])
      /\ fop[c].target.path # fop[c].target.root
      /\ \A x \in fop[c].todo : x[2] \in Path /\ Below(fop[c].dest.root, x[2])
    BY <1>0, <1>1 DEF ServedOK, Pairing
<1>3. /\ fop[c].dest.root \in DOMAIN tree /\ tree[fop[c].dest.root].kind = "dir"
      /\ fop[c].dest.root \in Path
      /\ \A p : Below(fop[c].dest.root, p) => InRoot(FALSE, p)
    BY <1>1, <1>2, TargetPlace
<1>4. \A p : Below(fop[c].dest.root, p) => Inside(p)
    BY <1>3 DEF Inside
<1>5. e \in fop[c].todo
    BY DEF Copying
<1> QED  BY <1>0, <1>1, <1>2, <1>3, <1>4, <1>5

\* The places that the destination of an entry leads to.
LEMMA CopyPlaces ==
    ASSUME RootsApart, FilesInv, NEW c \in FileClients, NEW e, Copying(c, e), NEW x, x = Within(c, e[2])
    PROVE  /\ FirstMissing(tree, x).ok => FirstMissing(tree, x).at \in Path /\ Inside(FirstMissing(tree, x).at)
           /\ Locate(tree, x, FALSE).ok => Locate(tree, x, FALSE).at \in Path /\ Inside(Locate(tree, x, FALSE).at)
           /\ Locate(tree, x, TRUE).ok /\ ~IsDir(tree, Locate(tree, x, TRUE).at) =>
                 Openable(tree, Locate(tree, x, TRUE).at)
<1>1. x.root = fop[c].dest.root /\ x.path = e[2]
    BY DEF Within
<1>2. /\ x.root \in DOMAIN tree /\ tree[x.root].kind = "dir" /\ x.path \in Path /\ Below(x.root, x.path)
      /\ IsPrefix(x.root, x.path) /\ x.path # x.root
      /\ \A p : Below(x.root, p) => InRoot(FALSE, p) /\ Inside(p)
    BY <1>1, CopyFacts DEF Below
<1>3. NodesOK(tree, Len(disk))
    BY CopyFacts DEF TreeOK
<1>4. FirstMissing(tree, x).ok => FirstMissing(tree, x).at \in Path /\ Below(x.root, FirstMissing(tree, x).at)
    BY <1>2, <1>3, MissingInside
<1>5. Locate(tree, x, FALSE).ok => Locate(tree, x, FALSE).at \in Path /\ Below(x.root, Locate(tree, x, FALSE).at)
    BY <1>2, <1>3, LocatedInside
<1>6. ASSUME Locate(tree, x, TRUE).ok, ~IsDir(tree, Locate(tree, x, TRUE).at)
      PROVE  Openable(tree, Locate(tree, x, TRUE).at)
    <2>1. PICK at : at = Locate(tree, x, TRUE).at
        OBVIOUS
    <2>2. /\ at \in Path /\ (~IsDir(tree, at) => Below(x.root, at))
          /\ at \in DOMAIN tree => tree[at].kind # "link"
        BY <1>2, <1>3, <1>6, <2>1, LocatedInside
    <2>3. InRoot(FALSE, at)
        BY <1>2, <1>6, <2>1, <2>2
    <2> QED  BY <1>6, <2>1, <2>2, <2>3 DEF Openable
<1> QED  BY <1>2, <1>4, <1>5, <1>6

LEMMA CopyDirectoryKeeps ==
    ASSUME RootsApart, FilesInv, NEW c \in FileClients, NEW e, Copying(c, e), NEW src \in Path,
           CopyDirectory(c, e, src)
    PROVE  FilesInv'
<1> DEFINE new == {<<e[1] \o Rest(src, q), e[2] \o Rest(src, q)>> : q \in Children(tree, src)}
           todo == (fop[c].todo \ {e}) \cup new
<1>1. PICK x : x = Within(c, e[2])
    OBVIOUS
<1>2. /\ disk' = disk
      /\ \/ FirstMissing(tree, x).ok /\ tree' = Put(tree, FirstMissing(tree, x).at, Dir) /\ fop' = fop
         \/ tree' = tree /\ fop' = [fop EXCEPT ![c].todo = todo]
    <2>1. /\ UNCHANGED disk
          /\ \/ FirstMissing(tree, x).ok /\ tree' = Put(tree, FirstMissing(tree, x).at, Dir) /\ UNCHANGED fop
             \/ UNCHANGED tree /\ fop' = [fop EXCEPT ![c].todo = (@ \ {e}) \cup new]
        BY <1>1 DEF CopyDirectory
    <2>2. fop = [y \in FileClients |-> fop[y]]
        BY CopyFacts
    <2> QED  BY <2>1, <2>2
<1>3. /\ fop[c].phase \in Changing /\ fop[c].phase = "tree" /\ access' = access
      /\ ServedOK(fop[c], Len(disk)) /\ TreeOK(tree, Len(disk)) /\ fop = [y \in FileClients |-> fop[y]]
      /\ fop[c].phase \in {"tree", "data"} /\ ServedShape(fop[c])
    BY CopyFacts DEF Copying
<1>4. CASE FirstMissing(tree, x).ok /\ tree' = Put(tree, FirstMissing(tree, x).at, Dir) /\ fop' = fop
    <2>1. PICK at : at = FirstMissing(tree, x).at
        OBVIOUS
    <2>2. at \in Path /\ Inside(at)
        BY <1>1, <1>4, <2>1, CopyPlaces
    <2>3. Rearranged(tree, tree')
        BY <1>3, <1>4, <2>1, <2>2, PutRearranges, PlainNodes
    <2>4. fop' = [fop EXCEPT ![c] = fop[c]]
        BY <1>3, <1>4
    <2>5. fop[c].phase \notin InPlace \cup Aside
        BY <1>3 DEF InPlace, Aside
    <2> QED  BY <1>2, <1>3, <2>3, <2>4, <2>5, TreeStep
<1>5. CASE tree' = tree /\ fop' = [fop EXCEPT ![c].todo = todo]
    <2>1. ASSUME NEW y \in new PROVE y[2] \in Path /\ Below(fop[c].dest.root, y[2])
        <3>1. PICK q \in Children(tree, src) : y = <<e[1] \o Rest(src, q), e[2] \o Rest(src, q)>>
            OBVIOUS
        <3>2. y[2] = e[2] \o Rest(src, q)
            BY <3>1, PairSecond
        <3>3. q \in Path /\ IsPrefix(src, q)
            BY <1>3 DEF Children, Under, TreeOK, NodesOK
        <3>4. Rest(src, q) \in Path
            BY <3>3, RestFacts
        <3>5. e[2] \in Path /\ Below(fop[c].dest.root, e[2]) /\ fop[c].dest.root \in Path
            BY CopyFacts
        <3>6. e[2] \o Rest(src, q) \in Path /\ IsPrefix(e[2], e[2] \o Rest(src, q))
            BY <3>4, <3>5, PrefixConcat
        <3> QED  BY <3>2, <3>5, <3>6, BelowTrans
    <2>2. \A y \in fop[c].todo : y[2] \in Path /\ Below(fop[c].dest.root, y[2])
        BY CopyFacts
    <2> HIDE DEF new
    <2>3. \A y \in todo : y[2] \in Path /\ Below(fop[c].dest.root, y[2])
        BY <2>1, <2>2
    <2> HIDE DEF todo
    <2>4. PICK o : o = [fop[c] EXCEPT !.todo = todo]
        OBVIOUS
    <2>5. fop' = [fop EXCEPT ![c] = o]
        BY <1>3, <1>5, <2>4
    <2>6. CopyRecord(o, fop[c], "tree", todo)
        BY <1>3, <2>4 DEF ServedShape, CopyRecord
    <2>7. ServedOK(o, Len(disk)) /\ o.phase \notin InPlace \cup Aside
        BY <1>3, <2>3, <2>6, CopyServed
    <2>8. Rearranged(tree, tree')
        BY <1>3, <1>5, NothingRearranged
    <2> QED  BY <1>2, <1>3, <2>5, <2>7, <2>8, TreeStep
<1> QED  BY <1>2, <1>4, <1>5

LEMMA CopyLinkKeeps ==
    ASSUME RootsApart, FilesInv, NEW c \in FileClients, NEW e, Copying(c, e), NEW src \in DOMAIN tree,
           CopyLink(c, e, src)
    PROVE  FilesInv'
<1> DEFINE left == fop[c].todo \ {e}
<1>1. PICK x : x = Within(c, e[2])
    OBVIOUS
<1>2. PICK at : at = Locate(tree, x, FALSE).at
    OBVIOUS
<1>3. /\ fop[c].phase \in Changing /\ fop[c].phase = "tree" /\ access' = access
      /\ ServedOK(fop[c], Len(disk)) /\ TreeOK(tree, Len(disk)) /\ fop = [y \in FileClients |-> fop[y]]
      /\ fop[c].phase \in {"tree", "data"} /\ ServedShape(fop[c])
    BY CopyFacts DEF Copying
<1>4. /\ disk' = disk /\ tree[src].kind = "link" /\ Locate(tree, x, FALSE).ok
      /\ tree' = Put(tree, at, tree[src]) /\ fop' = [fop EXCEPT ![c].todo = left]
    BY <1>1, <1>2, <1>3 DEF CopyLink
<1>5. at \in Path /\ Inside(at)
    BY <1>1, <1>2, <1>4, CopyPlaces
<1>6. \A y \in left : y[2] \in Path /\ Below(fop[c].dest.root, y[2])
    BY CopyFacts
<1> HIDE DEF left
<1>7. PICK o : o = [fop[c] EXCEPT !.todo = left]
    OBVIOUS
<1>8. fop' = [fop EXCEPT ![c] = o]
    BY <1>3, <1>4, <1>7
<1>9. CopyRecord(o, fop[c], "tree", left)
    BY <1>3, <1>7 DEF ServedShape, CopyRecord
<1>10. ServedOK(o, Len(disk)) /\ o.phase \notin InPlace \cup Aside
    BY <1>3, <1>6, <1>9, CopyServed
<1>11. Rearranged(tree, tree')
    <2>1. tree[src] \in Node /\ tree[src].kind # "file"
        BY <1>3, <1>4 DEF TreeOK, NodesOK
    <2> QED  BY <1>3, <1>4, <1>5, <2>1, PutRearranges
<1> QED  BY <1>3, <1>4, <1>8, <1>10, <1>11, TreeStep

LEMMA CopyFileKeeps ==
    ASSUME RootsApart, FilesInv, NEW c \in FileClients, NEW e, Copying(c, e), NEW src, CopyFile(c, e, src)
    PROVE  FilesInv'
<1> DEFINE left == fop[c].todo \ {e}
<1>1. PICK w : w = Locate(tree, Within(c, e[1]), TRUE)
    OBVIOUS
<1>2. PICK d : d = Locate(tree, Within(c, e[2]), TRUE)
    OBVIOUS
<1>3. PICK at : at = d.at
    OBVIOUS
<1>4. PICK ino : ino = IF at \in DOMAIN tree THEN tree[at].ino ELSE Len(disk) + 1
    OBVIOUS
<1>5. PICK from : from = tree[w.at].ino
    OBVIOUS
<1>6. /\ fop[c].phase \in Changing /\ fop[c].phase = "tree" /\ access' = access
      /\ ServedOK(fop[c], Len(disk)) /\ TreeOK(tree, Len(disk)) /\ fop = [y \in FileClients |-> fop[y]]
      /\ ServedShape(fop[c]) /\ Len(disk) \in Nat /\ World(tree, disk, fop)
      /\ fop[c].req \in FileRequests /\ TargetOK(fop[c].target) /\ Pairing(fop[c])
      /\ fop[c].target.path # fop[c].target.root
    BY CopyFacts DEF Copying
<1>7. /\ w.ok /\ w.at \in DOMAIN tree /\ d.ok /\ ~IsDir(tree, at)
      /\ disk' = IF at \in DOMAIN tree THEN Overwritten(disk, ino, <<>>) ELSE Created(disk)
      /\ tree' = IF at \in DOMAIN tree THEN tree ELSE Put(tree, at, File(ino))
      /\ \/ fop' = [fop EXCEPT ![c] = FreeFop]
         \/ /\ tree[w.at].kind = "file"
            /\ fop' = [fop EXCEPT ![c].phase = "data", ![c].todo = left, ![c].src = from, ![c].ino = ino]
    BY <1>1, <1>2, <1>3, <1>4, <1>5, <1>6 DEF CopyFile, Overwritten, Created, Done
<1>8. Openable(tree, at)
    BY <1>2, <1>3, <1>7, CopyPlaces
<1>9. Opened(tree, disk, at, ino, tree', disk')
    BY <1>4, <1>7 DEF Opened
<1>10. CASE fop' = [fop EXCEPT ![c] = FreeFop]
    <2>1. Serves(FreeFop, ino, disk, disk')
        BY DEF Serves
    <2>2. World(tree', disk', [fop EXCEPT ![c] = FreeFop])
        BY <1>6, <1>8, <1>9, <2>1, OpenStep
    <2>3. World(tree', disk', fop')
        BY <1>10, <2>2
    <2> QED  BY <1>6, <2>3, ChangeStep
<1>11. CASE /\ tree[w.at].kind = "file"
            /\ fop' = [fop EXCEPT ![c].phase = "data", ![c].todo = left, ![c].src = from, ![c].ino = ino]
    <2>1. from \in 1..Len(disk)
        BY <1>5, <1>6, <1>7, <1>11 DEF TreeOK, NodesOK
    <2>2. \A y \in left : y[2] \in Path /\ Below(fop[c].dest.root, y[2])
        BY CopyFacts
    <2> HIDE DEF left
    <2>3. PICK o : o = [fop[c] EXCEPT !.phase = "data", !.todo = left, !.src = from, !.ino = ino]
        OBVIOUS
    <2>4. fop' = [fop EXCEPT ![c] = o]
        BY <1>6, <1>11, <2>3
    <2>5. CopyRecord(o, fop[c], "data", left) /\ o.src = from /\ o.ino = ino
        BY <1>6, <2>3 DEF ServedShape, CopyRecord
    <2>6. ASSUME ino \in 1..Len(disk'), Ours(ino), Len(disk) <= Len(disk'), Len(disk') \in Nat
          PROVE  ServedOK(o, Len(disk'))
        <3>1. from \in 1..Len(disk')
            BY <1>6, <2>1, <2>6
        <3>2. Pairing(o)
            BY <1>6, <2>5 DEF Pairing, CopyRecord
        <3> QED  BY <1>6, <2>2, <2>5, <2>6, <3>1, <3>2
                 DEF CopyRecord, ServedOK, FileActs, Reading, Changing, InPlace, Aside
    <2>7. Serves(o, ino, disk, disk')
        BY <2>5, <2>6 DEF Serves, CopyRecord, InPlace
    <2>8. World(tree', disk', [fop EXCEPT ![c] = o])
        BY <1>6, <1>8, <1>9, <2>7, OpenStep
    <2>9. World(tree', disk', fop')
        BY <2>4, <2>8
    <2> QED  BY <1>6, <2>9, ChangeStep
<1> QED  BY <1>7, <1>10, <1>11

LEMMA CopyEntryKeeps ==
    ASSUME RootsApart, FilesInv, NEW c \in FileClients, CopyEntry(c) PROVE FilesInv'
<1>1. PICK e \in fop[c].todo :
         LET w == Locate(tree, Within(c, e[1]), FALSE) IN
         /\ w.ok /\ w.at \in DOMAIN tree
         /\ CopyDirectory(c, e, w.at) \/ CopyLink(c, e, w.at) \/ CopyFile(c, e, w.at)
    BY DEF CopyEntry
<1>2. PICK src : /\ src \in DOMAIN tree
                 /\ CopyDirectory(c, e, src) \/ CopyLink(c, e, src) \/ CopyFile(c, e, src)
    BY <1>1
<1>3. Copying(c, e)
    BY DEF CopyEntry, Copying
<1>4. src \in Path
    BY <1>2, <1>3, CopyFacts DEF TreeOK, NodesOK
<1> QED  BY <1>2, <1>3, <1>4, CopyDirectoryKeeps, CopyLinkKeeps, CopyFileKeeps

LEMMA CopyDataKeeps ==
    ASSUME RootsApart, FilesInv, NEW c \in FileClients, CopyData(c) PROVE FilesInv'
<1>0. /\ access' = access /\ tree' = tree /\ fop[c].phase = "data"
      /\ fop' = [fop EXCEPT ![c].phase = "tree"] /\ disk' = Overwritten(disk, fop[c].ino, disk[fop[c].src])
    BY DEF CopyData, Overwritten
<1>1. /\ ServedOK(fop[c], Len(disk)) /\ DiskOK(disk) /\ World(tree, disk, fop)
      /\ fop = [x \in FileClients |-> fop[x]]
    BY <1>0, ServedPhase DEF FilesInv
<1>2. disk[fop[c].src] \in Data
    <2>1. fop[c].src \in 1..Len(disk)
        BY <1>0, <1>1 DEF ServedOK
    <2> QED  BY <1>1, <2>1, ElementOfSeq DEF DiskOK
<1>3. fop[c].phase \in InPlace \cup {"temp"}
    BY <1>0 DEF InPlace
<1>4. PICK o : o = [fop[c] EXCEPT !.phase = "tree"]
    OBVIOUS
<1>5. fop' = [fop EXCEPT ![c] = o]
    BY <1>0, <1>1, <1>4
<1>6. ServedShape(fop[c]) /\ \A x \in fop[c].todo : x[2] \in Path /\ Below(fop[c].dest.root, x[2])
    BY <1>0, <1>1 DEF ServedOK
<1>7. CopyRecord(o, fop[c], "tree", fop[c].todo)
    BY <1>4, <1>6 DEF ServedShape, CopyRecord
<1>8. ServedOK(o, Len(disk)) /\ o.phase \notin InPlace \cup Aside
    BY <1>0, <1>1, <1>6, <1>7, CopyServed
<1>9. o.phase \notin InPlace \cup {"temp"}
    BY <1>8 DEF Aside
<1>10. World(tree, disk', [fop EXCEPT ![c] = o])
    BY <1>0, <1>1, <1>2, <1>3, <1>8, <1>9, WriteStep
<1>11. World(tree', disk', fop')
    BY <1>0, <1>5, <1>10
<1> QED  BY <1>0, <1>11, ChangeStep DEF Changing

LEMMA CopyDoneKeeps ==
    ASSUME RootsApart, FilesInv, NEW c \in FileClients, CopyDone(c) PROVE FilesInv'
<1>1. access' = access /\ tree' = tree /\ disk' = disk /\ fop' = [fop EXCEPT ![c] = FreeFop]
    BY DEF CopyDone, Done
<1>2. FreeFop.phase \notin Changing
    BY DEF FreeFop, Changing
<1> QED  BY <1>1, <1>2, ReadStep

LEMMA ReadOpenKeeps ==
    ASSUME RootsApart, FilesInv, NEW c \in FileClients, ReadOpen(c) PROVE FilesInv'
<1>0. /\ access' = access /\ tree' = tree /\ disk' = disk /\ fop[c].phase = "read"
      /\ \E i, n : fop' = [fop EXCEPT ![c].phase = "window", ![c].ino = i, ![c].size = n]
    BY DEF ReadOpen
<1>1. ServedOK(fop[c], Len(disk)) /\ fop = [x \in FileClients |-> fop[x]]
    BY <1>0, ServedPhase
<1>2. PICK i, n : fop' = [fop EXCEPT ![c].phase = "window", ![c].ino = i, ![c].size = n]
    BY <1>0
<1>3. PICK o : o = [fop[c] EXCEPT !.phase = "window", !.ino = i, !.size = n]
    OBVIOUS
<1>4. fop' = [fop EXCEPT ![c] = o]
    BY <1>1, <1>2, <1>3
<1>5. ServedShape(fop[c]) /\ fop[c].req \in FileRequests /\ TargetOK(fop[c].target)
    BY <1>1 DEF ServedOK
<1>6. o.phase = "window" /\ o.req = fop[c].req /\ o.target = fop[c].target /\ ServedShape(o)
    BY <1>3, <1>5 DEF ServedShape
<1>7. ServedOK(o, Len(disk)) /\ o.phase \notin InPlace \cup Aside /\ o.phase \notin Changing
    BY <1>5, <1>6 DEF ServedOK, FileActs, Reading, Changing, InPlace, Aside
<1> QED  BY <1>0, <1>4, <1>7, ReadStep

LEMMA ReadWindowKeeps ==
    ASSUME RootsApart, FilesInv, NEW c \in FileClients, ReadWindow(c) PROVE FilesInv'
<1>1. access' = access /\ tree' = tree /\ disk' = disk /\ fop' = [fop EXCEPT ![c] = FreeFop]
    BY DEF ReadWindow, Done
<1>2. FreeFop.phase \notin Changing
    BY DEF FreeFop, Changing
<1> QED  BY <1>1, <1>2, ReadStep

LEMMA PrivWriteKeeps ==
    ASSUME RootsApart, FilesInv, NEW c \in FileClients, PrivWrite(c) PROVE FilesInv'
<1> DEFINE w == Locate(tree, fop[c].target, FALSE)
           temp == SubSeq(w.at, 1, Len(w.at) - 1) \o <<TempName(c)>>
           i == Len(disk) + 1
<1>0. /\ access' = access /\ fop[c].phase = "write" /\ fop[c].target.privileged = TRUE
      /\ w.ok /\ temp \notin DOMAIN tree
      /\ disk' = Created(disk) /\ tree' = Put(tree, temp, File(i))
      /\ fop' = [fop EXCEPT ![c].phase = "temp", ![c].ino = i, ![c].temp = temp]
    BY DEF PrivWrite, Doing, Created
<1>1. /\ ServedOK(fop[c], Len(disk)) /\ TreeOK(tree, Len(disk)) /\ Len(disk) \in Nat
      /\ fop = [x \in FileClients |-> fop[x]] /\ World(tree, disk, fop)
      /\ DiskOK(disk) /\ Whole(tree, disk)
    BY <1>0, ServedPhase DEF FilesInv
<1>2. /\ ServedShape(fop[c]) /\ TargetOK(fop[c].target) /\ fop[c].target.path # fop[c].target.root
      /\ fop[c].req \in FileRequests /\ fop[c].req.act = "write"
    BY <1>0, <1>1 DEF ServedOK, Changing, FileActs
<1>3. w.at \in Path /\ Below(fop[c].target.root, w.at)
    BY <1>0, <1>1, <1>2, TargetLocated
<1>4. /\ fop[c].target.root \in Path
      /\ \A p : Below(fop[c].target.root, p) => InRoot(TRUE, p)
    BY <1>0, <1>1, <1>2, TargetPlace
<1>5. TempName(c) \in Names /\ TempName(c) \in TempNames
    BY FileAssumption DEF TempName, TempNames
<1> HIDE DEF w
<1>6. temp \in Path /\ Below(fop[c].target.root, temp) /\ Last(temp) \in TempNames
    BY <1>3, <1>4, <1>5, Sibling
<1> HIDE DEF temp, i
<1>7. PICK o : o = [fop[c] EXCEPT !.phase = "temp", !.ino = i, !.temp = temp]
    OBVIOUS
<1>8. fop' = [fop EXCEPT ![c] = o]
    BY <1>0, <1>1, <1>7
<1>9. /\ o.phase = "temp" /\ o.ino = i /\ o.temp = temp /\ o.req = fop[c].req
      /\ o.target = fop[c].target /\ ServedShape(o)
    BY <1>2, <1>7 DEF ServedShape
<1>10. /\ Standing(tree', disk') /\ Len(disk') = i /\ i \in 1..Len(disk') /\ Ours(i)
       /\ \A x : RequestOK(x, tree, disk) => RequestOK(x, tree', disk')
       /\ \A p \in DOMAIN tree' : tree'[p].kind = "file" /\ tree'[p].ino = i => p = temp
    <2>1. Standing(tree, disk) /\ MayAppear(temp)
        BY <1>1, <1>4, <1>6 DEF Standing, MayAppear
    <2>2. i = Len(disk) + 1
        BY DEF i
    <2> QED  BY <1>0, <1>6, <2>1, <2>2, CreatedKeeps
<1>11. RequestOK(o, tree', disk')
    <2>1. ServedOK(o, Len(disk'))
        BY <1>0, <1>2, <1>6, <1>9, <1>10 DEF ServedOK, FileActs, Reading, Changing, InPlace, Aside
    <2>2. WritesApart(o, tree')
        BY <1>4, <1>6, <1>9, <1>10 DEF WritesApart, InPlace, Aside
    <2> QED  BY <1>9, <2>1, <2>2 DEF RequestOK, Filled
<1>12. ASSUME NEW x \in FileClients PROVE RequestOK(fop[x], tree', disk') /\ DifferentFiles(o, fop[x])
    <2>1. RequestOK(fop[x], tree, disk)
        BY <1>1 DEF World
    <2>2. fop[x].phase \in InPlace \cup Aside => fop[x].ino \in 1..Len(disk)
        <3> SUFFICES ASSUME fop[x].phase \in InPlace \cup Aside PROVE fop[x].ino \in 1..Len(disk)
            OBVIOUS
        <3>1. fop[x].phase # "idle"
            BY DEF InPlace, Aside
        <3> QED  BY <3>1, ServedPhase DEF ServedOK
    <2>3. fop[x].phase \in InPlace \cup Aside => fop[x].ino # i
        BY <1>1, <2>2 DEF i
    <2> QED  BY <1>9, <1>10, <2>1, <2>3 DEF DifferentFiles
<1>13. World(tree', disk', [fop EXCEPT ![c] = o])
    BY <1>1, <1>10, <1>11, <1>12, OneRequest DEF Standing
<1>14. World(tree', disk', fop')
    BY <1>8, <1>13
<1> QED  BY <1>0, <1>14, ChangeStep DEF Changing

LEMMA PrivFillKeeps ==
    ASSUME RootsApart, FilesInv, NEW c \in FileClients, PrivFill(c) PROVE FilesInv'
<1>0. /\ access' = access /\ tree' = tree /\ fop[c].phase = "temp"
      /\ fop' = [fop EXCEPT ![c].phase = "rename"] /\ disk' = Overwritten(disk, fop[c].ino, fop[c].req.data)
    BY DEF PrivFill, Overwritten
<1>1. /\ ServedOK(fop[c], Len(disk)) /\ World(tree, disk, fop) /\ fop = [x \in FileClients |-> fop[x]]
    BY <1>0, ServedPhase DEF FilesInv
<1>2. /\ ServedShape(fop[c]) /\ TargetOK(fop[c].target) /\ fop[c].target.path # fop[c].target.root
      /\ fop[c].req \in FileRequests /\ fop[c].req.act = "write" /\ fop[c].target.privileged = TRUE
      /\ fop[c].ino \in 1..Len(disk) /\ Ours(fop[c].ino)
      /\ fop[c].temp \in Path /\ Below(fop[c].target.root, fop[c].temp)
    BY <1>0, <1>1 DEF ServedOK, Changing, Aside
<1>3. fop[c].req.data \in Data
    BY <1>2 DEF Data
<1>4. PICK o : o = [fop[c] EXCEPT !.phase = "rename"]
    OBVIOUS
<1>5. fop' = [fop EXCEPT ![c] = o]
    BY <1>0, <1>1, <1>4
<1>6. /\ o.phase = "rename" /\ o.ino = fop[c].ino /\ o.temp = fop[c].temp /\ o.req = fop[c].req
      /\ o.target = fop[c].target /\ ServedShape(o)
    BY <1>2, <1>4 DEF ServedShape
<1>7. ServedOK(o, Len(disk)) /\ o.phase \notin InPlace \cup {"temp"}
    BY <1>2, <1>6 DEF ServedOK, FileActs, Reading, Changing, InPlace, Aside
<1>8. fop[c].phase \in InPlace \cup {"temp"} /\ fop[c].req.data = o.req.data
    BY <1>0, <1>6
<1>9. World(tree, disk', [fop EXCEPT ![c] = o])
    BY <1>0, <1>1, <1>3, <1>6, <1>7, <1>8, WriteStep
<1>10. World(tree', disk', fop')
    BY <1>0, <1>5, <1>9
<1> QED  BY <1>0, <1>10, ChangeStep DEF Changing

LEMMA PrivRenameKeeps ==
    ASSUME RootsApart, FilesInv, NEW c \in FileClients, PrivRename(c) PROVE FilesInv'
<1> DEFINE name == Last(fop[c].target.path)
           temp == fop[c].temp
           at == SubSeq(temp, 1, Len(temp) - 1) \o <<name>>
<1>0. /\ access' = access /\ disk' = disk /\ fop[c].phase = "rename"
      /\ tree' = Put(Without(tree, {fop[c].temp}), at, File(fop[c].ino))
      /\ fop' = [fop EXCEPT ![c] = FreeFop]
    BY DEF PrivRename, Done
<1>1. /\ ServedOK(fop[c], Len(disk)) /\ RequestOK(fop[c], tree, disk) /\ fop[c] # FreeFop
      /\ TreeOK(tree, Len(disk)) /\ DiskOK(disk) /\ Whole(tree, disk) /\ World(tree, disk, fop)
    BY <1>0, ServedPhase DEF FilesInv
<1>2. /\ TargetOK(fop[c].target) /\ fop[c].target.path # fop[c].target.root
      /\ fop[c].target.privileged = TRUE /\ temp \in Path /\ Below(fop[c].target.root, temp)
    BY <1>0, <1>1 DEF ServedOK, Changing, Aside
<1>3. /\ fop[c].target.root \in Path /\ fop[c].target.path \in Path
      /\ IsPrefix(fop[c].target.root, fop[c].target.path)
      /\ \A p : Below(fop[c].target.root, p) => InRoot(TRUE, p)
    BY <1>1, <1>2, TargetPlace
<1>4. name \in Names
    <2> DEFINE path == fop[c].target.path
    <2>1. Len(path) > Len(fop[c].target.root) /\ Len(path) \in Nat /\ Len(fop[c].target.root) \in Nat
        BY <1>2, <1>3, BelowMeans, PathFacts DEF Below
    <2>2. Len(path) \in 1..Len(path)
        BY <2>1
    <2>3. path[Len(path)] \in Names
        BY <1>3, <2>2, PathFacts
    <2> QED  BY <2>3 DEF Last
<1> HIDE DEF name
<1>5. at \in Path /\ InRoot(TRUE, at)
    BY <1>2, <1>3, <1>4, Sibling
<1> HIDE DEF at
<1>6. /\ TreeOK(tree', Len(disk)) /\ Whole(tree', disk)
      /\ \A v : RequestOK(v, tree, disk) /\ DifferentFiles(fop[c], v) => RequestOK(v, tree', disk)
    BY <1>0, <1>1, <1>5, RenamedKeeps
<1>7. \A x \in FileClients \ {c} : RequestOK(fop[x], tree', disk)
    BY <1>1, <1>6 DEF World
<1>8. RequestOK(FreeFop, tree', disk) /\ \A x \in FileClients : DifferentFiles(FreeFop, fop[x])
    BY DEF RequestOK, DifferentFiles, FreeFop, InPlace, Aside
<1>9. World(tree', disk, [fop EXCEPT ![c] = FreeFop])
    BY <1>1, <1>6, <1>7, <1>8, OneRequest
<1> QED  BY <1>0, <1>9, ChangeStep DEF Changing

LEMMA RequestFailureKeeps ==
    ASSUME RootsApart, FilesInv, NEW c \in FileClients, NEW killed \in BOOLEAN, FileFails(c, killed)
    PROVE  FilesInv'
<1>0. /\ access' = access /\ disk' = disk /\ fop[c].phase # "idle" /\ fop' = [fop EXCEPT ![c] = FreeFop]
      /\ tree' = tree \/ (fop[c].phase \in Aside /\ tree' = Without(tree, {fop[c].temp}))
    BY DEF FileFails, Done, Aside
<1>1. ServedOK(fop[c], Len(disk)) /\ TreeOK(tree, Len(disk))
    BY <1>0, ServedPhase
<1>2. CASE tree' = tree
    <2>1. FreeFop.phase \notin Changing
        BY DEF FreeFop, Changing
    <2> QED  BY <1>0, <1>2, <2>1, ReadStep
<1>3. CASE fop[c].phase \in Aside /\ tree' = Without(tree, {fop[c].temp})
    <2>1. TargetOK(fop[c].target) /\ Below(fop[c].target.root, fop[c].temp) /\ fop[c].target.privileged = TRUE
        BY <1>1, <1>3 DEF ServedOK
    <2>2. Inside(fop[c].temp)
        BY <1>1, <2>1, TargetPlace DEF Inside
    <2>3. Rearranged(tree, tree')
        BY <1>1, <1>3, <2>2, WithoutRearranges
    <2>4. fop[c].phase \in Changing
        BY <1>3 DEF Aside, Changing
    <2> QED  BY <1>0, <2>3, <2>4, TreeStep
<1> QED  BY <1>0, <1>2, <1>3

-----------------------------------------------------------------------------
(* The file API: theorems                                                  *)

LEMMA FilesStart ==
    ASSUME RootsApart, NoHardLinks, FileInit PROVE FilesInv
<1>0. tree = StartTree /\ disk = StartDisk /\ fop = [c \in FileClients |-> FreeFop]
    BY DEF FileInit
<1>1. Len(StartDisk) \in Nat /\ StartDisk \in Seq(Data)
    <2>1. StartDisk \in Seq(Range(StartDisk))
        BY FileAssumption
    <2>2. \A j \in 1..Len(StartDisk) : StartDisk[j] \in Data
        BY <2>1, ElementOfSeq DEF Data
    <2>3. StartDisk = [j \in 1..Len(StartDisk) |-> StartDisk[j]] /\ Len(StartDisk) \in Nat
        BY <2>1, LenProperties
    <2> QED  BY <2>2, <2>3, SeqDef
<1>2. NodesOK(StartTree, Len(StartDisk))
    BY FileAssumption DEF NodesOK
<1>3. OutsideKept(StartTree)
    BY DEF OutsideKept
<1>4. FilesOurs(StartTree)
    BY DEF FilesOurs, Ours, NoHardLinks
<1>5. KindsApart(StartTree)
    <2> SUFFICES ASSUME NEW p \in DOMAIN StartTree, NEW q \in DOMAIN StartTree, InRoot(FALSE, p), InRoot(TRUE, q),
                        StartTree[p].kind = "file", StartTree[q].kind = "file",
                        StartTree[p].ino = StartTree[q].ino
                 PROVE  FALSE
        BY DEF KindsApart
    <2>1. p = q /\ p \in Path
        BY <1>2 DEF NoHardLinks, NodesOK
    <2> QED  BY <2>1, RootKindsApart
<1>6. DiskOK(StartDisk)
    BY <1>1 DEF DiskOK
<1>7. Whole(StartTree, StartDisk)
    <2> SUFFICES ASSUME NEW p \in DOMAIN StartTree, StartTree[p].kind = "file"
                 PROVE  StartDisk[StartTree[p].ino] \in Range(StartDisk)
        BY DEF Whole, Settled, WholeBytes
    <2>1. StartTree[p].ino \in 1..Len(StartDisk)
        BY <1>2 DEF NodesOK
    <2> QED  BY <2>1, FileAssumption, ElementOfSeq
<1>8. \A c \in FileClients : fop[c] = FreeFop /\ fop[c].phase = "idle"
    BY <1>0 DEF FreeFop
<1>9. \A c, e \in FileClients : DifferentFiles(fop[c], fop[e])
    BY <1>8 DEF DifferentFiles, InPlace, Aside
<1>10. World(tree, disk, fop)
    BY <1>0, <1>2, <1>3, <1>4, <1>5, <1>6, <1>7, <1>8, <1>9 DEF World, TreeOK, RequestOK
<1>11. Obeyed(access, tree, disk, fop)
    BY <1>0, <1>8 DEF Obeyed, Changing
<1> QED  BY <1>10, <1>11 DEF FilesInv

LEMMA FilesStep ==
    ASSUME RootsApart, FilesInv, [FileNext]_fileVars PROVE FilesInv'
<1>1. CASE UNCHANGED fileVars
    BY <1>1 DEF fileVars, FilesInv
<1>2. CASE FileNext
    <2>1. PICK c \in FileClients : FileStep(c) \/ \E req \in FileRequests : FileRequest(c, req)
        BY <1>2 DEF FileNext
    <2>2. CASE \E req \in FileRequests : FileRequest(c, req)
        BY <2>2, RequestKeeps
    <2>3. CASE FileStep(c)
        BY <2>3, WriteOpenKeeps, WriteDataKeeps, MkdirKeeps, MoveKeeps, DeleteKeeps, CopyCheckKeeps,
           CopyEntryKeeps, CopyDataKeeps, CopyDoneKeeps, ReadOpenKeeps, ReadWindowKeeps, PrivWriteKeeps,
           PrivFillKeeps, PrivRenameKeeps, RequestFailureKeeps
           DEF FileStep
    <2> QED  BY <2>1, <2>2, <2>3
<1> QED  BY <1>1, <1>2

LEMMA FilesInvariant ==
    ASSUME RootsApart, NoHardLinks PROVE FileSpec => []FilesInv
BY FilesStart, FilesStep, PTL DEF FileSpec

LEMMA InsideMeans ==
    ASSUME RootsApart, NEW p, Inside(p)
    PROVE  p \notin {r.path : r \in FileRoots} /\ \E r \in FileRoots : Beneath(r, p)
BY RootNotInside DEF Inside, InRoot, Below, Beneath

LEMMA ConfinedFollows ==
    ASSUME RootsApart, FilesInv PROVE FilesConfined
<1>1. World(tree, disk, fop) /\ Obeyed(access, tree, disk, fop)
    BY DEF FilesInv
<1>2. OutsideKept(tree) /\ NodesOK(tree, Len(disk)) /\ DiskOK(disk)
    BY <1>1 DEF World, TreeOK
<1>3. ASSUME NEW p \in DOMAIN tree \cup DOMAIN StartTree, ~(Allowed(access) /\ Inside(p))
      PROVE  /\ p \in DOMAIN tree \cap DOMAIN StartTree /\ tree[p] = StartTree[p]
             /\ StartTree[p].kind = "file" => disk[StartTree[p].ino] = StartDisk[StartTree[p].ino]
    <2>1. CASE ~Allowed(access)
        BY <1>1, <1>3, <2>1 DEF Obeyed
    <2>2. CASE ~Inside(p)
        <3>1. p \in DOMAIN tree \cap DOMAIN StartTree /\ tree[p] = StartTree[p]
            BY <1>2, <1>3, <2>2 DEF OutsideKept
        <3>2. ASSUME StartTree[p].kind = "file" PROVE disk[StartTree[p].ino] = StartDisk[StartTree[p].ino]
            <4>1. ~Ours(StartTree[p].ino)
                BY <2>2, <3>1, <3>2 DEF Ours
            <4>2. StartTree[p].ino \in 1..Len(StartDisk)
                BY <3>1, <3>2, FileAssumption
            <4> QED  BY <1>2, <4>1, <4>2 DEF DiskOK
        <3> QED  BY <3>1, <3>2
    <2> QED  BY <1>3, <2>1, <2>2
<1>4. ASSUME NEW p, Allowed(access), Inside(p)
      PROVE  /\ access.write /\ (access.cred = "header" \/ \E req \in FileRequests : req.route = "stdio")
             /\ p \notin {r.path : r \in FileRoots} /\ \E r \in FileRoots : Beneath(r, p)
    BY <1>4, InsideMeans DEF Allowed
<1> QED  BY <1>3, <1>4 DEF FilesConfined

LEMMA WholeFollows ==
    ASSUME FilesInv PROVE PrivilegedNeverTorn
<1>1. Whole(tree, disk) /\ NodesOK(tree, Len(disk))
    BY DEF FilesInv, World, TreeOK
<1> SUFFICES ASSUME NEW r \in FileRoots, NEW p \in DOMAIN tree, r.privileged, Beneath(r, p),
                    tree[p].kind = "file", Last(p) \notin TempNames
             PROVE  disk[tree[p].ino] \in WholeBytes
    BY DEF PrivilegedNeverTorn, TempNames, WholeBytes
<1>2. r.privileged = TRUE
    BY RootFacts
<1>3. InRoot(TRUE, p)
    BY <1>2 DEF InRoot, Beneath, Below
<1> QED  BY <1>1, <1>3 DEF Whole, Settled

\* The API changes nothing but what is below its roots, through links, renames
\* and copies too, and nothing at all where the policy or the credential allows
\* no change (files.go: os.Root, checkPolicyWrite, fileAuthorizedRequest).
THEOREM RequestsStayInside == RootsApart /\ NoHardLinks => (FileSpec => []FilesConfined)
<1> SUFFICES ASSUME RootsApart, NoHardLinks PROVE FileSpec => []FilesConfined
    OBVIOUS
<1>1. FileSpec => []FilesInv
    BY FilesInvariant
<1>2. FilesInv => FilesConfined
    BY ConfinedFollows
<1> QED  BY <1>1, <1>2, PTL

\* A file of a privileged root is whole at every step of a helper's run, after
\* its failure and after its death (privfs.go: Set.Write writes beside the
\* destination and renames).
THEOREM NeverTorn == RootsApart /\ NoHardLinks => (FileSpec => []PrivilegedNeverTorn)
<1> SUFFICES ASSUME RootsApart, NoHardLinks PROVE FileSpec => []PrivilegedNeverTorn
    OBVIOUS
<1>1. FileSpec => []FilesInv
    BY FilesInvariant
<1>2. FilesInv => PrivilegedNeverTorn
    BY WholeFollows
<1> QED  BY <1>1, <1>2, PTL
=============================================================================

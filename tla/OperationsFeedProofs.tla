------------------------ MODULE OperationsFeedProofs ------------------------
(***************************************************************************)
(* Theorems about OperationsFeed, for any size of the history, the queue   *)
(* and the wire, any number of snapshot requests, and any number of        *)
(* events, failing requests, lost connections and restarts.                *)
(***************************************************************************)
EXTENDS OperationsFeed, Integers, TLAPS

----------------------------------------------------------------------------
(* The inductive invariant.                                                *)

Types  == {"CHANGE", "ERROR", "RESYNC_REQUIRED", "HEARTBEAT"}
Events == [seq : Nat, type : Types]

Counted ==
    /\ stored \in Nat /\ announced \in Nat /\ sequence \in Nat
    /\ after \in Nat /\ cursor \in Nat /\ shown \in Nat /\ due \in Nat
    /\ due <= announced /\ announced <= stored

Queued ==
    /\ history \in Seq(Events) /\ backlog \in Seq(Events)
    /\ queue \in Seq(Events) /\ wire \in Seq(Events)

Fetched ==
    fetch \in [Fetches -> [at : {"none", "asked", "read", "answered"},
                           view : Nat, cursor : Nat]]

\* The history is the last of the events published, one number each.
Contiguous ==
    \A i \in DOMAIN history : /\ history[i].seq = sequence - Len(history) + i
                              /\ history[i].type # "HEARTBEAT"

\* What may be where while the socket task is at one of its awaits.
Staged ==
    /\ socket \in {"closed", "accept", "backlog", "live", "beat"}
    /\ socket # "backlog" => backlog = <<>>
    /\ socket \notin {"live", "beat"} => queue = <<>>
    /\ socket \in {"closed", "accept"} => wire = <<>>
    /\ socket = "closed" => due = 0

\* Each part of what is coming ascends, up to the last event published ...
Ascends(s) ==
    /\ \A i, j \in Told(s) : i < j => s[i].seq < s[j].seq
    /\ \A i \in Told(s) : s[i].seq <= sequence

\* ... and is before the next one.
Precedes(s, t) == \A i \in Told(s), j \in Told(t) : s[i].seq < t[j].seq

Ordered ==
    /\ Ascends(wire) /\ Ascends(backlog) /\ Ascends(queue)
    /\ Precedes(wire, backlog) /\ Precedes(wire, queue)

\* What is owed is shown, excused or fetched, or something on its way makes the
\* browser fetch.
Refreshes(s) == \E i \in DOMAIN s : Refreshing(s[i].type)

Reaching ==
    \/ shown >= due
    \/ excuse # "none"
    \/ \E f \in Fetches : Carries(f)
    \/ Refreshes(wire) \/ Refreshes(backlog) \/ Refreshes(queue)

Typed == Counted /\ Queued /\ Fetched /\ Contiguous /\ Staged

IInv == Typed /\ Ordered /\ Reaching

----------------------------------------------------------------------------
(* Sequences of events.                                                    *)

LEMMA TailHolds ==
    ASSUME NEW s \in Seq(Events), s # <<>>
    PROVE  /\ Tail(s) \in Seq(Events) /\ s[1] \in Events
           /\ Len(Tail(s)) = Len(s) - 1
           /\ \A i \in DOMAIN Tail(s) : i + 1 \in DOMAIN s /\ Tail(s)[i] = s[i + 1]
           /\ \A i \in DOMAIN s : i = 1 \/ (i - 1 \in DOMAIN Tail(s) /\ Tail(s)[i - 1] = s[i])
OBVIOUS

LEMMA AppendHolds ==
    ASSUME NEW s \in Seq(Events), NEW e \in Events
    PROVE  /\ Append(s, e) \in Seq(Events)
           /\ Len(Append(s, e)) = Len(s) + 1
           /\ DOMAIN Append(s, e) = DOMAIN s \cup {Len(s) + 1}
           /\ \A i \in DOMAIN s : i < Len(s) + 1 /\ Append(s, e)[i] = s[i]
           /\ Append(s, e)[Len(s) + 1] = e
OBVIOUS

\* An event later than all that came before may follow.
LEMMA AppendAscends ==
    ASSUME NEW s \in Seq(Events), NEW e \in Events, NEW low \in Nat, NEW high \in Nat,
           low <= high,
           \A i, j \in Told(s) : i < j => s[i].seq < s[j].seq,
           \A i \in Told(s) : s[i].seq <= low,
           e.type # "HEARTBEAT" => /\ \A i \in Told(s) : s[i].seq < e.seq
                                   /\ e.seq <= high
    PROVE  /\ \A i, j \in Told(Append(s, e)) :
                 i < j => Append(s, e)[i].seq < Append(s, e)[j].seq
           /\ \A i \in Told(Append(s, e)) : Append(s, e)[i].seq <= high
<1>1. \A i \in Told(Append(s, e)) :
         \/ i \in Told(s) /\ i < Len(s) + 1 /\ Append(s, e)[i] = s[i]
         \/ i = Len(s) + 1 /\ Append(s, e)[i] = e /\ e.type # "HEARTBEAT"
  BY AppendHolds DEF Told
<1>2. \A i \in Told(s) : s[i].seq \in Nat /\ s[i].seq <= high
  <2>1. \A i \in DOMAIN s : s[i].seq \in Nat
    <3>1. \A i \in DOMAIN s : s[i] \in Events
      OBVIOUS
    <3>2. QED
      BY <3>1 DEF Events
  <2>2. \A n \in Nat : n <= low => n <= high
    OBVIOUS
  <2>3. QED
    BY <2>1, <2>2 DEF Told
<1>3. e.seq \in Nat
  BY DEF Events
<1>4. ASSUME NEW i \in Told(Append(s, e)), NEW j \in Told(Append(s, e)), i < j
      PROVE  Append(s, e)[i].seq < Append(s, e)[j].seq
  <2>1. i \in Told(s) /\ Append(s, e)[i] = s[i]
    <3>1. CASE i = Len(s) + 1
      <4>1. j <= Len(s) + 1 /\ j \in Nat /\ Len(s) \in Nat
        BY AppendHolds DEF Told
      <4>2. QED
        BY <1>4, <3>1, <4>1
    <3>2. QED
      BY <1>1, <3>1
  <2>2. QED
    BY <1>1, <1>4, <2>1
<1>5. \A i \in Told(Append(s, e)) : Append(s, e)[i].seq <= high
  BY <1>1, <1>2, <1>3
<1>6. QED
  BY <1>4, <1>5

LEMMA TailAscends ==
    ASSUME NEW s \in Seq(Events), s # <<>>, NEW high \in Nat,
           \A i, j \in Told(s) : i < j => s[i].seq < s[j].seq,
           \A i \in Told(s) : s[i].seq <= high
    PROVE  /\ \A i, j \in Told(Tail(s)) : i < j => Tail(s)[i].seq < Tail(s)[j].seq
           /\ \A i \in Told(Tail(s)) : Tail(s)[i].seq <= high
           /\ s[1].type # "HEARTBEAT" => \A i \in Told(Tail(s)) : s[1].seq < Tail(s)[i].seq
           /\ \A i \in Told(Tail(s)) : i + 1 \in Told(s) /\ Tail(s)[i] = s[i + 1]
<1>1. \A i \in Told(Tail(s)) :
         i \in Nat \ {0} /\ i + 1 \in Told(s) /\ Tail(s)[i] = s[i + 1]
  BY TailHolds DEF Told
<1>2. \A i, j \in Nat : i < j => i + 1 < j + 1
  OBVIOUS
<1>3. 1 \in DOMAIN s
  BY TailHolds
<1>4. \A i \in Told(Tail(s)) : 1 < i + 1
  BY <1>1
<1>5. s[1].type # "HEARTBEAT" => 1 \in Told(s)
  BY <1>3 DEF Told
<1>6. QED
  BY <1>1, <1>2, <1>4, <1>5

\* The events after a cursor: a part of the history, which ascends.
LEMMA SinceAscends ==
    ASSUME Typed, NEW c \in Nat
    PROVE  /\ Since(c) \in Seq(Events) /\ Ascends(Since(c))
           /\ \A i \in DOMAIN Since(c) : Since(c)[i].type # "HEARTBEAT"
           /\ Missed(c) => Refreshes(Since(c))
<1>1. CASE Expired(c)
  <2>1. Since(c) = <<[seq |-> sequence, type |-> "RESYNC_REQUIRED"]>>
    BY <1>1 DEF Since
  <2>2. Since(c) \in Seq(Events) /\ DOMAIN Since(c) = {1}
        /\ Since(c)[1] = [seq |-> sequence, type |-> "RESYNC_REQUIRED"]
    BY <2>1 DEF Typed, Counted, Events, Types
  <2>3. QED
    BY <2>2 DEF Ascends, Told, Refreshes, Refreshing, Typed, Counted
<1>2. CASE ~ Expired(c)
  <2> DEFINE n == Len(history)
             p == Place(c)
  <2>1. /\ n \in Nat /\ DOMAIN history = 1 .. n /\ sequence \in Nat
        /\ \A j \in 1 .. n : history[j] \in Events /\ history[j].seq = sequence - n + j
    BY DEF Typed, Queued, Counted, Contiguous
  <2>2. \E i \in 1 .. n + 1 : \A j \in DOMAIN history : j >= i <=> history[j].seq > c
    <3>1. CASE c <= sequence - n
      <4>1. \A j \in 1 .. n : j >= 1 <=> history[j].seq > c
        BY <2>1, <3>1
      <4>2. QED
        BY <2>1, <4>1
    <3>2. CASE c > sequence
      <4>1. \A j \in 1 .. n : j >= n + 1 <=> history[j].seq > c
        BY <2>1, <3>2
      <4>2. QED
        BY <2>1, <4>1
    <3>3. CASE c > sequence - n /\ c <= sequence
      <4>1. \A j \in 1 .. n : j >= c - sequence + n + 1 <=> history[j].seq > c
        BY <2>1, <3>3
      <4>2. c - sequence + n + 1 \in 1 .. n + 1
        BY <2>1, <3>3
      <4>3. QED
        BY <2>1, <4>1, <4>2
    <3>4. QED
      BY <2>1, <3>1, <3>2, <3>3
  <2>3. /\ p \in 1 .. n + 1
        /\ \A j \in 1 .. n : j >= p <=> history[j].seq > c
    BY <2>1, <2>2 DEF Place
  <2>4. Since(c) = SubSeq(history, p, n)
    BY <1>2 DEF Since
  <2> HIDE DEF p
  <2>5. /\ Since(c) \in Seq(Events)
        /\ DOMAIN Since(c) = 1 .. (n - p + 1)
        /\ \A i \in 1 .. (n - p + 1) : /\ i + p - 1 \in 1 .. n
                                      /\ Since(c)[i] = history[i + p - 1]
    <3>1. history \in Seq(Events)
      BY DEF Typed, Queued
    <3>2. QED
      BY <2>1, <2>3, <2>4, <3>1
  <2>6. \A i \in DOMAIN Since(c) : Since(c)[i].seq = sequence - n + (i + p - 1)
    BY <2>1, <2>5
  <2>7. Ascends(Since(c))
    <3>1. \A i, j \in DOMAIN Since(c) : i < j => Since(c)[i].seq < Since(c)[j].seq
      BY <2>1, <2>3, <2>5, <2>6
    <3>2. \A i \in DOMAIN Since(c) : Since(c)[i].seq <= sequence
      BY <2>1, <2>3, <2>5, <2>6
    <3>3. QED
      BY <3>1, <3>2 DEF Ascends, Told
  <2>8. \A i \in DOMAIN Since(c) : Since(c)[i].type # "HEARTBEAT"
    BY <2>1, <2>5 DEF Typed, Contiguous
  <2>9. ASSUME Missed(c) PROVE Refreshes(Since(c))
    <3>1. PICK j \in 1 .. n : history[j].seq > c /\ history[j].type = "CHANGE"
      BY <1>2, <2>1, <2>9 DEF Missed
    <3>2. j - p + 1 \in 1 .. (n - p + 1) /\ (j - p + 1) + p - 1 = j
      BY <2>1, <2>3, <3>1
    <3>3. Since(c)[j - p + 1] = history[j]
      BY <2>5, <3>2
    <3>4. QED
      BY <2>5, <3>1, <3>2, <3>3 DEF Refreshes, Refreshing
  <2>10. QED
    BY <2>5, <2>7, <2>8, <2>9
<1>3. QED
  BY <1>1, <1>2

----------------------------------------------------------------------------
(* publish().                                                              *)

LEMMA PublishExtendsHistory ==
    ASSUME Typed, NEW type \in {"CHANGE", "ERROR"}, Publish(type)
    PROVE  /\ sequence' = sequence + 1 /\ sequence' \in Nat
           /\ history' \in Seq(Events) /\ Contiguous'
<1> DEFINE e == [seq |-> sequence + 1, type |-> type]
           h == Append(history, e)
<1>1. sequence \in Nat /\ history \in Seq(Events) /\ e \in Events
  BY DEF Typed, Counted, Queued, Events, Types
<1>2. sequence' = sequence + 1 /\ history' = Retained(h)
  BY DEF Publish
<1>3. /\ h \in Seq(Events) /\ Len(h) = Len(history) + 1
      /\ DOMAIN h = 1 .. Len(history) + 1 /\ Len(history) \in Nat
      /\ \A i \in 1 .. Len(history) : h[i] = history[i]
      /\ h[Len(history) + 1] = e
  BY <1>1, AppendHolds
<1>4. \A i \in 1 .. Len(h) : h[i].seq = sequence + 1 - Len(h) + i /\ h[i].type # "HEARTBEAT"
  <2>1. \A i \in 1 .. Len(history) :
           history[i].seq = sequence - Len(history) + i /\ history[i].type # "HEARTBEAT"
    BY <1>1 DEF Typed, Contiguous
  <2>2. e.seq = sequence + 1 /\ e.type # "HEARTBEAT"
    OBVIOUS
  <2>3. QED
    BY <1>1, <1>3, <2>1, <2>2
<1> HIDE DEF h
<1>5. CASE Len(h) > HistorySize
  <2>1. history' = Tail(h) /\ h # <<>>
    BY <1>2, <1>3, <1>5 DEF Retained
  <2>2. /\ Tail(h) \in Seq(Events) /\ Len(Tail(h)) = Len(h) - 1
        /\ \A i \in DOMAIN Tail(h) : i + 1 \in DOMAIN h /\ Tail(h)[i] = h[i + 1]
    BY <1>3, <2>1, TailHolds
  <2>3. \A i \in DOMAIN Tail(h) : /\ i \in Nat
                                  /\ Tail(h)[i].seq = sequence + 1 - Len(h) + (i + 1)
                                  /\ Tail(h)[i].type # "HEARTBEAT"
    BY <1>3, <1>4, <2>2
  <2>4. QED
    BY <1>1, <1>2, <1>3, <2>1, <2>2, <2>3 DEF Contiguous
<1>6. CASE ~ (Len(h) > HistorySize)
  <2>1. history' = h /\ sequence' = sequence + 1
    BY <1>2, <1>6 DEF Retained
  <2>2. h \in Seq(Events) /\ Len(h) \in Nat /\ DOMAIN h = 1 .. Len(h)
    BY <1>3
  <2>3. \A i \in DOMAIN h : /\ h[i].seq = (sequence + 1) - Len(h) + i
                            /\ h[i].type # "HEARTBEAT"
    BY <1>1, <1>3, <1>4
  <2>4. Contiguous'
    BY <2>1, <2>3 DEF Contiguous
  <2>5. QED
    BY <1>1, <1>2, <2>1, <2>2, <2>4
<1>7. QED
  BY <1>5, <1>6

\* Whether there is room or not, the queue ends with the event or its marker,
\* and what made the browser fetch still does.
LEMMA PublishFillsQueue ==
    ASSUME Typed, Ordered, NEW type \in {"CHANGE", "ERROR"}, Publish(type)
    PROVE  /\ queue' \in Seq(Events)
           /\ Subscribed \/ queue' = queue
           /\ Ascends(queue)'
           /\ wire' = wire => Precedes(wire, queue)'
           /\ Refreshes(queue) => Refreshes(queue')
           /\ Subscribed /\ type = "CHANGE" => Refreshes(queue')
<1> DEFINE e == [seq |-> sequence + 1, type |-> type]
           r == [seq |-> sequence + 1, type |-> "RESYNC_REQUIRED"]
<1>1. /\ sequence \in Nat /\ queue \in Seq(Events) /\ wire \in Seq(Events)
      /\ e \in Events /\ r \in Events /\ sequence' = sequence + 1
      /\ e.seq = sequence + 1 /\ e.type = type
  BY DEF Typed, Counted, Queued, Events, Types, Publish
<1>2. /\ \A i \in Told(queue) : queue[i].seq <= sequence /\ queue[i].seq \in Nat
      /\ \A i \in Told(wire) : wire[i].seq <= sequence /\ wire[i].seq \in Nat
  <2>1. \A i \in DOMAIN queue : queue[i] \in Events
    BY <1>1
  <2>2. \A i \in DOMAIN wire : wire[i] \in Events
    BY <1>1
  <2>3. QED
    BY <2>1, <2>2 DEF Ordered, Ascends, Told, Events
<1>3. CASE ~ Subscribed
  <2>1. queue' = queue
    BY <1>3 DEF Publish
  <2>2. \A i \in Told(queue) : queue[i].seq <= sequence + 1
    BY <1>1, <1>2
  <2>3. Ascends(queue)'
    BY <1>1, <2>1, <2>2 DEF Ordered, Ascends
  <2>4. QED
    BY <1>1, <1>3, <2>1, <2>3 DEF Ordered, Precedes
<1>4. CASE Subscribed /\ Len(queue) < QueueSize
  <2>1. queue' = Append(queue, e)
    BY <1>4 DEF Publish, Delivered
  <2>2. /\ queue' \in Seq(Events)
        /\ DOMAIN queue' = DOMAIN queue \cup {Len(queue) + 1}
        /\ \A i \in DOMAIN queue : queue'[i] = queue[i]
        /\ queue'[Len(queue) + 1] = e
    BY <1>1, <2>1, AppendHolds
  <2>3. Ascends(queue)'
    <3>1. \A i \in Told(queue) : queue[i].seq < e.seq
      BY <1>1, <1>2
    <3>2. /\ \A i, j \in Told(queue) : i < j => queue[i].seq < queue[j].seq
          /\ \A i \in Told(queue) : queue[i].seq <= sequence
      BY DEF Ordered, Ascends
    <3>3. /\ \A i, j \in Told(queue') : i < j => queue'[i].seq < queue'[j].seq
          /\ \A i \in Told(queue') : queue'[i].seq <= sequence + 1
      <4> HIDE DEF e
      <4>1. sequence + 1 \in Nat /\ sequence <= sequence + 1 /\ e.seq <= sequence + 1
        BY <1>1
      <4>2. QED
        BY <1>1, <2>1, <3>1, <3>2, <4>1, AppendAscends
    <3>4. QED
      BY <1>1, <3>3 DEF Ascends
  <2>4. ASSUME wire' = wire PROVE Precedes(wire, queue)'
    <3>1. \A j \in Told(queue') : \/ j \in Told(queue) /\ queue'[j] = queue[j]
                                  \/ queue'[j] = e
      BY <2>2 DEF Told
    <3>2. \A i \in Told(wire) : wire[i].seq < e.seq
      BY <1>1, <1>2
    <3>3. \A i \in Told(wire), j \in Told(queue') : wire[i].seq < queue'[j].seq
      BY <3>1, <3>2 DEF Ordered, Precedes
    <3>4. QED
      BY <2>4, <3>3 DEF Precedes
  <2>5. Refreshes(queue) => Refreshes(queue')
    BY <2>2 DEF Refreshes
  <2>6. type = "CHANGE" => Refreshes(queue')
    BY <1>1, <2>2 DEF Refreshes, Refreshing
  <2>7. QED
    BY <1>4, <2>2, <2>3, <2>4, <2>5, <2>6
<1>5. CASE Subscribed /\ ~ (Len(queue) < QueueSize)
  <2>1. queue' = <<r>>
    BY <1>5 DEF Publish, Delivered
  <2>2. queue' \in Seq(Events) /\ DOMAIN queue' = {1} /\ queue'[1] = r
    BY <1>1, <2>1
  <2>3. Ascends(queue)'
    BY <1>1, <2>2 DEF Ascends, Told
  <2>4. ASSUME wire' = wire PROVE Precedes(wire, queue)'
    <3>1. \A i \in Told(wire) : wire[i].seq < r.seq
      BY <1>1, <1>2
    <3>2. \A j \in Told(queue') : queue'[j] = r
      BY <2>2 DEF Told
    <3>3. QED
      BY <2>4, <3>1, <3>2 DEF Precedes
  <2>5. Refreshes(queue')
    BY <2>2 DEF Refreshes, Refreshing
  <2>6. QED
    BY <1>5, <2>2, <2>3, <2>4, <2>5
<1>6. QED
  BY <1>3, <1>4, <1>5

LEMMA PublishKeepsOrder ==
    ASSUME Typed, Ordered, NEW type \in {"CHANGE", "ERROR"}, Publish(type),
           wire' = wire, backlog' = backlog
    PROVE  Ordered'
<1>1. Ascends(queue)' /\ Precedes(wire, queue)'
  BY PublishFillsQueue
<1>2. /\ \A i \in Told(wire) : wire[i].seq \in Nat /\ wire[i].seq <= sequence
      /\ \A i \in Told(backlog) : backlog[i].seq \in Nat /\ backlog[i].seq <= sequence
  <2>1. /\ \A i \in DOMAIN wire : wire[i] \in Events
        /\ \A i \in DOMAIN backlog : backlog[i] \in Events
    BY DEF Typed, Queued
  <2>2. QED
    BY <2>1 DEF Ordered, Ascends, Told, Events
<1>3. sequence \in Nat /\ sequence' = sequence + 1
  BY DEF Typed, Counted, Publish
<1>4. Ascends(wire)' /\ Ascends(backlog)'
  BY <1>2, <1>3 DEF Ordered, Ascends
<1>5. QED
  BY <1>1, <1>4 DEF Ordered, Precedes

----------------------------------------------------------------------------
(* The steps.                                                              *)

LEMMA InitHolds == Init => IInv
<1> SUFFICES ASSUME Init PROVE IInv
  OBVIOUS
<1>1. Typed
  <2>1. Counted /\ Queued /\ Contiguous /\ Staged
    BY DEF Init, Counted, Queued, Contiguous, Staged
  <2>2. Fetched
    BY DEF Init, Fetched, NoFetch, Asked
  <2>3. QED
    BY <2>1, <2>2 DEF Typed
<1>2. Ordered
  BY DEF Init, Ordered, Ascends, Precedes, Told
<1>3. Reaching
  BY DEF Init, Reaching, Carries
<1>4. QED
  BY <1>1, <1>2, <1>3 DEF IInv

\* A step that publishes nothing and moves nothing keeps the order.
LEMMA OrderStays ==
    ASSUME Ordered, UNCHANGED <<sequence, wire, backlog, queue>>
    PROVE  Ordered'
BY DEF Ordered, Ascends, Precedes

LEMMA StoreHolds == IInv /\ Store => IInv'
<1> SUFFICES ASSUME IInv, Store PROVE IInv'
  OBVIOUS
<1> USE DEF IInv
<1>1. Typed'
  BY DEF Store, Typed, Counted, Queued, Fetched, Contiguous, Staged, broker, task,
     browser, debt
<1>2. Ordered'
  BY OrderStays DEF Store, broker, task, debt
<1>3. Reaching'
  BY DEF Store, Reaching, Carries, browser, task, debt
<1>4. QED
  BY <1>1, <1>2, <1>3

LEMMA AnnounceHolds == IInv /\ Announce => IInv'
<1> SUFFICES ASSUME IInv, Announce PROVE IInv'
  OBVIOUS
<1> USE DEF IInv
<1>1. /\ announced < stored /\ Publish("CHANGE") /\ announced' = stored
      /\ IF Subscribed THEN Owe(stored)
         ELSE IF socket = "backlog" THEN due' = stored /\ excuse' = "gap"
         ELSE UNCHANGED <<due, excuse>>
      /\ UNCHANGED <<stored, socket, after, backlog, wire, cursor, shown, fetch>>
  BY DEF Announce, task, browser, debt
<1>2. /\ sequence' = sequence + 1 /\ sequence' \in Nat
      /\ history' \in Seq(Events) /\ Contiguous'
  BY <1>1, PublishExtendsHistory
<1>3. /\ queue' \in Seq(Events) /\ (Subscribed \/ queue' = queue)
      /\ Ascends(queue)' /\ Precedes(wire, queue)'
      /\ Refreshes(queue) => Refreshes(queue')
      /\ Subscribed => Refreshes(queue')
  BY <1>1, PublishFillsQueue
<1>4. Typed'
  <2>1. Counted' /\ Queued' /\ Fetched'
    BY <1>1, <1>2, <1>3 DEF Typed, Counted, Queued, Fetched, Owe
  <2>2. Staged'
    BY <1>1, <1>3 DEF Typed, Staged, Subscribed
  <2>3. QED
    BY <1>2, <2>1, <2>2 DEF Typed
<1>5. Ordered'
  BY <1>1, PublishKeepsOrder
<1>6. Reaching'
  <2>1. CASE Subscribed
    BY <1>3, <2>1 DEF Reaching, Carries
  <2>2. CASE ~ Subscribed /\ socket = "backlog"
    BY <1>1, <2>2 DEF Reaching
  <2>3. CASE ~ Subscribed /\ socket # "backlog"
    <3>1. UNCHANGED <<due, excuse, shown, fetch, wire, backlog, queue>>
      BY <1>1, <1>3, <2>3
    <3>2. QED
      BY <3>1 DEF Reaching, Carries
  <2>4. QED
    BY <2>1, <2>2, <2>3
<1>7. QED
  BY <1>4, <1>5, <1>6

LEMMA QuarantineHolds == IInv /\ Quarantine => IInv'
<1> SUFFICES ASSUME IInv, Quarantine PROVE IInv'
  OBVIOUS
<1> USE DEF IInv
<1>1. /\ Publish("ERROR")
      /\ UNCHANGED <<stored, announced, socket, after, backlog, wire, cursor, shown,
                     fetch, due, excuse>>
  BY DEF Quarantine, task, browser, debt
<1>2. /\ sequence' = sequence + 1 /\ sequence' \in Nat
      /\ history' \in Seq(Events) /\ Contiguous'
  BY <1>1, PublishExtendsHistory
<1>3. /\ queue' \in Seq(Events) /\ (Subscribed \/ queue' = queue)
      /\ Ascends(queue)' /\ Precedes(wire, queue)'
      /\ Refreshes(queue) => Refreshes(queue')
  BY <1>1, PublishFillsQueue
<1>4. Typed'
  <2>1. Counted' /\ Queued' /\ Fetched'
    BY <1>1, <1>2, <1>3 DEF Typed, Counted, Queued, Fetched
  <2>2. Staged'
    BY <1>1, <1>3 DEF Typed, Staged, Subscribed
  <2>3. QED
    BY <1>2, <2>1, <2>2 DEF Typed
<1>5. Ordered'
  BY <1>1, PublishKeepsOrder
<1>6. Reaching'
  BY <1>1, <1>3 DEF Reaching, Carries
<1>7. QED
  BY <1>4, <1>5, <1>6

LEMMA AcceptHolds == IInv /\ Accept => IInv'
<1> SUFFICES ASSUME IInv, Accept PROVE IInv'
  OBVIOUS
<1> USE DEF IInv
<1>1. /\ socket = "accept" /\ backlog' = Since(after)
      /\ socket' = IF backlog' = <<>> THEN "live" ELSE "backlog"
      /\ Owe(IF Missed(after) THEN announced ELSE 0)
      /\ UNCHANGED <<stored, announced, sequence, history, after, queue, wire, cursor,
                     shown, fetch>>
  BY DEF Accept, broker, browser
<1>2. /\ Since(after) \in Seq(Events) /\ Ascends(Since(after))
      /\ Missed(after) => Refreshes(Since(after))
  BY SinceAscends DEF Typed, Counted
<1>3. wire = <<>> /\ queue = <<>>
  BY <1>1 DEF Typed, Staged
<1>4. Typed'
  <2>1. Counted' /\ Queued' /\ Fetched' /\ Contiguous'
    BY <1>1, <1>2 DEF Typed, Counted, Queued, Fetched, Contiguous, Owe
  <2>2. Staged'
    BY <1>1, <1>3 DEF Staged
  <2>3. QED
    BY <2>1, <2>2 DEF Typed
<1>5. Ordered'
  BY <1>1, <1>2, <1>3 DEF Ordered, Ascends, Precedes, Told
<1>6. Reaching'
  <2>1. CASE Missed(after)
    BY <1>1, <1>2, <2>1 DEF Reaching
  <2>2. CASE ~ Missed(after)
    BY <1>1, <2>2 DEF Reaching, Owe, Typed, Counted
  <2>3. QED
    BY <2>1, <2>2
<1>7. QED
  BY <1>4, <1>5, <1>6

\* What is sent moves from the front of one sequence to the end of the wire.
LEMMA SentFollows ==
    ASSUME Ordered, sequence \in Nat, wire \in Seq(Events),
           NEW s \in Seq(Events), s # <<>>, Ascends(s), Precedes(wire, s), Send(s[1]),
           sequence' = sequence
    PROVE  /\ wire' \in Seq(Events) /\ Tail(s) \in Seq(Events)
           /\ Ascends(wire)' /\ Ascends(Tail(s)) /\ Precedes(wire', Tail(s))
           /\ Refreshes(wire) \/ Refreshes(s) => Refreshes(wire') \/ Refreshes(Tail(s))
<1>1. wire' = Append(wire, s[1]) /\ s[1] \in Events /\ 1 \in DOMAIN s
  BY DEF Send
<1>2. /\ wire' \in Seq(Events) /\ Tail(s) \in Seq(Events)
      /\ DOMAIN wire' = DOMAIN wire \cup {Len(wire) + 1}
      /\ \A i \in DOMAIN wire : wire'[i] = wire[i]
      /\ wire'[Len(wire) + 1] = s[1]
  BY <1>1, AppendHolds, TailHolds
<1>3. Ascends(wire)'
  <2>1. s[1].type # "HEARTBEAT" => /\ \A i \in Told(wire) : wire[i].seq < s[1].seq
                                   /\ s[1].seq <= sequence
    BY <1>1 DEF Precedes, Ascends, Told
  <2>2. /\ \A i, j \in Told(wire) : i < j => wire[i].seq < wire[j].seq
        /\ \A i \in Told(wire) : wire[i].seq <= sequence
    BY DEF Ordered, Ascends
  <2>3. /\ \A i, j \in Told(wire') : i < j => wire'[i].seq < wire'[j].seq
        /\ \A i \in Told(wire') : wire'[i].seq <= sequence
    <3>1. sequence <= sequence
      OBVIOUS
    <3>2. QED
      BY <1>1, <2>1, <2>2, <3>1, AppendAscends
  <2>4. QED
    BY <2>3 DEF Ascends
<1>4. /\ Ascends(Tail(s))
      /\ s[1].type # "HEARTBEAT" => \A i \in Told(Tail(s)) : s[1].seq < Tail(s)[i].seq
      /\ \A i \in Told(Tail(s)) : i + 1 \in Told(s) /\ Tail(s)[i] = s[i + 1]
  BY TailAscends DEF Ascends
<1>5. Precedes(wire', Tail(s))
  <2>1. \A i \in Told(wire') : \/ i \in Told(wire) /\ wire'[i] = wire[i]
                               \/ wire'[i] = s[1] /\ s[1].type # "HEARTBEAT"
    BY <1>2 DEF Told
  <2>2. QED
    BY <1>4, <2>1 DEF Precedes
<1>6. ASSUME Refreshes(wire) \/ Refreshes(s) PROVE Refreshes(wire') \/ Refreshes(Tail(s))
  <2>1. CASE Refreshes(wire)
    BY <1>2, <2>1 DEF Refreshes
  <2>2. CASE Refreshes(s)
    <3>1. PICK i \in DOMAIN s : Refreshing(s[i].type)
      BY <2>2 DEF Refreshes
    <3>2. i = 1 \/ (i - 1 \in DOMAIN Tail(s) /\ Tail(s)[i - 1] = s[i])
      BY TailHolds
    <3>3. QED
      BY <1>2, <3>1, <3>2 DEF Refreshes
  <2>3. QED
    BY <1>6, <2>1, <2>2
<1>7. QED
  BY <1>2, <1>3, <1>4, <1>5, <1>6

LEMMA ReplayHolds == IInv /\ Replay => IInv'
<1> SUFFICES ASSUME IInv, Replay PROVE IInv'
  OBVIOUS
<1> USE DEF IInv
<1>1. /\ socket = "backlog" /\ backlog # <<>> /\ Send(backlog[1])
      /\ backlog' = Tail(backlog)
      /\ UNCHANGED <<stored, announced, sequence, history, socket, after, queue, cursor,
                     shown, fetch, due, excuse>>
  BY DEF Replay, broker, browser, debt
<1>2. queue = <<>> /\ sequence \in Nat /\ wire \in Seq(Events) /\ backlog \in Seq(Events)
  BY <1>1 DEF Typed, Staged, Counted, Queued
<1>3. /\ wire' \in Seq(Events) /\ backlog' \in Seq(Events)
      /\ Ascends(wire)' /\ Ascends(Tail(backlog)) /\ Precedes(wire', Tail(backlog))
      /\ Refreshes(wire) \/ Refreshes(backlog) => Refreshes(wire') \/ Refreshes(backlog')
  BY <1>1, <1>2, SentFollows DEF Ordered
<1>4. Typed'
  <2>1. Counted' /\ Queued' /\ Fetched' /\ Contiguous'
    BY <1>1, <1>3 DEF Typed, Counted, Queued, Fetched, Contiguous
  <2>2. Staged'
    BY <1>1 DEF Typed, Staged
  <2>3. QED
    BY <2>1, <2>2 DEF Typed
<1>5. Ordered'
  BY <1>1, <1>2, <1>3 DEF Ordered, Ascends, Precedes, Told
<1>6. Reaching'
  BY <1>1, <1>3 DEF Reaching, Carries
<1>7. QED
  BY <1>4, <1>5, <1>6

LEMMA SubscribeHolds == IInv /\ Subscribe => IInv'
<1> SUFFICES ASSUME IInv, Subscribe PROVE IInv'
  OBVIOUS
<1> USE DEF IInv
<1>1. Typed'
  BY DEF Subscribe, Typed, Counted, Queued, Fetched, Contiguous, Staged, broker,
     browser, debt
<1>2. Ordered'
  BY OrderStays DEF Subscribe, broker, debt
<1>3. Reaching'
  BY DEF Subscribe, Reaching, Carries, browser, debt
<1>4. QED
  BY <1>1, <1>2, <1>3

LEMMA FollowHolds == IInv /\ Follow => IInv'
<1> SUFFICES ASSUME IInv, Follow PROVE IInv'
  OBVIOUS
<1> USE DEF IInv
<1>1. /\ socket = "live" /\ queue # <<>> /\ Send(queue[1])
      /\ queue' = Tail(queue)
      /\ UNCHANGED <<stored, announced, sequence, history, socket, after, backlog, cursor,
                     shown, fetch, due, excuse>>
  BY DEF Follow, broker, task, browser, debt
<1>2. /\ backlog = <<>> /\ sequence \in Nat /\ wire \in Seq(Events)
      /\ queue \in Seq(Events)
  BY <1>1 DEF Typed, Staged, Counted, Queued
<1>3. /\ wire' \in Seq(Events) /\ queue' \in Seq(Events)
      /\ Ascends(wire)' /\ Ascends(Tail(queue)) /\ Precedes(wire', Tail(queue))
      /\ Refreshes(wire) \/ Refreshes(queue) => Refreshes(wire') \/ Refreshes(queue')
  BY <1>1, <1>2, SentFollows DEF Ordered
<1>4. Typed'
  <2>1. Counted' /\ Queued' /\ Fetched' /\ Contiguous'
    BY <1>1, <1>3 DEF Typed, Counted, Queued, Fetched, Contiguous
  <2>2. Staged'
    BY <1>1 DEF Typed, Staged
  <2>3. QED
    BY <2>1, <2>2 DEF Typed
<1>5. Ordered'
  BY <1>1, <1>2, <1>3 DEF Ordered, Ascends, Precedes, Told
<1>6. Reaching'
  BY <1>1, <1>3 DEF Reaching, Carries
<1>7. QED
  BY <1>4, <1>5, <1>6

LEMMA IdleHolds == IInv /\ Idle => IInv'
<1> SUFFICES ASSUME IInv, Idle PROVE IInv'
  OBVIOUS
<1> USE DEF IInv
<1>1. Typed'
  BY DEF Idle, Typed, Counted, Queued, Fetched, Contiguous, Staged, broker,
     browser, debt
<1>2. Ordered'
  BY OrderStays DEF Idle, broker, debt
<1>3. Reaching'
  BY DEF Idle, Reaching, Carries, browser, debt
<1>4. QED
  BY <1>1, <1>2, <1>3

LEMMA BeatHolds == IInv /\ Beat => IInv'
<1> SUFFICES ASSUME IInv, Beat PROVE IInv'
  OBVIOUS
<1> USE DEF IInv
<1> DEFINE e == [seq |-> IF sequence = 0 THEN 1 ELSE sequence, type |-> "HEARTBEAT"]
<1>1. /\ socket = "beat" /\ wire' = Append(wire, e) /\ socket' = "live"
      /\ UNCHANGED <<stored, announced, sequence, history, after, backlog, queue, cursor,
                     shown, fetch, due, excuse>>
  BY DEF Beat, Send, broker, browser, debt
<1>2. sequence \in Nat /\ wire \in Seq(Events) /\ e \in Events /\ e.type = "HEARTBEAT"
  BY DEF Typed, Counted, Queued, Events, Types
<1> HIDE DEF e
<1>3. /\ wire' \in Seq(Events)
      /\ DOMAIN wire' = DOMAIN wire \cup {Len(wire) + 1}
      /\ \A i \in DOMAIN wire : wire'[i] = wire[i]
      /\ wire'[Len(wire) + 1] = e
      /\ Len(wire) + 1 \notin DOMAIN wire
  BY <1>1, <1>2, AppendHolds
<1>4. Typed'
  <2>1. Counted' /\ Queued' /\ Fetched' /\ Contiguous'
    BY <1>1, <1>3 DEF Typed, Counted, Queued, Fetched, Contiguous
  <2>2. Staged'
    BY <1>1 DEF Typed, Staged
  <2>3. QED
    BY <2>1, <2>2 DEF Typed
<1>5. Ordered'
  <2>1. \A i \in Told(wire') : i \in Told(wire) /\ wire'[i] = wire[i]
    BY <1>2, <1>3 DEF Told
  <2>2. QED
    BY <1>1, <2>1 DEF Ordered, Ascends, Precedes
<1>6. Reaching'
  <2>1. Refreshes(wire) => Refreshes(wire')
    BY <1>3 DEF Refreshes
  <2>2. QED
    BY <1>1, <2>1 DEF Reaching, Carries
<1>7. QED
  BY <1>4, <1>5, <1>6

LEMMA ConnectHolds == IInv /\ Connect => IInv'
<1> SUFFICES ASSUME IInv, Connect PROVE IInv'
  OBVIOUS
<1> USE DEF IInv
<1>1. Typed'
  BY DEF Connect, Typed, Counted, Queued, Fetched, Contiguous, Staged, broker,
     browser, debt
<1>2. Ordered'
  BY OrderStays DEF Connect, broker, debt
<1>3. Reaching'
  BY DEF Connect, Reaching, Carries, browser, debt
<1>4. QED
  BY <1>1, <1>2, <1>3

LEMMA ReceiveHolds == IInv /\ Receive => IInv'
<1> SUFFICES ASSUME IInv, Receive PROVE IInv'
  OBVIOUS
<1> USE DEF IInv
<1>1. /\ wire # <<>> /\ wire' = Tail(wire) /\ cursor' = wire[1].seq
      /\ UNCHANGED <<stored, announced, sequence, history, socket, after, backlog, queue,
                     shown, due, excuse>>
  BY DEF Receive, broker, task, debt
<1>2. sequence \in Nat /\ wire \in Seq(Events)
  BY DEF Typed, Counted, Queued
<1>3. \/ /\ Refreshing(wire[1].type)
         /\ \E f \in Fetches : fetch' = [fetch EXCEPT ![f] = Asked]
      \/ ~ Refreshing(wire[1].type) /\ fetch' = fetch
  BY DEF Receive, debt
<1>4. /\ wire' \in Seq(Events) /\ wire[1] \in Events
      /\ \A i \in DOMAIN wire : i = 1 \/ (i - 1 \in DOMAIN wire' /\ wire'[i - 1] = wire[i])
  BY <1>1, <1>2, TailHolds
<1>5. /\ \A i, j \in Told(wire') : i < j => wire'[i].seq < wire'[j].seq
      /\ \A i \in Told(wire') : wire'[i].seq <= sequence
      /\ \A i \in Told(wire') : i + 1 \in Told(wire) /\ wire'[i] = wire[i + 1]
  <2>1. /\ \A i, j \in Told(wire) : i < j => wire[i].seq < wire[j].seq
        /\ \A i \in Told(wire) : wire[i].seq <= sequence
    BY DEF Ordered, Ascends
  <2>2. QED
    BY <1>1, <1>2, <2>1, TailAscends
<1>6. Typed'
  <2>1. Queued' /\ Contiguous' /\ Staged'
    BY <1>1, <1>4 DEF Typed, Queued, Contiguous, Staged
  <2>2. Counted'
    BY <1>1, <1>4 DEF Typed, Counted, Events
  <2>3. Fetched'
    BY <1>3 DEF Typed, Fetched, Asked
  <2>4. QED
    BY <2>1, <2>2, <2>3 DEF Typed
<1>7. Ordered'
  <2>1. Ascends(wire)' /\ Ascends(backlog)' /\ Ascends(queue)'
    BY <1>1, <1>5 DEF Ordered, Ascends
  <2>2. Precedes(wire, backlog)' /\ Precedes(wire, queue)'
    BY <1>1, <1>5 DEF Ordered, Precedes
  <2>3. QED
    BY <2>1, <2>2 DEF Ordered
<1>8. Reaching'
  <2>1. CASE Refreshing(wire[1].type)
    <3>1. PICK f \in Fetches : fetch' = [fetch EXCEPT ![f] = Asked]
      BY <1>3, <2>1
    <3>2. fetch'[f].at = "asked"
      BY <3>1 DEF Typed, Fetched, Asked
    <3>3. QED
      BY <3>2 DEF Reaching, Carries
  <2>2. CASE ~ Refreshing(wire[1].type)
    <3>1. Refreshes(wire) => Refreshes(wire')
      BY <1>4, <2>2 DEF Refreshes
    <3>2. QED
      BY <1>1, <1>3, <2>2, <3>1 DEF Reaching, Carries
  <2>3. QED
    BY <2>1, <2>2
<1>9. QED
  BY <1>6, <1>7, <1>8

\* A snapshot whose views are read shows at least what is owed at that moment.
LEMMA ReadViewsHolds == ASSUME NEW f \in Fetches PROVE IInv /\ ReadViews(f) => IInv'
<1> SUFFICES ASSUME IInv, ReadViews(f) PROVE IInv'
  OBVIOUS
<1> USE DEF IInv
<1>1. /\ fetch' = [fetch EXCEPT ![f].at = "read", ![f].view = announced]
      /\ UNCHANGED <<stored, announced, sequence, history, socket, after, backlog, queue,
                     wire, cursor, shown, due, excuse>>
  BY DEF ReadViews, broker, task, debt
<1>2. Typed'
  <2>1. Counted' /\ Queued' /\ Contiguous' /\ Staged'
    BY <1>1 DEF Typed, Counted, Queued, Contiguous, Staged
  <2>2. Fetched'
    BY <1>1 DEF Typed, Fetched, Counted
  <2>3. QED
    BY <2>1, <2>2 DEF Typed
<1>3. Ordered'
  BY <1>1, OrderStays
<1>4. Reaching'
  <2>1. /\ fetch'[f].at = "read" /\ fetch'[f].view = announced
        /\ due <= announced
    BY <1>1 DEF Typed, Fetched, Counted
  <2>2. QED
    BY <1>1, <2>1 DEF Reaching, Carries, Typed, Counted
<1>5. QED
  BY <1>2, <1>3, <1>4

LEMMA ReadCursorHolds == ASSUME NEW f \in Fetches PROVE IInv /\ ReadCursor(f) => IInv'
<1> SUFFICES ASSUME IInv, ReadCursor(f) PROVE IInv'
  OBVIOUS
<1> USE DEF IInv
<1>1. /\ fetch[f].at = "read"
      /\ fetch' = [fetch EXCEPT ![f].at = "answered", ![f].cursor = sequence]
      /\ UNCHANGED <<stored, announced, sequence, history, socket, after, backlog, queue,
                     wire, cursor, shown, due, excuse>>
  BY DEF ReadCursor, broker, task, debt
<1>2. Typed'
  <2>1. Counted' /\ Queued' /\ Contiguous' /\ Staged'
    BY <1>1 DEF Typed, Counted, Queued, Contiguous, Staged
  <2>2. Fetched'
    BY <1>1 DEF Typed, Fetched, Counted
  <2>3. QED
    BY <2>1, <2>2 DEF Typed
<1>3. Ordered'
  BY <1>1, OrderStays
<1>4. Reaching'
  <2>1. /\ fetch'[f].at = "answered" /\ fetch'[f].view = fetch[f].view
        /\ \A g \in Fetches : g # f => fetch'[g] = fetch[g]
    BY <1>1 DEF Typed, Fetched
  <2>2. QED
    BY <1>1, <2>1 DEF Reaching, Carries
<1>5. QED
  BY <1>2, <1>3, <1>4

LEMMA ShowHolds == ASSUME NEW f \in Fetches PROVE IInv /\ Show(f) => IInv'
<1> SUFFICES ASSUME IInv, Show(f) PROVE IInv'
  OBVIOUS
<1> USE DEF IInv
<1>1. /\ fetch[f].at = "answered" /\ cursor' = fetch[f].cursor /\ shown' = fetch[f].view
      /\ excuse' = IF shown' >= due THEN "none"
                   ELSE IF shown >= due THEN "overtaken" ELSE excuse
      /\ fetch' = [fetch EXCEPT ![f] = NoFetch]
      /\ UNCHANGED <<stored, announced, sequence, history, socket, after, backlog, queue,
                     wire, due>>
  BY DEF Show, broker, task
<1>2. Typed'
  <2>1. Queued' /\ Contiguous' /\ Staged'
    BY <1>1 DEF Typed, Queued, Contiguous, Staged
  <2>2. Counted'
    BY <1>1 DEF Typed, Counted, Fetched
  <2>3. Fetched'
    BY <1>1 DEF Typed, Fetched, NoFetch
  <2>4. QED
    BY <2>1, <2>2, <2>3 DEF Typed
<1>3. Ordered'
  BY <1>1, OrderStays
<1>4. Reaching'
  <2>1. CASE shown' >= due
    BY <1>1, <2>1 DEF Reaching
  <2>2. CASE ~ (shown' >= due) /\ shown >= due
    BY <1>1, <2>2 DEF Reaching
  <2>3. CASE ~ (shown' >= due) /\ ~ (shown >= due)
    <3>1. ~ Carries(f) /\ excuse' = excuse
      BY <1>1, <2>3 DEF Carries
    <3>2. \A g \in Fetches : g # f => fetch'[g] = fetch[g]
      BY <1>1 DEF Typed, Fetched
    <3>3. \A g \in Fetches : Carries(g) => Carries(g)'
      BY <1>1, <3>1, <3>2 DEF Carries
    <3>4. QED
      BY <1>1, <2>3, <3>1, <3>3 DEF Reaching
  <2>4. QED
    BY <2>1, <2>2, <2>3
<1>5. QED
  BY <1>2, <1>3, <1>4

\* A request that fails excuses what it carried, and nothing else.
LEMMA RefuseHolds == ASSUME NEW f \in Fetches PROVE IInv /\ Refuse(f) => IInv'
<1> SUFFICES ASSUME IInv, Refuse(f) PROVE IInv'
  OBVIOUS
<1> USE DEF IInv
<1>1. /\ excuse' = IF shown < due /\ Carries(f) THEN "refused" ELSE excuse
      /\ fetch' = [fetch EXCEPT ![f] = NoFetch]
      /\ UNCHANGED <<stored, announced, sequence, history, socket, after, backlog, queue,
                     wire, cursor, shown, due>>
  BY DEF Refuse, broker, task
<1>2. Typed'
  <2>1. Counted' /\ Queued' /\ Contiguous' /\ Staged'
    BY <1>1 DEF Typed, Counted, Queued, Contiguous, Staged
  <2>2. Fetched'
    BY <1>1 DEF Typed, Fetched, NoFetch
  <2>3. QED
    BY <2>1, <2>2 DEF Typed
<1>3. Ordered'
  BY <1>1, OrderStays
<1>4. Reaching'
  <2>1. CASE shown < due /\ Carries(f)
    BY <1>1, <2>1 DEF Reaching
  <2>2. CASE ~ (shown < due)
    BY <1>1, <2>2 DEF Reaching, Typed, Counted
  <2>3. CASE ~ Carries(f)
    <3>1. \A g \in Fetches : g # f => fetch'[g] = fetch[g]
      BY <1>1 DEF Typed, Fetched
    <3>2. \A g \in Fetches : Carries(g) => Carries(g)'
      BY <1>1, <2>3, <3>1 DEF Carries
    <3>3. QED
      BY <1>1, <2>3, <3>2 DEF Reaching
  <2>4. QED
    BY <2>1, <2>2, <2>3
<1>5. QED
  BY <1>2, <1>3, <1>4

LEMMA DropHolds == IInv /\ Drop => IInv'
<1> SUFFICES ASSUME IInv, Drop PROVE IInv'
  OBVIOUS
<1> USE DEF IInv
<1>1. Typed'
  BY DEF Drop, HangUp, Owe, Typed, Counted, Queued, Fetched, Contiguous, Staged, broker,
     browser
<1>2. Ordered'
  BY DEF Drop, HangUp, Owe, Ordered, Ascends, Precedes, Told
<1>3. Reaching'
  BY DEF Drop, HangUp, Owe, Reaching, browser, Typed, Counted
<1>4. QED
  BY <1>1, <1>2, <1>3

LEMMA RestartHolds == IInv /\ Restart => IInv'
<1> SUFFICES ASSUME IInv, Restart PROVE IInv'
  OBVIOUS
<1> USE DEF IInv
<1>1. Typed'
  <2>1. Counted' /\ Queued' /\ Contiguous' /\ Staged'
    BY DEF Restart, HangUp, Owe, Typed, Counted, Queued, Contiguous, Staged
  <2>2. Fetched'
    BY DEF Restart, Typed, Fetched, NoFetch
  <2>3. QED
    BY <2>1, <2>2 DEF Typed
<1>2. Ordered'
  BY DEF Restart, HangUp, Owe, Ordered, Ascends, Precedes, Told
<1>3. Reaching'
  BY DEF Restart, HangUp, Owe, Reaching, Typed, Counted
<1>4. QED
  BY <1>1, <1>2, <1>3

LEMMA NextHolds == IInv /\ [Next]_vars => IInv'
<1> SUFFICES ASSUME IInv, [Next]_vars PROVE IInv'
  OBVIOUS
<1>1. CASE Next
  BY <1>1, StoreHolds, AnnounceHolds, QuarantineHolds, AcceptHolds, ReplayHolds,
     SubscribeHolds, FollowHolds, IdleHolds, BeatHolds, ConnectHolds, ReceiveHolds,
     ReadViewsHolds, ReadCursorHolds, ShowHolds, RefuseHolds, DropHolds, RestartHolds DEF Next
<1>2. CASE UNCHANGED vars
  <2>1. UNCHANGED <<stored, announced, sequence, history, socket, after, backlog, queue,
                    wire, cursor, shown, fetch, due, excuse>>
    BY <1>2 DEF vars, broker, task, browser, debt
  <2>2. Typed'
    BY <2>1 DEF IInv, Typed, Counted, Queued, Fetched, Contiguous, Staged
  <2>3. Ordered'
    BY <2>1, OrderStays DEF IInv
  <2>4. Reaching'
    BY <2>1 DEF IInv, Reaching, Carries
  <2>5. QED
    BY <2>2, <2>3, <2>4 DEF IInv
<1>3. QED
  BY <1>1, <1>2

----------------------------------------------------------------------------
(* The theorems.                                                           *)

\* The broker numbers what it retains without a gap; the socket task has a
\* queue only while it is live, and owes nothing while it is closed; what is
\* owed and not on the map is under way, or was lost in one of three named ways.
THEOREM Invariance == Spec => []IInv
BY InitHolds, NextHolds, PTL DEF Spec

\* What comes lies on the wire, in the backlog or in the queue.
LEMMA ComingIs ==
    ASSUME Typed
    PROVE  \A i \in DOMAIN Coming :
              \/ i \in DOMAIN wire /\ Coming[i] = wire[i]
              \/ /\ i - Len(wire) \in DOMAIN backlog
                 /\ Coming[i] = backlog[i - Len(wire)] /\ i > Len(wire)
              \/ /\ i - Len(wire) - Len(backlog) \in DOMAIN queue
                 /\ Coming[i] = queue[i - Len(wire) - Len(backlog)]
                 /\ i > Len(wire) + Len(backlog)
<1>1. wire \in Seq(Events) /\ backlog \in Seq(Events) /\ queue \in Seq(Events)
  BY DEF Typed, Queued
<1>2. QED
  BY <1>1 DEF Coming

LEMMA AscendingFollows == IInv => EventsAscend
<1> SUFFICES ASSUME IInv, NEW i \in Told(Coming), NEW j \in Told(Coming), i < j
             PROVE  Coming[i].seq < Coming[j].seq
  BY DEF EventsAscend
<1> DEFINE w == Len(wire)
           b == Len(wire) + Len(backlog)
<1>1. Typed /\ Ordered
  BY DEF IInv
<1>2. /\ wire \in Seq(Events) /\ backlog \in Seq(Events) /\ queue \in Seq(Events)
      /\ w \in Nat /\ b \in Nat /\ i \in Int /\ j \in Int
  BY <1>1 DEF Typed, Queued, Coming, Told
<1>3. backlog = <<>> \/ queue = <<>>
  BY <1>1 DEF Typed, Staged
<1>4. \A k \in Told(Coming) :
         \/ k \in Told(wire) /\ Coming[k] = wire[k] /\ k <= w
         \/ k - w \in Told(backlog) /\ Coming[k] = backlog[k - w] /\ k > w
         \/ k - b \in Told(queue) /\ Coming[k] = queue[k - b] /\ k > b
  <2>1. \A k \in DOMAIN Coming :
           \/ k \in DOMAIN wire /\ Coming[k] = wire[k]
           \/ k - w \in DOMAIN backlog /\ Coming[k] = backlog[k - w] /\ k > w
           \/ k - b \in DOMAIN queue /\ Coming[k] = queue[k - b] /\ k > b
    <3>1. \A k \in DOMAIN Coming : k - Len(wire) - Len(backlog) = k - b
      BY <1>2 DEF Coming
    <3>2. QED
      BY <1>1, <3>1, ComingIs
  <2>2. \A k \in DOMAIN wire : k <= w
    BY <1>2
  <2> HIDE DEF w, b
  <2>3. QED
    BY <2>1, <2>2 DEF Told
<1>5. /\ Ascends(wire) /\ Ascends(backlog) /\ Ascends(queue)
      /\ Precedes(wire, backlog) /\ Precedes(wire, queue)
  BY <1>1 DEF Ordered
<1>6. Told(backlog) = {} \/ Told(queue) = {}
  BY <1>3 DEF Told
<1> HIDE DEF w, b
<1>7. CASE i \in Told(wire) /\ Coming[i] = wire[i] /\ i <= w
  BY <1>4, <1>5, <1>7 DEF Ascends, Precedes
<1>8. CASE i - w \in Told(backlog) /\ Coming[i] = backlog[i - w] /\ i > w
  <2>1. ~ (j <= w) /\ i - w < j - w
    BY <1>2, <1>8
  <2>2. j - w \in Told(backlog) /\ Coming[j] = backlog[j - w]
    BY <1>4, <1>6, <1>8, <2>1
  <2>3. QED
    BY <1>5, <1>8, <2>1, <2>2 DEF Ascends
<1>9. CASE i - b \in Told(queue) /\ Coming[i] = queue[i - b] /\ i > b
  <2>1. ~ (j <= w) /\ i - b < j - b
    BY <1>2, <1>9 DEF w, b
  <2>2. j - b \in Told(queue) /\ Coming[j] = queue[j - b]
    BY <1>4, <1>6, <1>9, <2>1
  <2>3. QED
    BY <1>5, <1>9, <2>1, <2>2 DEF Ascends
<1>10. QED
  BY <1>4, <1>7, <1>8, <1>9

\* What a connection brings ascends, whatever is lost, restarted, dropped from
\* the history or swept out of a full queue (broker.py, routes.py).
THEOREM EventsAscendAlways == Spec => []EventsAscend
BY Invariance, AscendingFollows, PTL

LEMMA ReachingFollows == IInv => AnnouncementsReachTheMap
<1> SUFFICES ASSUME IInv, Refreshes(wire) \/ Refreshes(backlog) \/ Refreshes(queue)
             PROVE  \E i \in DOMAIN Coming : Refreshing(Coming[i].type)
  BY DEF IInv, Reaching, AnnouncementsReachTheMap
<1>1. wire \in Seq(Events) /\ backlog \in Seq(Events) /\ queue \in Seq(Events)
  BY DEF IInv, Typed, Queued
<1>2. CASE Refreshes(wire)
  <2>1. PICK i \in DOMAIN wire : Refreshing(wire[i].type)
    BY <1>2 DEF Refreshes
  <2>2. i \in DOMAIN Coming /\ Coming[i] = wire[i]
    BY <1>1 DEF Coming
  <2>3. QED
    BY <2>1, <2>2
<1>3. CASE Refreshes(backlog)
  <2>1. PICK i \in DOMAIN backlog : Refreshing(backlog[i].type)
    BY <1>3 DEF Refreshes
  <2>2. /\ i + Len(wire) \in DOMAIN Coming
        /\ Coming[i + Len(wire)] = backlog[i]
    BY <1>1 DEF Coming
  <2>3. QED
    BY <2>1, <2>2
<1>4. CASE Refreshes(queue)
  <2>1. PICK i \in DOMAIN queue : Refreshing(queue[i].type)
    BY <1>4 DEF Refreshes
  <2>2. /\ i + Len(wire) + Len(backlog) \in DOMAIN Coming
        /\ Coming[i + Len(wire) + Len(backlog)] = queue[i]
    BY <1>1 DEF Coming
  <2>3. QED
    BY <2>1, <2>2
<1>5. QED
  BY <1>2, <1>3, <1>4

\* No overflow of the queue, no message in quarantine and no heartbeat swallows
\* a change that a connection was told of or has missed: what keeps it from the
\* map is a failed request, an older answer, or a replay it was published in
\* (broker.py, routes.py, MaritimeWatch.tsx).
THEOREM AnnouncementsReachTheMapAlways == Spec => []AnnouncementsReachTheMap
BY Invariance, ReachingFollows, PTL
=============================================================================

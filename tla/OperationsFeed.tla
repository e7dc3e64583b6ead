-------------------------- MODULE OperationsFeed --------------------------
(***************************************************************************)
(* The live operations feed: the ingestion that publishes what it has      *)
(* stored (maritime/service.py), the broker with its bounded history and   *)
(* subscriber queues (maritime/broker.py), the socket that replays and     *)
(* follows it (maritime/routes.py), and the browser, which fetches a       *)
(* snapshot whenever it hears of a change (components/MaritimeWatch.tsx).  *)
(* Everything on the server runs on one event loop: an action is what runs *)
(* between two awaits.                                                     *)
(***************************************************************************)
EXTENDS Naturals, Sequences

CONSTANTS
    HistorySize,  \* events the broker retains
    QueueSize,    \* events a subscriber's queue holds
    WireSize,     \* messages on their way before a send waits for the client
    Fetches,      \* bound: snapshot requests the browser has in flight
    MaxStored,    \* bound: changes of the maritime picture
    MaxSequence,  \* bound: events published by one server process
    MaxRefusals,  \* bound: how many snapshot requests fail
    MaxLosses     \* bound: how often the connection is lost, restarts included

ASSUME SizesAssumption ==
    HistorySize \in Nat \ {0} /\ QueueSize \in Nat \ {0} /\ WireSize \in Nat \ {0}
ASSUME BoundsAssumption ==
    /\ MaxStored \in Nat /\ MaxSequence \in Nat
    /\ MaxRefusals \in Nat /\ MaxLosses \in Nat

VARIABLES
    stored,     \* changes committed to the database
    announced,  \* changes in the views that the server holds in memory
    sequence,   \* broker: the number of the last event
    history,    \* broker: the events retained
    socket,     \* server: where the socket task is
    after,      \* server: the cursor the client connected with
    backlog,    \* server: retained events still to be replayed
    queue,      \* server: the queue of the subscriber
    wire,       \* messages sent, which the browser has not handled
    cursor,     \* browser: the cursor it will reconnect with
    shown,      \* browser: the last change its map shows
    fetch,      \* browser and server: the snapshot requests
    due,        \* auxiliary: a change this connection owes the map, or 0
    excuse,     \* auxiliary: by which of three ways the map may miss it
    refusals,   \* how many snapshot requests have failed
    drops,      \* how often the connection was lost
    restarts    \* how often the server has restarted

broker  == <<sequence, history>>
task    == <<socket, after, backlog>>
browser == <<cursor, shown, fetch>>
debt    == <<due, excuse>>
counts  == <<refusals, drops, restarts>>
vars == <<stored, announced, broker, task, queue, wire, browser, debt, counts>>

NoFetch == [at |-> "none", view |-> 0, cursor |-> 0]
Asked   == [at |-> "asked", view |-> 0, cursor |-> 0]

\* The page is mounted: it asks for a snapshot and is about to connect.
Init ==
    /\ stored = 0 /\ announced = 0
    /\ sequence = 0 /\ history = <<>>
    /\ socket = "closed" /\ after = 0 /\ backlog = <<>>
    /\ queue = <<>> /\ wire = <<>>
    /\ cursor = 0 /\ shown = 0
    /\ fetch \in {g \in [Fetches -> {NoFetch, Asked}] :
                    \E f \in Fetches : \A h \in Fetches : g[h] = Asked <=> h = f}
    /\ due = 0 /\ excuse = "none"
    /\ refusals = 0 /\ drops = 0 /\ restarts = 0

----------------------------------------------------------------------------
(* Ingestion and the broker                                                *)

\* This connection is to bring the map a change, for which it has no excuse.
Owe(change) == due' = change /\ excuse' = "none"

\* Mutant of Subscribed: the queue is registered before the backlog is read.
SubscribedEarly == socket \in {"accept", "backlog", "live", "beat"}

Subscribed == socket \in {"live", "beat"}

\* deque(maxlen=history_size)
Retained(h) == IF Len(h) > HistorySize THEN Tail(h) ELSE h

\* Mutant of Delivered: an event that finds the queue full is dropped.
DeliveredIfRoom(e) == IF Len(queue) < QueueSize THEN Append(queue, e) ELSE queue

\* What the queue holds once e is published: a full one is emptied, and says so.
Delivered(e) ==
    IF Len(queue) < QueueSize THEN Append(queue, e)
    ELSE <<[seq |-> e.seq, type |-> "RESYNC_REQUIRED"]>>

Publish(type) ==
    LET e == [seq |-> sequence + 1, type |-> type] IN
    /\ sequence < MaxSequence
    /\ sequence' = e.seq
    /\ history' = Retained(Append(history, e))
    /\ queue' = IF Subscribed THEN Delivered(e) ELSE queue

\* save_observation() commits a change ...
Store ==
    /\ stored < MaxStored /\ announced = stored
    /\ stored' = stored + 1
    /\ UNCHANGED <<announced, broker, task, queue, wire, browser, debt, counts>>

\* ... and, with no await in between, updates the views and publishes the event.
\* "CHANGE" stands for VESSEL_POSITION, GEOFENCE_EVENT and MODE_TRANSITION.
\* While the socket task replays, its events come between what since() has
\* returned and what a queue will hold.
Announce ==
    /\ announced < stored
    /\ Publish("CHANGE")
    /\ announced' = stored
    /\ IF Subscribed THEN Owe(stored)
       ELSE IF socket = "backlog" THEN due' = stored /\ excuse' = "gap"
       ELSE UNCHANGED debt
    /\ UNCHANGED <<stored, task, wire, browser, counts>>

\* A message that cannot be normalised is quarantined, which changes no view.
Quarantine ==
    /\ announced = stored
    /\ Publish("ERROR")
    /\ UNCHANGED <<stored, announced, task, wire, browser, debt, counts>>

----------------------------------------------------------------------------
(* The socket task                                                         *)

\* Cursor 0 is that of a browser without a snapshot; it never expires.
Expired(c) == history # <<>> /\ c # 0 /\ c + 1 < history[1].seq

\* The place in the history, which ascends, from which its events are after c.
Place(c) ==
    CHOOSE i \in 1 .. Len(history) + 1 :
        \A j \in DOMAIN history : j >= i <=> history[j].seq > c

\* since(), and the marker that the task sends in place of an expired backlog.
Since(c) ==
    IF Expired(c) THEN <<[seq |-> sequence, type |-> "RESYNC_REQUIRED"]>>
    ELSE SubSeq(history, Place(c), Len(history))

Missed(c) ==
    Expired(c) \/ \E i \in DOMAIN history : history[i].seq > c /\ history[i].type = "CHANGE"

\* The handshake is over.  Without a backlog the task subscribes at once.
Accept ==
    /\ socket = "accept"
    /\ backlog' = Since(after)
    /\ socket' = IF backlog' = <<>> THEN "live" ELSE "backlog"
    /\ Owe(IF Missed(after) THEN announced ELSE 0)
    /\ UNCHANGED <<stored, announced, broker, after, queue, wire, browser, counts>>

Send(e) == Len(wire) < WireSize /\ wire' = Append(wire, e)

\* A send waits for a slow client, and ingestion goes on in the meantime.
Replay ==
    /\ socket = "backlog" /\ backlog # <<>>
    /\ Send(backlog[1])
    /\ backlog' = Tail(backlog)
    /\ UNCHANGED <<stored, announced, broker, socket, after, queue, browser, debt, counts>>

\* The last send of the backlog returns: only now is the queue registered.
Subscribe ==
    /\ socket = "backlog" /\ backlog = <<>>
    /\ socket' = "live"
    /\ UNCHANGED <<stored, announced, broker, after, backlog, queue, wire, browser,
                   debt, counts>>

Follow ==
    /\ socket = "live" /\ queue # <<>>
    /\ Send(queue[1])
    /\ queue' = Tail(queue)
    /\ UNCHANGED <<stored, announced, broker, task, browser, debt, counts>>

\* The queue stays empty for heartbeat_seconds; the task awaits a snapshot ...
Idle ==
    /\ socket = "live" /\ queue = <<>>
    /\ socket' = "beat"
    /\ UNCHANGED <<stored, announced, broker, after, backlog, queue, wire, browser,
                   debt, counts>>

\* ... and sends a heartbeat that bears the broker's sequence number.
Beat ==
    /\ socket = "beat"
    /\ Send([seq |-> IF sequence = 0 THEN 1 ELSE sequence, type |-> "HEARTBEAT"])
    /\ socket' = "live"
    /\ UNCHANGED <<stored, announced, broker, after, backlog, queue, browser, debt, counts>>

----------------------------------------------------------------------------
(* The browser, and the snapshot it fetches                                *)

Connect ==
    /\ socket = "closed"
    /\ socket' = "accept"
    /\ after' = cursor
    /\ UNCHANGED <<stored, announced, broker, backlog, queue, wire, browser, debt, counts>>

\* Mutant of Refreshing: only changes make the browser fetch.
RefreshingOnChange(type) == type = "CHANGE"

Refreshing(type) == type \in {"CHANGE", "RESYNC_REQUIRED"}

\* onmessage: the sequence number of any message becomes the cursor.
Receive ==
    /\ wire # <<>>
    /\ wire' = Tail(wire)
    /\ cursor' = wire[1].seq
    /\ \/ /\ Refreshing(wire[1].type)
          /\ \E f \in Fetches : /\ fetch[f] = NoFetch
                                /\ fetch' = [fetch EXCEPT ![f] = Asked]
       \/ ~ Refreshing(wire[1].type) /\ UNCHANGED fetch
    /\ UNCHANGED <<stored, announced, broker, task, queue, shown, debt, counts>>

\* snapshot() reads the views first ...
ReadViews(f) ==
    /\ fetch[f].at = "asked"
    /\ fetch' = [fetch EXCEPT ![f].at = "read", ![f].view = announced]
    /\ UNCHANGED <<stored, announced, broker, task, queue, wire, cursor, shown, debt, counts>>

\* ... and the cursor after two more awaits.
ReadCursor(f) ==
    /\ fetch[f].at = "read"
    /\ fetch' = [fetch EXCEPT ![f].at = "answered", ![f].cursor = sequence]
    /\ UNCHANGED <<stored, announced, broker, task, queue, wire, cursor, shown, debt, counts>>

\* loadSnapshot() takes the answers in the order in which they arrive: an older
\* one may undo what a newer one has shown.
Show(f) ==
    /\ fetch[f].at = "answered"
    /\ cursor' = fetch[f].cursor
    /\ shown' = fetch[f].view
    /\ excuse' = IF shown' >= due THEN "none"
                 ELSE IF shown >= due THEN "overtaken" ELSE excuse
    /\ fetch' = [fetch EXCEPT ![f] = NoFetch]
    /\ UNCHANGED <<stored, announced, broker, task, queue, wire, due, counts>>

\* A request that will show what is owed, unless it fails.
Carries(f) == \/ fetch[f].at = "asked"
              \/ fetch[f].at \in {"read", "answered"} /\ fetch[f].view >= due

\* The request is refused by the perimeter, a query of it fails or its answer
\* is lost: loadSnapshot() throws, and nobody asks again.
Refuse(f) ==
    /\ refusals < MaxRefusals /\ fetch[f] # NoFetch
    /\ refusals' = refusals + 1
    /\ fetch' = [fetch EXCEPT ![f] = NoFetch]
    /\ excuse' = IF shown < due /\ Carries(f) THEN "refused" ELSE excuse
    /\ UNCHANGED <<stored, announced, broker, task, queue, wire, cursor, shown, due,
                   drops, restarts>>

----------------------------------------------------------------------------
(* Failures                                                                *)

HangUp ==
    /\ socket' = "closed" /\ after' = 0 /\ backlog' = <<>>
    /\ queue' = <<>> /\ wire' = <<>>
    /\ Owe(0)

\* The connection is lost with the messages on it.
Drop ==
    /\ drops + restarts < MaxLosses /\ socket # "closed"
    /\ drops' = drops + 1
    /\ HangUp
    /\ UNCHANGED <<stored, announced, broker, browser, refusals, restarts>>

\* The server restarts with an empty broker and the views of the database.  A
\* change that was stored only is never published: ingested again, it is a
\* duplicate.
Restart ==
    /\ drops + restarts < MaxLosses
    /\ restarts' = restarts + 1
    /\ HangUp
    /\ announced' = stored
    /\ sequence' = 0 /\ history' = <<>>
    /\ fetch' = [f \in Fetches |-> IF fetch[f].at = "answered" THEN fetch[f] ELSE NoFetch]
    /\ UNCHANGED <<stored, cursor, shown, refusals, drops>>

Next ==
    \/ Store \/ Announce \/ Quarantine
    \/ Accept \/ Replay \/ Subscribe \/ Follow \/ Idle \/ Beat
    \/ Connect \/ Receive
    \/ \E f \in Fetches : ReadViews(f) \/ ReadCursor(f) \/ Show(f) \/ Refuse(f)
    \/ Drop \/ Restart

Spec == Init /\ [][Next]_vars

\* The event loop resumes the socket task and the snapshots it serves; the
\* network delivers what a connection that stays up carries, and an answer that
\* is not lost.  No request has to fail.
Fairness ==
    /\ WF_vars(Replay) /\ WF_vars(Subscribe) /\ WF_vars(Follow) /\ WF_vars(Beat)
    /\ WF_vars(Receive)
    /\ \A f \in Fetches : WF_vars(ReadViews(f) \/ ReadCursor(f) \/ Show(f))

FairSpec == Spec /\ Fairness

----------------------------------------------------------------------------
(* Properties                                                              *)

\* What a connection has still to bring, in order.
Coming == wire \o backlog \o queue

\* The places of a sequence that do not hold a heartbeat.
Told(s) == {i \in DOMAIN s : s[i].type # "HEARTBEAT"}

\* Events come in ascending order and none twice, over the replay, the change
\* from replay to queue and the overflow of the queue (since(), publish());
\* heartbeats repeat a number.
EventsAscend ==
    \A i, j \in Told(Coming) : i < j => Coming[i].seq < Coming[j].seq

\* A change announced to a connection, or missed by a cursor that reconnects,
\* is on the map of that connection, or being fetched, or something on the way
\* makes the browser fetch: no overflow, no quarantine message and no heartbeat
\* in between may swallow it.  There are three excuses, each for a change of its
\* own: it was published between since() and subscribe(), the request that was to
\* show it has failed, or an older answer has come after a newer one.
AnnouncementsReachTheMap ==
    \/ shown >= due
    \/ excuse # "none"
    \/ \E f \in Fetches : Carries(f)
    \/ \E i \in DOMAIN Coming : Refreshing(Coming[i].type)

\* What a connection owes is on the map in the end, or the connection is lost,
\* or there is one of the three excuses: heartbeats, replays and overlapping
\* snapshots do not keep it away for ever.
AnnouncementsAreShown == due > 0 ~> shown >= due \/ excuse # "none"

Quiet ==
    /\ Subscribed /\ queue = <<>> /\ wire = <<>>
    /\ \A f \in Fetches : fetch[f] = NoFetch

\* A client that has lost its connection and comes back with its last cursor
\* misses no change, neither one announced before nor one announced while older
\* ones are replayed (operations_socket()): once nothing is on its way, the map
\* shows the views of the server.
ReconnectsCatchUp == Quiet /\ drops > 0 => shown = announced
============================================================================

------------------------- MODULE MaritimeIngestion -------------------------
(***************************************************************************)
(* The ingestion of services/api/sanjiv/maritime: the task that streams    *)
(* AIS messages from a live provider or, without one, from a replay file;  *)
(* normalizes, deduplicates and stores positions; keeps the latest view of *)
(* each vessel; notices geofence crossings; and switches the operating     *)
(* mode.  A database call may fail and the process may restart; the        *)
(* provider may send late, repeated and malformed messages, or vanish.     *)
(***************************************************************************)
EXTENDS Naturals, Sequences

CONSTANTS
    Vessels,     \* the vessels that send positions
    LiveMessages,\* what the provider may send, in any order and repeatedly
    Recording,   \* the replay file: a sequence of messages
    MaxRetries,  \* aisstream_max_retries
    MaxFaults,   \* bound: failing database calls
    MaxRestarts, \* bound: restarts
    None

\* A raw message.  "whole" says that it has an MMSI and coordinates in their
\* ranges; "inside" says on which side of the geofence it lies.  Its identity
\* is that of the position: the provider's id and the source timestamp.
Message == [id : Nat, vessel : Vessels, at : Nat, live : BOOLEAN, inside : BOOLEAN,
            whole : BOOLEAN]

\* The recording is checked against its manifest when it is loaded, and its
\* vessels are fictional.
ASSUME MessagesAssumption ==
    /\ LiveMessages \subseteq {m \in Message : m.live}
    /\ Recording \in Seq({m \in Message : ~ m.live})
    /\ \A i, j \in DOMAIN Recording : i < j => Recording[i].at <= Recording[j].at
    /\ \A m \in LiveMessages, i \in DOMAIN Recording : m.vessel # Recording[i].vessel
ASSUME NoneAssumption ==
    /\ None \notin {"LIVE", "REPLAY", "DEGRADED"} /\ None \notin BOOLEAN
    /\ None \notin LiveMessages
    /\ \A i \in DOMAIN Recording : None # Recording[i]
ASSUME BoundsAssumption == {MaxRetries, MaxFaults, MaxRestarts} \subseteq Nat

VARIABLES
    stored,    \* vessel_positions
    quarantined, \* ais_quarantine
    segments,  \* vessel_track_segments: pairs of positions
    mode,      \* _mode
    recorded,  \* to_mode of the last transition saved by this process, or None
    view,      \* _views: the latest position of a vessel, or None
    inside,    \* GeofenceEngine._state: the side a vessel was last on, or None
    crossings, \* the geofence events saved by this process for a vessel
    pc,        \* where the ingestion task is
    message,   \* the message being processed, or None
    attempt,   \* connection attempts that have failed, in this stream
    next,      \* the next message of the recording
    faults, restarts

memory == <<mode, recorded, view, inside, crossings>>
tables == <<stored, quarantined, segments>>
bounds == <<faults, restarts>>
vars == <<tables, memory, pc, message, attempt, next, bounds>>

Of(v)     == {m \in stored : m.vessel = v}
Newest(S) == {m \in S : \A n \in S : n.at <= m.at}

Init ==
    /\ stored = {} /\ quarantined = {} /\ segments = {}
    /\ mode = "DEGRADED" /\ recorded = None
    /\ view = [v \in Vessels |-> None]
    /\ inside = [v \in Vessels |-> None]
    /\ crossings = [v \in Vessels |-> <<>>]
    /\ pc = "off" /\ message = None /\ attempt = 0 /\ next = 1
    /\ faults = 0 /\ restarts = 0

----------------------------------------------------------------------------
(* Start, restart and the choice of the source                             *)

\* _hydrate_latest_views(): a stored position with the newest timestamp.
Hydrated(v) == IF Of(v) = {} THEN {None} ELSE Newest(Of(v))

\* initialize() and the first steps of run(), with or without a live adapter.
Boot ==
    /\ pc = "off"
    /\ view' \in [Vessels -> stored \cup {None}]
    /\ \A v \in Vessels : view'[v] \in Hydrated(v)
    /\ \/ pc' = "connect" /\ UNCHANGED mode
       \/ pc' = "replay" /\ mode' = "REPLAY"
    /\ UNCHANGED <<tables, recorded, inside, crossings, message, attempt, next, bounds>>

Restart ==
    /\ restarts < MaxRestarts
    /\ restarts' = restarts + 1
    /\ pc' = "off" /\ message' = None /\ attempt' = 0 /\ next' = 1
    /\ mode' = "DEGRADED" /\ recorded' = None
    /\ view' = [v \in Vessels |-> None]
    /\ inside' = [v \in Vessels |-> None]
    /\ crossings' = [v \in Vessels |-> <<>>]
    /\ UNCHANGED <<tables, faults>>

\* Mutant of FallBack: the mode stays DEGRADED when it is that already.
FallBackDegraded ==
    /\ mode' = "DEGRADED"
    /\ pc' = IF mode = "DEGRADED" THEN "replay" ELSE "degraded"
    /\ message' = None
    /\ UNCHANGED <<recorded, view, inside, crossings>>

\* The handler of run(): _transition(DEGRADED), which records nothing if that
\* is the mode, and then _transition(REPLAY).
FallBack ==
    /\ IF mode = "DEGRADED" THEN pc' = "replay" /\ mode' = "REPLAY"
                            ELSE pc' = "degraded" /\ mode' = "DEGRADED"
    /\ message' = None
    /\ UNCHANGED <<recorded, view, inside, crossings>>

----------------------------------------------------------------------------
(* The live stream: AISStreamAdapter._stream                               *)

\* Mutant of Connect: a connection gives the attempts back.
ConnectAfresh ==
    /\ pc = "connect"
    /\ pc' = "stream" /\ attempt' = 0
    /\ UNCHANGED <<tables, memory, message, next, bounds>>

Connect ==
    /\ pc = "connect"
    /\ pc' = "stream"
    /\ UNCHANGED <<tables, memory, message, attempt, next, bounds>>

\* The connection cannot be made or is lost, or a message is not JSON, has no
\* timestamp or one in the future, which the adapter itself refuses: one of the
\* attempts is spent, and a success does not give it back.
Disconnect ==
    /\ pc \in {"connect", "stream"}
    /\ \/ attempt = MaxRetries /\ FallBack /\ UNCHANGED attempt
       \/ /\ attempt < MaxRetries
          /\ pc' = "connect" /\ attempt' = attempt + 1
          /\ UNCHANGED <<memory, message>>
    /\ UNCHANGED <<tables, next, bounds>>

\* The provider closes the connection: the stream ends, and run() raises.
Close ==
    /\ pc = "stream"
    /\ FallBack
    /\ UNCHANGED <<tables, attempt, next, bounds>>

----------------------------------------------------------------------------
(* One message: process()                                                  *)

Source == IF message.live THEN "stream" ELSE "consume"

\* A message that cannot be normalized is quarantined; the first valid live
\* one switches the mode before it is stored.
Begin(m) ==
    /\ message' = m
    /\ \/ ~ m.whole /\ pc' = "quarantine" /\ UNCHANGED mode
       \/ m.whole /\ m.live /\ mode # "LIVE" /\ pc' = "live" /\ mode' = "LIVE"
       \/ m.whole /\ (m.live => mode = "LIVE") /\ pc' = "store" /\ UNCHANGED mode
    /\ UNCHANGED <<recorded, view, inside, crossings>>

Receive ==
    /\ pc = "stream"
    /\ \E m \in LiveMessages : Begin(m)
    /\ UNCHANGED <<tables, attempt, next, bounds>>

Replay ==
    /\ pc = "consume"
    /\ next <= Len(Recording)
    /\ Begin(Recording[next])
    /\ next' = next + 1
    /\ UNCHANGED <<tables, attempt, bounds>>

\* The recording is over: it is played again, or the task ends.
EndOfRecording ==
    /\ pc = "consume"
    /\ next > Len(Recording)
    /\ \/ next' = 1 /\ UNCHANGED pc
       \/ pc' = "ended" /\ UNCHANGED next
    /\ UNCHANGED <<tables, memory, message, attempt, bounds>>

\* save_transition(): the audit event and the transition are one transaction.
SaveTransition ==
    /\ pc \in {"live", "degraded", "replay"}
    /\ recorded' = mode
    /\ \/ pc = "live" /\ pc' = "store" /\ UNCHANGED mode
       \/ pc = "degraded" /\ pc' = "replay" /\ mode' = "REPLAY"
       \/ pc = "replay" /\ pc' = "consume" /\ UNCHANGED mode
    /\ UNCHANGED <<tables, view, inside, crossings, message, attempt, next, bounds>>

Done == pc' = Source /\ message' = None

\* quarantine()
Quarantine ==
    /\ pc = "quarantine"
    /\ quarantined' = quarantined \cup {message}
    /\ Done
    /\ UNCHANGED <<stored, segments, memory, attempt, next, bounds>>

Duplicate ==
    /\ pc = "store"
    /\ message \in stored
    /\ Done
    /\ UNCHANGED <<tables, memory, attempt, next, bounds>>

\* Mutant of Segment: every position is joined to the latest one.
SegmentAnyway(v, m) ==
    IF view[v] # None THEN {<<view[v], m>>} ELSE {}

\* A segment joins the newest position known to a newer one; a late position
\* gets none.
Segment(v, m) ==
    IF view[v] # None /\ view[v].at < m.at THEN {<<view[v], m>>} ELSE {}

\* Mutant of Latest: the last position to arrive is shown.
LatestArrived(old, m) == m

Latest(old, m) == IF old # None /\ old.at > m.at THEN old ELSE m

Crosses(v, m) == inside[v] # None /\ inside[v] # m.inside

\* Mutant of Side: the engine remembers a vessel only while it is inside.
SideOnce(v, m) == IF inside[v] = None \/ m.inside THEN m.inside ELSE inside[v]

\* What the engine remembers after a position, whatever its timestamp.
Side(v, m) == m.inside

\* save_observation(), one transaction, then the view and the engine.
Store ==
    LET m == message  v == m.vessel IN
    /\ pc = "store"
    /\ m \notin stored
    /\ stored' = stored \cup {m}
    /\ segments' = segments \cup Segment(v, m)
    /\ view' = [view EXCEPT ![v] = Latest(view[v], m)]
    /\ inside' = [inside EXCEPT ![v] = Side(v, m)]
    /\ IF Crosses(v, m) THEN pc' = "cross" /\ UNCHANGED message ELSE Done
    /\ UNCHANGED <<quarantined, mode, recorded, crossings, attempt, next, bounds>>

\* save_geofence_event()
SaveCrossing ==
    LET v == message.vessel IN
    /\ pc = "cross"
    /\ crossings' = [crossings EXCEPT ![v] =
                        Append(@, IF message.inside THEN "ENTRY" ELSE "EXIT")]
    /\ Done
    /\ UNCHANGED <<tables, mode, recorded, view, inside, attempt, next, bounds>>

\* Mutant of Raise: a message that fails is skipped and the stream goes on.
RaiseQuietly ==
    \/ message # None /\ Done /\ UNCHANGED memory
    \/ pc \in {"degraded", "replay"} /\ pc' = "dead"
       /\ UNCHANGED <<memory, message>>

\* An exception leaves process(): the live stream falls back; in the handler
\* itself, or while replaying, it ends the task.
Raise ==
    \/ pc \in {"quarantine", "live", "store", "cross"} /\ message.live /\ FallBack
    \/ /\ \/ pc \in {"degraded", "replay"}
          \/ pc \in {"quarantine", "store", "cross"} /\ ~ message.live
       /\ pc' = "dead" /\ message' = None
       /\ UNCHANGED memory

\* The database call that the task waits for fails.
Fault ==
    /\ faults < MaxFaults
    /\ faults' = faults + 1
    /\ Raise
    /\ UNCHANGED <<tables, attempt, next, restarts>>

Process == SaveTransition \/ Quarantine \/ Duplicate \/ Store \/ SaveCrossing

Next ==
    \/ Boot \/ Restart \/ Connect \/ Disconnect \/ Close
    \/ Receive \/ Replay \/ EndOfRecording \/ Process \/ Fault

Spec == Init /\ [][Next]_vars

\* A connection attempt succeeds or times out; the event loop resumes the task
\* when its call is done.  Nothing is assumed of the provider.
Fairness == /\ WF_vars(Boot) /\ WF_vars(Connect \/ Disconnect)
            /\ WF_vars(Replay \/ EndOfRecording) /\ WF_vars(Process)

FairSpec == Spec /\ Fairness

----------------------------------------------------------------------------
(* Properties                                                              *)

\* The map shows the newest position of every vessel that has one, whatever
\* the order in which positions arrive and whatever came before a restart
\* (save_observation, _hydrate_latest_views).
NewestIsShown ==
    pc # "off" =>
        \A v \in Vessels : IF Of(v) = {} THEN view[v] = None
                                         ELSE view[v] \in Newest(Of(v))

\* The stored segments of a vessel run forward and never overlap: late and
\* repeated positions do not lengthen its track (save_observation).
SegmentsTile ==
    \A s, t \in segments :
        /\ s[1].at < s[2].at
        /\ s[1].vessel = t[1].vessel /\ s # t =>
              s[2].at <= t[1].at \/ t[2].at <= s[1].at

\* What is published under an operating mode comes from the source the mode
\* names: after a failure in the middle of a switch too (process, run).
ModeNamesTheSource ==
    pc \in {"store", "cross"} =>
        mode = IF message.live THEN "LIVE" ELSE "REPLAY"

\* Whenever the task is between two messages the mode it shows is the one that
\* it last recorded, although a transition changes the mode first and saves it
\* afterwards, and the save may fail (_transition, run).
ModeIsRecorded ==
    pc \in {"connect", "stream", "consume", "ended"} =>
        mode = IF recorded = None THEN "DEGRADED" ELSE recorded

\* The events of a vessel that a process saves are entries and exits in turn,
\* although a save that fails loses the event and keeps the engine's new state
\* (GeofenceEngine.evaluate, process).
CrossingsAlternate ==
    \A v \in Vessels : \A i \in 1 .. Len(crossings[v]) - 1 :
        crossings[v][i] # crossings[v][i + 1]

\* The live adapter does not reconnect for ever: a provider that keeps failing
\* ends in a stable stream or in the fallback ("bounded retries").
ReconnectingEnds == <>[](pc # "connect")

============================================================================

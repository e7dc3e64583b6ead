---------------------- MODULE MaritimeIngestionProofs ----------------------
(***************************************************************************)
(* Theorems about MaritimeIngestion, for any vessels, messages, recording, *)
(* retries, failing calls and restarts.                                    *)
(***************************************************************************)
EXTENDS MaritimeIngestion, TLAPS

----------------------------------------------------------------------------
(* The parts of the inductive invariant.                                   *)

Busy == {"quarantine", "live", "store", "cross"}

Replayed == {Recording[i] : i \in DOMAIN Recording}

\* What the task has in its hands, and the shapes of what it remembers.
Carries ==
    /\ pc \in {"off", "connect", "stream", "consume", "ended", "dead", "degraded",
               "replay"} \cup Busy
    /\ pc \in Busy => message \in LiveMessages \cup Replayed
    /\ pc = "live" => message.live
    /\ stored \subseteq LiveMessages \cup Replayed
    /\ next \in Nat \ {0}
    /\ DOMAIN view = Vessels
    /\ inside \in [Vessels -> BOOLEAN \cup {None}]
    /\ crossings \in [Vessels -> Seq({"ENTRY", "EXIT"})]

\* A segment joins two stored positions of one vessel.
Joined ==
    \A s \in segments :
        /\ s = <<s[1], s[2]>>
        /\ s[1] \in stored /\ s[2] \in stored
        /\ s[1].vessel = s[2].vessel

\* Every place in the task has its mode.
ModeFits ==
    /\ pc = "off" => mode = "DEGRADED" /\ recorded = None
    /\ pc = "degraded" => mode = "DEGRADED"
    /\ pc \in {"replay", "consume", "ended"} => mode = "REPLAY"
    /\ pc = "live" => mode = "LIVE"
    /\ pc \in Busy /\ ~ message.live => mode = "REPLAY"
    /\ pc \in {"store", "cross"} /\ message.live => mode = "LIVE"

\* Between two transitions the mode is the recorded one.
ModeSaved ==
    pc \in {"connect", "stream", "consume", "ended", "quarantine", "store", "cross"} =>
        mode = IF recorded = None THEN "DEGRADED" ELSE recorded

Turned(v, side) ==
    crossings[v] # <<>> =>
        crossings[v][Len(crossings[v])] = IF side THEN "ENTRY" ELSE "EXIT"

\* The live stream is over for this process, and v is not in the recording.
Abandoned(v) ==
    /\ \E m \in LiveMessages : m.vessel = v
    /\ \/ pc \in {"replay", "degraded", "consume", "ended"}
       \/ pc \in Busy /\ ~ message.live

\* The last event of a vessel tells where the engine thinks it is, except while
\* the next one is being saved; if a save failed, the vessel is a live one and
\* the task has left the live stream for good, or the task is dead.
Turns ==
    \A v \in Vessels :
        \/ pc = "dead"
        \/ Abandoned(v)
        \/ IF pc = "cross" /\ message.vessel = v
           THEN inside[v] = message.inside /\ Turned(v, ~ message.inside)
           ELSE \/ crossings[v] = <<>>
                \/ inside[v] \in BOOLEAN /\ Turned(v, inside[v])

IInv == /\ Carries /\ NewestIsShown /\ Joined /\ SegmentsTile
        /\ ModeFits /\ ModeSaved /\ Turns /\ CrossingsAlternate

----------------------------------------------------------------------------
(* Lemmas.                                                                 *)

\* What is assumed of messages, by field.
LEMMA MessageFields ==
    /\ \A m \in LiveMessages \cup Replayed :
          /\ m # None /\ m.vessel \in Vessels /\ m.at \in Nat
          /\ m.live \in BOOLEAN /\ m.inside \in BOOLEAN
    /\ \A m \in LiveMessages : m.live
    /\ \A m \in Replayed : ~ m.live
    /\ \A m \in LiveMessages, n \in Replayed : m.vessel # n.vessel
<1>1. LiveMessages \subseteq Message /\ \A m \in LiveMessages : m.live /\ m # None
    BY MessagesAssumption, NoneAssumption
<1>2. Replayed \subseteq Message /\ \A m \in Replayed : ~ m.live /\ m # None
    BY MessagesAssumption, NoneAssumption DEF Replayed
<1>3. \A m \in LiveMessages, n \in Replayed : m.vessel # n.vessel
    BY MessagesAssumption DEF Replayed
<1>4. \A m \in Message : /\ m.vessel \in Vessels /\ m.at \in Nat
                         /\ m.live \in BOOLEAN /\ m.inside \in BOOLEAN
    BY DEF Message
<1> QED
    BY <1>1, <1>2, <1>3, <1>4

\* Every step of the task is one of these.
LEMMA Steps ==
    ASSUME [Next]_vars
    PROVE  \/ Boot \/ Restart \/ Connect \/ Disconnect \/ Close
           \/ Receive \/ Replay \/ EndOfRecording
           \/ SaveTransition \/ Quarantine \/ Duplicate \/ Store \/ SaveCrossing
           \/ Fault \/ UNCHANGED vars
BY DEF Next, Process

\* The task works on messages it was given.
LEMMA CarriesStep == Carries /\ [Next]_vars => Carries'
<1> SUFFICES ASSUME Carries, [Next]_vars PROVE Carries'
    OBVIOUS
<1> USE MessageFields, NoneAssumption DEF Carries, Busy
<1>1. CASE Boot
    <2>1. DOMAIN view' = Vessels
        BY <1>1 DEF Boot
    <2> QED
        BY <1>1, <2>1 DEF Boot, tables, memory, bounds
<1>2. CASE Restart
    BY <1>2 DEF Restart, tables, memory, bounds
<1>3. CASE Connect
    BY <1>3 DEF Connect, tables, memory, bounds
<1>4. CASE Disconnect
    BY <1>4 DEF Disconnect, FallBack, tables, memory, bounds
<1>5. CASE Close
    BY <1>5 DEF Close, FallBack, tables, memory, bounds
<1>6. CASE Receive
    BY <1>6 DEF Receive, Begin, tables, memory, bounds
<1>7. CASE Replay
    <2>1. Recording[next] \in Replayed
        BY <1>7, MessagesAssumption DEF Replay, Replayed
    <2> QED
        BY <1>7, <2>1 DEF Replay, Begin, tables, memory, bounds
<1>8. CASE EndOfRecording
    BY <1>8 DEF EndOfRecording, tables, memory, bounds
<1>9. CASE SaveTransition
    BY <1>9 DEF SaveTransition, tables, memory, bounds
<1>10. CASE Quarantine
    BY <1>10 DEF Quarantine, Done, Source, tables, memory, bounds
<1>11. CASE Duplicate
    BY <1>11 DEF Duplicate, Done, Source, tables, memory, bounds
<1>12. CASE Store
    BY <1>12 DEF Store, Side, Crosses, Done, Source, tables, memory, bounds
<1>13. CASE SaveCrossing
    <2> DEFINE v == message.vessel
               s == Append(crossings[v], IF message.inside THEN "ENTRY" ELSE "EXIT")
    <2>1. v \in Vessels /\ message \in LiveMessages \cup Replayed
        BY <1>13 DEF SaveCrossing
    <2>2. s \in Seq({"ENTRY", "EXIT"})
        BY <2>1
    <2>3. crossings' = [crossings EXCEPT ![v] = s]
        BY <1>13 DEF SaveCrossing
    <2> HIDE DEF s
    <2>4. crossings' \in [Vessels -> Seq({"ENTRY", "EXIT"})]
        BY <2>2, <2>3
    <2> QED
        BY <1>13, <2>4 DEF SaveCrossing, Done, Source, tables, memory, bounds
<1>14. CASE Fault
    BY <1>14 DEF Fault, Raise, FallBack, tables, memory, bounds
<1>15. CASE UNCHANGED vars
    BY <1>15 DEF vars, tables, memory, bounds
<1> QED
    BY Steps, <1>1, <1>2, <1>3, <1>4, <1>5, <1>6, <1>7, <1>8,
       <1>9, <1>10, <1>11, <1>12, <1>13, <1>14, <1>15

\* A position older than the view is stored and not shown.
LEMMA NewestStep == Carries /\ NewestIsShown /\ [Next]_vars => NewestIsShown'
<1> SUFFICES ASSUME Carries, NewestIsShown, [Next]_vars PROVE NewestIsShown'
    OBVIOUS
<1> USE MessageFields, NoneAssumption DEF Carries, NewestIsShown, Of, Newest, Busy
<1>1. CASE Boot
    <2> SUFFICES ASSUME NEW v \in Vessels
                 PROVE  IF Of(v) = {} THEN view'[v] = None ELSE view'[v] \in Newest(Of(v))
        BY <1>1 DEF Boot, tables
    <2> QED
        BY <1>1 DEF Boot, Hydrated
<1>2. CASE Restart
    BY <1>2 DEF Restart, tables, memory, bounds
<1>3. CASE Connect
    BY <1>3 DEF Connect, tables, memory, bounds
<1>4. CASE Disconnect
    BY <1>4 DEF Disconnect, FallBack, tables, memory, bounds
<1>5. CASE Close
    BY <1>5 DEF Close, FallBack, tables, memory, bounds
<1>6. CASE Receive
    BY <1>6 DEF Receive, Begin, tables, memory, bounds
<1>7. CASE Replay
    BY <1>7 DEF Replay, Begin, tables, memory, bounds
<1>8. CASE EndOfRecording
    BY <1>8 DEF EndOfRecording, tables, memory, bounds
<1>9. CASE SaveTransition
    BY <1>9 DEF SaveTransition, tables, memory, bounds
<1>10. CASE Quarantine
    BY <1>10 DEF Quarantine, Done, Source, tables, memory, bounds
<1>11. CASE Duplicate
    BY <1>11 DEF Duplicate, Done, Source, tables, memory, bounds
<1>12. CASE Store
    <2> SUFFICES ASSUME NEW v \in Vessels
                 PROVE  IF Of(v)' = {} THEN view'[v] = None
                                       ELSE view'[v] \in Newest(Of(v)')
        BY <1>12
    <2>1. message \in LiveMessages \cup Replayed /\ message.vessel \in Vessels
        BY <1>12 DEF Store
    <2>2. /\ stored' = stored \cup {message}
          /\ view' = [view EXCEPT ![message.vessel] =
                         Latest(view[message.vessel], message)]
        BY <1>12 DEF Store
    <2>3. IF Of(v) = {} THEN view[v] = None ELSE view[v] \in Newest(Of(v))
        BY <1>12 DEF Store
    <2>4. CASE v # message.vessel
        BY <2>1, <2>2, <2>3, <2>4
    <2>5. CASE v = message.vessel
        <3>1. view'[v] = Latest(view[v], message)
            BY <2>1, <2>2, <2>5
        <3>2. Of(v)' = Of(v) \cup {message}
            BY <2>2, <2>5
        <3>3. \A m \in Of(v) : m \in LiveMessages \cup Replayed
            OBVIOUS
        <3>4. CASE Of(v) = {}
            BY <2>1, <2>3, <3>1, <3>2, <3>4 DEF Latest
        <3>5. CASE Of(v) # {}
            <4>1. view[v] \in Of(v) /\ \A n \in Of(v) : n.at <= view[v].at
                BY <2>3, <3>5
            <4>2. view[v].at \in Nat /\ view[v] # None /\ message.at \in Nat
                BY <4>1, <3>3, <2>1
            <4>3. CASE view[v].at > message.at
                BY <3>1, <3>2, <4>1, <4>2, <4>3 DEF Latest
            <4>4. CASE ~ (view[v].at > message.at)
                <5>1. view'[v] = message
                    BY <3>1, <4>2, <4>4 DEF Latest
                <5>2. \A n \in Of(v) : n.at <= message.at
                    BY <4>1, <4>2, <4>4, <3>3
                <5> QED
                    BY <5>1, <5>2, <3>2, <4>2
            <4> QED
                BY <4>3, <4>4
        <3> QED
            BY <3>4, <3>5
    <2> QED
        BY <2>4, <2>5
<1>13. CASE SaveCrossing
    BY <1>13 DEF SaveCrossing, Done, Source, tables, memory, bounds
<1>14. CASE Fault
    BY <1>14 DEF Fault, Raise, FallBack, tables, memory, bounds
<1>15. CASE UNCHANGED vars
    BY <1>15 DEF vars, tables, memory, bounds
<1> QED
    BY Steps, <1>1, <1>2, <1>3, <1>4, <1>5, <1>6, <1>7, <1>8,
       <1>9, <1>10, <1>11, <1>12, <1>13, <1>14, <1>15

\* A new segment begins at the shown position of the vessel.
LEMMA JoinedStep == Carries /\ NewestIsShown /\ Joined /\ [Next]_vars => Joined'
<1> SUFFICES ASSUME Carries, NewestIsShown, Joined, [Next]_vars PROVE Joined'
    OBVIOUS
<1> USE MessageFields, NoneAssumption DEF Carries, NewestIsShown, Joined, Of, Newest, Busy
<1>1. CASE Boot
    BY <1>1 DEF Boot, tables, memory, bounds
<1>2. CASE Restart
    BY <1>2 DEF Restart, tables, memory, bounds
<1>3. CASE Connect
    BY <1>3 DEF Connect, tables, memory, bounds
<1>4. CASE Disconnect
    BY <1>4 DEF Disconnect, FallBack, tables, memory, bounds
<1>5. CASE Close
    BY <1>5 DEF Close, FallBack, tables, memory, bounds
<1>6. CASE Receive
    BY <1>6 DEF Receive, Begin, tables, memory, bounds
<1>7. CASE Replay
    BY <1>7 DEF Replay, Begin, tables, memory, bounds
<1>8. CASE EndOfRecording
    BY <1>8 DEF EndOfRecording, tables, memory, bounds
<1>9. CASE SaveTransition
    BY <1>9 DEF SaveTransition, tables, memory, bounds
<1>10. CASE Quarantine
    BY <1>10 DEF Quarantine, Done, Source, tables, memory, bounds
<1>11. CASE Duplicate
    BY <1>11 DEF Duplicate, Done, Source, tables, memory, bounds
<1>12. CASE Store
    <2>1. message \in LiveMessages \cup Replayed /\ message.vessel \in Vessels
        BY <1>12 DEF Store
    <2>2. /\ stored' = stored \cup {message}
          /\ segments' = segments \cup Segment(message.vessel, message)
        BY <1>12 DEF Store
    <2>3. \A s \in Segment(message.vessel, message) :
              /\ s = <<view[message.vessel], message>>
              /\ view[message.vessel] # None
        BY DEF Segment
    <2>4. view[message.vessel] # None =>
              /\ view[message.vessel] \in stored
              /\ view[message.vessel].vessel = message.vessel
        BY <1>12, <2>1 DEF Store
    <2> QED
        BY <2>2, <2>3, <2>4
<1>13. CASE SaveCrossing
    BY <1>13 DEF SaveCrossing, Done, Source, tables, memory, bounds
<1>14. CASE Fault
    BY <1>14 DEF Fault, Raise, FallBack, tables, memory, bounds
<1>15. CASE UNCHANGED vars
    BY <1>15 DEF vars, tables, memory, bounds
<1> QED
    BY Steps, <1>1, <1>2, <1>3, <1>4, <1>5, <1>6, <1>7, <1>8,
       <1>9, <1>10, <1>11, <1>12, <1>13, <1>14, <1>15

\* It begins where the last segment of the vessel ends, or later.
LEMMA TileStep ==
    Carries /\ NewestIsShown /\ Joined /\ SegmentsTile /\ [Next]_vars
    => SegmentsTile'
<1> SUFFICES ASSUME Carries, NewestIsShown, Joined, SegmentsTile, [Next]_vars PROVE SegmentsTile'
    OBVIOUS
<1> USE MessageFields, NoneAssumption DEF Carries, SegmentsTile, Busy
<1>1. CASE Boot
    BY <1>1 DEF Boot, tables, memory, bounds
<1>2. CASE Restart
    BY <1>2 DEF Restart, tables, memory, bounds
<1>3. CASE Connect
    BY <1>3 DEF Connect, tables, memory, bounds
<1>4. CASE Disconnect
    BY <1>4 DEF Disconnect, FallBack, tables, memory, bounds
<1>5. CASE Close
    BY <1>5 DEF Close, FallBack, tables, memory, bounds
<1>6. CASE Receive
    BY <1>6 DEF Receive, Begin, tables, memory, bounds
<1>7. CASE Replay
    BY <1>7 DEF Replay, Begin, tables, memory, bounds
<1>8. CASE EndOfRecording
    BY <1>8 DEF EndOfRecording, tables, memory, bounds
<1>9. CASE SaveTransition
    BY <1>9 DEF SaveTransition, tables, memory, bounds
<1>10. CASE Quarantine
    BY <1>10 DEF Quarantine, Done, Source, tables, memory, bounds
<1>11. CASE Duplicate
    BY <1>11 DEF Duplicate, Done, Source, tables, memory, bounds
<1>12. CASE Store
    <2> DEFINE v == message.vessel
               new == Segment(v, message)
    <2>1. message \in LiveMessages \cup Replayed /\ v \in Vessels
        BY <1>12 DEF Store
    <2>2. segments' = segments \cup new
        BY <1>12 DEF Store
    <2>3. \A s \in new : /\ s = <<view[v], message>>
                         /\ view[v] # None /\ view[v].at < message.at
        BY DEF Segment
    <2>4. view[v] # None => /\ view[v] \in stored /\ view[v].vessel = v
                            /\ \A m \in stored : m.vessel = v => m.at <= view[v].at
        BY <1>12, <2>1 DEF Store, NewestIsShown, Of, Newest
    <2>5. \A s \in segments, t \in new :
              /\ t[1].at < t[2].at /\ t[1].vessel = v
              /\ s[1].vessel = v => s[2].at <= t[1].at
        BY <2>3, <2>4 DEF Joined
    <2>6. \A s, t \in new : s = t
        BY <2>3
    <2>7. SUFFICES ASSUME NEW s \in segments', NEW t \in segments'
                   PROVE  /\ s[1].at < s[2].at
                          /\ s[1].vessel = t[1].vessel /\ s # t =>
                                s[2].at <= t[1].at \/ t[2].at <= s[1].at
        BY <2>7
    <2> HIDE DEF new, v
    <2>8. CASE s \in segments /\ t \in segments
        BY <2>8
    <2>9. CASE s \in new /\ t \in new
        BY <2>3, <2>6, <2>9
    <2>10. CASE s \in segments /\ t \in new
        BY <2>5, <2>10
    <2>11. CASE s \in new /\ t \in segments
        BY <2>5, <2>11
    <2> QED
        BY <2>2, <2>8, <2>9, <2>10, <2>11
<1>13. CASE SaveCrossing
    BY <1>13 DEF SaveCrossing, Done, Source, tables, memory, bounds
<1>14. CASE Fault
    BY <1>14 DEF Fault, Raise, FallBack, tables, memory, bounds
<1>15. CASE UNCHANGED vars
    BY <1>15 DEF vars, tables, memory, bounds
<1> QED
    BY Steps, <1>1, <1>2, <1>3, <1>4, <1>5, <1>6, <1>7, <1>8,
       <1>9, <1>10, <1>11, <1>12, <1>13, <1>14, <1>15

\* A switch of the mode goes before what it is for.
LEMMA ModeFitsStep == Carries /\ ModeFits /\ [Next]_vars => ModeFits'
<1> SUFFICES ASSUME Carries, ModeFits, [Next]_vars PROVE ModeFits'
    OBVIOUS
<1> USE MessageFields, NoneAssumption DEF Carries, ModeFits, Busy
<1>1. CASE Boot
    BY <1>1 DEF Boot, tables, memory, bounds
<1>2. CASE Restart
    BY <1>2 DEF Restart, tables, memory, bounds
<1>3. CASE Connect
    BY <1>3 DEF Connect, tables, memory, bounds
<1>4. CASE Disconnect
    BY <1>4 DEF Disconnect, FallBack, tables, memory, bounds
<1>5. CASE Close
    BY <1>5 DEF Close, FallBack, tables, memory, bounds
<1>6. CASE Receive
    BY <1>6 DEF Receive, Begin, tables, memory, bounds
<1>7. CASE Replay
    <2>1. Recording[next] \in Replayed
        BY <1>7, MessagesAssumption DEF Replay, Replayed
    <2> QED
        BY <1>7, <2>1 DEF Replay, Begin, tables, memory, bounds
<1>8. CASE EndOfRecording
    BY <1>8 DEF EndOfRecording, tables, memory, bounds
<1>9. CASE SaveTransition
    BY <1>9 DEF SaveTransition, tables, memory, bounds
<1>10. CASE Quarantine
    BY <1>10 DEF Quarantine, Done, Source, tables, memory, bounds
<1>11. CASE Duplicate
    BY <1>11 DEF Duplicate, Done, Source, tables, memory, bounds
<1>12. CASE Store
    BY <1>12 DEF Store, Side, Crosses, Done, Source, tables, memory, bounds
<1>13. CASE SaveCrossing
    BY <1>13 DEF SaveCrossing, Done, Source, tables, memory, bounds
<1>14. CASE Fault
    BY <1>14 DEF Fault, Raise, FallBack, tables, memory, bounds
<1>15. CASE UNCHANGED vars
    BY <1>15 DEF vars, tables, memory, bounds
<1> QED
    BY Steps, <1>1, <1>2, <1>3, <1>4, <1>5, <1>6, <1>7, <1>8,
       <1>9, <1>10, <1>11, <1>12, <1>13, <1>14, <1>15

\* A mode that is not recorded is left by the way that records it.
LEMMA ModeSavedStep == Carries /\ ModeFits /\ ModeSaved /\ [Next]_vars => ModeSaved'
<1> SUFFICES ASSUME Carries, ModeFits, ModeSaved, [Next]_vars PROVE ModeSaved'
    OBVIOUS
<1> USE MessageFields, NoneAssumption DEF Carries, ModeFits, ModeSaved, Busy
<1>1. CASE Boot
    BY <1>1 DEF Boot, tables, memory, bounds
<1>2. CASE Restart
    BY <1>2 DEF Restart, tables, memory, bounds
<1>3. CASE Connect
    BY <1>3 DEF Connect, tables, memory, bounds
<1>4. CASE Disconnect
    BY <1>4 DEF Disconnect, FallBack, tables, memory, bounds
<1>5. CASE Close
    BY <1>5 DEF Close, FallBack, tables, memory, bounds
<1>6. CASE Receive
    BY <1>6 DEF Receive, Begin, tables, memory, bounds
<1>7. CASE Replay
    <2>1. Recording[next] \in Replayed
        BY <1>7, MessagesAssumption DEF Replay, Replayed
    <2> QED
        BY <1>7, <2>1 DEF Replay, Begin, tables, memory, bounds
<1>8. CASE EndOfRecording
    BY <1>8 DEF EndOfRecording, tables, memory, bounds
<1>9. CASE SaveTransition
    BY <1>9 DEF SaveTransition, tables, memory, bounds
<1>10. CASE Quarantine
    BY <1>10 DEF Quarantine, Done, Source, tables, memory, bounds
<1>11. CASE Duplicate
    BY <1>11 DEF Duplicate, Done, Source, tables, memory, bounds
<1>12. CASE Store
    BY <1>12 DEF Store, Side, Crosses, Done, Source, tables, memory, bounds
<1>13. CASE SaveCrossing
    BY <1>13 DEF SaveCrossing, Done, Source, tables, memory, bounds
<1>14. CASE Fault
    BY <1>14 DEF Fault, Raise, FallBack, tables, memory, bounds
<1>15. CASE UNCHANGED vars
    BY <1>15 DEF vars, tables, memory, bounds
<1> QED
    BY Steps, <1>1, <1>2, <1>3, <1>4, <1>5, <1>6, <1>7, <1>8,
       <1>9, <1>10, <1>11, <1>12, <1>13, <1>14, <1>15

\* A lost event ends the live stream, or the task.
LEMMA TurnsStep == Carries /\ Turns /\ [Next]_vars => Turns'
<1> SUFFICES ASSUME Carries, Turns, [Next]_vars PROVE Turns'
    OBVIOUS
<1> USE MessageFields, NoneAssumption DEF Carries, Turns, Turned, Abandoned, Busy
<1>1. CASE Boot
    BY <1>1 DEF Boot, tables, memory, bounds
<1>2. CASE Restart
    BY <1>2 DEF Restart, tables, memory, bounds
<1>3. CASE Connect
    BY <1>3 DEF Connect, tables, memory, bounds
<1>4. CASE Disconnect
    BY <1>4 DEF Disconnect, FallBack, tables, memory, bounds
<1>5. CASE Close
    BY <1>5 DEF Close, FallBack, tables, memory, bounds
<1>6. CASE Receive
    BY <1>6 DEF Receive, Begin, tables, memory, bounds
<1>7. CASE Replay
    <2>1. Recording[next] \in Replayed
        BY <1>7, MessagesAssumption DEF Replay, Replayed
    <2> QED
        BY <1>7, <2>1 DEF Replay, Begin, tables, memory, bounds
<1>8. CASE EndOfRecording
    BY <1>8 DEF EndOfRecording, tables, memory, bounds
<1>9. CASE SaveTransition
    BY <1>9 DEF SaveTransition, tables, memory, bounds
<1>10. CASE Quarantine
    BY <1>10 DEF Quarantine, Done, Source, tables, memory, bounds
<1>11. CASE Duplicate
    BY <1>11 DEF Duplicate, Done, Source, tables, memory, bounds
<1>12. CASE Store
    BY <1>12 DEF Store, Side, Crosses, Done, Source, tables, memory, bounds
<1>13. CASE SaveCrossing
    <2> DEFINE v == message.vessel
               e == IF message.inside THEN "ENTRY" ELSE "EXIT"
    <2>1. message \in LiveMessages \cup Replayed /\ v \in Vessels
        BY <1>13 DEF SaveCrossing
    <2>2. crossings' = [crossings EXCEPT ![v] = Append(crossings[v], e)]
        BY <1>13 DEF SaveCrossing
    <2>3. /\ crossings'[v] = Append(crossings[v], e)
          /\ \A u \in Vessels : u # v => crossings'[u] = crossings[u]
        BY <2>1, <2>2
    <2>4. crossings[v] \in Seq({"ENTRY", "EXIT"}) /\ e \in {"ENTRY", "EXIT"}
        BY <2>1
    <2>5. crossings'[v][Len(crossings'[v])] = e
        BY <2>3, <2>4
    <2>6. /\ pc = "cross" /\ inside' = inside
          /\ pc' = IF message.live THEN "stream" ELSE "consume"
        BY <1>13 DEF SaveCrossing, Done, Source
    <2>7. ~ Abandoned(v)
        BY <2>1, <2>6
    <2>8. inside[v] = message.inside
        BY <2>1, <2>6, <2>7
    <2>9. SUFFICES ASSUME NEW u \in Vessels
                   PROVE  \/ Abandoned(u)'
                          \/ crossings'[u] = <<>>
                          \/ inside'[u] \in BOOLEAN /\ Turned(u, inside[u])'
        BY <2>6
    <2>10. CASE u = v
        BY <2>1, <2>5, <2>6, <2>8, <2>10
    <2>11. CASE u # v
        BY <2>3, <2>6, <2>11
    <2> QED
        BY <2>10, <2>11
<1>14. CASE Fault
    BY <1>14 DEF Fault, Raise, FallBack, tables, memory, bounds
<1>15. CASE UNCHANGED vars
    BY <1>15 DEF vars, tables, memory, bounds
<1> QED
    BY Steps, <1>1, <1>2, <1>3, <1>4, <1>5, <1>6, <1>7, <1>8,
       <1>9, <1>10, <1>11, <1>12, <1>13, <1>14, <1>15

\* What is appended to the events of a vessel is not what they end with.
LEMMA AlternateStep ==
    Carries /\ Turns /\ CrossingsAlternate /\ [Next]_vars => CrossingsAlternate'
<1> SUFFICES ASSUME Carries, Turns, CrossingsAlternate, [Next]_vars
             PROVE  CrossingsAlternate'
    OBVIOUS
<1> USE MessageFields DEF Carries, CrossingsAlternate
<1>1. CASE SaveCrossing
    <2> DEFINE v == message.vessel
               s == crossings[v]
               e == IF message.inside THEN "ENTRY" ELSE "EXIT"
    <2>1. message \in LiveMessages \cup Replayed /\ v \in Vessels /\ pc = "cross"
        BY <1>1 DEF SaveCrossing, Busy
    <2>2. crossings' = [crossings EXCEPT ![v] = Append(s, e)]
        BY <1>1 DEF SaveCrossing
    <2>3. /\ crossings'[v] = Append(s, e)
          /\ \A u \in Vessels : u # v => crossings'[u] = crossings[u]
        BY <2>1, <2>2
    <2>4. s \in Seq({"ENTRY", "EXIT"}) /\ e \in {"ENTRY", "EXIT"}
        BY <2>1
    <2>5. Turned(v, ~ message.inside)
        BY <2>1 DEF Turns, Abandoned, Busy
    <2>6. s # <<>> => s[Len(s)] # e
        BY <2>1, <2>5 DEF Turned
    <2>7. ASSUME NEW i \in 1 .. Len(Append(s, e)) - 1
          PROVE  Append(s, e)[i] # Append(s, e)[i + 1]
        <3>1. CASE i = Len(s)
            BY <2>4, <2>6, <3>1
        <3>2. CASE i < Len(s)
            <4>1. s[i] # s[i + 1]
                BY <2>1, <2>4, <3>2
            <4> QED
                BY <2>4, <3>2, <4>1
        <3> QED
            BY <2>4, <3>1, <3>2
    <2> SUFFICES ASSUME NEW u \in Vessels, NEW i \in 1 .. Len(crossings'[u]) - 1
                 PROVE  crossings'[u][i] # crossings'[u][i + 1]
        OBVIOUS
    <2> HIDE DEF v, s, e
    <2>8. CASE u = v
        BY <2>3, <2>7, <2>8
    <2>9. CASE u # v
        BY <2>3, <2>9
    <2> QED
        BY <2>8, <2>9
<1>2. CASE crossings' = crossings
    BY <1>2
<1>3. CASE Restart
    BY <1>3 DEF Restart
<1> QED
    BY Steps, <1>1, <1>2, <1>3
       DEF Boot, Connect, Disconnect, Close, FallBack, Receive, Replay, Begin,
           EndOfRecording, SaveTransition, Quarantine, Duplicate, Store, Fault, Raise,
           memory, vars

----------------------------------------------------------------------------
(* Theorems.                                                               *)
LEMMA Initially == Init => IInv
BY MessageFields, NoneAssumption
   DEF Init, IInv, Carries, Busy, NewestIsShown, Joined, SegmentsTile, ModeFits,
       ModeSaved, Turns, CrossingsAlternate

\* Every step preserves every part of it.
LEMMA Inductive == Spec => []IInv
<1>1. IInv /\ [Next]_vars => IInv'
    BY CarriesStep, NewestStep, JoinedStep, TileStep, ModeFitsStep, ModeSavedStep,
       TurnsStep, AlternateStep DEF IInv
<1> QED
    BY Initially, <1>1, PTL DEF Spec

\* Late, repeated and corrected positions and restarts leave the newest stored
\* position of every vessel on the map (save_observation, _hydrate_latest_views).
THEOREM NewestPositionsShown == Spec => []NewestIsShown
<1>1. IInv => NewestIsShown
    BY DEF IInv
<1> QED
    BY Inductive, <1>1, PTL

\* The track of a vessel runs forward and never overlaps itself
\* (save_observation).
THEOREM TracksTile == Spec => []SegmentsTile
<1>1. IInv => SegmentsTile
    BY DEF IInv
<1> QED
    BY Inductive, <1>1, PTL

\* Positions are stored and published under the mode of their source (process,
\* run).
THEOREM ModesNameSources == Spec => []ModeNamesTheSource
<1>1. IInv => ModeNamesTheSource
    BY MessageFields DEF IInv, Carries, ModeFits, ModeNamesTheSource, Busy
<1> QED
    BY Inductive, <1>1, PTL

\* Between two messages the mode is the one recorded last (_transition).
THEOREM ModesRecorded == Spec => []ModeIsRecorded
<1>1. IInv => ModeIsRecorded
    BY DEF IInv, ModeSaved, ModeIsRecorded
<1> QED
    BY Inductive, <1>1, PTL

\* A process saves entries and exits of a vessel in turn, failing saves
\* included (GeofenceEngine.evaluate, process).
THEOREM CrossingsTakeTurns == Spec => []CrossingsAlternate
<1>1. IInv => CrossingsAlternate
    BY DEF IInv
<1> QED
    BY Inductive, <1>1, PTL

============================================================================

----------------------- MODULE ScenarioIntakeProofs -----------------------
(***************************************************************************)
(* What ScenarioIntake promises about confirmations, for any number of     *)
(* requests, keys, networks, restarts and failures.                        *)
(***************************************************************************)
EXTENDS ScenarioIntake, FiniteSetTheorems, TLAPS

\* A request carries the call it works for.
Carries ==
    /\ pc = [t \in Requests |-> pc[t]]
    /\ job = [t \in Requests |-> job[t]]
    /\ answer = [t \in Requests |-> answer[t]]
    /\ cache = [k \in {"compile", "confirm"} \X Keys |-> cache[k]]
    /\ \A t \in Requests :
          /\ pc[t] \in {"provider", "candidate"} =>
                job[t].op = "compile" /\ job[t].key \in Keys
          /\ pc[t] = "verdict" =>
                job[t].op \in {"compile", "validate", "confirm"} /\ job[t].key \in Keys
          /\ pc[t] = "read" => job[t].op = "validate" /\ job[t].key \in Keys
          /\ pc[t] \in {"wait", "look", "check", "audit", "confirmation"} =>
                job[t].op = "confirm" /\ job[t].key \in Keys

\* Responses that name no scenario.
Unnamed == {"TWIN_SNAPSHOT_MISSING", "UNTRUSTED_INSTRUCTION", "CLARIFICATION_REQUIRED",
            "PROVIDER_UNAVAILABLE", "PROVIDER_TIMEOUT", "INVALID_PROVIDER_OUTPUT"}

\* A compilation remembers, before it has a candidate, that there is none.
LEMMA Unsuccessful ==
    ASSUME Carries, NEW t \in Requests, NEW a, NEW code \in Unnamed,
           a.key \in Keys, Unread(t, a, code)
    PROVE  /\ \A k \in Keys : cache'[<<"confirm", k>>] = cache[<<"confirm", k>>]
           /\ \A k \in Keys : \/ cache'[<<"compile", k>>] = cache[<<"compile", k>>]
                              \/ cache'[<<"compile", k>>].code \in Unnamed
           /\ answer'[t].code \in Unnamed
           /\ \A u \in Requests \ {t} : answer'[u] = answer[u]
    <1>1. Reply(t, code, None)
        BY DEF Unread
    <1>2. answer'[t].code = code /\ \A u \in Requests \ {t} : answer'[u] = answer[u]
        BY <1>1 DEF Reply, Carries
    <1>3. \A p \in {"compile", "confirm"}, q \in Keys :
              cache'[<<p, q>>] = IF p = "compile" /\ q = a.key THEN answer'[t]
                                 ELSE cache[<<p, q>>]
        <2>1. cache' = [cache EXCEPT ![<<"compile", a.key>>] = answer'[t]]
            BY DEF Unread
        <2> QED
            BY <2>1 DEF Carries
    <1> QED
        BY <1>2, <1>3

\* What compile() does up to its first query.
LEMMA CompileEffect ==
    ASSUME Carries, NEW t \in Requests, Compile(t) \/ Provide(t)
    PROVE  /\ \A k \in Keys : cache'[<<"confirm", k>>] = cache[<<"confirm", k>>]
           /\ \A k \in Keys : \/ cache'[<<"compile", k>>] = cache[<<"compile", k>>]
                              \/ cache'[<<"compile", k>>].code \in Unnamed
           /\ \/ answer'[t] = answer[t]
              \/ answer'[t].code \in Unnamed
              \/ \E k \in Keys : /\ cache[<<"compile", k>>] # None
                                 /\ answer'[t].code = cache[<<"compile", k>>].code
                                 /\ answer'[t].about = cache[<<"compile", k>>].about
           /\ \A u \in Requests \ {t} : answer'[u] = answer[u]
           /\ UNCHANGED stored
    <1>1. CASE Compile(t)
        <2>1. PICK a \in Sends[t] :
                  \/ /\ cache[<<"compile", a.key>>] # None
                     /\ Reply(t, cache[<<"compile", a.key>>].code,
                                 cache[<<"compile", a.key>>].about)
                     /\ UNCHANGED cache
                  \/ Reply(t, "TWIN_SNAPSHOT_MISSING", None) /\ UNCHANGED cache
                  \/ \E code \in Unnamed : Unread(t, a, code)
                  \/ UNCHANGED <<cache, answer>>
            BY <1>1 DEF Compile, Draft, Unnamed
        <2>2. a.key \in Keys
            BY SendsAssumption
        <2>3. UNCHANGED stored
            BY <1>1 DEF Compile
        <2> HIDE DEF Unnamed
        <2>4. CASE \E code \in Unnamed : Unread(t, a, code)
            BY <2>2, <2>3, <2>4, Unsuccessful
        <2>5. CASE Reply(t, "TWIN_SNAPSHOT_MISSING", None) /\ UNCHANGED cache
            BY <2>3, <2>5 DEF Unnamed, Reply, Carries
        <2>6. CASE /\ cache[<<"compile", a.key>>] # None
                   /\ Reply(t, cache[<<"compile", a.key>>].code,
                               cache[<<"compile", a.key>>].about)
                   /\ UNCHANGED cache
            <3>1. /\ answer'[t].code = cache[<<"compile", a.key>>].code
                  /\ answer'[t].about = cache[<<"compile", a.key>>].about
                  /\ \A u \in Requests \ {t} : answer'[u] = answer[u]
                BY <2>6 DEF Reply, Carries
            <3> QED
                BY <2>2, <2>3, <2>6, <3>1
        <2>7. CASE UNCHANGED <<cache, answer>>
            BY <2>3, <2>7
        <2> QED
            BY <2>1, <2>4, <2>5, <2>6, <2>7
    <1>2. CASE Provide(t)
        <2>1. \/ UNCHANGED <<cache, answer>>
              \/ \E code \in Unnamed : Unread(t, job[t], code)
            BY <1>2 DEF Provide, Draft, Unnamed
        <2>2. job[t].key \in Keys
            BY <1>2 DEF Provide, Carries
        <2>3. UNCHANGED stored
            BY <1>2 DEF Provide
        <2> QED
            BY <2>1, <2>2, <2>3, Unsuccessful
    <1> QED
        BY <1>1, <1>2

\* A request keeps the call it works for.
LEMMA CarriesStep == Carries /\ [Next]_vars => Carries'
<1> SUFFICES ASSUME Carries, [Next]_vars PROVE Carries'
    OBVIOUS
<1> USE NoneAssumption, SendsAssumption DEF Carries
<1>1. ASSUME NEW t \in Requests, Compile(t) PROVE Carries'
    <2>1. /\ \E label \in {"candidate", "provider", "done"} : pc' = [pc EXCEPT ![t] = label]
          /\ \E j : job' = [job EXCEPT ![t] = j]
          /\ \/ answer' = answer
             \/ \E r : answer' = [answer EXCEPT ![t] = r]
        BY <1>1 DEF Compile, Unread, Draft, Reply, Goto
    <2>2. pc'[t] # "done" => job'[t].op = "compile" /\ job'[t].key \in Keys
        BY <1>1 DEF Compile, Unread, Draft, Drafted, Reply, Goto
    <2>3. \/ cache' = cache
          \/ \E k \in Keys : cache' = [cache EXCEPT ![<<"compile", k>>] = answer'[t]]
        BY <1>1 DEF Compile, Unread, Draft
    <2> QED
        BY <2>1, <2>2, <2>3
<1>2. ASSUME NEW t \in Requests, Provide(t) PROVE Carries'
    BY <1>2 DEF Provide, Unread, Draft, Drafted, Reply, Goto, stored, world
<1>3. ASSUME NEW t \in Requests, Call(t) PROVE Carries'
    <2>1. PICK a \in Sends[t], s \in candidates \cup {None} :
              /\ job' = [job EXCEPT ![t] = [op |-> a.op, key |-> a.key, of |-> s,
                                            at |-> time, valid |-> FALSE]]
              /\ \/ a.op = "validate" /\ pc' = [pc EXCEPT ![t] = "read"]
                 \/ a.op = "confirm" /\ pc' = [pc EXCEPT ![t] = "wait"]
                 \/ a.op = "start" /\ pc' = [pc EXCEPT ![t] = "admit"]
        BY <1>3 DEF Call, Goto
    <2>2. a.key \in Keys
        BY <2>1
    <2>3. UNCHANGED <<cache, answer>>
        BY <1>3 DEF Call, memory
    <2> QED
        BY <2>1, <2>2, <2>3
<1>4. ASSUME NEW t \in Requests, SaveCandidate(t) PROVE Carries'
    BY <1>4 DEF SaveCandidate, Goto, memory, world
<1>5. ASSUME NEW t \in Requests, Read(t) PROVE Carries'
    BY <1>5 DEF Read, Judged, Reply, Goto, stored, memory, world
<1>6. ASSUME NEW t \in Requests, Enter(t) PROVE Carries'
    BY <1>6 DEF Enter, Reply, Goto, stored, world, Free
<1>7. ASSUME NEW t \in Requests, Look(t) PROVE Carries'
    BY <1>7 DEF Look, Reply, Goto, Remember, Release, stored, world
<1>8. ASSUME NEW t \in Requests, Check(t) PROVE Carries'
    BY <1>8 DEF Check, Judged, Reply, Goto, Release, Rechecked, stored, world
<1>9. ASSUME NEW t \in Requests, SaveVerdict(t) PROVE Carries'
    BY <1>9 DEF SaveVerdict, Reply, Goto, Remember, Release, world
<1>10. ASSUME NEW t \in Requests, SaveAudit(t) PROVE Carries'
    BY <1>10 DEF SaveAudit, Goto, Audited, memory, world
<1>11. ASSUME NEW t \in Requests, SaveConfirmation(t) PROVE Carries'
    BY <1>11 DEF SaveConfirmation, Reply, Goto, Remember, Release, world
<1>12. ASSUME NEW t \in Requests, Admit(t) PROVE Carries'
    BY <1>12 DEF Admit, Reply, stored, memory, world, Goto
<1>13. ASSUME NEW t \in Requests, Fail(t) PROVE Carries'
    BY <1>13 DEF Fail, Reply, Goto, Release, Queries, stored
<1>14. CASE Restart
    BY <1>14 DEF Restart, stored
<1>15. CASE Tick
    BY <1>15 DEF Tick, stored, memory
<1>16. CASE UNCHANGED vars
    BY <1>16 DEF vars, stored, memory, world
<1> QED
    BY <1>1, <1>2, <1>3, <1>4, <1>5, <1>6, <1>7, <1>8, <1>9, <1>10, <1>11,
       <1>12, <1>13, <1>14, <1>15, <1>16 DEF Next, Serve

\* A request that holds the lock.
Confirming(t) ==
    \/ pc[t] \in {"look", "check", "audit", "confirmation"}
    \/ pc[t] = "verdict" /\ job[t].op = "confirm"

\* One request at a time confirms, and once it has looked, its scenario has no
\* confirmation.
Alone ==
    \A t \in Requests :
        /\ Confirming(t) => lock = t
        /\ Confirming(t) /\ pc[t] # "look" => \A c \in confirmations : c.of # job[t].of

\* What is remembered of compilations says nothing of confirmations, and what
\* is remembered of confirmations is stored.
Remembered ==
    \A k \in Keys :
        /\ cache[<<"compile", k>>] # None => cache[<<"compile", k>>].code # "CONFIRMED"
        /\ cache[<<"confirm", k>>] # None =>
              /\ cache[<<"confirm", k>>].code = "CONFIRMED"
              /\ cache[<<"confirm", k>>].about \in confirmations

\* A scenario has one audit event from the moment its confirmation is saved.
Trail ==
    /\ \A d, e \in audits : d.of = e.of => d = e
    /\ \A c \in confirmations : \E e \in audits : e.of = c.of
    /\ \A t \in Requests :
          pc[t] = "confirmation" => \E e \in audits : e.of = job[t].of

\* A verdict is about a stored candidate.
Kept ==
    /\ \A v \in verdicts : v.of \in candidates
    /\ \A t \in Requests : pc[t] = "verdict" => job[t].of \in candidates

\* A remembered candidate is stored with a verdict.
Compiled ==
    \A k \in Keys :
        cache[<<"compile", k>>] # None /\ cache[<<"compile", k>>].code = "CANDIDATE" =>
            cache[<<"compile", k>>].about \in Saved

\* What is about to be confirmed is valid at the time its confirmation states.
Checked ==
    \A t \in Requests :
        \/ pc[t] \in {"audit", "confirmation"}
        \/ pc[t] = "verdict" /\ job[t].op = "confirm" /\ job[t].valid
        => Valid(job[t].of, job[t].at)

\* Nobody else looks or confirms while a request holds the lock.
LEMMA AloneStep == Carries /\ Alone /\ [Next]_vars => Alone'
<1> SUFFICES ASSUME Carries, Alone, [Next]_vars PROVE Alone'
    OBVIOUS
<1> USE NoneAssumption, SendsAssumption DEF Carries, Alone, Confirming
<1>1. ASSUME NEW t \in Requests, Compile(t) PROVE Alone'
    BY <1>1 DEF Compile, Unread, Draft, Drafted, Reply, Goto, stored, world
<1>2. ASSUME NEW t \in Requests, Provide(t) PROVE Alone'
    BY <1>2 DEF Provide, Unread, Draft, Drafted, Reply, Goto, stored, world
<1>3. ASSUME NEW t \in Requests, Call(t) PROVE Alone'
    BY <1>3 DEF Call, Goto, stored, memory, world
<1>4. ASSUME NEW t \in Requests, SaveCandidate(t) PROVE Alone'
    BY <1>4 DEF SaveCandidate, Goto, memory, world
<1>5. ASSUME NEW t \in Requests, Read(t) PROVE Alone'
    BY <1>5 DEF Read, Judged, Reply, Goto, stored, memory, world
<1>6. ASSUME NEW t \in Requests, Enter(t) PROVE Alone'
    BY <1>6 DEF Enter, Reply, Goto, stored, world, Free
<1>7. ASSUME NEW t \in Requests, Look(t) PROVE Alone'
    BY <1>7 DEF Look, Reply, Goto, Remember, Release, stored, world
<1>8. ASSUME NEW t \in Requests, Check(t) PROVE Alone'
    BY <1>8 DEF Check, Judged, Reply, Goto, Release, Rechecked, stored, world
<1>9. ASSUME NEW t \in Requests, SaveVerdict(t) PROVE Alone'
    BY <1>9 DEF SaveVerdict, Reply, Goto, Remember, Release, world
<1>10. ASSUME NEW t \in Requests, SaveAudit(t) PROVE Alone'
    BY <1>10 DEF SaveAudit, Goto, Audited, memory, world
<1>11. ASSUME NEW t \in Requests, SaveConfirmation(t) PROVE Alone'
    BY <1>11 DEF SaveConfirmation, Reply, Goto, Remember, Release, world
<1>12. ASSUME NEW t \in Requests, Admit(t) PROVE Alone'
    BY <1>12 DEF Admit, Reply, stored, memory, world, Goto
<1>13. ASSUME NEW t \in Requests, Fail(t) PROVE Alone'
    BY <1>13 DEF Fail, Reply, Goto, Release, Queries, stored
<1>14. CASE Restart
    BY <1>14 DEF Restart, stored
<1>15. CASE Tick
    BY <1>15 DEF Tick, stored, memory
<1>16. CASE UNCHANGED vars
    BY <1>16 DEF vars, stored, memory, world
<1> QED
    BY <1>1, <1>2, <1>3, <1>4, <1>5, <1>6, <1>7, <1>8, <1>9, <1>10, <1>11,
       <1>12, <1>13, <1>14, <1>15, <1>16 DEF Next, Serve

\* A confirmation is stored when it is remembered.
LEMMA RememberedStep == Carries /\ Alone /\ Remembered /\ [Next]_vars => Remembered'
<1> SUFFICES ASSUME Carries, Alone, Remembered, [Next]_vars PROVE Remembered'
    OBVIOUS
<1> USE NoneAssumption, SendsAssumption DEF Carries, Alone, Confirming, Remembered
<1>1. ASSUME NEW t \in Requests, Compile(t) PROVE Remembered'
    <2>1. /\ \A k \in Keys : cache'[<<"confirm", k>>] = cache[<<"confirm", k>>]
          /\ \A k \in Keys : \/ cache'[<<"compile", k>>] = cache[<<"compile", k>>]
                             \/ cache'[<<"compile", k>>].code \in Unnamed
          /\ UNCHANGED stored
        <3> HIDE DEF Carries
        <3> QED
            BY <1>1, CompileEffect
    <2>2. "CONFIRMED" \notin Unnamed /\ confirmations' = confirmations
        BY <2>1 DEF Unnamed, stored
    <2> QED
        BY <2>1, <2>2
<1>2. ASSUME NEW t \in Requests, Provide(t) PROVE Remembered'
    <2>1. /\ \A k \in Keys : cache'[<<"confirm", k>>] = cache[<<"confirm", k>>]
          /\ \A k \in Keys : \/ cache'[<<"compile", k>>] = cache[<<"compile", k>>]
                             \/ cache'[<<"compile", k>>].code \in Unnamed
          /\ UNCHANGED stored
        <3> HIDE DEF Carries
        <3> QED
            BY <1>2, CompileEffect
    <2>2. "CONFIRMED" \notin Unnamed /\ confirmations' = confirmations
        BY <2>1 DEF Unnamed, stored
    <2> QED
        BY <2>1, <2>2
<1>3. ASSUME NEW t \in Requests, Call(t) PROVE Remembered'
    BY <1>3 DEF Call, Goto, stored, memory, world
<1>4. ASSUME NEW t \in Requests, SaveCandidate(t) PROVE Remembered'
    BY <1>4 DEF SaveCandidate, Goto, memory, world
<1>5. ASSUME NEW t \in Requests, Read(t) PROVE Remembered'
    BY <1>5 DEF Read, Judged, Reply, Goto, stored, memory, world
<1>6. ASSUME NEW t \in Requests, Enter(t) PROVE Remembered'
    BY <1>6 DEF Enter, Reply, Goto, stored, world, Free
<1>7. ASSUME NEW t \in Requests, Look(t) PROVE Remembered'
    <2>1. CASE cache' = cache
        BY <1>7, <2>1 DEF Look, stored
    <2>2. CASE cache' # cache
        <3>1. PICK c \in confirmations : Reply(t, "CONFIRMED", c) /\ Remember(t)
            BY <1>7, <2>2 DEF Look
        <3>2. answer'[t].code = "CONFIRMED" /\ answer'[t].about = c
            BY <3>1 DEF Reply
        <3>3. job[t].op = "confirm" /\ job[t].key \in Keys
            BY <1>7 DEF Look
        <3>4. cache' = [cache EXCEPT ![<<"confirm", job[t].key>>] = answer'[t]]
            BY <3>1, <3>3 DEF Remember
        <3>5. UNCHANGED stored
            BY <1>7 DEF Look
        <3> QED
            <4>1. \A p \in {"compile", "confirm"}, q \in Keys :
                      cache'[<<p, q>>] = IF p = "confirm" /\ q = job[t].key THEN answer'[t]
                                         ELSE cache[<<p, q>>]
                BY <3>3, <3>4
            <4> QED
                BY <3>2, <3>5, <4>1 DEF stored
    <2> QED
        BY <2>1, <2>2
<1>8. ASSUME NEW t \in Requests, Check(t) PROVE Remembered'
    BY <1>8 DEF Check, Judged, Reply, Goto, Release, Rechecked, stored, world
<1>9. ASSUME NEW t \in Requests, SaveVerdict(t) PROVE Remembered'
    <2>1. CASE job[t].op = "compile"
        <3>1. Reply(t, "CANDIDATE", job[t].of) /\ Remember(t)
            BY <1>9, <2>1 DEF SaveVerdict
        <3>2. answer'[t].code = "CANDIDATE"
            BY <3>1 DEF Reply
        <3>3. cache' = [cache EXCEPT ![<<"compile", job[t].key>>] = answer'[t]]
            BY <2>1, <3>1 DEF Remember
        <3>4. job[t].key \in Keys /\ confirmations' = confirmations
            BY <1>9 DEF SaveVerdict
        <3>5. \A p \in {"compile", "confirm"}, q \in Keys :
                  cache'[<<p, q>>] = IF p = "compile" /\ q = job[t].key THEN answer'[t]
                                     ELSE cache[<<p, q>>]
            BY <3>3, <3>4
        <3> QED
            BY <3>2, <3>4, <3>5
    <2>2. CASE job[t].op # "compile"
        BY <1>9, <2>2 DEF SaveVerdict
    <2> QED
        BY <2>1, <2>2
<1>10. ASSUME NEW t \in Requests, SaveAudit(t) PROVE Remembered'
    BY <1>10 DEF SaveAudit, Goto, Audited, memory, world
<1>11. ASSUME NEW t \in Requests, SaveConfirmation(t) PROVE Remembered'
    BY <1>11 DEF SaveConfirmation, Reply, Goto, Remember, Release, world
<1>12. ASSUME NEW t \in Requests, Admit(t) PROVE Remembered'
    BY <1>12 DEF Admit, Reply, stored, memory, world, Goto
<1>13. ASSUME NEW t \in Requests, Fail(t) PROVE Remembered'
    BY <1>13 DEF Fail, Reply, Goto, Release, Queries, stored
<1>14. CASE Restart
    BY <1>14 DEF Restart, stored
<1>15. CASE Tick
    BY <1>15 DEF Tick, stored, memory
<1>16. CASE UNCHANGED vars
    BY <1>16 DEF vars, stored, memory, world
<1> QED
    BY <1>1, <1>2, <1>3, <1>4, <1>5, <1>6, <1>7, <1>8, <1>9, <1>10, <1>11,
       <1>12, <1>13, <1>14, <1>15, <1>16 DEF Next, Serve

\* A confirmation is stored when somebody is told of it.
LEMMA ToldStep ==
    Carries /\ Alone /\ Remembered /\ ToldConfirmationsAreStored /\ [Next]_vars
    => ToldConfirmationsAreStored'
<1> SUFFICES ASSUME Carries, Alone, Remembered, ToldConfirmationsAreStored,
                    [Next]_vars
             PROVE  ToldConfirmationsAreStored'
    OBVIOUS
<1> USE NoneAssumption, SendsAssumption
       DEF Carries, Alone, Confirming, Remembered, ToldConfirmationsAreStored
<1>1. ASSUME NEW t \in Requests, Compile(t) PROVE ToldConfirmationsAreStored'
    <2>1. /\ \A k \in Keys : \/ cache'[<<"compile", k>>] = cache[<<"compile", k>>]
                             \/ cache'[<<"compile", k>>].code \in Unnamed
          /\ \/ answer'[t] = answer[t]
             \/ answer'[t].code \in Unnamed
             \/ \E k \in Keys : /\ cache[<<"compile", k>>] # None
                                /\ answer'[t].code = cache[<<"compile", k>>].code
                                /\ answer'[t].about = cache[<<"compile", k>>].about
          /\ \A u \in Requests \ {t} : answer'[u] = answer[u]
          /\ UNCHANGED stored
        <3> HIDE DEF Carries
        <3> QED
            BY <1>1, CompileEffect
    <2>2. "CONFIRMED" \notin Unnamed /\ "CANDIDATE" \notin Unnamed
        BY DEF Unnamed
    <2>3. UNCHANGED <<candidates, verdicts, confirmations>>
        BY <2>1 DEF stored
    <2>4. answer'[t] = answer[t] \/ answer'[t].code # "CONFIRMED"
        BY <2>1, <2>2
    <2> QED
        BY <2>1, <2>3, <2>4
<1>2. ASSUME NEW t \in Requests, Provide(t) PROVE ToldConfirmationsAreStored'
    <2>1. /\ \A k \in Keys : \/ cache'[<<"compile", k>>] = cache[<<"compile", k>>]
                             \/ cache'[<<"compile", k>>].code \in Unnamed
          /\ \/ answer'[t] = answer[t]
             \/ answer'[t].code \in Unnamed
             \/ \E k \in Keys : /\ cache[<<"compile", k>>] # None
                                /\ answer'[t].code = cache[<<"compile", k>>].code
                                /\ answer'[t].about = cache[<<"compile", k>>].about
          /\ \A u \in Requests \ {t} : answer'[u] = answer[u]
          /\ UNCHANGED stored
        <3> HIDE DEF Carries
        <3> QED
            BY <1>2, CompileEffect
    <2>2. "CONFIRMED" \notin Unnamed /\ "CANDIDATE" \notin Unnamed
        BY DEF Unnamed
    <2>3. UNCHANGED <<candidates, verdicts, confirmations>>
        BY <2>1 DEF stored
    <2>4. answer'[t] = answer[t] \/ answer'[t].code # "CONFIRMED"
        BY <2>1, <2>2
    <2> QED
        BY <2>1, <2>3, <2>4
<1>3. ASSUME NEW t \in Requests, Call(t) PROVE ToldConfirmationsAreStored'
    BY <1>3 DEF Call, Goto, stored, memory, world
<1>4. ASSUME NEW t \in Requests, SaveCandidate(t) PROVE ToldConfirmationsAreStored'
    BY <1>4 DEF SaveCandidate, Goto, memory, world
<1>5. ASSUME NEW t \in Requests, Read(t) PROVE ToldConfirmationsAreStored'
    BY <1>5 DEF Read, Judged, Reply, Goto, stored, memory, world
<1>6. ASSUME NEW t \in Requests, Enter(t) PROVE ToldConfirmationsAreStored'
    <2>1. \/ /\ cache[<<"confirm", job[t].key>>] # None
             /\ Reply(t, cache[<<"confirm", job[t].key>>].code,
                         cache[<<"confirm", job[t].key>>].about)
          \/ answer' = answer
        BY <1>6 DEF Enter
    <2>2. job[t].key \in Keys /\ UNCHANGED stored
        BY <1>6 DEF Enter
    <2>3. \/ answer'[t] = answer[t]
          \/ /\ cache[<<"confirm", job[t].key>>] # None
             /\ answer'[t].code = cache[<<"confirm", job[t].key>>].code
             /\ answer'[t].about = cache[<<"confirm", job[t].key>>].about
        BY <2>1 DEF Reply
    <2>4. \A u \in Requests \ {t} : answer'[u] = answer[u]
        BY <2>1 DEF Reply
    <2> QED
        BY <2>2, <2>3, <2>4 DEF stored
<1>7. ASSUME NEW t \in Requests, Look(t) PROVE ToldConfirmationsAreStored'
    BY <1>7 DEF Look, Reply, Goto, Remember, Release, stored, world
<1>8. ASSUME NEW t \in Requests, Check(t) PROVE ToldConfirmationsAreStored'
    BY <1>8 DEF Check, Judged, Reply, Goto, Release, Rechecked, stored, world
<1>9. ASSUME NEW t \in Requests, SaveVerdict(t) PROVE ToldConfirmationsAreStored'
    BY <1>9 DEF SaveVerdict, Reply, Goto, Remember, Release, world
<1>10. ASSUME NEW t \in Requests, SaveAudit(t) PROVE ToldConfirmationsAreStored'
    BY <1>10 DEF SaveAudit, Goto, Audited, memory, world
<1>11. ASSUME NEW t \in Requests, SaveConfirmation(t)
      PROVE  ToldConfirmationsAreStored'
    BY <1>11 DEF SaveConfirmation, Reply, Goto, Remember, Release, world
<1>12. ASSUME NEW t \in Requests, Admit(t) PROVE ToldConfirmationsAreStored'
    BY <1>12 DEF Admit, Reply, stored, memory, world, Goto
<1>13. ASSUME NEW t \in Requests, Fail(t) PROVE ToldConfirmationsAreStored'
    BY <1>13 DEF Fail, Reply, Goto, Release, Queries, stored
<1>14. CASE Restart
    BY <1>14 DEF Restart, stored
<1>15. CASE Tick
    BY <1>15 DEF Tick, stored, memory
<1>16. CASE UNCHANGED vars
    BY <1>16 DEF vars, stored, memory, world
<1> QED
    BY <1>1, <1>2, <1>3, <1>4, <1>5, <1>6, <1>7, <1>8, <1>9, <1>10, <1>11,
       <1>12, <1>13, <1>14, <1>15, <1>16 DEF Next, Serve

\* The trail of audit events has one for each scenario.
LEMMA TrailStep == Carries /\ Trail /\ [Next]_vars => Trail'
<1> SUFFICES ASSUME Carries, Trail, [Next]_vars PROVE Trail'
    OBVIOUS
<1> USE NoneAssumption, SendsAssumption DEF Carries, Trail
<1>1. ASSUME NEW t \in Requests, Compile(t) PROVE Trail'
    BY <1>1 DEF Compile, Unread, Draft, Drafted, Reply, Goto, stored, world
<1>2. ASSUME NEW t \in Requests, Provide(t) PROVE Trail'
    BY <1>2 DEF Provide, Unread, Draft, Drafted, Reply, Goto, stored, world
<1>3. ASSUME NEW t \in Requests, Call(t) PROVE Trail'
    <2>1. \A u \in Requests : pc'[u] = "confirmation" => u # t /\ pc[u] = "confirmation"
        BY <1>3 DEF Call, Goto
    <2>2. \A u \in Requests \ {t} : job'[u] = job[u]
        BY <1>3 DEF Call
    <2>3. UNCHANGED <<audits, confirmations>>
        BY <1>3 DEF Call, stored
    <2> QED
        BY <2>1, <2>2, <2>3
<1>4. ASSUME NEW t \in Requests, SaveCandidate(t) PROVE Trail'
    BY <1>4 DEF SaveCandidate, Goto, memory, world
<1>5. ASSUME NEW t \in Requests, Read(t) PROVE Trail'
    BY <1>5 DEF Read, Judged, Reply, Goto, stored, memory, world
<1>6. ASSUME NEW t \in Requests, Enter(t) PROVE Trail'
    BY <1>6 DEF Enter, Reply, Goto, stored, world, Free
<1>7. ASSUME NEW t \in Requests, Look(t) PROVE Trail'
    BY <1>7 DEF Look, Reply, Goto, Remember, Release, stored, world
<1>8. ASSUME NEW t \in Requests, Check(t) PROVE Trail'
    BY <1>8 DEF Check, Judged, Reply, Goto, Release, Rechecked, stored, world
<1>9. ASSUME NEW t \in Requests, SaveVerdict(t) PROVE Trail'
    BY <1>9 DEF SaveVerdict, Reply, Goto, Remember, Release, world
<1>10. ASSUME NEW t \in Requests, SaveAudit(t) PROVE Trail'
    <2>1. /\ pc' = [pc EXCEPT ![t] = "confirmation"]
          /\ UNCHANGED <<confirmations, job>>
        BY <1>10 DEF SaveAudit, Goto
    <2>2. CASE Audited(job[t].of)
        <3>1. audits' = audits
            BY <1>10, <2>2 DEF SaveAudit
        <3> QED
            BY <2>1, <2>2, <3>1 DEF Audited
    <2>3. CASE ~ Audited(job[t].of)
        <3>1. audits' = audits \cup {[of |-> job[t].of, at |-> job[t].at]}
            BY <1>10, <2>3 DEF SaveAudit
        <3>2. /\ \A e \in audits : e.of # job[t].of
              /\ [of |-> job[t].of, at |-> job[t].at].of = job[t].of
            BY <2>3 DEF Audited
        <3>3. \A d, e \in audits' : d.of = e.of => d = e
            BY <3>1, <3>2
        <3>4. \E e \in audits' : e.of = job[t].of
            BY <3>1, <3>2
        <3>5. audits \subseteq audits'
            BY <3>1
        <3> QED
            BY <2>1, <3>3, <3>4, <3>5
    <2> QED
        BY <2>2, <2>3
<1>11. ASSUME NEW t \in Requests, SaveConfirmation(t) PROVE Trail'
    <2> DEFINE own == [of |-> job[t].of, at |-> job[t].at]
    <2>1. /\ confirmations' \subseteq confirmations \cup {own}
          /\ own.of = job[t].of
          /\ pc' = [pc EXCEPT ![t] = "done"]
          /\ job' = [job EXCEPT ![t] = None]
          /\ audits' = audits
        BY <1>11 DEF SaveConfirmation, Reply, Goto
    <2>2. \E e \in audits : e.of = own.of
        BY <1>11, <2>1 DEF SaveConfirmation
    <2> HIDE DEF own
    <2> QED
        BY <2>1, <2>2
<1>12. ASSUME NEW t \in Requests, Admit(t) PROVE Trail'
    BY <1>12 DEF Admit, Reply, stored, memory, world, Goto
<1>13. ASSUME NEW t \in Requests, Fail(t) PROVE Trail'
    BY <1>13 DEF Fail, Reply, Goto, Release, Queries, stored
<1>14. CASE Restart
    BY <1>14 DEF Restart, stored
<1>15. CASE Tick
    BY <1>15 DEF Tick, stored, memory
<1>16. CASE UNCHANGED vars
    BY <1>16 DEF vars, stored, memory, world
<1> QED
    BY <1>1, <1>2, <1>3, <1>4, <1>5, <1>6, <1>7, <1>8, <1>9, <1>10, <1>11,
       <1>12, <1>13, <1>14, <1>15, <1>16 DEF Next, Serve

\* Candidates outlive their verdicts.
LEMMA KeptStep == Carries /\ Kept /\ [Next]_vars => Kept'
<1> SUFFICES ASSUME Carries, Kept, [Next]_vars PROVE Kept'
    OBVIOUS
<1> USE NoneAssumption, SendsAssumption DEF Carries, Kept
<1>1. ASSUME NEW t \in Requests, Compile(t) PROVE Kept'
    BY <1>1 DEF Compile, Unread, Draft, Drafted, Reply, Goto, stored, world
<1>2. ASSUME NEW t \in Requests, Provide(t) PROVE Kept'
    BY <1>2 DEF Provide, Unread, Draft, Drafted, Reply, Goto, stored, world
<1>3. ASSUME NEW t \in Requests, Call(t) PROVE Kept'
    BY <1>3 DEF Call, Goto, stored, memory, world
<1>4. ASSUME NEW t \in Requests, SaveCandidate(t) PROVE Kept'
    BY <1>4 DEF SaveCandidate, Goto, memory, world
<1>5. ASSUME NEW t \in Requests, Read(t) PROVE Kept'
    BY <1>5 DEF Read, Judged, Reply, Goto, stored, memory, world
<1>6. ASSUME NEW t \in Requests, Enter(t) PROVE Kept'
    BY <1>6 DEF Enter, Reply, Goto, stored, world, Free
<1>7. ASSUME NEW t \in Requests, Look(t) PROVE Kept'
    BY <1>7 DEF Look, Reply, Goto, Remember, Release, stored, world
<1>8. ASSUME NEW t \in Requests, Check(t) PROVE Kept'
    BY <1>8 DEF Check, Judged, Reply, Goto, Release, Rechecked, stored, world
<1>9. ASSUME NEW t \in Requests, SaveVerdict(t) PROVE Kept'
    BY <1>9 DEF SaveVerdict, Reply, Goto, Remember, Release, world
<1>10. ASSUME NEW t \in Requests, SaveAudit(t) PROVE Kept'
    BY <1>10 DEF SaveAudit, Goto, Audited, memory, world
<1>11. ASSUME NEW t \in Requests, SaveConfirmation(t) PROVE Kept'
    BY <1>11 DEF SaveConfirmation, Reply, Goto, Remember, Release, world
<1>12. ASSUME NEW t \in Requests, Admit(t) PROVE Kept'
    BY <1>12 DEF Admit, Reply, stored, memory, world, Goto
<1>13. ASSUME NEW t \in Requests, Fail(t) PROVE Kept'
    BY <1>13 DEF Fail, Reply, Goto, Release, Queries, stored
<1>14. CASE Restart
    BY <1>14 DEF Restart, stored
<1>15. CASE Tick
    BY <1>15 DEF Tick, stored, memory
<1>16. CASE UNCHANGED vars
    BY <1>16 DEF vars, stored, memory, world
<1> QED
    BY <1>1, <1>2, <1>3, <1>4, <1>5, <1>6, <1>7, <1>8, <1>9, <1>10, <1>11,
       <1>12, <1>13, <1>14, <1>15, <1>16 DEF Next, Serve

\* A candidate keeps a verdict, perhaps another.
LEMMA SavedStep == Carries /\ Kept /\ [Next]_vars => Saved \subseteq Saved'
<1> SUFFICES ASSUME Carries, Kept, [Next]_vars PROVE Saved \subseteq Saved'
    OBVIOUS
<1> USE NoneAssumption, SendsAssumption DEF Saved
<1>1. ASSUME NEW t \in Requests, Compile(t) PROVE Saved \subseteq Saved'
    BY <1>1 DEF Compile, Unread, Draft, Drafted, Reply, Goto, stored, world
<1>2. ASSUME NEW t \in Requests, Provide(t) PROVE Saved \subseteq Saved'
    BY <1>2 DEF Provide, Unread, Draft, Drafted, Reply, Goto, stored, world
<1>3. ASSUME NEW t \in Requests, Call(t) PROVE Saved \subseteq Saved'
    BY <1>3 DEF Call, Goto, stored, memory, world
<1>4. ASSUME NEW t \in Requests, SaveCandidate(t) PROVE Saved \subseteq Saved'
    BY <1>4 DEF SaveCandidate, Goto, memory, world
<1>5. ASSUME NEW t \in Requests, Read(t) PROVE Saved \subseteq Saved'
    BY <1>5 DEF Read, Judged, Reply, Goto, stored, memory, world
<1>6. ASSUME NEW t \in Requests, Enter(t) PROVE Saved \subseteq Saved'
    BY <1>6 DEF Enter, Reply, Goto, stored, world, Free
<1>7. ASSUME NEW t \in Requests, Look(t) PROVE Saved \subseteq Saved'
    BY <1>7 DEF Look, Reply, Goto, Remember, Release, stored, world
<1>8. ASSUME NEW t \in Requests, Check(t) PROVE Saved \subseteq Saved'
    BY <1>8 DEF Check, Judged, Reply, Goto, Release, Rechecked, stored, world
<1>9. ASSUME NEW t \in Requests, SaveVerdict(t) PROVE Saved \subseteq Saved'
    <2> DEFINE w == [of |-> job[t].of, valid |-> job[t].valid, at |-> job[t].at]
    <2>1. verdicts' = {v \in verdicts : v.of # job[t].of} \cup {w}
        BY <1>9 DEF SaveVerdict
    <2>2. w.of = job[t].of /\ candidates' = candidates
        BY <1>9 DEF SaveVerdict
    <2> HIDE DEF w
    <2> QED
        BY <2>1, <2>2
<1>10. ASSUME NEW t \in Requests, SaveAudit(t) PROVE Saved \subseteq Saved'
    BY <1>10 DEF SaveAudit, Goto, Audited, memory, world
<1>11. ASSUME NEW t \in Requests, SaveConfirmation(t) PROVE Saved \subseteq Saved'
    BY <1>11 DEF SaveConfirmation, Reply, Goto, Remember, Release, world
<1>12. ASSUME NEW t \in Requests, Admit(t) PROVE Saved \subseteq Saved'
    BY <1>12 DEF Admit, Reply, stored, memory, world, Goto
<1>13. ASSUME NEW t \in Requests, Fail(t) PROVE Saved \subseteq Saved'
    BY <1>13 DEF Fail, Reply, Goto, Release, Queries, stored
<1>14. CASE Restart
    BY <1>14 DEF Restart, stored
<1>15. CASE Tick
    BY <1>15 DEF Tick, stored, memory
<1>16. CASE UNCHANGED vars
    BY <1>16 DEF vars, stored, memory, world
<1> QED
    BY <1>1, <1>2, <1>3, <1>4, <1>5, <1>6, <1>7, <1>8, <1>9, <1>10, <1>11,
       <1>12, <1>13, <1>14, <1>15, <1>16 DEF Next, Serve

\* save_validation() gives a stored candidate its verdict.
LEMMA OwnSaved ==
    ASSUME Carries, Kept, NEW t \in Requests, SaveVerdict(t)
    PROVE  job[t].of \in Saved'
    <1> DEFINE w == [of |-> job[t].of, valid |-> job[t].valid, at |-> job[t].at]
    <1>1. w \in verdicts' /\ w.of = job[t].of
        BY DEF SaveVerdict
    <1>2. job[t].of \in candidates'
        BY DEF SaveVerdict, Kept
    <1> HIDE DEF w
    <1> QED
        BY <1>1, <1>2 DEF Saved

\* A candidate is stored with its verdict when it is remembered.
LEMMA CompiledStep == Carries /\ Kept /\ Compiled /\ [Next]_vars => Compiled'
<1> SUFFICES ASSUME Carries, Kept, Compiled, [Next]_vars PROVE Compiled'
    OBVIOUS
<1> USE NoneAssumption, SendsAssumption DEF Carries, Kept, Compiled
<1>0. Saved \subseteq Saved'
    BY SavedStep
<1> USE <1>0
<1>1. ASSUME NEW t \in Requests, Compile(t) PROVE Compiled'
    <2>1. /\ \A k \in Keys : \/ cache'[<<"compile", k>>] = cache[<<"compile", k>>]
                             \/ cache'[<<"compile", k>>].code \in Unnamed
          /\ \/ answer'[t] = answer[t]
             \/ answer'[t].code \in Unnamed
             \/ \E k \in Keys : /\ cache[<<"compile", k>>] # None
                                /\ answer'[t].code = cache[<<"compile", k>>].code
                                /\ answer'[t].about = cache[<<"compile", k>>].about
          /\ \A u \in Requests \ {t} : answer'[u] = answer[u]
          /\ UNCHANGED stored
        <3> HIDE DEF Carries
        <3> QED
            BY <1>1, CompileEffect
    <2>2. "CONFIRMED" \notin Unnamed /\ "CANDIDATE" \notin Unnamed
        BY DEF Unnamed
    <2>3. UNCHANGED <<candidates, verdicts, confirmations>>
        BY <2>1 DEF stored
    <2> QED
        BY <2>1, <2>2, <2>3
<1>2. ASSUME NEW t \in Requests, Provide(t) PROVE Compiled'
    <2>1. /\ \A k \in Keys : \/ cache'[<<"compile", k>>] = cache[<<"compile", k>>]
                             \/ cache'[<<"compile", k>>].code \in Unnamed
          /\ \/ answer'[t] = answer[t]
             \/ answer'[t].code \in Unnamed
             \/ \E k \in Keys : /\ cache[<<"compile", k>>] # None
                                /\ answer'[t].code = cache[<<"compile", k>>].code
                                /\ answer'[t].about = cache[<<"compile", k>>].about
          /\ \A u \in Requests \ {t} : answer'[u] = answer[u]
          /\ UNCHANGED stored
        <3> HIDE DEF Carries
        <3> QED
            BY <1>2, CompileEffect
    <2>2. "CONFIRMED" \notin Unnamed /\ "CANDIDATE" \notin Unnamed
        BY DEF Unnamed
    <2>3. UNCHANGED <<candidates, verdicts, confirmations>>
        BY <2>1 DEF stored
    <2> QED
        BY <2>1, <2>2, <2>3
<1>3. ASSUME NEW t \in Requests, Call(t) PROVE Compiled'
    BY <1>3 DEF Call, Goto, stored, memory, world
<1>4. ASSUME NEW t \in Requests, SaveCandidate(t) PROVE Compiled'
    BY <1>4 DEF SaveCandidate, Goto, memory, world
<1>5. ASSUME NEW t \in Requests, Read(t) PROVE Compiled'
    BY <1>5 DEF Read, Judged, Reply, Goto, stored, memory, world
<1>6. ASSUME NEW t \in Requests, Enter(t) PROVE Compiled'
    BY <1>6 DEF Enter, Reply, Goto, stored, world, Free
<1>7. ASSUME NEW t \in Requests, Look(t) PROVE Compiled'
    <2>1. job[t].op = "confirm" /\ job[t].key \in Keys /\ UNCHANGED stored
        BY <1>7 DEF Look
    <2>2. CASE Remember(t)
        <3>1. cache' = [cache EXCEPT ![<<"confirm", job[t].key>>] = answer'[t]]
            BY <2>1, <2>2 DEF Remember
        <3>2. \A q \in Keys : cache'[<<"compile", q>>] = cache[<<"compile", q>>]
            BY <2>1, <3>1
        <3> QED
            BY <2>1, <3>2 DEF stored
    <2>3. CASE cache' = cache
        BY <2>1, <2>3 DEF stored
    <2> QED
        BY <1>7, <2>2, <2>3 DEF Look
<1>8. ASSUME NEW t \in Requests, Check(t) PROVE Compiled'
    BY <1>8 DEF Check, Judged, Reply, Goto, Release, Rechecked, stored, world
<1>9. ASSUME NEW t \in Requests, SaveVerdict(t) PROVE Compiled'
    <2>1. job[t].of \in Saved'
        BY <1>9, OwnSaved
    <2>2. CASE job[t].op = "compile"
        <3>1. Reply(t, "CANDIDATE", job[t].of) /\ Remember(t)
            BY <1>9, <2>2 DEF SaveVerdict
        <3>2. answer'[t].about = job[t].of
            BY <3>1 DEF Reply
        <3>3. cache' = [cache EXCEPT ![<<"compile", job[t].key>>] = answer'[t]]
            BY <2>2, <3>1 DEF Remember
        <3>4. job[t].key \in Keys
            BY <1>9 DEF SaveVerdict
        <3>5. \A p \in {"compile", "confirm"}, q \in Keys :
                  cache'[<<p, q>>] = IF p = "compile" /\ q = job[t].key THEN answer'[t]
                                     ELSE cache[<<p, q>>]
            BY <3>3, <3>4
        <3> QED
            BY <2>1, <3>2, <3>5
    <2>3. CASE job[t].op # "compile"
        <3>1. cache' = cache
            BY <1>9, <2>3 DEF SaveVerdict
        <3> QED
            BY <2>1, <3>1
    <2> QED
        BY <2>2, <2>3
<1>10. ASSUME NEW t \in Requests, SaveAudit(t) PROVE Compiled'
    BY <1>10 DEF SaveAudit, Goto, Audited, memory, world
<1>11. ASSUME NEW t \in Requests, SaveConfirmation(t) PROVE Compiled'
    BY <1>11 DEF SaveConfirmation, Reply, Goto, Remember, Release, world
<1>12. ASSUME NEW t \in Requests, Admit(t) PROVE Compiled'
    BY <1>12 DEF Admit, Reply, stored, memory, world, Goto
<1>13. ASSUME NEW t \in Requests, Fail(t) PROVE Compiled'
    BY <1>13 DEF Fail, Reply, Goto, Release, Queries, stored
<1>14. CASE Restart
    BY <1>14 DEF Restart, stored
<1>15. CASE Tick
    BY <1>15 DEF Tick, stored, memory
<1>16. CASE UNCHANGED vars
    BY <1>16 DEF vars, stored, memory, world
<1> QED
    BY <1>1, <1>2, <1>3, <1>4, <1>5, <1>6, <1>7, <1>8, <1>9, <1>10, <1>11,
       <1>12, <1>13, <1>14, <1>15, <1>16 DEF Next, Serve

\* A candidate is stored with its verdict when it is answered.
LEMMA AnsweredStep ==
    Carries /\ Remembered /\ Kept /\ Compiled /\ AnsweredCandidatesAreStored /\ [Next]_vars
    => AnsweredCandidatesAreStored'
<1> SUFFICES ASSUME Carries, Remembered, Kept, Compiled, AnsweredCandidatesAreStored,
                    [Next]_vars
             PROVE  AnsweredCandidatesAreStored'
    OBVIOUS
<1> USE NoneAssumption, SendsAssumption
       DEF Carries, Remembered, Kept, Compiled, AnsweredCandidatesAreStored
<1>0. Saved \subseteq Saved'
    BY SavedStep
<1> USE <1>0
<1>1. ASSUME NEW t \in Requests, Compile(t) PROVE AnsweredCandidatesAreStored'
    <2>1. /\ \A k \in Keys : \/ cache'[<<"compile", k>>] = cache[<<"compile", k>>]
                             \/ cache'[<<"compile", k>>].code \in Unnamed
          /\ \/ answer'[t] = answer[t]
             \/ answer'[t].code \in Unnamed
             \/ \E k \in Keys : /\ cache[<<"compile", k>>] # None
                                /\ answer'[t].code = cache[<<"compile", k>>].code
                                /\ answer'[t].about = cache[<<"compile", k>>].about
          /\ \A u \in Requests \ {t} : answer'[u] = answer[u]
          /\ UNCHANGED stored
        <3> HIDE DEF Carries
        <3> QED
            BY <1>1, CompileEffect
    <2>2. "CONFIRMED" \notin Unnamed /\ "CANDIDATE" \notin Unnamed
        BY DEF Unnamed
    <2>3. UNCHANGED <<candidates, verdicts, confirmations>>
        BY <2>1 DEF stored
    <2>4. ASSUME answer'[t] # answer[t], answer'[t].code = "CANDIDATE"
          PROVE  answer'[t].about \in Saved
        <3>1. PICK k \in Keys : /\ cache[<<"compile", k>>] # None
                                /\ answer'[t].code = cache[<<"compile", k>>].code
                                /\ answer'[t].about = cache[<<"compile", k>>].about
            BY <2>1, <2>2, <2>4
        <3> QED
            BY <2>4, <3>1
    <2> QED
        BY <2>1, <2>3, <2>4
<1>2. ASSUME NEW t \in Requests, Provide(t) PROVE AnsweredCandidatesAreStored'
    <2>1. /\ \A k \in Keys : \/ cache'[<<"compile", k>>] = cache[<<"compile", k>>]
                             \/ cache'[<<"compile", k>>].code \in Unnamed
          /\ \/ answer'[t] = answer[t]
             \/ answer'[t].code \in Unnamed
             \/ \E k \in Keys : /\ cache[<<"compile", k>>] # None
                                /\ answer'[t].code = cache[<<"compile", k>>].code
                                /\ answer'[t].about = cache[<<"compile", k>>].about
          /\ \A u \in Requests \ {t} : answer'[u] = answer[u]
          /\ UNCHANGED stored
        <3> HIDE DEF Carries
        <3> QED
            BY <1>2, CompileEffect
    <2>2. "CONFIRMED" \notin Unnamed /\ "CANDIDATE" \notin Unnamed
        BY DEF Unnamed
    <2>3. UNCHANGED <<candidates, verdicts, confirmations>>
        BY <2>1 DEF stored
    <2>4. ASSUME answer'[t] # answer[t], answer'[t].code = "CANDIDATE"
          PROVE  answer'[t].about \in Saved
        <3>1. PICK k \in Keys : /\ cache[<<"compile", k>>] # None
                                /\ answer'[t].code = cache[<<"compile", k>>].code
                                /\ answer'[t].about = cache[<<"compile", k>>].about
            BY <2>1, <2>2, <2>4
        <3> QED
            BY <2>4, <3>1
    <2> QED
        BY <2>1, <2>3, <2>4
<1>3. ASSUME NEW t \in Requests, Call(t) PROVE AnsweredCandidatesAreStored'
    BY <1>3 DEF Call, Goto, stored, memory, world
<1>4. ASSUME NEW t \in Requests, SaveCandidate(t) PROVE AnsweredCandidatesAreStored'
    BY <1>4 DEF SaveCandidate, Goto, memory, world
<1>5. ASSUME NEW t \in Requests, Read(t) PROVE AnsweredCandidatesAreStored'
    <2>1. \/ Reply(t, "SCENARIO_NOT_FOUND", None)
          \/ answer' = answer
        BY <1>5 DEF Read
    <2>2. answer'[t] = answer[t] \/ answer'[t].code # "CANDIDATE"
        BY <2>1 DEF Reply
    <2>3. \A u \in Requests \ {t} : answer'[u] = answer[u]
        BY <2>1 DEF Reply
    <2> QED
        BY <2>2, <2>3
<1>6. ASSUME NEW t \in Requests, Enter(t) PROVE AnsweredCandidatesAreStored'
    <2>1. \/ /\ cache[<<"confirm", job[t].key>>] # None
             /\ Reply(t, cache[<<"confirm", job[t].key>>].code,
                         cache[<<"confirm", job[t].key>>].about)
          \/ answer' = answer
        BY <1>6 DEF Enter
    <2>2. job[t].key \in Keys /\ UNCHANGED stored
        BY <1>6 DEF Enter
    <2>3. \/ answer'[t] = answer[t]
          \/ /\ cache[<<"confirm", job[t].key>>] # None
             /\ answer'[t].code = cache[<<"confirm", job[t].key>>].code
             /\ answer'[t].about = cache[<<"confirm", job[t].key>>].about
        BY <2>1 DEF Reply
    <2>4. \A u \in Requests \ {t} : answer'[u] = answer[u]
        BY <2>1 DEF Reply
    <2> QED
        BY <2>2, <2>3, <2>4 DEF stored
<1>7. ASSUME NEW t \in Requests, Look(t) PROVE AnsweredCandidatesAreStored'
    BY <1>7 DEF Look, Reply, Goto, Remember, Release, stored, world
<1>8. ASSUME NEW t \in Requests, Check(t) PROVE AnsweredCandidatesAreStored'
    BY <1>8 DEF Check, Judged, Reply, Goto, Release, Rechecked, stored, world
<1>9. ASSUME NEW t \in Requests, SaveVerdict(t) PROVE AnsweredCandidatesAreStored'
    <2>1. job[t].of \in Saved'
        BY <1>9, OwnSaved
    <2>2. \/ answer' = answer
          \/ \E code, about : /\ Reply(t, code, about)
                              /\ code = "CANDIDATE" => about = job[t].of
        BY <1>9 DEF SaveVerdict
    <2>3. /\ \/ answer'[t] = answer[t]
             \/ answer'[t].code = "CANDIDATE" => answer'[t].about = job[t].of
          /\ \A u \in Requests \ {t} : answer'[u] = answer[u]
        BY <2>2 DEF Reply
    <2> QED
        BY <2>1, <2>3
<1>10. ASSUME NEW t \in Requests, SaveAudit(t) PROVE AnsweredCandidatesAreStored'
    BY <1>10 DEF SaveAudit, Goto, Audited, memory, world
<1>11. ASSUME NEW t \in Requests, SaveConfirmation(t)
      PROVE  AnsweredCandidatesAreStored'
    BY <1>11 DEF SaveConfirmation, Reply, Goto, Remember, Release, world
<1>12. ASSUME NEW t \in Requests, Admit(t) PROVE AnsweredCandidatesAreStored'
    BY <1>12 DEF Admit, Reply, stored, memory, world, Goto
<1>13. ASSUME NEW t \in Requests, Fail(t) PROVE AnsweredCandidatesAreStored'
    BY <1>13 DEF Fail, Reply, Goto, Release, Queries, stored
<1>14. CASE Restart
    BY <1>14 DEF Restart, stored
<1>15. CASE Tick
    BY <1>15 DEF Tick, stored, memory
<1>16. CASE UNCHANGED vars
    BY <1>16 DEF vars, stored, memory, world
<1> QED
    BY <1>1, <1>2, <1>3, <1>4, <1>5, <1>6, <1>7, <1>8, <1>9, <1>10, <1>11,
       <1>12, <1>13, <1>14, <1>15, <1>16 DEF Next, Serve

\* A verdict stays true until its confirmation is saved.
LEMMA CheckedStep == Carries /\ Checked /\ [Next]_vars => Checked'
<1> SUFFICES ASSUME Carries, Checked, [Next]_vars PROVE Checked'
    OBVIOUS
<1> USE NoneAssumption, SendsAssumption DEF Carries, Checked, Valid
<1>1. ASSUME NEW t \in Requests, Compile(t) PROVE Checked'
    BY <1>1 DEF Compile, Unread, Draft, Drafted, Reply, Goto, stored, world
<1>2. ASSUME NEW t \in Requests, Provide(t) PROVE Checked'
    BY <1>2 DEF Provide, Unread, Draft, Drafted, Reply, Goto, stored, world
<1>3. ASSUME NEW t \in Requests, Call(t) PROVE Checked'
    BY <1>3 DEF Call, Goto, stored, memory, world
<1>4. ASSUME NEW t \in Requests, SaveCandidate(t) PROVE Checked'
    BY <1>4 DEF SaveCandidate, Goto, memory, world
<1>5. ASSUME NEW t \in Requests, Read(t) PROVE Checked'
    BY <1>5 DEF Read, Judged, Reply, Goto, stored, memory, world
<1>6. ASSUME NEW t \in Requests, Enter(t) PROVE Checked'
    BY <1>6 DEF Enter, Reply, Goto, stored, world, Free
<1>7. ASSUME NEW t \in Requests, Look(t) PROVE Checked'
    BY <1>7 DEF Look, Reply, Goto, Remember, Release, stored, world
<1>8. ASSUME NEW t \in Requests, Check(t) PROVE Checked'
    <2>1. \/ \E code : Reply(t, code, None)
          \/ /\ Judged(t, Valid(job[t].of, time))
             /\ pc' = [pc EXCEPT ![t] = "verdict"]
        BY <1>8 DEF Check, Rechecked, Goto
    <2>2. network' = network
        BY <1>8 DEF Check
    <2>3. CASE \E code : Reply(t, code, None)
        <3>1. /\ pc'[t] = "done"
              /\ \A u \in Requests \ {t} : pc'[u] = pc[u] /\ job'[u] = job[u]
            BY <2>3 DEF Reply, Goto
        <3> QED
            BY <2>2, <3>1
    <2>4. CASE Judged(t, Valid(job[t].of, time)) /\ pc' = [pc EXCEPT ![t] = "verdict"]
        <3>1. /\ job'[t].of = job[t].of /\ job'[t].at = time
              /\ job'[t].valid = Valid(job[t].of, time)
              /\ \A u \in Requests \ {t} : job'[u] = job[u]
            BY <2>4 DEF Judged
        <3>2. /\ pc'[t] = "verdict"
              /\ \A u \in Requests \ {t} : pc'[u] = pc[u]
            BY <2>4
        <3>3. ASSUME job'[t].valid
              PROVE  Valid(job[t].of, job[t].at)'
            <4>1. /\ job[t].of.network = network
                  /\ job[t].of.known
                  /\ job[t].of.expires > time
                BY <3>1, <3>3
            <4> QED
                BY <2>2, <3>1, <4>1
        <3> QED
            BY <2>2, <3>1, <3>2, <3>3
    <2> QED
        BY <2>1, <2>3, <2>4
<1>9. ASSUME NEW t \in Requests, SaveVerdict(t) PROVE Checked'
    BY <1>9 DEF SaveVerdict, Reply, Goto, Remember, Release, world
<1>10. ASSUME NEW t \in Requests, SaveAudit(t) PROVE Checked'
    BY <1>10 DEF SaveAudit, Goto, Audited, memory, world
<1>11. ASSUME NEW t \in Requests, SaveConfirmation(t) PROVE Checked'
    BY <1>11 DEF SaveConfirmation, Reply, Goto, Remember, Release, world
<1>12. ASSUME NEW t \in Requests, Admit(t) PROVE Checked'
    BY <1>12 DEF Admit, Reply, stored, memory, world, Goto
<1>13. ASSUME NEW t \in Requests, Fail(t) PROVE Checked'
    BY <1>13 DEF Fail, Reply, Goto, Release, Queries, stored
<1>14. CASE Restart
    BY <1>14 DEF Restart, stored
<1>15. CASE Tick
    BY <1>15 DEF Tick, stored, memory
<1>16. CASE UNCHANGED vars
    BY <1>16 DEF vars, stored, memory, world
<1> QED
    BY <1>1, <1>2, <1>3, <1>4, <1>5, <1>6, <1>7, <1>8, <1>9, <1>10, <1>11,
       <1>12, <1>13, <1>14, <1>15, <1>16 DEF Next, Serve

\* The inductive invariant: what is told and remembered is stored, because
\* whoever looks and confirms is alone.
IInv ==
    /\ Carries /\ Alone /\ Remembered /\ ToldConfirmationsAreStored
    /\ Trail /\ Kept /\ Compiled /\ AnsweredCandidatesAreStored /\ Checked

LEMMA Initially == Init => IInv
<1> SUFFICES ASSUME Init PROVE IInv
    OBVIOUS
<1>1. Carries
    BY DEF Init, Carries
<1>2. Alone /\ Remembered /\ ToldConfirmationsAreStored
    BY DEF Init, Alone, Confirming, Remembered, ToldConfirmationsAreStored
<1>3. Trail /\ Kept /\ Checked
    BY DEF Init, Trail, Kept, Checked
<1>4. Compiled /\ AnsweredCandidatesAreStored
    BY DEF Init, Compiled, AnsweredCandidatesAreStored
<1> QED
    BY <1>1, <1>2, <1>3, <1>4 DEF IInv

LEMMA Inductive == Spec => []IInv
<1>1. IInv /\ [Next]_vars => IInv'
    BY CarriesStep, AloneStep, RememberedStep, ToldStep, TrailStep, KeptStep,
       CompiledStep, AnsweredStep, CheckedStep DEF IInv
<1> QED
    BY Initially, <1>1, PTL DEF Spec

\* Whoever is told of a confirmation is told of the stored one (confirm()).
THEOREM ConfirmationsTold == Spec => []ToldConfirmationsAreStored
<1>1. IInv => ToldConfirmationsAreStored
    BY DEF IInv
<1> QED
    BY Inductive, <1>1, PTL

\* A candidate that a caller of compile() got is stored with its verdict.
THEOREM CandidatesAnswered == Spec => []AnsweredCandidatesAreStored
<1>1. IInv => AnsweredCandidatesAreStored
    BY DEF IInv
<1> QED
    BY Inductive, <1>1, PTL

\* Every confirmation has its one audit event (confirm()).
THEOREM ConfirmationsAudited == Spec => []ConfirmationsAreAuditedOnce
<1>1. Trail => ConfirmationsAreAuditedOnce
    <2> SUFFICES ASSUME Trail, NEW c \in confirmations
                 PROVE  Cardinality({e \in audits : e.of = c.of}) = 1
        BY DEF ConfirmationsAreAuditedOnce
    <2>1. PICK e \in audits : e.of = c.of
        BY DEF Trail
    <2>2. {d \in audits : d.of = c.of} = {e}
        BY <2>1 DEF Trail
    <2> QED
        BY <2>2, FS_Singleton
<1>2. IInv => Trail
    BY DEF IInv
<1> QED
    BY Inductive, <1>1, <1>2, PTL

\* A confirmation is saved only while it tells the truth: a request brings a
\* new one from its own check, over the data the server still has.
THEOREM ConfirmationsValid == Spec => ConfirmedScenariosAreValid
<1> DEFINE New == \A c \in confirmations' \ confirmations : Valid(c.of, c.at)
<1>1. IInv /\ [Next]_vars => [New]_vars
    <2> SUFFICES ASSUME IInv, Next, NEW c \in confirmations' \ confirmations
                 PROVE  Valid(c.of, c.at)
        OBVIOUS
    <2>1. \A t \in Requests :
              \/ Compile(t) \/ Call(t) \/ Provide(t) \/ SaveCandidate(t)
              \/ Read(t) \/ SaveVerdict(t) \/ Enter(t) \/ Look(t) \/ Check(t)
              \/ SaveAudit(t) \/ Admit(t) \/ Fail(t)
              => confirmations' = confirmations
        BY DEF Compile, Call, Provide, SaveCandidate, Read, SaveVerdict, Enter, Look,
               Check, SaveAudit, Admit, Fail, stored
    <2>2. Restart \/ Tick => confirmations' = confirmations
        BY DEF Restart, Tick, stored
    <2>3. PICK t \in Requests : SaveConfirmation(t)
        BY <2>1, <2>2 DEF Next, Serve
    <2>4. c = [of |-> job[t].of, at |-> job[t].at]
        BY <2>3 DEF SaveConfirmation
    <2>5. Valid(job[t].of, job[t].at)
        BY <2>3 DEF IInv, Checked, SaveConfirmation
    <2>6. c.of = job[t].of /\ c.at = job[t].at
        BY <2>4
    <2> QED
        BY <2>5, <2>6
<1> QED
    BY Inductive, <1>1, PTL DEF Spec, ConfirmedScenariosAreValid
=============================================================================

-------------------------- MODULE PublisherProofs --------------------------
(* The safety of the publishing side for every set of devices, versions and   *)
(* entities: types for any producers, and the truth of the dedup cache and    *)
(* the completeness of the cleanup when polling is the only producer.         *)
EXTENDS Publisher, FiniteSetTheorems, SequenceTheorems, TLAPS

-----------------------------------------------------------------------------
(* The writes of a device *)

\* Only configuration topics start with "config", so the two kinds of topic
\* have nothing in common.
LEMMA TopicKinds ==
    /\ \A t \in ConfigTopics: t[1] = "config" /\ t \in Topics
    /\ \A d \in Devices, k \in {"small", "full"}:
          /\ <<k, d>> \in Topics
          /\ <<k, d>> \notin ConfigTopics
          /\ <<k, d>>[1] = k
    /\ \A i \in Idents, e \in Entities: <<"config", i, e>> \in ConfigTopics
  BY DEF Topics, DeviceTopics, ConfigTopics

\* PublishDevice writes well-typed payloads, and the small message first.
LEMMA WritesTyped ==
    ASSUME NEW d \in Devices, NEW v \in Versions, NEW order \in SetToSeqs(Entities)
    PROVE  /\ WritesOf(d, v, order) \in Seq(Writes)
           /\ WritesOf(d, v, order) # <<>>
           /\ Head(WritesOf(d, v, order)).topic = <<"small", d>>
<1> DEFINE small == [topic |-> <<"small", d>>, payload |-> SmallOf[v]]
           full == [topic |-> <<"full", d>>, payload |-> v]
           config(i) == [topic |-> <<"config", IdentOf[<<d, v>>], order[i]>>,
                         payload |-> "config"]
           configs == [i \in 1..Len(order) |-> config(i)]
<1>1. order \in Seq(Entities)
  <2>1. Cardinality(Entities) \in Nat
    BY DataAssumption, FS_CardinalityType
  <2> QED
    BY <2>1 DEF SetToSeqs
<1>2. small \in Writes /\ full \in Writes
  BY TopicKinds DEF Writes, PayloadsOf, Payloads, Smalls
<1>3. IdentOf[<<d, v>>] \in Idents
  BY DEF Idents
<1>4. \A i \in 1..Len(order): config(i) \in Writes
  BY <1>1, <1>3, TopicKinds DEF Writes, PayloadsOf, Payloads
<1>5. configs \in Seq(Writes)
  <2>1. Len(order) \in Nat
    BY <1>1
  <2> QED
    BY <1>4, <2>1
<1>6. WritesOf(d, v, order) = <<small, full>> \o configs
  BY DEF WritesOf
<1> HIDE DEF small, full, configs
<1>7. <<small, full>> \in Seq(Writes) /\ Len(<<small, full>>) = 2
  BY <1>2
<1>8. /\ <<small, full>> \o configs \in Seq(Writes)
      /\ Len(<<small, full>> \o configs) = 2 + Len(configs)
      /\ (<<small, full>> \o configs)[1] = small
  BY <1>5, <1>7
<1>9. small.topic = <<"small", d>>
  BY DEF small
<1> QED
  BY <1>5, <1>6, <1>8, <1>9

\* The small message carries the device's own small version, and no other write of
\* the device is a small message.
LEMMA WritesOrder ==
    ASSUME NEW d \in Devices, NEW v \in Versions, NEW order \in SetToSeqs(Entities)
    PROVE  /\ WritesOf(d, v, order) # <<>>
           /\ Head(WritesOf(d, v, order)).topic = <<"small", d>>
           /\ Head(WritesOf(d, v, order)).payload = SmallOf[v]
           /\ \A i \in 2..Len(WritesOf(d, v, order)):
                 WritesOf(d, v, order)[i].topic[1] # "small"
<1> DEFINE small == [topic |-> <<"small", d>>, payload |-> SmallOf[v]]
           full == [topic |-> <<"full", d>>, payload |-> v]
           config(i) == [topic |-> <<"config", IdentOf[<<d, v>>], order[i]>>,
                         payload |-> "config"]
           configs == [i \in 1..Len(order) |-> config(i)]
<1>1. Len(order) \in Nat
  <2>1. Cardinality(Entities) \in Nat
    BY DataAssumption, FS_CardinalityType
  <2> QED
    BY <2>1 DEF SetToSeqs
<1>2. /\ configs \in Seq({config(i): i \in 1..Len(order)}) /\ Len(configs) = Len(order)
      /\ \A i \in 1..Len(order): configs[i] = config(i)
  BY <1>1
<1>3. \A i \in 1..Len(order): configs[i].topic[1] = "config"
  BY <1>2
<1>4. WritesOf(d, v, order) = <<small, full>> \o configs
  BY DEF WritesOf
<1>5. full.topic[1] = "full" /\ small.topic = <<"small", d>> /\ small.payload = SmallOf[v]
  OBVIOUS
<1> HIDE DEF small, full, config, configs
<1>6. /\ Len(<<small, full>> \o configs) = Len(order) + 2
      /\ (<<small, full>> \o configs)[1] = small
      /\ (<<small, full>> \o configs)[2] = full
      /\ \A i \in 3..(Len(order) + 2): /\ (<<small, full>> \o configs)[i] = configs[i - 2]
                                      /\ i - 2 \in 1..Len(order)
  BY <1>1, <1>2
<1>7. \A i \in 2..(Len(order) + 2): i = 2 \/ i \in 3..(Len(order) + 2)
  BY <1>1
<1>8. \A i \in 2..(Len(order) + 2): (<<small, full>> \o configs)[i].topic[1] # "small"
  BY <1>3, <1>5, <1>6, <1>7
<1> QED
  BY <1>4, <1>5, <1>6, <1>8, WritesTyped

-----------------------------------------------------------------------------
(* Type correctness *)

\* NextWrite leaves the producer with well-typed writes.
LEMMA NextWriteTyped ==
    ASSUME TypeOK, NEW p \in Producers, todo[p] # <<>>, NextWrite(p)
    PROVE  /\ todo' \in [Producers -> Seq(Writes)]
           /\ phase' \in [Producers -> {"track", "swap", "send"}]
           /\ todo'[p] = Tail(todo[p])
           /\ phase'[p] = FirstPhase(Tail(todo[p]))
           /\ \A q \in Producers \ {p}: todo'[q] = todo[q] /\ phase'[q] = phase[q]
           /\ \A q \in Producers: phase'[q] = "track" =>
                 todo'[q] # <<>> /\ Head(todo'[q]).topic \in ConfigTopics
<1>1. todo[p] \in Seq(Writes) /\ Tail(todo[p]) \in Seq(Writes)
  BY DEF TypeOK
<1>2. FirstPhase(Tail(todo[p])) \in {"track", "swap", "send"}
  BY DEF FirstPhase
<1>3. /\ todo' \in [Producers -> Seq(Writes)]
      /\ phase' \in [Producers -> {"track", "swap", "send"}]
      /\ todo'[p] = Tail(todo[p])
      /\ phase'[p] = FirstPhase(Tail(todo[p]))
      /\ \A q \in Producers \ {p}: todo'[q] = todo[q] /\ phase'[q] = phase[q]
  BY <1>1, <1>2 DEF TypeOK, NextWrite
<1>4. phase'[p] = "track" =>
        todo'[p] # <<>> /\ Head(todo'[p]).topic \in ConfigTopics
  BY <1>3 DEF FirstPhase
<1> QED
  BY <1>3, <1>4 DEF TypeOK

\* Every variable keeps its type, whoever publishes.
THEOREM TypeCorrect == Spec => []TypeOK
<1>1. Init => TypeOK
  <2> SUFFICES ASSUME Init PROVE TypeOK
    OBVIOUS
  <2>1. todo \in [Producers -> Seq(Writes)]
    BY DEF Init
  <2> QED
    BY <2>1, BoundAssumption DEF Init, TypeOK
<1>2. ASSUME TypeOK, [Next]_vars PROVE TypeOK'
  <2> USE DEF envVars, producerVars, cacheVars
  <2>1. ASSUME NEW p \in Producers, Receive(p) PROVE TypeOK'
    <3>1. work' \in [Producers -> SUBSET (Devices \X Versions)]
      BY <1>2, <2>1 DEF Receive, TypeOK
    <3> QED
      BY <1>2, <2>1, <3>1 DEF Receive, TypeOK
  <2>2. ASSUME NEW p \in Producers, TakeDevice(p) PROVE TypeOK'
    <3>1. PICK u \in work[p], order \in SetToSeqs(Entities):
            /\ work' = [work EXCEPT ![p] = @ \ {u}]
            /\ todo' = [todo EXCEPT ![p] = WritesOf(u[1], u[2], order)]
            /\ summary' = [summary EXCEPT ![u[1]] = SmallOf[u[2]]]
      BY <2>2 DEF TakeDevice
    <3>2. u[1] \in Devices /\ u[2] \in Versions
      BY <1>2 DEF TypeOK
    <3>3. WritesOf(u[1], u[2], order) \in Seq(Writes)
      BY <3>2, WritesTyped
    <3>4. work' \in [Producers -> SUBSET (Devices \X Versions)]
      BY <1>2, <3>1 DEF TypeOK
    <3>5. todo' \in [Producers -> Seq(Writes)]
      BY <1>2, <3>1, <3>3 DEF TypeOK
    <3>6. summary' \in [Devices -> Smalls \cup {None}]
      BY <1>2, <3>1, <3>2 DEF TypeOK, Smalls
    <3>7. phase' \in [Producers -> {"track", "swap", "send"}]
      BY <1>2, <2>2 DEF TypeOK, TakeDevice
    <3>8. UNCHANGED <<envVars, cacheVars, retained, sent, stopper, toClear>>
      BY <2>2 DEF TakeDevice
    <3>9. \A q \in Producers: phase'[q] = "track" =>
            todo'[q] # <<>> /\ Head(todo'[q]).topic \in ConfigTopics
      BY <1>2, <2>2, <3>1 DEF TypeOK, TakeDevice
    <3> QED
      BY <1>2, <3>4, <3>5, <3>6, <3>7, <3>8, <3>9 DEF TypeOK
  <2>3. ASSUME NEW p \in Producers, Track(p) PROVE TypeOK'
    <3>1. Head(todo[p]).topic \in ConfigTopics
      BY <1>2, <2>3 DEF Track, TypeOK
    <3> QED
      BY <1>2, <2>3, <3>1 DEF Track, TypeOK
  <2>4. ASSUME NEW p \in Producers, Swap(p) PROVE TypeOK'
    <3>1. todo[p] # <<>> /\ Head(todo[p]) \in Writes
      BY <1>2, <2>4 DEF TypeOK, Swap
    <3>2. /\ lastHash' \in [Topics -> Payloads \cup {None}]
          /\ \A t \in Topics: lastHash'[t] \in PayloadsOf(t) \cup {None}
      BY <1>2, <2>4, <3>1 DEF TypeOK, Swap, Writes
    <3>3. /\ todo' \in [Producers -> Seq(Writes)]
          /\ phase' \in [Producers -> {"track", "swap", "send"}]
          /\ \A q \in Producers: phase'[q] = "track" =>
                todo'[q] # <<>> /\ Head(todo'[q]).topic \in ConfigTopics
      <4>1. CASE NextWrite(p)
        BY <1>2, <3>1, <4>1, NextWriteTyped
      <4>2. CASE phase' = [phase EXCEPT ![p] = "send"] /\ UNCHANGED todo
        BY <1>2, <4>2 DEF TypeOK
      <4> QED
        BY <2>4, <4>1, <4>2 DEF Swap
    <3>4. UNCHANGED <<envVars, work, discovered, summary, retained, sent, stopper, toClear>>
      BY <2>4 DEF Swap
    <3> QED
      BY <1>2, <3>2, <3>3, <3>4 DEF TypeOK
  <2>5. ASSUME NEW p \in Producers, Send(p) PROVE TypeOK'
    <3>1. todo[p] # <<>> /\ Head(todo[p]) \in Writes
      BY <1>2, <2>5 DEF TypeOK, Send
    <3>2. /\ retained' \in [Topics -> Payloads \cup {None}]
          /\ \A t \in Topics: retained'[t] \in PayloadsOf(t) \cup {None}
      BY <1>2, <2>5, <3>1 DEF TypeOK, Send, Writes
    <3>3. /\ todo' \in [Producers -> Seq(Writes)]
          /\ phase' \in [Producers -> {"track", "swap", "send"}]
          /\ \A q \in Producers: phase'[q] = "track" =>
                todo'[q] # <<>> /\ Head(todo'[q]).topic \in ConfigTopics
      BY <1>2, <2>5, <3>1, NextWriteTyped DEF Send
    <3>4. sent' \in SUBSET ConfigTopics
      BY <1>2, <2>5 DEF TypeOK, Send
    <3>5. UNCHANGED <<envVars, work, cacheVars, summary, stopper, toClear>>
      BY <2>5 DEF Send
    <3> QED
      BY <1>2, <3>2, <3>3, <3>4, <3>5 DEF TypeOK
  <2>6. CASE BeginStop \/ TakeTopics \/ Exit
    BY <1>2, <2>6 DEF BeginStop, TakeTopics, Exit, TypeOK
  <2>7. CASE ClearTopic
    <3>1. PICK t \in toClear: /\ toClear' = toClear \ {t}
                              /\ retained' = [retained EXCEPT ![t] = None]
      BY <2>7 DEF ClearTopic
    <3>2. UNCHANGED <<envVars, producerVars, cacheVars, summary, sent, stopper>>
      BY <2>7 DEF ClearTopic
    <3> QED
      BY <1>2, <3>1, <3>2 DEF TypeOK
  <2>8. CASE CloudChanges
    BY <1>2, <2>8, BoundAssumption DEF CloudChanges, TypeOK
  <2>9. CASE CrashRestart
    <3>1. todo' \in [Producers -> Seq(Writes)]
      BY <2>9 DEF CrashRestart
    <3> QED
      BY <1>2, <2>9, <3>1, BoundAssumption DEF CrashRestart, TypeOK
  <2>10. CASE UNCHANGED vars
    BY <1>2, <2>10 DEF vars, TypeOK
  <2> QED
    BY <1>2, <2>1, <2>2, <2>3, <2>4, <2>5, <2>6, <2>7, <2>8, <2>9, <2>10
       DEF Next, ProducerStep, StopStep
<1> QED
  BY <1>1, <1>2, PTL DEF Spec

-----------------------------------------------------------------------------
(* Polling as the only producer *)

\* The inductive invariant behind DedupFaithful and AnnouncedIsTracked: a hash
\* runs ahead of the broker only for the write being sent, and a configuration
\* is recorded before it is sent.
SoleInv ==
    /\ stopper \in {"clearing", "stopped"} => Idle("poll")
    /\ ~Deduplicate => \A t \in Topics: lastHash[t] = None
    /\ Deduplicate /\ Sending =>
          lastHash[Head(todo["poll"]).topic] = Head(todo["poll"]).payload
    /\ stopper \in {"running", "stopping"} =>
          \A t \in Topics: lastHash[t] # None =>
              \/ retained[t] = lastHash[t]
              \/ Sending /\ Head(todo["poll"]).topic = t
    /\ todo["poll"] # <<>> /\ phase["poll"] # "track" =>
          (Head(todo["poll"]).topic \in ConfigTopics => Head(todo["poll"]).topic \in discovered)
    /\ AnnouncedIsTracked

\* What NextWrite means for the sole producer.
LEMMA SoleNextWrite ==
    ASSUME TypeOK, Producers = {"poll"}, todo["poll"] # <<>>, NextWrite("poll")
    PROVE  /\ ~Sending'
           /\ (todo["poll"] # <<>> /\ phase["poll"] # "track" =>
                 Head(todo["poll"]).topic \notin ConfigTopics)'
<1>1. /\ todo'["poll"] = Tail(todo["poll"])
      /\ phase'["poll"] = FirstPhase(Tail(todo["poll"]))
  BY NextWriteTyped
<1> QED
  BY <1>1 DEF Sending, FirstPhase

\* SoleInv holds from the start and through every step of the poll, of the stop and
\* of a crash.
LEMMA SoleInvariant ==
    ASSUME Producers = {"poll"}
    PROVE  Spec => []SoleInv
<1>1. Init => SoleInv
  BY DEF Init, SoleInv, Idle, Sending, AnnouncedIsTracked
<1>2. ASSUME TypeOK, SoleInv, [Next]_vars PROVE SoleInv'
  <2> USE DEF envVars, producerVars, cacheVars
  <2>1. CASE Receive("poll")
    BY <1>2, <2>1 DEF Receive, SoleInv, Idle, Sending, AnnouncedIsTracked
  <2>2. CASE TakeDevice("poll")
    <3>1. PICK u \in work["poll"], order \in SetToSeqs(Entities):
            todo' = [todo EXCEPT !["poll"] = WritesOf(u[1], u[2], order)]
      BY <2>2 DEF TakeDevice
    <3>2. u[1] \in Devices /\ u[2] \in Versions
      BY <1>2 DEF TypeOK
    <3>3. todo'["poll"] # <<>> /\ Head(todo'["poll"]).topic \notin ConfigTopics
      <4>1. todo'["poll"] = WritesOf(u[1], u[2], order)
        BY <1>2, <3>1 DEF TypeOK
      <4> QED
        BY <3>2, <4>1, WritesTyped, TopicKinds
    <3>4. ~Sending /\ ~Sending'
      BY <1>2, <2>2 DEF TakeDevice, Sending, TypeOK
    <3>5. ~Idle("poll")
      BY DEF Idle
    <3> QED
      BY <1>2, <2>2, <3>3, <3>4, <3>5 DEF TakeDevice, SoleInv, AnnouncedIsTracked
  <2>3. CASE Track("poll")
    <3>1. ~Sending /\ ~Sending' /\ ~Idle("poll")
      BY <1>2, <2>3 DEF Track, Sending, TypeOK, Idle
    <3>2. stopper \in {"running", "stopping"}
      BY <1>2, <3>1 DEF SoleInv, TypeOK
    <3>3. /\ todo' = todo /\ discovered' = discovered \cup {Head(todo["poll"]).topic}
          /\ UNCHANGED <<lastHash, retained, sent, stopper, toClear>>
      BY <2>3 DEF Track
    <3> QED
      BY <1>2, <3>1, <3>2, <3>3 DEF SoleInv, AnnouncedIsTracked
  <2>4. CASE Swap("poll")
    <3> DEFINE w == Head(todo["poll"])
    <3>1. todo["poll"] # <<>> /\ w \in Writes /\ ~Sending /\ ~Idle("poll")
      BY <1>2, <2>4 DEF TypeOK, Swap, Sending, Idle
    <3>2. w.topic \in Topics
      BY <3>1 DEF Writes
    <3>3. /\ lastHash' = IF Deduplicate
                         THEN [lastHash EXCEPT ![w.topic] = w.payload] ELSE lastHash
          /\ UNCHANGED <<discovered, retained, sent, stopper, toClear>>
      BY <2>4 DEF Swap
    <3>4. stopper \in {"running", "stopping"}
      BY <1>2, <3>1 DEF SoleInv, TypeOK
    <3>5. /\ ~Deduplicate => \A t \in Topics: lastHash'[t] = None
          /\ AnnouncedIsTracked'
      BY <1>2, <3>3 DEF SoleInv, AnnouncedIsTracked
    <3>6. CASE Suppressed(w) /\ NextWrite("poll")
      <4>1. lastHash' = lastHash
        <5>1. Deduplicate /\ lastHash[w.topic] = w.payload
          BY <3>6 DEF Suppressed
        <5> QED
          BY <1>2, <3>2, <3>3, <5>1 DEF TypeOK
      <4>2. ~Sending' /\ (todo'["poll"] # <<>> /\ phase'["poll"] # "track" =>
                            Head(todo'["poll"]).topic \notin ConfigTopics)
        BY <1>2, <3>1, <3>6, SoleNextWrite
      <4> QED
        BY <1>2, <3>1, <3>3, <3>4, <3>5, <4>1, <4>2 DEF SoleInv
    <3>7. CASE ~Suppressed(w) /\ phase' = [phase EXCEPT !["poll"] = "send"] /\ UNCHANGED todo
      <4>1. Sending' /\ Head(todo'["poll"]) = w
        BY <1>2, <3>1, <3>7 DEF Sending, TypeOK
      <4>2. Deduplicate => lastHash'[w.topic] = w.payload
        BY <1>2, <3>2, <3>3 DEF TypeOK
      <4>3. \A t \in Topics: lastHash'[t] # None => retained[t] = lastHash'[t] \/ w.topic = t
        BY <1>2, <3>1, <3>3, <3>4 DEF SoleInv, TypeOK
      <4>4. w.topic \in ConfigTopics => w.topic \in discovered
        BY <1>2, <2>4, <3>1 DEF SoleInv, Swap
      <4> HIDE DEF w
      <4> QED
        BY <3>3, <3>4, <3>5, <4>1, <4>2, <4>3, <4>4 DEF SoleInv
    <3> QED
      BY <2>4, <3>6, <3>7 DEF Swap
  <2>5. CASE Send("poll")
    <3> DEFINE w == Head(todo["poll"])
    <3>1. todo["poll"] # <<>> /\ w \in Writes /\ Sending /\ ~Idle("poll")
      BY <1>2, <2>5 DEF TypeOK, Send, Sending, Idle
    <3>2. w.topic \in Topics
      BY <3>1 DEF Writes
    <3>3. /\ retained' = [retained EXCEPT ![w.topic] = w.payload]
          /\ sent' = sent \cup ({w.topic} \cap ConfigTopics)
          /\ UNCHANGED <<lastHash, discovered, stopper, toClear>>
      BY <2>5 DEF Send
    <3>4. stopper \in {"running", "stopping"}
      BY <1>2, <3>1 DEF SoleInv, TypeOK
    <3>5. ~Sending' /\ (todo'["poll"] # <<>> /\ phase'["poll"] # "track" =>
                          Head(todo'["poll"]).topic \notin ConfigTopics)
      BY <1>2, <2>5, <3>1, SoleNextWrite DEF Send
    <3>6. \A t \in Topics: lastHash'[t] # None => retained'[t] = lastHash'[t]
      <4> SUFFICES ASSUME NEW t \in Topics, lastHash[t] # None
                   PROVE  retained'[t] = lastHash[t]
        BY <3>3
      <4>1. CASE t = w.topic
        BY <1>2, <3>1, <3>2, <3>3, <4>1 DEF SoleInv, TypeOK
      <4>2. CASE t # w.topic
        BY <1>2, <3>1, <3>3, <3>4, <4>2 DEF SoleInv, TypeOK
      <4> QED
        BY <4>1, <4>2
    <3>7. sent' \subseteq discovered'
      BY <1>2, <3>1, <3>3, <3>4 DEF SoleInv, Sending, AnnouncedIsTracked
    <3> QED
      BY <1>2, <3>3, <3>4, <3>5, <3>6, <3>7 DEF SoleInv, AnnouncedIsTracked
  <2>6. CASE BeginStop
    BY <1>2, <2>6 DEF BeginStop, SoleInv, AnnouncedIsTracked, Sending, Idle
  <2>7. CASE TakeTopics
    BY <1>2, <2>7 DEF TakeTopics, SoleInv, AnnouncedIsTracked, Sending, Idle
  <2>8. CASE ClearTopic
    <3>1. PICK t \in toClear: /\ toClear' = toClear \ {t}
                              /\ retained' = [retained EXCEPT ![t] = None]
      BY <2>8 DEF ClearTopic
    <3>2. /\ stopper = "clearing" /\ t \in Topics
          /\ UNCHANGED <<envVars, producerVars, cacheVars, summary, sent, stopper>>
      BY <1>2, <2>8, TopicKinds DEF ClearTopic, TypeOK
    <3>3. AnnouncedIsTracked'
      <4> SUFFICES ASSUME NEW x \in sent
                   PROVE  x \in toClear' \/ retained'[x] = None
        BY <3>2 DEF AnnouncedIsTracked
      <4>1. x \in Topics /\ (x \in toClear \/ retained[x] = None)
        BY <1>2, <3>2, TopicKinds DEF SoleInv, AnnouncedIsTracked, TypeOK
      <4> QED
        BY <1>2, <3>1, <3>2, <4>1 DEF TypeOK
    <3> QED
      BY <1>2, <3>2, <3>3 DEF SoleInv, Sending, Idle
  <2>9. CASE Exit
    BY <1>2, <2>9 DEF Exit, SoleInv, AnnouncedIsTracked, Sending, Idle
  <2>10. CASE CloudChanges
    BY <1>2, <2>10 DEF CloudChanges, SoleInv, AnnouncedIsTracked, Sending, Idle
  <2>11. CASE CrashRestart
    BY <1>2, <2>11 DEF CrashRestart, SoleInv, AnnouncedIsTracked, Sending, Idle
  <2>12. CASE UNCHANGED vars
    BY <1>2, <2>12 DEF vars, SoleInv, AnnouncedIsTracked, Sending, Idle
  <2> QED
    BY <1>2, <2>1, <2>2, <2>3, <2>4, <2>5, <2>6, <2>7, <2>8, <2>9, <2>10, <2>11, <2>12
       DEF Next, ProducerStep, StopStep
<1> QED
  BY <1>1, <1>2, TypeCorrect, PTL DEF Spec

\* With the poll as the only producer the dedup cache never hides a difference,
\* and every configuration announced is cleared by the time the process exits.
THEOREM SolePublisherSafe ==
    ASSUME Producers = {"poll"}
    PROVE  Spec => [](DedupFaithful /\ AnnouncedIsTracked /\ CleanupComplete)
<1>1. TypeOK /\ SoleInv => DedupFaithful /\ AnnouncedIsTracked /\ CleanupComplete
  BY DEF TypeOK, SoleInv, DedupFaithful, CleanupComplete, AnnouncedIsTracked, Quiet,
     Idle, Sending
<1> QED
  BY <1>1, SoleInvariant, TypeCorrect, PTL

\* With the poll as the only producer no configuration is announced that the
\* cleanup does not know of.
THEOREM AnnouncedTopicsTracked ==
    ASSUME Producers = {"poll"}
    PROVE  Spec => []AnnouncedIsTracked
  BY SolePublisherSafe, PTL

-----------------------------------------------------------------------------
(* The refinement *)

\* With the poll as the only producer and deduplication on, the publisher implements
\* a register for each topic, for any devices, payloads and entities.
THEOREM ImplementsRegister ==
    ASSUME Producers = {"poll"}, Deduplicate = TRUE
    PROVE  Spec => RegisterRefined
<1> DEFINE W == IF Sending THEN {Head(todo["poll"]).topic} ELSE {}
           C == stopper \in {"clearing", "stopped"}
<1>1. Init => Register!Init
  BY DEF Init, Register!Init, Sending
<1>2. ASSUME TypeOK, SoleInv, [Next]_vars
      PROVE  [Register!Next]_(Register!vars)
  <2> USE DEF envVars, producerVars, cacheVars
  <2> SUFFICES ASSUME Next
               PROVE  Register!Next \/ UNCHANGED <<lastHash, W, retained, C>>
    BY <1>2 DEF vars, Register!vars, Sending
  <2>1. CASE Receive("poll")
    BY <2>1 DEF Receive, Sending
  <2>2. CASE TakeDevice("poll")
    <3>1. ~Sending /\ ~Sending'
      BY <1>2, <2>2 DEF TakeDevice, Sending, TypeOK
    <3> QED
      BY <2>2, <3>1 DEF TakeDevice
  <2>3. CASE Track("poll")
    <3>1. ~Sending /\ ~Sending'
      BY <1>2, <2>3 DEF Track, Sending, TypeOK
    <3> QED
      BY <2>3, <3>1 DEF Track
  <2>4. CASE Swap("poll")
    <3> DEFINE w == Head(todo["poll"])
    <3>1. todo["poll"] # <<>> /\ w \in Writes /\ ~Sending /\ ~Idle("poll")
      BY <1>2, <2>4 DEF TypeOK, Swap, Sending, Idle
    <3>2. w.topic \in Topics /\ w.payload \in Payloads
      BY <3>1 DEF Writes
    <3>3. ~C /\ ~C' /\ lastHash' = [lastHash EXCEPT ![w.topic] = w.payload]
          /\ retained' = retained /\ stopper' = stopper
      BY <1>2, <2>4, <3>1 DEF Swap, SoleInv
    <3>4. CASE Suppressed(w) /\ NextWrite("poll")
      <4>1. ~Sending'
        BY <1>2, <3>1, <3>4, SoleNextWrite
      <4>2. lastHash' = lastHash
        BY <1>2, <3>2, <3>3, <3>4 DEF TypeOK, Suppressed
      <4> QED
        BY <3>1, <3>3, <4>1, <4>2
    <3>5. CASE phase' = [phase EXCEPT !["poll"] = "send"] /\ UNCHANGED todo
      <4>1. Sending' /\ Head(todo'["poll"]) = w
        BY <1>2, <3>1, <3>5 DEF Sending, TypeOK
      <4>2. W = {} /\ W' = {w.topic}
        BY <3>1, <4>1
      <4>3. Register!Offer(w.topic, w.payload)
        BY <3>3, <4>2 DEF Register!Offer
      <4> QED
        BY <3>2, <4>3 DEF Register!Next
    <3> QED
      BY <2>4, <3>4, <3>5 DEF Swap
  <2>5. CASE Send("poll")
    <3> DEFINE w == Head(todo["poll"])
    <3>1. todo["poll"] # <<>> /\ w \in Writes /\ Sending /\ ~Idle("poll")
      BY <1>2, <2>5 DEF TypeOK, Send, Sending, Idle
    <3>2. w.topic \in Topics
      BY <3>1 DEF Writes
    <3>3. ~C /\ ~C' /\ lastHash' = lastHash
          /\ retained' = [retained EXCEPT ![w.topic] = w.payload]
      BY <1>2, <2>5, <3>1 DEF Send, SoleInv
    <3>4. ~Sending'
      BY <1>2, <2>5, <3>1, SoleNextWrite DEF Send
    <3>5. lastHash[w.topic] = w.payload
      BY <1>2, <3>1 DEF SoleInv
    <3>6. W = {w.topic} /\ W' = {}
      BY <3>1, <3>4
    <3>7. Register!Write(w.topic)
      BY <3>3, <3>5, <3>6 DEF Register!Write
    <3> QED
      BY <3>2, <3>7 DEF Register!Next
  <2>6. CASE BeginStop
    BY <2>6 DEF BeginStop, Sending
  <2>7. CASE TakeTopics
    <3>1. ~Sending /\ ~Sending'
      BY <2>7 DEF TakeTopics, Idle, Sending
    <3>2. Register!Close
      BY <2>7, <3>1 DEF TakeTopics, Register!Close
    <3> QED
      BY <3>2 DEF Register!Next
  <2>8. CASE ClearTopic
    <3>1. PICK t \in toClear: retained' = [retained EXCEPT ![t] = None]
      BY <2>8 DEF ClearTopic
    <3>2. t \in ConfigTopics
      BY <1>2 DEF TypeOK
    <3>3. C /\ C' /\ W' = W /\ lastHash' = lastHash
      BY <2>8 DEF ClearTopic, Sending
    <3>4. Register!Clear(t)
      BY <3>1, <3>3 DEF Register!Clear
    <3> QED
      BY <3>2, <3>4 DEF Register!Next
  <2>9. CASE Exit
    BY <2>9 DEF Exit, Sending
  <2>10. CASE CloudChanges
    BY <2>10 DEF CloudChanges, Sending
  <2>11. CASE CrashRestart
    <3>1. ~Sending' /\ ~C'
      BY <2>11 DEF CrashRestart, Sending
    <3>2. Register!Restart
      BY <2>11, <3>1 DEF CrashRestart, Register!Restart
    <3> QED
      BY <3>2 DEF Register!Next
  <2> QED
    BY <1>2, <2>1, <2>2, <2>3, <2>4, <2>5, <2>6, <2>7, <2>8, <2>9, <2>10, <2>11
       DEF Next, ProducerStep, StopStep
<1> QED
  BY <1>1, <1>2, SoleInvariant, TypeCorrect, PTL DEF Spec, RegisterRefined, Register!Spec
-----------------------------------------------------------------------------
(* The device summary *)

Small(d) == <<"small", d>>

\* The small message is the first write of a device, and the summary of a device
\* runs ahead of the broker only while the poll is at that write.
SummaryInv ==
    /\ \A i \in 2..Len(todo["poll"]): todo["poll"][i].topic[1] # "small"
    /\ \A d \in Devices:
          /\ todo["poll"] # <<>> /\ Head(todo["poll"]).topic = Small(d) =>
                Head(todo["poll"]).payload = summary[d]
          /\ summary[d] # None =>
                \/ retained[Small(d)] = summary[d]
                \/ todo["poll"] # <<>> /\ Head(todo["poll"]).topic = Small(d)

\* Past its first write the poll is at no small message.
LEMMA RestIsNotSmall ==
    ASSUME TypeOK, Producers = {"poll"}, todo["poll"] # <<>>, NextWrite("poll"),
           \A i \in 2..Len(todo["poll"]): todo["poll"][i].topic[1] # "small"
    PROVE  /\ \A i \in 2..Len(todo'["poll"]): todo'["poll"][i].topic[1] # "small"
           /\ \A d \in Devices: todo'["poll"] # <<>> => Head(todo'["poll"]).topic # Small(d)
<1> DEFINE s == todo["poll"]
<1>1. s \in Seq(Writes) /\ s # <<>> /\ todo'["poll"] = Tail(s)
  BY NextWriteTyped DEF TypeOK
<1>2. \A i \in 2..Len(s): s[i].topic[1] # "small"
  OBVIOUS
<1> HIDE DEF s
<1>3. /\ Len(Tail(s)) = Len(s) - 1
      /\ Len(s) \in Nat
      /\ \A i \in 1..Len(Tail(s)): i + 1 \in 2..Len(s) /\ Tail(s)[i] = s[i + 1]
  BY <1>1
<1>4. \A i \in 1..Len(Tail(s)): Tail(s)[i].topic[1] # "small"
  BY <1>2, <1>3
<1>5. Tail(s) \in Seq(Writes)
  BY <1>1
<1>6. Tail(s) # <<>> => 1 \in 1..Len(Tail(s)) /\ Head(Tail(s)) = Tail(s)[1]
  BY <1>5
<1>7. \A d \in Devices: Small(d)[1] = "small"
  BY DEF Small
<1>8. \A i \in 2..Len(Tail(s)): i \in 1..Len(Tail(s))
  BY <1>3
<1> QED
  BY <1>1, <1>4, <1>6, <1>7, <1>8

\* With the poll as the only producer the metrics and the retained small messages
\* agree between polls, also when a message was skipped as a duplicate.
THEOREM SoleSummaryAgrees ==
    ASSUME Producers = {"poll"}
    PROVE  Spec => []SummaryAgrees
<1>1. Init => SummaryInv
  BY DEF Init, SummaryInv
<1>2. ASSUME TypeOK, SoleInv, SummaryInv, [Next]_vars
      PROVE  SummaryInv'
  <2> USE DEF envVars, producerVars, cacheVars
  <2>1. \A d \in Devices: Small(d) \in Topics /\ Small(d) \notin ConfigTopics
    BY TopicKinds DEF Small
  <2>2. CASE TakeDevice("poll")
    <3>1. PICK u \in work["poll"], order \in SetToSeqs(Entities):
            /\ todo' = [todo EXCEPT !["poll"] = WritesOf(u[1], u[2], order)]
            /\ summary' = [summary EXCEPT ![u[1]] = SmallOf[u[2]]]
      BY <2>2 DEF TakeDevice
    <3>2. u[1] \in Devices /\ u[2] \in Versions
      BY <1>2 DEF TypeOK
    <3>3. todo["poll"] = <<>> /\ retained' = retained
      BY <2>2 DEF TakeDevice
    <3>4. todo'["poll"] = WritesOf(u[1], u[2], order)
      BY <1>2, <3>1 DEF TypeOK
    <3>5. /\ todo'["poll"] # <<>>
          /\ Head(todo'["poll"]).topic = Small(u[1])
          /\ Head(todo'["poll"]).payload = SmallOf[u[2]]
          /\ \A i \in 2..Len(todo'["poll"]): todo'["poll"][i].topic[1] # "small"
      <4>1. \A d \in Devices, v \in Versions:
              LET s == WritesOf(d, v, order) IN
                s # <<>> /\ Head(s).topic = Small(d) /\ Head(s).payload = SmallOf[v]
                /\ \A i \in 2..Len(s): s[i].topic[1] # "small"
        BY WritesOrder DEF Small
      <4> QED
        BY <3>2, <3>4, <4>1
    <3>6. \A d \in Devices: d # u[1] => Small(d) # Small(u[1]) /\ summary'[d] = summary[d]
      BY <1>2, <3>1, <3>2 DEF Small, TypeOK
    <3>7. summary'[u[1]] = SmallOf[u[2]]
      BY <1>2, <3>1, <3>2 DEF TypeOK
    <3> QED
      BY <1>2, <3>2, <3>3, <3>5, <3>6, <3>7 DEF SummaryInv
  <2>3. CASE Swap("poll")
    <3> DEFINE w == Head(todo["poll"])
    <3>1. /\ todo["poll"] # <<>> /\ ~Sending /\ ~Idle("poll")
          /\ w \in Writes /\ w.topic \in Topics /\ w.payload \in Payloads
          /\ retained' = retained /\ summary' = summary
      BY <1>2, <2>3 DEF Swap, TypeOK, Sending, Idle, Writes
    <3>2. CASE Suppressed(w) /\ NextWrite("poll")
      <4>1. lastHash[w.topic] = w.payload /\ w.payload # None
        BY <3>1, <3>2, NoneAssumption DEF Suppressed
      <4>2. retained[w.topic] = w.payload
        BY <1>2, <3>1, <4>1 DEF SoleInv, TypeOK
      <4>3. \A d \in Devices: summary[d] # None => retained[Small(d)] = summary[d]
        BY <1>2, <4>2 DEF SummaryInv
      <4> QED
        BY <1>2, <3>1, <3>2, <4>3, RestIsNotSmall DEF SummaryInv
    <3>3. CASE UNCHANGED todo
      BY <1>2, <3>1, <3>3 DEF SummaryInv
    <3> QED
      BY <2>3, <3>2, <3>3 DEF Swap
  <2>4. CASE Send("poll")
    <3> DEFINE w == Head(todo["poll"])
    <3>1. /\ todo["poll"] # <<>> /\ NextWrite("poll") /\ w.topic \in Topics
          /\ retained' = [retained EXCEPT ![w.topic] = w.payload] /\ summary' = summary
      BY <1>2, <2>4 DEF Send, TypeOK, Writes
    <3>2. \A d \in Devices: summary[d] # None => retained'[Small(d)] = summary[d]
      <4> SUFFICES ASSUME NEW d \in Devices, summary[d] # None
                   PROVE  retained'[Small(d)] = summary[d]
        OBVIOUS
      <4>1. CASE w.topic = Small(d)
        BY <1>2, <2>1, <3>1, <4>1 DEF SummaryInv, TypeOK
      <4>2. CASE w.topic # Small(d)
        BY <1>2, <2>1, <3>1, <4>2 DEF SummaryInv, TypeOK
      <4> QED
        BY <4>1, <4>2
    <3> QED
      BY <1>2, <3>1, <3>2, RestIsNotSmall DEF SummaryInv
  <2>5. CASE ClearTopic
    <3>1. PICK t \in toClear: retained' = [retained EXCEPT ![t] = None]
      BY <2>5 DEF ClearTopic
    <3>2. t \in ConfigTopics /\ todo' = todo /\ summary' = summary
      BY <1>2, <2>5 DEF ClearTopic, TypeOK
    <3>3. \A d \in Devices: retained'[Small(d)] = retained[Small(d)]
      BY <1>2, <2>1, <3>1, <3>2 DEF TypeOK
    <3> QED
      BY <1>2, <3>2, <3>3 DEF SummaryInv
  <2>6. CASE CrashRestart
    BY <2>6 DEF CrashRestart, SummaryInv
  <2>7. CASE UNCHANGED <<todo, summary, retained>>
    BY <1>2, <2>7 DEF SummaryInv
  <2> QED
    BY <1>2, <2>2, <2>3, <2>4, <2>5, <2>6, <2>7
    DEF Next, ProducerStep, StopStep, Receive, Track, BeginStop, TakeTopics, Exit,
        CloudChanges, vars
<1>3. TypeOK /\ SummaryInv => SummaryAgrees
  BY DEF SummaryInv, SummaryAgrees, Quiet, Idle, Small
<1> QED
  BY <1>1, <1>2, <1>3, SoleInvariant, TypeCorrect, PTL DEF Spec
=============================================================================

----------------------------- MODULE Publisher -----------------------------
(* The publishing side of the bridge: src/app/bridge/publisher.go as the SSE  *)
(* reader and the polling loop drive it through app.onDevices, together with  *)
(* the shutdown of src/app/app.go that clears the discovery topics.           *)
(*                                                                            *)
(* The broker's retained messages are the outside world.  A payload stands    *)
(* for its own hash.                                                          *)
EXTENDS Integers, Sequences, FiniteSets, SequencesExt

CONSTANTS
    Devices,
    Versions,       \* raw payloads the cloud may hold for a device
    SmallOf,        \* version -> the small message Build makes of it
    IdentOf,        \* device, version -> identity for Home Assistant
    Entities,       \* discovery entities of a device; empty: discovery disabled
    Producers,      \* "poll" and, in sse mode, "sse"
    Deduplicate,    \* mqtt.deduplicate
    MaxChanges,     \* bound: changes of the cloud's state
    MaxCrashes,     \* bound: crashes of the process
    None

ASSUME ProducersAssumption == "poll" \in Producers /\ Producers \subseteq {"poll", "sse"}
ASSUME DedupAssumption == Deduplicate \in BOOLEAN
ASSUME DataAssumption ==
    /\ DOMAIN SmallOf = Versions
    /\ DOMAIN IdentOf = Devices \X Versions
    /\ IsFiniteSet(Entities)
ASSUME BoundAssumption == MaxChanges \in Nat /\ MaxCrashes \in Nat

Smalls == {SmallOf[v] : v \in Versions}
Idents == {IdentOf[x] : x \in Devices \X Versions}

DeviceTopics == {"small", "full"} \X Devices
ConfigTopics == {"config"} \X Idents \X Entities
Topics == DeviceTopics \cup ConfigTopics

\* What may be published on a topic.
PayloadsOf(t) ==
    CASE t[1] = "small" -> Smalls [] t[1] = "full" -> Versions [] OTHER -> {"config"}
Payloads == Smalls \cup Versions \cup {"config"}
ASSUME NoneAssumption == None \notin Payloads
Writes == {w \in [topic: Topics, payload: Payloads]:
             w.payload \in PayloadsOf(w.topic)}

VARIABLES
    cloud,       \* device -> version the Miele cloud holds
    changes,     \* changes of the cloud so far
    crashes,     \* crashes so far
    work,        \* producer -> devices of its event or poll still to publish
    todo,        \* producer -> writes of the device it is publishing
    phase,       \* producer -> what comes next for the first of them
    lastHash,    \* p.lastHash
    discovered,  \* p.discoveredTopics
    summary,     \* metrics.devices, as written by RecordDevice
    retained,    \* topic -> retained payload at the broker
    sent,        \* config topics this process has sent (history)
    stopper,     \* running, stopping, clearing, stopped
    toClear      \* topics CleanupDiscovery has still to clear

producerVars == <<work, todo, phase>>
cacheVars == <<lastHash, discovered>>
envVars == <<cloud, changes, crashes>>
vars == <<cloud, changes, crashes, work, todo, phase, lastHash, discovered,
          summary, retained, sent, stopper, toClear>>

-----------------------------------------------------------------------------
(* Helpers *)

Alive == stopper # "stopped"

Idle(p) == work[p] = {} /\ todo[p] = <<>>
Quiet == \A p \in Producers: Idle(p)

\* The writes of PublishDevice: small, full, then one configuration per entity,
\* in the order in which the map of payloads happens to be iterated.
WritesOf_Crossed(d, v, order) ==
    << [topic |-> <<"small", d>>, payload |-> v],
       [topic |-> <<"full", d>>, payload |-> SmallOf[v]] >>
WritesOf(d, v, order) ==
    << [topic |-> <<"small", d>>, payload |-> SmallOf[v]],
       [topic |-> <<"full", d>>, payload |-> v] >>
    \o [i \in 1..Len(order) |->
          [topic |-> <<"config", IdentOf[<<d, v>>], order[i]>>, payload |-> "config"]]

\* A discovery topic is recorded before it is published.
FirstPhase_Untracked(writes) == "swap"
FirstPhase(writes) ==
    IF writes # <<>> /\ Head(writes).topic \in ConfigTopics THEN "track" ELSE "swap"

\* The producer goes on to the write after the present one.
NextWrite(p) ==
    /\ todo' = [todo EXCEPT ![p] = Tail(@)]
    /\ phase' = [phase EXCEPT ![p] = FirstPhase(Tail(todo[p]))]

\* prev, ok := p.lastHash[topic]; ok && prev == h
Suppressed_Known(w) == Deduplicate /\ lastHash[w.topic] # None
Suppressed(w) == Deduplicate /\ lastHash[w.topic] = w.payload

Init ==
    /\ cloud \in [Devices -> Versions]
    /\ changes = 0
    /\ crashes = 0
    /\ work = [p \in Producers |-> {}]
    /\ todo = [p \in Producers |-> <<>>]
    /\ phase = [p \in Producers |-> "swap"]
    /\ lastHash = [t \in Topics |-> None]
    /\ discovered = {}
    /\ summary = [d \in Devices |-> None]
    /\ retained = [t \in Topics |-> None]
    /\ sent = {}
    /\ stopper = "running"
    /\ toClear = {}

-----------------------------------------------------------------------------
(* A producer: onDevices, PublishDevice, publishDiscovery, publishWithDedup *)

\* The poll has fetched every device, or the stream has delivered an event about
\* some of them.
Receive(p) ==
    /\ stopper = "running"
    /\ Idle(p)
    /\ \E ds \in SUBSET Devices \ {{}}:
          /\ p = "poll" => ds = Devices
          /\ work' = [work EXCEPT ![p] = {<<d, cloud[d]>> : d \in ds}]
    /\ UNCHANGED <<envVars, todo, phase, cacheVars, summary, retained, sent,
                   stopper, toClear>>

\* onDevices takes the next device: RecordDevice, then PublishDevice begins.
TakeDevice(p) ==
    /\ Alive
    /\ todo[p] = <<>>
    /\ \E u \in work[p], order \in SetToSeqs(Entities):
          /\ work' = [work EXCEPT ![p] = @ \ {u}]
          /\ todo' = [todo EXCEPT ![p] = WritesOf(u[1], u[2], order)]
          /\ summary' = [summary EXCEPT ![u[1]] = SmallOf[u[2]]]
    /\ phase' = [phase EXCEPT ![p] = "swap"]
    /\ UNCHANGED <<envVars, cacheVars, retained, sent, stopper, toClear>>

\* publishDiscovery records the topic under the lock.
Track(p) ==
    /\ Alive
    /\ todo[p] # <<>>
    /\ phase[p] = "track"
    /\ discovered' = discovered \cup {Head(todo[p]).topic}
    /\ phase' = [phase EXCEPT ![p] = "swap"]
    /\ UNCHANGED <<envVars, work, todo, lastHash, summary, retained, sent,
                   stopper, toClear>>

\* The locked part of publishWithDedup: the hash is replaced, and an identical
\* payload is skipped.
Swap(p) ==
    /\ Alive
    /\ todo[p] # <<>>
    /\ phase[p] = "swap"
    /\ LET w == Head(todo[p]) IN
         /\ lastHash' = IF Deduplicate
                        THEN [lastHash EXCEPT ![w.topic] = w.payload] ELSE lastHash
         /\ \/ Suppressed(w) /\ NextWrite(p)
            \/ /\ ~Suppressed(w)
               /\ phase' = [phase EXCEPT ![p] = "send"]
               /\ UNCHANGED todo
    /\ UNCHANGED <<envVars, work, discovered, summary, retained, sent, stopper, toClear>>

\* The publish itself, after the lock was released.
Send(p) ==
    /\ Alive
    /\ todo[p] # <<>>
    /\ phase[p] = "send"
    /\ LET w == Head(todo[p]) IN
         /\ retained' = [retained EXCEPT ![w.topic] = w.payload]
         /\ sent' = sent \cup ({w.topic} \cap ConfigTopics)
    /\ NextWrite(p)
    /\ UNCHANGED <<envVars, work, cacheVars, summary, stopper, toClear>>

-----------------------------------------------------------------------------
(* Shutdown: app.stop and CleanupDiscovery *)

\* Polling and the stream are told to stop; nobody waits for the stream.
BeginStop ==
    /\ stopper = "running"
    /\ stopper' = "stopping"
    /\ UNCHANGED <<envVars, producerVars, cacheVars, summary, retained, sent, toClear>>

\* The polling loop is done: CleanupDiscovery takes the recorded topics.
TakeTopics ==
    /\ stopper = "stopping"
    /\ Idle("poll")
    /\ stopper' = "clearing"
    /\ toClear' = discovered
    /\ discovered' = {}
    /\ UNCHANGED <<envVars, producerVars, lastHash, summary, retained, sent>>

ClearTopic_Again ==
    /\ stopper = "clearing"
    /\ \E t \in toClear: retained' = [retained EXCEPT ![t] = None]
    /\ UNCHANGED <<envVars, producerVars, cacheVars, summary, sent, stopper, toClear>>
ClearTopic ==
    /\ stopper = "clearing"
    /\ \E t \in toClear:
          /\ toClear' = toClear \ {t}
          /\ retained' = [retained EXCEPT ![t] = None]
    /\ UNCHANGED <<envVars, producerVars, cacheVars, summary, sent, stopper>>

\* stop returns and the process exits, whatever its goroutines were doing.
Exit ==
    /\ stopper = "clearing"
    /\ toClear = {}
    /\ stopper' = "stopped"
    /\ UNCHANGED <<envVars, producerVars, cacheVars, summary, retained, sent, toClear>>

-----------------------------------------------------------------------------
(* The cloud, and a crash followed by a restart *)

CloudChanges ==
    /\ changes < MaxChanges
    /\ \E d \in Devices, v \in Versions:
          /\ v # cloud[d]
          /\ cloud' = [cloud EXCEPT ![d] = v]
    /\ changes' = changes + 1
    /\ UNCHANGED <<crashes, producerVars, cacheVars, summary, retained, sent,
                   stopper, toClear>>

\* Everything but the broker's retained messages is lost.
CrashRestart ==
    /\ Alive
    /\ crashes < MaxCrashes
    /\ crashes' = crashes + 1
    /\ work' = [p \in Producers |-> {}]
    /\ todo' = [p \in Producers |-> <<>>]
    /\ phase' = [p \in Producers |-> "swap"]
    /\ lastHash' = [t \in Topics |-> None]
    /\ discovered' = {}
    /\ summary' = [d \in Devices |-> None]
    /\ sent' = {}
    /\ stopper' = "running"
    /\ toClear' = {}
    /\ UNCHANGED <<cloud, changes, retained>>

-----------------------------------------------------------------------------
(* Specification *)

ProducerStep(p) == TakeDevice(p) \/ Track(p) \/ Swap(p) \/ Send(p)
StopStep == TakeTopics \/ ClearTopic \/ Exit

Next ==
    \/ \E p \in Producers: Receive(p) \/ ProducerStep(p)
    \/ BeginStop \/ StopStep
    \/ CloudChanges \/ CrashRestart

Spec == Init /\ [][Next]_vars

\* Goroutines run; the poll ticker fires again and the cloud answers it again.
\* Nothing is assumed of the stream.
Fairness ==
    /\ \A p \in Producers: WF_vars(ProducerStep(p))
    /\ WF_vars(Receive("poll"))
    /\ WF_vars(StopStep)

FairSpec == Spec /\ Fairness

-----------------------------------------------------------------------------
(* Properties *)

TypeOK ==
    /\ cloud \in [Devices -> Versions]
    /\ changes \in 0..MaxChanges
    /\ crashes \in 0..MaxCrashes
    /\ work \in [Producers -> SUBSET (Devices \X Versions)]
    /\ todo \in [Producers -> Seq(Writes)]
    /\ phase \in [Producers -> {"track", "swap", "send"}]
    /\ \A p \in Producers: phase[p] = "track" =>
          todo[p] # <<>> /\ Head(todo[p]).topic \in ConfigTopics
    /\ lastHash \in [Topics -> Payloads \cup {None}]
    /\ retained \in [Topics -> Payloads \cup {None}]
    /\ \A t \in Topics: /\ lastHash[t] \in PayloadsOf(t) \cup {None}
                        /\ retained[t] \in PayloadsOf(t) \cup {None}
    /\ discovered \in SUBSET ConfigTopics
    /\ summary \in [Devices -> Smalls \cup {None}]
    /\ sent \in SUBSET ConfigTopics
    /\ stopper \in {"running", "stopping", "clearing", "stopped"}
    /\ toClear \in SUBSET ConfigTopics

\* The dedup cache tells the truth: when nobody is publishing, what it holds for
\* a topic is what the broker holds, so that skipping an identical payload
\* never hides a difference.
DedupFaithful ==
    Quiet /\ stopper \in {"running", "stopping"} =>
        \A t \in Topics: lastHash[t] # None => retained[t] = lastHash[t]

\* The device summary in the metrics and the retained small message agree
\* whenever nobody is publishing.
SummaryAgrees ==
    Quiet => \A d \in Devices: summary[d] # None => retained[<<"small", d>>] = summary[d]

\* Every discovery configuration this process has announced is known to it until
\* the cleanup takes it over, and is cleared before the process exits.
AnnouncedIsTracked ==
    CASE stopper \in {"running", "stopping"} -> sent \subseteq discovered
      [] stopper = "clearing" -> \A t \in sent: t \in toClear \/ retained[t] = None
      [] stopper = "stopped" -> \A t \in sent: retained[t] = None

\* While the bridge runs and the cloud no longer changes, the broker's raw message
\* ends up as the cloud's, through crashes and suppressed duplicates.  (The small
\* message carries the time of day, so it is sent again within the minute.)
Converges ==
    <>[](stopper = "running") =>
        <>[](\A d \in Devices: retained[<<"full", d>>] = cloud[d])

\* A shutdown comes to its end unless the process crashes and is started again.
StopFinishes == (stopper = "stopping") ~> (stopper \in {"running", "stopped"})

\* What the README says of a shutdown: every discovery topic announced during the
\* run has been cleared.
CleanupComplete ==
    stopper = "stopped" => \A t \in sent: retained[t] = None

-----------------------------------------------------------------------------
(* What the publisher promises to subscribers *)

\* The write the poll is in the middle of.
Sending == todo["poll"] # <<>> /\ phase["poll"] = "send"

Register == INSTANCE TopicRegister WITH
    Clearable <- ConfigTopics,
    latest <- lastHash,
    writing <- IF Sending THEN {Head(todo["poll"]).topic} ELSE {},
    value <- retained,
    closed <- stopper \in {"clearing", "stopped"}

\* With deduplication and the poll as the only producer, each topic is a register:
\* comparing with the local hashes is as good as comparing with the broker, from
\* the first poll through crashes to the clearing of a shutdown.
RegisterRefined == Register!Spec
=============================================================================

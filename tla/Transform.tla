------------------------------ MODULE Transform ------------------------------
(* From the JSON data of a device to what is published about it, update after  *)
(* update: the small message and the raw one without its nulls                 *)
(* (src/app/miele/transform) and the Home Assistant configurations             *)
(* (src/app/bridge/discovery.go).                                              *)
(*                                                                            *)
(* A JSON value is a record with its kind; numbers are whole.                  *)
EXTENDS Integers, Sequences

CONSTANTS
    DeviceId,
    DiscoveryEnabled,  \* mqtt.discovery.enabled
    Keys,      \* keys of JSON objects
    MaxDepth,  \* bound: how deep JSON values are nested
    Payloads,  \* data of a device as an update may bring it
    Clocks,    \* times of day, in seconds, of a first update
    Roundings, \* seconds by which a program really takes longer than it first says
    Spans      \* seconds from one update to the next

Day == 86400  \* in seconds

Null == [json |-> "null"]
Text(s) == [json |-> "string", text |-> s]
Num(n) == [json |-> "number", number |-> n]
Arr(s) == [json |-> "array", items |-> s]
Obj(m) == [json |-> "object", fields |-> m]

\* A map has one value for a key.
Maps(S) ==
    {m \in SUBSET [key: Keys, value: S]: \A e, f \in m: e.key = f.key => e = f}

Scalar == {Null} \cup [json: {"string"}, text: STRING] \cup [json: {"number"}, number: Int]
Level[n \in Nat] ==
    IF n = 0 THEN Scalar
    ELSE Scalar \cup [json: {"array"}, items: Seq(Level[n - 1])]
                \cup [json: {"object"}, fields: Maps(Level[n - 1])]
JSON == Level[MaxDepth]

ASSUME DepthAssumption == MaxDepth \in Nat
ASSUME PayloadsAssumption == Payloads \subseteq JSON
ASSUME ClocksAssumption == Clocks \subseteq 0..(Day - 1)
ASSUME RoundingsAssumption == Roundings \subseteq -59..59
ASSUME SpansAssumption == Spans \subseteq Nat

VARIABLES
    data,    \* the data of the last update; Null: none yet
    now,     \* time of day of that update, in seconds
    small,   \* the small message, None before the first update
    full,    \* the message on <topic>/<deviceId>/full
    configs, \* the messages on the discovery topics of the device
    left,    \* the seconds the running program really takes from the last update on
    ends     \* time of day at which it really ends

vars == <<data, now, small, full, configs, left, ends>>

None == "none"

-----------------------------------------------------------------------------
(* The small message *)

\* A step of walk: nil where the key is missing or the value is not an object.
Field(v, k) ==
    IF v.json = "object" /\ \E e \in v.fields: e.key = k
    THEN (CHOOSE e \in v.fields: e.key = k).value
    ELSE Null
Walk(v, k1, k2, k3) == Field(Field(Field(v, k1), k2), k3)

ReadInt(leaf, fallback) == IF leaf.json = "number" THEN leaf.number ELSE fallback

\* One element that is not a number makes the array unusable.
ReadIntArray(leaf) ==
    IF leaf.json = "array" /\ \A i \in DOMAIN leaf.items: leaf.items[i].json = "number"
    THEN [i \in DOMAIN leaf.items |-> leaf.items[i].number]
    ELSE <<>>

\* In seconds.
ParseDuration_Decimal(a) ==
    CASE Len(a) = 2 -> (a[1] * 100 + a[2]) * 60
      [] Len(a) = 3 -> a[1] * 3600 + a[2] * 60 + a[3]
      [] OTHER -> 0
ParseDuration(a) ==
    CASE Len(a) = 2 -> (a[1] * 60 + a[2]) * 60
      [] Len(a) = 3 -> a[1] * 3600 + a[2] * 60 + a[3]
      [] OTHER -> 0

\* "%d:%02d", which keeps hours and minutes apart.
FormatMinutes(m) == [hour |-> m \div 60, minute |-> m % 60]
FormatHours(seconds) == FormatMinutes((IF seconds < 0 THEN 0 ELSE seconds) \div 60)
FormatClock(seconds) == FormatMinutes((seconds % Day) \div 60)

\* A name is told apart by the code it stands for; <<>> is UNKNOWN.
DeviceStatusOff == 1
DeviceStatusName(s) == IF s \in 0..15 THEN <<s>> ELSE <<>>
PhaseName(p) == IF p \in {0} \cup 1792..1801 THEN <<p>> ELSE <<>>

StatusRaw(v) == ReadInt(Walk(v, "state", "status", "value_raw"), -1)
RemainingTime(v) == Field(Field(v, "state"), "remainingTime")
Remaining(v) == ReadIntArray(RemainingTime(v))

\* What is left of the program: nothing when the device is off.
Duration(v) == IF StatusRaw(v) = DeviceStatusOff THEN 0 ELSE ParseDuration(Remaining(v))

Build(v, clock) ==
    LET phaseRaw == ReadInt(Walk(v, "state", "programPhase", "value_raw"), -1) IN
    [phase |-> PhaseName(phaseRaw),
     phaseId |-> phaseRaw,
     state |-> DeviceStatusName(StatusRaw(v)),
     remainingDurationMinutes |-> Duration(v) \div 60,
     remainingDuration |-> FormatHours(Duration(v)),
     timeCompleted |-> FormatClock(clock + Duration(v))]

-----------------------------------------------------------------------------
(* The raw message *)

\* What dropNulls leaves out.
Dropped_Falsy(v) == v = Null \/ v = Num(0)
Dropped(v) == v = Null

\* The elements that stay, in their order.
Kept[s \in Seq(JSON)] ==
    IF s = <<>> THEN <<>>
    ELSE IF Dropped(Head(s)) THEN Kept[Tail(s)] ELSE <<Head(s)>> \o Kept[Tail(s)]

\* One call of dropNulls; `rec` is what it calls on what is inside.
DropOnce_Shallow(rec, v) ==
    CASE v.json = "object" ->
           Obj({[key |-> e.key, value |-> rec[e.value]]:
                   e \in {e \in v.fields: ~Dropped(e.value)}})
      [] v.json = "array" -> Arr(Kept[v.items])
      [] OTHER -> v
DropOnce(rec, v) ==
    CASE v.json = "object" ->
           Obj({[key |-> e.key, value |-> rec[e.value]]:
                   e \in {e \in v.fields: ~Dropped(e.value)}})
      [] v.json = "array" ->
           Arr([i \in DOMAIN Kept[v.items] |-> rec[Kept[v.items][i]]])
      [] OTHER -> v

\* nil is left out of objects and arrays alike, however deep.
DropNulls[v \in JSON] == DropOnce(DropNulls, v)

-----------------------------------------------------------------------------
(* The discovery configurations *)

ReadText(leaf) == IF leaf.json = "string" THEN leaf.text ELSE ""

\* Without a fabrication number the device id stands in.
Identity(v) ==
    LET fab == ReadText(Walk(v, "ident", "deviceIdentLabel", "fabNumber")) IN
    [id |-> IF fab = "" THEN DeviceId ELSE fab,
     typeLocalized |-> ReadText(Walk(v, "ident", "type", "value_localized")),
     techType |-> ReadText(Walk(v, "ident", "xkmIdentLabel", "techType")),
     swVersion |-> ReadText(Walk(v, "ident", "xkmIdentLabel", "releaseVersion"))]

\* Each entity with the field of the small message its template reads.
DiscoveryEntities ==
    {<<"state", "state">>, <<"phase", "phase">>,
     <<"remaining_duration", "remainingDuration">>,
     <<"remaining_minutes", "remainingDurationMinutes">>,
     <<"time_completed", "timeCompleted">>}

\* What tells one configuration from another; the name of the device is put together
\* from its type and its id.
Configuration(ident, e) ==
    [topic |-> <<ident.id, e[1]>>,
     field |-> e[2],
     stateTopic |-> DeviceId,
     serialNumber |-> ident.id,
     typeLocalized |-> ident.typeLocalized,
     model |-> IF ident.typeLocalized # "" THEN ident.typeLocalized ELSE ident.techType,
     swVersion |-> ident.swVersion]

Discovery(v) ==
    {Configuration(Identity(v), e): e \in {e \in DiscoveryEntities: DiscoveryEnabled}}

-----------------------------------------------------------------------------
(* Updates of a device *)

\* onDevices for one device.
OnDevice(d, clock) ==
    /\ data' = d
    /\ now' = clock
    /\ small' = Build(d, clock)
    /\ full' = DropNulls[d]
    /\ configs' = Discovery(d)

Init ==
    /\ data = Null /\ now = 0
    /\ small = None /\ full = None /\ configs = {}
    /\ left = 0 /\ ends = 0

\* The device counts a program down in hours and minutes.
Counting(v) == StatusRaw(v) # DeviceStatusOff /\ Remaining(v) \in Nat \X Nat

\* The time left that it reports, in seconds.
Reported(v) == 3600 * Remaining(v)[1] + 60 * Remaining(v)[2]

\* The device knows the time left to the second and reports it in minutes.
FirstUpdate ==
    /\ data = Null
    /\ \E d \in Payloads, clock \in Clocks:
          /\ OnDevice(d, clock)
          /\ IF Counting(d)
             THEN \E r \in Roundings:
                     /\ Reported(d) + r >= 0
                     /\ left' = Reported(d) + r
                     /\ ends' = (clock + Reported(d) + r) % Day
             ELSE left' = 0 /\ ends' = clock

\* The object with another value for a key.
With(v, k, w) == Obj({e \in v.fields: e.key # k} \cup {[key |-> k, value |-> w]})

\* The data with m minutes left.
TimeLeft(v, m) ==
    With(v, "state", With(Field(v, "state"), "remainingTime",
                          Arr(<<Num(m \div 60), Num(m % 60)>>)))

\* The program goes on for s seconds and ends when it was to end; the device rounds
\* what is left to minutes, down or up as it likes.
GoesOn(s) ==
    /\ data # Null
    /\ Counting(data)
    /\ left >= s
    /\ left' = left - s
    /\ \E m \in {(left - s) \div 60, (left - s + 59) \div 60}:
          OnDevice(TimeLeft(data, m), (now + s) % Day)
    /\ UNCHANGED ends

Next == FirstUpdate \/ (\E s \in Spans: GoesOn(s))

Spec == Init /\ [][Next]_vars

-----------------------------------------------------------------------------
(* Properties *)

HasNull(v) == v.json = "array" /\ \E i \in DOMAIN v.items: v.items[i] = Null

\* All topics of a device tell the same: who computes the small message and the
\* configurations from the raw message, which comes without its nulls, gets those
\* that are published, and each entity reads a field that the small message has.
\* Only a null among the elements of remainingTime, which the small message takes
\* for no time left, would make a difference.
TopicsAgree ==
    data # Null =>
        /\ ~HasNull(RemainingTime(data)) => small = Build(full, now)
        /\ configs = Discovery(full)
        /\ \A c \in configs: c.field \in DOMAIN small

KeysOf(fields) == {e.key: e \in fields}
Solid(fields) == {e \in fields: e.value # Null}

\* One array is the other without its nulls: its elements come from all places that
\* hold no null, in their order, and from each place once.
Shrunk(rec, s, t) ==
    \E from \in [DOMAIN t -> DOMAIN s]:
        /\ \A i, j \in DOMAIN t: i < j => from[i] < from[j]
        /\ \A j \in DOMAIN s: s[j] # Null <=> \E i \in DOMAIN t: from[i] = j
        /\ \A i \in DOMAIN t: t[i] \in rec[s[from[i]]]

\* What a value is without its nulls, said without dropping any: a scalar is what it
\* was, an object lacks the keys of its nulls and no other, an array shrinks by its
\* nulls, and the same holds for everything inside.
StrippedOnce(rec, v) ==
    {w \in JSON:
        CASE v.json = "object" ->
               /\ w.json = "object"
               /\ KeysOf(w.fields) = KeysOf(Solid(v.fields))
               /\ \A e \in v.fields, f \in w.fields:
                      e.key = f.key => f.value \in rec[e.value]
          [] v.json = "array" -> w.json = "array" /\ Shrunk(rec, v.items, w.items)
          [] OTHER -> w = v}
Stripped[v \in JSON] == StrippedOnce(Stripped, v)

\* The raw message is the data without its nulls, at whatever depth, those in arrays
\* included, and nothing else is lost, added or reordered: what only looks empty (zero, "",
\* {}, []) stays.  This is what dropNulls does; the README and the
\* specification of the message promise more, see FullIsUnmodified and KeepsElements.
OnlyNullsDropped == data # Null => full \in Stripped[data]

Minutes(t) == 60 * t.hour + t.minute

\* At most one minute apart on a clock of 24 hours.
Near(m, n) == \E k \in {-1, 0, 1}: m = (n + k) % (24 * 60)

\* However often and at whatever seconds a running program is reported, and whichever
\* way its time is rounded, the time of completion that is shown does not drift: it is
\* the minute in which the program really ends or the one before or after, past full
\* hours and midnight, and the minutes left are less than a minute wrong and agree
\* with the duration shown.
CountdownHolds ==
    data # Null /\ Counting(data) =>
        /\ Near(Minutes(small.timeCompleted), ends \div 60)
        /\ 60 * small.remainingDurationMinutes - left \in -59..59
        /\ Minutes(small.remainingDuration) = small.remainingDurationMinutes

-----------------------------------------------------------------------------
(* Statements of the documents that the code does not keep *)

\* The message on <topic>/<deviceId>/full is the unmodified data.
FullIsUnmodified == data # Null => full = data

\* Only fields of objects are left out: where the data holds an array, so does the raw
\* message, with as many elements.
KeepsElements ==
    data # Null =>
        LET before == RemainingTime(data)  after == RemainingTime(full) IN
        before.json = "array" =>
            after.json = "array" /\ Len(after.items) = Len(before.items)

\* Three elements of remainingTime are seconds, minutes and hours.
SecondsComeFirst ==
    data # Null /\ Len(Remaining(data)) = 3 /\ StatusRaw(data) # DeviceStatusOff =>
        small.remainingDurationMinutes =
            LET r == Remaining(data) IN (r[1] + 60 * r[2] + 3600 * r[3]) \div 60
=============================================================================

----------------------------- MODULE SSEParser -----------------------------
(* readLoop of src/app/miele/sse/sse.go: how the lines of a stream become      *)
(* device updates, against the events the wire format defines.                 *)
EXTENDS Naturals, Sequences

CONSTANT MaxLines   \* bound: lines of a stream
ASSUME LinesAssumption == MaxLines \in Nat

\* devices and ping: an `event:` line with that name, or another one; data: a
\* `data:` line; junk: one that keeps its event from being parsed; other: a
\* comment, an id or anything else that is skipped.
Names == {"devices", "ping"}
DataKinds == {"data", "junk"}
Line == Names \cup DataKinds \cup {"blank", "other"}

VARIABLES
    lines,      \* the lines scanned so far
    eventName,  \* a name, or "" when none was given
    dataLines,  \* positions of the data lines collected
    events,     \* payloads given to OnDevices, as sets of positions of lines
    lastEvent,  \* position of the line at which c.lastEvent was last set; 0: at the start
    ended       \* Scan returned false, or stopCh was seen

vars == <<lines, eventName, dataLines, events, lastEvent, ended>>

Here == Len(lines) + 1

Init ==
    /\ lines = <<>>
    /\ eventName = ""
    /\ dataLines = {}
    /\ events = {}
    /\ lastEvent = 0
    /\ ended = FALSE

-----------------------------------------------------------------------------
(* The cases of the loop *)

Scan(line) ==
    /\ ~ended
    /\ Len(lines) < MaxLines
    /\ lines' = Append(lines, line)
    /\ UNCHANGED ended

Data ==
    /\ \E k \in DataKinds: Scan(k)
    /\ dataLines' = dataLines \cup {Here}
    /\ UNCHANGED <<eventName, events, lastEvent>>

\* The name of an event is the one given last.
Name ==
    /\ \E n \in Names: Scan(n) /\ eventName' = n
    /\ UNCHANGED <<dataLines, events, lastEvent>>

Skip ==
    /\ Scan("other")
    /\ UNCHANGED <<eventName, dataLines, events, lastEvent>>

\* The payload is handed on as a devices event.
Delivers ==
    eventName = "devices" /\ dataLines # {} /\ \A i \in dataLines: lines[i] # "junk"

\* dispatch returns early without data; name and data are reset by a defer.
Dispatch_KeepsName ==
    /\ Scan("blank")
    /\ eventName' = IF dataLines = {} THEN eventName ELSE ""
    /\ dataLines' = {}
    /\ lastEvent' = IF dataLines = {} THEN lastEvent ELSE Here
    /\ events' = IF Delivers THEN events \cup {dataLines} ELSE events
Dispatch_HearsDevicesOnly ==
    /\ Scan("blank")
    /\ eventName' = ""
    /\ dataLines' = {}
    /\ lastEvent' = IF dataLines = {} \/ eventName # "devices" THEN lastEvent ELSE Here
    /\ events' = IF Delivers THEN events \cup {dataLines} ELSE events
Dispatch ==
    /\ Scan("blank")
    /\ eventName' = ""
    /\ dataLines' = {}
    /\ lastEvent' = IF dataLines = {} THEN lastEvent ELSE Here
    /\ events' = IF Delivers THEN events \cup {dataLines} ELSE events

\* The peer's end, a closed body, a line beyond the scanner's buffer, or Stop: an
\* event that was not finished is dropped.
End ==
    /\ ~ended
    /\ ended' = TRUE
    /\ UNCHANGED <<lines, eventName, dataLines, events, lastEvent>>

Next == Data \/ Name \/ Skip \/ Dispatch \/ End

Spec == Init /\ [][Next]_vars

-----------------------------------------------------------------------------
(* The events of a stream, by positions *)

\* The lines of the event that a blank line at b ends, or would end.
Block(b) == {i \in 1..(b - 1): \A j \in i..(b - 1): lines[j] # "blank"}

PayloadAt(b) == {i \in Block(b): lines[i] \in DataKinds}

\* Its name is the last one among its lines.
Named(b, n) ==
    \E i \in Block(b): /\ lines[i] = n
                       /\ \A j \in (i + 1)..(b - 1): lines[j] \notin Names

\* Blank lines that end an event with data, and those that end a devices event.
Ends == {b \in 1..Len(lines): lines[b] = "blank" /\ PayloadAt(b) # {}}
DeviceEnds ==
    {b \in Ends: Named(b, "devices") /\ \A i \in PayloadAt(b): lines[i] # "junk"}

-----------------------------------------------------------------------------
(* Properties *)

TypeOK ==
    /\ lines \in Seq(Line)
    /\ Len(lines) <= MaxLines
    /\ eventName \in Names \cup {""}
    /\ dataLines \in SUBSET (1..Len(lines))
    /\ events \in SUBSET SUBSET (1..Len(lines))
    /\ lastEvent \in 0..Len(lines)
    /\ ended \in BOOLEAN

\* OnDevices has been given the payloads of exactly the devices events that are
\* complete and parse, whatever names, comments and empty events came between:
\* no line is lost, none goes into another event, and an event cut off by the end is
\* not handed on.
DevicesDelivered == events = {PayloadAt(b): b \in DeviceEnds}

\* What the watchdog measures from is the last complete event with data, of any
\* name: a ping keeps the stream alive, a comment does not.
HeardLast ==
    /\ lastEvent \in Ends \cup {0}
    /\ \A b \in Ends: b <= lastEvent

\* What is collected is what the open event has brought so far.
Collected ==
    /\ dataLines = PayloadAt(Here)
    /\ \A n \in Names: eventName = n <=> Named(Here, n)

IInv == TypeOK /\ DevicesDelivered /\ HeardLast /\ Collected
=============================================================================

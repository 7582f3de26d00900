--------------------------- MODULE TopicRegister ---------------------------
(* What the publisher promises to subscribers: each topic is a register at the *)
(* broker that holds the payload offered last, but for the one being written.  *)
(* An offer may go unwritten only if the broker holds that very payload.       *)
CONSTANTS
    Topics,
    Clearable,   \* the topics emptied at a shutdown
    Payloads,
    None

VARIABLES
    latest,      \* topic -> payload offered last by this process
    writing,     \* the topic being written, as a set of at most one
    value,       \* topic -> what the broker holds
    closed       \* no more offers are taken

vars == <<latest, writing, value, closed>>

Init ==
    /\ latest = [t \in Topics |-> None]
    /\ writing = {}
    /\ value = [t \in Topics |-> None]
    /\ closed = FALSE

Offer(t, p) ==
    /\ ~closed
    /\ writing = {}
    /\ latest' = [latest EXCEPT ![t] = p]
    /\ \/ writing' = {t}
       \/ writing' = {} /\ value[t] = p
    /\ UNCHANGED <<value, closed>>

Write(t) ==
    /\ ~closed
    /\ writing = {t}
    /\ writing' = {}
    /\ value' = [value EXCEPT ![t] = latest[t]]
    /\ UNCHANGED <<latest, closed>>

\* A shutdown waits for the write under way.
Close ==
    /\ writing = {}
    /\ closed' = TRUE
    /\ UNCHANGED <<latest, writing, value>>

Clear(t) ==
    /\ closed
    /\ value' = [value EXCEPT ![t] = None]
    /\ UNCHANGED <<latest, writing, closed>>

\* A new process knows nothing; the broker keeps what it has.
Restart ==
    /\ latest' = [t \in Topics |-> None]
    /\ writing' = {}
    /\ closed' = FALSE
    /\ UNCHANGED value

Next ==
    \/ \E t \in Topics, p \in Payloads: Offer(t, p)
    \/ \E t \in Topics: Write(t)
    \/ Close \/ Restart
    \/ \E t \in Clearable: Clear(t)

Spec == Init /\ [][Next]_vars
=============================================================================

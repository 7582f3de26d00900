----------------------------- MODULE EventStream -----------------------------
(* What the event client of src/app/miele/sse/sse.go is to the rest of the     *)
(* bridge: attempts that dial, come up, end and are reported on, and a body     *)
(* that others may close.  SSEClient implements it, and Gateway is built on it. *)
CONSTANT
    None         \* no status yet

VARIABLES
    stream,      \* top, dialing, up, ended, waiting, halted
    open,        \* the body of the stream that is up is not closed
    lastStatus,  \* the state last given to OnStatus
    hasToken,    \* AccessToken() would not be empty
    polled,      \* OnPollingHealthy()
    stopping     \* Stop has been called

inputs == <<hasToken, polled, stopping>>
vars == <<stream, open, lastStatus, hasToken, polled, stopping>>

Init ==
    /\ stream = "top"
    /\ open = FALSE
    /\ lastStatus = None
    /\ hasToken \in BOOLEAN
    /\ polled = FALSE
    /\ stopping = FALSE

\* An attempt begins.  Without a token there is none, but its report.
Dial ==
    /\ stream = "top" /\ ~stopping /\ hasToken
    /\ stream' = "dialing"
    /\ UNCHANGED <<open, lastStatus>>

Skip ==
    /\ stream = "top" /\ ~stopping /\ ~hasToken
    /\ stream' = "ended"
    /\ UNCHANGED <<open, lastStatus>>

\* `connected` is announced when the body opens, which may be closed by then.
ComesUp ==
    /\ stream = "dialing"
    /\ stream' = "up"
    /\ open' \in BOOLEAN
    /\ lastStatus' = "connected"

Fails ==
    /\ stream = "dialing"
    /\ stream' = "ended"
    /\ UNCHANGED <<open, lastStatus>>

Ends ==
    /\ stream = "up"
    /\ stream' = "ended"
    /\ open' = FALSE
    /\ UNCHANGED lastStatus

\* `degraded` needs a poll that delivered.
Report ==
    /\ stream = "ended"
    /\ stream' = "waiting"
    /\ \E s \in {"disconnected", "degraded"}:
          /\ s = "degraded" => polled
          /\ lastStatus' = s
    /\ UNCHANGED open

Retry ==
    /\ stream = "waiting"
    /\ stream' = "top"
    /\ UNCHANGED <<open, lastStatus>>

Halt ==
    /\ stream \in {"top", "waiting"} /\ stopping
    /\ stream' = "halted"
    /\ UNCHANGED <<open, lastStatus>>

\* The peer, Close, Stop and the watchdog close the body; a token comes and goes;
\* a success of polling and a stop are for good.
Environment ==
    /\ open' \in BOOLEAN /\ (open' => open)
    /\ hasToken' \in BOOLEAN
    /\ polled' \in BOOLEAN /\ (polled => polled')
    /\ stopping' \in BOOLEAN /\ (stopping => stopping')
    /\ UNCHANGED <<stream, lastStatus>>

Step == Dial \/ Skip \/ ComesUp \/ Fails \/ Ends \/ Report \/ Retry \/ Halt

Next == (Step /\ UNCHANGED inputs) \/ Environment

Spec == Init /\ [][Next]_vars
=============================================================================

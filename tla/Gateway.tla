------------------------------ MODULE Gateway ------------------------------
(* The bridge as one process: src/app/app.go starts the event stream, the      *)
(* polling loop and the token check, wires the stream's reports to the metrics *)
(* and to the retained <topic>/bridge/miele message, and stops it all again.   *)
(*                                                                            *)
(* The stream is an EventStream, which SSEClient implements: whether its       *)
(* streak asks for `degraded` is left open.  The token is that of a            *)
(* TokenSource, which TokenManager implements.                                 *)
EXTENDS Naturals

CONSTANTS
    Modes,       \* values of miele.mode: "sse", "polling"
    MaxTokens,   \* bound: access tokens the cloud gives out
    None         \* no message, no status

ASSUME ModesAssumption == Modes \subseteq {"sse", "polling"}
ASSUME TokensAssumption == MaxTokens \in Nat \ {0}

Status == {"connected", "disconnected", "degraded"}
State == Status \cup {"unknown"}
ASSUME NoneAssumption == None \notin State

\* An access token is the number of its grant; 0 is an empty one.
Token == 0..MaxTokens

VARIABLES
    mode,        \* cfg.Miele.Mode
    main,        \* main goroutine: boot, running, awaitPoll, awaitRefresh,
                 \* cleanup, final, leaving, exited
    stream,      \* the event client: off, top, dialing, up, ended, waiting, halted
    open,        \* the body of the stream that is up is not closed
    bearer,      \* the token the stream dialled with
    lastStatus,  \* sse.Client.lastStatus
    report,      \* OnStatus(lastStatus) under way: none, metric, swap, send
    poll,        \* polling loop: off, due, idle, fetching, publishing, done
    polled,      \* metrics.PollSuccessTotal() > 0
    refresh,     \* token check: off, idle, login, storing, done
    token,       \* Manager.CurrentAccessToken()
    granted,     \* tokens given out so far
    connection,  \* metrics: connection
    mieleLast,   \* Publisher.mieleLast
    retained     \* what the broker retains on <topic>/bridge/miele

streamVars == <<stream, open, bearer, lastStatus, report>>
loopVars == <<poll, polled, refresh, token, granted>>
shownVars == <<connection, mieleLast, retained>>
vars == <<mode, main, stream, open, bearer, lastStatus, report, poll, polled,
          refresh, token, granted, connection, mieleLast, retained>>

Alive == main \notin {"boot", "exited"}

\* ctx is cancelled, and the stream's stopCh is closed.
Stopping == main \in {"awaitPoll", "awaitRefresh", "cleanup", "final", "leaving"}

Client == INSTANCE EventStream WITH hasToken <- token # 0, stopping <- Stopping
Manager == INSTANCE TokenSource WITH phase <- refresh

\* A new process: the token is the one of the first login; the broker still holds
\* what an earlier process left, however that one ended.
Init ==
    /\ mode \in Modes
    /\ main = "boot"
    /\ stream = "off" /\ open = FALSE /\ bearer = 0
    /\ lastStatus = None /\ report = "none"
    /\ poll = "off" /\ polled = FALSE
    /\ refresh = "off" /\ token \in {0, 1} /\ granted = 1
    /\ connection = "unknown" /\ mieleLast = None
    /\ retained \in State \cup {None}

-----------------------------------------------------------------------------
(* app.start *)

Start ==
    /\ main = "boot"
    /\ main' = "running"
    /\ connection' = "unknown" /\ mieleLast' = "unknown" /\ retained' = "unknown"
    /\ stream' = IF mode = "sse" THEN "top" ELSE "off"
    /\ poll' = "due"
    /\ Manager!Start
    /\ UNCHANGED <<mode, open, bearer, lastStatus, report, polled>>

-----------------------------------------------------------------------------
(* The event stream and its reports *)

\* The goroutine of the stream is not inside OnStatus.
Free == Alive /\ report = "none"

\* emitStatus calls OnStatus on a change only.
EmitChange == report' = IF lastStatus' = lastStatus THEN "none" ELSE "metric"

\* connect reads the token anew for each attempt, and gives up on an empty one.
BeginDial_OnceRead ==
    /\ Free /\ Client!Dial
    /\ bearer' = IF bearer = 0 THEN token ELSE bearer
    /\ UNCHANGED <<mode, main, report, loopVars, shownVars>>
BeginDial ==
    /\ Free /\ Client!Dial
    /\ bearer' = token
    /\ UNCHANGED <<mode, main, report, loopVars, shownVars>>

SkipAttempt ==
    /\ Free /\ Client!Skip
    /\ UNCHANGED <<mode, main, bearer, report, loopVars, shownVars>>

\* The dial knows no timeout and is not cancelled by Stop.
DialOpens ==
    /\ Free /\ Client!ComesUp /\ EmitChange
    /\ UNCHANGED <<mode, main, bearer, loopVars, shownVars>>

DialFails ==
    /\ Free /\ Client!Fails
    /\ UNCHANGED <<mode, main, bearer, report, loopVars, shownVars>>

\* The body was closed here or ended at the peer, or the reader saw stopCh.
StreamEnds ==
    /\ Free /\ Client!Ends
    /\ UNCHANGED <<mode, main, bearer, report, loopVars, shownVars>>

\* emitPostAttemptStatus.
ReportAttempt_TrustsPolling ==
    /\ Free /\ stream = "ended"
    /\ stream' = "waiting"
    /\ lastStatus' \in {"disconnected", "degraded"}
    /\ EmitChange
    /\ UNCHANGED <<mode, main, open, bearer, loopVars, shownVars>>
ReportAttempt_Forgets ==
    /\ Free /\ stream = "ended"
    /\ stream' = "waiting"
    /\ UNCHANGED <<mode, main, open, bearer, lastStatus, report, loopVars, shownVars>>
ReportAttempt ==
    /\ Free /\ Client!Report /\ EmitChange
    /\ UNCHANGED <<mode, main, bearer, loopVars, shownVars>>

Reconnect ==
    /\ Free /\ Client!Retry
    /\ UNCHANGED <<mode, main, bearer, report, loopVars, shownVars>>

StreamHalts ==
    /\ Free /\ Client!Halt
    /\ UNCHANGED <<mode, main, bearer, report, loopVars, shownVars>>

\* OnStatus: the metric, then PublishMieleState, which swaps mieleLast under the
\* lock and publishes a change after it.
RecordStatus ==
    /\ Alive /\ report = "metric"
    /\ connection' = lastStatus
    /\ report' = "swap"
    /\ UNCHANGED <<mode, main, stream, open, bearer, lastStatus, loopVars,
                   mieleLast, retained>>

SwapState_ReadsAfterwards ==
    /\ Alive /\ report = "swap"
    /\ mieleLast' = lastStatus
    /\ report' = IF mieleLast' = lastStatus THEN "none" ELSE "send"
    /\ UNCHANGED <<mode, main, stream, open, bearer, lastStatus, loopVars,
                   connection, retained>>
SwapState ==
    /\ Alive /\ report = "swap"
    /\ mieleLast' = lastStatus
    /\ report' = IF mieleLast = lastStatus THEN "none" ELSE "send"
    /\ UNCHANGED <<mode, main, stream, open, bearer, lastStatus, loopVars,
                   connection, retained>>

SendState ==
    /\ Alive /\ report = "send"
    /\ retained' = lastStatus
    /\ report' = "none"
    /\ UNCHANGED <<mode, main, stream, open, bearer, lastStatus, loopVars,
                   connection, mieleLast>>

ReportStep == RecordStatus \/ SwapState \/ SendState

-----------------------------------------------------------------------------
(* The polling loop *)

\* The first poll comes at once, the others with the ticker, which select may
\* prefer to a stop.  Without a token the poll is skipped.
BeginPoll ==
    /\ Alive /\ poll \in {"due", "idle"}
    /\ poll' = IF token = 0 THEN "idle" ELSE "fetching"
    /\ UNCHANGED <<mode, main, streamVars, polled, refresh, token, granted, shownVars>>

FetchSucceeds ==
    /\ Alive /\ poll = "fetching"
    /\ poll' = "publishing"
    /\ polled' = TRUE
    /\ UNCHANGED <<mode, main, streamVars, refresh, token, granted, shownVars>>

\* An error, a status other than 200, the timeout, or ctx.
FetchFails ==
    /\ Alive /\ poll = "fetching"
    /\ poll' = "idle"
    /\ UNCHANGED <<mode, main, streamVars, polled, refresh, token, granted, shownVars>>

PollPublishes ==
    /\ Alive /\ poll = "publishing"
    /\ poll' = "idle"
    /\ UNCHANGED <<mode, main, streamVars, polled, refresh, token, granted, shownVars>>

PollQuits ==
    /\ Stopping /\ poll = "idle"
    /\ poll' = "done"
    /\ UNCHANGED <<mode, main, streamVars, polled, refresh, token, granted, shownVars>>

-----------------------------------------------------------------------------
(* The token check *)

\* NeedsRefresh of the token in use: the stream is closed, then the login begins.
MaybeRefresh ==
    /\ Alive /\ granted < MaxTokens
    /\ Manager!BeginLogin
    /\ open' = FALSE
    /\ UNCHANGED <<mode, main, stream, bearer, lastStatus, report, poll, polled,
                   shownVars>>

\* The new token may be dialled with before it is stored.
Renewed ==
    /\ Alive /\ Manager!Renew
    /\ UNCHANGED <<mode, main, streamVars, poll, polled, shownVars>>

\* The login fails, or finds the token good and has no refresh token.
NotRenewed ==
    /\ Alive /\ (Manager!Fail \/ Manager!Keep)
    /\ UNCHANGED <<mode, main, streamVars, poll, polled, shownVars>>

Stored ==
    /\ Alive /\ Manager!Store
    /\ UNCHANGED <<mode, main, streamVars, poll, polled, shownVars>>

RefreshQuits ==
    /\ Stopping /\ refresh = "idle"
    /\ refresh' = "done"
    /\ UNCHANGED <<mode, main, streamVars, poll, polled, token, granted, shownVars>>

-----------------------------------------------------------------------------
(* The signal and app.stop *)

\* ctx is cancelled, the stream told to stop and its body closed; then stop waits
\* for the polling loop.
Signal ==
    /\ main = "running"
    /\ main' = "awaitPoll"
    /\ open' = FALSE
    /\ UNCHANGED <<mode, stream, bearer, lastStatus, report, loopVars, shownVars>>

PollAwaited_NotAtAll ==
    /\ main = "awaitPoll"
    /\ main' = "awaitRefresh"
    /\ UNCHANGED <<mode, streamVars, loopVars, shownVars>>
PollAwaited_AndStream ==
    /\ main = "awaitPoll" /\ poll = "done" /\ stream \in {"off", "halted"}
    /\ main' = "awaitRefresh"
    /\ UNCHANGED <<mode, streamVars, loopVars, shownVars>>
PollAwaited ==
    /\ main = "awaitPoll" /\ poll = "done"
    /\ main' = "awaitRefresh"
    /\ UNCHANGED <<mode, streamVars, loopVars, shownVars>>

RefreshAwaited ==
    /\ main = "awaitRefresh" /\ refresh = "done"
    /\ main' = "cleanup"
    /\ UNCHANGED <<mode, streamVars, loopVars, shownVars>>

\* CleanupDiscovery, which Publisher models.
CleanUp ==
    /\ main = "cleanup"
    /\ main' = "final"
    /\ UNCHANGED <<mode, streamVars, loopVars, shownVars>>

\* The last publish goes past PublishMieleState.
PublishFinal ==
    /\ main = "final"
    /\ main' = "leaving"
    /\ retained' = "disconnected"
    /\ UNCHANGED <<mode, streamVars, loopVars, connection, mieleLast>>

\* main returns, whatever the stream was doing.
Exit ==
    /\ main = "leaving"
    /\ main' = "exited"
    /\ UNCHANGED <<mode, streamVars, loopVars, shownVars>>

StopStep == PollAwaited \/ RefreshAwaited \/ CleanUp \/ PublishFinal \/ Exit

-----------------------------------------------------------------------------
(* Specification *)

Next ==
    \/ Start
    \/ BeginDial \/ SkipAttempt \/ DialOpens \/ DialFails \/ StreamEnds
    \/ ReportAttempt \/ Reconnect \/ StreamHalts \/ ReportStep
    \/ BeginPoll \/ FetchSucceeds \/ FetchFails \/ PollPublishes \/ PollQuits
    \/ MaybeRefresh \/ Renewed \/ NotRenewed \/ Stored \/ RefreshQuits
    \/ Signal \/ StopStep

Spec == Init /\ [][Next]_vars

\* Goroutines run and timers fire.  The poll's and the login's requests time out,
\* the stream's do not, and an open stream need not end.  select picks at random
\* among what is ready, so a stop is not passed over for ever.
Fairness ==
    /\ WF_vars(BeginDial \/ SkipAttempt)
    /\ WF_vars(~open /\ StreamEnds)
    /\ WF_vars(ReportAttempt)
    /\ WF_vars(Reconnect \/ StreamHalts)
    /\ WF_vars(ReportStep)
    /\ WF_vars(BeginPoll)
    /\ WF_vars(FetchSucceeds \/ FetchFails)
    /\ WF_vars(PollPublishes)
    /\ SF_vars(PollQuits)
    /\ WF_vars(Renewed \/ NotRenewed)
    /\ WF_vars(Stored)
    /\ SF_vars(RefreshQuits)
    /\ WF_vars(StopStep)

FairSpec == Spec /\ Fairness

-----------------------------------------------------------------------------
(* Properties that hold *)

TypeOK ==
    /\ mode \in Modes
    /\ main \in {"boot", "running", "awaitPoll", "awaitRefresh", "cleanup",
                 "final", "leaving", "exited"}
    /\ stream \in {"off", "top", "dialing", "up", "ended", "waiting", "halted"}
    /\ open \in BOOLEAN
    /\ bearer \in Token
    /\ lastStatus \in Status \cup {None}
    /\ report \in {"none", "metric", "swap", "send"}
    /\ report # "none" => lastStatus # None
    /\ poll \in {"off", "due", "idle", "fetching", "publishing", "done"}
    /\ polled \in BOOLEAN
    /\ refresh \in {"off", "idle", "login", "storing", "done"}
    /\ token \in Token
    /\ granted \in 1..MaxTokens
    /\ refresh = "login" => granted < MaxTokens
    /\ connection \in State
    /\ mieleLast \in State \cup {None}
    /\ retained \in State \cup {None}

\* The three places that show the state of the connection agree whenever no report
\* is under way: the retained bridge/miele message, the publisher's memory of it
\* and the `connection` metric all hold what the stream reported last, or
\* `unknown` if it has reported nothing.  (main's own last publish ends this.)
BridgeAgrees ==
    main \notin {"boot", "leaving", "exited"} /\ report = "none" =>
        /\ retained = connection
        /\ retained = mieleLast
        /\ retained = (IF lastStatus = None THEN "unknown" ELSE lastStatus)

\* `degraded` on the bridge topic, which Home Assistant takes as available, means
\* that this very process has polled with success, however old the retained message.
DegradedHasPolled == main # "boot" /\ retained = "degraded" => polled

\* From the clearing of the discovery topics on no poll announces a device and no
\* login runs: stop has waited for both.
QuietAtCleanup ==
    main \in {"cleanup", "final", "leaving", "exited"} => poll = "done" /\ refresh = "done"

\* A signal ends the process, whatever poll, login or dial it falls into.
StopCompletes == (main = "awaitPoll") ~> (main = "exited")

\* A bridge whose stream stays down, while attempts go on, is not shown as connected.
OutageReachesBroker ==
    (<>[](main = "running" /\ stream # "up") /\ []<>(stream = "waiting"))
    => <>[](retained \in {"disconnected", "degraded"})

\* A stream dialled while the login was still running keeps the old token, but
\* once tokens no longer change and streams go on ending, the new one takes over.
RenewedTokenTakesOver ==
    \A t \in 1..MaxTokens:
        (<>[](token = t) /\ []<>(stream = "waiting"))
        => <>[](stream = "up" => bearer = t)

-----------------------------------------------------------------------------
(* The inductive invariant of the safety properties *)

Current == IF lastStatus = None THEN "unknown" ELSE lastStatus

\* A report brings the new state to the metric, to mieleLast and to the broker, in
\* this order; what it has not reached yet still agrees.
Reporting ==
    main \notin {"boot", "leaving", "exited"} =>
        /\ report = "none" => connection = Current
        /\ report = "metric" => connection = mieleLast
        /\ report \in {"swap", "send"} => connection = lastStatus
        /\ report = "send" => mieleLast = lastStatus
        /\ report # "send" => retained = mieleLast
        /\ report = "none" => mieleLast = Current

BootState == main = "boot" => stream = "off" /\ report = "none" /\ lastStatus = None

DegradedReported == lastStatus = "degraded" => polled

\* stop goes on only when the loop it waits for is done, and that loop stays done.
Awaited ==
    /\ main \in {"awaitRefresh", "cleanup", "final", "leaving", "exited"} => poll = "done"
    /\ main \in {"cleanup", "final", "leaving", "exited"} => refresh = "done"

IInv ==
    /\ TypeOK /\ Reporting /\ BootState
    /\ DegradedReported /\ DegradedHasPolled /\ Awaited

-----------------------------------------------------------------------------
(* Statements of the documents and comments that the code does not keep *)

\* The bridge specification: `connected` is published when Miele becomes available,
\* which without a stream is the first successful poll.
PollMakesAvailable ==
    (mode = "polling" /\ polled /\ main = "running")
        ~> (retained = "connected" \/ main # "running")

\* The comment in stop: the process leaves `disconnected` behind.
FinalDisconnected == main = "exited" => retained = "disconnected"
=============================================================================

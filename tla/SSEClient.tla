----------------------------- MODULE SSEClient -----------------------------
(* The reconnecting event-stream client of src/app/miele/sse/sse.go: the loop *)
(* goroutine, the watchdog goroutine of each connection, the callers of Stop  *)
(* and Close, and the server at the other end of the stream.                  *)
(*                                                                            *)
(* One action is one stretch of the code in which only one goroutine's effect *)
(* can be seen by the others: it ends at a blocking call, at a callback or at *)
(* the release of the client's mutex.                                         *)
EXTENDS Backoff

CONSTANTS
    FailureThreshold,   \* Options.FailureThreshold after Start's defaults
    BaseDelay,          \* Options.BaseReconnectDelay after Start's defaults
    MaxDelay,           \* Options.MaxReconnectDelay after Start's defaults
    StepTable,          \* Client.backoffTable
    WatchdogEnabled,    \* Options.WatchdogTimeout > 0
    StreakCap,          \* bound: the streak is counted up to this number
    MaxPending,         \* bound: events sent by the server and not yet read
    MaxStragglers       \* bound: watchdogs that outlive their connection

ASSUME ThresholdAssumption == FailureThreshold \in Nat \ {0}
ASSUME DelayAssumption == /\ BaseDelay \in Nat \ {0}
                          /\ MaxDelay \in Nat \ {0}
                          /\ BaseDelay <= MaxDelay
ASSUME TableAssumption == IsBackoffTable(StepTable, BaseDelay, MaxDelay)
ASSUME WatchdogAssumption == WatchdogEnabled \in BOOLEAN
\* Beyond the cap the delay no longer changes, so nothing more can be told apart.
ASSUME CapAssumption == /\ StreakCap \in Nat
                        /\ StreakCap >= FailureThreshold + Len(StepTable)
ASSUME BoundAssumption == /\ MaxPending \in Nat \ {0}
                          /\ MaxStragglers \in Nat

\* devices: a `devices` event that parses; other: any other event with data, or
\* a `devices` event that does not parse; comment: lines that dispatch nothing.
Kind == {"devices", "other", "comment"}
Status == {"connected", "disconnected", "degraded"}

VARIABLES
    pc,          \* where the loop goroutine is
    stopper,     \* Stop(): idle, closing (stopCh closed, connection not yet), done
    hasToken,    \* what Options.AccessToken() would return: a token or ""
    registered,  \* c.resp # nil
    body,        \* the newest response body: open, eof (ended by the peer), closed
    pending,     \* what the server sent on it and the reader has not consumed
    silent,      \* time.Since(c.lastEvent) > WatchdogTimeout
    watchdog,    \* this connection's watchdog: none, waiting, tripped
    stragglers,  \* watchdogs of earlier connections that tripped and have not yet closed
    dispatched,  \* c.dispatchedThisConnection
    failures,    \* c.consecutiveFailures
    lastStatus,  \* c.lastStatus, the last state given to OnStatus
    delay,       \* what selectBackoffDelay returned last
    pollHealthy, \* Options.OnPollingHealthy()
    metrics      \* sse_consecutive_failures and sse_next_retry_after (0: empty)

loopVars == <<dispatched, failures, lastStatus, delay, metrics>>
connVars == <<registered, body, pending, silent, watchdog, stragglers>>
envVars == <<hasToken, pollHealthy>>
vars == <<pc, stopper, hasToken, registered, body, pending, silent, watchdog,
          stragglers, dispatched, failures, lastStatus, delay, pollHealthy, metrics>>

stopped == stopper # "idle"

-----------------------------------------------------------------------------
(* Helpers *)

\* selectBackoffDelay, and the copy of its rule kept in estimateNextRetry.
SelectDelay_Wraps(streak) ==
    IF streak < FailureThreshold THEN BaseDelay
    ELSE StepTable[((streak - FailureThreshold) % Len(StepTable)) + 1]
SelectDelay(streak) == DelayAfter(StepTable, BaseDelay, FailureThreshold, streak)

EstimateNextRetry_Late(streak) ==
    DelayAfter(StepTable, BaseDelay, FailureThreshold + 1, streak)
EstimateNextRetry(streak) ==
    DelayAfter(StepTable, BaseDelay, FailureThreshold, streak)

NextStreak(streak) == IF streak < StreakCap THEN streak + 1 ELSE streak

\* The streak once the attempt is accounted for: only an attempt without a
\* dispatch is a failure.
StreakAfterAttempt == IF dispatched THEN failures ELSE NextStreak(failures)

\* What emitPostAttemptStatus emits.
PostAttemptStatus_IgnoresPolling ==
    IF failures >= FailureThreshold THEN "degraded" ELSE "disconnected"
PostAttemptStatus_OneLate ==
    IF failures > FailureThreshold /\ pollHealthy THEN "degraded" ELSE "disconnected"
PostAttemptStatus_OnlyFailures ==
    IF failures = 0 THEN lastStatus ELSE PostAttemptStatus_IgnoresPolling
PostAttemptStatus ==
    IF failures >= FailureThreshold /\ pollHealthy THEN "degraded" ELSE "disconnected"

\* closeConn: closes the body the client has registered, if any, and forgets it.
CloseConn_Forgets ==
    /\ body' = body
    /\ registered' = FALSE
CloseConn ==
    /\ body' = IF registered THEN "closed" ELSE body
    /\ registered' = FALSE

\* The ticker is stopped: a watchdog waiting for it never wakes again, one that
\* has already decided to close goes on.
ParkWatchdog == IF watchdog = "waiting" THEN "none" ELSE watchdog

\* emitStatus: the callback only sees changes, so the last state is all there is.
EmitStatus(s) == lastStatus' = s

Init ==
    /\ pc = "top"
    /\ stopper = "idle"
    /\ hasToken \in BOOLEAN
    /\ registered = FALSE
    /\ body = "closed"
    /\ pending = <<>>
    /\ silent = FALSE
    /\ watchdog = "none"
    /\ stragglers = 0
    /\ dispatched = FALSE
    /\ failures = 0
    /\ lastStatus = "none"
    /\ delay = 0
    /\ pollHealthy = FALSE
    /\ metrics = [failures |-> 0, nextRetry |-> 0]

-----------------------------------------------------------------------------
(* The loop goroutine: loop, connect, readLoop *)

\* The stopCh check at the head of the loop.
HaltAtTop ==
    /\ pc = "top"
    /\ stopped
    /\ pc' = "halted"
    /\ UNCHANGED <<stopper, connVars, loopVars, envVars>>

\* connect returns at once without a token, before it resets `dispatched`.
SkipAttempt ==
    /\ pc = "top"
    /\ ~stopped
    /\ ~hasToken
    /\ pc' = "account"
    /\ UNCHANGED <<stopper, connVars, loopVars, envVars>>

\* connect up to the blocking Do.
BeginDial_KeepsDispatched ==
    /\ pc = "top"
    /\ ~stopped
    /\ hasToken
    /\ pc' = "dialing"
    /\ UNCHANGED <<stopper, connVars, loopVars, envVars>>
BeginDial_AfterStop ==
    /\ pc = "top"
    /\ hasToken
    /\ pc' = "dialing"
    /\ dispatched' = FALSE
    /\ UNCHANGED <<stopper, connVars, failures, lastStatus, delay, metrics, envVars>>
BeginDial ==
    /\ pc = "top"
    /\ ~stopped
    /\ hasToken
    /\ pc' = "dialing"
    /\ dispatched' = FALSE
    /\ UNCHANGED <<stopper, connVars, failures, lastStatus, delay, metrics, envVars>>

\* Do fails, or answers with a status other than 200 (its body is closed at once).
DialFails ==
    /\ pc = "dialing"
    /\ pc' = "account"
    /\ UNCHANGED <<stopper, connVars, loopVars, envVars>>

\* Do answers 200 and the response is registered.
DialOpens ==
    /\ pc = "dialing"
    /\ pc' = "opened"
    /\ registered' = TRUE
    /\ body' = "open"
    /\ pending' = <<>>
    /\ silent' = FALSE
    /\ UNCHANGED <<stopper, watchdog, stragglers, loopVars, envVars>>

\* startWatchdog, then `connected` is announced before anything was read.
AnnounceOpen ==
    /\ pc = "opened"
    /\ pc' = "reading"
    /\ watchdog' = IF WatchdogEnabled THEN "waiting" ELSE "none"
    /\ EmitStatus("connected")
    /\ UNCHANGED <<stopper, registered, body, pending, silent, stragglers,
                   dispatched, failures, delay, metrics, envVars>>

\* The next event is scanned.  After Stop the reader leaves instead.  Any event
\* with data counts for the watchdog, only a parsed `devices` event is dispatched.
ReadEvent ==
    /\ pc = "reading"
    /\ pending # <<>>
    /\ pending' = Tail(pending)
    /\ pc' = IF stopped THEN "closing"
             ELSE IF Head(pending) = "devices" THEN "dispatching" ELSE "reading"
    /\ silent' = (silent /\ (stopped \/ Head(pending) = "comment"))
    /\ UNCHANGED <<stopper, registered, body, watchdog, stragglers, loopVars, envVars>>

\* Scan returns false: the peer's end was reached, or the body was closed under
\* the reader, which may lose what was not yet buffered.
BodyEnds_MissesClose ==
    /\ pc = "reading"
    /\ body = "eof"
    /\ pending = <<>>
    /\ pc' = "closing"
    /\ UNCHANGED <<stopper, connVars, loopVars, envVars>>
BodyEnds ==
    /\ pc = "reading"
    /\ \/ body = "eof" /\ pending = <<>>
       \/ body = "closed"
    /\ pc' = "closing"
    /\ pending' = <<>>
    /\ UNCHANGED <<stopper, registered, body, silent, watchdog, stragglers,
                   loopVars, envVars>>

\* OnEvent and OnDevices have returned: recordSuccess, then `connected`.
FinishDispatch ==
    /\ pc = "dispatching"
    /\ pc' = "reading"
    /\ dispatched' = TRUE
    /\ failures' = 0
    /\ metrics' = IF failures > 0 THEN [failures |-> 0, nextRetry |-> 0] ELSE metrics
    /\ EmitStatus("connected")
    /\ UNCHANGED <<stopper, connVars, delay, envVars>>

\* The end of connect: the body is closed and the ticker stopped; c.resp stays.
CloseBody_KeepsBody ==
    /\ pc = "closing"
    /\ watchdog # "tripped"
    /\ pc' = "account"
    /\ watchdog' = "none"
    /\ UNCHANGED <<stopper, registered, body, pending, silent, stragglers, loopVars, envVars>>
CloseBody ==
    /\ pc = "closing"
    /\ watchdog = "tripped" => stragglers < MaxStragglers
    /\ pc' = "account"
    /\ body' = "closed"
    /\ pending' = <<>>
    /\ watchdog' = "none"
    /\ stragglers' = IF watchdog = "tripped" THEN stragglers + 1 ELSE stragglers
    /\ UNCHANGED <<stopper, registered, silent, loopVars, envVars>>

\* recordFailure unless something was dispatched, then selectBackoffDelay.
Account ==
    /\ pc = "account"
    /\ pc' = "report"
    /\ failures' = StreakAfterAttempt
    /\ metrics' = IF dispatched THEN metrics
                  ELSE [failures |-> StreakAfterAttempt,
                        nextRetry |-> EstimateNextRetry(StreakAfterAttempt)]
    /\ delay' = SelectDelay(StreakAfterAttempt)
    /\ UNCHANGED <<stopper, connVars, dispatched, lastStatus, envVars>>

\* emitPostAttemptStatus.
Report ==
    /\ pc = "report"
    /\ pc' = "waiting"
    /\ EmitStatus(PostAttemptStatus)
    /\ UNCHANGED <<stopper, connVars, dispatched, failures, delay, metrics, envVars>>

\* The select at the foot of the loop: the timer or stopCh.
TimerFires ==
    /\ pc = "waiting"
    /\ pc' = "top"
    /\ UNCHANGED <<stopper, connVars, loopVars, envVars>>

HaltWaiting ==
    /\ pc = "waiting"
    /\ stopped
    /\ pc' = "halted"
    /\ UNCHANGED <<stopper, connVars, loopVars, envVars>>

\* Everything the loop goroutine does by itself; the answer to Do is the peer's.
LoopStep ==
    \/ HaltAtTop \/ SkipAttempt \/ BeginDial
    \/ AnnounceOpen \/ ReadEvent \/ BodyEnds \/ FinishDispatch \/ CloseBody
    \/ Account \/ Report \/ TimerFires \/ HaltWaiting

-----------------------------------------------------------------------------
(* The watchdog goroutines *)

\* A tick finds the stream silent for too long; the lock is released again
\* before the connection is closed.
WatchdogTrips ==
    /\ watchdog = "waiting"
    /\ silent
    /\ watchdog' = "tripped"
    /\ UNCHANGED <<pc, stopper, registered, body, pending, silent, stragglers,
                   loopVars, envVars>>

WatchdogCloses ==
    /\ watchdog = "tripped"
    /\ watchdog' = "none"
    /\ CloseConn
    /\ UNCHANGED <<pc, stopper, pending, silent, stragglers, loopVars, envVars>>

\* A watchdog that tripped on an earlier connection closes whatever is
\* registered now.
StragglerCloses ==
    /\ stragglers > 0
    /\ stragglers' = stragglers - 1
    /\ CloseConn
    /\ UNCHANGED <<pc, stopper, pending, silent, watchdog, loopVars, envVars>>

\* The goroutine sees stopCh.
WatchdogExits ==
    /\ watchdog = "waiting"
    /\ stopped
    /\ watchdog' = "none"
    /\ UNCHANGED <<pc, stopper, registered, body, pending, silent, stragglers,
                   loopVars, envVars>>

WatchdogStep == WatchdogTrips \/ WatchdogCloses \/ StragglerCloses \/ WatchdogExits

-----------------------------------------------------------------------------
(* The callers of Stop and Close *)

StopBegins ==
    /\ stopper = "idle"
    /\ stopper' = "closing"
    /\ UNCHANGED <<pc, connVars, loopVars, envVars>>

StopCloses_KeepsConn ==
    /\ stopper = "closing"
    /\ stopper' = "done"
    /\ watchdog' = ParkWatchdog
    /\ UNCHANGED <<pc, registered, body, pending, silent, stragglers, loopVars, envVars>>
StopCloses ==
    /\ stopper = "closing"
    /\ stopper' = "done"
    /\ CloseConn
    /\ watchdog' = ParkWatchdog
    /\ UNCHANGED <<pc, pending, silent, stragglers, loopVars, envVars>>

Close ==
    /\ registered
    /\ CloseConn
    /\ UNCHANGED <<pc, stopper, pending, silent, watchdog, stragglers, loopVars, envVars>>

-----------------------------------------------------------------------------
(* The server, the clock and what the callbacks read *)

ServerSends ==
    /\ body = "open"
    /\ Len(pending) < MaxPending
    /\ \E k \in Kind: pending' = Append(pending, k)
    /\ UNCHANGED <<pc, stopper, registered, body, silent, watchdog, stragglers,
                   loopVars, envVars>>

\* The stream ends at the peer or in the network, which may lose its tail.
ServerEnds ==
    /\ body = "open"
    /\ body' = "eof"
    /\ \E n \in 0..Len(pending): pending' = SubSeq(pending, 1, n)
    /\ UNCHANGED <<pc, stopper, registered, silent, watchdog, stragglers,
                   loopVars, envVars>>

TimePasses ==
    /\ body # "closed" \/ watchdog # "none"
    /\ ~silent
    /\ silent' = TRUE
    /\ UNCHANGED <<pc, stopper, registered, body, pending, watchdog, stragglers,
                   loopVars, envVars>>

\* The token source has, or has lost, a non-empty access token.
TokenChanges ==
    /\ hasToken' = ~hasToken
    /\ UNCHANGED <<pc, stopper, connVars, loopVars, pollHealthy>>

\* The first successful poll; app.go never takes it back.
PollSucceeds ==
    /\ ~pollHealthy
    /\ pollHealthy' = TRUE
    /\ UNCHANGED <<pc, stopper, connVars, loopVars, hasToken>>

-----------------------------------------------------------------------------
(* Specification *)

Next ==
    \/ LoopStep
    \/ DialFails \/ DialOpens
    \/ WatchdogStep
    \/ StopBegins \/ StopCloses \/ Close
    \/ ServerSends \/ ServerEnds \/ TimePasses \/ TokenChanges \/ PollSucceeds

Spec == Init /\ [][Next]_vars

\* The Go scheduler runs every goroutine that can run; a ticker keeps ticking, a
\* timer fires, Stop finishes.  Nothing is assumed of the server: Do may hang
\* (the client has no timeout) and an open stream may stay open and empty.
Fairness ==
    /\ WF_vars(LoopStep)
    /\ WF_vars(WatchdogTrips)
    /\ WF_vars(WatchdogCloses)
    /\ WF_vars(StragglerCloses)
    /\ WF_vars(WatchdogExits)
    /\ WF_vars(StopCloses)

FairSpec == Spec /\ Fairness

-----------------------------------------------------------------------------
(* Properties that hold *)

TypeOK ==
    /\ pc \in {"top", "dialing", "opened", "reading", "dispatching", "closing",
               "account", "report", "waiting", "halted"}
    /\ stopper \in {"idle", "closing", "done"}
    /\ hasToken \in BOOLEAN
    /\ registered \in BOOLEAN
    /\ body \in {"open", "eof", "closed"}
    /\ pending \in Seq(Kind)
    /\ Len(pending) <= MaxPending
    /\ silent \in BOOLEAN
    /\ watchdog \in {"none", "waiting", "tripped"}
    /\ stragglers \in 0..MaxStragglers
    /\ dispatched \in BOOLEAN
    /\ failures \in 0..StreakCap
    /\ lastStatus \in Status \cup {"none"}
    /\ delay \in {0} \cup (BaseDelay..MaxDelay)
    /\ pollHealthy \in BOOLEAN
    /\ metrics \in [failures: 0..StreakCap, nextRetry: {0} \cup (BaseDelay..MaxDelay)]

\* `degraded` is only ever on display while the streak has reached the threshold
\* and polling has delivered, whatever happened since it was announced.
DegradedJustified ==
    lastStatus = "degraded" => failures >= FailureThreshold /\ pollHealthy

\* Between attempts and until a dial has succeeded the client never claims to be connected:
\* every attempt that announced `connected` takes it back before the wait.
StatusTruthful ==
    pc \in {"top", "dialing", "opened", "waiting", "halted"} => lastStatus # "connected"

\* A response body never outlives the attempt that opened it.
StreamReleased ==
    pc \notin {"opened", "reading", "dispatching", "closing"} => body = "closed"

\* A stream that is not closed can be reached by Close, Stop and the watchdog,
\* whatever earlier connections and late watchdogs have done to c.resp.
StreamReachable == body # "closed" => registered

\* An attempt that has dispatched carries no failures into the next wait.
DispatchClearsStreak == dispatched => failures = 0

\* The metrics agree with the client: the streak shown is the client's, and
\* while it waits after a failure the retry announced is the one it will make.
RetryAnnounced ==
    /\ metrics.failures = failures
    /\ pc \in {"report", "waiting"} /\ failures > 0 => metrics.nextRetry = delay

\* Where the loop stands decides what is on display and whether the attempt can
\* have dispatched.
AnnouncedWhileUp ==
    /\ pc \in {"reading", "dispatching", "closing"} => lastStatus = "connected"
    /\ pc \in {"dialing", "opened"} => ~dispatched

\* Unless the attempt has dispatched, the last wait was no longer than what the
\* present streak asks for.
DelayFollowsStreak ==
    \/ dispatched /\ pc \in {"reading", "dispatching", "closing", "account"}
    \/ delay <= SelectDelay(failures)

\* The inductive invariant of the client.
IInv ==
    /\ TypeOK
    /\ DegradedJustified
    /\ StatusTruthful
    /\ StreamReleased
    /\ StreamReachable
    /\ DispatchClearsStreak
    /\ RetryAnnounced
    /\ AnnouncedWhileUp
    /\ DelayFollowsStreak

\* While attempts fail one after the other the wait never shrinks: only an
\* attempt that dispatched an event takes it back to the base delay.
DelayGrows ==
    [][pc = "account" /\ pc' = "report" => dispatched \/ delay' >= delay]_vars

\* Stop ends the loop when no dial was in flight at the moment it was called.
StopSettles == (stopper = "closing" /\ pc # "dialing") ~> (pc = "halted")

\* A stream that ended, or was closed by Close or by the watchdog, leads to a
\* new attempt unless the client was stopped or has no token.
EndLeadsToRetry ==
    (pc = "reading" /\ body # "open") ~> (pc \in {"dialing", "halted"} \/ ~hasToken)

\* When from some point on every dial fails while the token is there and polling
\* works, `degraded` is what remains on display.
OutageSurfaces ==
    (<>[](pc # "opened" /\ body = "closed" /\ hasToken /\ pollHealthy) /\ []<>(pc = "waiting"))
    => <>[](lastStatus = "degraded")

\* A stream that has gone silent is closed, unless an event or Stop comes first.
StalledStreamCaught ==
    (body = "open" /\ silent) ~> (~silent \/ body # "open" \/ stopped)

-----------------------------------------------------------------------------
(* Statements of the documents and comments that the code does not keep *)

\* The stop requirement of the event-stream specification without exception:
\* after Stop the reconnect loop ends.
StopEndsLoop == stopped ~> (pc = "halted")

\* The token-less attempt is an attempt without a dispatched event: it counts.
BarrenAttemptCounts ==
    [][pc = "account" /\ pc' = "report" /\ lastStatus # "connected" /\ failures < StreakCap
       => failures' = failures + 1]_vars

\* `degraded` is held until an event is dispatched again.
DegradedHeld ==
    [][lastStatus = "degraded" /\ lastStatus' # "degraded" => failures' = 0]_vars

-----------------------------------------------------------------------------
(* What the client promises to the rest of the bridge *)

\* The attempt as a reader of the reports sees it: it is up from the moment it
\* is announced and over when it has been accounted for.
Attempt ==
    IF pc = "report" THEN "ended"
    ELSE IF lastStatus # "connected" THEN "idle"
    ELSE IF dispatched THEN "delivered" ELSE "up"

Health == INSTANCE StreamHealth WITH
    Threshold <- FailureThreshold,
    Cap <- StreakCap,
    streak <- failures,
    status <- lastStatus,
    healthy <- pollHealthy,
    attempt <- Attempt

\* The client refines the abstract specification of its health reports.
HealthRefined == Health!Spec

\* The attempt as the rest of the bridge sees it: it is up from the moment that is
\* announced, and ended until it has been reported on.
Stream ==
    CASE pc \in {"dialing", "opened"} -> "dialing"
      [] pc \in {"reading", "dispatching", "closing"} -> "up"
      [] pc \in {"account", "report"} -> "ended"
      [] OTHER -> pc

Outside == INSTANCE EventStream WITH
    None <- "none",
    stream <- Stream,
    open <- Stream = "up" /\ body = "open",
    polled <- pollHealthy,
    stopping <- stopped

\* The client refines the event stream that the rest of the bridge is built on: it
\* reports on every attempt before the wait, takes `degraded` only from a poll that
\* delivered, makes no attempt after a stop or without a token, and goes from an
\* attempt to the next in no other way, whatever closes its body and when.
StreamRefined == Outside!Spec
=============================================================================

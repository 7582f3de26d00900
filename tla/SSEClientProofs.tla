--------------------------- MODULE SSEClientProofs ---------------------------
(* The safety of the SSE client for every threshold, table and bound.          *)
EXTENDS SSEClient, SequenceTheorems, TLAPS

-----------------------------------------------------------------------------
(* The delays of every table that IsBackoffTable admits *)

\* The index used on the table is always one of its entries, at any streak at
\* or beyond the threshold: the saturation in selectBackoffDelay is complete.
THEOREM StepIndexInRange ==
    ASSUME NEW table \in Seq(Nat), table # <<>>,
           NEW threshold \in Nat, NEW streak \in Nat, streak >= threshold
    PROVE  StepIndex(table, threshold, streak) \in 1..Len(table)
<1>1. Len(table) \in Nat \ {0}
  OBVIOUS
<1> QED
  BY <1>1 DEF StepIndex

\* Every delay the client selects lies between the base and the maximum.
THEOREM DelayInRange ==
    ASSUME NEW table, NEW base \in Nat, NEW max \in Nat, base <= max,
           IsBackoffTable(table, base, max),
           NEW threshold \in Nat, NEW streak \in Nat
    PROVE  DelayAfter(table, base, threshold, streak) \in base..max
<1>1. CASE streak < threshold
  BY <1>1 DEF DelayAfter
<1>2. CASE streak >= threshold
  <2> DEFINE i == StepIndex(table, threshold, streak)
  <2>1. table \in Seq(Nat) /\ Len(table) \in Nat \ {0}
    BY DEF IsBackoffTable
  <2>2. i \in 1..Len(table)
    BY <1>2, StepIndexInRange DEF IsBackoffTable
  <2>3. table[1] <= table[i] /\ table[i] <= table[Len(table)]
    BY <2>1, <2>2 DEF IsBackoffTable
  <2>4. table[1] \in Nat /\ table[i] \in Nat
    BY <2>1, <2>2
  <2>5. table[1] >= base /\ table[Len(table)] = max
    BY DEF IsBackoffTable
  <2>6. DelayAfter(table, base, threshold, streak) = table[i]
    BY <1>2 DEF DelayAfter
  <2> HIDE DEF i
  <2> QED
    BY <2>3, <2>4, <2>5, <2>6
<1> QED
  BY <1>1, <1>2

\* A longer streak never selects a shorter delay.
THEOREM DelayMonotone ==
    ASSUME NEW table, NEW base \in Nat, NEW max \in Nat, base <= max,
           IsBackoffTable(table, base, max),
           NEW threshold \in Nat, NEW low \in Nat, NEW high \in Nat, low <= high
    PROVE  DelayAfter(table, base, threshold, low)
             <= DelayAfter(table, base, threshold, high)
<1>1. CASE low < threshold
  <2>1. DelayAfter(table, base, threshold, low) = base
    BY <1>1 DEF DelayAfter
  <2>2. DelayAfter(table, base, threshold, high) \in base..max
    BY DelayInRange
  <2> QED
    BY <2>1, <2>2
<1>2. CASE low >= threshold
  <2> DEFINE i == StepIndex(table, threshold, low)
             j == StepIndex(table, threshold, high)
  <2>1. i \in 1..Len(table) /\ j \in 1..Len(table)
    <3>1. table \in Seq(Nat) /\ table # <<>>
      BY DEF IsBackoffTable
    <3>2. i \in 1..Len(table)
      BY <1>2, <3>1, StepIndexInRange
    <3>3. high >= threshold
      BY <1>2
    <3>4. j \in 1..Len(table)
      BY <3>1, <3>3, StepIndexInRange
    <3> QED
      BY <3>2, <3>4
  <2>2. i <= j
    <3>1. Len(table) \in Nat
      BY DEF IsBackoffTable
    <3> QED
      BY <1>2, <3>1 DEF StepIndex
  <2>3. table[i] <= table[j]
    BY <2>1, <2>2 DEF IsBackoffTable
  <2>4. /\ DelayAfter(table, base, threshold, low) = table[i]
        /\ DelayAfter(table, base, threshold, high) = table[j]
    BY <1>2 DEF DelayAfter
  <2> QED
    BY <2>3, <2>4
<1> QED
  BY <1>1, <1>2

-----------------------------------------------------------------------------
(* The delays of this client *)

\* Whatever the streak, the client waits between the base and the maximum, and
\* the estimate shown in the metrics is the wait it will choose.
THEOREM SelectDelayRange ==
    ASSUME NEW streak \in Nat
    PROVE  /\ SelectDelay(streak) \in BaseDelay..MaxDelay
           /\ EstimateNextRetry(streak) = SelectDelay(streak)
  BY DelayInRange, ThresholdAssumption, DelayAssumption, TableAssumption
     DEF SelectDelay, EstimateNextRetry

\* The client's delay does not shrink while its streak grows.
THEOREM SelectDelayMonotone ==
    ASSUME NEW low \in Nat, NEW high \in Nat, low <= high
    PROVE  SelectDelay(low) <= SelectDelay(high)
  BY DelayMonotone, ThresholdAssumption, DelayAssumption, TableAssumption
     DEF SelectDelay

-----------------------------------------------------------------------------
(* Type correctness *)

\* Every variable keeps its type through every step of the client.
THEOREM TypeCorrect == Spec => []TypeOK
<1> USE BoundAssumption, CapAssumption, DelayAssumption
<1>1. Init => TypeOK
  <2> SUFFICES ASSUME Init PROVE TypeOK
    OBVIOUS
  <2>1. /\ registered \in BOOLEAN /\ silent \in BOOLEAN /\ dispatched \in BOOLEAN
        /\ pollHealthy \in BOOLEAN
    BY DEF Init
  <2>2. pending \in Seq(Kind) /\ Len(pending) <= MaxPending
    BY DEF Init
  <2> QED
    BY <2>1, <2>2 DEF Init, TypeOK, Status
<1>2. ASSUME TypeOK, [Next]_vars PROVE TypeOK'
  <2> USE TypeOK DEF TypeOK
  <2> USE DEF connVars, loopVars, envVars
  <2>1. CASE HaltAtTop
    BY <2>1 DEF HaltAtTop
  <2>2. CASE SkipAttempt
    BY <2>2 DEF SkipAttempt
  <2>3. CASE BeginDial
    BY <2>3 DEF BeginDial
  <2>4. CASE AnnounceOpen
    BY <2>4 DEF AnnounceOpen, EmitStatus, Status
  <2>5. CASE ReadEvent
    <3>1. pending' \in Seq(Kind) /\ Len(pending') <= MaxPending
      BY <2>5 DEF ReadEvent
    <3> QED
      BY <2>5, <3>1 DEF ReadEvent
  <2>6. CASE BodyEnds
    <3>1. pending' \in Seq(Kind) /\ Len(pending') <= MaxPending
      BY <2>6 DEF BodyEnds
    <3> QED
      BY <2>6, <3>1 DEF BodyEnds
  <2>7. CASE FinishDispatch
    BY <2>7 DEF FinishDispatch, EmitStatus, Status
  <2>8. CASE CloseBody
    BY <2>8 DEF CloseBody
  <2>9. CASE Account
    <3>1. StreakAfterAttempt \in 0..StreakCap
      BY DEF StreakAfterAttempt, NextStreak
    <3>2. StreakAfterAttempt \in Nat
      BY <3>1
    <3>3. /\ SelectDelay(StreakAfterAttempt) \in BaseDelay..MaxDelay
          /\ EstimateNextRetry(StreakAfterAttempt) \in BaseDelay..MaxDelay
      BY <3>2, SelectDelayRange
    <3>4. /\ failures' \in 0..StreakCap
          /\ delay' \in BaseDelay..MaxDelay
          /\ metrics' \in [failures: 0..StreakCap, nextRetry: {0} \cup (BaseDelay..MaxDelay)]
      BY <2>9, <3>1, <3>3 DEF Account
    <3> QED
      BY <2>9, <3>4 DEF Account
  <2>10. CASE Report
    BY <2>10 DEF Report, EmitStatus, PostAttemptStatus, Status
  <2>11. CASE TimerFires
    BY <2>11 DEF TimerFires
  <2>12. CASE HaltWaiting
    BY <2>12 DEF HaltWaiting
  <2>13. CASE DialFails
    BY <2>13 DEF DialFails
  <2>14. CASE DialOpens
    <3>1. registered' \in BOOLEAN /\ silent' \in BOOLEAN
      BY <2>14 DEF DialOpens
    <3>2. pending' \in Seq(Kind) /\ Len(pending') <= MaxPending
      BY <2>14 DEF DialOpens
    <3> QED
      BY <2>14, <3>1, <3>2 DEF DialOpens
  <2>15. CASE WatchdogStep
    <3>1. CASE WatchdogTrips \/ WatchdogExits
      BY <3>1 DEF WatchdogTrips, WatchdogExits
    <3>2. CASE WatchdogCloses \/ StragglerCloses
      <4>1. registered' \in BOOLEAN
        BY <3>2 DEF WatchdogCloses, StragglerCloses, CloseConn
      <4>2. body' \in {"open", "eof", "closed"}
        BY <3>2 DEF WatchdogCloses, StragglerCloses, CloseConn
      <4> QED
        BY <3>2, <4>1, <4>2 DEF WatchdogCloses, StragglerCloses
    <3> QED
      BY <2>15, <3>1, <3>2 DEF WatchdogStep
  <2>16. CASE StopBegins \/ StopCloses \/ Close
    <3>1. CASE StopBegins
      BY <3>1 DEF StopBegins
    <3>2. CASE StopCloses \/ Close
      <4>1. registered' \in BOOLEAN
        BY <3>2 DEF StopCloses, Close, CloseConn
      <4>2. body' \in {"open", "eof", "closed"}
        BY <3>2 DEF StopCloses, Close, CloseConn
      <4> QED
        BY <3>2, <4>1, <4>2 DEF StopCloses, Close, ParkWatchdog
    <3> QED
      BY <2>16, <3>1, <3>2
  <2>17. CASE ServerSends
    <3>1. pending' \in Seq(Kind) /\ Len(pending') <= MaxPending
      BY <2>17 DEF ServerSends
    <3> QED
      BY <2>17, <3>1 DEF ServerSends
  <2>18. CASE ServerEnds
    <3>1. pending' \in Seq(Kind) /\ Len(pending') <= MaxPending
      <4>1. PICK n \in 0..Len(pending): pending' = SubSeq(pending, 1, n)
        BY <2>18 DEF ServerEnds
      <4>2. n \in Nat /\ n <= MaxPending /\ \A i \in 1..n: pending[i] \in Kind
        OBVIOUS
      <4>3. /\ SubSeq(pending, 1, n) \in Seq(Kind)
            /\ Len(SubSeq(pending, 1, n)) = n
        BY <4>2, SubSeqProperties
      <4> QED
        BY <4>1, <4>2, <4>3
    <3>2. /\ body' = "eof"
          /\ UNCHANGED <<pc, stopper, registered, silent, watchdog, stragglers,
                         loopVars, envVars>>
      BY <2>18 DEF ServerEnds
    <3> QED
      BY <3>1, <3>2
  <2>19. CASE TimePasses \/ TokenChanges \/ PollSucceeds
    <3>1. silent' \in BOOLEAN /\ hasToken' \in BOOLEAN /\ pollHealthy' \in BOOLEAN
      BY <2>19 DEF TimePasses, TokenChanges, PollSucceeds
    <3> QED
      BY <2>19, <3>1 DEF TimePasses, TokenChanges, PollSucceeds
  <2>20. CASE UNCHANGED vars
    BY <2>20 DEF vars
  <2> QED
    BY <1>2, <2>1, <2>2, <2>3, <2>4, <2>5, <2>6, <2>7, <2>8, <2>9, <2>10, <2>11,
       <2>12, <2>13, <2>14, <2>15, <2>16, <2>17, <2>18, <2>19, <2>20
       DEF Next, LoopStep
<1> QED
  BY <1>1, <1>2, PTL DEF Spec

-----------------------------------------------------------------------------
(* Safety *)

\* The conjuncts of IInv beyond the types.
Safe ==
    /\ DegradedJustified
    /\ StatusTruthful
    /\ StreamReleased
    /\ StreamReachable
    /\ DispatchClearsStreak
    /\ RetryAnnounced
    /\ AnnouncedWhileUp
    /\ DelayFollowsStreak

\* What IInv rests on when only the server, the clock, the token or a poll moves.
UnchangedLoop == UNCHANGED <<pc, dispatched, failures, lastStatus, delay, metrics>>

\* A step that leaves the loop goroutine where it is, takes no stream away from
\* the client and forgets no success of polling keeps the client safe.
LEMMA OtherStepsSafe ==
    ASSUME TypeOK, Safe, UnchangedLoop,
           pollHealthy => pollHealthy',
           body = "closed" => body' = "closed",
           body' # "closed" => registered' \/ ~registered
    PROVE  Safe'
<1> USE DEF Safe, UnchangedLoop
<1>1. DegradedJustified' /\ StatusTruthful' /\ DispatchClearsStreak' /\ AnnouncedWhileUp'
  BY DEF DegradedJustified, StatusTruthful, DispatchClearsStreak, AnnouncedWhileUp
<1>2. StreamReleased'
  BY DEF StreamReleased
<1>3. StreamReachable'
  BY DEF StreamReachable
<1>4. RetryAnnounced'
  BY DEF RetryAnnounced
<1>5. DelayFollowsStreak'
  BY DEF DelayFollowsStreak, SelectDelay
<1> QED
  BY <1>1, <1>2, <1>3, <1>4, <1>5

\* The inductive invariant: every step of the client keeps what it displays,
\* what it counts and what it holds open consistent.
THEOREM SafetyInductive == Spec => []IInv
<1>1. Init => Safe
  <2> SUFFICES ASSUME Init PROVE Safe
    OBVIOUS
  <2>1. 0 <= SelectDelay(0)
    BY SelectDelayRange, DelayAssumption
  <2> QED
    BY <2>1 DEF Init, Safe, DegradedJustified, StatusTruthful, StreamReleased,
       StreamReachable, DispatchClearsStreak, RetryAnnounced, AnnouncedWhileUp,
       DelayFollowsStreak
<1>2. ASSUME TypeOK, Safe, [Next]_vars PROVE Safe'
  <2> USE TypeOK, Safe DEF connVars, loopVars, envVars
  <2> USE DEF DegradedJustified, StatusTruthful, StreamReleased, StreamReachable,
          DispatchClearsStreak, RetryAnnounced, AnnouncedWhileUp
  <2>1. CASE HaltAtTop \/ SkipAttempt \/ DialFails \/ TimerFires \/ HaltWaiting
    <3>1. DelayFollowsStreak'
      BY <2>1 DEF HaltAtTop, SkipAttempt, DialFails, TimerFires, HaltWaiting,
         DelayFollowsStreak, SelectDelay, Safe
    <3> QED
      BY <2>1, <3>1 DEF Safe, HaltAtTop, SkipAttempt, DialFails, TimerFires, HaltWaiting
  <2>2. CASE BeginDial
    <3>1. DelayFollowsStreak'
      BY <2>2 DEF BeginDial, DelayFollowsStreak, SelectDelay, Safe
    <3> QED
      BY <2>2, <3>1 DEF BeginDial, Safe
  <2>3. CASE DialOpens
    <3>1. DelayFollowsStreak'
      BY <2>3 DEF DialOpens, DelayFollowsStreak, SelectDelay, Safe
    <3> QED
      BY <2>3, <3>1 DEF DialOpens, Safe
  <2>4. CASE AnnounceOpen
    <3>1. DelayFollowsStreak'
      BY <2>4 DEF AnnounceOpen, DelayFollowsStreak, SelectDelay, Safe
    <3> QED
      BY <2>4, <3>1 DEF AnnounceOpen, EmitStatus, Safe
  <2>5. CASE ReadEvent \/ BodyEnds \/ CloseBody
    <3>1. DelayFollowsStreak'
      BY <2>5 DEF ReadEvent, BodyEnds, CloseBody, DelayFollowsStreak, SelectDelay, Safe
    <3> QED
      BY <2>5, <3>1 DEF ReadEvent, BodyEnds, CloseBody, Safe
  <2>6. CASE FinishDispatch
    <3>1. DelayFollowsStreak'
      BY <2>6 DEF FinishDispatch, DelayFollowsStreak
    <3>2. RetryAnnounced'
      BY <2>6 DEF FinishDispatch, TypeOK, Safe
    <3> QED
      BY <2>6, <3>1, <3>2 DEF FinishDispatch, EmitStatus, Safe
  <2>7. CASE Account
    <3> DEFINE s == StreakAfterAttempt
    <3>1. /\ failures' = s /\ delay' = SelectDelay(s)
          /\ metrics' = IF dispatched THEN metrics
                        ELSE [failures |-> s, nextRetry |-> EstimateNextRetry(s)]
          /\ pc = "account" /\ pc' = "report"
          /\ UNCHANGED <<stopper, connVars, dispatched, lastStatus, envVars>>
      BY <2>7 DEF Account
    <3>2. s \in Nat /\ s >= failures /\ (dispatched => s = failures)
      BY CapAssumption DEF StreakAfterAttempt, NextStreak, TypeOK
    <3> HIDE DEF s
    <3>3. EstimateNextRetry(s) = SelectDelay(s) /\ SelectDelay(s) \in Nat
      BY <3>2, SelectDelayRange, DelayAssumption
    <3>4. DegradedJustified'
      BY <3>1, <3>2, ThresholdAssumption DEF Safe, TypeOK
    <3>5. RetryAnnounced'
      BY <3>1, <3>2, <3>3 DEF Safe
    <3>6. DelayFollowsStreak'
      <4>1. SelectDelay(failures)' = SelectDelay(s)
        BY <3>1 DEF SelectDelay
      <4> QED
        BY <3>1, <3>3, <4>1 DEF DelayFollowsStreak
    <3>7. DispatchClearsStreak'
      BY <3>1, <3>2 DEF Safe
    <3> QED
      BY <3>1, <3>4, <3>5, <3>6, <3>7 DEF Safe
  <2>8. CASE Report
    <3>1. DelayFollowsStreak'
      BY <2>8 DEF Report, DelayFollowsStreak, SelectDelay, Safe
    <3>2. DegradedJustified'
      BY <2>8 DEF Report, EmitStatus, PostAttemptStatus
    <3>3. lastStatus' # "connected"
      BY <2>8 DEF Report, EmitStatus, PostAttemptStatus
    <3> QED
      BY <2>8, <3>1, <3>2, <3>3 DEF Report, Safe
  <2>9. CASE WatchdogStep
    <3>1. /\ UnchangedLoop /\ pollHealthy' = pollHealthy
          /\ body = "closed" => body' = "closed"
          /\ body' # "closed" => registered' \/ ~registered
      BY <2>9 DEF WatchdogStep, WatchdogTrips, WatchdogCloses, StragglerCloses,
         WatchdogExits, CloseConn, UnchangedLoop
    <3> QED
      BY <3>1, OtherStepsSafe
  <2>10. CASE StopBegins \/ StopCloses \/ Close
    <3>1. /\ UnchangedLoop /\ pollHealthy' = pollHealthy
          /\ body = "closed" => body' = "closed"
          /\ body' # "closed" => registered' \/ ~registered
      BY <2>10 DEF StopBegins, StopCloses, Close, CloseConn, UnchangedLoop
    <3> QED
      BY <3>1, OtherStepsSafe
  <2>11. CASE \/ ServerSends \/ ServerEnds \/ TimePasses \/ TokenChanges
             \/ PollSucceeds \/ UNCHANGED vars
    <3>1. /\ UnchangedLoop
          /\ pollHealthy => pollHealthy'
          /\ body = "closed" => body' = "closed"
          /\ body' # "closed" => registered' \/ ~registered
      BY <2>11 DEF ServerSends, ServerEnds, TimePasses, TokenChanges, PollSucceeds,
         vars, UnchangedLoop
    <3> QED
      BY <3>1, OtherStepsSafe
  <2> QED
    BY <1>2, <2>1, <2>2, <2>3, <2>4, <2>5, <2>6, <2>7, <2>8, <2>9, <2>10, <2>11
       DEF Next, LoopStep
<1>3. TypeOK /\ Safe => IInv
  BY DEF IInv, Safe
<1> QED
  BY <1>1, <1>2, <1>3, TypeCorrect, PTL DEF Spec

\* `degraded` is only displayed while the streak has reached the threshold and
\* polling has delivered.
THEOREM DegradedIsJustified == Spec => []DegradedJustified
  BY SafetyInductive, PTL DEF IInv

\* Outside a stream the client never claims to be connected.
THEOREM StatusIsTruthful == Spec => []StatusTruthful
  BY SafetyInductive, PTL DEF IInv

\* A response body that is open can be closed by Close, Stop and the watchdog.
THEOREM StreamsAreHeld == Spec => []StreamReachable
  BY SafetyInductive, PTL DEF IInv

\* No response body outlives its attempt.
THEOREM StreamsAreReleased == Spec => []StreamReleased
  BY SafetyInductive, PTL DEF IInv

\* The metrics show the client's streak and the wait it has chosen.
THEOREM MetricsAgree == Spec => []RetryAnnounced
  BY SafetyInductive, PTL DEF IInv

-----------------------------------------------------------------------------
(* Steps *)

\* The waits of a run of failing attempts never shrink, for every step table.
THEOREM DelaysGrow == Spec => DelayGrows
<1>1. ASSUME IInv, [Next]_vars
      PROVE  pc = "account" /\ pc' = "report" => dispatched \/ delay' >= delay
  <2> SUFFICES ASSUME pc = "account", pc' = "report", ~dispatched
               PROVE  delay' >= delay
    OBVIOUS
  <2> USE DEF connVars, loopVars, envVars
  <2>1. Account
    BY <1>1 DEF Next, LoopStep, HaltAtTop, SkipAttempt, BeginDial, AnnounceOpen,
       ReadEvent, BodyEnds, FinishDispatch, CloseBody, Report, TimerFires,
       HaltWaiting, DialFails, DialOpens, WatchdogStep, WatchdogTrips,
       WatchdogCloses, StragglerCloses, WatchdogExits, StopBegins, StopCloses,
       Close, ServerSends, ServerEnds, TimePasses, TokenChanges, PollSucceeds, vars
  <2>2. failures \in Nat /\ NextStreak(failures) \in Nat
        /\ failures <= NextStreak(failures)
    BY <1>1, CapAssumption DEF IInv, TypeOK, NextStreak
  <2>3. SelectDelay(failures) <= SelectDelay(NextStreak(failures))
    BY <2>2, SelectDelayMonotone
  <2>4. delay <= SelectDelay(failures)
    BY <1>1 DEF IInv, DelayFollowsStreak
  <2>5. delay' = SelectDelay(NextStreak(failures))
    BY <2>1 DEF Account, StreakAfterAttempt
  <2>6. /\ delay \in Nat
        /\ SelectDelay(failures) \in Nat
        /\ SelectDelay(NextStreak(failures)) \in Nat
    <3>1. delay \in {0} \cup (BaseDelay..MaxDelay)
      BY <1>1 DEF IInv, TypeOK
    <3>2. /\ SelectDelay(failures) \in BaseDelay..MaxDelay
          /\ SelectDelay(NextStreak(failures)) \in BaseDelay..MaxDelay
      BY <2>2, SelectDelayRange
    <3>3. (BaseDelay..MaxDelay) \subseteq Nat
      BY DelayAssumption
    <3> QED
      BY <3>1, <3>2, <3>3
  <2> QED
    BY <2>3, <2>4, <2>5, <2>6
<1> QED
  BY <1>1, SafetyInductive, PTL DEF Spec, DelayGrows

-----------------------------------------------------------------------------
(* The client implements StreamHealth *)

\* Every behaviour of the client is, seen through its reports, a behaviour of the
\* abstract specification: attempts come up, deliver, end and are reported in turn.
THEOREM ImplementsHealth == Spec => HealthRefined
<1>1. Init => Health!Init
  BY DEF Init, Health!Init, Attempt
<1>2. ASSUME IInv, IInv', [Next]_vars
      PROVE  [Health!Next]_(Health!vars)
  <2> USE DEF connVars, loopVars, envVars, Health!vars, Attempt
  <2>1. CASE HaltAtTop \/ SkipAttempt \/ DialFails \/ TimerFires \/ HaltWaiting
    BY <2>1 DEF HaltAtTop, SkipAttempt, DialFails, TimerFires, HaltWaiting
  <2>2. CASE BeginDial
    <3>1. lastStatus # "connected"
      BY <1>2, <2>2 DEF IInv, StatusTruthful, BeginDial
    <3> QED
      BY <2>2, <3>1 DEF BeginDial
  <2>3. CASE DialOpens
    BY <2>3 DEF DialOpens
  <2>4. CASE AnnounceOpen
    <3>1. ~dispatched /\ lastStatus # "connected"
      BY <1>2, <2>4 DEF IInv, AnnouncedWhileUp, StatusTruthful, AnnounceOpen
    <3>2. Health!Open
      BY <2>4, <3>1 DEF AnnounceOpen, EmitStatus, Health!Open
    <3> QED
      BY <3>2 DEF Health!Next
  <2>5. CASE ReadEvent \/ BodyEnds \/ CloseBody
    BY <2>5 DEF ReadEvent, BodyEnds, CloseBody
  <2>6. CASE FinishDispatch
    <3>1. lastStatus = "connected" /\ (dispatched => failures = 0)
      BY <1>2, <2>6 DEF IInv, AnnouncedWhileUp, DispatchClearsStreak, FinishDispatch
    <3>2. CASE dispatched
      BY <2>6, <3>1, <3>2 DEF FinishDispatch, EmitStatus
    <3>3. CASE ~dispatched
      <4>1. Health!Deliver
        BY <2>6, <3>1, <3>3 DEF FinishDispatch, EmitStatus, Health!Deliver
      <4> QED
        BY <4>1 DEF Health!Next
    <3> QED
      BY <3>2, <3>3
  <2>7. CASE Account
    <3>1. dispatched => failures = 0
      BY <1>2 DEF IInv, DispatchClearsStreak
    <3>2. CASE ~dispatched
      <4>1. Health!EndBarren
        BY <2>7, <3>2 DEF Account, StreakAfterAttempt, NextStreak, Health!EndBarren
      <4> QED
        BY <4>1 DEF Health!Next
    <3>3. CASE dispatched /\ lastStatus = "connected"
      <4>1. Health!EndDelivered
        BY <2>7, <3>3 DEF Account, StreakAfterAttempt, Health!EndDelivered
      <4> QED
        BY <4>1 DEF Health!Next
    <3>4. CASE dispatched /\ lastStatus # "connected"
      <4>1. Health!EndSkipped
        BY <2>7, <3>1, <3>4 DEF Account, StreakAfterAttempt, Health!EndSkipped
      <4> QED
        BY <4>1 DEF Health!Next
    <3> QED
      BY <3>2, <3>3, <3>4
  <2>8. CASE Report
    <3>1. lastStatus' # "connected"
      BY <2>8 DEF Report, EmitStatus, PostAttemptStatus
    <3>2. Health!Report
      BY <2>8, <3>1 DEF Report, EmitStatus, PostAttemptStatus, Health!Report
    <3> QED
      BY <3>2 DEF Health!Next
  <2>9. CASE WatchdogStep
    BY <2>9 DEF WatchdogStep, WatchdogTrips, WatchdogCloses, StragglerCloses,
       WatchdogExits
  <2>10. CASE StopBegins \/ StopCloses \/ Close
    BY <2>10 DEF StopBegins, StopCloses, Close
  <2>11. CASE ServerSends \/ ServerEnds \/ TimePasses \/ TokenChanges
    BY <2>11 DEF ServerSends, ServerEnds, TimePasses, TokenChanges
  <2>12. CASE PollSucceeds
    <3>1. Health!PollingDelivers
      BY <2>12 DEF PollSucceeds, Health!PollingDelivers
    <3> QED
      BY <3>1 DEF Health!Next
  <2>13. CASE UNCHANGED vars
    BY <2>13 DEF vars
  <2> QED
    BY <1>2, <2>1, <2>2, <2>3, <2>4, <2>5, <2>6, <2>7, <2>8, <2>9, <2>10, <2>11,
       <2>12, <2>13 DEF Next, LoopStep
<1> QED
  BY <1>1, <1>2, SafetyInductive, PTL DEF Spec, HealthRefined, Health!Spec

-----------------------------------------------------------------------------
(* The client implements EventStream *)

\* A step that leaves the attempt where it is, opens no body, and neither takes back
\* a stop nor a success of polling, is one of the stream's environment.
LEMMA OtherStepsOutside ==
    ASSUME TypeOK', Stream' = Stream, lastStatus' = lastStatus,
           Stream = "up" /\ body' = "open" => body = "open",
           pollHealthy => pollHealthy', stopped => stopped'
    PROVE  Outside!Environment
<1>1. hasToken' \in BOOLEAN /\ pollHealthy' \in BOOLEAN
  BY DEF TypeOK
<1> QED
  BY <1>1 DEF Outside!Environment, stopped

\* Every behaviour of the client is, seen from the rest of the bridge, one of the
\* event stream that Gateway composes with polling, the token check and stop.
THEOREM ImplementsStream == Spec => StreamRefined
<1>1. Init => Outside!Init
  BY DEF Init, Outside!Init, Stream, stopped
<1>2. ASSUME IInv, IInv', [Next]_vars
      PROVE  [Outside!Next]_(Outside!vars)
  <2> USE DEF connVars, loopVars, envVars, Outside!inputs, Stream, stopped
  <2>1. CASE HaltAtTop \/ HaltWaiting
    <3>1. Outside!Halt /\ UNCHANGED Outside!inputs
      BY <2>1 DEF HaltAtTop, HaltWaiting, Outside!Halt
    <3> QED
      BY <3>1 DEF Outside!Next, Outside!Step
  <2>2. CASE SkipAttempt
    <3>1. Outside!Skip /\ UNCHANGED Outside!inputs
      BY <2>2 DEF SkipAttempt, Outside!Skip
    <3> QED
      BY <3>1 DEF Outside!Next, Outside!Step
  <2>3. CASE BeginDial
    <3>1. Outside!Dial /\ UNCHANGED Outside!inputs
      BY <2>3 DEF BeginDial, Outside!Dial
    <3> QED
      BY <3>1 DEF Outside!Next, Outside!Step
  <2>4. CASE DialFails
    <3>1. Outside!Fails /\ UNCHANGED Outside!inputs
      BY <2>4 DEF DialFails, Outside!Fails
    <3> QED
      BY <3>1 DEF Outside!Next, Outside!Step
  <2>5. CASE AnnounceOpen
    <3>1. Outside!ComesUp /\ UNCHANGED Outside!inputs
      BY <2>5 DEF AnnounceOpen, EmitStatus, Outside!ComesUp
    <3> QED
      BY <3>1 DEF Outside!Next, Outside!Step
  <2>6. CASE CloseBody
    <3>1. Outside!Ends /\ UNCHANGED Outside!inputs
      BY <2>6 DEF CloseBody, Outside!Ends
    <3> QED
      BY <3>1 DEF Outside!Next, Outside!Step
  <2>7. CASE Report
    <3>1. /\ lastStatus' \in {"disconnected", "degraded"}
          /\ lastStatus' = "degraded" => pollHealthy
      BY <2>7 DEF Report, EmitStatus, PostAttemptStatus
    <3>2. Outside!Report /\ UNCHANGED Outside!inputs
      BY <2>7, <3>1 DEF Report, Outside!Report
    <3> QED
      BY <3>2 DEF Outside!Next, Outside!Step
  <2>8. CASE TimerFires
    <3>1. Outside!Retry /\ UNCHANGED Outside!inputs
      BY <2>8 DEF TimerFires, Outside!Retry
    <3> QED
      BY <3>1 DEF Outside!Next, Outside!Step
  <2>9. CASE DialOpens \/ ReadEvent \/ BodyEnds \/ Account
    BY <2>9 DEF DialOpens, ReadEvent, BodyEnds, Account, Outside!vars
  <2>10. CASE FinishDispatch
    <3>1. lastStatus = "connected"
      BY <1>2, <2>10 DEF IInv, AnnouncedWhileUp, FinishDispatch
    <3> QED
      BY <2>10, <3>1 DEF FinishDispatch, EmitStatus, Outside!vars
  <2>11. CASE \/ WatchdogStep \/ StopBegins \/ StopCloses \/ Close
             \/ ServerSends \/ ServerEnds \/ TimePasses \/ TokenChanges \/ PollSucceeds
    <3>1. /\ pc' = pc /\ lastStatus' = lastStatus
          /\ body' = "open" => body = "open"
          /\ pollHealthy => pollHealthy'
          /\ stopped => stopped'
      BY <2>11 DEF WatchdogStep, WatchdogTrips, WatchdogCloses, StragglerCloses,
         WatchdogExits, StopBegins, StopCloses, Close, CloseConn, ServerSends,
         ServerEnds, TimePasses, TokenChanges, PollSucceeds
    <3>2. Outside!Environment
      BY <1>2, <3>1, OtherStepsOutside DEF IInv
    <3> QED
      BY <3>2 DEF Outside!Next
  <2>12. CASE UNCHANGED vars
    BY <2>12 DEF vars, Outside!vars
  <2> QED
    BY <1>2, <2>1, <2>2, <2>3, <2>4, <2>5, <2>6, <2>7, <2>8, <2>9, <2>10, <2>11,
       <2>12 DEF Next, LoopStep
<1> QED
  BY <1>1, <1>2, SafetyInductive, PTL DEF Spec, StreamRefined, Outside!Spec
=============================================================================

---------------------------- MODULE GatewayProofs ----------------------------
(* Proofs about Gateway, for both modes and any number of tokens.              *)
EXTENDS Gateway, TLAPS

\* Before app.start nothing has been reported and every loop is off.
LEMMA InitInv == Init => IInv
<1> SUFFICES ASSUME Init
             PROVE IInv
  OBVIOUS
<1>1. TypeOK
  <2>1. 1 \in 1..MaxTokens /\ {0, 1} \subseteq Token
    BY TokensAssumption DEF Token
  <2>2. bearer \in Token /\ token \in Token /\ granted \in 1..MaxTokens
    BY <2>1 DEF Init
  <2> QED
    BY <2>2 DEF Init, TypeOK, State
<1>2. Reporting /\ BootState /\ Awaited
  BY DEF Init, Reporting, BootState, Awaited
<1>3. DegradedReported /\ DegradedHasPolled
  BY NoneAssumption DEF Init, DegradedReported, DegradedHasPolled, State, Status
<1> QED
  BY <1>1, <1>2, <1>3 DEF IInv

\* Each step of main, of the stream and of the two loops keeps the invariant.  The
\* stream's reports are the steps that move Reporting along; the others leave alone
\* what it speaks of, or end its range (PublishFinal).
LEMMA StepInv == IInv /\ [Next]_vars => IInv'
<1> SUFFICES ASSUME IInv, [Next]_vars
             PROVE IInv'
  OBVIOUS
<1> USE ModesAssumption, TokensAssumption, NoneAssumption
    DEF IInv, TypeOK, Reporting, Current, BootState, DegradedReported, DegradedHasPolled,
        Awaited, Token, State, Status, Alive, Stopping, Free
<1>1. CASE Start
  BY <1>1 DEF Start, Manager!Start
<1>2. CASE BeginDial
  BY <1>2 DEF BeginDial, Client!Dial, loopVars, shownVars
<1>3. CASE SkipAttempt
  BY <1>3 DEF SkipAttempt, Client!Skip, loopVars, shownVars
<1>4. CASE DialOpens
  BY <1>4 DEF DialOpens, Client!ComesUp, EmitChange, loopVars, shownVars
<1>5. CASE DialFails
  BY <1>5 DEF DialFails, Client!Fails, loopVars, shownVars
<1>6. CASE StreamEnds \/ Reconnect \/ StreamHalts
  <2>1. open' \in BOOLEAN
    BY <1>6 DEF StreamEnds, Reconnect, StreamHalts, Client!Ends, Client!Retry, Client!Halt
  <2> QED
    BY <1>6, <2>1 DEF StreamEnds, Reconnect, StreamHalts, Client!Ends, Client!Retry,
       Client!Halt, loopVars, shownVars
<1>7. CASE ReportAttempt
  <2>1. PICK s \in {"disconnected", "degraded"}: (s = "degraded" => polled) /\ lastStatus' = s
    BY <1>7 DEF ReportAttempt, Client!Report
  <2>2. s \in Status /\ s # None
    OBVIOUS
  <2>3. /\ report = "none" /\ main \notin {"boot", "exited"} /\ stream' = "waiting"
        /\ report' = IF lastStatus' = lastStatus THEN "none" ELSE "metric"
        /\ UNCHANGED <<mode, main, open, bearer, loopVars, shownVars>>
    BY <1>7 DEF ReportAttempt, Client!Report, EmitChange
  <2> QED
    BY <2>1, <2>2, <2>3 DEF loopVars, shownVars
<1>8. CASE RecordStatus
  BY <1>8 DEF RecordStatus, loopVars
<1>9. CASE SwapState
  BY <1>9 DEF SwapState, loopVars
<1>10. CASE SendState
  BY <1>10 DEF SendState, loopVars
<1>11. CASE BeginPoll
  BY <1>11 DEF BeginPoll, streamVars, shownVars
<1>12. CASE FetchSucceeds
  BY <1>12 DEF FetchSucceeds, streamVars, shownVars
<1>13. CASE FetchFails
  BY <1>13 DEF FetchFails, streamVars, shownVars
<1>14. CASE PollPublishes
  BY <1>14 DEF PollPublishes, streamVars, shownVars
<1>15. CASE PollQuits
  BY <1>15 DEF PollQuits, streamVars, shownVars
<1>16. CASE MaybeRefresh
  <2>1. open' \in BOOLEAN
    BY <1>16 DEF MaybeRefresh
  <2> QED
    BY <1>16, <2>1 DEF MaybeRefresh, Manager!BeginLogin, shownVars
<1>17. CASE Renewed
  BY <1>17 DEF Renewed, Manager!Renew, streamVars, shownVars
<1>18. CASE NotRenewed
  BY <1>18 DEF NotRenewed, Manager!Fail, Manager!Keep, streamVars, shownVars
<1>19. CASE RefreshQuits
  BY <1>19 DEF RefreshQuits, streamVars, shownVars
<1>20. CASE Signal
  <2>1. open' \in BOOLEAN
    BY <1>20 DEF Signal
  <2> QED
    BY <1>20, <2>1 DEF Signal, loopVars, shownVars
<1>21. CASE PollAwaited
  BY <1>21 DEF PollAwaited, streamVars, loopVars, shownVars
<1>22. CASE RefreshAwaited
  BY <1>22 DEF RefreshAwaited, streamVars, loopVars, shownVars
<1>23. CASE CleanUp
  BY <1>23 DEF CleanUp, streamVars, loopVars, shownVars
<1>24. CASE PublishFinal
  BY <1>24 DEF PublishFinal, streamVars, loopVars
<1>25. CASE Exit
  BY <1>25 DEF Exit, streamVars, loopVars, shownVars
<1>26. CASE Stored
  BY <1>26 DEF Stored, Manager!Store, streamVars, shownVars
<1>27. CASE UNCHANGED vars
  BY <1>27 DEF vars
<1> QED
  BY <1>1, <1>2, <1>3, <1>4, <1>5, <1>6, <1>7, <1>8, <1>9, <1>10, <1>11, <1>12, <1>13,
     <1>14, <1>15, <1>16, <1>17, <1>18, <1>19, <1>20, <1>21, <1>22, <1>23, <1>24,
     <1>25, <1>26, <1>27
  DEF Next, ReportStep, StopStep

\* The invariant holds throughout.
THEOREM SafetyInductive == Spec => []IInv
  BY InitInv, StepInv, PTL DEF Spec

\* The variables keep their types.
THEOREM TypeCorrect == Spec => []TypeOK
<1>1. IInv => TypeOK
  BY DEF IInv
<1> QED
  BY <1>1, SafetyInductive, PTL

\* The bridge topic, the publisher's memory of it and the metric agree between
\* reports (SetSSEConnection, PublishMieleState).
THEOREM BridgeConsistent == Spec => []BridgeAgrees
<1>1. IInv => BridgeAgrees
  BY DEF IInv, Reporting, Current, BridgeAgrees
<1> QED
  BY <1>1, SafetyInductive, PTL

\* `degraded` on the bridge topic means that polling has worked (pollingHealthy).
THEOREM DegradedIsBacked == Spec => []DegradedHasPolled
<1>1. IInv => DegradedHasPolled
  BY DEF IInv
<1> QED
  BY <1>1, SafetyInductive, PTL

\* No poll and no login runs during or after the cleanup of app.stop.
THEOREM CleanupIsQuiet == Spec => []QuietAtCleanup
<1>1. IInv => QuietAtCleanup
  BY DEF IInv, Awaited, QuietAtCleanup
<1> QED
  BY <1>1, SafetyInductive, PTL
=============================================================================

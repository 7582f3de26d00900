------------------------- MODULE TokenManagerProofs -------------------------
(* What TLAPS proves of the token manager, for any number of grants.          *)
EXTENDS TokenManager, TLAPS

TypeInv == TypeOK /\ OnlyIssued /\ ProcessState

\* One step keeps the types and the relation of token and process.
LEMMA StepTyped == TypeInv /\ [Next]_vars => TypeInv'
<1> SUFFICES ASSUME TypeInv, [Next]_vars
             PROVE  TypeInv'
    OBVIOUS
<1> USE GrantsAssumption, CrashAssumption, NoneAssumption
        DEF TypeInv, TypeOK, OnlyIssued, ProcessState, Grant, Token, Settings
<1>1. CASE Boot
      BY <1>1 DEF Boot, cloudVars
<1>2. CASE MaybeRefresh
      BY <1>2 DEF MaybeRefresh, cloudVars
<1>3. CASE AssertConnection
  <2>1. connected' \in BOOLEAN /\ pc' \in {"refresh", "store", "code"}
        BY <1>3 DEF AssertConnection, Works
  <2>2. pc' \in {"refresh", "store"} => mem' # None
        BY <1>3 DEF AssertConnection, Works, TriesRefresh, CurrentAccess
  <2> QED  BY <1>3, <2>1, <2>2 DEF AssertConnection, cloudVars
<1>4. CASE RefreshGranted
  <2>1. PICK t \in Token, short \in BOOLEAN, keep \in BOOLEAN:
          /\ Issue(t, short)
          /\ mem' = t
          /\ refreshable' = (IF keep THEN refreshable ELSE refreshable \ {mem.id})
                            \cup (IF t.refresh THEN {t.id} ELSE {})
        BY <1>4 DEF RefreshGranted
  <2>2. /\ granted' \in Grant /\ t.id = granted' /\ granted' = granted + 1
        /\ access' \subseteq 1..granted' /\ near' \subseteq 1..granted'
        BY <2>1 DEF Issue
  <2>3. mem.id \in 1..granted /\ 1..granted \subseteq 1..granted' /\ granted' \in 1..granted'
        BY <1>4, <2>2 DEF RefreshGranted
  <2>3a. refreshable' \subseteq refreshable \cup {granted'}
        BY <2>1, <2>2
  <2>3b. spent' = spent \cup {mem.id}
        BY <1>4 DEF RefreshGranted
  <2>3c. refreshable' \subseteq 1..granted' /\ spent' \subseteq 1..granted'
        BY <2>3, <2>3a, <2>3b
  <2>4. connected' \in BOOLEAN
        BY <1>4 DEF RefreshGranted
  <2> QED  BY <1>4, <2>1, <2>2, <2>3c, <2>4 DEF RefreshGranted
<1>5. CASE RefreshFails
      BY <1>5 DEF RefreshFails, cloudVars
<1>6. CASE RefreshReplyLost
  <2>1. refreshable' \subseteq 1..granted' /\ spent' \subseteq 1..granted'
        BY <1>6 DEF RefreshReplyLost
  <2>2. connected' \in BOOLEAN /\ lost' \in BOOLEAN
        BY <1>6 DEF RefreshReplyLost
  <2> QED  BY <1>6, <2>1, <2>2 DEF RefreshReplyLost
<1>7. CASE FetchCode
      BY <1>7 DEF FetchCode, cloudVars
<1>8. CASE LoginFails
  <2>1. pc' \in {"idle", "down"} /\ mem' \in Token \cup {None} /\ connected' \in BOOLEAN
        BY <1>8 DEF LoginFails, AfterFailure
  <2> QED  BY <1>8, <2>1 DEF LoginFails, AfterFailure, cloudVars
<1>9. CASE FetchToken
  <2>1. PICK t \in Token, short \in BOOLEAN:
          /\ Issue(t, short)
          /\ mem' = t
          /\ refreshable' = refreshable \cup (IF t.refresh THEN {t.id} ELSE {})
        BY <1>9 DEF FetchToken
  <2>2. /\ granted' \in Grant /\ t.id = granted' /\ granted' = granted + 1
        /\ access' \subseteq 1..granted' /\ near' \subseteq 1..granted'
        BY <2>1 DEF Issue
  <2>3. refreshable' \subseteq 1..granted' /\ spent' \subseteq 1..granted'
        BY <1>9, <2>1, <2>2 DEF FetchToken
  <2> QED  BY <1>9, <2>1, <2>2, <2>3 DEF FetchToken
<1>10. CASE SkipPersist
       BY <1>10 DEF SkipPersist, cloudVars
<1>11. CASE OpenFile
       BY <1>11 DEF OpenFile, cloudVars
<1>12. CASE WriteFile
  <2>1. lost' \in BOOLEAN
        BY <1>12 DEF WriteFile
  <2> QED  BY <1>12, <2>1 DEF WriteFile, cloudVars
<1>13. CASE WriteFails
       BY <1>13 DEF WriteFails, cloudVars
<1>14. CASE Notify
  <2>1. running' \in BOOLEAN /\ connected' \in BOOLEAN /\ shown' \in Token \cup {None}
        BY <1>14 DEF Notify
  <2> QED  BY <1>14, <2>1 DEF Notify, cloudVars
<1>15. CASE TokenComesNear
  <2>1. near' \subseteq 1..granted'
    <3>1. PICK g \in Held \ near: near' = near \cup {g}
          BY <1>15 DEF TokenComesNear
    <3>2. PICK t \in {mem, file} \cap Token: g = t.id
          BY <3>1 DEF Held
    <3>3. g \in 1..granted
          BY <3>2
    <3> QED  BY <1>15, <3>1, <3>3 DEF TokenComesNear
  <2> QED  BY <1>15, <2>1 DEF TokenComesNear
<1>16. CASE AccessDies
  <2>1. access' \subseteq 1..granted'
        BY <1>16 DEF AccessDies
  <2>2. UNCHANGED <<settings, pc, running, mem, connected, file, exact, shown, granted,
                    refreshable, near, cloudUp, spent, lost, crashes>>
        BY <1>16 DEF AccessDies
  <2>3. TypeOK'
        BY <2>1, <2>2
  <2>4. OnlyIssued' /\ ProcessState'
        BY <2>2
  <2> QED  BY <2>3, <2>4
<1>17. CASE CloudChanges
       BY <1>17 DEF CloudChanges
<1>18. CASE Shutdown
       BY <1>18 DEF Shutdown, ProcessEnds, cloudVars
<1>19. CASE Crash
  <2>1. lost' \in BOOLEAN /\ running' \in BOOLEAN /\ connected' \in BOOLEAN
        BY <1>19 DEF Crash, ProcessEnds
  <2> QED  BY <1>19, <2>1 DEF Crash, ProcessEnds, cloudVars
<1>20. CASE UNCHANGED vars
       BY <1>20 DEF vars
<1> QED
    BY <1>1, <1>2, <1>3, <1>4, <1>5, <1>6, <1>7, <1>8, <1>9, <1>10, <1>11, <1>12, <1>13,
       <1>14, <1>15, <1>16, <1>17, <1>18, <1>19, <1>20 DEF Next, LoginStep

\* What the next step does to the file and to what the cloud has exchanged.
LEMMA StepSafe ==
    TypeInv /\ TypeInv' /\ FileState /\ MemoryNotSpent /\ FileNotSpent /\ ShownFollows /\ [Next]_vars
        => FileState' /\ MemoryNotSpent' /\ FileNotSpent' /\ ShownFollows'
<1> SUFFICES ASSUME TypeInv, TypeInv', FileState, MemoryNotSpent, FileNotSpent, ShownFollows, [Next]_vars
             PROVE  FileState' /\ MemoryNotSpent' /\ FileNotSpent' /\ ShownFollows'
    OBVIOUS
<1> USE NoneAssumption DEF TypeInv, TypeOK, OnlyIssued, ProcessState, Saves
<1>1. CASE Boot
      BY <1>1 DEF Boot, cloudVars, FileState, MemoryNotSpent, FileNotSpent, ShownFollows
<1>2. CASE MaybeRefresh
      BY <1>2 DEF MaybeRefresh, cloudVars, FileState, MemoryNotSpent, FileNotSpent, ShownFollows
<1>3. CASE AssertConnection
  <2>1. pc' \in {"refresh", "store", "code"} /\ pc = "assert"
        /\ UNCHANGED <<settings, running, mem, file, exact, shown, spent, lost>>
        BY <1>3 DEF AssertConnection, cloudVars
  <2> QED  BY <2>1 DEF FileState, MemoryNotSpent, FileNotSpent, ShownFollows
<1>4. CASE RefreshGranted
  <2>1. mem'.id = granted + 1 /\ mem' # None
    <3>1. PICK t \in Token, short \in BOOLEAN: Issue(t, short) /\ mem' = t
          BY <1>4 DEF RefreshGranted
    <3> QED  BY <3>1 DEF Issue, Token
  <2>2. granted + 1 \notin spent'
        BY <1>4 DEF RefreshGranted, Grant, Token
  <2>3. pc' = "store" /\ UNCHANGED <<settings, running, file, exact, shown, lost>>
        BY <1>4 DEF RefreshGranted
  <2>4. FileState' /\ ShownFollows'
        BY <2>1, <2>2, <2>3 DEF FileState, ShownFollows
  <2>5. FileNotSpent' /\ MemoryNotSpent'
        BY <2>1, <2>2, <2>3 DEF FileNotSpent, MemoryNotSpent
  <2> QED  BY <2>4, <2>5
<1>5. CASE RefreshFails
      BY <1>5 DEF RefreshFails, cloudVars, FileState, MemoryNotSpent, FileNotSpent, ShownFollows
<1>6. CASE RefreshReplyLost
      BY <1>6 DEF RefreshReplyLost, FileState, MemoryNotSpent, FileNotSpent, ShownFollows
<1>7. CASE FetchCode
      BY <1>7 DEF FetchCode, cloudVars, FileState, MemoryNotSpent, FileNotSpent, ShownFollows
<1>8. CASE LoginFails
      BY <1>8 DEF LoginFails, AfterFailure, cloudVars, FileState, MemoryNotSpent, FileNotSpent, ShownFollows
<1>9. CASE FetchToken
  <2>1. mem'.id = granted + 1 /\ mem' # None
    <3>1. PICK t \in Token, short \in BOOLEAN: Issue(t, short) /\ mem' = t
          BY <1>9 DEF FetchToken
    <3> QED  BY <3>1 DEF Issue, Token
  <2>2. granted + 1 \notin spent'
        BY <1>9 DEF FetchToken, Grant
  <2>3. pc' = "store" /\ UNCHANGED <<settings, running, file, exact, shown, lost>>
        BY <1>9 DEF FetchToken
  <2>4. FileState' /\ ShownFollows'
        BY <2>1, <2>2, <2>3 DEF FileState, ShownFollows
  <2>5. FileNotSpent' /\ MemoryNotSpent'
        BY <2>1, <2>2, <2>3 DEF FileNotSpent, MemoryNotSpent
  <2> QED  BY <2>4, <2>5
<1>10. CASE SkipPersist
       BY <1>10 DEF SkipPersist, SameToken, cloudVars, FileState, MemoryNotSpent, FileNotSpent, ShownFollows
<1>11. CASE OpenFile
       BY <1>11 DEF OpenFile, SameToken, cloudVars, FileState, MemoryNotSpent, FileNotSpent, ShownFollows
<1>12. CASE WriteFile
       BY <1>12 DEF WriteFile, cloudVars, FileState, MemoryNotSpent, FileNotSpent, ShownFollows
<1>13. CASE WriteFails
       BY <1>13 DEF WriteFails, cloudVars, FileState, MemoryNotSpent, FileNotSpent, ShownFollows
<1>14. CASE Notify
       BY <1>14 DEF Notify, cloudVars, FileState, MemoryNotSpent, FileNotSpent, ShownFollows
<1>15. CASE TokenComesNear
       BY <1>15 DEF TokenComesNear, FileState, MemoryNotSpent, FileNotSpent, ShownFollows
<1>16. CASE AccessDies
       BY <1>16 DEF AccessDies, FileState, MemoryNotSpent, FileNotSpent, ShownFollows
<1>17. CASE CloudChanges
       BY <1>17 DEF CloudChanges, FileState, MemoryNotSpent, FileNotSpent, ShownFollows
<1>18. CASE Shutdown
       BY <1>18 DEF Shutdown, ProcessEnds, cloudVars, FileState, MemoryNotSpent, FileNotSpent, ShownFollows
<1>19. CASE Crash
       BY <1>19 DEF Crash, ProcessEnds, cloudVars, FileState, MemoryNotSpent, FileNotSpent, ShownFollows
<1>20. CASE UNCHANGED vars
       BY <1>20 DEF vars, FileState, MemoryNotSpent, FileNotSpent, ShownFollows
<1> QED
    BY <1>1, <1>2, <1>3, <1>4, <1>5, <1>6, <1>7, <1>8, <1>9, <1>10, <1>11, <1>12, <1>13,
       <1>14, <1>15, <1>16, <1>17, <1>18, <1>19, <1>20 DEF Next, LoginStep

\* The invariant of the token manager (Login, PersistToken, the start and the
\* minute check) holds in every reachable state.
THEOREM SafetyInductive == Spec => []IInv
<1>1. Init => IInv
  <2> SUFFICES ASSUME Init PROVE IInv
      OBVIOUS
  <2> USE GrantsAssumption, CrashAssumption, NoneAssumption DEF Grant, Token
  <2>1. file \in Token \cup {None} /\ (file # None => file.id = 1) /\ 1 \in Grant
        BY DEF Init
  <2>2. TypeOK
    <3>1. /\ access \subseteq 1..granted
          /\ refreshable \subseteq 1..granted
          /\ near \subseteq 1..granted
          BY DEF Init
    <3>2. mem \in Token \cup {None} /\ shown \in Token \cup {None}
          /\ file \in Token \cup {None, Torn} /\ spent \subseteq 1..granted
          BY <2>1 DEF Init
    <3>3. /\ settings \in Settings
          /\ running \in BOOLEAN /\ connected \in BOOLEAN
          /\ cloudUp \in BOOLEAN /\ lost \in BOOLEAN /\ exact \in BOOLEAN
          BY DEF Init
    <3>4. pc = "down" /\ granted \in Grant /\ crashes \in 0..MaxCrashes
          BY DEF Init
    <3> QED  BY <3>1, <3>2, <3>3, <3>4 DEF TypeOK
  <2>3. OnlyIssued /\ ProcessState
        BY <2>1 DEF Init, OnlyIssued, ProcessState
  <2>4. FileState /\ MemoryNotSpent /\ FileNotSpent /\ ShownFollows
        BY <2>1 DEF Init, FileState, MemoryNotSpent, FileNotSpent, ShownFollows
  <2> QED  BY <2>2, <2>3, <2>4 DEF IInv
<1>2. IInv /\ [Next]_vars => IInv'
      BY StepTyped, StepSafe DEF IInv, TypeInv
<1> QED  BY <1>1, <1>2, PTL DEF Spec

\* The token, the file and the cloud's sets keep their types; a process past its
\* first login has a token.
THEOREM TypeCorrect == Spec => []TypeOK
<1>1. IInv => TypeOK
      BY DEF IInv
<1> QED  BY <1>1, SafetyInductive, PTL

\* Between two checks the config file holds the token in use, with its expiry
\* (PersistToken).
THEOREM DiskIsCurrent == Spec => []DiskFollowsMemory
<1>1. IInv => DiskFollowsMemory
      BY DEF IInv, ProcessState, FileState, Saves, DiskFollowsMemory
<1> QED  BY <1>1, SafetyInductive, PTL

\* A stopped bridge leaves no exchanged refresh token behind in the config file,
\* unless the successor was lost on its way (Login, PersistToken).
THEOREM RestartIsSafe == Spec => []RestartsFromLiveToken
<1>1. IInv => RestartsFromLiveToken
      BY DEF IInv, FileNotSpent, Saves, RestartsFromLiveToken
<1> QED  BY <1>1, SafetyInductive, PTL

\* The metrics show the token in use or nothing (onRefresh).
THEOREM MetricsAreCurrent == Spec => []ShownIsCurrent
<1>1. IInv => ShownIsCurrent
      BY DEF IInv, ShownFollows, ShownIsCurrent
<1> QED  BY <1>1, SafetyInductive, PTL

-----------------------------------------------------------------------------
(* The manager is a token source *)

\* A step that changes neither the token in use nor the tokens given out, and stays
\* in the phase it is in, is none of the source's.
LEMMA OtherStepsOutside ==
    ASSUME UNCHANGED <<running, mem, granted>>, Phase' = Phase
    PROVE  UNCHANGED Source!vars
  BY DEF Source!vars, CurrentAccess

\* Before the first login is done every step is part of the preparation.
LEMMA StepsPrepare ==
    ASSUME TypeInv, TypeInv', ~running, ~running', granted' \in {granted, granted + 1}
    PROVE  Source!Prepare
<1>1. Phase = "off" /\ Phase' = "off"
  BY DEF Phase
<1>2. CurrentAccess' \in 0..granted'
  BY DEF TypeInv, TypeOK, OnlyIssued, Grant, Token, CurrentAccess
<1> QED
  BY <1>1, <1>2 DEF Source!Prepare

\* A grant gives the next number, and the token that carries it.
LEMMA IssueNext ==
    ASSUME TypeInv, RefreshGranted \/ FetchToken
    PROVE  /\ granted' = granted + 1 /\ CurrentAccess' = granted + 1
           /\ pc \in {"refresh", "exchange"} /\ pc' = "store" /\ running' = running
<1>1. PICK t \in Token: t.id = granted + 1 /\ granted' = granted + 1 /\ mem' = t
  BY DEF RefreshGranted, FetchToken, Issue
<1>2. mem' # None
  BY <1>1, NoneAssumption
<1> QED
  BY <1>1, <1>2 DEF RefreshGranted, FetchToken, CurrentAccess

\* Each step of the manager is one of the source or a stutter: a grant renews the
\* token, a check that finds it good keeps it, a failure leaves it, the callback ends
\* the login, and nothing else reaches it while the process lives.
LEMMA StepRefines ==
    ASSUME TypeInv, TypeInv', [Next]_vars
    PROVE  [Source!Next]_(Source!vars)
<1> USE DEF Source!Next
<1>1. CASE Boot
  <2>1. ~running /\ ~running' /\ granted' = granted
    BY <1>1 DEF Boot, TypeInv, ProcessState, cloudVars
  <2> QED
    BY <2>1, StepsPrepare
<1>2. CASE MaybeRefresh
  <2>1. running /\ Phase = "idle" /\ Phase' = "login" /\ UNCHANGED <<mem, granted>>
    BY <1>2 DEF MaybeRefresh, Phase, TypeInv, ProcessState, cloudVars
  <2>2. Source!BeginLogin
    BY <2>1 DEF Source!BeginLogin, CurrentAccess
  <2> QED
    BY <2>2
<1>3. CASE AssertConnection
  <2>1. /\ pc = "assert" /\ pc' \in {"refresh", "store", "code"}
        /\ pc' = "store" => Works
        /\ UNCHANGED <<running, mem, granted>>
    BY <1>3 DEF AssertConnection, cloudVars
  <2>2. CASE ~running
    BY <2>1, <2>2, StepsPrepare
  <2>3. CASE running /\ pc' # "store"
    <3>1. Phase = "login" /\ Phase' = "login"
      BY <2>1, <2>3 DEF Phase
    <3> QED
      BY <2>1, <3>1, OtherStepsOutside
  <2>4. CASE running /\ pc' = "store"
    <3>1. Phase = "login" /\ Phase' = "storing"
      BY <2>1, <2>4 DEF Phase
    <3>2. CurrentAccess # 0
      BY <2>1, <2>4 DEF Works, TypeInv, TypeOK
    <3>3. Source!Keep
      BY <2>1, <3>1, <3>2 DEF Source!Keep, CurrentAccess
    <3> QED
      BY <3>3
  <2> QED
    BY <2>2, <2>3, <2>4
<1>4. CASE RefreshGranted \/ FetchToken
  <2>1. CASE ~running
    BY <1>4, <2>1, IssueNext, StepsPrepare
  <2>2. CASE running
    <3>1. Phase = "login" /\ Phase' = "storing"
      BY <1>4, <2>2, IssueNext DEF Phase
    <3>2. Source!Renew
      BY <1>4, <3>1, IssueNext DEF Source!Renew
    <3> QED
      BY <3>2
  <2> QED
    BY <2>1, <2>2
<1>5. CASE RefreshFails \/ RefreshReplyLost \/ FetchCode
  <2>1. /\ pc \in {"refresh", "code"} /\ pc' \in {"code", "exchange"}
        /\ UNCHANGED <<running, mem, granted>>
    BY <1>5 DEF RefreshFails, RefreshReplyLost, FetchCode, cloudVars
  <2>2. Phase' = Phase
    BY <2>1 DEF Phase
  <2> QED
    BY <2>1, <2>2, OtherStepsOutside
<1>6. CASE LoginFails
  <2>1. CASE ~running
    <3>1. ~running' /\ granted' = granted
      BY <1>6, <2>1 DEF LoginFails, cloudVars
    <3> QED
      BY <2>1, <3>1, StepsPrepare
  <2>2. CASE running
    <3>1. /\ pc \in {"code", "exchange"} /\ pc' = "idle"
          /\ UNCHANGED <<running, mem, granted>>
      BY <1>6, <2>2 DEF LoginFails, AfterFailure, cloudVars
    <3>2. Phase = "login" /\ Phase' = "idle"
      BY <2>2, <3>1 DEF Phase
    <3>3. Source!Fail
      BY <3>1, <3>2 DEF Source!Fail, CurrentAccess
    <3> QED
      BY <3>3
  <2> QED
    BY <2>1, <2>2
<1>7. CASE SkipPersist \/ OpenFile \/ WriteFile \/ WriteFails
  <2>1. /\ pc \in {"store", "write"} /\ pc' \in {"write", "notify"}
        /\ UNCHANGED <<running, mem, granted>>
    BY <1>7 DEF SkipPersist, OpenFile, WriteFile, WriteFails, cloudVars
  <2>2. Phase' = Phase
    BY <2>1 DEF Phase
  <2> QED
    BY <2>1, <2>2, OtherStepsOutside
<1>8. CASE Notify
  <2>1. pc = "notify" /\ pc' = "idle" /\ running' = TRUE /\ UNCHANGED <<mem, granted>>
    BY <1>8 DEF Notify, cloudVars
  <2>2. UNCHANGED <<CurrentAccess, granted>>
    BY <2>1 DEF CurrentAccess
  <2>3. CASE running
    <3>1. Phase = "storing" /\ Phase' = "idle"
      BY <2>1, <2>3 DEF Phase
    <3>2. Source!Store
      BY <2>2, <3>1 DEF Source!Store
    <3> QED
      BY <3>2
  <2>4. CASE ~running
    <3>1. Phase = "off" /\ Phase' = "idle"
      BY <2>1, <2>4 DEF Phase
    <3>2. Source!Start
      BY <2>2, <3>1 DEF Source!Start
    <3> QED
      BY <3>2
  <2> QED
    BY <2>3, <2>4 DEF TypeInv, TypeOK
<1>9. CASE TokenComesNear \/ AccessDies \/ CloudChanges
  <2>1. UNCHANGED <<pc, running, mem, granted>>
    BY <1>9 DEF TokenComesNear, AccessDies, CloudChanges
  <2>2. Phase' = Phase
    BY <2>1 DEF Phase
  <2> QED
    BY <2>1, <2>2, OtherStepsOutside
<1>10. CASE Shutdown \/ Crash
  <2>1. running' = FALSE /\ mem' = None /\ granted' = granted
    BY <1>10 DEF Shutdown, Crash, ProcessEnds, cloudVars
  <2>2. CASE ~running
    BY <2>1, <2>2, StepsPrepare
  <2>3. CASE running
    <3>1. Phase # "off" /\ Phase' = "off" /\ CurrentAccess' = 0
      BY <2>1, <2>3 DEF Phase, CurrentAccess
    <3>2. Source!End
      BY <2>1, <3>1 DEF Source!End
    <3> QED
      BY <3>2
  <2> QED
    BY <2>2, <2>3
<1>11. CASE UNCHANGED vars
  <2>1. UNCHANGED <<pc, running, mem, granted>>
    BY <1>11 DEF vars
  <2>2. Phase' = Phase
    BY <2>1 DEF Phase
  <2> QED
    BY <2>1, <2>2, OtherStepsOutside
<1> QED
  BY <1>1, <1>2, <1>3, <1>4, <1>5, <1>6, <1>7, <1>8, <1>9, <1>10, <1>11
  DEF Next, LoginStep

\* What Gateway takes the token manager for is what it is (Manager.Login,
\* CurrentAccessToken, maybeRefresh).
THEOREM ImplementsSource == Spec => TokenRefined
<1>1. Init => Source!Init
  BY GrantsAssumption DEF Init, Source!Init, Phase, CurrentAccess
<1>2. IInv /\ IInv' /\ [Next]_vars => [Source!Next]_(Source!vars)
  BY StepRefines DEF IInv, TypeInv
<1> QED
  BY <1>1, <1>2, SafetyInductive, PTL DEF Spec, TokenRefined, Source!Spec
=============================================================================

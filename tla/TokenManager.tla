---------------------------- MODULE TokenManager ----------------------------
(* The life of the Miele token: Manager.Login (src/app/miele/login/login.go), *)
(* its persistence (PersistToken in src/app/config/config.go), the start in    *)
(* src/app/main.go and the once-per-minute check of src/app/app.go, which      *)
(* restarts the event stream, through crashes and a cloud that rotates tokens. *)
(*                                                                            *)
(* A token stands for the grant that issued it; its access and refresh tokens *)
(* share that number.  Number 1 is the one the user put into the config file. *)
EXTENDS Integers, FiniteSets

CONSTANTS
    MaxGrants,    \* bound: tokens the cloud issues, the user's included
    MaxCrashes,   \* bound: crashes of the process
    None,         \* no token
    Torn          \* a config file cut off in the middle of a write

ASSUME GrantsAssumption == MaxGrants \in Nat \ {0}
ASSUME CrashAssumption == MaxCrashes \in Nat

Grant == 1..MaxGrants
\* refresh: RefreshToken # "", which neither the user nor the cloud need give.
Token == [id: Grant, refresh: BOOLEAN]
ASSUME NoneAssumption == None \notin Token /\ Torn \notin Token /\ None # Torn

Settings == [persist: BOOLEAN,   \* miele.persistToken
             password: BOOLEAN,  \* a user name and password the cloud accepts
             writable: BOOLEAN]  \* the file may be written

VARIABLES
    settings,    \* the configuration, fixed
    pc,          \* where the goroutine that logs in is; down: no process
    running,     \* the first login is done: app.start has run
    mem,         \* Manager.tok
    connected,   \* Login's local: the token in use works
    file,        \* miele.token of the config file
    exact,       \* its entry is as PersistToken would write it, the expiry included
    shown,       \* the token whose expiry the metrics show
    granted,     \* tokens issued so far
    access,      \* access tokens the cloud accepts
    refreshable, \* refresh tokens the cloud accepts
    near,        \* tokens recorded to expire within 24 hours, or expired
    cloudUp,     \* the cloud can be reached and answers
    spent,       \* refresh tokens that were exchanged for a new one (history)
    lost,        \* the file missed the successor of a spent token (history)
    crashes

cloudVars == <<granted, access, refreshable, near, cloudUp, spent>>
vars == <<settings, pc, running, mem, connected, file, exact, shown, granted,
          access, refreshable, near, cloudUp, spent, lost, crashes>>

-----------------------------------------------------------------------------
(* Helpers *)

NeedsRefresh(t) == t # None /\ t.id \in near

\* CurrentAccessToken
CurrentAccess == IF mem = None THEN 0 ELSE mem.id

\* The tokens that time and the cloud can still do something to that matters.
Held == {t.id: t \in {mem, file} \cap Token}

\* The refresh grant is tried before the password when there is something to try.
TriesRefresh_OnlyRejected(works) == mem # None /\ mem.refresh /\ ~works
TriesRefresh(works) ==
    mem # None /\ mem.refresh /\ (~works \/ NeedsRefresh(mem))

\* assertConnection: FetchDevices with the token in use.
Works == cloudUp /\ CurrentAccess \in access

\* tokensEqual, on the entry of the file and the one to be written.
SameToken_RefreshOnly(t) == file # None /\ file.refresh = t.refresh
SameToken(t) == file = t /\ exact

\* What becomes of the login when it is over: main gives up on the first one.
AfterFailure == IF running THEN "idle" ELSE "down"

\* The cloud issues the next token, possibly without a refresh token and
\* possibly with an expiry of a day or less.
Issue(t, short) ==
    /\ granted < MaxGrants
    /\ t.id = granted + 1
    /\ granted' = granted + 1
    /\ access' = access \cup {t.id}
    /\ near' = IF short THEN near \cup {t.id} ELSE near

Init ==
    /\ settings \in Settings
    /\ pc = "down"
    /\ running = FALSE
    /\ mem = None
    /\ connected = FALSE
    /\ file \in {None} \cup [id: {1}, refresh: BOOLEAN]
    /\ exact \in BOOLEAN /\ (exact => file # None)
    /\ shown = None
    /\ granted = 1
    /\ access \in SUBSET {1}
    /\ refreshable \in SUBSET {1}
    /\ near \in SUBSET {1}
    /\ cloudUp \in BOOLEAN
    /\ spent = {}
    /\ lost = FALSE
    /\ crashes = 0

-----------------------------------------------------------------------------
(* Start: LoadConfig, RecoverFromConfig, the first Login; then the check of    *)
(* every minute, which closes the stream before it logs in again               *)

\* A file that does not parse ends the process at once.
Boot ==
    /\ pc = "down"
    /\ file # Torn
    /\ mem' = file
    /\ pc' = "assert"
    /\ UNCHANGED <<settings, running, connected, file, exact, shown, cloudVars,
                   lost, crashes>>

MaybeRefresh ==
    /\ pc = "idle"
    /\ NeedsRefresh(mem)
    /\ pc' = "assert"
    /\ UNCHANGED <<settings, running, mem, connected, file, exact, shown, cloudVars,
                   lost, crashes>>

-----------------------------------------------------------------------------
(* Login *)

AssertConnection ==
    /\ pc = "assert"
    /\ connected' = Works
    /\ pc' = IF TriesRefresh(Works) THEN "refresh"
             ELSE IF Works THEN "store" ELSE "code"
    /\ UNCHANGED <<settings, running, mem, file, exact, shown, cloudVars, lost, crashes>>

\* The refresh grant.  The cloud may go on accepting the token it exchanged.
RefreshGranted ==
    /\ pc = "refresh"
    /\ cloudUp
    /\ mem.id \in refreshable
    /\ \E t \in Token, short \in BOOLEAN, keep \in BOOLEAN:
          /\ Issue(t, short)
          /\ mem' = t
          /\ refreshable' = (IF keep THEN refreshable ELSE refreshable \ {mem.id})
                            \cup (IF t.refresh THEN {t.id} ELSE {})
    /\ spent' = spent \cup {mem.id}
    /\ connected' = TRUE
    /\ pc' = "store"
    /\ UNCHANGED <<settings, running, file, exact, shown, cloudUp, lost, crashes>>

\* The cloud is away or refuses.
RefreshFails_GivesUp ==
    /\ pc = "refresh"
    /\ ~cloudUp \/ mem.id \notin refreshable
    /\ pc' = AfterFailure
    /\ mem' = IF running THEN mem ELSE None
    /\ connected' = FALSE
    /\ UNCHANGED <<settings, running, file, exact, shown, cloudVars, lost, crashes>>
RefreshFails ==
    /\ pc = "refresh"
    /\ ~cloudUp \/ mem.id \notin refreshable
    /\ connected' = FALSE
    /\ pc' = "code"
    /\ UNCHANGED <<settings, running, mem, file, exact, shown, cloudVars, lost, crashes>>

\* The token was exchanged, but the answer did not arrive.
RefreshReplyLost ==
    /\ pc = "refresh"
    /\ ~cloudUp
    /\ mem.id \in refreshable
    /\ refreshable' = refreshable \ {mem.id}
    /\ spent' = spent \cup {mem.id}
    /\ lost' = TRUE
    /\ connected' = FALSE
    /\ pc' = "code"
    /\ UNCHANGED <<settings, running, mem, file, exact, shown, granted, access, near,
                   cloudUp, crashes>>

FetchCode ==
    /\ pc = "code"
    /\ cloudUp
    /\ settings.password
    /\ pc' = "exchange"
    /\ UNCHANGED <<settings, running, mem, connected, file, exact, shown, cloudVars,
                   lost, crashes>>

\* FetchCode or FetchToken fails: the token in use is kept, Login returns the error.
LoginFails_Forgets ==
    /\ pc \in {"code", "exchange"}
    /\ ~cloudUp \/ ~settings.password
    /\ pc' = AfterFailure
    /\ mem' = None
    /\ connected' = FALSE
    /\ UNCHANGED <<settings, running, file, exact, shown, cloudVars, lost, crashes>>
LoginFails ==
    /\ pc \in {"code", "exchange"}
    /\ ~cloudUp \/ ~settings.password
    /\ pc' = AfterFailure
    /\ mem' = IF running THEN mem ELSE None
    /\ connected' = FALSE
    /\ UNCHANGED <<settings, running, file, exact, shown, cloudVars, lost, crashes>>

FetchToken ==
    /\ pc = "exchange"
    /\ cloudUp
    /\ \E t \in Token, short \in BOOLEAN:
          /\ Issue(t, short)
          /\ mem' = t
          /\ refreshable' = refreshable \cup (IF t.refresh THEN {t.id} ELSE {})
    /\ pc' = "store"
    /\ UNCHANGED <<settings, running, connected, file, exact, shown, cloudUp, spent,
                   lost, crashes>>

-----------------------------------------------------------------------------
(* PersistToken and the end of Login *)

\* Nothing is written: switched off, unreadable, unchanged, or the file cannot be opened.
SkipPersist ==
    /\ pc = "store"
    /\ \/ ~settings.persist \/ file = Torn \/ SameToken(mem)
       \/ ~settings.writable
    /\ pc' = "notify"
    /\ UNCHANGED <<settings, running, mem, connected, file, exact, shown, cloudVars,
                   lost, crashes>>

\* os.WriteFile truncates the file before it writes it.
OpenFile ==
    /\ pc = "store"
    /\ settings.persist
    /\ file # Torn
    /\ ~SameToken(mem)
    /\ settings.writable
    /\ file' = Torn
    /\ pc' = "write"
    /\ UNCHANGED <<settings, running, mem, connected, exact, shown, cloudVars, lost,
                   crashes>>

\* The file may get a token that it held before, with its expiry as it is now.
WriteFile ==
    /\ pc = "write"
    /\ file' = mem
    /\ exact' = TRUE
    /\ lost' = (lost /\ mem.id \in spent)
    /\ pc' = "notify"
    /\ UNCHANGED <<settings, running, mem, connected, shown, cloudVars, crashes>>

\* The device is full: what was written so far stays.
WriteFails ==
    /\ pc = "write"
    /\ pc' = "notify"
    /\ UNCHANGED <<settings, running, mem, connected, file, exact, shown, cloudVars,
                   lost, crashes>>

\* onRefresh, which app.start installs after the first login.
Notify_Skips ==
    /\ pc = "notify"
    /\ shown' = IF running /\ shown = None THEN mem ELSE shown
    /\ running' = TRUE
    /\ connected' = FALSE
    /\ pc' = "idle"
    /\ UNCHANGED <<settings, mem, file, exact, cloudVars, lost, crashes>>
Notify ==
    /\ pc = "notify"
    /\ shown' = IF running THEN mem ELSE shown
    /\ running' = TRUE
    /\ connected' = FALSE
    /\ pc' = "idle"
    /\ UNCHANGED <<settings, mem, file, exact, cloudVars, lost, crashes>>

LoginStep ==
    \/ AssertConnection \/ RefreshGranted \/ RefreshFails \/ FetchCode
    \/ LoginFails \/ FetchToken \/ SkipPersist \/ OpenFile \/ WriteFile \/ Notify

-----------------------------------------------------------------------------
(* The cloud and the clock, the end of the process *)

TokenComesNear ==
    /\ \E g \in Held \ near: near' = near \cup {g}
    /\ UNCHANGED <<settings, pc, running, mem, connected, file, exact, shown, granted,
                   access, refreshable, cloudUp, spent, lost, crashes>>

\* An access token expires or is revoked.
AccessDies ==
    /\ \E g \in Held \cap access: access' = access \ {g}
    /\ UNCHANGED <<settings, pc, running, mem, connected, file, exact, shown, granted,
                   refreshable, near, cloudUp, spent, lost, crashes>>

CloudChanges ==
    /\ cloudUp' = ~cloudUp
    /\ UNCHANGED <<settings, pc, running, mem, connected, file, exact, shown, granted,
                   access, refreshable, near, spent, lost, crashes>>

ProcessEnds ==
    /\ pc' = "down"
    /\ running' = FALSE
    /\ mem' = None
    /\ connected' = FALSE
    /\ shown' = None
    /\ UNCHANGED <<settings, file, exact, cloudVars>>

\* stop waits for the refresh goroutine.
Shutdown ==
    /\ pc = "idle"
    /\ ProcessEnds
    /\ UNCHANGED <<lost, crashes>>

Crash ==
    /\ pc # "down"
    /\ crashes < MaxCrashes
    /\ crashes' = crashes + 1
    /\ ProcessEnds
    /\ lost' = (lost \/ file # mem)

-----------------------------------------------------------------------------
(* Specification *)

Next ==
    \/ Boot \/ MaybeRefresh
    \/ LoginStep \/ RefreshReplyLost \/ WriteFails
    \/ TokenComesNear \/ AccessDies \/ CloudChanges
    \/ Shutdown \/ Crash

Spec == Init /\ [][Next]_vars

\* The supervisor starts the process again (production/docker-compose.yaml), the
\* ticker ticks, every request has a timeout and the file system answers.
Fairness ==
    /\ WF_vars(Boot)
    /\ WF_vars(MaybeRefresh)
    /\ WF_vars(LoginStep)

FairSpec == Spec /\ Fairness

-----------------------------------------------------------------------------
(* Properties that hold *)

TypeOK ==
    /\ settings \in Settings
    /\ pc \in {"down", "assert", "refresh", "code", "exchange", "store", "write",
               "notify", "idle"}
    /\ running \in BOOLEAN
    /\ mem \in Token \cup {None}
    /\ pc \in {"refresh", "store", "write", "notify", "idle"} => mem # None
    /\ connected \in BOOLEAN
    /\ file \in Token \cup {None, Torn}
    /\ exact \in BOOLEAN
    /\ shown \in Token \cup {None}
    /\ granted \in Grant
    /\ access \subseteq 1..granted
    /\ refreshable \subseteq 1..granted
    /\ near \subseteq 1..granted
    /\ cloudUp \in BOOLEAN
    /\ spent \subseteq 1..granted
    /\ lost \in BOOLEAN
    /\ crashes \in 0..MaxCrashes

\* Between two checks the config file holds the very token in use, with the expiry the
\* bridge goes by, unless the user forbade it or a write was cut off: however often it
\* was exchanged, and however the user wrote the first one.
DiskFollowsMemory ==
    pc = "idle" /\ settings.persist /\ settings.writable /\ file # Torn
        => file = mem /\ exact

\* A bridge that stopped leaves no refresh token behind that was already
\* exchanged, unless the answer to the exchange, or the moment to write it down,
\* was lost: these are the only ways a token-only configuration locks itself out.
RestartsFromLiveToken ==
    pc = "down" /\ settings.persist /\ settings.writable /\ ~lost
    /\ file \notin {None, Torn}
        => file.id \notin spent

\* The metrics never show the expiry of any token but the one in use, from the
\* first renewal on.
ShownIsCurrent == pc = "idle" /\ shown # None => shown = mem

Phase ==
    CASE ~running -> "off"
      [] running /\ pc = "idle" -> "idle"
      [] running /\ pc \in {"assert", "refresh", "code", "exchange"} -> "login"
      [] OTHER -> "storing"

Source == INSTANCE TokenSource WITH phase <- Phase, token <- CurrentAccess

\* To the rest of the bridge the manager is a token source: the token in use changes
\* under a login only, and then to the newest the cloud has given out, never back to
\* an older one; a login that fails leaves it.
TokenRefined == Source!Spec

\* A running bridge replaces a token that comes near its expiry, if it has a
\* refresh token, once the cloud stays reachable and the password is good,
\* whether or not the cloud still takes the refresh token.
NearTokenIsReplaced ==
    <>[](cloudUp /\ settings.password) =>
        \A g \in Grant:
            (pc = "idle" /\ mem.id = g /\ mem.refresh /\ NeedsRefresh(mem))
                ~> (mem = None \/ mem.id # g \/ granted = MaxGrants)

\* With a good password the bridge comes up again and again, whatever token the
\* file holds, once the cloud stays reachable, unless a crash or a full device has
\* destroyed the file.
ComesUp ==
    <>[](cloudUp /\ settings.password) =>
        []<>(pc = "idle" \/ file = Torn \/ granted = MaxGrants)

-----------------------------------------------------------------------------
(* The inductive invariant of the safety properties *)

Saves == settings.persist /\ settings.writable

\* Nobody holds a token that was never issued.
OnlyIssued ==
    /\ mem # None => mem.id <= granted
    /\ file \notin {None, Torn} => file.id <= granted

\* A process that is up and past its first login has a token; without one it has
\* shown nothing.
ProcessState ==
    /\ pc = "down" => ~running /\ mem = None
    /\ pc = "idle" => running
    /\ running => mem # None
    /\ ~running => shown = None

\* The file lags behind the memory only from a grant to its being stored.
FileState ==
    /\ pc = "write" => Saves /\ file = Torn
    /\ Saves /\ file # Torn =>
          /\ pc \in {"assert", "refresh", "code", "exchange", "notify", "idle"} => file = mem
          /\ pc = "store" => file = mem \/ mem.id \notin spent
          /\ running \/ pc = "notify" => exact

\* A token whose successor is known to nobody may be in use.
MemoryNotSpent == Saves /\ mem # None /\ mem.id \in spent => lost

FileNotSpent ==
    Saves /\ ~lost /\ file \notin {None, Torn} /\ (pc = "store" => file = mem)
        => file.id \notin spent

ShownFollows ==
    shown # None /\ pc \in {"assert", "refresh", "code", "exchange", "idle"} => shown = mem

IInv ==
    /\ TypeOK /\ OnlyIssued /\ ProcessState
    /\ FileState /\ MemoryNotSpent /\ FileNotSpent /\ ShownFollows

-----------------------------------------------------------------------------
(* Statements of the documents that the code does not keep *)

\* The next start after a hard crash goes on.
NextStartReads == pc = "down" => file # Torn

\* A token near its expiry is replaced, whatever the token.
NearTokenIsAlwaysReplaced ==
    <>[](cloudUp /\ settings.password) =>
        \A g \in Grant:
            (pc = "idle" /\ mem.id = g /\ NeedsRefresh(mem))
                ~> (mem = None \/ mem.id # g \/ granted = MaxGrants)
=============================================================================

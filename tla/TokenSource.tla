---------------------------- MODULE TokenSource ----------------------------
(* What the token manager of src/app/miele/login is to the rest of the bridge:  *)
(* a token that others read at any time, and that only a login replaces, by the *)
(* newest one the cloud has given out.  TokenManager implements it, and Gateway *)
(* is built on it.                                                              *)
EXTENDS Naturals

VARIABLES
    phase,    \* off: before app.start and after the end of the process; idle;
              \* login: the cloud is being asked; storing: the answer is dealt with
    token,    \* CurrentAccessToken(): the number of its grant, 0 when it is empty
    granted   \* tokens the cloud has given out

vars == <<phase, token, granted>>

Init == phase = "off" /\ token = 0 /\ granted \in Nat

\* The first login, before anybody reads the token: with the one from the file, with
\* a new one, or in vain.
Prepare ==
    /\ phase = "off"
    /\ granted' \in {granted, granted + 1}
    /\ token' \in 0..granted'
    /\ UNCHANGED phase

Start ==
    /\ phase = "off"
    /\ phase' = "idle"
    /\ UNCHANGED <<token, granted>>

BeginLogin ==
    /\ phase = "idle"
    /\ phase' = "login"
    /\ UNCHANGED <<token, granted>>

\* The new token is in use at once; the answer may lack it.
Renew ==
    /\ phase = "login"
    /\ phase' = "storing"
    /\ granted' = granted + 1
    /\ token' \in {0, granted'}

\* The token in use is found good.
Keep ==
    /\ phase = "login" /\ token # 0
    /\ phase' = "storing"
    /\ UNCHANGED <<token, granted>>

Fail ==
    /\ phase = "login"
    /\ phase' = "idle"
    /\ UNCHANGED <<token, granted>>

\* The file is written and the callback has run.
Store ==
    /\ phase = "storing"
    /\ phase' = "idle"
    /\ UNCHANGED <<token, granted>>

End ==
    /\ phase # "off"
    /\ phase' = "off"
    /\ token' = 0
    /\ UNCHANGED granted

Next == Prepare \/ Start \/ BeginLogin \/ Renew \/ Keep \/ Fail \/ Store \/ End

Spec == Init /\ [][Next]_vars
=============================================================================

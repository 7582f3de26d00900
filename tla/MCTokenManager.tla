--------------------------- MODULE MCTokenManager ---------------------------
(* TokenManager for TLC: the settings, the user's token and the state of the   *)
(* cloud are left open by Init, so that one run covers every configuration.    *)
EXTENDS TokenManager
=============================================================================

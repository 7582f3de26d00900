----------------------------- MODULE MCGateway -----------------------------
(* Gateway for TLC: both modes, one renewal after the first login, and one     *)
(* that may bring an empty token.                                             *)
EXTENDS Gateway

MCModes == {"sse", "polling"}
=============================================================================

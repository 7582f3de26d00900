---------------------------- MODULE MCSSEParser ----------------------------
(* SSEParser for TLC.                                                         *)
EXTENDS SSEParser
=============================================================================

---------------------------- MODULE MCSSEClient ----------------------------
(* SSEClient for TLC.  The delays are those of a base of 1 and a maximum of 8, *)
(* whose table buildBackoffTable gives as <<6, 8>> (see module BackoffTable).  *)
EXTENDS SSEClient

MCStepTable == <<6, 8>>
=============================================================================

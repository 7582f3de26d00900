--------------------------- MODULE MCBackoffTable ---------------------------
(* BackoffTable for TLC: delays in seconds, the defaults of the code, and a     *)
(* Duration of 16 bits.  5462 is the largest maximum that leaves room for a     *)
(* step of six.                                                               *)
EXTENDS BackoffTable

MCDelays ==
    {-3, 0, 1, 2, 5, 7, 30, 36, 100, 600, 3600, 5462, 5463, 30000, 32767}
MCThresholds == {-1, 0, 1, 5}
=============================================================================

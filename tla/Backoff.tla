------------------------------ MODULE Backoff ------------------------------
(* The reconnect delays of the SSE client (src/app/miele/sse/sse.go) as pure *)
(* operators.  A delay is a natural number of some unit of time.             *)
EXTENDS Integers, Sequences

\* What the client relies on of the precomputed step table: it is not empty,
\* starts no lower than the base delay, never steps down and ends at max.
IsBackoffTable(table, base, max) ==
    /\ table \in Seq(Nat)
    /\ table # <<>>
    /\ table[1] >= base
    /\ \A i, j \in 1..Len(table): i <= j => table[i] <= table[j]
    /\ table[Len(table)] = max

\* Index into the table at a streak at or beyond the threshold, saturating at
\* the last entry (the code's idx is zero based).
StepIndex(table, threshold, streak) ==
    IF streak - threshold + 1 <= Len(table)
    THEN streak - threshold + 1
    ELSE Len(table)

\* The delay before the next attempt after `streak` consecutive failures.
DelayAfter(table, base, threshold, streak) ==
    IF streak < threshold
    THEN base
    ELSE table[StepIndex(table, threshold, streak)]
=============================================================================

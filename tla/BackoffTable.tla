---------------------------- MODULE BackoffTable ----------------------------
(* From the sse-backoff section of the config file (src/app/config/config.go)  *)
(* to the step table of a client: what LoadConfig accepts, how Start            *)
(* (src/app/miele/sse/sse.go) settles the delays and how buildBackoffTable      *)
(* computes the table, with time.Duration's width.                             *)
EXTENDS Backoff

CONSTANTS
    MaxDuration,       \* the largest time.Duration (2^63 - 1 in the code)
    DefaultBase,       \* 5 seconds
    DefaultMax,        \* 10 minutes
    DefaultThreshold,  \* 5 failures
    Unset,             \* a delay that is not in the file
    Invalid,           \* a delay that is not a duration
    Delays,            \* values of the three delay options, 0 and below included
    Thresholds,        \* values of Options.FailureThreshold
    MaxSteps           \* bound: entries after which the loop is cut off

ASSUME DurationAssumption == MaxDuration \in Nat
ASSUME DefaultsAssumption ==
    /\ DefaultBase \in 1..MaxDuration
    /\ DefaultMax \in 1..MaxDuration
    /\ DefaultThreshold \in Nat \ {0}
ASSUME FileAssumption == Unset \notin Int /\ Invalid \notin Int
Durations == (0 - MaxDuration - 1)..MaxDuration
ASSUME InputsAssumption == Delays \subseteq Durations /\ Thresholds \subseteq Int
ASSUME StepsAssumption == MaxSteps \in Nat

VARIABLES
    pc,         \* file, rejected, start, build, loop, done
    base,       \* base-delay in the file, then opts.BaseReconnectDelay
    reconnect,  \* opts.ReconnectDelay
    max,        \* max-delay in the file, then opts.MaxReconnectDelay
    threshold,  \* failure-threshold in the file, then opts.FailureThreshold
    d,          \* the loop variable of buildBackoffTable
    table       \* the table built so far

vars == <<pc, base, reconnect, max, threshold, d, table>>

\* Two's complement: a value that does not fit a Duration is reduced to one.
Wrap(x) ==
    IF x \in Durations
    THEN x
    ELSE ((x + MaxDuration + 1) % (2 * (MaxDuration + 1))) - (MaxDuration + 1)

\* The next value of the loop variable: six times the last.
Growth_Plus(x) == Wrap(x + 6)
Growth_FromBase(x) == Wrap(6 * base)
Growth(x) == Wrap(6 * x)

OrDefault(value, default) == IF value > 0 THEN value ELSE default

\* The maximum Start settles on: never below the base.
SettledMax_NotRaised(b) == OrDefault(max, DefaultMax)
SettledMax(b) ==
    IF OrDefault(max, DefaultMax) < b THEN b ELSE OrDefault(max, DefaultMax)

\* The bridge starts from its file, which knows nothing of ReconnectDelay; a caller
\* of Start may give any options.
Init ==
    /\ \/ /\ pc = "file"
          /\ base \in Delays \cup {Unset, Invalid}
          /\ max \in Delays \cup {Unset, Invalid}
          /\ reconnect = 0
       \/ /\ pc = "start"
          /\ base \in Delays
          /\ max \in Delays
          /\ reconnect \in Delays
    /\ threshold \in Thresholds
    /\ d = 0
    /\ table = <<>>

\* ApplyDefaults fills in what is not there; a delay that is there is taken as it
\* is, zero and below included.  The client's options are the parsed values.
LoadConfig ==
    /\ pc = "file"
    /\ Invalid \notin {base, max}
    /\ pc' = "start"
    /\ base' = IF base = Unset THEN DefaultBase ELSE base
    /\ max' = IF max = Unset THEN DefaultMax ELSE max
    /\ threshold' = OrDefault(threshold, DefaultThreshold)
    /\ UNCHANGED <<reconnect, d, table>>

\* parseSSEBackoff fails: the process does not come up.
RejectConfig ==
    /\ pc = "file"
    /\ Invalid \in {base, max}
    /\ pc' = "rejected"
    /\ UNCHANGED <<base, reconnect, max, threshold, d, table>>

\* Start fills in the options.
Start ==
    /\ pc = "start"
    /\ pc' = "build"
    /\ base' = OrDefault(base, OrDefault(reconnect, DefaultBase))
    /\ max' = SettledMax(OrDefault(base, OrDefault(reconnect, DefaultBase)))
    /\ threshold' = OrDefault(threshold, DefaultThreshold)
    /\ UNCHANGED <<reconnect, d, table>>

\* max <= base: a single step.
SingleStep ==
    /\ pc = "build"
    /\ max <= base
    /\ pc' = "done"
    /\ table' = <<max>>
    /\ UNCHANGED <<base, reconnect, max, threshold, d>>

EnterLoop ==
    /\ pc = "build"
    /\ max > base
    /\ pc' = "loop"
    /\ d' = Growth(base)
    /\ UNCHANGED <<base, reconnect, max, threshold, table>>

AddStep ==
    /\ pc = "loop"
    /\ d < max
    /\ Len(table) < MaxSteps
    /\ table' = Append(table, d)
    /\ d' = Growth(d)
    /\ UNCHANGED <<pc, base, reconnect, max, threshold>>

AddMax ==
    /\ pc = "loop"
    /\ d >= max
    /\ pc' = "done"
    /\ table' = Append(table, max)
    /\ UNCHANGED <<base, reconnect, max, threshold, d>>

Next == LoadConfig \/ RejectConfig \/ Start \/ SingleStep \/ EnterLoop \/ AddStep \/ AddMax

Spec == Init /\ [][Next]_vars
FairSpec == Spec /\ WF_vars(Next)

-----------------------------------------------------------------------------
(* Properties *)

\* The settled maximum leaves room for six times every value the loop goes on with.
Fits == max - 1 <= MaxDuration \div 6

Smaller(x, y) == IF x < y THEN x ELSE y

TypeOK ==
    /\ pc \in {"file", "rejected", "start", "build", "loop", "done"}
    /\ reconnect \in Int
    /\ threshold \in Int
    /\ pc \in {"file", "rejected"} =>
          base \in Int \cup {Unset, Invalid} /\ max \in Int \cup {Unset, Invalid}
    /\ pc = "start" => base \in Int /\ max \in Int
    /\ pc \in {"build", "loop", "done"} =>
          /\ base \in 1..MaxDuration
          /\ max \in base..MaxDuration
          /\ threshold \in Nat \ {0}
    /\ d \in Durations
    /\ table \in Seq(Durations)

\* The maximum is in the table once, at its end: no step is wasted on waiting
\* the maximum twice before the index saturates.
EndsAtMax ==
    /\ table # <<>>
    /\ table[Len(table)] = max
    /\ \A i \in 1..(Len(table) - 1): table[i] < max

\* Whatever the accepted file or the caller says, a table that buildBackoffTable
\* returns can be indexed without care and ends at the maximum, no lower than the
\* base, which comes once.  It starts at the base or above and never steps down if
\* the maximum is no more than a sixth of the largest Duration; beyond, the product
\* wraps and steps may be lower than the base, or negative.
TableUsable ==
    pc = "done" => /\ EndsAtMax
                   /\ base \in 1..max
                   /\ threshold \in Nat \ {0}
                   /\ Fits => IsBackoffTable(table, base, max)

\* The powers of six.
Power[n \in Nat] == IF n = 0 THEN 1 ELSE 6 * Power[n - 1]

\* Unless a product wraps, the steps are the base times the powers of six, cut off
\* at the maximum.
TableIsExponential ==
    pc = "done" /\ Fits => \A i \in 1..Len(table): table[i] = Smaller(base * Power[i], max)

\* The loop variable has lost all its bits to the wrap: six times zero is zero.
Stuck == pc = "loop" /\ d = 0

\* The loop of buildBackoffTable ends for every file that is not rejected, with one
\* exception: a maximum whose sixfold wraps, under which the loop variable may reach
\* zero before it reaches the maximum, and the loop goes on for ever.
TableIsBuilt == <>(pc \in {"done", "rejected"} \/ (Stuck /\ ~Fits))

-----------------------------------------------------------------------------
(* Statements of the comments that the code does not keep near the largest      *)
(* Duration                                                                    *)

\* Steps grow about sixfold each.
StepsGrow == pc = "done" => IsBackoffTable(table, base, max)

\* buildBackoffTable returns.
TableIsReturned == <>(pc \in {"done", "rejected"})
=============================================================================

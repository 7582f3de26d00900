------------------------- MODULE BackoffTableProofs -------------------------
(* Whatever file is accepted and whatever options Start is given, the client    *)
(* gets a table that it can index and that ends at the maximum; as long as no  *)
(* product in the loop wraps, it is the table the client's proofs assume.      *)
EXTENDS BackoffTable, TLAPS

\* The steps of a table under construction: from the base up, none above the loop
\* variable.
Rising ==
    /\ base <= d
    /\ \A i \in 1..Len(table): base <= table[i] /\ table[i] <= d
    /\ \A i, j \in 1..Len(table): i <= j => table[i] <= table[j]

\* The inductive invariant of Start and buildBackoffTable.
Building ==
    /\ TypeOK
    /\ pc = "file" => /\ base \in Delays \cup {Unset, Invalid}
                      /\ max \in Delays \cup {Unset, Invalid}
                      /\ reconnect = 0
    /\ pc = "start" => /\ base \in Delays \cup {DefaultBase}
                       /\ max \in Delays \cup {DefaultMax}
                       /\ reconnect \in Delays \cup {0}
    /\ pc \in {"file", "start", "build"} => table = <<>>
    /\ pc = "loop" => /\ base < max
                      /\ \A i \in 1..Len(table): table[i] < max
                      /\ Fits => Rising
    /\ pc = "done" => EndsAtMax /\ (Fits => IsBackoffTable(table, base, max))

\* A product that does not fit is reduced to a Duration.
LEMMA WrapTyped == \A x \in Int: Wrap(x) \in Durations
<1> SUFFICES ASSUME NEW x \in Int, x \notin Durations PROVE Wrap(x) \in Durations
  BY DEF Wrap
<1> DEFINE n == 2 * (MaxDuration + 1)
           r == (x + MaxDuration + 1) % n
<1>1. n \in Nat \ {0} /\ x + MaxDuration + 1 \in Int
  BY DurationAssumption
<1>2. \A a \in Int, b \in Nat \ {0}: a % b \in 0..(b - 1)
  OBVIOUS
<1>3. r \in 0..(n - 1)
  BY <1>1, <1>2
<1>4. Wrap(x) = r - (MaxDuration + 1)
  BY DEF Wrap
<1> HIDE DEF r
<1> QED
  BY <1>3, <1>4, DurationAssumption DEF Durations

\* Below a maximum that fits, one round of the loop multiplies by six.
LEMMA GrowthFits ==
    ASSUME Fits, max \in Nat, NEW x \in Nat, x < max
    PROVE  Growth(x) = 6 * x /\ 6 * x \in Nat
<1>1. x <= MaxDuration \div 6
  BY DurationAssumption DEF Fits
<1>2. 6 * x <= MaxDuration
  BY <1>1, DurationAssumption
<1>3. 6 * x \in Durations
  BY <1>2, DurationAssumption DEF Durations
<1> QED
  BY <1>3 DEF Growth, Wrap

\* Appending a value no smaller than any entry keeps a sequence rising.
LEMMA AppendRises ==
    ASSUME NEW seq \in Seq(Durations), NEW last \in Durations
    PROVE  LET longer == Append(seq, last) IN
           /\ longer \in Seq(Durations)
           /\ Len(longer) = Len(seq) + 1
           /\ longer[Len(longer)] = last
           /\ \A i \in 1..Len(seq): longer[i] = seq[i]
           /\ /\ \A i \in 1..Len(seq): seq[i] <= last
              /\ \A i, j \in 1..Len(seq): i <= j => seq[i] <= seq[j]
              => \A i, j \in 1..Len(longer): i <= j => longer[i] <= longer[j]
<1> DEFINE longer == Append(seq, last)
<1>1. /\ longer \in Seq(Durations)
      /\ Len(longer) = Len(seq) + 1
      /\ longer[Len(seq) + 1] = last
      /\ \A i \in 1..Len(seq): longer[i] = seq[i]
  OBVIOUS
<1>2. Len(seq) \in Nat /\ last \in Int
  BY DEF Durations
<1> HIDE DEF longer
<1>3. ASSUME \A i \in 1..Len(seq): seq[i] <= last,
             \A i, j \in 1..Len(seq): i <= j => seq[i] <= seq[j],
             NEW i \in 1..Len(longer), NEW j \in 1..Len(longer), i <= j
      PROVE  longer[i] <= longer[j]
  <2>1. CASE j <= Len(seq)
    BY <1>1, <1>2, <1>3, <2>1
  <2>2. CASE j = Len(seq) + 1 /\ i <= Len(seq)
    BY <1>1, <1>2, <1>3, <2>2
  <2>3. CASE j = Len(seq) + 1 /\ i = Len(seq) + 1
    BY <1>1, <1>2, <2>3
  <2> QED
    BY <1>1, <1>2, <1>3, <2>1, <2>2, <2>3
<1> QED
  BY <1>1, <1>3 DEF longer

\* Entries no lower than a positive one are natural numbers.
LEMMA EntriesNatural ==
    ASSUME NEW seq \in Seq(Durations), NEW low \in Nat,
           \A i \in 1..Len(seq): low <= seq[i]
    PROVE  seq \in Seq(Nat)
<1>1. \A i \in 1..Len(seq): seq[i] \in Nat
  <2>1. \A i \in 1..Len(seq): seq[i] \in Durations
    OBVIOUS
  <2>2. \A x \in Durations: low <= x => x \in Nat
    BY DurationAssumption DEF Durations
  <2> QED
    BY <2>1, <2>2
<1>2. seq = [i \in 1..Len(seq) |-> seq[i]] /\ Len(seq) \in Nat
  OBVIOUS
<1> QED
  BY <1>1, <1>2

\* Reading the file, settling the options and building the table keep it.
LEMMA BuildingInvariant == Spec => []Building
<1>1. Init => Building
  <2>1. 0 \in Durations /\ Durations \subseteq Int
    BY DurationAssumption DEF Durations
  <2>2. Delays \subseteq Int /\ Thresholds \subseteq Int
    BY <2>1, InputsAssumption
  <2>3. <<>> \in Seq(Durations)
    OBVIOUS
  <2> QED
    BY <2>1, <2>2, <2>3 DEF Init, Building, TypeOK
<1>2. ASSUME Building, [Next]_vars PROVE Building'
  <2> USE DurationAssumption
  <2>1. CASE Start
    <3> DEFINE b == OrDefault(base, OrDefault(reconnect, DefaultBase))
               m == SettledMax(b)
    <3>1. /\ pc = "start" /\ table = <<>> /\ d \in Durations /\ reconnect \in Int
          /\ base \in Delays \cup {DefaultBase} /\ max \in Delays \cup {DefaultMax}
          /\ reconnect \in Delays \cup {0}
          /\ threshold \in Int
      BY <1>2, <2>1 DEF Start, Building, TypeOK
    <3>2. /\ b \in 1..MaxDuration
          /\ OrDefault(max, DefaultMax) \in 1..MaxDuration
      BY <3>1, InputsAssumption, DefaultsAssumption DEF OrDefault, Durations
    <3>3. m \in b..MaxDuration
      BY <3>2 DEF SettledMax
    <3>4. OrDefault(threshold, DefaultThreshold) \in Nat \ {0}
      BY <3>1, DefaultsAssumption DEF OrDefault
    <3>5. /\ pc' = "build" /\ base' = b /\ max' = m /\ UNCHANGED <<reconnect, d, table>>
          /\ threshold' = OrDefault(threshold, DefaultThreshold)
      BY <2>1 DEF Start
    <3> HIDE DEF b, m
    <3> QED
      BY <3>1, <3>2, <3>3, <3>4, <3>5 DEF Building, TypeOK
  <2>2. CASE SingleStep
    <3>1. /\ base \in 1..MaxDuration /\ max = base
      BY <1>2, <2>2 DEF SingleStep, Building, TypeOK
    <3>2. table' = <<max>> /\ pc' = "done" /\ UNCHANGED <<base, reconnect, max, threshold, d>>
      BY <2>2 DEF SingleStep
    <3>3. IsBackoffTable(<<max>>, base, max)
      BY <3>1 DEF IsBackoffTable
    <3>4. IsBackoffTable(table, base, max)'
      BY <3>2, <3>3
    <3>5. max \in Durations
      BY <3>1 DEF Durations
    <3>6. table' \in Seq(Durations)
      BY <3>2, <3>5
    <3>7. TypeOK'
      BY <1>2, <2>2, <3>1, <3>2, <3>6 DEF SingleStep, Building, TypeOK
    <3>8. EndsAtMax'
      BY <3>2 DEF EndsAtMax
    <3> QED
      BY <3>2, <3>4, <3>7, <3>8 DEF Building
  <2>3. CASE EnterLoop
    <3>1. /\ base \in 1..MaxDuration /\ max \in 1..MaxDuration /\ base < max
          /\ table = <<>> /\ pc' = "loop" /\ d' = Growth(base)
          /\ UNCHANGED <<base, reconnect, max, threshold, table>>
      BY <1>2, <2>3 DEF EnterLoop, Building, TypeOK
    <3>2. d' \in Durations
      BY <3>1, WrapTyped DEF Growth
    <3>3. Fits => base <= d'
      BY <3>1, GrowthFits
    <3>4. TypeOK'
      BY <1>2, <2>3, <3>1, <3>2 DEF EnterLoop, Building, TypeOK
    <3>5. Fits' => Rising'
      BY <3>1, <3>3 DEF Fits, Rising
    <3> QED
      BY <3>1, <3>4, <3>5 DEF Building
  <2>4. CASE AddStep
    <3>1. /\ base \in 1..MaxDuration /\ max \in 1..MaxDuration /\ base < max
          /\ table \in Seq(Durations) /\ d \in Durations /\ d < max
          /\ \A i \in 1..Len(table): table[i] < max
          /\ Fits => Rising
      BY <1>2, <2>4 DEF AddStep, Building, TypeOK
    <3>2. /\ table' = Append(table, d) /\ d' = Growth(d)
          /\ pc = "loop" /\ pc' = "loop" /\ UNCHANGED <<base, reconnect, max, threshold>>
      BY <2>4 DEF AddStep
    <3>3. d' \in Durations
      BY <3>1, <3>2, WrapTyped DEF Growth, Durations
    <3>4. /\ table' \in Seq(Durations)
          /\ Len(table') = Len(table) + 1 /\ Len(table) \in Nat
          /\ table'[Len(table')] = d
          /\ \A i \in 1..Len(table): table'[i] = table[i]
          /\ /\ \A i \in 1..Len(table): table[i] <= d
             /\ \A i, j \in 1..Len(table): i <= j => table[i] <= table[j]
             => \A i, j \in 1..Len(table'): i <= j => table'[i] <= table'[j]
      BY <3>1, <3>2, AppendRises
    <3>5. \A i \in 1..Len(table'): i = Len(table') \/ i \in 1..Len(table)
      BY <3>4
    <3>6. \A i \in 1..Len(table'): table'[i] < max
      BY <3>1, <3>4, <3>5
    <3>7. ASSUME Fits PROVE Rising'
      <4>1. Rising
        BY <3>1, <3>7
      <4>2. d \in Nat /\ base <= d
        BY <3>1, <4>1 DEF Rising, Durations
      <4>3. d' = 6 * d
        BY <3>1, <3>2, <3>7, <4>2, GrowthFits
      <4>4. d <= d' /\ base <= d' /\ d' \in Int
        BY <3>1, <4>2, <4>3
      <4>5. \A i \in 1..Len(table): base <= table[i] /\ table[i] <= d /\ table[i] \in Int
        BY <3>1, <4>1 DEF Rising, Durations
      <4>6. ASSUME NEW i \in 1..Len(table') PROVE base <= table'[i] /\ table'[i] <= d'
        <5>1. CASE i = Len(table')
          BY <3>4, <4>2, <4>4, <5>1
        <5>2. CASE i \in 1..Len(table)
          <6>1. table'[i] = table[i] /\ base <= table[i] /\ table[i] <= d /\ table[i] \in Int
            BY <3>4, <4>5, <5>2
          <6> QED
            BY <4>2, <4>4, <6>1
        <5> QED
          BY <3>5, <5>1, <5>2
      <4> QED
        BY <3>2, <3>4, <4>1, <4>4, <4>6 DEF Rising
    <3>8. Fits' => Rising'
      BY <3>2, <3>7 DEF Fits
    <3>9. TypeOK'
      BY <1>2, <3>1, <3>2, <3>3, <3>4 DEF Building, TypeOK
    <3> QED
      BY <3>1, <3>2, <3>6, <3>8, <3>9 DEF Building
  <2>5. CASE AddMax
    <3>1. /\ base \in 1..MaxDuration /\ max \in 1..MaxDuration /\ base < max
          /\ table \in Seq(Durations)
          /\ \A i \in 1..Len(table): table[i] < max
          /\ Fits => Rising
      BY <1>2, <2>5 DEF AddMax, Building, TypeOK
    <3>2. /\ table' = Append(table, max) /\ pc' = "done"
          /\ UNCHANGED <<base, reconnect, max, threshold, d>>
      BY <2>5 DEF AddMax
    <3>3. max \in Durations
      BY <3>1 DEF Durations
    <3>4. /\ table' \in Seq(Durations)
          /\ Len(table') = Len(table) + 1 /\ Len(table) \in Nat
          /\ table'[Len(table')] = max
          /\ \A i \in 1..Len(table): table'[i] = table[i]
          /\ /\ \A i \in 1..Len(table): table[i] <= max
             /\ \A i, j \in 1..Len(table): i <= j => table[i] <= table[j]
             => \A i, j \in 1..Len(table'): i <= j => table'[i] <= table'[j]
      BY <3>1, <3>2, <3>3, AppendRises
    <3>5. table' # <<>>
      BY <3>4
    <3>6. EndsAtMax'
      BY <3>1, <3>2, <3>4, <3>5 DEF EndsAtMax
    <3>7. ASSUME Fits PROVE IsBackoffTable(table', base, max)
      <4>1. Rising
        BY <3>1, <3>7
      <4>2. \A i \in 1..Len(table): table[i] <= max /\ base <= table[i]
        BY <3>1, <4>1 DEF Rising, Durations
      <4>3. \A i \in 1..Len(table'): base <= table'[i]
        BY <3>1, <3>4, <4>2
      <4>4. table' \in Seq(Nat)
        <5>1. base \in Nat /\ table' \in Seq(Durations)
          BY <3>1, <3>4
        <5> QED
          BY <4>3, <5>1, EntriesNatural
      <4>5. 1 \in 1..Len(table')
        BY <3>4
      <4> HIDE DEF Rising
      <4> QED
        BY <3>4, <3>5, <4>1, <4>2, <4>3, <4>4, <4>5 DEF IsBackoffTable, Rising
    <3>8. (Fits => IsBackoffTable(table, base, max))'
      BY <3>2, <3>7 DEF Fits
    <3>9. TypeOK'
      BY <1>2, <2>5, <3>2, <3>4 DEF AddMax, Building, TypeOK
    <3> QED
      BY <3>2, <3>6, <3>8, <3>9 DEF Building
  <2>6. CASE UNCHANGED vars
    BY <1>2, <2>6 DEF vars, Building, TypeOK, Rising, EndsAtMax, Fits
  <2>7. CASE LoadConfig
    <3>1. /\ pc = "file" /\ table = <<>> /\ d \in Durations /\ reconnect = 0
          /\ base \in Delays \cup {Unset} /\ max \in Delays \cup {Unset}
          /\ threshold \in Int
      BY <1>2, <2>7 DEF LoadConfig, Building, TypeOK
    <3>2. /\ pc' = "start" /\ UNCHANGED <<reconnect, d, table>>
          /\ base' \in Delays \cup {DefaultBase} /\ max' \in Delays \cup {DefaultMax}
          /\ threshold' \in Int
      BY <2>7, <3>1, DefaultsAssumption DEF LoadConfig, OrDefault
    <3>3. base' \in Int /\ max' \in Int
      BY <3>2, InputsAssumption, DefaultsAssumption DEF Durations
    <3> QED
      BY <3>1, <3>2, <3>3 DEF Building, TypeOK
  <2>8. CASE RejectConfig
    BY <1>2, <2>8 DEF RejectConfig, Building, TypeOK
  <2> QED
    BY <1>2, <2>1, <2>2, <2>3, <2>4, <2>5, <2>6, <2>7, <2>8 DEF Next
<1> QED
  BY <1>1, <1>2, PTL DEF Spec

\* For every width of a Duration, every file and every options, the wrap of the
\* product included: the settled options are positive and in order, and what the loop
\* computes stays a Duration.
THEOREM TypeCorrect == Spec => []TypeOK
<1>1. Building => TypeOK
  BY DEF Building
<1> QED
  BY <1>1, BuildingInvariant, PTL

\* A table that is returned, for any file that is accepted and any options given to
\* Start, can be indexed and ends at the maximum, which it reaches once; if no product
\* wraps below that maximum, it never steps down and is what the client's proofs assume.
THEOREM TableIsUsable == Spec => []TableUsable
<1>1. Building => TableUsable
  BY DEF Building, TypeOK, TableUsable
<1> QED
  BY <1>1, BuildingInvariant, PTL

-----------------------------------------------------------------------------
(* The table's entries *)

Same(n) == n
SixTimes(g, n) == IF n = 0 THEN 1 ELSE 6 * g[n - 1]
Powers == INSTANCE Recursion WITH Domain <- Nat, Rank <- Same, Def <- SixTimes

\* The powers of six are what their definition says.
LEMMA PowerEquation ==
    /\ Power[0] = 1
    /\ \A n \in Nat: Power[n + 1] = 6 * Power[n]
    /\ \A n \in Nat: Power[n] \in Nat \ {0}
<1>1. Power = [n \in Nat |-> SixTimes(Power, n)]
  <2>1. \A n \in Nat: Same(n) \in Nat
    BY DEF Same
  <2>2. Powers!Descends
    BY DEF Powers!Descends, Same, SixTimes
  <2>3. Power = CHOOSE g: g = [n \in Nat |-> SixTimes(g, n)]
    BY DEF Power, SixTimes
  <2> QED
    BY <2>1, <2>2, <2>3, Powers!RecursiveFunction
<1>2. Power[0] = 1
  BY <1>1 DEF SixTimes
<1>3. \A n \in Nat: Power[n + 1] = 6 * Power[n]
  <2> SUFFICES ASSUME NEW n \in Nat PROVE Power[n + 1] = 6 * Power[n]
    OBVIOUS
  <2>1. n + 1 \in Nat /\ n + 1 # 0 /\ (n + 1) - 1 = n
    OBVIOUS
  <2>2. Power[n + 1] = SixTimes(Power, n + 1)
    BY <1>1, <2>1
  <2> QED
    BY <2>1, <2>2 DEF SixTimes
<1>4. \A n \in Nat: Power[n] \in Nat \ {0}
  <2> DEFINE S == {n \in Nat: Power[n] \notin Nat \ {0}}
  <2> SUFFICES ASSUME S # {} PROVE FALSE
    OBVIOUS
  <2>1. PICK m \in S: \A n \in S: m <= n
    <3>1. S \in SUBSET Nat
      OBVIOUS
    <3> QED
      BY <3>1, Powers!LeastNatural
  <2>2. m # 0
    BY <1>2
  <2>3. m - 1 \in Nat /\ m - 1 \notin S /\ (m - 1) + 1 = m
    BY <2>1, <2>2
  <2>4. Power[m - 1] \in Nat \ {0}
    BY <2>3
  <2>5. Power[m] = 6 * Power[m - 1]
    BY <1>3, <2>3
  <2> QED
    BY <2>4, <2>5
<1> QED
  BY <1>2, <1>3, <1>4

\* In the loop every entry is still below the maximum and the loop variable is the
\* next power, so that the cut at the maximum is the only one.
Exponential ==
    /\ pc = "loop" /\ Fits => /\ d = base * Power[Len(table) + 1]
                              /\ \A i \in 1..Len(table): table[i] = base * Power[i]
    /\ TableIsExponential

\* Whatever the file or the options, if no product wraps below the settled maximum,
\* the steps Start computes are the base times the powers of six, cut off there.
THEOREM StepsArePowers == Spec => []TableIsExponential
<1>1. Init => Exponential
  BY DEF Init, Exponential, TableIsExponential
<1>2. ASSUME Building, Exponential, [Next]_vars PROVE Exponential'
  <2>1. CASE SingleStep
    <3>1. /\ base \in 1..MaxDuration /\ max = base
          /\ pc' = "done" /\ table' = <<max>> /\ base' = base /\ max' = max
      BY <1>2, <2>1, DurationAssumption DEF SingleStep, Building, TypeOK
    <3>2. Power[1] = 6
      <4>1. Power[0 + 1] = 6 * Power[0]
        BY PowerEquation
      <4> QED
        BY <4>1, PowerEquation
    <3>3. Smaller(base * Power[1], max) = max
      BY <3>1, <3>2, DurationAssumption DEF Smaller
    <3>4. \A i \in 1..Len(table'): table'[i] = max /\ i = 1
      BY <3>1
    <3>5. \A i \in 1..Len(table'): table'[i] = Smaller(base' * Power[i], max')
      BY <3>1, <3>3, <3>4
    <3> QED
      BY <3>1, <3>5 DEF Exponential, TableIsExponential
  <2>2. CASE EnterLoop
    <3>1. /\ base \in Nat /\ max \in Nat /\ base < max /\ max' = max /\ table = <<>>
          /\ pc' = "loop" /\ table' = table /\ base' = base /\ d' = Growth(base)
      BY <1>2, <2>2, DurationAssumption DEF EnterLoop, Building, TypeOK
    <3>2. Power[0 + 1] = 6 * Power[0] /\ Power[0] = 1
      BY PowerEquation
    <3>3. Fits => d' = base * Power[0 + 1]
      BY <3>1, <3>2, GrowthFits
    <3> QED
      BY <3>1, <3>3 DEF Exponential, TableIsExponential, Fits
  <2>3. CASE AddStep /\ Fits
    <3>1. /\ base \in Nat /\ table \in Seq(Durations) /\ Len(table) \in Nat
          /\ max \in Nat /\ d \in Nat /\ d < max
          /\ d = base * Power[Len(table) + 1]
          /\ \A i \in 1..Len(table): table[i] = base * Power[i]
          /\ pc' = "loop" /\ table' = Append(table, d) /\ base' = base /\ d' = Growth(d)
      BY <1>2, <2>3, DurationAssumption
         DEF AddStep, Building, TypeOK, Exponential, Rising, Durations
    <3>2. /\ Len(table') = Len(table) + 1
          /\ table'[Len(table) + 1] = d
          /\ \A i \in 1..Len(table): table'[i] = table[i]
      BY <3>1
    <3>3. d' = base * Power[(Len(table) + 1) + 1]
      <4> DEFINE p == Power[Len(table) + 1]
      <4>1. p \in Nat /\ Power[(Len(table) + 1) + 1] = 6 * p
        <5>1. Len(table) + 1 \in Nat
          BY <3>1
        <5> QED
          BY <5>1, PowerEquation
      <4>2. d' = 6 * (base * p)
        BY <2>3, <3>1, GrowthFits
      <4> HIDE DEF p
      <4>3. 6 * (base * p) = base * (6 * p)
        BY <3>1, <4>1
      <4> QED
        BY <4>1, <4>2, <4>3
    <3>4. \A i \in 1..Len(table'): table'[i] = base * Power[i]
      BY <3>1, <3>2
    <3> QED
      BY <3>1, <3>2, <3>3, <3>4 DEF Exponential, TableIsExponential
  <2>4. CASE AddMax /\ Fits
    <3>1. /\ base \in Nat /\ max \in Nat /\ table \in Seq(Durations)
          /\ Len(table) \in Nat /\ d \in Nat /\ d >= max
          /\ d = base * Power[Len(table) + 1]
          /\ \A i \in 1..Len(table): table[i] = base * Power[i] /\ table[i] < max
          /\ pc' = "done" /\ table' = Append(table, max) /\ base' = base /\ max' = max
      BY <1>2, <2>4, DurationAssumption
         DEF AddMax, Building, TypeOK, Rising, Exponential, Durations
    <3>2. ASSUME NEW i \in 1..(Len(table) + 1)
          PROVE  table'[i] = Smaller(base * Power[i], max)
      <4>1. CASE i = Len(table) + 1
        BY <3>1, <4>1 DEF Smaller
      <4>2. CASE i \in 1..Len(table)
        BY <3>1, <4>2 DEF Smaller
      <4> QED
        BY <3>1, <4>1, <4>2
    <3> QED
      BY <3>1, <3>2 DEF Exponential, TableIsExponential
  <2>5. CASE LoadConfig \/ RejectConfig \/ Start
    BY <2>5 DEF LoadConfig, RejectConfig, Start, Exponential, TableIsExponential
  <2>7. CASE (AddStep \/ AddMax) /\ ~Fits
    BY <2>7 DEF AddStep, AddMax, Fits, Exponential, TableIsExponential
  <2>6. CASE UNCHANGED vars
    BY <1>2, <2>6 DEF vars, Exponential, TableIsExponential, Fits
  <2> QED
    BY <1>2, <2>1, <2>2, <2>3, <2>4, <2>5, <2>6, <2>7 DEF Next
<1>3. Exponential => TableIsExponential
  BY DEF Exponential
<1> QED
  BY <1>1, <1>2, <1>3, BuildingInvariant, PTL DEF Spec
=============================================================================

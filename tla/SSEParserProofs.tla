-------------------------- MODULE SSEParserProofs --------------------------
(* Proofs about SSEParser, for streams of any length.                          *)
EXTENDS SSEParser, TLAPS

-----------------------------------------------------------------------------
(* A further line changes nothing about the events before it *)

LEMMA Appended ==
    ASSUME NEW line \in Line, lines \in Seq(Line), lines' = Append(lines, line)
    PROVE  /\ lines' \in Seq(Line)
           /\ Len(lines) \in Nat
           /\ Len(lines') = Here
           /\ Here' = Here + 1
           /\ lines'[Here] = line
           /\ \A i \in 1..Len(lines): lines'[i] = lines[i]
  BY DEF Here

\* Blocks, payloads and names up to the present line stay as they are.
LEMMA BlocksStay ==
    ASSUME NEW line \in Line, lines \in Seq(Line), lines' = Append(lines, line),
           NEW b \in 1..Here
    PROVE  /\ Block(b)' = Block(b)
           /\ PayloadAt(b)' = PayloadAt(b)
           /\ \A n \in Names: Named(b, n)' <=> Named(b, n)
           /\ \A i \in PayloadAt(b): lines'[i] = lines[i]
<1>1. \A i \in 1..(b - 1): lines'[i] = lines[i] /\ \A j \in i..(b - 1): lines'[j] = lines[j]
  BY Appended DEF Here
<1>2. Block(b)' = Block(b)
  BY <1>1 DEF Block
<1>3. \A i \in Block(b): lines'[i] = lines[i] /\ i \in 1..(b - 1)
  BY <1>1 DEF Block
<1>4. PayloadAt(b)' = PayloadAt(b) /\ \A i \in PayloadAt(b): lines'[i] = lines[i]
  BY <1>2, <1>3 DEF PayloadAt
<1>5. ASSUME NEW n \in Names
      PROVE  Named(b, n)' <=> Named(b, n)
  <2>1. \A i \in Block(b): \A j \in (i + 1)..(b - 1): lines'[j] = lines[j]
    BY <1>1, Appended DEF Block
  <2> QED
    BY <1>2, <1>3, <2>1 DEF Named
<1> QED
  BY <1>2, <1>4, <1>5

\* A line that is not blank joins the open event.
LEMMA BlockGrows ==
    ASSUME NEW line \in Line \ {"blank"}, lines \in Seq(Line), lines' = Append(lines, line)
    PROVE  /\ Block(Here)' = Block(Here) \cup {Here}
           /\ line \in DataKinds => PayloadAt(Here)' = PayloadAt(Here) \cup {Here}
           /\ line \notin DataKinds => PayloadAt(Here)' = PayloadAt(Here)
           /\ line \in Names => \A n \in Names: Named(Here, n)' <=> n = line
           /\ line \notin Names => \A n \in Names: Named(Here, n)' <=> Named(Here, n)
<1>1. /\ Here' - 1 = Here /\ Here \in Nat /\ Here >= 1
      /\ lines'[Here] = line
  BY Appended DEF Here
<1>2. \A i \in 1..(Here - 1): lines'[i] = lines[i]
  BY Appended DEF Here
<1>3. Block(Here)' = Block(Here) \cup {Here}
  <2>1. Block(Here)' = {i \in 1..Here: \A j \in i..Here: lines'[j] # "blank"}
    BY <1>1 DEF Block
  <2>2. ASSUME NEW i \in 1..(Here - 1)
        PROVE  (\A j \in i..Here: lines'[j] # "blank")
               <=> (\A j \in i..(Here - 1): lines[j] # "blank")
    <3>1. \A j \in i..Here: j = Here \/ (j \in i..(Here - 1) /\ j \in 1..(Here - 1))
      BY <1>1
    <3>2. \A j \in i..(Here - 1): j \in i..Here /\ j \in 1..(Here - 1)
      BY <1>1
    <3> QED
      BY <1>1, <1>2, <3>1, <3>2
  <2>3. \A j \in Here..Here: lines'[j] # "blank"
    <3>1. \A j \in Here..Here: j = Here
      BY <1>1
    <3> QED
      BY <1>1, <3>1
  <2>4. 1..Here = (1..(Here - 1)) \cup {Here}
    BY <1>1
  <2> QED
    BY <2>1, <2>2, <2>3, <2>4 DEF Block
<1>4. \A i \in Block(Here): i \in 1..(Here - 1) /\ lines'[i] = lines[i]
  BY <1>2 DEF Block
<1>5. PayloadAt(Here)' = {i \in Block(Here) \cup {Here}: lines'[i] \in DataKinds}
  BY <1>3 DEF PayloadAt
<1>6. /\ line \in DataKinds => PayloadAt(Here)' = PayloadAt(Here) \cup {Here}
      /\ line \notin DataKinds => PayloadAt(Here)' = PayloadAt(Here)
  BY <1>1, <1>4, <1>5 DEF PayloadAt
<1>7. ASSUME NEW n \in Names
      PROVE  Named(Here, n)' <=>
               \E i \in Block(Here) \cup {Here}:
                  lines'[i] = n /\ \A j \in (i + 1)..Here: lines'[j] \notin Names
  BY <1>1, <1>3 DEF Named
<1>8. ASSUME line \in Names, NEW n \in Names
      PROVE  Named(Here, n)' <=> n = line
  <2>1. \A i \in Block(Here): ~ \A j \in (i + 1)..Here: lines'[j] \notin Names
    <3>1. \A i \in Block(Here): Here \in (i + 1)..Here
      BY <1>1, <1>4
    <3> QED
      BY <1>1, <1>8, <3>1
  <2>2. \A j \in (Here + 1)..Here: lines'[j] \notin Names
    BY <1>1
  <2>3. Named(Here, n)' <=> lines'[Here] = n
    BY <1>7, <2>1, <2>2
  <2> QED
    BY <1>1, <2>3
<1>9. ASSUME line \notin Names, NEW n \in Names
      PROVE  Named(Here, n)' <=> Named(Here, n)
  <2>1. ASSUME NEW i \in Block(Here)
        PROVE  (\A j \in (i + 1)..Here: lines'[j] \notin Names)
               <=> (\A j \in (i + 1)..(Here - 1): lines[j] \notin Names)
    <3>1. \A j \in (i + 1)..Here: j = Here \/ (j \in (i + 1)..(Here - 1) /\ j \in 1..(Here - 1))
      BY <1>1, <1>4
    <3>2. \A j \in (i + 1)..(Here - 1): j \in (i + 1)..Here /\ j \in 1..(Here - 1)
      BY <1>1, <1>4
    <3> QED
      BY <1>1, <1>2, <1>9, <3>1, <3>2
  <2>2. lines'[Here] # n
    BY <1>1, <1>9
  <2>3. Named(Here, n)' <=>
          \E i \in Block(Here):
             lines'[i] = n /\ \A j \in (i + 1)..Here: lines'[j] \notin Names
    BY <1>7, <2>2
  <2>4. \A i \in Block(Here): lines'[i] = n <=> lines[i] = n
    BY <1>4
  <2> QED
    BY <2>1, <2>3, <2>4 DEF Named
<1> QED
  BY <1>3, <1>6, <1>8, <1>9

\* A blank line opens an empty event.
LEMMA BlockCloses ==
    ASSUME lines \in Seq(Line), lines' = Append(lines, "blank")
    PROVE  /\ PayloadAt(Here)' = {}
           /\ \A n \in Names: ~Named(Here, n)'
<1>1. /\ Here' - 1 = Here /\ Here \in Nat /\ Here >= 1
      /\ lines'[Here] = "blank"
  BY Appended DEF Here, Line
<1>2. \A i \in 1..Here: Here \in i..Here
  BY <1>1
<1>3. Block(Here)' = {}
  BY <1>1, <1>2 DEF Block
<1> QED
  BY <1>3 DEF PayloadAt, Named

\* The ends of events: a further line can only add itself.
LEMMA EndsGrow ==
    ASSUME NEW line \in Line, lines \in Seq(Line), lines' = Append(lines, line)
    PROVE  /\ Ends' = Ends \cup {b \in {Here}: line = "blank" /\ PayloadAt(b) # {}}
           /\ DeviceEnds' = DeviceEnds \cup
                {b \in {Here}: /\ line = "blank" /\ PayloadAt(b) # {} /\ Named(b, "devices")
                              /\ \A i \in PayloadAt(b): lines[i] # "junk"}
           /\ {PayloadAt(b): b \in DeviceEnds}' = {PayloadAt(b): b \in DeviceEnds'}
<1>1. /\ Len(lines) \in Nat /\ Len(lines') = Here /\ Here = Len(lines) + 1
      /\ lines'[Here] = line
      /\ \A i \in 1..Len(lines): lines'[i] = lines[i]
  BY Appended DEF Here
<1>2. 1..Len(lines') = (1..Len(lines)) \cup {Here} /\ Here \notin 1..Len(lines)
  BY <1>1
<1>3. \A b \in 1..Here: PayloadAt(b)' = PayloadAt(b)
  BY BlocksStay
<1>4. Ends' = {b \in 1..Here: lines'[b] = "blank" /\ PayloadAt(b) # {}}
  BY <1>1, <1>3 DEF Ends
<1>5. Ends' = Ends \cup {b \in {Here}: line = "blank" /\ PayloadAt(b) # {}}
  BY <1>1, <1>2, <1>4 DEF Ends
<1>6. \A b \in 1..Here: /\ Named(b, "devices")' <=> Named(b, "devices")
                       /\ \A i \in PayloadAt(b): lines'[i] = lines[i]
  BY BlocksStay DEF Names
<1>7. Ends' \subseteq 1..Here
  BY <1>4
<1>8. DeviceEnds' = {b \in Ends': /\ Named(b, "devices")
                                 /\ \A i \in PayloadAt(b): lines[i] # "junk"}
  BY <1>3, <1>6, <1>7 DEF DeviceEnds
<1>9. {PayloadAt(b): b \in DeviceEnds}' = {PayloadAt(b): b \in DeviceEnds'}
  BY <1>3, <1>7, <1>8
<1> QED
  BY <1>5, <1>8, <1>9 DEF DeviceEnds

-----------------------------------------------------------------------------
(* The invariant *)

\* A stream begins with nothing collected and nothing delivered.
LEMMA InitInv == Init => IInv
<1> SUFFICES ASSUME Init
             PROVE IInv
  OBVIOUS
<1>1. lines = <<>> /\ lines \in Seq(Line) /\ Len(lines) = 0 /\ Here = 1
  <2>1. lines = <<>>
    BY DEF Init
  <2> QED
    BY <2>1 DEF Here
<1>2. Ends = {} /\ DeviceEnds = {}
  BY <1>1 DEF Ends, DeviceEnds
<1>3. Block(Here) = {}
  BY <1>1 DEF Block
<1>4. TypeOK
  <2>1. dataLines \in SUBSET (1..Len(lines)) /\ events \in SUBSET SUBSET (1..Len(lines))
    BY DEF Init
  <2>2. ended \in BOOLEAN /\ eventName \in Names \cup {""}
    BY DEF Init
  <2>3. lastEvent = 0
    BY DEF Init
  <2>4. Len(lines) <= MaxLines /\ lastEvent \in 0..Len(lines)
    BY <1>1, <2>3, LinesAssumption
  <2> QED
    BY <1>1, <2>1, <2>2, <2>4 DEF TypeOK
<1>5. DevicesDelivered /\ HeardLast
  BY <1>2 DEF Init, DevicesDelivered, HeardLast
<1>6. Collected
  BY <1>3 DEF Init, Collected, PayloadAt, Named, Names
<1> QED
  BY <1>4, <1>5, <1>6 DEF IInv

\* Each case of the loop keeps it: an ordinary line extends the open event, a
\* blank one closes it.
LEMMA StepInv == IInv /\ [Next]_vars => IInv'
<1> SUFFICES ASSUME IInv, [Next]_vars
             PROVE IInv'
  OBVIOUS
<1>1. TypeOK /\ lines \in Seq(Line) /\ Len(lines) \in Nat /\ Here = Len(lines) + 1
  <2>1. TypeOK /\ lines \in Seq(Line)
    BY DEF IInv, TypeOK
  <2> QED
    BY <2>1 DEF Here
<1>2. ASSUME NEW line \in Line, Scan(line)
      PROVE  /\ lines' = Append(lines, line)
             /\ lines' \in Seq(Line) /\ Len(lines') <= MaxLines /\ ended' = ended
             /\ Len(lines') = Len(lines) + 1
             /\ \A S \in SUBSET (1..Len(lines)): S \in SUBSET (1..Len(lines'))
             /\ Here \in 0..Len(lines') /\ Here \in 1..Len(lines')
             /\ \A i \in 0..Len(lines): i \in 0..Len(lines')
  <2>1. lines' = Append(lines, line) /\ Len(lines) < MaxLines /\ ended' = ended
    BY <1>2 DEF Scan
  <2>2. lines' \in Seq(Line) /\ Len(lines') = Len(lines) + 1
    BY <1>1, <2>1
  <2> QED
    BY <1>1, <2>1, <2>2, LinesAssumption
<1>3. ASSUME NEW line \in Line \ {"blank"}, Scan(line), UNCHANGED <<events, lastEvent>>
      PROVE  DevicesDelivered' /\ HeardLast'
  <2>1. Ends' = Ends /\ DeviceEnds' = DeviceEnds
    BY <1>1, <1>2, <1>3, EndsGrow
  <2>2. {PayloadAt(b): b \in DeviceEnds}' = {PayloadAt(b): b \in DeviceEnds}
    <3>1. \A b \in DeviceEnds: b \in 1..Here
      BY <1>1 DEF DeviceEnds, Ends
    <3>2. \A b \in DeviceEnds: PayloadAt(b)' = PayloadAt(b)
      BY <1>1, <1>2, <1>3, <3>1, BlocksStay
    <3> QED
      BY <2>1, <3>2
  <2> QED
    BY <1>3, <2>1, <2>2 DEF IInv, DevicesDelivered, HeardLast
<1>4. CASE Data
  <2>1. PICK k \in DataKinds: Scan(k)
    BY <1>4 DEF Data
  <2>2. k \in Line \ {"blank"} /\ k \notin Names
    BY DEF DataKinds, Line, Names
  <2>3. DevicesDelivered' /\ HeardLast'
    BY <1>3, <1>4, <2>1, <2>2 DEF Data
  <2>4. Collected'
    BY <1>1, <1>2, <1>4, <2>1, <2>2, BlockGrows DEF IInv, Collected, Data
  <2>5. TypeOK'
    <3>1. dataLines' \in SUBSET (1..Len(lines')) /\ events' \in SUBSET SUBSET (1..Len(lines'))
      BY <1>1, <1>2, <1>4, <2>1, <2>2 DEF TypeOK, Data
    <3>2. lastEvent' \in 0..Len(lines') /\ eventName' \in Names \cup {""}
      BY <1>1, <1>2, <1>4, <2>1, <2>2 DEF TypeOK, Data
    <3>3. /\ lines' \in Seq(Line) /\ Len(lines') <= MaxLines
          /\ ended' \in BOOLEAN
      BY <1>1, <1>2, <2>1, <2>2 DEF TypeOK
    <3> QED
      BY <3>1, <3>2, <3>3 DEF TypeOK
  <2> QED
    BY <2>3, <2>4, <2>5 DEF IInv
<1>5. CASE Name
  <2>1. PICK n \in Names: Scan(n) /\ eventName' = n
    BY <1>5 DEF Name
  <2>2. n \in Line \ {"blank"} /\ n \notin DataKinds
    BY DEF DataKinds, Line, Names
  <2>3. DevicesDelivered' /\ HeardLast'
    BY <1>3, <1>5, <2>1, <2>2 DEF Name
  <2>4. Collected'
    BY <1>1, <1>2, <1>5, <2>1, <2>2, BlockGrows DEF IInv, Collected, Name
  <2>5. TypeOK'
    <3>1. dataLines' \in SUBSET (1..Len(lines')) /\ events' \in SUBSET SUBSET (1..Len(lines'))
      BY <1>1, <1>2, <1>5, <2>1, <2>2 DEF TypeOK, Name
    <3>2. lastEvent' \in 0..Len(lines') /\ eventName' \in Names \cup {""}
      BY <1>1, <1>2, <1>5, <2>1, <2>2 DEF TypeOK, Name
    <3>3. /\ lines' \in Seq(Line) /\ Len(lines') <= MaxLines
          /\ ended' \in BOOLEAN
      BY <1>1, <1>2, <2>1, <2>2 DEF TypeOK
    <3> QED
      BY <3>1, <3>2, <3>3 DEF TypeOK
  <2> QED
    BY <2>3, <2>4, <2>5 DEF IInv
<1>6. CASE Skip
  <2>1. Scan("other") /\ "other" \in Line \ {"blank"}
    BY <1>6 DEF Skip, Line
  <2>2. "other" \notin DataKinds /\ "other" \notin Names
    BY DEF DataKinds, Names
  <2>3. DevicesDelivered' /\ HeardLast'
    BY <1>3, <1>6, <2>1 DEF Skip
  <2>4. Collected'
    BY <1>1, <1>2, <1>6, <2>1, <2>2, BlockGrows DEF IInv, Collected, Skip
  <2>5. TypeOK'
    <3>1. dataLines' \in SUBSET (1..Len(lines')) /\ events' \in SUBSET SUBSET (1..Len(lines'))
      BY <1>1, <1>2, <1>6, <2>1 DEF TypeOK, Skip
    <3>2. lastEvent' \in 0..Len(lines') /\ eventName' \in Names \cup {""}
      BY <1>1, <1>2, <1>6, <2>1 DEF TypeOK, Skip
    <3>3. /\ lines' \in Seq(Line) /\ Len(lines') <= MaxLines
          /\ ended' \in BOOLEAN
      BY <1>1, <1>2, <2>1 DEF TypeOK
    <3> QED
      BY <3>1, <3>2, <3>3 DEF TypeOK
  <2> QED
    BY <2>3, <2>4, <2>5 DEF IInv
<1>7. CASE Dispatch
  <2>1. Scan("blank") /\ "blank" \in Line
    BY <1>7 DEF Dispatch, Line
  <2>2. Collected'
    BY <1>1, <1>2, <1>7, <2>1, BlockCloses DEF Collected, Dispatch, Names
  <2>3. dataLines = PayloadAt(Here) /\ (eventName = "devices" <=> Named(Here, "devices"))
    BY DEF IInv, Collected, Names
  <2>4. Ends' = IF dataLines # {} THEN Ends \cup {Here} ELSE Ends
    BY <1>1, <1>2, <2>1, <2>3, EndsGrow
  <2>5. DeviceEnds' = IF Delivers THEN DeviceEnds \cup {Here} ELSE DeviceEnds
    <3>1. Delivers <=> /\ PayloadAt(Here) # {} /\ Named(Here, "devices")
                      /\ \A i \in PayloadAt(Here): lines[i] # "junk"
      BY <2>3 DEF Delivers
    <3>2. DeviceEnds' = DeviceEnds \cup
                {b \in {Here}: /\ "blank" = "blank" /\ PayloadAt(b) # {} /\ Named(b, "devices")
                              /\ \A i \in PayloadAt(b): lines[i] # "junk"}
      BY <1>1, <1>2, <2>1, EndsGrow
    <3> QED
      BY <3>1, <3>2
  <2>6. {PayloadAt(b): b \in DeviceEnds}' = {PayloadAt(b): b \in DeviceEnds'}
    BY <1>1, <1>2, <2>1, EndsGrow
  <2>7. DevicesDelivered'
    BY <1>7, <2>3, <2>5, <2>6 DEF IInv, DevicesDelivered, Dispatch
  <2>8. HeardLast'
    <3>1. \A b \in Ends: b <= Here
      BY <1>1 DEF Ends
    <3>2. CASE dataLines = {}
      BY <1>7, <2>4, <3>2 DEF IInv, HeardLast, Dispatch
    <3>3. CASE dataLines # {}
      <4>1. lastEvent' = Here /\ Ends' = Ends \cup {Here}
        BY <1>7, <2>4, <3>3 DEF Dispatch
      <4> QED
        BY <1>1, <3>1, <4>1 DEF HeardLast
    <3> QED
      BY <3>2, <3>3
  <2>9. TypeOK'
    <3>1. dataLines' \in SUBSET (1..Len(lines')) /\ eventName' \in Names \cup {""}
      BY <1>7 DEF Dispatch
    <3>2. events' \in SUBSET SUBSET (1..Len(lines'))
      BY <1>1, <1>2, <1>7, <2>1 DEF TypeOK, Dispatch
    <3>3. lastEvent' \in 0..Len(lines')
      BY <1>1, <1>2, <1>7, <2>1 DEF TypeOK, Dispatch
    <3>4. /\ lines' \in Seq(Line) /\ Len(lines') <= MaxLines
          /\ ended' \in BOOLEAN
      BY <1>1, <1>2, <2>1 DEF TypeOK
    <3> QED
      BY <3>1, <3>2, <3>3, <3>4 DEF TypeOK
  <2> QED
    BY <2>2, <2>7, <2>8, <2>9 DEF IInv
<1>8. CASE End \/ UNCHANGED vars
  <2>1. UNCHANGED <<lines, eventName, dataLines, events, lastEvent>> /\ ended' \in BOOLEAN
    BY <1>1, <1>8 DEF End, vars, TypeOK
  <2>2. TypeOK'
    BY <1>1, <2>1 DEF TypeOK
  <2>3. DevicesDelivered' /\ HeardLast'
    BY <2>1 DEF IInv, DevicesDelivered, HeardLast, Ends, DeviceEnds, Block, PayloadAt, Named
  <2>4. Collected'
    BY <2>1 DEF IInv, Collected, Here, Block, PayloadAt, Named
  <2> QED
    BY <2>2, <2>3, <2>4 DEF IInv
<1> QED
  BY <1>4, <1>5, <1>6, <1>7, <1>8 DEF Next

\* readLoop gives OnDevices the devices events of the stream, complete and in their
\* own lines, for every stream.
THEOREM ParsesFaithfully == Spec => []DevicesDelivered
<1>1. IInv => DevicesDelivered
  BY DEF IInv
<1> QED
  BY <1>1, InitInv, StepInv, PTL DEF Spec

\* c.lastEvent is the time of the last complete event with data, for every stream.
THEOREM HearsEveryEvent == Spec => []HeardLast
<1>1. IInv => HeardLast
  BY DEF IInv
<1> QED
  BY <1>1, InitInv, StepInv, PTL DEF Spec

\* The variables keep their types.
THEOREM TypeCorrect == Spec => []TypeOK
<1>1. IInv => TypeOK
  BY DEF IInv
<1> QED
  BY <1>1, InitInv, StepInv, PTL DEF Spec
=============================================================================

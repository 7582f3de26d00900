--------------------------- MODULE TransformProofs ---------------------------
(* What is published about a device, whatever its data: for JSON values of any *)
(* depth, any keys, clocks, spans and roundings.                               *)
EXTENDS Transform, SequenceTheorems, TLAPS

-----------------------------------------------------------------------------
(* JSON values and their depth *)

Same(n) == n
LevelOnce(rec, n) ==
    IF n = 0 THEN Scalar
    ELSE Scalar \cup [json: {"array"}, items: Seq(rec[n - 1])]
                \cup [json: {"object"}, fields: Maps(rec[n - 1])]
Levels == INSTANCE Recursion WITH Domain <- Nat, Rank <- Same, Def <- LevelOnce

\* The levels are what their definition says.
LEMMA LevelEquation == \A n \in Nat: Level[n] = LevelOnce(Level, n)
<1>1. \A n \in Nat: Same(n) \in Nat
  BY DEF Same
<1>2. Levels!Descends
  <2> SUFFICES ASSUME NEW g, NEW h, NEW n \in Nat,
                      \A m \in Nat: m < n => g[m] = h[m]
               PROVE  LevelOnce(g, n) = LevelOnce(h, n)
    BY DEF Levels!Descends, Same
  <2>1. n # 0 => g[n - 1] = h[n - 1]
    OBVIOUS
  <2> QED
    BY <2>1 DEF LevelOnce
<1>3. Level = CHOOSE g: g = [n \in Nat |-> LevelOnce(g, n)]
  BY DEF Level, LevelOnce
<1>4. Level = [n \in Nat |-> LevelOnce(Level, n)]
  BY <1>1, <1>2, <1>3, Levels!RecursiveFunction
<1> QED
  BY <1>4

\* A value is a scalar, or it is made of values of the level below.
LEMMA LevelCases ==
    ASSUME NEW n \in Nat, NEW v \in Level[n]
    PROVE  \/ v \in Scalar /\ v.json \in {"null", "string", "number"}
           \/ /\ n - 1 \in Nat /\ v.json = "array" /\ v = Arr(v.items)
              /\ v.items \in Seq(Level[n - 1])
           \/ /\ n - 1 \in Nat /\ v.json = "object" /\ v = Obj(v.fields)
              /\ v.fields \in Maps(Level[n - 1])
<1>1. CASE v \in Scalar
  BY <1>1 DEF Scalar, Null
<1>2. CASE v \notin Scalar
  <2>1. n # 0 /\ \/ v \in [json: {"array"}, items: Seq(Level[n - 1])]
                 \/ v \in [json: {"object"}, fields: Maps(Level[n - 1])]
    BY <1>2, LevelEquation DEF LevelOnce
  <2> QED
    BY <2>1 DEF Arr, Obj
<1> QED
  BY <1>1, <1>2

\* What is made of values of one level is a value of the next.
LEMMA LevelAbove ==
    ASSUME NEW n \in Nat
    PROVE  /\ Scalar \subseteq Level[n]
           /\ \A s \in Seq(Level[n]): Arr(s) \in Level[n + 1]
           /\ \A m \in Maps(Level[n]): Obj(m) \in Level[n + 1]
<1>1. Scalar \subseteq Level[n]
  BY LevelEquation DEF LevelOnce
<1>2. n + 1 \in Nat /\ n + 1 # 0 /\ (n + 1) - 1 = n
  OBVIOUS
<1>3. Level[n + 1] = Scalar \cup [json: {"array"}, items: Seq(Level[n])]
                            \cup [json: {"object"}, fields: Maps(Level[n])]
  BY <1>2, LevelEquation DEF LevelOnce
<1> QED
  BY <1>1, <1>3 DEF Arr, Obj

\* Values of a level are values of every higher one.
LEMMA LevelsRise == \A m, n \in Nat: m <= n => Level[m] \subseteq Level[n]
<1>1. \A n \in Nat: Level[n] \subseteq Level[n + 1]
  <2> DEFINE S == {n \in Nat: ~(Level[n] \subseteq Level[n + 1])}
  <2> SUFFICES ASSUME S # {} PROVE FALSE
    OBVIOUS
  <2>1. PICK n \in S: \A k \in S: n <= k
    <3>1. S \in SUBSET Nat
      OBVIOUS
    <3> QED
      BY <3>1, Levels!LeastNatural
  <2>2. ASSUME NEW v \in Level[n] PROVE v \in Level[n + 1]
    <3>1. CASE v \in Scalar
      BY <3>1, LevelAbove
    <3>2. CASE n - 1 \in Nat
      <4>1. Level[n - 1] \subseteq Level[n]
        BY <2>1, <3>2
      <4>2. Seq(Level[n - 1]) \subseteq Seq(Level[n])
        BY <4>1
      <4>3. Maps(Level[n - 1]) \subseteq Maps(Level[n])
        BY <4>1 DEF Maps
      <4> QED
        BY <3>1, <4>2, <4>3, LevelCases, LevelAbove
    <3> QED
      BY <3>1, <3>2, LevelCases
  <2> QED
    BY <2>1, <2>2
<1> SUFFICES ASSUME NEW m \in Nat PROVE \A n \in Nat: m <= n => Level[m] \subseteq Level[n]
  OBVIOUS
<1> DEFINE S == {n \in Nat: m <= n /\ ~(Level[m] \subseteq Level[n])}
<1> SUFFICES ASSUME S # {} PROVE FALSE
  OBVIOUS
<1>2. PICK n \in S: \A k \in S: n <= k
  <2>1. S \in SUBSET Nat
    OBVIOUS
  <2> QED
    BY <2>1, Levels!LeastNatural
<1>3. n # m /\ n - 1 \in Nat /\ m <= n - 1 /\ n - 1 \notin S /\ (n - 1) + 1 = n
  BY <1>2
<1>4. Level[m] \subseteq Level[n - 1] /\ Level[n - 1] \subseteq Level[n]
  BY <1>1, <1>3
<1> QED
  BY <1>2, <1>4

\* The lowest level a value is on.
Depth(v) == CHOOSE n \in Nat: v \in Level[n] /\ \A m \in Nat: v \in Level[m] => n <= m

\* Every value has a depth.
LEMMA DepthExists ==
    ASSUME NEW v \in JSON
    PROVE  /\ Depth(v) \in Nat /\ v \in Level[Depth(v)]
           /\ \A m \in Nat: v \in Level[m] => Depth(v) <= m
<1> DEFINE S == {n \in Nat: v \in Level[n]}
<1>1. S \in SUBSET Nat /\ S # {}
  BY DepthAssumption DEF JSON
<1>2. \E n \in S: \A m \in S: n <= m
  BY <1>1, Levels!LeastNatural
<1> QED
  BY <1>2 DEF Depth

\* A JSON value is a scalar, an array or an object of JSON values of less depth.
LEMMA JSONCases ==
    ASSUME NEW v \in JSON
    PROVE  \/ v \in Scalar /\ v.json \in {"null", "string", "number"}
           \/ /\ v.json = "array" /\ v = Arr(v.items) /\ v.items \in Seq(JSON)
              /\ \A i \in DOMAIN v.items: v.items[i] \in JSON /\ Depth(v.items[i]) < Depth(v)
           \/ /\ v.json = "object" /\ v = Obj(v.fields) /\ v.fields \in Maps(JSON)
              /\ \A e \in v.fields: e.value \in JSON /\ Depth(e.value) < Depth(v)
<1> DEFINE d == Depth(v)
<1>1. d \in Nat /\ v \in Level[d] /\ d <= MaxDepth
  BY DepthExists, DepthAssumption DEF JSON
<1> HIDE DEF d
<1>2. CASE v \in Scalar /\ v.json \in {"null", "string", "number"}
  BY <1>2
<1>3. CASE d - 1 \in Nat
  <2>1. Level[d - 1] \subseteq JSON
    BY <1>1, <1>3, LevelsRise, DepthAssumption DEF JSON
  <2>2. \A w \in Level[d - 1]: w \in JSON /\ Depth(w) < d
    <3> SUFFICES ASSUME NEW w \in Level[d - 1] PROVE w \in JSON /\ Depth(w) < d
      OBVIOUS
    <3>1. w \in JSON
      BY <2>1
    <3>2. Depth(w) \in Nat /\ Depth(w) <= d - 1
      BY <1>3, <3>1, DepthExists
    <3> QED
      BY <1>1, <3>1, <3>2
  <2>3. Seq(Level[d - 1]) \subseteq Seq(JSON) /\ Maps(Level[d - 1]) \subseteq Maps(JSON)
    BY <2>1 DEF Maps
  <2>4. ASSUME v.items \in Seq(Level[d - 1]), NEW i \in DOMAIN v.items
        PROVE  v.items[i] \in Level[d - 1]
    BY <2>4
  <2>5. ASSUME v.fields \in Maps(Level[d - 1]), NEW e \in v.fields
        PROVE  e.value \in Level[d - 1]
    BY <2>5 DEF Maps
  <2> QED
    BY <1>1, <2>2, <2>3, <2>4, <2>5, LevelCases DEF d
<1> QED
  BY <1>1, <1>2, <1>3, LevelCases

-----------------------------------------------------------------------------
(* Arrays without their nulls *)

Length(s) == Len(s)
KeptOnce(rec, s) ==
    IF s = <<>> THEN <<>>
    ELSE IF Dropped(Head(s)) THEN rec[Tail(s)] ELSE <<Head(s)>> \o rec[Tail(s)]
Items == INSTANCE Recursion WITH Domain <- Seq(JSON), Rank <- Length, Def <- KeptOnce

\* The rest of an array is an array, and shorter.
LEMMA RestOfItems ==
    ASSUME NEW s \in Seq(JSON), s # <<>>
    PROVE  /\ Head(s) \in JSON /\ Tail(s) \in Seq(JSON)
           /\ Len(Tail(s)) < Len(s) /\ Len(s) \in Nat \ {0}
           /\ s = <<Head(s)>> \o Tail(s)
  OBVIOUS

\* Kept is what its definition says.
LEMMA KeptEquation == \A s \in Seq(JSON): Kept[s] = KeptOnce(Kept, s)
<1>1. \A s \in Seq(JSON): Length(s) \in Nat
  BY DEF Length
<1>2. Items!Descends
  <2> SUFFICES ASSUME NEW g, NEW h, NEW s \in Seq(JSON),
                      \A r \in Seq(JSON): Len(r) < Len(s) => g[r] = h[r]
               PROVE  KeptOnce(g, s) = KeptOnce(h, s)
    BY DEF Items!Descends, Length
  <2>1. s # <<>> => g[Tail(s)] = h[Tail(s)]
    BY RestOfItems
  <2> QED
    BY <2>1 DEF KeptOnce
<1>3. Kept = CHOOSE g: g = [s \in Seq(JSON) |-> KeptOnce(g, s)]
  BY DEF Kept, KeptOnce
<1>4. Kept = [s \in Seq(JSON) |-> KeptOnce(Kept, s)]
  BY <1>1, <1>2, <1>3, Items!RecursiveFunction
<1> QED
  BY <1>4

\* The kept items of an array are its items without the nulls; an array without
\* nulls is kept as it is.
LEMMA KeptItems ==
    ASSUME NEW s \in Seq(JSON)
    PROVE  /\ Kept[s] \in Seq(JSON)
           /\ \A i \in DOMAIN Kept[s]:
                  Kept[s][i] # Null /\ \E j \in DOMAIN s: Kept[s][i] = s[j]
           /\ \A j \in DOMAIN s: s[j] # Null => \E i \in DOMAIN Kept[s]: Kept[s][i] = s[j]
           /\ (\A j \in DOMAIN s: s[j] # Null) => Kept[s] = s
<1> DEFINE Good(r) ==
             /\ Kept[r] \in Seq(JSON)
             /\ \A i \in DOMAIN Kept[r]:
                    Kept[r][i] # Null /\ \E j \in DOMAIN r: Kept[r][i] = r[j]
             /\ \A j \in DOMAIN r: r[j] # Null => \E i \in DOMAIN Kept[r]: Kept[r][i] = r[j]
             /\ (\A j \in DOMAIN r: r[j] # Null) => Kept[r] = r
           S == {r \in Seq(JSON): ~Good(r)}
<1> SUFFICES ASSUME S # {} PROVE FALSE
  OBVIOUS
<1>1. PICK r \in S: \A q \in S: ~(Len(q) < Len(r))
  <2>1. S \in SUBSET Seq(JSON)
    OBVIOUS
  <2>2. \A q \in Seq(JSON): Length(q) \in Nat
    BY DEF Length
  <2> HIDE DEF S
  <2> QED
    BY <2>1, <2>2, Items!LeastRanked DEF Length
<1>2. r \in Seq(JSON) /\ ~Good(r) /\ Kept[r] = KeptOnce(Kept, r)
  BY KeptEquation
<1>3. r # <<>>
  <2> SUFFICES ASSUME r = <<>> PROVE Good(r)
    BY <1>2
  <2>1. Kept[r] = <<>>
    BY <1>2 DEF KeptOnce
  <2> QED
    BY <2>1
<1> DEFINE h == Head(r)
           t == Tail(r)
           k == Kept[t]
<1>4. /\ h \in JSON /\ t \in Seq(JSON) /\ Len(t) < Len(r) /\ r = <<h>> \o t
  BY <1>2, <1>3, RestOfItems
<1>5. Good(t)
  BY <1>1, <1>4
<1> HIDE DEF h, t
<1>6. k \in Seq(JSON) /\ Kept[r] = IF h = Null THEN k ELSE <<h>> \o k
  BY <1>2, <1>3, <1>5 DEF KeptOnce, Dropped, h, t
<1>7. /\ \A i \in DOMAIN k: k[i] # Null /\ \E j \in DOMAIN t: k[i] = t[j]
      /\ \A j \in DOMAIN t: t[j] # Null => \E i \in DOMAIN k: k[i] = t[j]
      /\ (\A j \in DOMAIN t: t[j] # Null) => k = t
  BY <1>5
<1> HIDE DEF k, Good, S
<1>8. /\ \A j \in DOMAIN r: (j = 1 /\ r[j] = h) \/ (j - 1 \in DOMAIN t /\ r[j] = t[j - 1])
      /\ 1 \in DOMAIN r /\ r[1] = h
      /\ \A j \in DOMAIN t: j + 1 \in DOMAIN r /\ r[j + 1] = t[j]
  BY <1>4
<1>9. CASE h = Null
  <2>1. Kept[r] = k
    BY <1>6, <1>9
  <2> QED
    BY <1>2, <1>6, <1>7, <1>8, <1>9, <2>1 DEF Good
<1>10. CASE h # Null
  <2> DEFINE l == <<h>> \o k
  <2>1. Kept[r] = l
    BY <1>6, <1>10
  <2>2. /\ l \in Seq(JSON)
        /\ \A j \in DOMAIN l: (j = 1 /\ l[j] = h) \/ (j - 1 \in DOMAIN k /\ l[j] = k[j - 1])
        /\ 1 \in DOMAIN l /\ l[1] = h
        /\ \A j \in DOMAIN k: j + 1 \in DOMAIN l /\ l[j + 1] = k[j]
    BY <1>4, <1>6
  <2>3. k = t => l = r
    BY <1>4
  <2> HIDE DEF l
  <2>4. \A i \in DOMAIN l: l[i] # Null /\ \E j \in DOMAIN r: l[i] = r[j]
    BY <1>7, <1>8, <1>10, <2>2
  <2>5. \A j \in DOMAIN r: r[j] # Null => \E i \in DOMAIN l: l[i] = r[j]
    BY <1>7, <1>8, <2>2
  <2>6. (\A j \in DOMAIN r: r[j] # Null) => l = r
    BY <1>7, <1>8, <2>3
  <2> QED
    BY <1>2, <2>1, <2>2, <2>4, <2>5, <2>6 DEF Good
<1> QED
  BY <1>9, <1>10

\* One array consists of the elements of another that are not null, in their order.
Gathers(t, s) ==
    \E from \in [DOMAIN t -> DOMAIN s]:
        /\ \A i, j \in DOMAIN t: i < j => from[i] < from[j]
        /\ \A j \in DOMAIN s: s[j] # Null <=> \E i \in DOMAIN t: from[i] = j
        /\ \A i \in DOMAIN t: t[i] = s[from[i]]

\* The kept items come from the places of the array that hold no null, in their order.
LEMMA KeptGathers == ASSUME NEW s \in Seq(JSON) PROVE Gathers(Kept[s], s)
<1> DEFINE S == {r \in Seq(JSON): ~Gathers(Kept[r], r)}
<1> SUFFICES ASSUME S # {} PROVE FALSE
  OBVIOUS
<1>1. PICK r \in S: \A q \in S: ~(Len(q) < Len(r))
  <2>1. S \in SUBSET Seq(JSON)
    OBVIOUS
  <2>2. \A q \in Seq(JSON): Length(q) \in Nat
    BY DEF Length
  <2> HIDE DEF S
  <2> QED
    BY <2>1, <2>2, Items!LeastRanked DEF Length
<1>2. r \in Seq(JSON) /\ ~Gathers(Kept[r], r) /\ Kept[r] = KeptOnce(Kept, r)
  BY KeptEquation
<1>3. r # <<>>
  <2> SUFFICES ASSUME r = <<>> PROVE Gathers(<<>>, <<>>)
    BY <1>2 DEF KeptOnce
  <2>1. DOMAIN <<>> = {}
    OBVIOUS
  <2>2. [i \in {} |-> i] \in [{} -> {}]
    OBVIOUS
  <2> QED
    BY <2>1, <2>2 DEF Gathers
<1> DEFINE h == Head(r)
           t == Tail(r)
           k == Kept[t]
<1>4. h \in JSON /\ t \in Seq(JSON) /\ Len(t) < Len(r) /\ r = <<h>> \o t
  BY <1>2, <1>3, RestOfItems
<1>5. Gathers(k, t)
  BY <1>1, <1>4
<1>6. k \in Seq(JSON) /\ Kept[r] = IF h = Null THEN k ELSE <<h>> \o k
  BY <1>2, <1>3, <1>4, KeptItems DEF KeptOnce, Dropped
<1> HIDE DEF h, t, k, S
<1>7. PICK from \in [DOMAIN k -> DOMAIN t]:
          /\ \A i, j \in DOMAIN k: i < j => from[i] < from[j]
          /\ \A j \in DOMAIN t: t[j] # Null <=> \E i \in DOMAIN k: from[i] = j
          /\ \A i \in DOMAIN k: k[i] = t[from[i]]
  BY <1>5 DEF Gathers
<1>8. /\ \A j \in DOMAIN r: (j = 1 /\ r[j] = h) \/ (j - 1 \in DOMAIN t /\ r[j] = t[j - 1])
      /\ 1 \in DOMAIN r /\ r[1] = h
      /\ \A j \in DOMAIN t: j + 1 \in DOMAIN r /\ r[j + 1] = t[j]
  BY <1>4
<1>9. DOMAIN r \subseteq Nat /\ DOMAIN t \subseteq Nat \ {0} /\ DOMAIN k \subseteq Nat \ {0}
  BY <1>2, <1>4, <1>6
<1>10. CASE h = Null
  <2> DEFINE g == [i \in DOMAIN k |-> from[i] + 1]
  <2>1. g \in [DOMAIN k -> DOMAIN r]
    BY <1>7, <1>8
  <2>2. \A i, j \in DOMAIN k: i < j => g[i] < g[j]
    BY <1>7, <1>9
  <2>3. \A i \in DOMAIN k: k[i] = r[g[i]]
    BY <1>7, <1>8
  <2>4. ASSUME NEW j \in DOMAIN r
        PROVE  r[j] # Null <=> \E i \in DOMAIN k: g[i] = j
    <3>1. CASE j = 1
      <4>1. r[j] = Null
        BY <1>8, <1>10, <3>1
      <4>2. \A i \in DOMAIN k: g[i] # 1
        BY <1>7, <1>9
      <4> QED
        BY <3>1, <4>1, <4>2
    <3>2. CASE j # 1
      <4>1. j - 1 \in DOMAIN t /\ r[j] = t[j - 1]
        BY <1>8, <3>2
      <4>2. \A i \in DOMAIN k: g[i] = j <=> from[i] = j - 1
        BY <1>7, <1>9
      <4> QED
        BY <1>7, <4>1, <4>2
    <3> QED
      BY <3>1, <3>2
  <2> HIDE DEF g
  <2>5. Kept[r] = k
    BY <1>6, <1>10
  <2>6. Gathers(k, r)
    BY <2>1, <2>2, <2>3, <2>4 DEF Gathers
  <2> QED
    BY <1>2, <2>5, <2>6
<1>11. CASE h # Null
  <2> DEFINE l == <<h>> \o k
             g == [i \in DOMAIN l |-> IF i = 1 THEN 1 ELSE from[i - 1] + 1]
  <2>1. /\ \A i \in DOMAIN l: (i = 1 /\ l[i] = h) \/ (i - 1 \in DOMAIN k /\ l[i] = k[i - 1])
        /\ 1 \in DOMAIN l /\ \A i \in DOMAIN k: i + 1 \in DOMAIN l
        /\ DOMAIN l \subseteq Nat \ {0}
    BY <1>4, <1>6
  <2> HIDE DEF l
  <2>2. /\ g[1] = 1
        /\ \A i \in DOMAIN l: i # 1 => i - 1 \in DOMAIN k /\ g[i] = from[i - 1] + 1
        /\ \A i \in DOMAIN k: g[i + 1] = from[i] + 1
    <3>1. \A i \in DOMAIN k: i + 1 # 1 /\ (i + 1) - 1 = i
      BY <1>9
    <3> QED
      BY <2>1, <3>1
  <2>3. g \in [DOMAIN l -> DOMAIN r]
    BY <1>7, <1>8, <2>1
  <2> HIDE DEF g
  <2>4. ASSUME NEW i \in DOMAIN l, NEW j \in DOMAIN l, i < j
        PROVE  g[i] < g[j]
    <3>1. j # 1 /\ j - 1 \in DOMAIN k /\ g[j] = from[j - 1] + 1
      BY <2>1, <2>2, <2>4
    <3>2. from[j - 1] \in Nat \ {0}
      BY <1>7, <1>9, <3>1
    <3>3. CASE i = 1
      BY <2>2, <3>1, <3>2, <3>3
    <3>4. CASE i # 1
      <4>1. i - 1 \in DOMAIN k /\ g[i] = from[i - 1] + 1 /\ i - 1 < j - 1
        BY <2>1, <2>2, <2>4, <3>4
      <4>2. from[i - 1] < from[j - 1] /\ from[i - 1] \in Nat
        BY <1>7, <1>9, <3>1, <4>1
      <4> QED
        BY <3>1, <3>2, <4>1, <4>2
    <3> QED
      BY <3>3, <3>4
  <2>5. ASSUME NEW i \in DOMAIN l
        PROVE  l[i] = r[g[i]]
    BY <1>7, <1>8, <2>1, <2>2
  <2>6. ASSUME NEW j \in DOMAIN r
        PROVE  r[j] # Null <=> \E i \in DOMAIN l: g[i] = j
    <3>1. CASE j = 1
      BY <1>8, <1>11, <2>1, <2>2, <3>1
    <3>2. CASE j # 1
      <4>1. j - 1 \in DOMAIN t /\ r[j] = t[j - 1] /\ j \in Nat
        BY <1>8, <1>9, <3>2
      <4>2. ASSUME NEW i \in DOMAIN l, g[i] = j PROVE \E m \in DOMAIN k: from[m] = j - 1
        <5>1. i - 1 \in DOMAIN k /\ from[i - 1] + 1 = j
          BY <2>2, <3>2, <4>2
        <5>2. from[i - 1] \in Nat
          BY <1>7, <1>9, <5>1
        <5> QED
          BY <5>1, <5>2
      <4>3. ASSUME NEW m \in DOMAIN k, from[m] = j - 1 PROVE \E i \in DOMAIN l: g[i] = j
        <5>1. m + 1 \in DOMAIN l /\ g[m + 1] = j
          BY <2>1, <2>2, <4>1, <4>3
        <5> QED
          BY <5>1
      <4> QED
        BY <1>7, <4>1, <4>2, <4>3
    <3> QED
      BY <3>1, <3>2
  <2>7. Kept[r] = l
    BY <1>6, <1>11 DEF l
  <2>8. Gathers(l, r)
    BY <2>3, <2>4, <2>5, <2>6 DEF Gathers
  <2> QED
    BY <1>2, <2>7, <2>8
<1> QED
  BY <1>10, <1>11

-----------------------------------------------------------------------------
(* dropNulls *)

Dropping == INSTANCE Recursion WITH Domain <- JSON, Rank <- Depth, Def <- DropOnce

\* dropNulls is what its definition says.
LEMMA DropNullsEquation == \A v \in JSON: DropNulls[v] = DropOnce(DropNulls, v)
<1>1. \A v \in JSON: Depth(v) \in Nat
  BY DepthExists
<1>2. Dropping!Descends
  <2> SUFFICES ASSUME NEW g, NEW h, NEW v \in JSON,
                      \A w \in JSON: Depth(w) < Depth(v) => g[w] = h[w]
               PROVE  DropOnce(g, v) = DropOnce(h, v)
    BY DEF Dropping!Descends
  <2>1. CASE v.json = "object"
    <3>1. \A e \in v.fields: g[e.value] = h[e.value]
      BY <2>1, JSONCases
    <3> QED
      BY <2>1, <3>1 DEF DropOnce
  <2>2. CASE v.json = "array"
    <3>1. v.items \in Seq(JSON)
      BY <2>2, JSONCases
    <3>2. \A i \in DOMAIN v.items: g[v.items[i]] = h[v.items[i]]
      BY <2>2, JSONCases
    <3>3. \A i \in DOMAIN Kept[v.items]: \E j \in DOMAIN v.items: Kept[v.items][i] = v.items[j]
      BY <3>1, KeptItems
    <3>4. \A i \in DOMAIN Kept[v.items]: g[Kept[v.items][i]] = h[Kept[v.items][i]]
      BY <3>2, <3>3
    <3> QED
      BY <2>2, <3>4 DEF DropOnce
  <2>3. CASE v.json # "object" /\ v.json # "array"
    BY <2>3 DEF DropOnce
  <2> QED
    BY <2>1, <2>2, <2>3
<1>3. DropNulls = CHOOSE g: g = [v \in JSON |-> DropOnce(g, v)]
  BY DEF DropNulls
<1>4. DropNulls = [v \in JSON |-> DropOnce(DropNulls, v)]
  BY <1>1, <1>2, <1>3, Dropping!RecursiveFunction
<1> QED
  BY <1>4

\* dropNulls leaves scalars as they are, and arrays and objects what they are.
LEMMA DropNullsCases ==
    ASSUME NEW v \in JSON
    PROVE  LET w == DropNulls[v] IN
           /\ v.json \notin {"array", "object"} => w = v
           /\ v.json = "array" =>
                 w = Arr([i \in DOMAIN Kept[v.items] |-> DropNulls[Kept[v.items][i]]])
           /\ v.json = "object" =>
                 w = Obj({[key |-> e.key, value |-> DropNulls[e.value]]:
                             e \in {e \in v.fields: e.value # Null}})
           /\ w.json = v.json
<1>1. DropNulls[v] = DropOnce(DropNulls, v)
  BY DropNullsEquation
<1>2. CASE v.json = "object"
  BY <1>1, <1>2 DEF DropOnce, Dropped, Obj
<1>3. CASE v.json = "array"
  BY <1>1, <1>3 DEF DropOnce, Arr
<1>4. CASE v.json # "object" /\ v.json # "array"
  BY <1>1, <1>4 DEF DropOnce
<1> QED
  BY <1>2, <1>3, <1>4

\* What is left is a JSON value, no deeper than before.
LEMMA DropNullsLevel ==
    ASSUME NEW n \in 0..MaxDepth, NEW v \in Level[n]
    PROVE  DropNulls[v] \in Level[n]
<1> DEFINE S == {m \in 0..MaxDepth: \E w \in Level[m]: DropNulls[w] \notin Level[m]}
<1> SUFFICES ASSUME S # {} PROVE FALSE
  OBVIOUS
<1>1. PICK m \in S: \A k \in S: m <= k
  <2>1. S \in SUBSET Nat
    BY DepthAssumption
  <2> HIDE DEF S
  <2> QED
    BY <2>1, Levels!LeastNatural
<1>2. PICK w \in Level[m]: DropNulls[w] \notin Level[m]
  OBVIOUS
<1>3. m \in Nat /\ m <= MaxDepth /\ MaxDepth \in Nat
  BY DepthAssumption
<1>4. w \in JSON
  BY <1>3, LevelsRise DEF JSON
<1>5. CASE w \in Scalar /\ w.json \in {"null", "string", "number"}
  BY <1>2, <1>4, <1>5, DropNullsCases
<1>6. CASE m - 1 \in Nat
  <2>1. \A x \in Level[m - 1]: DropNulls[x] \in Level[m - 1]
    BY <1>1, <1>3, <1>6
  <2>2. (m - 1) + 1 = m
    BY <1>3
  <2>3. CASE w.json = "array" /\ w.items \in Seq(Level[m - 1])
    <3> DEFINE k == Kept[w.items]
               t == [i \in DOMAIN k |-> DropNulls[k[i]]]
    <3>1. w.items \in Seq(JSON)
      BY <1>4, <2>3, JSONCases
    <3>2. /\ k \in Seq(JSON)
          /\ \A i \in DOMAIN k: \E j \in DOMAIN w.items: k[i] = w.items[j]
      BY <3>1, KeptItems
    <3> HIDE DEF k
    <3>3. \A i \in DOMAIN k: DropNulls[k[i]] \in Level[m - 1]
      BY <2>1, <2>3, <3>2
    <3>4. t \in Seq(Level[m - 1])
      <4>1. DOMAIN k = 1..Len(k) /\ Len(k) \in Nat
        BY <3>2
      <4> QED
        BY <3>3, <4>1
    <3>5. Arr(t) \in Level[m]
      BY <1>6, <2>2, <3>4, LevelAbove
    <3>6. DropNulls[w] = Arr(t)
      BY <1>4, <2>3, DropNullsCases DEF k
    <3> QED
      BY <1>2, <3>5, <3>6
  <2>4. CASE w.json = "object" /\ w.fields \in Maps(Level[m - 1])
    <3> DEFINE f == {[key |-> e.key, value |-> DropNulls[e.value]]:
                        e \in {e \in w.fields: e.value # Null}}
    <3>1. f \in Maps(Level[m - 1])
      <4>1. \A e \in w.fields: e.key \in Keys /\ DropNulls[e.value] \in Level[m - 1]
        BY <2>1, <2>4 DEF Maps
      <4>2. f \in SUBSET [key: Keys, value: Level[m - 1]]
        BY <4>1
      <4>3. \A a, b \in w.fields: a.key = b.key => a = b
        BY <2>4 DEF Maps
      <4>4. ASSUME NEW x \in f, NEW y \in f, x.key = y.key PROVE x = y
        <5>1. PICK a \in w.fields: x = [key |-> a.key, value |-> DropNulls[a.value]]
          OBVIOUS
        <5>2. PICK b \in w.fields: y = [key |-> b.key, value |-> DropNulls[b.value]]
          OBVIOUS
        <5>3. a = b
          BY <4>3, <4>4, <5>1, <5>2
        <5> QED
          BY <5>1, <5>2, <5>3
      <4> QED
        BY <4>2, <4>4 DEF Maps
    <3>2. DropNulls[w] = Obj(f)
      BY <1>4, <2>4, DropNullsCases
    <3> HIDE DEF f
    <3>3. Obj(f) \in Level[m]
      BY <1>6, <2>2, <3>1, LevelAbove
    <3> QED
      BY <1>2, <3>2, <3>3
  <2> QED
    BY <1>3, <1>5, <2>3, <2>4, LevelCases
<1> QED
  BY <1>3, <1>5, <1>6, LevelCases

\* The raw message is a JSON value.
LEMMA DropNullsTyped == \A v \in JSON: DropNulls[v] \in JSON
  BY DropNullsLevel, DepthAssumption DEF JSON

\* An object holds one value for a key, and walk finds it; elsewhere it finds nil.
LEMMA FieldCases ==
    ASSUME NEW v \in JSON, NEW k
    PROVE  /\ Field(v, k) \in JSON
           /\ v.json # "object" => Field(v, k) = Null
           /\ v.json = "object" =>
                 /\ \A e \in v.fields: e.key = k => Field(v, k) = e.value
                 /\ (\A e \in v.fields: e.key # k) => Field(v, k) = Null
<1>1. Null \in JSON
  BY LevelAbove, DepthAssumption DEF JSON, Scalar
<1>2. CASE v.json # "object"
  BY <1>1, <1>2 DEF Field
<1>3. CASE v.json = "object"
  <2>1. /\ v.fields \in Maps(JSON)
        /\ \A e \in v.fields: e.value \in JSON
    BY <1>3, JSONCases
  <2>2. \A e \in v.fields: e.key = k => Field(v, k) = e.value
    <3> SUFFICES ASSUME NEW e \in v.fields, e.key = k PROVE Field(v, k) = e.value
      OBVIOUS
    <3>1. \A f \in v.fields: f.key = k => f = e
      BY <2>1 DEF Maps
    <3>2. (CHOOSE f \in v.fields: f.key = k) = e
      BY <3>1
    <3> QED
      BY <1>3, <3>2 DEF Field
  <2>3. (\A e \in v.fields: e.key # k) => Field(v, k) = Null
    BY <1>3 DEF Field
  <2> QED
    BY <1>1, <1>3, <2>1, <2>2, <2>3
<1> QED
  BY <1>2, <1>3

\* Whether the nulls are dropped before the walk or after it comes to the same.
LEMMA FieldOfDropped ==
    ASSUME NEW v \in JSON, NEW k
    PROVE  Field(DropNulls[v], k) = DropNulls[Field(v, k)]
<1> DEFINE w == DropNulls[v]
<1>1. w \in JSON /\ w.json = v.json
  BY DropNullsTyped, DropNullsCases
<1>2. DropNulls[Null] = Null
  <2>1. Null \in JSON /\ Null.json = "null"
    BY LevelAbove, DepthAssumption DEF JSON, Scalar, Null
  <2> QED
    BY <2>1, DropNullsCases
<1>3. CASE v.json # "object"
  BY <1>1, <1>2, <1>3, FieldCases
<1>4. CASE v.json = "object"
  <2> DEFINE f == {[key |-> e.key, value |-> DropNulls[e.value]]:
                      e \in {e \in v.fields: e.value # Null}}
  <2>1. w.fields = f /\ w.json = "object"
    <3>1. w = Obj(f)
      BY <1>4, DropNullsCases
    <3> HIDE DEF f, w
    <3> QED
      BY <3>1 DEF Obj
  <2>2. v.fields \in Maps(JSON)
    BY <1>4, JSONCases
  <2>3. CASE \E e \in v.fields: e.key = k
    <3>1. PICK e \in v.fields: e.key = k
      BY <2>3
    <3>2. Field(v, k) = e.value
      BY <1>4, <3>1, FieldCases
    <3>3. CASE e.value = Null
      <4>1. ASSUME NEW x \in f PROVE x.key # k
        <5>1. PICK a \in v.fields: a.value # Null /\ x = [key |-> a.key, value |-> DropNulls[a.value]]
          OBVIOUS
        <5> QED
          BY <2>2, <3>1, <3>3, <5>1 DEF Maps
      <4> HIDE DEF f, w
      <4>2. Field(w, k) = Null
        BY <1>1, <2>1, <4>1, FieldCases
      <4> QED
        BY <1>2, <3>2, <3>3, <4>2 DEF w
    <3>4. CASE e.value # Null
      <4> DEFINE x == [key |-> e.key, value |-> DropNulls[e.value]]
      <4>1. x \in f /\ x.key = k /\ x.value = DropNulls[e.value]
        BY <3>1, <3>4
      <4> HIDE DEF f, w, x
      <4>2. Field(w, k) = x.value
        BY <1>1, <2>1, <4>1, FieldCases
      <4> QED
        BY <3>2, <4>1, <4>2 DEF w
    <3> QED
      BY <3>3, <3>4
  <2>4. CASE \A e \in v.fields: e.key # k
    <3>1. \A x \in f: x.key # k
      BY <2>4
    <3> HIDE DEF f, w
    <3>2. Field(w, k) = Null
      BY <1>1, <2>1, <3>1, FieldCases
    <3> QED
      BY <1>2, <1>4, <2>4, <3>2, FieldCases DEF w
  <2> QED
    BY <2>3, <2>4
<1> QED
  BY <1>3, <1>4

-----------------------------------------------------------------------------
(* The small message and the configurations, from the data or from the raw message *)

\* A walk over the raw message ends at what is left of the value a walk over the data
\* ends at.
LEMMA WalkOfDropped ==
    ASSUME NEW v \in JSON, NEW k1, NEW k2, NEW k3
    PROVE  /\ Walk(v, k1, k2, k3) \in JSON
           /\ Walk(DropNulls[v], k1, k2, k3) = DropNulls[Walk(v, k1, k2, k3)]
<1>1. Field(v, k1) \in JSON /\ Field(DropNulls[v], k1) = DropNulls[Field(v, k1)]
  BY FieldCases, FieldOfDropped
<1> DEFINE w == Field(v, k1)
<1>2. Field(w, k2) \in JSON /\ Field(DropNulls[w], k2) = DropNulls[Field(w, k2)]
  BY <1>1, FieldCases, FieldOfDropped
<1> DEFINE x == Field(w, k2)
<1>3. Field(x, k3) \in JSON /\ Field(DropNulls[x], k3) = DropNulls[Field(x, k3)]
  BY <1>2, FieldCases, FieldOfDropped
<1> QED
  BY <1>1, <1>2, <1>3 DEF Walk

\* Numbers and texts are read the same before and after.
LEMMA ScalarsOfDropped ==
    ASSUME NEW w \in JSON
    PROVE  /\ \A fallback: ReadInt(DropNulls[w], fallback) = ReadInt(w, fallback)
           /\ ReadText(DropNulls[w]) = ReadText(w)
<1>1. CASE w.json \in {"number", "string"}
  BY <1>1, DropNullsCases
<1>2. CASE w.json \notin {"number", "string"}
  BY <1>2, DropNullsCases DEF ReadInt, ReadText
<1> QED
  BY <1>1, <1>2

\* So is an array of numbers, unless it holds a null.
LEMMA ArrayOfDropped ==
    ASSUME NEW w \in JSON, ~HasNull(w)
    PROVE  ReadIntArray(DropNulls[w]) = ReadIntArray(w)
<1>1. CASE w.json # "array"
  BY <1>1, DropNullsCases DEF ReadIntArray
<1>2. CASE w.json = "array"
  <2> DEFINE s == w.items
             t == [i \in DOMAIN s |-> DropNulls[s[i]]]
  <2>1. s \in Seq(JSON) /\ \A i \in DOMAIN s: s[i] \in JSON /\ s[i] # Null
    BY <1>2, JSONCases DEF HasNull
  <2>2. Kept[s] = s
    BY <2>1, KeptItems
  <2>3. DropNulls[w] = Arr(t)
    BY <1>2, <2>2, DropNullsCases
  <2>4. \A i \in DOMAIN s: t[i].json = s[i].json /\ (s[i].json = "number" => t[i] = s[i])
    BY <2>1, DropNullsCases
  <2>5. DOMAIN t = DOMAIN s
    OBVIOUS
  <2> HIDE DEF s, t
  <2>6. Arr(t).json = "array" /\ Arr(t).items = t
    BY DEF Arr
  <2>7. CASE \A i \in DOMAIN s: s[i].json = "number"
    <3>1. ReadIntArray(w) = [i \in DOMAIN s |-> s[i].number]
      BY <1>2, <2>7 DEF ReadIntArray, s
    <3>2. \A i \in DOMAIN t: t[i].json = "number"
      BY <2>4, <2>5, <2>7
    <3>3. ReadIntArray(Arr(t)) = [i \in DOMAIN t |-> t[i].number]
      BY <2>6, <3>2 DEF ReadIntArray
    <3>4. [i \in DOMAIN t |-> t[i].number] = [i \in DOMAIN s |-> s[i].number]
      BY <2>4, <2>5, <2>7
    <3> QED
      BY <2>3, <3>1, <3>3, <3>4
  <2>8. CASE ~\A i \in DOMAIN s: s[i].json = "number"
    <3>1. ReadIntArray(w) = <<>>
      BY <1>2, <2>8 DEF ReadIntArray, s
    <3>2. ~\A i \in DOMAIN t: t[i].json = "number"
      BY <2>4, <2>5, <2>8
    <3>3. ReadIntArray(Arr(t)) = <<>>
      BY <2>6, <3>2 DEF ReadIntArray
    <3> QED
      BY <2>3, <3>1, <3>3
  <2> QED
    BY <2>7, <2>8
<1> QED
  BY <1>1, <1>2

\* The small message can be computed from the raw one.
LEMMA BuildOfDropped ==
    ASSUME NEW v \in JSON, ~HasNull(RemainingTime(v)), NEW clock
    PROVE  Build(DropNulls[v], clock) = Build(v, clock)
<1> DEFINE w == DropNulls[v]
<1>1. StatusRaw(w) = StatusRaw(v)
  BY WalkOfDropped, ScalarsOfDropped DEF StatusRaw
<1>2. \A fallback: ReadInt(Walk(w, "state", "programPhase", "value_raw"), fallback)
                      = ReadInt(Walk(v, "state", "programPhase", "value_raw"), fallback)
  BY WalkOfDropped, ScalarsOfDropped
<1>3. RemainingTime(w) = DropNulls[RemainingTime(v)] /\ RemainingTime(v) \in JSON
  BY FieldCases, FieldOfDropped DEF RemainingTime
<1>4. Remaining(w) = Remaining(v)
  BY <1>3, ArrayOfDropped DEF Remaining
<1> HIDE DEF w
<1>5. Duration(w) = Duration(v)
  BY <1>1, <1>4 DEF Duration
<1>6. Build(w, clock) = Build(v, clock)
  BY <1>1, <1>2, <1>5 DEF Build
<1> QED
  BY <1>6 DEF w

\* So can the configurations.
LEMMA DiscoveryOfDropped ==
    ASSUME NEW v \in JSON
    PROVE  Discovery(DropNulls[v]) = Discovery(v)
<1>1. \A k1, k2, k3: ReadText(Walk(DropNulls[v], k1, k2, k3)) = ReadText(Walk(v, k1, k2, k3))
  BY WalkOfDropped, ScalarsOfDropped
<1>2. Identity(DropNulls[v]) = Identity(v)
  BY <1>1 DEF Identity
<1> QED
  BY <1>2 DEF Discovery

-----------------------------------------------------------------------------
(* What is in the raw message *)

Stripping == INSTANCE Recursion WITH Domain <- JSON, Rank <- Depth, Def <- StrippedOnce

\* What a value is without its nulls is what the definition says.
LEMMA StrippedEquation == \A v \in JSON: Stripped[v] = StrippedOnce(Stripped, v)
<1>1. \A v \in JSON: Depth(v) \in Nat
  BY DepthExists
<1>2. Stripping!Descends
  <2> SUFFICES ASSUME NEW g, NEW h, NEW v \in JSON,
                      \A w \in JSON: Depth(w) < Depth(v) => g[w] = h[w]
               PROVE  StrippedOnce(g, v) = StrippedOnce(h, v)
    BY DEF Stripping!Descends
  <2>1. CASE v.json = "object"
    <3>1. \A e \in v.fields: g[e.value] = h[e.value]
      BY <2>1, JSONCases
    <3> QED
      BY <2>1, <3>1 DEF StrippedOnce
  <2>2. CASE v.json = "array"
    <3>1. \A i \in DOMAIN v.items: g[v.items[i]] = h[v.items[i]]
      BY <2>2, JSONCases
    <3>2. ASSUME NEW t PROVE Shrunk(g, v.items, t) <=> Shrunk(h, v.items, t)
      <4>1. ASSUME NEW from \in [DOMAIN t -> DOMAIN v.items], NEW i \in DOMAIN t
            PROVE  g[v.items[from[i]]] = h[v.items[from[i]]]
        BY <3>1
      <4> QED
        BY <4>1 DEF Shrunk
    <3> QED
      BY <2>2, <3>2 DEF StrippedOnce
  <2>3. CASE v.json # "object" /\ v.json # "array"
    BY <2>3 DEF StrippedOnce
  <2> QED
    BY <2>1, <2>2, <2>3
<1>3. Stripped = CHOOSE g: g = [v \in JSON |-> StrippedOnce(g, v)]
  BY DEF Stripped
<1>4. Stripped = [v \in JSON |-> StrippedOnce(Stripped, v)]
  BY <1>1, <1>2, <1>3, Stripping!RecursiveFunction
<1> QED
  BY <1>4

\* dropNulls leaves a value without its nulls, and otherwise as it is.
LEMMA DroppedIsStripped == ASSUME NEW v \in JSON PROVE DropNulls[v] \in Stripped[v]
<1> DEFINE S == {u \in JSON: DropNulls[u] \notin Stripped[u]}
<1> SUFFICES ASSUME S # {} PROVE FALSE
  OBVIOUS
<1>1. PICK u \in S: \A w \in S: ~(Depth(w) < Depth(u))
  <2>1. S \in SUBSET JSON
    OBVIOUS
  <2>2. \A w \in JSON: Depth(w) \in Nat
    BY DepthExists
  <2> HIDE DEF S
  <2> QED
    BY <2>1, <2>2, Stripping!LeastRanked
<1>2. u \in JSON /\ DropNulls[u] \notin StrippedOnce(Stripped, u) /\ DropNulls[u] \in JSON
  BY StrippedEquation, DropNullsTyped
<1>3. ASSUME NEW w \in JSON, Depth(w) < Depth(u)
      PROVE  DropNulls[w] \in Stripped[w]
  BY <1>1, <1>3
<1> HIDE DEF S
<1>4. CASE u.json = "object"
  <2> DEFINE f == {[key |-> e.key, value |-> DropNulls[e.value]]:
                      e \in {e \in u.fields: e.value # Null}}
  <2>1. DropNulls[u].json = "object" /\ DropNulls[u].fields = f
    <3>1. DropNulls[u] = Obj(f)
      BY <1>2, <1>4, DropNullsCases
    <3> HIDE DEF f
    <3> QED
      BY <3>1 DEF Obj
  <2>2. u.fields \in Maps(JSON) /\ \A e \in u.fields: DropNulls[e.value] \in Stripped[e.value]
    BY <1>2, <1>3, <1>4, JSONCases
  <2>3. KeysOf(f) = KeysOf(Solid(u.fields))
    <3>1. ASSUME NEW x \in f PROVE \E e \in Solid(u.fields): e.key = x.key
      BY DEF Solid
    <3>2. ASSUME NEW e \in Solid(u.fields) PROVE \E x \in f: x.key = e.key
      <4>1. [key |-> e.key, value |-> DropNulls[e.value]] \in f
        BY DEF Solid
      <4> QED
        BY <4>1
    <3> HIDE DEF f
    <3> QED
      BY <3>1, <3>2 DEF KeysOf
  <2>4. ASSUME NEW e \in u.fields, NEW x \in f, e.key = x.key
        PROVE  x.value \in Stripped[e.value]
    <3>1. PICK a \in u.fields: x = [key |-> a.key, value |-> DropNulls[a.value]]
      OBVIOUS
    <3>2. a = e
      BY <2>2, <2>4, <3>1 DEF Maps
    <3> QED
      BY <2>2, <3>1, <3>2
  <2> HIDE DEF f
  <2> QED
    BY <1>2, <1>4, <2>1, <2>3, <2>4 DEF StrippedOnce
<1>5. CASE u.json = "array"
  <2> DEFINE s == u.items
             k == Kept[s]
             t == [i \in DOMAIN k |-> DropNulls[k[i]]]
  <2>1. s \in Seq(JSON) /\ \A i \in DOMAIN s: DropNulls[s[i]] \in Stripped[s[i]]
    BY <1>2, <1>3, <1>5, JSONCases
  <2>2. Gathers(k, s)
    BY <2>1, KeptGathers
  <2>3. DropNulls[u] = Arr(t)
    BY <1>2, <1>5, DropNullsCases
  <2> HIDE DEF k, s
  <2>4. PICK from \in [DOMAIN k -> DOMAIN s]:
          /\ \A i, j \in DOMAIN k: i < j => from[i] < from[j]
          /\ \A j \in DOMAIN s: s[j] # Null <=> \E i \in DOMAIN k: from[i] = j
          /\ \A i \in DOMAIN k: k[i] = s[from[i]]
    BY <2>2 DEF Gathers
  <2>5. DOMAIN t = DOMAIN k /\ \A i \in DOMAIN k: t[i] \in Stripped[s[from[i]]]
    BY <2>1, <2>4
  <2> HIDE DEF t
  <2>6. Shrunk(Stripped, s, t)
    BY <2>4, <2>5 DEF Shrunk
  <2>7. DropNulls[u].json = "array" /\ DropNulls[u].items = t
    BY <2>3 DEF Arr
  <2> QED
    BY <1>2, <1>5, <2>6, <2>7 DEF StrippedOnce, s
<1>6. CASE u.json \notin {"array", "object"}
  <2>1. DropNulls[u] = u
    BY <1>2, <1>6, DropNullsCases
  <2> QED
    BY <1>2, <1>6, <2>1 DEF StrippedOnce
<1> QED
  BY <1>4, <1>5, <1>6

-----------------------------------------------------------------------------
(* The next update of a running program *)

\* An object with another value for a key is one, and differs in that key only.
LEMMA WithCases ==
    ASSUME NEW n \in Nat, n + 1 <= MaxDepth,
           NEW v \in Level[n + 1], v.json = "object",
           NEW k \in Keys, NEW w \in Level[n]
    PROVE  /\ With(v, k, w) \in Level[n + 1] /\ With(v, k, w).json = "object"
           /\ Field(With(v, k, w), k) = w
           /\ \A key: key # k => Field(With(v, k, w), key) = Field(v, key)
<1> DEFINE x == [key |-> k, value |-> w]
           rest == {e \in v.fields: e.key # k}
           f == rest \cup {x}
<1>1. v.fields \in Maps(Level[n])
  <2>1. (n + 1) - 1 = n /\ n + 1 \in Nat
    OBVIOUS
  <2> QED
    BY <2>1, LevelCases
<1>2. f \in Maps(Level[n])
  <2>1. v.fields \in SUBSET [key: Keys, value: Level[n]]
    BY <1>1 DEF Maps
  <2>2. x \in [key: Keys, value: Level[n]]
    OBVIOUS
  <2>3. f \in SUBSET [key: Keys, value: Level[n]]
    BY <2>1, <2>2
  <2>4. \A e \in f: e = x \/ (e \in v.fields /\ e.key # k)
    OBVIOUS
  <2>5. x.key = k
    OBVIOUS
  <2> HIDE DEF x, f
  <2>6. \A a, b \in f: a.key = b.key => a = b
    BY <1>1, <2>4, <2>5 DEF Maps
  <2> QED
    BY <2>3, <2>6 DEF Maps
<1>3. With(v, k, w) = Obj(f)
  BY DEF With
<1>4. Obj(f) \in Level[n + 1]
  BY <1>2, LevelAbove
<1>5. Obj(f) \in JSON /\ v \in JSON
  BY <1>4, LevelsRise, DepthAssumption DEF JSON
<1>6. Obj(f).json = "object" /\ Obj(f).fields = f
  BY DEF Obj
<1>7. x \in f /\ x.key = k /\ x.value = w
  OBVIOUS
<1>8. ASSUME NEW key, key # k
      PROVE  Field(Obj(f), key) = Field(v, key)
  <2>1. CASE \E e \in v.fields: e.key = key
    <3>1. PICK e \in v.fields: e.key = key
      BY <2>1
    <3>2. e \in f
      BY <1>8, <3>1
    <3> HIDE DEF f
    <3> QED
      BY <1>5, <1>6, <3>1, <3>2, FieldCases
  <2>2. CASE \A e \in v.fields: e.key # key
    <3>1. \A e \in f: e.key # key
      BY <1>7, <1>8, <2>2
    <3> HIDE DEF f
    <3> QED
      BY <1>5, <1>6, <2>2, <3>1, FieldCases
  <2> QED
    BY <2>1, <2>2
<1> HIDE DEF f, x
<1>9. Field(Obj(f), k) = w
  BY <1>5, <1>6, <1>7, FieldCases
<1> QED
  BY <1>3, <1>4, <1>6, <1>8, <1>9

\* The elements of a remaining time are numbers.
LEMMA RemainingTyped ==
    ASSUME NEW v \in JSON
    PROVE  /\ Remaining(v) \in Seq(Int)
           /\ Remaining(v) # <<>> => RemainingTime(v).json = "array"
<1> DEFINE w == RemainingTime(v)
<1>1. w \in JSON
  BY FieldCases DEF RemainingTime
<1> HIDE DEF w
<1>2. CASE w.json = "array" /\ \A i \in DOMAIN w.items: w.items[i].json = "number"
  <2>1. w.items \in Seq(JSON)
    BY <1>1, <1>2, JSONCases
  <2>2. \A i \in DOMAIN w.items: w.items[i].number \in Int
    <3> SUFFICES ASSUME NEW i \in DOMAIN w.items PROVE w.items[i].number \in Int
      OBVIOUS
    <3>1. w.items[i] \in JSON /\ w.items[i].json = "number"
      BY <1>2, <2>1
    <3>2. w.items[i] \in Scalar
      BY <3>1, JSONCases
    <3> QED
      BY <3>1, <3>2 DEF Scalar, Null
  <2>3. ReadIntArray(w) = [i \in DOMAIN w.items |-> w.items[i].number]
    BY <1>2 DEF ReadIntArray
  <2>4. DOMAIN w.items = 1..Len(w.items) /\ Len(w.items) \in Nat
    BY <2>1
  <2>5. ReadIntArray(w) \in Seq(Int)
    BY <2>2, <2>3, <2>4
  <2> QED
    BY <1>2, <2>5 DEF Remaining, w
<1>3. CASE ~(w.json = "array" /\ \A i \in DOMAIN w.items: w.items[i].json = "number")
  <2>1. ReadIntArray(w) = <<>>
    BY <1>3 DEF ReadIntArray
  <2> QED
    BY <2>1 DEF Remaining, w
<1> QED
  BY <1>2, <1>3

\* A program that is counted down comes from an array of two numbers, and takes as long
\* for the small message as the device reports, in whole minutes.
LEMMA CountingCases ==
    ASSUME NEW v \in JSON, Counting(v)
    PROVE  /\ StatusRaw(v) # DeviceStatusOff
           /\ RemainingTime(v).json = "array"
           /\ Reported(v) \in Nat
           /\ Duration(v) = Reported(v) /\ Reported(v) % 60 = 0
<1> DEFINE a == Remaining(v)
<1>1. StatusRaw(v) # DeviceStatusOff /\ a \in Nat \X Nat
  BY DEF Counting
<1>2. RemainingTime(v).json = "array"
  <2>1. a # <<>>
    BY <1>1
  <2> QED
    BY <2>1, RemainingTyped
<1> HIDE DEF a
<1>3. a[1] \in Nat /\ a[2] \in Nat /\ Len(a) = 2
  BY <1>1
<1>4. ParseDuration(a) = (a[1] * 60 + a[2]) * 60
  BY <1>3 DEF ParseDuration
<1>5. (a[1] * 60 + a[2]) * 60 = 3600 * a[1] + 60 * a[2]
  BY <1>3
<1>6. Reported(v) = 3600 * a[1] + 60 * a[2]
  BY DEF Reported, a
<1>7. Duration(v) = ParseDuration(a)
  BY <1>1 DEF Duration, a
<1>8. Reported(v) \in Nat /\ Reported(v) % 60 = 0
  <2>1. \A m, n \in Nat: 3600 * m + 60 * n \in Nat /\ (3600 * m + 60 * n) % 60 = 0
    OBVIOUS
  <2> QED
    BY <1>3, <1>6, <2>1
<1> QED
  BY <1>1, <1>2, <1>4, <1>5, <1>6, <1>7, <1>8

\* What a device reports is read back as it is.
LEMMA MinutesRead ==
    ASSUME NEW h \in Nat, NEW m \in Nat
    PROVE  /\ Arr(<<Num(h), Num(m)>>) \in Level[1]
           /\ ReadIntArray(Arr(<<Num(h), Num(m)>>)) = <<h, m>>
<1> DEFINE t == <<Num(h), Num(m)>>
<1>1. \A n \in Nat: Num(n) \in Level[0]
  BY LevelAbove DEF Scalar, Num
<1>2. t \in Seq(Level[0])
  <2>1. \A S: \A x, y \in S: <<x, y>> \in Seq(S)
    OBVIOUS
  <2> QED
    BY <1>1, <2>1
<1>3. Arr(t) \in Level[1]
  <2>1. 0 + 1 = 1 /\ 0 \in Nat
    OBVIOUS
  <2> QED
    BY <1>2, <2>1, LevelAbove
<1>4. ReadIntArray(Arr(t)) = <<h, m>>
  BY DEF ReadIntArray, Arr, Num
<1> QED
  BY <1>3, <1>4

\* A field that is there is in an object, one level down.
LEMMA FieldLevel ==
    ASSUME NEW n \in Nat, n <= MaxDepth, NEW v \in Level[n], NEW k, Field(v, k) # Null
    PROVE  /\ v.json = "object" /\ k \in Keys /\ n - 1 \in Nat
           /\ Field(v, k) \in Level[n - 1]
<1>1. v \in JSON
  BY LevelsRise, DepthAssumption DEF JSON
<1>2. v.json = "object" /\ \E e \in v.fields: e.key = k
  BY <1>1, FieldCases
<1>3. n - 1 \in Nat /\ v.fields \in Maps(Level[n - 1])
  BY <1>2, LevelCases
<1>4. PICK e \in v.fields: e.key = k
  BY <1>2
<1>5. e \in [key: Keys, value: Level[n - 1]]
  BY <1>3, <1>4 DEF Maps
<1>6. Field(v, k) = e.value
  BY <1>1, <1>2, <1>4, FieldCases
<1> QED
  BY <1>2, <1>3, <1>4, <1>5, <1>6

\* A device that reports another time left goes on counting, from there.
LEMMA TimeLeftCases ==
    ASSUME NEW v \in JSON, Counting(v), NEW minutes \in Nat
    PROVE  /\ TimeLeft(v, minutes) \in JSON /\ TimeLeft(v, minutes) # Null
           /\ Counting(TimeLeft(v, minutes))
           /\ Reported(TimeLeft(v, minutes)) = 60 * minutes
<1> DEFINE state == Field(v, "state")
           h == minutes \div 60
           m == minutes % 60
           rest == Arr(<<Num(h), Num(m)>>)
           inner == With(state, "remainingTime", rest)
           w == TimeLeft(v, minutes)
<1>1. h \in Nat /\ m \in Nat /\ 3600 * h + 60 * m = 60 * minutes
  <2>1. minutes = 60 * h + m
    OBVIOUS
  <2>2. h \in Nat /\ m \in Nat
    OBVIOUS
  <2> HIDE DEF h, m
  <2> QED
    BY <2>1, <2>2
<1>2. StatusRaw(v) # DeviceStatusOff /\ RemainingTime(v).json = "array"
  BY CountingCases
<1> HIDE DEF h, m
<1>4. rest \in Level[1] /\ ReadIntArray(rest) = <<h, m>>
  BY <1>1, MinutesRead
<1> HIDE DEF rest
<1>5. RemainingTime(v) # Null
  BY <1>2 DEF Null
<1>6. state # Null
  BY <1>5, FieldCases DEF RemainingTime, Null
<1>7. /\ v.json = "object" /\ "state" \in Keys /\ MaxDepth - 1 \in Nat
      /\ state \in Level[MaxDepth - 1]
  BY <1>6, FieldLevel, DepthAssumption DEF JSON
<1>8. /\ state.json = "object" /\ "remainingTime" \in Keys /\ MaxDepth - 2 \in Nat
      /\ RemainingTime(v) \in Level[MaxDepth - 2]
  <2>1. Field(state, "remainingTime") # Null
    BY <1>5 DEF RemainingTime
  <2>2. MaxDepth - 1 <= MaxDepth /\ (MaxDepth - 1) - 1 = MaxDepth - 2
    BY DepthAssumption
  <2> QED
    BY <1>7, <2>1, <2>2, FieldLevel DEF RemainingTime
<1>9. MaxDepth - 3 \in Nat
  <2>1. (MaxDepth - 2) - 1 = MaxDepth - 3
    BY DepthAssumption
  <2>2. RemainingTime(v) \notin Scalar
    BY <1>2 DEF Scalar, Null
  <2> QED
    BY <1>2, <1>8, <2>1, <2>2, LevelCases
<1>10. rest \in Level[MaxDepth - 2]
  <2>1. 1 <= MaxDepth - 2
    BY <1>9, DepthAssumption
  <2> QED
    BY <1>4, <1>8, <2>1, LevelsRise
<1>11. /\ inner \in Level[MaxDepth - 1]
       /\ Field(inner, "remainingTime") = rest
       /\ \A key: key # "remainingTime" => Field(inner, key) = Field(state, key)
  <2>1. (MaxDepth - 2) + 1 = MaxDepth - 1 /\ (MaxDepth - 2) + 1 <= MaxDepth
    BY DepthAssumption
  <2> QED
    BY <1>7, <1>8, <1>10, <2>1, WithCases
<1>12. /\ w \in Level[MaxDepth] /\ w.json = "object"
       /\ Field(w, "state") = inner
  <2>1. (MaxDepth - 1) + 1 = MaxDepth /\ (MaxDepth - 1) + 1 <= MaxDepth
    BY DepthAssumption
  <2> QED
    BY <1>7, <1>11, <2>1, WithCases DEF JSON, TimeLeft, rest, h, m
<1>13. RemainingTime(w) = rest
  BY <1>11, <1>12 DEF RemainingTime
<1>14. StatusRaw(w) = StatusRaw(v)
  BY <1>11, <1>12 DEF StatusRaw, Walk
<1>15. Remaining(w) = <<h, m>>
  BY <1>4, <1>13 DEF Remaining
<1>16. Counting(w)
  BY <1>1, <1>2, <1>14, <1>15 DEF Counting
<1>17. Reported(w) = 60 * minutes
  <2>1. <<h, m>>[1] = h /\ <<h, m>>[2] = m
    OBVIOUS
  <2> QED
    BY <1>1, <1>15, <2>1 DEF Reported
<1> QED
  BY <1>12, <1>16, <1>17 DEF JSON, Null

-----------------------------------------------------------------------------
(* Whatever updates come *)

\* What is published comes from the data and the clock of the last update.
Published ==
    /\ data \in JSON
    /\ now \in Nat /\ now < Day
    /\ data # Null =>
          /\ small = Build(data, now)
          /\ full = DropNulls[data]
          /\ configs = Discovery(data)

\* The device knows when the program ends, and reports the time left to the minute.
OnSchedule ==
    data # Null /\ Counting(data) =>
        /\ left \in Nat
        /\ ends = (now + left) % Day
        /\ Reported(data) - left \in -59..59

\* A time modulo Day is a time of day, and what is added meanwhile may be added first.
LEMMA TimeOfDay ==
    ASSUME NEW t \in Nat
    PROVE  /\ t % Day \in Nat /\ t % Day < Day
           /\ \A n \in Nat: ((t % Day) + n) % Day = (t + n) % Day
<1>1. t % 86400 \in Nat /\ t % 86400 < 86400
  OBVIOUS
<1>2. \A n \in Nat: ((t % 86400) + n) % 86400 = (t + n) % 86400
  OBVIOUS
<1> QED
  BY <1>1, <1>2 DEF Day

\* Rounding to minutes, down or up, changes less than a minute.
LEMMA RoundedMinutes ==
    ASSUME NEW n \in Nat, NEW m \in {n \div 60, (n + 59) \div 60}
    PROVE  m \in Nat /\ 60 * m - n \in -59..59
  OBVIOUS

\* An update publishes what comes from its data and its clock, and the program stays on
\* its schedule.
LEMMA Updates ==
    ASSUME Published, OnSchedule, Next
    PROVE  /\ \E d \in JSON, clock \in Nat: OnDevice(d, clock) /\ clock < Day
           /\ OnSchedule'
<1>1. CASE FirstUpdate
  <2>1. PICK d \in Payloads, clock \in Clocks:
            /\ OnDevice(d, clock)
            /\ Counting(d) => \E r \in Roundings:
                                 /\ Reported(d) + r >= 0
                                 /\ left' = Reported(d) + r
                                 /\ ends' = (clock + Reported(d) + r) % Day
    BY <1>1 DEF FirstUpdate
  <2>2. d \in JSON /\ clock \in Nat /\ clock < Day
    <3>1. ASSUME NEW t \in 0..(Day - 1) PROVE t \in Nat /\ t < Day
      BY DEF Day
    <3> QED
      BY <3>1, ClocksAssumption, PayloadsAssumption
  <2>3. data' = d /\ now' = clock
    BY <2>1 DEF OnDevice
  <2>4. ASSUME Counting(d)
        PROVE  /\ left' \in Nat /\ ends' = (clock + left') % Day
               /\ Reported(d) - left' \in -59..59
    <3>1. PICK r \in Roundings: /\ Reported(d) + r >= 0
                                /\ left' = Reported(d) + r
                                /\ ends' = (clock + Reported(d) + r) % Day
      BY <2>1, <2>4
    <3>2. Reported(d) \in Nat /\ r \in -59..59
      BY <2>2, <2>4, CountingCases, RoundingsAssumption
    <3>3. left' \in Nat /\ Reported(d) - left' \in -59..59
      BY <3>1, <3>2
    <3>4. clock + Reported(d) + r = clock + left'
      BY <2>2, <3>1, <3>2
    <3> QED
      BY <3>1, <3>3, <3>4
  <2>5. OnSchedule'
    BY <2>3, <2>4 DEF OnSchedule, Counting, Reported, StatusRaw, Remaining, RemainingTime
  <2> QED
    BY <2>1, <2>2, <2>5
<1>2. ASSUME NEW s \in Spans, GoesOn(s)
      PROVE  /\ \E d \in JSON, clock \in Nat: OnDevice(d, clock) /\ clock < Day
             /\ OnSchedule'
  <2>1. /\ Counting(data) /\ left >= s /\ left' = left - s /\ ends' = ends
        /\ data # Null
    BY <1>2 DEF GoesOn
  <2>2. PICK m \in {(left - s) \div 60, (left - s + 59) \div 60}:
            OnDevice(TimeLeft(data, m), (now + s) % Day)
    BY <1>2 DEF GoesOn
  <2>3. left \in Nat /\ ends = (now + left) % Day /\ s \in Nat /\ now \in Nat
        /\ data \in JSON
    BY <2>1, SpansAssumption DEF Published, OnSchedule
  <2>4. left' \in Nat /\ m \in Nat /\ 60 * m - left' \in -59..59
    <3>1. left - s \in Nat
      BY <2>1, <2>3
    <3> QED
      BY <2>1, <2>2, <3>1, RoundedMinutes
  <2> DEFINE d == TimeLeft(data, m)
             clock == (now + s) % Day
  <2>5. d \in JSON /\ Reported(d) = 60 * m
    BY <2>1, <2>3, <2>4, TimeLeftCases
  <2>6. clock \in Nat /\ clock < Day /\ ends = (clock + left') % Day
    <3>1. now + s \in Nat /\ (now + s) + left' = now + left
      BY <2>1, <2>3
    <3>2. clock \in Nat /\ clock < Day /\ (clock + left') % Day = ((now + s) + left') % Day
      BY <2>4, <3>1, TimeOfDay
    <3> QED
      BY <2>3, <3>1, <3>2
  <2>7. OnDevice(d, clock)
    BY <2>2
  <2> HIDE DEF d, clock
  <2>8. data' = d /\ now' = clock
    BY <2>7 DEF OnDevice
  <2>9. ends' = (clock + left') % Day /\ Reported(d) - left' \in -59..59
    BY <2>1, <2>4, <2>5, <2>6
  <2>10. OnSchedule'
    BY <2>4, <2>8, <2>9 DEF OnSchedule, Counting, Reported, StatusRaw, Remaining, RemainingTime
  <2> QED
    BY <2>5, <2>6, <2>7, <2>10
<1> QED
  BY <1>1, <1>2 DEF Next

\* Both are inductive.
LEMMA PublishedHolds == Spec => [](Published /\ OnSchedule)
<1>1. Init => Published /\ OnSchedule
  BY LevelAbove, DepthAssumption DEF Init, Published, OnSchedule, JSON, Scalar, Day
<1>2. Published /\ OnSchedule /\ [Next]_vars => (Published /\ OnSchedule)'
  <2>1. ASSUME Published, OnSchedule, Next PROVE Published' /\ OnSchedule'
    BY <2>1, Updates DEF Published, OnDevice
  <2>2. ASSUME Published, OnSchedule, UNCHANGED vars PROVE Published' /\ OnSchedule'
    BY <2>2 DEF Published, OnSchedule, vars, Counting, Reported, StatusRaw, Remaining,
                RemainingTime
  <2> QED
    BY <2>1, <2>2
<1> QED
  BY <1>1, <1>2, PTL DEF Spec

\* All topics of a device tell the same, whatever the device reports: the small
\* message and the discovery configurations could be computed from the raw message
\* without its nulls as well, and the entities read fields that are there.
THEOREM TopicsAlwaysAgree == Spec => []TopicsAgree
<1>1. Published => TopicsAgree
  <2> SUFFICES ASSUME Published, data # Null
               PROVE  /\ ~HasNull(RemainingTime(data)) => small = Build(full, now)
                      /\ configs = Discovery(full)
                      /\ \A c \in configs: c.field \in DOMAIN small
    BY DEF TopicsAgree
  <2>1. data \in JSON /\ small = Build(data, now) /\ full = DropNulls[data]
        /\ configs = Discovery(data)
    BY DEF Published
  <2>2. ~HasNull(RemainingTime(data)) => small = Build(full, now)
    BY <2>1, BuildOfDropped
  <2>3. configs = Discovery(full)
    BY <2>1, DiscoveryOfDropped
  <2>4. ASSUME NEW c \in configs PROVE c.field \in DOMAIN small
    <3>1. PICK e \in DiscoveryEntities: c.field = e[2]
      <4> DEFINE entities == {e \in DiscoveryEntities: DiscoveryEnabled}
      <4>1. entities \subseteq DiscoveryEntities
        OBVIOUS
      <4> HIDE DEF entities
      <4>2. \A x \in Discovery(data): \E e \in entities: x.field = e[2]
        <5> SUFFICES ASSUME NEW x \in Discovery(data)
                     PROVE  \E e \in entities: x.field = e[2]
          OBVIOUS
        <5>1. PICK e \in entities: x = Configuration(Identity(data), e)
          BY DEF Discovery, entities
        <5> QED
          BY <5>1 DEF Configuration
      <4> QED
        BY <2>1, <4>1, <4>2
    <3>2. e[2] \in {"state", "phase", "remainingDuration", "remainingDurationMinutes",
                    "timeCompleted"}
      BY <3>1 DEF DiscoveryEntities
    <3>3. DOMAIN small = {"phase", "phaseId", "state", "remainingDurationMinutes",
                          "remainingDuration", "timeCompleted"}
      BY <2>1 DEF Build
    <3> QED
      BY <3>1, <3>2, <3>3
  <2> QED
    BY <2>2, <2>3, <2>4
<1> QED
  BY <1>1, PublishedHolds, PTL

\* The raw message is the data without its nulls, at whatever depth: key by key, and
\* in arrays place by place (dropNulls).
THEOREM NullsAlwaysDropped == Spec => []OnlyNullsDropped
<1>1. Published => OnlyNullsDropped
  BY DroppedIsStripped DEF Published, OnlyNullsDropped
<1> QED
  BY <1>1, PublishedHolds, PTL

\* Hours and minutes are put together again as they were taken apart.
LEMMA MinutesOfFormat == \A n \in Nat: Minutes(FormatMinutes(n)) = n
  BY DEF Minutes, FormatMinutes

\* Times less than a minute apart are at most a minute apart on the clock, midnight or
\* not.
LEMMA NearOnTheClock ==
    ASSUME NEW a \in Nat, NEW b \in Nat, a - b \in -59..59
    PROVE  Near((a % Day) \div 60, (b % Day) \div 60)
<1> DEFINE m == a \div 60
           n == b \div 60
<1>1. m \in Nat /\ n \in Nat /\ m - n \in {-1, 0, 1}
  OBVIOUS
<1>2. \A t \in Nat: (t % 86400) \div 60 = (t \div 60) % 1440
  OBVIOUS
<1>3. (a % Day) \div 60 = m % 1440 /\ (b % Day) \div 60 = n % 1440
  BY <1>2 DEF Day
<1> HIDE DEF m, n
<1>4. m % 1440 = ((n % 1440) + (m - n)) % 1440
  BY <1>1
<1>5. \E k \in {-1, 0, 1}: m % 1440 = ((n % 1440) + k) % (24 * 60)
  BY <1>1, <1>4
<1> QED
  BY <1>3, <1>5 DEF Near

\* The time of completion that is shown is at most a minute off, over hours and midnight,
\* after any number of updates at any seconds, as long as the program goes on as it has
\* announced (Build).
THEOREM CountdownAlwaysHolds == Spec => []CountdownHolds
<1>1. ASSUME Published, OnSchedule, data # Null, Counting(data)
      PROVE  /\ Near(Minutes(small.timeCompleted), ends \div 60)
             /\ 60 * small.remainingDurationMinutes - left \in -59..59
             /\ Minutes(small.remainingDuration) = small.remainingDurationMinutes
  <2> DEFINE before == Reported(data)
  <2>1. /\ before \in Nat /\ before % 60 = 0 /\ Duration(data) = before
        /\ now \in Nat /\ small = Build(data, now)
    BY <1>1, CountingCases DEF Published
  <2>2. left \in Nat /\ ends = (now + left) % Day /\ before - left \in -59..59
    BY <1>1 DEF OnSchedule
  <2> HIDE DEF before
  <2>3. /\ small.timeCompleted = FormatMinutes(((now + before) % Day) \div 60)
        /\ small.remainingDurationMinutes = before \div 60
        /\ small.remainingDuration =
               FormatMinutes((IF before < 0 THEN 0 ELSE before) \div 60)
    BY <2>1 DEF Build, FormatClock, FormatHours
  <2>4. ((now + before) % Day) \div 60 \in Nat
    <3>1. now + before \in Nat
      BY <2>1
    <3>2. (now + before) % Day \in Nat
      BY <3>1, TimeOfDay
    <3> QED
      BY <3>2
  <2>5. Minutes(small.timeCompleted) = ((now + before) % Day) \div 60
    BY <2>3, <2>4, MinutesOfFormat
  <2>6. Near(((now + before) % Day) \div 60, ends \div 60)
    <3>1. now + before \in Nat /\ now + left \in Nat
          /\ (now + before) - (now + left) \in -59..59
      BY <2>1, <2>2
    <3> QED
      BY <2>2, <3>1, NearOnTheClock
  <2>7. 60 * (before \div 60) = before /\ before \div 60 \in Nat
    BY <2>1
  <2>8. (IF before < 0 THEN 0 ELSE before) = before
    BY <2>1
  <2>9. Minutes(small.remainingDuration) = before \div 60
    BY <2>3, <2>7, <2>8, MinutesOfFormat
  <2> QED
    BY <2>2, <2>3, <2>5, <2>6, <2>7, <2>9
<1>2. Published /\ OnSchedule => CountdownHolds
  BY <1>1 DEF CountdownHolds
<1> QED
  BY <1>2, PublishedHolds, PTL
=============================================================================

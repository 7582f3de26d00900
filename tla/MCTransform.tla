---------------------------- MODULE MCTransform ----------------------------
(* Transform for TLC: the shapes the fields of a device come in.              *)
EXTENDS Transform, TLC

MCKeys ==
    {"state", "ident", "programPhase", "status", "remainingTime", "value_raw",
     "value_localized", "deviceName", "xkmIdentLabel", "type", "list", "inner",
     "techType", "releaseVersion", "deviceIdentLabel", "fabNumber"}

\* The object with these fields.
Object(f) == Obj({[key |-> k, value |-> f[k]]: k \in DOMAIN f})

Raw(values) == {Object("value_raw" :> v): v \in values} \cup {Null, Text("x"), Object(<<>>)}

MCPhases == Raw({Num(0), Num(1801), Num(1802)})
MCStatus == Raw({Num(1), Num(15), Num(16)})
MCTimes ==
    {Null, Text("x"), Arr(<<>>), Arr(<<Num(0)>>),
     Arr(<<Num(0), Num(7)>>), Arr(<<Num(2), Num(15)>>),
     Arr(<<Num(1), Num(0), Num(30)>>), Arr(<<Num(1), Null, Num(30)>>),
     Arr(<<Num(1), Text("x")>>)}
State(p, s, t) == Object("programPhase" :> p @@ "status" :> s @@ "remainingTime" :> t)
MCStates ==
    {State(p, s, Arr(<<Num(2), Num(15)>>)): p \in MCPhases, s \in MCStatus}
    \cup {State(Null, s, t): s \in MCStatus, t \in MCTimes}
    \cup {State(Null, Null, Arr(<<Num(25), Num(0)>>))}

\* Nested, with nulls, zeros, repeats and empty things in objects and arrays.
MCPlainIdent ==
    Object("deviceName" :> Text("") @@ "xkmIdentLabel" :> Null @@
        "type" :> Object("value_raw" :> Num(0) @@ "inner" :> Arr(<<>>)) @@
        "list" :> Arr(<<Null, Num(0), Arr(<<Null, Text("x"), Text("x")>>),
                        Object("inner" :> Null)>>))

\* With and without what identifies and describes a device.
MCTexts == {Null, Num(0), Text(""), Text("t")}
MCIdents ==
    {Object("type" :> Object("value_localized" :> type) @@
         "xkmIdentLabel" :> Object("techType" :> tech @@ "releaseVersion" :> tech) @@
         "deviceIdentLabel" :> Object("fabNumber" :> fab)):
        type \in MCTexts, tech \in MCTexts, fab \in {Null, Num(1), Text(""), Text("f")}}

MCPayloads ==
    {Object("state" :> s @@ "ident" :> MCPlainIdent): s \in MCStates}
    \cup {Object("state" :> Object(<<>>) @@ "ident" :> i): i \in MCIdents \cup {Null}}
    \cup {Object(<<>>), Object("state" :> Null), Text("x")}

\* Noon, half past the last minute of a day, and some seconds before an hour is full.
MCClocks == {43200, 86370, 32339}
MCRoundings == {-59, 0, 31}
MCSpans == {397, 7001}
=============================================================================

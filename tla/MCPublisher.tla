----------------------------- MODULE MCPublisher -----------------------------
(* Publisher for TLC.                                                         *)
EXTENDS Publisher

MCVersions == {"v1", "v2", "v3"}
\* v1 and v2 differ only in the full message.
MCSmallOf == [v \in MCVersions |-> IF v = "v3" THEN "s2" ELSE "s1"]
MCFabNumber == [d1 |-> "f1", d2 |-> "f2"]
\* The fabrication number is missing from v3: the device id stands in.
MCIdentOf == [x \in Devices \X MCVersions |->
                IF x[2] = "v3" THEN x[1] ELSE MCFabNumber[x[1]]]

MCTwoVersions == {"v1", "v3"}
MCTwoSmallOf == [v \in MCTwoVersions |-> IF v = "v3" THEN "s2" ELSE "s1"]
MCTwoIdentOf == [x \in Devices \X MCTwoVersions |-> MCFabNumber[x[1]]]
=============================================================================

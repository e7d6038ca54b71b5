---------------------------- MODULE MCIodevList ----------------------------
(***************************************************************************)
(* Instances of IodevList for TLC.                                         *)
(***************************************************************************)
EXTENDS IodevList

CONSTANTS FO, D1, D2, n1, n2, p1, a, b, dir1

MCDir == [x \in Devs \cup Streams |-> dir1]
MCFallback == [x \in {dir1} |-> FO]
MCDirections == {dir1}
Alone == [d \in Devs |-> {d}]
Grouped == [d \in Devs |-> IF d = FO THEN {FO} ELSE Devs \ {FO}]
MCPos == [d \in Devs |-> IF d = FO THEN 0 ELSE IF d = D1 THEN 1 ELSE 2]
MCMaxChannels == [d \in Devs |-> 2]
MCChannels == [s \in Streams |-> IF s = n2 THEN 2 ELSE 1]
MCClient == [s \in Streams |-> IF s = p1 THEN a ELSE b]
MCPinnedTo == [s \in Streams |-> IF s = p1 THEN D1 ELSE NoDev]
NoFaults == {{}}
AnyOpen == SUBSET (Devs \ {FO})
SplitByUse == [d \in Devs |-> IF d = D1 THEN Streams \ {n2} ELSE IF d = D2 THEN {n2} ELSE Streams]
OneAppend == {{}} \cup {{x} : x \in {y \in Devs \X Streams : y[2] \in SplitByUse[y[1]]}}
TakesAll == [d \in Devs |-> Streams]
=============================================================================

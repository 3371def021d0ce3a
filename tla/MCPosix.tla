------------------------------ MODULE MCPosix -------------------------------
(* Instances of PosixSignals for TLC. *)
EXTENDS PosixSignals

CONSTANTS t1, t2, usr, rt

RankByName == [t \in Threads |-> IF t = t1 THEN 0 ELSE 1]
RealTimeFirst == <<rt, usr>>
SomeSets == {{}, Signals}
DeepAndShallow == [t \in Threads |-> IF t = t1 THEN 4 ELSE 2]
=============================================================================

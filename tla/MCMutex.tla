------------------------------ MODULE MCMutex ------------------------------
(* Instances of CoreMutex for TLC: two mutexes, three threads. *)
EXTENDS CoreMutex

CONSTANTS t1, t2

TopCeiling == [m \in Mutexes |-> 1]
TwoLevels == [t \in Threads |-> IF t = t1 THEN 1 ELSE 2]
=============================================================================

------------------------- MODULE MCMonetizeDirector -------------------------
(* Small instances of MonetizeDirector: two processes, a task, and for the *)
(* wider run a dependent of it.                                            *)
EXTENDS MonetizeDirector

CONSTANTS d1, d2, w1, t1, t2

ChainDeps == [t \in Task |-> IF t = t2 THEN {t1} ELSE {}]
OneRetry == [t \in Task |-> IF t = t1 THEN 1 ELSE 0]
SamePriority == [t \in Task |-> 100]
OwnKey == [t \in Task |-> t]

(* The default --worker of every process.                                  *)
SameName == [d \in Director |-> w1]
=============================================================================

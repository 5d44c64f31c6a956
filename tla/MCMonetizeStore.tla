--------------------------- MODULE MCMonetizeStore --------------------------
(* Small instances of MonetizeStore: a task, a dependent of it, and for    *)
(* the wider run a third task that waits for both.                         *)
EXTENDS MonetizeStore, TLC

CONSTANTS d1, d2, w1, w2, t1, t2, t3

ChainDeps == [t \in Task |-> IF t = t2 THEN {t1} ELSE {}]
JoinDeps == [t \in Task |-> IF t = t3 THEN {t1, t2} ELSE {}]
OneRetry == [t \in Task |-> IF t = t1 THEN 1 ELSE 0]
SamePriority == [t \in Task |-> 100]
FirstTaskUrgent == [t \in Task |-> IF t = t1 THEN 10 ELSE 100]
OwnKey == [t \in Task |-> t]

WorkerSymmetry == Permutations(Worker)
=============================================================================

-------------------------- MODULE MCRunExecution --------------------------
(* Small plans for TLC.                                                    *)
EXTENDS RunExecution

CONSTANTS a, b, c   \* work packages

\* b waits for a
Chain == [p \in {a, b} |-> IF p = b THEN {a} ELSE {}]
\* b and c both wait for a
Fork == [p \in {a, b, c} |-> IF p = a THEN {} ELSE {a}]
\* one package, for the runs with two approvals
Single == [p \in {a} |-> {}]
=============================================================================

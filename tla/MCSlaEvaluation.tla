-------------------------- MODULE MCSlaEvaluation --------------------------
(* Instances of SlaEvaluation for TLC.                                     *)
EXTENDS SlaEvaluation, TLC

CONSTANTS r1, r2

(* r1 watches everything; r2 is a stricter rule on the same drift.         *)
CoversAll == [r \in Rules |-> Keys]
Windows   == [r \in Rules |-> IF r = r1 THEN 1 ELSE 2]
============================================================================

---------------------------- MODULE MCApiServer ----------------------------
(* An instance of ApiServer for TLC.                                       *)
EXTENDS ApiServer

CONSTANTS c1, c2

(* One client fixes drift, the other one manages the keys.                 *)
Division == [c \in {c1, c2} |-> IF c = c1 THEN Endpoints ELSE {"mint", "revoke"}]
=============================================================================

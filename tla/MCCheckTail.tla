----------------------------- MODULE MCCheckTail -----------------------------
(* An instance of CheckTail for TLC.                                       *)
EXTENDS CheckTail, TLC

CONSTANTS f1, f2, t1, t2

Drift(f, critical) == [fp |-> f, critical |-> critical]

(* Two devices show the same drift in either order; one of them is         *)
(* explained by the model.                                                 *)
OppositeOrders == t1 :> {<<Drift(f1, TRUE), Drift(f2, FALSE)>>}
               @@ t2 :> {<<Drift(f2, FALSE), Drift(f1, TRUE)>>}
OneAnswered == t1 :> {"llm"} @@ t2 :> {"deterministic"}
Applied     == {<<"apply_success">>}
=============================================================================

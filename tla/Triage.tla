------------------------------- MODULE Triage -------------------------------
(***************************************************************************)
(* GET /drifts/{event_id}/triage: new or chronic from the stored rows of a *)
(* drift's identity, and an assessment that a model may give and the code  *)
(* gives when there is none or it answers out of form.                     *)
(*                                                                         *)
(* The rows of one identity are the minutes at which they were detected.   *)
(* An answer of the model is its two parsed lines, "" for one that is      *)
(* missing; a call that raises answers nothing.                            *)
(***************************************************************************)
EXTENDS Integers, FiniteSets

NEW_WITHIN == 60

FirstSeen(rows) == CHOOSE t \in rows : \A u \in rows : t <= u

(* _triage_status; a drift without rows is new.                            *)
TriageStatus(rows, now) ==
    IF rows = {} \/ now - FirstSeen(rows) < NEW_WITHIN THEN "new" ELSE "chronic"

(* prune_drift_events                                                      *)
Pruned(rows, cutoff) == {t \in rows : t >= cutoff}

Deterministic(severity, status) ==
    IF severity = "critical" THEN "incident"
    ELSE IF status = "chronic" THEN "noise" ELSE "unclear"

Assessments == {"incident", "noise", "unclear"}

(* assess_anomaly: configured says whether there is a model.               *)
Accepted(configured, answer) ==
    configured /\ answer.assessment \in Assessments /\ answer.rationale # ""

Assess(severity, status, configured, answer) ==
    IF Accepted(configured, answer)
    THEN [assessment |-> answer.assessment, source |-> "llm"]
    ELSE [assessment |-> Deterministic(severity, status), source |-> "deterministic"]

(* The endpoint, for a drift event of which rows are the identity's.       *)
Triage(rows, now, severity, configured, answer) ==
    LET status == TriageStatus(rows, now)
    IN  [triage |-> status, occurrences |-> Cardinality(rows),
         result |-> Assess(severity, status, configured, answer)]
=============================================================================

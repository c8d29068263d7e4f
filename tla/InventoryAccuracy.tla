-------------------------- MODULE InventoryAccuracy --------------------------
(***************************************************************************)
(* GET /inventory-accuracy beside the writers of DeviceSettings.  The      *)
(* report reads the drift identities of its window in one query and the    *)
(* collection stamps in a second one; each sees what is committed when it  *)
(* runs (READ COMMITTED), so a check may commit in between.  The window is *)
(* far shorter than the retention of drift events, which is left out.      *)
(***************************************************************************)
EXTENDS DeviceSettings

CONSTANTS
    Readers,      \* threads of the API's pool serving reports
    WINDOW        \* window_minutes, in ticks

ASSUME AccuracyAssumption == WINDOW \in Nat

VARIABLE report   \* the report each reader is making

everything == <<vars, report>>

NoReport == [phase |-> "none", cutoff |-> 0, drifted |-> {},
             truth |-> [d \in Listed |-> {}], shown |-> [d \in Listed |-> "none"]]

AccuracyInit == Init /\ report = [r \in Readers |-> NoReport]

\* Mutant: the drift of all times counts.
DriftedEver(cutoff, checks) == {d \in Devices : \E e \in checks : e[1] = d /\ e[3]}

(* The devices with drift detected in the window, by what is committed.    *)
DriftedSince(cutoff, checks) ==
    {d \in Devices : \E e \in checks : e[1] = d /\ e[2] >= cutoff /\ e[3]}

Classify(collected, cutoff, drifted) ==
    IF collected = None \/ collected < cutoff THEN "stale"
    ELSE IF drifted THEN "drifted" ELSE "accurate"

(* History: what a report made at one instant would say of d, from what    *)
(* the checks stored.                                                      *)
Status(d, cutoff, row, checks) ==
    Classify(row.collected, cutoff, \E e \in checks : e[1] = d /\ e[2] >= cutoff /\ e[3])

(* The first query.                                                        *)
QueryDrift(r) ==
    /\ report[r].phase = "none"
    /\ LET cutoff == now - WINDOW
       IN  report' = [report EXCEPT ![r] =
              [NoReport EXCEPT !.phase = "stamps", !.cutoff = cutoff,
                               !.drifted = DriftedSince(cutoff, drifts),
                               !.truth =
                                  [d \in Listed |-> {Status(d, cutoff, setting[d], drifts)}]]]
    /\ UNCHANGED vars

(* The second query and the classification.                                *)
QueryStamps(r) ==
    /\ report[r].phase = "stamps"
    /\ report' = [report EXCEPT ![r].phase = "made",
           ![r].shown = [d \in Listed |->
               Classify(setting[d].collected, report[r].cutoff, d \in report[r].drifted)]]
    /\ UNCHANGED vars

Forget(r) ==
    /\ report[r].phase = "made"
    /\ report' = [report EXCEPT ![r] = NoReport]
    /\ UNCHANGED vars

Witness ==
    report' = [r \in Readers |->
        IF report[r].phase = "stamps"
        THEN [report[r] EXCEPT !.truth =
                 [d \in Listed |-> @[d] \cup {Status(d, report[r].cutoff, setting[d]', drifts')}]]
        ELSE report[r]]

AccuracyNext ==
    \/ Next /\ Witness
    \/ \E r \in Readers : QueryDrift(r) \/ QueryStamps(r) \/ Forget(r)

AccuracySpec == AccuracyInit /\ [][AccuracyNext]_everything

-----------------------------------------------------------------------------
(* Properties                                                              *)

(* What a report says of a device was so at some instant while it was      *)
(* made, but for one race: a device that was stale, and whose check finds  *)
(* drift and commits between the two queries, is called accurate.          *)
ReportWasTrue ==
    \A r \in Readers : report[r].phase = "made" =>
        \A d \in Listed :
            \/ report[r].shown[d] \in report[r].truth[d]
            \/ report[r].shown[d] = "accurate" /\ report[r].truth[d] = {"stale", "drifted"}
=============================================================================

------------------------------ MODULE SlaProofs ------------------------------
(***************************************************************************)
(* Theorems about SlaEvaluation, for any devices, fingerprints and rules.  *)
(***************************************************************************)
EXTENDS SlaEvaluation, TLAPS

-----------------------------------------------------------------------------
(* Types                                                                   *)

(* The initial job is well typed.                                          *)
LEMMA NoJobType == NoJob \in Job
BY DEF NoJob, Job

(* The tables keep their types whatever drift checks, retention and the    *)
(* operators do to them.                                                   *)
LEMMA EnvironmentTypes ==
  ASSUME TypeOK, Environment
  PROVE  TypeOK'
<1> USE DEF TypeOK, tables, cycle
<1>1. CASE Tick
  BY <1>1 DEF Tick
<1>2. CASE Prune
  BY <1>2 DEF Prune
<1>3. ASSUME NEW k \in Keys, Change(k) \/ Acknowledge(k)
      PROVE  TypeOK'
  BY <1>3 DEF Change, Acknowledge
<1>4. ASSUME NEW d \in Devices, DriftCheck(d)
      PROVE  TypeOK'
  <2>1. events' \subseteq Keys \X Nat
    BY <1>4 DEF DriftCheck
  <2>2. collected' \in [Devices -> Nat \cup {-1}] /\ gone' \subseteq Keys
    BY <1>4 DEF DriftCheck, OnDevice
  <2> QED  BY <1>4, <2>1, <2>2 DEF DriftCheck
<1>5. ASSUME NEW d \in Devices, MoveWindow(d)
      PROVE  TypeOK'
  BY <1>5 DEF MoveWindow
<1>6. ASSUME NEW r \in Rules, CreateRule(r) \/ DeleteRule(r)
      PROVE  TypeOK'
  BY <1>6 DEF CreateRule, DeleteRule
<1> QED  BY <1>1, <1>2, <1>3, <1>4, <1>5, <1>6 DEF Environment

(* Each step of the evaluation cycle keeps the types.                      *)
LEMMA CycleTypes ==
  ASSUME TypeOK, Evaluate \/ Abort
  PROVE  TypeOK'
<1> USE DEF TypeOK, tables
<1>1. CASE Scan
  <2>1. Breaching \subseteq Keys
    BY SlaAssumption DEF Breaching, BreachesOf
  <2>2. job' \in Job /\ cleared' \subseteq Keys
    BY <1>1, <2>1 DEF Scan, NoJob, Job
  <2> QED  BY <1>1, <2>2 DEF Scan
<1>2. CASE FireEdges
  <2>1. Started \subseteq Keys /\ Ended \subseteq Keys
    BY DEF Started, Ended, Job
  <2>2. job' \in Job
    BY <1>2, <2>1 DEF FireEdges, Job
  <2>3. pages' \in [Keys -> Int] /\ cleared' \subseteq Keys
    BY <1>2 DEF FireEdges
  <2> QED  BY <1>2, <2>2, <2>3 DEF FireEdges
<1>3. CASE Commit
  <2>1. tracked' \subseteq Keys
    BY <1>3 DEF Commit, Job
  <2> QED  BY <1>3, <2>1, NoJobType DEF Commit
<1>4. CASE Abort
  BY <1>4, NoJobType DEF Abort, Job
<1> QED  BY <1>1, <1>2, <1>3, <1>4 DEF Evaluate

(* Type correctness of the SLA evaluation.                                 *)
THEOREM SlaTypeCorrect == Spec => []TypeOK
<1>1. Init => TypeOK
  BY NoJobType DEF Init, TypeOK
<1>2. TypeOK /\ [Next]_vars => TypeOK'
  <2>1. ASSUME TypeOK, UNCHANGED vars PROVE TypeOK'
    BY <2>1 DEF TypeOK, vars, tables, cycle
  <2> QED  BY <2>1, EnvironmentTypes, CycleTypes DEF Next
<1> QED  BY <1>1, <1>2, PTL DEF Spec

-----------------------------------------------------------------------------
(* What the receiver knows agrees with sla_breach_state, and so the job    *)
(* implements edge-triggered alerting.  PagesFollowTracked is inductive: it *)
(* speaks of the commit to come while the edges are fired and not written. *)

(* Everything but the evaluation leaves pages and sla_breach_state alone.   *)
LEMMA EnvironmentStutters ==
  ASSUME Environment \/ UNCHANGED vars
  PROVE  UNCHANGED cycle
BY DEF Environment, vars, Tick, Prune, Change, Acknowledge, DriftCheck, MoveWindow,
       CreateRule, DeleteRule

(* One step parts the pages from sla_breach_state by at most one, and only  *)
(* if it is an aborted cycle.                                               *)
LEMMA PagesStep ==
  ASSUME TypeOK, PagesFollowTracked, [Next]_vars
  PROVE  PagesFollowTracked'
<1> SUFFICES ASSUME NEW k \in Keys
             PROVE  -aborts' <= Excess(k)' /\ Excess(k)' <= aborts'
  BY DEF PagesFollowTracked
<1>0. pages[k] \in Int /\ aborts \in Nat /\ -aborts <= Excess(k) /\ Excess(k) <= aborts
  BY DEF TypeOK, PagesFollowTracked
<1>1. CASE Environment \/ UNCHANGED vars
  BY <1>0, <1>1, EnvironmentStutters DEF cycle, Settled, Excess
<1>2. CASE Scan
  BY <1>0, <1>2 DEF Scan, tables, Settled, Excess
<1>3. CASE FireEdges
  <2>1. Settled = tracked /\ Settled' = (tracked \cup Started) \ Ended
    BY <1>3 DEF FireEdges, Settled, TypeOK, Job
  <2>2. pages'[k] = pages[k] + (IF k \in Started THEN 1 ELSE 0)
                             - (IF k \in Ended THEN 1 ELSE 0)
    BY <1>3 DEF FireEdges
  <2>3. (k \in Started => k \notin tracked) /\ (k \in Ended => k \in tracked)
    BY DEF Started, Ended
  <2>4. Excess(k)' = Excess(k)
    BY <1>0, <2>1, <2>2, <2>3 DEF Excess
  <2> QED  BY <1>0, <1>3, <2>4 DEF FireEdges
<1>4. CASE Commit
  BY <1>0, <1>4 DEF Commit, tables, Settled, Excess
<1>5. CASE Abort
  <2>1. aborts' = aborts + 1 /\ pages' = pages /\ Settled' = tracked
    BY <1>5 DEF Abort, Settled
  <2>2. Excess(k)' <= Excess(k) + 1 /\ Excess(k) - 1 <= Excess(k)'
    BY <1>0, <2>1 DEF Excess
  <2>3. Excess(k) \in Int /\ Excess(k)' \in Int
    BY <1>0, <2>1 DEF Excess
  <2> QED  BY <1>0, <2>1, <2>2, <2>3
<1> QED  BY <1>1, <1>2, <1>3, <1>4, <1>5 DEF Next, Evaluate

(* A breach in sla_breach_state has its page open and no other has, up to  *)
(* one page for every cycle that died.                                     *)
THEOREM PagesFollow == Spec => []PagesFollowTracked
<1>1. Init => PagesFollowTracked
  BY DEF Init, PagesFollowTracked, Excess, Settled
<1>2. TypeOK /\ PagesFollowTracked /\ [Next]_vars => PagesFollowTracked'
  BY PagesStep
<1> QED  BY <1>1, <1>2, SlaTypeCorrect, PTL DEF Spec

(* Every step of the evaluation is an announcement, its record, its loss,  *)
(* or a stutter.                                                           *)
LEMMA StepAnnounces ==
  ASSUME TypeOK, [Next]_vars
  PROVE  [Alerts!Next]_<<Settled, tracked, pages>>
<1>1. CASE FireEdges
  <2>1. Started \subseteq Keys /\ Ended \subseteq Keys /\ Settled = tracked
    BY <1>1 DEF FireEdges, Settled, TypeOK, Job, Started, Ended
  <2>2. Settled' = (tracked \cup Started) \ Ended /\ UNCHANGED tracked
    BY <1>1 DEF FireEdges, Settled, TypeOK, Job
  <2>3. Started \cap tracked = {} /\ Ended \subseteq tracked
    BY DEF Started, Ended
  <2>4. pages' = [k \in Keys |-> IF k \in Started THEN pages[k] + 1
                                 ELSE IF k \in Ended THEN pages[k] - 1 ELSE pages[k]]
    <3>1. ASSUME NEW k \in Keys
          PROVE  pages[k] + (IF k \in Started THEN 1 ELSE 0) - (IF k \in Ended THEN 1 ELSE 0)
                   = IF k \in Started THEN pages[k] + 1
                     ELSE IF k \in Ended THEN pages[k] - 1 ELSE pages[k]
      <4>1. ~(k \in Started /\ k \in Ended) /\ pages[k] \in Int
        BY <2>3 DEF TypeOK
      <4> QED  BY <4>1
    <3> QED  BY <1>1, <3>1 DEF FireEdges
  <2>5. Alerts!Announce(Started, Ended)
    BY <2>1, <2>2, <2>3, <2>4 DEF Alerts!Announce
  <2> QED  BY <2>1, <2>5 DEF Alerts!Next
<1>2. CASE Environment \/ UNCHANGED vars
  BY <1>2, EnvironmentStutters DEF cycle, Settled
<1>3. CASE Scan
  BY <1>3 DEF Scan, Settled
<1>4. CASE Commit
  <2>1. tracked' = Settled /\ Settled' = Settled /\ pages' = pages
    BY <1>4 DEF Commit, Settled
  <2> QED  BY <2>1 DEF Alerts!Next, Alerts!Save
<1>5. CASE Abort
  <2>1. Settled' = tracked /\ tracked' = tracked /\ pages' = pages
    BY <1>5 DEF Abort, Settled
  <2> QED  BY <2>1 DEF Alerts!Next, Alerts!Lose
<1> QED  BY <1>1, <1>2, <1>3, <1>4, <1>5 DEF Next, Evaluate

(* The evaluation job implements edge-triggered alerting, crashes between  *)
(* firing and committing included.                                         *)
THEOREM AlertsAreEdgeTriggered == Spec => EdgeTriggered
<1>1. Init => Alerts!Init
  BY DEF Init, Alerts!Init, Settled
<1>2. TypeOK /\ [Next]_vars => [Alerts!Next]_<<Settled, tracked, pages>>
  BY StepAnnounces
<1> QED  BY <1>1, <1>2, SlaTypeCorrect, PTL DEF Spec, EdgeTriggered, Alerts!Spec

-----------------------------------------------------------------------------
(* No page without a cause.  The invariant says where a key may be that no *)
(* scan found over since its page: in sla_breach_state, or among the pages *)
(* the commit is about to write there.                                     *)

ClearedInv ==
    /\ pc # "fired" => Keys \ tracked \subseteq cleared
    /\ pc = "scanned" => Keys \ job.breaching \subseteq cleared
    /\ pc = "fired" => /\ Keys \ (tracked \cup job.started) \subseteq cleared
                       /\ job.ended \subseteq cleared

(* Every step of the job keeps track of what was found over: the scan      *)
(* before the resolutions, the resolutions before the commit.              *)
LEMMA ClearedStep ==
  ASSUME TypeOK, ClearedInv, [Next]_vars
  PROVE  ClearedInv'
<1>1. CASE Environment \/ UNCHANGED vars
  BY <1>1, EnvironmentStutters DEF cycle, ClearedInv
<1>2. CASE Scan
  <2>1. job'.breaching = Breaching
    BY <1>2 DEF Scan, NoJob
  <2> QED  BY <1>2, <2>1 DEF Scan, ClearedInv
<1>3. CASE FireEdges
  <2>1. job'.started = Started /\ job'.ended = Ended
    BY <1>3 DEF FireEdges, TypeOK, Job
  <2>2. Ended \subseteq Keys \ job.breaching /\ Ended \cap Started = {}
    BY DEF Started, Ended, TypeOK
  <2> QED  BY <1>3, <2>1, <2>2 DEF FireEdges, ClearedInv
<1>4. CASE Commit
  BY <1>4 DEF Commit, ClearedInv
<1>5. CASE Abort
  BY <1>5 DEF Abort, ClearedInv
<1> QED  BY <1>1, <1>2, <1>3, <1>4, <1>5 DEF Next, Evaluate

(* A page is fired only for a key that is firable and not tracked, and     *)
(* such a key was found over since its last page.                          *)
LEMMA PagesHaveCause ==
  ASSUME TypeOK, ClearedInv, [Next]_vars, NEW k \in Keys, pages'[k] > pages[k]
  PROVE  k \in cleared
<1>1. pages[k] \in Int
  BY DEF TypeOK
<1>2. CASE FireEdges
  <2>1. pages'[k] = pages[k] + (IF k \in Started THEN 1 ELSE 0)
                             - (IF k \in Ended THEN 1 ELSE 0)
    BY <1>2 DEF FireEdges
  <2>2. k \in Started
    BY <1>1, <2>1
  <2> QED  BY <1>2, <2>2 DEF FireEdges, Started, ClearedInv
<1>3. CASE UNCHANGED pages
  BY <1>1, <1>3
<1>4. Environment \/ Scan \/ Commit \/ Abort \/ UNCHANGED vars => UNCHANGED pages
  BY EnvironmentStutters DEF cycle, Scan, Commit, Abort
<1> QED  BY <1>2, <1>3, <1>4 DEF Next, Evaluate

(* A mute never causes a page: what is paged again was found over by a     *)
(* scan in between, or by a cycle that died before it could record it.     *)
THEOREM MutesNeverRepage == Spec => NoRepageAfterMute
<1>1. Init => ClearedInv
  BY DEF Init, ClearedInv
<1>2. TypeOK /\ ClearedInv /\ [Next]_vars => ClearedInv'
  BY ClearedStep
<1>3. TypeOK /\ ClearedInv /\ [Next]_vars
        => [\A k \in Keys : pages'[k] > pages[k] => k \in cleared]_vars
  BY PagesHaveCause
<1> QED  BY <1>1, <1>2, <1>3, SlaTypeCorrect, PTL DEF Spec, NoRepageAfterMute
=============================================================================

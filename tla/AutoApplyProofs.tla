--------------------------- MODULE AutoApplyProofs ---------------------------
(***************************************************************************)
(* Theorems about AutoApply, for any number of issues, devices, workers,   *)
(* clients and importers and any thresholds.                               *)
(***************************************************************************)
EXTENDS AutoApply, FiniteSetTheorems, SequenceTheorems, TLAPS

-----------------------------------------------------------------------------
(* Types                                                                   *)

(* A worker past the matching of a drift record still holds that record.   *)
Holding == {"vet", "apply", "save", "commit", "count_failures", "clear_flag"}
HoldsDrift == \A w \in Workers : pc[w] \in Holding => todo[w] # <<>>

TypeInv == TypeOK /\ HoldsDrift

(* A request that has just been started is a well-formed request.          *)
LEMMA NoCallType == NoCall \in Call
  BY CoreAssumption DEF NoCall, Call, Ops, Kinds

(* The head of what a worker has to do is an issue, the rest a sequence of *)
(* issues.                                                                 *)
LEMMA CurrentType ==
  ASSUME NEW w \in Workers, todo \in [Workers -> Seq(Issues)], todo[w] # <<>>
  PROVE  Current(w) \in Issues /\ Tail(todo[w]) \in Seq(Issues)
  BY HeadTailProperties DEF Current

(* Every step of a worker preserves the types.                             *)
LEMMA WorkerTypes ==
  ASSUME TypeInv, NEW w \in Workers, StartLoop(w) \/ WorkerStep(w)
  PROVE  TypeInv'
<1> USE DEF TypeInv, TypeOK, HoldsDrift, Holding, Stages, db, mutes, history, worker
<1>1. CASE StartLoop(w)
  <2>1. PICK n \in 1..MaxDrifts : \E ds \in [1..n -> Issues] :
                todo' = [todo EXCEPT ![w] = ds]
    BY <1>1 DEF StartLoop
  <2>2. PICK ds \in [1..n -> Issues] : todo' = [todo EXCEPT ![w] = ds]
    BY <2>1
  <2>3. ds \in Seq(Issues)
    BY <2>1, CoreAssumption
  <2>4. repolls' \subseteq repolls
    BY <1>1 DEF StartLoop, SpendJob
  <2> QED  BY <1>1, <2>2, <2>3, <2>4 DEF StartLoop, Goto
<1>2. CASE Gate(w)
  <2>1. \/ pc' = [pc EXCEPT ![w] = "idle"] /\ todo' = [todo EXCEPT ![w] = <<>>]
        \/ pc' = [pc EXCEPT ![w] = "loop"] /\ todo' = todo
    BY <1>2 DEF Gate, Goto
  <2>2. pc' \in [Workers -> Stages] /\ todo' \in [Workers -> Seq(Issues)]
    <3>1. <<>> \in Seq(Issues)
      BY EmptySeq
    <3> QED  BY ZenonT(30), <2>1, <3>1
  <2>3. HoldsDrift'
    BY <2>1
  <2> QED  BY <1>2, <2>2, <2>3 DEF Gate
<1>3. CASE MatchIssue(w)
  <2>1. Current(w) \in Issues /\ Tail(todo[w]) \in Seq(Issues)
    BY <1>3, CurrentType DEF MatchIssue
  <2> QED  BY ZenonT(30), <1>3, <2>1 DEF MatchIssue, Goto, NextDrift, Row
<1>4. ASSUME pc[w] \in Holding
      PROVE  Current(w) \in Issues /\ Tail(todo[w]) \in Seq(Issues)
  BY <1>4, CurrentType
<1>5. CASE Vet(w)
  BY ZenonT(30), <1>5, <1>4 DEF Vet, Goto, NextDrift, Kinds
<1>6. CASE ApplyFix(w)
  <2>0. Current(w) \in Issues
    BY <1>6, <1>4 DEF ApplyFix
  <2>1. /\ pc' \in [Workers -> Stages] /\ result' \in [Workers -> Results]
        /\ late' \in [Issues -> Nat] /\ attempts' \in [Issues -> Nat]
    <3>1. pc' \in [Workers -> Stages] /\ result' \in [Workers -> Results]
      BY <1>6 DEF ApplyFix, Goto, Results
    <3>2. late' = [late EXCEPT ![Current(w)] = late'[Current(w)]] /\ late'[Current(w)] \in Nat
      BY <1>6, <2>0 DEF ApplyFix
    <3>3. attempts' = [attempts EXCEPT ![Current(w)] = attempts[Current(w)] + 1]
      BY <1>6 DEF ApplyFix
    <3> QED  BY <2>0, <3>1, <3>2, <3>3
  <2>2. HoldsDrift'
    BY <1>6 DEF ApplyFix, Goto
  <2>3. /\ UNCHANGED <<row, events, clock, paused, window, acked>>
        /\ UNCHANGED <<todo, kind, stamp, won>>
        /\ UNCHANGED <<repolls, call, crashes, rearmed, lost>>
    BY <1>6 DEF ApplyFix
  <2> QED  BY <2>1, <2>2, <2>3
<1>7. CASE SaveEvent(w)
  <2>1. /\ pc' \in [Workers -> Stages] /\ stamp' \in [Workers -> Nat] /\ clock' \in Nat
    BY <1>7 DEF SaveEvent, Goto
  <2>2. HoldsDrift'
    BY <1>7 DEF SaveEvent, Goto
  <2> QED  BY <1>7, <2>1, <2>2 DEF SaveEvent
<1>8. CASE CommitEvent(w)
  <2>1. events' \subseteq Event
    BY <1>8, <1>4 DEF CommitEvent, Event
  <2> QED  BY <1>8, <1>4, <2>1 DEF CommitEvent, Goto, NextDrift, Results
<1>9. CASE CountFailures(w)
  BY ZenonT(30), <1>9, <1>4 DEF CountFailures, Goto, NextDrift
<1>10. CASE ClearFlag(w)
  BY <1>10, <1>4 DEF ClearFlag, Goto, NextDrift, Row
<1>11. CASE FinishLoop(w)
  <2>1. repolls' \subseteq Repolls \X Devices
    <3>1. DeviceOf[w] \in Devices
      BY CoreAssumption
    <3>2. repolls' \subseteq repolls \cup {<<"repoll", DeviceOf[w]>>}
      BY <1>11 DEF FinishLoop
    <3> QED  BY <3>1, <3>2 DEF Repolls
  <2> QED  BY <1>11, <2>1 DEF FinishLoop, Goto
<1> QED
  BY <1>1, <1>2, <1>3, <1>5, <1>6, <1>7, <1>8, <1>9, <1>10, <1>11 DEF WorkerStep

(* A request that begins is well formed.                                   *)
LEMMA BeginType ==
  ASSUME TypeOK, NEW c \in Clients \cup Importers, NEW op \in Ops,
         NEW i \in Issues, NEW k \in Kinds, Begin(c, op, i, k)
  PROVE  call' \in [Clients \cup Importers -> Call]
<1>1. row[i].enabled \in BOOLEAN
  BY DEF TypeOK, Row
<1>2. [NoCall EXCEPT !.op = op, !.issue = i, !.kind = k, !.enabled = row[i].enabled,
                     !.same = row[i].kind = k] \in Call
  BY <1>1, NoCallType DEF Call
<1> QED  BY <1>2 DEF Begin, TypeOK

(* A request that is over leaves a well-formed idle client.                *)
LEMMA DoneType ==
  ASSUME TypeOK, NEW c \in Clients \cup Importers, Done(c)
  PROVE  call' \in [Clients \cup Importers -> Call]
BY NoCallType DEF Done, TypeOK

(* Every step of an API client preserves the types.                        *)
LEMMA ClientTypes ==
  ASSUME TypeInv, NEW c \in Clients, ClientStep(c)
  PROVE  TypeInv'
<1> DEFINE r == call[c]
<1> USE DEF TypeInv, db, mutes, history, worker
<1>1. r \in Call /\ r.issue \in Issues /\ r.kind \in Kinds /\ r.device \in Devices
  BY DEF TypeOK, Call
<1>2. Payloads \subseteq Kinds /\ {"patch", "count", "enable", "disable", "idle"} \subseteq Ops
  BY CoreAssumption DEF Ops
<1> HIDE DEF r
<1>3. ASSUME NEW i \in Issues, NEW k \in Payloads, LoadForPatch(c, i, k)
      PROVE  TypeInv'
  <2>1. call' \in [Clients \cup Importers -> Call]
    BY <1>2, <1>3, BeginType DEF LoadForPatch
  <2> QED  BY <1>3, <2>1 DEF LoadForPatch, UnchangedByApi, TypeOK, HoldsDrift
<1>4. ASSUME NEW i \in Issues, LoadForEnable(c, i) \/ LoadForDisable(c, i)
      PROVE  TypeInv'
  <2>1. call' \in [Clients \cup Importers -> Call]
    BY <1>2, <1>4, BeginType DEF LoadForEnable, LoadForDisable, Kinds
  <2> QED  BY <1>4, <2>1 DEF LoadForEnable, LoadForDisable, UnchangedByApi, TypeOK, HoldsDrift
<1>5. ASSUME NEW i \in Issues, NEW d \in Devices, ApplyByOperator(c, i, d)
      PROVE  TypeInv'
  <2>1. call' \in [Clients \cup Importers -> Call]
    <3>1. PICK op \in {"succeeded", "failed"} :
             call' = [call EXCEPT ![c] = [NoCall EXCEPT !.op = op, !.issue = i, !.device = d]]
      BY <1>5 DEF ApplyByOperator
    <3>2. [NoCall EXCEPT !.op = op, !.issue = i, !.device = d] \in Call
      BY NoCallType DEF Call, Ops
    <3> QED  BY <3>1, <3>2 DEF TypeOK
  <2>2. attempts' \in [Issues -> Nat]
    BY <1>5 DEF ApplyByOperator, TypeOK
  <2>3. UNCHANGED <<db, rearmed, late, lost>> /\ UnchangedByApi
    BY <1>5 DEF ApplyByOperator
  <2> QED  BY <2>1, <2>2, <2>3 DEF UnchangedByApi, TypeOK, HoldsDrift
<1>6. CASE WritePatch(c)
  <2>1. call' \in [Clients \cup Importers -> Call]
    BY <1>6, DoneType DEF WritePatch
  <2>2. PICK k \in Kinds \cup {"absent"}, b \in BOOLEAN :
           row' = [row EXCEPT ![r.issue] = [kind |-> k, enabled |-> b]]
    BY <1>1, <1>6 DEF WritePatch, TypeOK, Row, r
  <2>3. row' \in [Issues -> Row]
    BY <1>1, <2>2 DEF TypeOK, Row
  <2> QED  BY <1>6, <2>1, <2>3 DEF WritePatch, UnchangedByApi, TypeOK, HoldsDrift
<1>7. CASE CheckConfirmed(c)
  <2>1. [call[c] EXCEPT !.op = "enable"] \in Call
    BY <1>1, <1>2 DEF Call, r
  <2>2. call' \in [Clients \cup Importers -> Call]
    <3>1. CASE call' = [call EXCEPT ![c].op = "enable"]
      BY <2>1, <3>1 DEF TypeOK
    <3>2. CASE Done(c)
      BY <3>2, DoneType
    <3> QED  BY <1>7, <3>1, <3>2 DEF CheckConfirmed
  <2> QED  BY <1>7, <2>2 DEF CheckConfirmed, UnchangedByApi, TypeOK, HoldsDrift
<1>8. CASE WriteEnable(c)
  <2>1. call' \in [Clients \cup Importers -> Call]
    BY <1>8, DoneType DEF WriteEnable
  <2>2. row' \in [Issues -> Row] /\ rearmed' \subseteq Issues /\ late' \in [Issues -> Nat]
    <3>1. [row[r.issue] EXCEPT !.enabled = TRUE] \in Row
      BY ZenonT(30), <1>1 DEF TypeOK, Row
    <3>2. CASE UNCHANGED <<row, rearmed, late>>
      BY <3>2 DEF TypeOK
    <3>3. CASE /\ row' = [row EXCEPT ![r.issue].enabled = TRUE]
               /\ rearmed' = rearmed \cup {r.issue}
               /\ late' = [late EXCEPT ![r.issue] = 0]
      BY <1>1, <3>1, <3>3 DEF TypeOK
    <3> QED  BY <1>8, <3>2, <3>3 DEF WriteEnable, r
  <2> QED  BY <1>8, <2>1, <2>2 DEF WriteEnable, UnchangedByApi, TypeOK, HoldsDrift
<1>9. CASE WriteDisable(c)
  <2>1. call' \in [Clients \cup Importers -> Call]
    BY <1>9, DoneType DEF WriteDisable
  <2>2. row' \in [Issues -> Row]
    BY ZenonT(30), <1>1, <1>9 DEF WriteDisable, TypeOK, Row, r
  <2> QED  BY <1>9, <2>1, <2>2 DEF WriteDisable, UnchangedByApi, TypeOK, HoldsDrift
<1>10. CASE RecordApply(c)
  <2>1. call' \in [Clients \cup Importers -> Call]
    BY <1>10, DoneType DEF RecordApply
  <2>2. events' \subseteq Event /\ clock' \in Nat
    BY <1>1, <1>10 DEF RecordApply, Applying, TypeOK, Event, Results, r
  <2>3. repolls' \subseteq Repolls \X Devices
    <3>1. repolls' \subseteq repolls \cup {<<"api_repoll", r.device>>}
      BY <1>10 DEF RecordApply, r
    <3> QED  BY <1>1, <3>1 DEF TypeOK, Repolls
  <2> QED  BY <1>10, <2>1, <2>2, <2>3 DEF RecordApply, TypeOK, HoldsDrift
<1>11. CASE RecordRefused(c)
  <2>1. call' \in [Clients \cup Importers -> Call]
    BY <1>11, DoneType DEF RecordRefused
  <2> QED  BY <1>11, <2>1 DEF RecordRefused, UnchangedByApi, TypeOK, HoldsDrift
<1> QED
  BY <1>3, <1>4, <1>5, <1>6, <1>7, <1>8, <1>9, <1>10, <1>11 DEF ClientStep

(* Every step of an importer preserves the types.                          *)
LEMMA ImporterTypes ==
  ASSUME TypeInv, NEW c \in Importers, ImporterStep(c)
  PROVE  TypeInv'
<1> DEFINE r == call[c]
<1> USE DEF TypeInv, db, mutes, history, worker
<1>1. r \in Call /\ r.issue \in Issues /\ r.kind \in Kinds
  BY DEF TypeOK, Call
<1> HIDE DEF r
<1>2. ASSUME NEW i \in Issues, NEW k \in Payloads, LoadForImport(c, i, k)
      PROVE  TypeInv'
  <2>1. k \in Kinds /\ (IF Exists(i) THEN "update" ELSE "insert") \in Ops
    BY CoreAssumption DEF Ops
  <2>2. call' \in [Clients \cup Importers -> Call]
    BY <1>2, <2>1, BeginType DEF LoadForImport
  <2> QED  BY <1>2, <2>2 DEF LoadForImport, UnchangedByApi, TypeOK, HoldsDrift
<1>3. CASE WriteImport(c)
  <2>1. call' \in [Clients \cup Importers -> Call]
    BY <1>3, DoneType DEF WriteImport
  <2>2. row' \in [Issues -> Row]
    <3>1. ASSUME NEW k \in Kinds \cup {"absent"}
          PROVE  [row[r.issue] EXCEPT !.kind = k] \in Row
      <4>1. row[r.issue] \in Row
        BY <1>1 DEF TypeOK
      <4> QED  BY <4>1, Zenon DEF Row
    <3>2. CASE row' = row
      BY <3>2 DEF TypeOK
    <3>3. CASE row' = [row EXCEPT ![r.issue] = [kind |-> r.kind, enabled |-> FALSE]]
      BY <1>1, <3>3 DEF TypeOK, Row
    <3>4. CASE \E k \in Kinds \cup {"absent"} : row' = [row EXCEPT ![r.issue].kind = k]
      BY <1>1, <3>1, <3>4 DEF TypeOK
    <3>5. row[r.issue].kind \in Kinds \cup {"absent"}
      BY <1>1 DEF TypeOK, Row
    <3>6. CASE row' = IF Exists(r.issue) THEN row
                      ELSE [row EXCEPT ![r.issue] = [kind |-> r.kind, enabled |-> FALSE]]
      BY <3>2, <3>3, <3>6
    <3>7. CASE \E k \in {r.kind} \cup (IF r.same THEN {row[r.issue].kind} ELSE {}) :
                  row' = [row EXCEPT ![r.issue].kind = k]
      BY <1>1, <3>4, <3>5, <3>7
    <3> QED  BY <1>3, <3>6, <3>7 DEF WriteImport, r
  <2> QED  BY <1>3, <2>1, <2>2 DEF WriteImport, UnchangedByApi, TypeOK, HoldsDrift
<1> QED  BY <1>2, <1>3 DEF ImporterStep

(* A crash of either process preserves the types.                          *)
LEMMA CrashTypes ==
  ASSUME TypeInv, SchedulerCrash \/ ApiCrash
  PROVE  TypeInv'
<1> USE DEF TypeInv
<1>1. call' \in [Clients \cup Importers -> Call]
  BY NoCallType DEF SchedulerCrash, ApiCrash, TypeOK
<1>2. PICK W \in SUBSET (Workers \cup Clients) : \E job : Kill(W, job)
  BY DEF SchedulerCrash, ApiCrash
<1>3. PICK job : Kill(W, job)
  BY <1>2
<1>4. <<>> \in Seq(Issues)
  BY EmptySeq
<1>5. /\ pc' \in [Workers -> Stages] /\ todo' \in [Workers -> Seq(Issues)]
      /\ kind' \in [Workers -> Kinds \cup {"absent"}] /\ result' \in [Workers -> Results]
      /\ stamp' \in [Workers -> Nat] /\ won' \in [Workers -> BOOLEAN]
  BY <1>3, <1>4 DEF Kill, TypeOK, Stages, Results, Kinds
<1>6. HoldsDrift'
  BY <1>3 DEF Kill, HoldsDrift, Holding
<1>7. repolls' \subseteq Repolls \X Devices /\ crashes' \in Nat /\ rearmed' \subseteq Issues
  BY <1>3 DEF Kill, TypeOK
<1>8. lost' \in [Issues -> Nat]
  <2>1. ASSUME NEW i \in Issues  PROVE Cardinality(Unwritten(i) \cap W) \in Nat
    <3>1. Unwritten(i) \cap W \subseteq Workers \cup Clients
      BY DEF Unwritten
    <3> QED  BY <3>1, ProcessAssumption, FS_Union, FS_Subset, FS_CardinalityType
  <2>2. lost' = [i \in Issues |-> lost[i] + Cardinality(Unwritten(i) \cap W)]
    BY <1>3 DEF Kill
  <2>3. ASSUME NEW i \in Issues
        PROVE  lost[i] + Cardinality(Unwritten(i) \cap W) \in Nat
    <3>1. lost[i] \in Nat /\ Cardinality(Unwritten(i) \cap W) \in Nat
      BY <2>1 DEF TypeOK
    <3> QED  BY <3>1
  <2> QED  BY <2>2, <2>3
<1>9. UNCHANGED <<row, events, clock, paused, window, acked, late, attempts>>
  BY <1>3 DEF Kill, db, mutes
<1> QED  BY <1>1, <1>5, <1>6, <1>7, <1>8, <1>9 DEF TypeOK

(* A pruning beneath a fix in progress preserves the types.                *)
LEMMA PruneTypes ==
  ASSUME TypeInv, NEW c \in Clients, PruneDrift(c)
  PROVE  TypeInv'
<1>1. call \in [Clients \cup Importers -> Call] /\ lost \in [Issues -> Nat]
  BY DEF TypeInv, TypeOK
<1>2. PICK i \in Issues, r \in Call :
         call' = [call EXCEPT ![c] = r] /\ lost' = [lost EXCEPT ![i] = lost[i] + 1]
  <2>1. call[c].issue \in Issues /\ [call[c] EXCEPT !.gone = TRUE] \in Call
    BY <1>1 DEF Call
  <2> QED  BY <2>1 DEF PruneDrift
<1>3. call' \in [Clients \cup Importers -> Call] /\ lost' \in [Issues -> Nat]
  BY <1>1, <1>2
<1>4. UNCHANGED <<db, rearmed, late, attempts, mutes, worker, repolls, crashes>>
  BY DEF PruneDrift, UnchangedByApi
<1> QED  BY <1>3, <1>4 DEF TypeInv, TypeOK, HoldsDrift, db, mutes, worker

(* Whatever is left: re-polls spent, issues created, dry runs, the         *)
(* operator's switches.                                                    *)
LEMMA OtherTypes ==
  ASSUME TypeInv,
         \/ SpendRepoll
         \/ \E i \in Issues : \E k \in Payloads : CreateKnownIssue(i, k)
         \/ \E i \in Issues : \E d \in Devices : DryRun(i, d)
         \/ \E i \in Issues : \E d \in Operated : Acknowledge(d, i)
         \/ \E d \in Operated : SetDevicePaused(d) \/ MoveWindow(d)
         \/ \E b \in Clients : PruneDrift(b)
  PROVE  TypeInv'
<1> USE CoreAssumption DEF TypeInv, TypeOK, HoldsDrift, db, mutes, history, worker
<1>1. CASE SpendRepoll
  BY <1>1 DEF SpendRepoll, SpendJob
<1>2. ASSUME NEW i \in Issues, NEW k \in Payloads, CreateKnownIssue(i, k)
      PROVE  TypeInv'
  BY <1>2 DEF CreateKnownIssue, UnchangedByApi, Row, Kinds
<1>3. ASSUME NEW i \in Issues, NEW d \in Devices, DryRun(i, d)
      PROVE  TypeInv'
  <2>1. events' \subseteq Event /\ clock' \in Nat
    BY <1>3 DEF DryRun, Event, Results
  <2>2. UNCHANGED <<row, call, history, mutes, worker, repolls, crashes>>
    BY <1>3 DEF DryRun, UnchangedByApi
  <2> QED  BY <2>1, <2>2
<1>4. ASSUME NEW i \in Issues, NEW d \in Operated, Acknowledge(d, i)
      PROVE  TypeInv'
  <2>1. acked' \subseteq Devices \X Issues
    BY <1>4 DEF Acknowledge, Toggle
  <2> QED  BY <1>4, <2>1 DEF Acknowledge
<1>5. ASSUME NEW d \in Operated, SetDevicePaused(d) \/ MoveWindow(d)
      PROVE  TypeInv'
  <2>1. paused' \subseteq Devices /\ window' \subseteq Devices
    BY <1>5 DEF SetDevicePaused, MoveWindow, Toggle
  <2>2. UNCHANGED <<db, acked, worker, repolls, call, crashes, history>>
    BY <1>5 DEF SetDevicePaused, MoveWindow
  <2> QED  BY <2>1, <2>2
<1>6. ASSUME NEW c \in Clients, PruneDrift(c)
      PROVE  TypeInv'
  BY <1>6, PruneTypes
<1> QED  BY <1>1, <1>2, <1>3, <1>4, <1>5, <1>6

(* Every variable keeps its type, and a worker past the match holds the    *)
(* drift record it matched.                                                *)
LEMMA TypesInvariant == Spec => []TypeInv
<1>1. Init => TypeInv
  BY CoreAssumption, NoCallType, EmptySeq
  DEF Init, TypeInv, TypeOK, HoldsDrift, Holding, Row, Absent, Stages, Results, Kinds
<1>2. TypeInv /\ [Next]_vars => TypeInv'
  <2> SUFFICES ASSUME TypeInv, [Next]_vars PROVE TypeInv'
    OBVIOUS
  <2>1. CASE Next
    BY <2>1, WorkerTypes, ClientTypes, ImporterTypes, CrashTypes, OtherTypes DEF Next
  <2>2. CASE UNCHANGED vars
    BY <2>2 DEF vars, db, mutes, worker, history, TypeInv, TypeOK, HoldsDrift
  <2> QED  BY <2>1, <2>2
<1> QED  BY <1>1, <1>2, PTL DEF Spec

(* Type correctness of the auto-apply system.                              *)
THEOREM TypeCorrect == Spec => []TypeOK
BY TypesInvariant, PTL DEF TypeInv

-----------------------------------------------------------------------------
(* What a step can do, whatever the action                                 *)

(* A step that is not a worker's leaves every worker alone or kills it.    *)
LEMMA WorkersMove ==
  ASSUME TypeInv, [Next]_vars, NEW w \in Workers
  PROVE  \/ StartLoop(w) \/ WorkerStep(w)
         \/ (SchedulerCrash \/ ApiCrash) /\ pc'[w] = "idle"
         \/ /\ pc'[w] = pc[w] /\ todo'[w] = todo[w]
            /\ stamp'[w] = stamp[w] /\ result'[w] = result[w]
<1> DEFINE Still == /\ pc'[w] = pc[w] /\ todo'[w] = todo[w]
                    /\ stamp'[w] = stamp[w] /\ result'[w] = result[w]
<1> USE DEF TypeInv, TypeOK, db, mutes, history, worker
<1>1. ASSUME NEW v \in Workers, StartLoop(v) \/ WorkerStep(v), v # w
      PROVE  Still
  <2>1. CASE StartLoop(v)
    BY <1>1, <2>1 DEF StartLoop, Goto
  <2>2. CASE Gate(v) \/ MatchIssue(v) \/ Vet(v)
    BY <1>1, <2>2 DEF Gate, MatchIssue, Vet, NextDrift, Goto
  <2>3. CASE ApplyFix(v) \/ SaveEvent(v) \/ FinishLoop(v)
    BY <1>1, <2>3 DEF ApplyFix, SaveEvent, FinishLoop, Goto
  <2>4. CASE CommitEvent(v)
    BY <1>1, <2>4 DEF CommitEvent, NextDrift, Goto
  <2>5. CASE CountFailures(v) \/ ClearFlag(v)
    BY <1>1, <2>5 DEF CountFailures, ClearFlag, NextDrift, Goto
  <2> QED  BY <1>1, <2>1, <2>2, <2>3, <2>4, <2>5 DEF WorkerStep
<1>2. ASSUME NEW c \in Clients, ClientStep(c)
      PROVE  Still
  <2>1. CASE \E i \in Issues :
                \/ \E k \in Payloads : LoadForPatch(c, i, k)
                \/ LoadForEnable(c, i) \/ LoadForDisable(c, i)
                \/ \E d \in Devices : ApplyByOperator(c, i, d)
    <3>1. ASSUME NEW i \in Issues, NEW k \in Payloads, LoadForPatch(c, i, k)
          PROVE  UnchangedByApi
      BY <3>1 DEF LoadForPatch
    <3>2. ASSUME NEW i \in Issues, LoadForEnable(c, i) \/ LoadForDisable(c, i)
          PROVE  UnchangedByApi
      BY <3>2 DEF LoadForEnable, LoadForDisable
    <3>3. ASSUME NEW i \in Issues, NEW d \in Devices, ApplyByOperator(c, i, d)
          PROVE  UnchangedByApi
      BY <3>3 DEF ApplyByOperator
    <3>4. UnchangedByApi
      BY <2>1, <3>1, <3>2, <3>3
    <3> QED  BY <3>4 DEF UnchangedByApi
  <2>2. CASE WritePatch(c) \/ CheckConfirmed(c) \/ WriteEnable(c) \/ WriteDisable(c)
    <3>1. UnchangedByApi
      BY <2>2 DEF WritePatch, CheckConfirmed, WriteEnable, WriteDisable
    <3> QED  BY <3>1 DEF UnchangedByApi
  <2>3. CASE RecordApply(c) \/ RecordRefused(c)
    BY <2>3 DEF RecordApply, RecordRefused, UnchangedByApi
  <2> QED  BY <1>2, <2>1, <2>2, <2>3 DEF ClientStep
<1>3. ASSUME NEW c \in Importers, ImporterStep(c)
      PROVE  Still
  BY <1>3 DEF ImporterStep, UnchangedByApi, LoadForImport, WriteImport
<1>4. CASE SchedulerCrash \/ ApiCrash
  <2>1. PICK W \in SUBSET (Workers \cup Clients) : \E job : Kill(W, job)
    BY <1>4 DEF SchedulerCrash, ApiCrash
  <2> QED  BY <1>4, <2>1 DEF Kill
<1>5. CASE \/ SpendRepoll
           \/ \E i \in Issues : \E k \in Payloads : CreateKnownIssue(i, k)
           \/ \E i \in Issues : \E d \in Devices : DryRun(i, d)
           \/ \E i \in Issues : \E d \in Operated : Acknowledge(d, i)
           \/ \E d \in Operated : SetDevicePaused(d) \/ MoveWindow(d)
           \/ \E b \in Clients : PruneDrift(b)
  BY <1>5 DEF SpendRepoll, CreateKnownIssue, DryRun, Acknowledge, SetDevicePaused,
              MoveWindow, PruneDrift, UnchangedByApi
<1>6. CASE UNCHANGED vars
  BY <1>6 DEF vars
<1> HIDE DEF Still
<1>7. CASE Next
  <2>1. CASE \E v \in Workers : StartLoop(v) \/ WorkerStep(v)
    BY <1>1, <2>1 DEF Still
  <2>2. CASE SchedulerCrash \/ ApiCrash
    BY <1>4, <2>2 DEF Still
  <2> QED  BY <1>2, <1>3, <1>5, <1>7, <2>1, <2>2 DEF Next, Still
<1> QED  BY <1>6, <1>7 DEF Still

(* Only four actions touch the audit log or its clock.                     *)
LEMMA LogChanges ==
  ASSUME [Next]_vars
  PROVE  \/ UNCHANGED <<events, clock>>
         \/ \E w \in Workers : SaveEvent(w) \/ CommitEvent(w)
         \/ \E c \in Clients : RecordApply(c)
         \/ \E i \in Issues : \E d \in Devices : DryRun(i, d)
<1> USE DEF db, mutes, history, worker
<1>1. ASSUME NEW w \in Workers, StartLoop(w) \/ WorkerStep(w), ~SaveEvent(w), ~CommitEvent(w)
      PROVE  UNCHANGED <<events, clock>>
  <2>1. CASE StartLoop(w)
    BY <2>1 DEF StartLoop
  <2>2. CASE Gate(w) \/ MatchIssue(w) \/ Vet(w) \/ ApplyFix(w)
    BY <2>2 DEF Gate, MatchIssue, Vet, ApplyFix
  <2>3. CASE CountFailures(w) \/ ClearFlag(w) \/ FinishLoop(w)
    BY <2>3 DEF CountFailures, ClearFlag, FinishLoop
  <2> QED  BY <1>1, <2>1, <2>2, <2>3 DEF WorkerStep
<1>2. ASSUME NEW c \in Clients, ClientStep(c), ~RecordApply(c)
      PROVE  UNCHANGED <<events, clock>>
  <2>1. ASSUME NEW i \in Issues, NEW k \in Payloads, LoadForPatch(c, i, k)
        PROVE  UNCHANGED <<events, clock>>
    BY <2>1 DEF LoadForPatch
  <2>2. ASSUME NEW i \in Issues, LoadForEnable(c, i) \/ LoadForDisable(c, i)
        PROVE  UNCHANGED <<events, clock>>
    BY <2>2 DEF LoadForEnable, LoadForDisable
  <2>3. ASSUME NEW i \in Issues, NEW d \in Devices, ApplyByOperator(c, i, d)
        PROVE  UNCHANGED <<events, clock>>
    BY <2>3 DEF ApplyByOperator
  <2>4. CASE \/ WritePatch(c) \/ CheckConfirmed(c) \/ WriteEnable(c) \/ WriteDisable(c)
             \/ RecordRefused(c)
    BY <2>4 DEF WritePatch, CheckConfirmed, WriteEnable, WriteDisable, RecordRefused
  <2> QED  BY <1>2, <2>1, <2>2, <2>3, <2>4 DEF ClientStep
<1>3. ASSUME NEW c \in Importers, ImporterStep(c)
      PROVE  UNCHANGED <<events, clock>>
  <2>1. ASSUME NEW i \in Issues, NEW k \in Payloads, LoadForImport(c, i, k)
        PROVE  UNCHANGED <<events, clock>>
    BY <2>1 DEF LoadForImport
  <2>2. CASE WriteImport(c)
    BY <2>2 DEF WriteImport
  <2> QED  BY <1>3, <2>1, <2>2 DEF ImporterStep
<1>4. ASSUME \/ SpendRepoll \/ SchedulerCrash \/ ApiCrash
             \/ \E i \in Issues : \E k \in Payloads : CreateKnownIssue(i, k)
             \/ \E i \in Issues : \E d \in Operated : Acknowledge(d, i)
             \/ \E d \in Operated : SetDevicePaused(d) \/ MoveWindow(d)
             \/ \E b \in Clients : PruneDrift(b)
      PROVE  UNCHANGED <<events, clock>>
  BY <1>4 DEF SpendRepoll, SchedulerCrash, ApiCrash, Kill, CreateKnownIssue, Acknowledge,
              SetDevicePaused, MoveWindow, PruneDrift
<1>5. CASE UNCHANGED vars
  BY <1>5 DEF vars
<1> QED  BY <1>1, <1>2, <1>3, <1>4, <1>5 DEF Next

(* Only the enable endpoint arms an issue.                                 *)
LEMMA OnlyEnableArms ==
  ASSUME TypeInv, [Next]_vars, NEW i \in Issues, row'[i].enabled
  PROVE  row[i].enabled \/ \E c \in Clients : WriteEnable(c) /\ call[c].issue = i
<1> USE DEF db, mutes, history, worker, TypeInv, TypeOK, Row
<1>1. ASSUME NEW w \in Workers, StartLoop(w) \/ WorkerStep(w)
      PROVE  row[i].enabled
  <2>1. CASE StartLoop(w)
    BY <2>1 DEF StartLoop
  <2>2. CASE Gate(w) \/ MatchIssue(w) \/ Vet(w) \/ ApplyFix(w)
    BY <2>2 DEF Gate, MatchIssue, Vet, ApplyFix
  <2>3. CASE SaveEvent(w) \/ CommitEvent(w)
    BY <2>3 DEF SaveEvent, CommitEvent
  <2>4. CASE CountFailures(w) \/ FinishLoop(w)
    BY <2>4 DEF CountFailures, FinishLoop
  <2>5. CASE ClearFlag(w)
    BY <2>5 DEF ClearFlag
  <2> QED  BY <1>1, <2>1, <2>2, <2>3, <2>4, <2>5 DEF WorkerStep
<1>2. ASSUME NEW c \in Clients, ClientStep(c)
      PROVE  row[i].enabled \/ (WriteEnable(c) /\ call[c].issue = i)
  <2>1. ASSUME NEW j \in Issues, NEW k \in Payloads, LoadForPatch(c, j, k)
        PROVE  row[i].enabled
    BY <2>1 DEF LoadForPatch
  <2>2. ASSUME NEW j \in Issues, LoadForEnable(c, j) \/ LoadForDisable(c, j)
        PROVE  row[i].enabled
    BY <2>2 DEF LoadForEnable, LoadForDisable
  <2>3. ASSUME NEW j \in Issues, NEW d \in Devices, ApplyByOperator(c, j, d)
        PROVE  row[i].enabled
    BY <2>3 DEF ApplyByOperator
  <2>4. CASE WritePatch(c)
    <3>1. PICK k : row' = [row EXCEPT ![call[c].issue] = [kind |-> k, enabled |->
                       @.enabled /\ ~(call[c].kind # "restore_intent" /\ call[c].enabled)]]
      BY <2>4 DEF WritePatch
    <3>2. CASE call[c].issue = i
      BY <3>1, <3>2
    <3>3. CASE call[c].issue # i
      BY <3>1, <3>3
    <3> QED  BY <3>2, <3>3
  <2>5. CASE CheckConfirmed(c) \/ RecordApply(c) \/ RecordRefused(c)
    BY <2>5 DEF CheckConfirmed, RecordApply, RecordRefused
  <2>6. CASE WriteEnable(c)
    BY <2>6 DEF WriteEnable
  <2>7. CASE WriteDisable(c)
    BY <2>7 DEF WriteDisable
  <2> QED  BY <1>2, <2>1, <2>2, <2>3, <2>4, <2>5, <2>6, <2>7 DEF ClientStep
<1>3. ASSUME NEW c \in Importers, ImporterStep(c)
      PROVE  row[i].enabled
  <2>1. ASSUME NEW j \in Issues, NEW k \in Payloads, LoadForImport(c, j, k)
        PROVE  row[i].enabled
    BY <2>1 DEF LoadForImport
  <2>2. CASE WriteImport(c)
    <3>1. CASE \/ row' = row
               \/ row' = [row EXCEPT ![call[c].issue] =
                             [kind |-> call[c].kind, enabled |-> FALSE]]
      <4>1. CASE call[c].issue = i
        BY <3>1, <4>1
      <4>2. CASE call[c].issue # i
        BY <3>1, <4>2
      <4> QED  BY <4>1, <4>2
    <3>2. ASSUME NEW k, row' = [row EXCEPT ![call[c].issue].kind = k]
          PROVE  row[i].enabled
      BY <3>2
    <3> QED  BY <2>2, <3>1, <3>2 DEF WriteImport
  <2> QED  BY <1>3, <2>1, <2>2 DEF ImporterStep
<1>4. ASSUME NEW j \in Issues, NEW k \in Payloads, CreateKnownIssue(j, k)
      PROVE  row[i].enabled
  BY <1>4 DEF CreateKnownIssue
<1>5. ASSUME \/ SpendRepoll \/ SchedulerCrash \/ ApiCrash
             \/ \E j \in Issues : \E d \in Devices : DryRun(j, d)
             \/ \E j \in Issues : \E d \in Operated : Acknowledge(d, j)
             \/ \E d \in Operated : SetDevicePaused(d) \/ MoveWindow(d)
             \/ \E b \in Clients : PruneDrift(b)
      PROVE  row[i].enabled
  BY <1>5 DEF SpendRepoll, SchedulerCrash, ApiCrash, Kill, DryRun, Acknowledge,
              SetDevicePaused, MoveWindow, PruneDrift
<1>6. CASE UNCHANGED vars
  BY <1>6 DEF vars
<1> QED  BY <1>1, <1>2, <1>3, <1>4, <1>5, <1>6 DEF Next

(* A request reaches the write of the flag only through the confirm gate.  *)
LEMMA OnlyCheckEnables ==
  ASSUME TypeInv, [Next]_vars, NEW c \in Clients \cup Importers, call'[c].op = "enable"
  PROVE  \/ call'[c] = call[c]
         \/ /\ Confirmed(call[c].issue) /\ UNCHANGED <<events, clock>>
            /\ call'[c].issue = call[c].issue
<1> DEFINE Goal == \/ call'[c] = call[c]
                   \/ /\ Confirmed(call[c].issue) /\ UNCHANGED <<events, clock>>
                      /\ call'[c].issue = call[c].issue
<1> USE DEF db, mutes, history, worker, TypeInv, TypeOK
<1>1. NoCall.op # "enable"
  BY DEF NoCall
<1>2. ASSUME NEW d \in Clients \cup Importers, Done(d)
      PROVE  call'[c] = call[c]
  BY <1>1, <1>2 DEF Done
<1>3. ASSUME NEW d \in Clients \cup Importers, NEW op \in Ops, op # "enable",
             NEW i \in Issues, NEW k \in Kinds, Begin(d, op, i, k)
      PROVE  call'[c] = call[c]
  <2>1. [NoCall EXCEPT !.op = op, !.issue = i, !.kind = k, !.enabled = row[i].enabled,
                       !.same = row[i].kind = k].op # "enable"
    BY <1>3, NoCallType DEF Call
  <2> QED  BY <1>3, <2>1 DEF Begin
<1>4. Payloads \subseteq Kinds /\ "null" \in Kinds
      /\ {"patch", "count", "enable", "disable", "insert", "update"} \subseteq Ops
  BY CoreAssumption DEF Ops, Kinds
<1>5. ASSUME NEW w \in Workers, StartLoop(w) \/ WorkerStep(w)
      PROVE  call' = call
  <2>1. CASE StartLoop(w)
    BY <2>1 DEF StartLoop
  <2>2. CASE Gate(w) \/ MatchIssue(w) \/ Vet(w) \/ ApplyFix(w)
    BY <2>2 DEF Gate, MatchIssue, Vet, ApplyFix
  <2>3. CASE SaveEvent(w) \/ CommitEvent(w)
    BY <2>3 DEF SaveEvent, CommitEvent
  <2>4. CASE CountFailures(w) \/ FinishLoop(w)
    BY <2>4 DEF CountFailures, FinishLoop
  <2>5. CASE ClearFlag(w)
    BY <2>5 DEF ClearFlag
  <2> QED  BY <1>5, <2>1, <2>2, <2>3, <2>4, <2>5 DEF WorkerStep
<1>6. ASSUME NEW d \in Clients, ClientStep(d)
      PROVE  Goal
  <2>1. ASSUME NEW i \in Issues, NEW k \in Payloads, LoadForPatch(d, i, k)
        PROVE  call'[c] = call[c]
    BY <1>3, <1>4, <2>1 DEF LoadForPatch
  <2>2. ASSUME NEW i \in Issues, LoadForEnable(d, i) \/ LoadForDisable(d, i)
        PROVE  call'[c] = call[c]
    BY <1>3, <1>4, <2>2 DEF LoadForEnable, LoadForDisable
  <2>3. ASSUME NEW i \in Issues, NEW e \in Devices, ApplyByOperator(d, i, e)
        PROVE  call'[c] = call[c]
    <3>1. PICK op \in {"succeeded", "failed"} :
             call' = [call EXCEPT ![d] = [NoCall EXCEPT !.op = op, !.issue = i, !.device = e]]
      BY <2>3 DEF ApplyByOperator
    <3>2. [NoCall EXCEPT !.op = op, !.issue = i, !.device = e].op # "enable"
      BY NoCallType DEF Call
    <3> QED  BY <3>1, <3>2
  <2>4. CASE \/ WritePatch(d) \/ WriteEnable(d) \/ WriteDisable(d) \/ RecordApply(d)
             \/ RecordRefused(d)
    <3>1. Done(d)
      BY <2>4 DEF WritePatch, WriteEnable, WriteDisable, RecordApply, RecordRefused
    <3> QED  BY <1>2, <3>1
  <2>5. CASE CheckConfirmed(d)
    <3>1. CASE Done(d)
      BY <1>2, <3>1
    <3>2. CASE call' = [call EXCEPT ![d].op = "enable"] /\ Confirmed(call[d].issue)
      BY <2>5, <3>2 DEF CheckConfirmed, Call
    <3> QED  BY <2>5, <3>1, <3>2 DEF CheckConfirmed
  <2> QED  BY <1>6, <2>1, <2>2, <2>3, <2>4, <2>5 DEF ClientStep
<1>7. ASSUME NEW d \in Importers, ImporterStep(d)
      PROVE  call'[c] = call[c]
  <2>1. ASSUME NEW i \in Issues, NEW k \in Payloads, LoadForImport(d, i, k)
        PROVE  call'[c] = call[c]
    <3>1. CASE Exists(i)
      BY <1>3, <1>4, <2>1, <3>1 DEF LoadForImport
    <3>2. CASE ~Exists(i)
      BY <1>3, <1>4, <2>1, <3>2 DEF LoadForImport
    <3> QED  BY <3>1, <3>2
  <2>2. CASE WriteImport(d)
    <3>1. Done(d)
      BY <2>2 DEF WriteImport
    <3> QED  BY <1>2, <3>1
  <2> QED  BY <1>7, <2>1, <2>2 DEF ImporterStep
<1>8. ASSUME \/ SpendRepoll \/ SchedulerCrash
             \/ \E i \in Issues : \E k \in Payloads : CreateKnownIssue(i, k)
             \/ \E i \in Issues : \E d \in Devices : DryRun(i, d)
             \/ \E i \in Issues : \E d \in Operated : Acknowledge(d, i)
             \/ \E d \in Operated : SetDevicePaused(d) \/ MoveWindow(d)
      PROVE  call' = call
  BY <1>8 DEF SpendRepoll, SchedulerCrash, CreateKnownIssue, DryRun, Acknowledge,
              SetDevicePaused, MoveWindow
<1>9. CASE ApiCrash
  BY <1>1, <1>9 DEF ApiCrash
<1>10. CASE UNCHANGED vars
  BY <1>10 DEF vars
<1>11. ASSUME NEW b \in Clients, PruneDrift(b)
       PROVE  call'[c] = call[c]
  <2>1. call' = [call EXCEPT ![b].gone = TRUE] /\ call[b].op # "enable"
    BY <1>11 DEF PruneDrift, Applying
  <2> QED  BY <2>1 DEF Call
<1> QED  BY <1>5, <1>6, <1>7, <1>8, <1>9, <1>10, <1>11 DEF Next

-----------------------------------------------------------------------------
(* The confirm gate.  The gate counts every success of the issue, and the  *)
(* scheduler's own successes count too; that no issue confirms itself this *)
(* way needs the order of the events: a success of the scheduler is        *)
(* preceded by CONFIRM_THRESHOLD manual ones.                              *)

ManualBefore(E, i, t) ==
    {e \in E : e.issue = i /\ e.by = "api" /\ e.result = "success" /\ e.at < t}

Proven(E, i, t) == Cardinality(ManualBefore(E, i, t)) >= CONFIRM_THRESHOLD

LogInv   == IsFiniteSet(events) /\ \A e \in events : e.at < clock
Armed    == \A i \in Issues : row[i].enabled => Proven(events, i, clock)
Enabling == \A c \in Clients \cup Importers :
               call[c].op = "enable" => Proven(events, call[c].issue, clock)
Working  == \A w \in Workers :
               /\ pc[w] \in {"vet", "apply", "save"} => Proven(events, Current(w), clock)
               /\ pc[w] = "commit" =>
                     stamp[w] < clock /\ Proven(events, Current(w), stamp[w])
Logged   == \A e \in events : e.by = "scheduler" => Proven(events, e.issue, e.at)

GateInv == LogInv /\ Armed /\ Enabling /\ Working /\ Logged

(* What was proven stays proven: the log only grows and time goes on.      *)
LEMMA ProvenLasts ==
  ASSUME NEW E \in SUBSET Event, NEW F \in SUBSET Event, E \subseteq F, IsFiniteSet(F),
         NEW i, NEW t \in Int, NEW u \in Int, t <= u, Proven(E, i, t)
  PROVE  Proven(F, i, u)
<1>1. ManualBefore(E, i, t) \subseteq ManualBefore(F, i, u)
  BY DEF ManualBefore, Event
<1>2. IsFiniteSet(ManualBefore(F, i, u))
  BY FS_Subset DEF ManualBefore
<1>3. /\ Cardinality(ManualBefore(E, i, t)) <= Cardinality(ManualBefore(F, i, u))
      /\ Cardinality(ManualBefore(E, i, t)) \in Nat /\ Cardinality(ManualBefore(F, i, u)) \in Nat
  BY <1>1, <1>2, FS_Subset, FS_CardinalityType
<1> QED  BY <1>3, CoreAssumption DEF Proven

(* The gate of the enable endpoint is as strong as if it counted manual    *)
(* successes only.                                                         *)
LEMMA ConfirmedIsProven ==
  ASSUME TypeInv, LogInv, Logged, NEW i \in Issues, Confirmed(i)
  PROVE  Proven(events, i, clock)
<1> USE DEF TypeInv, TypeOK
<1>1. CASE \E e \in events : e.issue = i /\ e.by = "scheduler"
  <2>1. PICK e \in events : e.issue = i /\ e.by = "scheduler"
    BY <1>1
  <2>2. e.at \in Int /\ clock \in Int /\ e.at <= clock /\ Proven(events, i, e.at)
    BY <2>1 DEF LogInv, Logged, Event
  <2> QED  BY <2>2, ProvenLasts DEF LogInv
<1>2. CASE ~ \E e \in events : e.issue = i /\ e.by = "scheduler"
  <2>1. Successes(i) = ManualBefore(events, i, clock)
    BY <1>2 DEF Successes, ManualBefore, LogInv, Event
  <2> QED  BY <2>1 DEF Confirmed, Proven
<1> QED  BY <1>1, <1>2

(* Every step keeps the log finite and growing, its clock ahead of it.     *)
LEMMA LogGrows ==
  ASSUME TypeInv, GateInv, [Next]_vars
  PROVE  LogInv' /\ events \subseteq events' /\ clock <= clock' /\ Logged'
<1> USE DEF TypeInv, TypeOK, GateInv, LogInv
<1>1. ASSUME NEW e \in Event, events' = events \cup {e}, e.at < clock', clock <= clock',
             clock' \in Nat, e.by = "scheduler" => Proven(events, e.issue, e.at)
      PROVE  LogInv' /\ events \subseteq events' /\ clock <= clock' /\ Logged'
  <2>1. IsFiniteSet(events')
    BY <1>1, FS_AddElement
  <2>2. \A f \in events' : f.at < clock'
    BY <1>1 DEF Event
  <2>3. ASSUME NEW f \in events', f.by = "scheduler"
        PROVE  Proven(events', f.issue, f.at)
    <3>1. Proven(events, f.issue, f.at) /\ f.at \in Int /\ f.at <= f.at
      BY <1>1, <2>3 DEF Logged, Event
    <3>2. events' \subseteq Event
      BY <1>1
    <3> QED  BY <1>1, <2>1, <3>1, <3>2, ProvenLasts
  <2> QED  BY <1>1, <2>1, <2>2, <2>3 DEF Logged
<1>2. CASE UNCHANGED <<events, clock>>
  BY <1>2 DEF Logged
<1>3. ASSUME NEW w \in Workers, SaveEvent(w)
      PROVE  LogInv' /\ events \subseteq events' /\ clock <= clock' /\ Logged'
  <2>1. events' = events /\ clock' = clock + 1
    BY <1>3 DEF SaveEvent
  <2>2. \A e \in events : e.at \in Nat
    BY DEF Event
  <2> QED  BY <2>1, <2>2 DEF Logged
<1>4. ASSUME NEW w \in Workers, CommitEvent(w)
      PROVE  LogInv' /\ events \subseteq events' /\ clock <= clock' /\ Logged'
  <2> DEFINE e == [issue |-> Current(w), by |-> "scheduler", result |-> result[w],
                   at |-> stamp[w]]
  <2>1. pc[w] = "commit" /\ events' = events \cup {e} /\ clock' = clock
    BY <1>4 DEF CommitEvent
  <2>2. Current(w) \in Issues
    BY <2>1, CurrentType DEF HoldsDrift, Holding
  <2>3. e \in Event
    BY <2>2 DEF Event
  <2>4. stamp[w] < clock /\ Proven(events, Current(w), stamp[w])
    BY <2>1 DEF Working
  <2>5. e.at < clock' /\ clock <= clock' /\ clock' \in Nat /\ Proven(events, e.issue, e.at)
    BY <2>1, <2>4
  <2> HIDE DEF e
  <2> QED  BY <1>1, <2>1, <2>3, <2>5
<1>5. ASSUME NEW e \in Event, e.by = "api", e.at = clock,
             events' = events \cup {e}, clock' = clock + 1
      PROVE  LogInv' /\ events \subseteq events' /\ clock <= clock' /\ Logged'
  <2>1. e.at < clock' /\ clock <= clock' /\ clock' \in Nat /\ e.by # "scheduler"
    BY <1>5
  <2> QED  BY <1>1, <1>5, <2>1
<1>6. ASSUME NEW c \in Clients, RecordApply(c)
      PROVE  LogInv' /\ events \subseteq events' /\ clock <= clock' /\ Logged'
  <2>1. call[c].issue \in Issues
    BY DEF Call
  <2> DEFINE e == [issue |-> call[c].issue, by |-> "api", at |-> clock,
                   result |-> IF call[c].op = "succeeded" THEN "success" ELSE "failure"]
  <2>2. e \in Event /\ e.by = "api" /\ e.at = clock
    BY <2>1 DEF Event, Results
  <2>3. events' = events \cup {e} /\ clock' = clock + 1
    BY <1>6 DEF RecordApply
  <2> HIDE DEF e
  <2> QED  BY <1>5, <2>2, <2>3
<1>7. ASSUME NEW i \in Issues, NEW d \in Devices, DryRun(i, d)
      PROVE  LogInv' /\ events \subseteq events' /\ clock <= clock' /\ Logged'
  <2> DEFINE e == [issue |-> i, by |-> "api", result |-> "dry_run_only", at |-> clock]
  <2>1. e \in Event /\ e.by = "api" /\ e.at = clock
    BY DEF Event, Results
  <2>2. events' = events \cup {e} /\ clock' = clock + 1
    BY <1>7 DEF DryRun
  <2> HIDE DEF e
  <2> QED  BY <1>5, <2>1, <2>2
<1> QED  BY <1>2, <1>3, <1>4, <1>6, <1>7, LogChanges

(* Every step preserves what the confirm gate has established.             *)
LEMMA GateInvStep ==
  ASSUME TypeInv, TypeInv', GateInv, [Next]_vars
  PROVE  GateInv'
<1>1. LogInv' /\ events \subseteq events' /\ clock <= clock' /\ Logged'
  BY LogGrows
<1>2. /\ events \in SUBSET Event /\ events' \in SUBSET Event /\ IsFiniteSet(events')
      /\ clock \in Int /\ clock' \in Int
  BY <1>1 DEF TypeInv, TypeOK, LogInv
<1>3. ASSUME NEW i, NEW t \in Int, NEW u \in Int, t <= u, Proven(events, i, t)
      PROVE  Proven(events', i, u)
  BY <1>1, <1>2, <1>3, ProvenLasts
<1>4. Armed'
  <2> SUFFICES ASSUME NEW i \in Issues, row'[i].enabled
               PROVE  Proven(events', i, clock')
    BY DEF Armed
  <2>1. CASE row[i].enabled
    BY <1>1, <1>2, <1>3, <2>1 DEF GateInv, Armed
  <2>2. CASE \E c \in Clients : WriteEnable(c) /\ call[c].issue = i
    <3>1. PICK c \in Clients : WriteEnable(c) /\ call[c].issue = i
      BY <2>2
    <3>2. Proven(events, i, clock)
      BY <3>1 DEF WriteEnable, Serving, GateInv, Enabling
    <3> QED  BY <1>1, <1>2, <1>3, <3>2
  <2> QED  BY <2>1, <2>2, OnlyEnableArms
<1>5. Enabling'
  <2> SUFFICES ASSUME NEW c \in Clients \cup Importers, call'[c].op = "enable"
               PROVE  Proven(events', call'[c].issue, clock')
    BY DEF Enabling
  <2>1. CASE call'[c] = call[c]
    BY <1>1, <1>2, <1>3, <2>1 DEF GateInv, Enabling
  <2>2. CASE /\ Confirmed(call[c].issue) /\ UNCHANGED <<events, clock>>
             /\ call'[c].issue = call[c].issue
    <3>1. call[c].issue \in Issues
      BY DEF TypeInv, TypeOK, Call
    <3> QED  BY <2>2, <3>1, ConfirmedIsProven DEF GateInv
  <2> QED  BY <2>1, <2>2, OnlyCheckEnables
<1>6. Working'
  <2> SUFFICES ASSUME NEW w \in Workers
               PROVE  /\ pc'[w] \in {"vet", "apply", "save"} =>
                            Proven(events', Current(w)', clock')
                      /\ pc'[w] = "commit" =>
                            /\ stamp'[w] < clock'
                            /\ Proven(events', Current(w)', stamp'[w])
    BY DEF Working
  <2> USE DEF TypeInv, TypeOK
  <2>1. stamp[w] \in Int /\ stamp'[w] \in Int
    OBVIOUS
  <2>2. CASE pc'[w] = pc[w] /\ todo'[w] = todo[w] /\ stamp'[w] = stamp[w]
    <3>1. Current(w)' = Current(w)
      BY <2>2 DEF Current
    <3> QED  BY <1>1, <1>2, <1>3, <2>1, <2>2, <3>1 DEF GateInv, Working
  <2>3. CASE pc'[w] \notin {"vet", "apply", "save", "commit"}
    BY <2>3
  <2>4. CASE StartLoop(w) \/ Gate(w) \/ CommitEvent(w) \/ CountFailures(w) \/ ClearFlag(w)
              \/ FinishLoop(w)
    <3>1. pc'[w] \in {"idle", "gate", "loop", "count_failures", "clear_flag"}
      BY <2>4 DEF StartLoop, Gate, CommitEvent, CountFailures, ClearFlag, FinishLoop,
                  Goto, NextDrift
    <3> QED  BY <2>3, <3>1
  <2>5. CASE MatchIssue(w)
    <3>1. CASE row[Current(w)].enabled
      <4>1. pc'[w] = "vet" /\ Current(w)' = Current(w) /\ Current(w) \in Issues
        BY <2>5, <3>1, CurrentType DEF MatchIssue, Goto, Current
      <4>2. Proven(events, Current(w), clock)
        BY <3>1, <4>1 DEF GateInv, Armed
      <4> QED  BY <1>1, <1>2, <1>3, <4>1, <4>2
    <3>2. CASE ~row[Current(w)].enabled
      BY <2>5, <3>2 DEF MatchIssue, NextDrift, Goto
    <3> QED  BY <3>1, <3>2
  <2>6. CASE Vet(w)
    <3>1. \/ pc'[w] = "apply" /\ pc[w] = "vet" /\ Current(w)' = Current(w)
          \/ pc'[w] = "loop"
      BY <2>6 DEF Vet, NextDrift, Goto, Current
    <3> QED  BY <1>1, <1>2, <1>3, <3>1 DEF GateInv, Working
  <2>7. CASE ApplyFix(w)
    <3>1. pc'[w] = "save" /\ pc[w] = "apply" /\ Current(w)' = Current(w)
      BY <2>7 DEF ApplyFix, Goto, Current
    <3> QED  BY <1>1, <1>2, <1>3, <3>1 DEF GateInv, Working
  <2>8. CASE SaveEvent(w)
    <3>1. /\ pc'[w] = "commit" /\ pc[w] = "save" /\ Current(w)' = Current(w)
          /\ stamp'[w] = clock /\ clock' = clock + 1
      BY <2>8 DEF SaveEvent, Goto, Current
    <3> QED  BY <1>1, <1>2, <1>3, <3>1 DEF GateInv, Working
  <2> QED
    BY <2>2, <2>3, <2>4, <2>5, <2>6, <2>7, <2>8, WorkersMove DEF WorkerStep
<1> QED  BY <1>1, <1>4, <1>5, <1>6 DEF GateInv

(* The confirm gate's inductive invariant holds throughout.                *)
LEMMA GateInvariant == Spec => []GateInv
<1>1. Init => GateInv
  <2> SUFFICES ASSUME Init PROVE GateInv
    OBVIOUS
  <2>1. LogInv /\ Logged
    BY FS_EmptySet DEF Init, LogInv, Logged
  <2>2. Armed
    BY DEF Init, Armed, Absent
  <2>3. Enabling
    BY DEF Init, Enabling, NoCall
  <2>4. Working
    BY DEF Init, Working
  <2> QED  BY <2>1, <2>2, <2>3, <2>4 DEF GateInv
<1>2. TypeInv /\ TypeInv' /\ GateInv /\ [Next]_vars => GateInv'
  BY GateInvStep
<1> QED  BY <1>1, <1>2, TypesInvariant, PTL DEF Spec

(* An issue is armed only after CONFIRM_THRESHOLD successful manual applies, *)
(* however the operators, the importer and the scheduler interleave.       *)
THEOREM ConfirmGateHolds == Spec => []ConfirmGate
<1>1. TypeInv /\ GateInv => ConfirmGate
  <2> SUFFICES ASSUME TypeInv, GateInv, NEW i \in Issues, row[i].enabled
               PROVE  Cardinality(ManualSuccesses(i)) >= CONFIRM_THRESHOLD
    BY DEF ConfirmGate
  <2>1. ManualSuccesses(i) = ManualBefore(events, i, clock)
    BY DEF ManualSuccesses, Successes, ManualBefore, GateInv, LogInv
  <2> QED  BY <2>1 DEF GateInv, Armed, Proven
<1> QED  BY <1>1, TypesInvariant, GateInvariant, PTL

(* Whatever the scheduler did unattended had been confirmed before.        *)
THEOREM ConfirmedFirst == Spec => []ConfirmedBeforeUnattended
<1>1. TypeInv /\ GateInv => ConfirmedBeforeUnattended
  <2> SUFFICES ASSUME TypeInv, GateInv, NEW e \in events, e.by = "scheduler"
               PROVE  Cardinality({s \in Successes(e.issue) : s.at < e.at})
                         >= CONFIRM_THRESHOLD
    BY DEF ConfirmedBeforeUnattended
  <2> DEFINE M == ManualBefore(events, e.issue, e.at)
             S == {s \in Successes(e.issue) : s.at < e.at}
  <2>1. M \subseteq S
    BY DEF ManualBefore, Successes
  <2>2. IsFiniteSet(S)
    BY FS_Subset DEF Successes, GateInv, LogInv
  <2>3. Cardinality(M) <= Cardinality(S) /\ Cardinality(M) \in Nat /\ Cardinality(S) \in Nat
    BY <2>1, <2>2, FS_Subset, FS_CardinalityType
  <2>4. Cardinality(M) >= CONFIRM_THRESHOLD
    BY DEF GateInv, Logged, Proven
  <2> QED  BY <2>3, <2>4, CoreAssumption
<1> QED  BY <1>1, TypesInvariant, GateInvariant, PTL

-----------------------------------------------------------------------------
(* The circuit breaker.  No worker sees more than its own transaction, yet *)
(* the breaker cannot be missed: CircuitBreaker is inductive, because the  *)
(* commit that makes it relevant leaves its own worker about to count.     *)

FailedOn(w, i) == CommitEvent(w) /\ result[w] = "failure" /\ Current(w) = i

(* A breaker trips only by a failure that is being committed.              *)
LEMMA TrippedBefore ==
  ASSUME TypeInv, GateInv, [Next]_vars, NEW i \in Issues, Tripped(i)'
  PROVE  Tripped(i) \/ \E w \in Workers : FailedOn(w, i)
<1> USE DEF TypeInv, TypeOK
<1>1. ASSUME TrailingFailures(i)' \subseteq TrailingFailures(i)
      PROVE  Tripped(i)
  <2>1. IsFiniteSet(TrailingFailures(i))
    BY FS_Subset DEF TrailingFailures, SchedulerRuns, GateInv, LogInv
  <2>2. /\ Cardinality(TrailingFailures(i)') <= Cardinality(TrailingFailures(i))
        /\ Cardinality(TrailingFailures(i)) \in Nat
        /\ Cardinality(TrailingFailures(i)') \in Nat
    BY <1>1, <2>1, FS_Subset, FS_CardinalityType
  <2> QED  BY <2>2, CoreAssumption DEF Tripped
<1>2. ASSUME \/ events' = events
             \/ \E e : events' = events \cup {e} /\ e.by = "api"
      PROVE  Tripped(i)
  <2>1. \A r \in Results : SchedulerRuns(i, r)' = SchedulerRuns(i, r)
    BY <1>2 DEF SchedulerRuns
  <2>2. TrailingFailures(i)' = TrailingFailures(i)
    BY <2>1 DEF TrailingFailures, Results
  <2> QED  BY <1>1, <2>2
<1>3. ASSUME NEW w \in Workers, CommitEvent(w), ~FailedOn(w, i)
      PROVE  Tripped(i)
  <2> DEFINE e == [issue |-> Current(w), by |-> "scheduler", result |-> result[w],
                   at |-> stamp[w]]
  <2>1. events' = events \cup {e} /\ ~(e.issue = i /\ e.result = "failure")
    BY <1>3 DEF CommitEvent, FailedOn
  <2>2. events' \subseteq events \cup {e} /\ events \subseteq events'
    BY <2>1
  <2>3. SchedulerRuns(i, "failure")' \subseteq SchedulerRuns(i, "failure")
    BY <2>1 DEF SchedulerRuns
  <2>4. SchedulerRuns(i, "success") \subseteq SchedulerRuns(i, "success")'
    BY <2>2 DEF SchedulerRuns
  <2>5. TrailingFailures(i)' \subseteq TrailingFailures(i)
    BY <2>3, <2>4 DEF TrailingFailures
  <2> QED  BY <1>1, <2>5
<1>4. ASSUME NEW c \in Clients, RecordApply(c)
      PROVE  Tripped(i)
  <2> DEFINE e == [issue |-> call[c].issue, by |-> "api", at |-> clock,
                   result |-> IF call[c].op = "succeeded" THEN "success" ELSE "failure"]
  <2>1. events' = events \cup {e} /\ e.by = "api"
    BY <1>4 DEF RecordApply
  <2> HIDE DEF e
  <2> QED  BY <1>2, <2>1
<1>5. ASSUME NEW j \in Issues, NEW d \in Devices, DryRun(j, d)
      PROVE  Tripped(i)
  <2> DEFINE e == [issue |-> j, by |-> "api", result |-> "dry_run_only", at |-> clock]
  <2>1. events' = events \cup {e} /\ e.by = "api"
    BY <1>5 DEF DryRun
  <2> HIDE DEF e
  <2> QED  BY <1>2, <2>1
<1>6. ASSUME NEW w \in Workers, SaveEvent(w)
      PROVE  Tripped(i)
  BY <1>2, <1>6 DEF SaveEvent
<1> QED  BY <1>2, <1>3, <1>4, <1>5, <1>6, LogChanges

(* Only a failure committed by a worker takes an issue out of rearmed, and *)
(* a crash puts every issue in.                                            *)
LEMMA RearmedChanges ==
  ASSUME [Next]_vars, NEW i \in Issues, i \notin rearmed'
  PROVE  /\ ~SchedulerCrash /\ ~ApiCrash
         /\ i \notin rearmed \/ \E w \in Workers : FailedOn(w, i)
<1> USE DEF db, mutes, history, worker
<1>1. ~SchedulerCrash /\ ~ApiCrash
  BY DEF SchedulerCrash, ApiCrash, Kill
<1>2. ASSUME NEW w \in Workers, StartLoop(w) \/ WorkerStep(w)
      PROVE  i \notin rearmed \/ FailedOn(w, i)
  <2>1. CASE StartLoop(w)
    BY <2>1 DEF StartLoop
  <2>2. CASE Gate(w) \/ MatchIssue(w) \/ Vet(w) \/ ApplyFix(w)
    BY <2>2 DEF Gate, MatchIssue, Vet, ApplyFix
  <2>3. CASE SaveEvent(w) \/ CountFailures(w) \/ FinishLoop(w) \/ ClearFlag(w)
    BY <2>3 DEF SaveEvent, CountFailures, FinishLoop, ClearFlag
  <2>4. CASE CommitEvent(w)
    BY <2>4 DEF CommitEvent, FailedOn
  <2> QED  BY <1>2, <2>1, <2>2, <2>3, <2>4 DEF WorkerStep
<1>3. ASSUME NEW c \in Clients, ClientStep(c)
      PROVE  i \notin rearmed
  <2>1. ASSUME NEW j \in Issues, NEW k \in Payloads, LoadForPatch(c, j, k)
        PROVE  i \notin rearmed
    BY <2>1 DEF LoadForPatch
  <2>2. ASSUME NEW j \in Issues, LoadForEnable(c, j) \/ LoadForDisable(c, j)
        PROVE  i \notin rearmed
    BY <2>2 DEF LoadForEnable, LoadForDisable
  <2>3. ASSUME NEW j \in Issues, NEW d \in Devices, ApplyByOperator(c, j, d)
        PROVE  i \notin rearmed
    BY <2>3 DEF ApplyByOperator
  <2>4. CASE \/ WritePatch(c) \/ CheckConfirmed(c) \/ WriteDisable(c) \/ RecordApply(c)
             \/ RecordRefused(c)
    BY <2>4 DEF WritePatch, CheckConfirmed, WriteDisable, RecordApply, RecordRefused
  <2>5. CASE WriteEnable(c)
    BY <2>5 DEF WriteEnable
  <2> QED  BY <1>3, <2>1, <2>2, <2>3, <2>4, <2>5 DEF ClientStep
<1>4. ASSUME NEW c \in Importers, ImporterStep(c)
      PROVE  i \notin rearmed
  <2>1. ASSUME NEW j \in Issues, NEW k \in Payloads, LoadForImport(c, j, k)
        PROVE  i \notin rearmed
    BY <2>1 DEF LoadForImport
  <2>2. CASE WriteImport(c)
    BY <2>2 DEF WriteImport
  <2> QED  BY <1>4, <2>1, <2>2 DEF ImporterStep
<1>5. ASSUME \/ SpendRepoll
             \/ \E j \in Issues : \E k \in Payloads : CreateKnownIssue(j, k)
             \/ \E j \in Issues : \E d \in Devices : DryRun(j, d)
             \/ \E j \in Issues : \E d \in Operated : Acknowledge(d, j)
             \/ \E d \in Operated : SetDevicePaused(d) \/ MoveWindow(d)
             \/ \E b \in Clients : PruneDrift(b)
      PROVE  i \notin rearmed
  BY <1>5 DEF SpendRepoll, CreateKnownIssue, DryRun, Acknowledge, SetDevicePaused, MoveWindow,
              PruneDrift
<1>6. ASSUME UNCHANGED vars
      PROVE  i \notin rearmed
  BY <1>6 DEF vars
<1> QED  BY <1>1, <1>2, <1>3, <1>4, <1>5, <1>6 DEF Next

(* Every step preserves the circuit breaker.                               *)
LEMMA BreakerStep ==
  ASSUME TypeInv, GateInv, CircuitBreaker, [Next]_vars
  PROVE  CircuitBreaker'
<1> SUFFICES ASSUME NEW i \in Issues, row'[i].enabled, Tripped(i)', i \notin rearmed'
             PROVE  \E w \in Workers : Clearing(w, i)'
  BY DEF CircuitBreaker
<1> USE DEF TypeInv, TypeOK
<1>1. CASE \E w \in Workers : FailedOn(w, i)
  <2>1. PICK w \in Workers : FailedOn(w, i)
    BY <1>1
  <2>2. pc'[w] = "count_failures" /\ todo' = todo
    BY <2>1 DEF FailedOn, CommitEvent, Goto
  <2> QED  BY <2>1, <2>2 DEF FailedOn, Clearing, Current
<1>2. CASE ~ \E w \in Workers : FailedOn(w, i)
  <2>1. Tripped(i) /\ i \notin rearmed /\ ~SchedulerCrash /\ ~ApiCrash
    BY <1>2, TrippedBefore, RearmedChanges
  <2>2. row[i].enabled
    <3>1. ASSUME NEW c \in Clients, WriteEnable(c), call[c].issue = i
          PROVE  row[i].enabled
      <4>1. CASE UNCHANGED <<row, rearmed, late>>
        BY <4>1
      <4>2. CASE rearmed' = rearmed \cup {i}
        BY <4>2
      <4> QED  BY <3>1, <4>1, <4>2 DEF WriteEnable
    <3> QED  BY <3>1, OnlyEnableArms
  <2>3. PICK w \in Workers : Clearing(w, i)
    BY <2>1, <2>2 DEF CircuitBreaker
  <2>4. pc[w] \in {"count_failures", "clear_flag"} /\ Current(w) = i
    BY <2>3 DEF Clearing
  <2>5. CASE pc'[w] = pc[w] /\ todo'[w] = todo[w]
    BY <2>4, <2>5 DEF Clearing, Current
  <2>6. CASE CountFailures(w)
    BY <2>1, <2>4, <2>6 DEF CountFailures, Goto, Clearing, Current
  <2>7. CASE ClearFlag(w)
    <3>1. row' = [row EXCEPT ![i].enabled = FALSE]
      BY <2>4, <2>7 DEF ClearFlag
    <3>2. ~row'[i].enabled
      BY <3>1 DEF Row
    <3> QED  BY <3>2
  <2>8. ~StartLoop(w) /\ ~Gate(w) /\ ~MatchIssue(w) /\ ~Vet(w) /\ ~ApplyFix(w)
        /\ ~SaveEvent(w) /\ ~CommitEvent(w) /\ ~FinishLoop(w)
    BY <2>4 DEF StartLoop, Gate, MatchIssue, Vet, ApplyFix, SaveEvent, CommitEvent, FinishLoop
  <2> QED  BY <2>1, <2>5, <2>6, <2>7, <2>8, WorkersMove DEF WorkerStep
<1> QED  BY <1>1, <1>2

(* An armed issue with FAILURE_THRESHOLD failures in a row is about to be  *)
(* disarmed, for any number of workers and any threshold.                  *)
THEOREM BreakerHolds == Spec => []CircuitBreaker
<1>1. Init => CircuitBreaker
  BY DEF Init, CircuitBreaker
<1>2. TypeInv /\ GateInv /\ CircuitBreaker /\ [Next]_vars => CircuitBreaker'
  BY BreakerStep
<1> QED  BY <1>1, <1>2, TypesInvariant, GateInvariant, PTL DEF Spec

-----------------------------------------------------------------------------
(* The overshoot.  While an issue is armed nothing is late, and once it is *)
(* disarmed no worker can newly match it.                                  *)
NothingLate == \A i \in Issues : row[i].enabled => late[i] = 0

(* Only an apply and an enable request touch the count of late applies.    *)
LEMMA LateChanges ==
  ASSUME TypeInv, [Next]_vars, NEW i \in Issues
  PROVE  \/ late'[i] = late[i]
         \/ \E w \in Workers : ApplyFix(w) /\ Current(w) = i
         \/ \E c \in Clients : WriteEnable(c) /\ row'[i].enabled /\ late'[i] = 0
<1> USE DEF db, mutes, history, worker
<1>1. ASSUME NEW w \in Workers, StartLoop(w) \/ WorkerStep(w)
      PROVE  late' = late \/ ApplyFix(w)
  <2>1. CASE StartLoop(w)
    BY <2>1 DEF StartLoop
  <2>2. CASE Gate(w) \/ MatchIssue(w) \/ Vet(w)
    BY <2>2 DEF Gate, MatchIssue, Vet
  <2>3. CASE ApplyFix(w)
    BY <2>3
  <2>4. CASE SaveEvent(w) \/ CommitEvent(w)
    BY <2>4 DEF SaveEvent, CommitEvent
  <2>5. CASE CountFailures(w) \/ FinishLoop(w) \/ ClearFlag(w)
    BY <2>5 DEF CountFailures, FinishLoop, ClearFlag
  <2> QED  BY <1>1, <2>1, <2>2, <2>3, <2>4, <2>5 DEF WorkerStep
<1>2. ASSUME NEW c \in Clients, ClientStep(c)
      PROVE  late' = late \/ WriteEnable(c)
  <2>1. ASSUME NEW j \in Issues, NEW k \in Payloads, LoadForPatch(c, j, k)
        PROVE  late' = late
    BY <2>1 DEF LoadForPatch
  <2>2. ASSUME NEW j \in Issues, LoadForEnable(c, j) \/ LoadForDisable(c, j)
        PROVE  late' = late
    BY <2>2 DEF LoadForEnable, LoadForDisable
  <2>3. ASSUME NEW j \in Issues, NEW d \in Devices, ApplyByOperator(c, j, d)
        PROVE  late' = late
    BY <2>3 DEF ApplyByOperator
  <2>4. CASE \/ WritePatch(c) \/ CheckConfirmed(c) \/ WriteDisable(c) \/ RecordApply(c)
             \/ RecordRefused(c)
    BY <2>4 DEF WritePatch, CheckConfirmed, WriteDisable, RecordApply, RecordRefused
  <2>5. CASE WriteEnable(c)
    BY <2>5
  <2> QED  BY <1>2, <2>1, <2>2, <2>3, <2>4, <2>5 DEF ClientStep
<1>3. ASSUME NEW c \in Importers, ImporterStep(c)
      PROVE  late' = late
  <2>1. ASSUME NEW j \in Issues, NEW k \in Payloads, LoadForImport(c, j, k)
        PROVE  late' = late
    BY <2>1 DEF LoadForImport
  <2>2. CASE WriteImport(c)
    BY <2>2 DEF WriteImport
  <2> QED  BY <1>3, <2>1, <2>2 DEF ImporterStep
<1>4. ASSUME \/ SpendRepoll \/ SchedulerCrash \/ ApiCrash
             \/ \E j \in Issues : \E k \in Payloads : CreateKnownIssue(j, k)
             \/ \E j \in Issues : \E d \in Devices : DryRun(j, d)
             \/ \E j \in Issues : \E d \in Operated : Acknowledge(d, j)
             \/ \E d \in Operated : SetDevicePaused(d) \/ MoveWindow(d)
             \/ \E b \in Clients : PruneDrift(b)
      PROVE  late' = late
  BY <1>4 DEF SpendRepoll, SchedulerCrash, ApiCrash, Kill, CreateKnownIssue, DryRun,
              Acknowledge, SetDevicePaused, MoveWindow, PruneDrift
<1>5. CASE UNCHANGED vars
  BY <1>5 DEF vars
<1>6. ASSUME NEW w \in Workers, ApplyFix(w)
      PROVE  late'[i] = late[i] \/ Current(w) = i
  BY <1>6 DEF ApplyFix, TypeInv, TypeOK
<1>7. ASSUME NEW c \in Clients, WriteEnable(c)
      PROVE  late'[i] = late[i] \/ (row'[i].enabled /\ late'[i] = 0)
  <2>1. \/ UNCHANGED late
        \/ /\ row' = [row EXCEPT ![call[c].issue].enabled = TRUE]
           /\ late' = [late EXCEPT ![call[c].issue] = 0]
    BY <1>7 DEF WriteEnable
  <2>2. row \in [Issues -> Row] /\ late \in [Issues -> Nat]
    BY DEF TypeInv, TypeOK
  <2>3. CASE call[c].issue = i
    BY <2>1, <2>2, <2>3 DEF Row
  <2>4. CASE call[c].issue # i
    BY <2>1, <2>2, <2>4
  <2> QED  BY <2>3, <2>4
<1> QED  BY <1>1, <1>2, <1>3, <1>4, <1>5, <1>6, <1>7 DEF Next

(* A worker is in flight on a disarmed issue only if it was already.       *)
LEMMA NoNewFlight ==
  ASSUME TypeInv, [Next]_vars, NEW i \in Issues, ~row[i].enabled, NEW w \in InFlight(i)'
  PROVE  w \in InFlight(i)
<1> USE DEF TypeInv, TypeOK
<1>1. w \in Workers /\ pc'[w] \in {"vet", "apply"} /\ Head(todo'[w]) = i
  BY DEF InFlight, Current
<1>2. CASE pc'[w] = pc[w] /\ todo'[w] = todo[w]
  BY <1>1, <1>2 DEF InFlight, Current
<1>3. ~StartLoop(w) /\ ~Gate(w)
  BY <1>1 DEF StartLoop, Gate, Goto
<1>4. ~MatchIssue(w)
  BY <1>1 DEF MatchIssue, Goto, NextDrift, Current
<1>5. CASE Vet(w)
  BY <1>1, <1>5 DEF Vet, Goto, NextDrift, InFlight, Current
<1>6. ~ApplyFix(w) /\ ~SaveEvent(w) /\ ~CommitEvent(w)
  BY <1>1 DEF ApplyFix, SaveEvent, CommitEvent, Goto, NextDrift
<1>7. ~CountFailures(w) /\ ~ClearFlag(w) /\ ~FinishLoop(w)
  BY <1>1 DEF CountFailures, ClearFlag, FinishLoop, Goto, NextDrift
<1> QED  BY <1>1, <1>2, <1>3, <1>4, <1>5, <1>6, <1>7, WorkersMove DEF WorkerStep

(* Every step keeps the late applies of an armed issue at zero.            *)
LEMMA NothingLateStep ==
  ASSUME TypeInv, NothingLate, [Next]_vars
  PROVE  NothingLate'
<1> SUFFICES ASSUME NEW i \in Issues, row'[i].enabled
             PROVE  late'[i] = 0
  BY DEF NothingLate
<1> USE DEF TypeInv, TypeOK
<1>1. CASE row[i].enabled
  <2>1. late[i] = 0
    BY <1>1 DEF NothingLate
  <2>2. ASSUME NEW w \in Workers, ApplyFix(w), Current(w) = i
        PROVE  late'[i] = 0
    BY <1>1, <2>2 DEF ApplyFix
  <2> QED  BY <2>1, <2>2, LateChanges
<1>2. ASSUME NEW c \in Clients, WriteEnable(c), call[c].issue = i, ~row[i].enabled
      PROVE  late'[i] = 0
  BY <1>2 DEF WriteEnable
<1> QED  BY <1>1, <1>2, OnlyEnableArms

(* Every step keeps the overshoot within its bound.                        *)
LEMMA OvershootStep ==
  ASSUME TypeInv, NothingLate, BoundedOvershoot, [Next]_vars
  PROVE  BoundedOvershoot'
<1> SUFFICES ASSUME NEW i \in Issues, ~row'[i].enabled
             PROVE  late'[i] + Cardinality(InFlight(i)') <= Cardinality(Workers)
  BY DEF BoundedOvershoot
<1> USE DEF TypeInv, TypeOK
<1>1. /\ IsFiniteSet(Workers) /\ Cardinality(Workers) \in Nat
      /\ InFlight(i) \subseteq Workers /\ InFlight(i)' \subseteq Workers
  BY ProcessAssumption, FS_CardinalityType DEF InFlight
<1>2. /\ IsFiniteSet(InFlight(i)) /\ Cardinality(InFlight(i)) \in Nat
      /\ Cardinality(InFlight(i)') \in Nat
      /\ Cardinality(InFlight(i)') <= Cardinality(Workers)
  BY <1>1, FS_Subset, FS_CardinalityType
<1>3. CASE row[i].enabled
  <2>1. late[i] = 0
    BY <1>3 DEF NothingLate
  <2>2. ASSUME NEW w \in Workers, ApplyFix(w), Current(w) = i
        PROVE  late'[i] = 0
    BY <1>3, <2>2 DEF ApplyFix
  <2>3. late'[i] = 0
    BY <2>1, <2>2, LateChanges
  <2> QED  BY <1>1, <1>2, <2>3
<1>4. CASE ~row[i].enabled
  <2>1. late[i] + Cardinality(InFlight(i)) <= Cardinality(Workers)
    BY <1>4 DEF BoundedOvershoot
  <2>2. InFlight(i)' \subseteq InFlight(i)
    BY <1>4, NoNewFlight
  <2>3. CASE late'[i] = late[i]
    <3>1. Cardinality(InFlight(i)') <= Cardinality(InFlight(i))
      BY <1>2, <2>2, FS_Subset
    <3> QED  BY <1>1, <1>2, <2>1, <2>3, <3>1
  <2>4. ASSUME NEW w \in Workers, ApplyFix(w), Current(w) = i
        PROVE  late'[i] + Cardinality(InFlight(i)') <= Cardinality(Workers)
    <3>1. late'[i] = late[i] + 1
      BY <1>4, <2>4 DEF ApplyFix
    <3>2. w \in InFlight(i) /\ pc'[w] = "save"
      BY <2>4 DEF ApplyFix, InFlight, Goto
    <3>3. InFlight(i)' \subseteq InFlight(i) \ {w}
      BY <2>2, <3>2 DEF InFlight
    <3>4. /\ IsFiniteSet(InFlight(i) \ {w})
          /\ Cardinality(InFlight(i) \ {w}) = Cardinality(InFlight(i)) - 1
      BY <1>2, <3>2, FS_RemoveElement
    <3>5. Cardinality(InFlight(i)') <= Cardinality(InFlight(i)) - 1
      BY <3>3, <3>4, FS_Subset
    <3> QED  BY <1>1, <1>2, <2>1, <3>1, <3>5
  <2> QED  BY <2>3, <2>4, LateChanges
<1> QED  BY <1>3, <1>4

(* After an issue is disarmed, by the breaker or by an operator, each      *)
(* worker applies its fix once more at most, for any number of workers.    *)
THEOREM OvershootIsBounded == Spec => []BoundedOvershoot
<1>1. Init => NothingLate /\ BoundedOvershoot
  <2> SUFFICES ASSUME Init  PROVE NothingLate /\ BoundedOvershoot
    OBVIOUS
  <2>1. \A i \in Issues : late[i] = 0 /\ InFlight(i) = {}
    BY DEF Init, InFlight
  <2>2. Cardinality({}) = 0 /\ Cardinality(Workers) \in Nat
    BY ProcessAssumption, FS_EmptySet, FS_CardinalityType
  <2> QED  BY <2>1, <2>2 DEF NothingLate, BoundedOvershoot
<1>2. TypeInv /\ NothingLate /\ BoundedOvershoot /\ [Next]_vars
        => (NothingLate /\ BoundedOvershoot)'
  BY NothingLateStep, OvershootStep
<1> QED  BY <1>1, <1>2, TypesInvariant, PTL DEF Spec

-----------------------------------------------------------------------------
(* The audit log.  An event that is about to be committed is a new one:    *)
(* its stamp is its own.                                                   *)
OwnStamps ==
    \A w \in Workers : pc[w] = "commit" =>
        /\ stamp[w] < clock
        /\ \A e \in events : e.at # stamp[w]
        /\ \A v \in Workers \ {w} : pc[v] = "commit" => stamp[v] # stamp[w]

NoDryRuns == \A w \in Workers : result[w] # "dry_run_only"

StampInv == OwnStamps /\ NoDryRuns

Writing(w)   == pc[w] \in {"save", "commit"}
Reporting(c) == Applying(c) /\ ~call[c].gone

(* The sessions that still write their audit event change only with the    *)
(* workers and requests that are about to.                                 *)
LEMMA UnwrittenStays ==
  ASSUME NEW i \in Issues,
         \A w \in Workers : /\ Writing(w)' <=> Writing(w)
                            /\ Writing(w) => Current(w)' = Current(w),
         \A c \in Clients : /\ Reporting(c)' <=> Reporting(c)
                            /\ Reporting(c) => call'[c].issue = call[c].issue
  PROVE  Unwritten(i)' = Unwritten(i)
BY DEF Unwritten, Writing, Reporting

(* The steps of a worker other than an apply and its commit.               *)
LEMMA QuietWorker ==
  ASSUME TypeInv, NEW w \in Workers, StartLoop(w) \/ WorkerStep(w),
         ~ApplyFix(w), ~CommitEvent(w)
  PROVE  /\ UNCHANGED <<events, attempts, lost, call>>
         /\ \A v \in Workers : /\ Writing(v)' <=> Writing(v)
                               /\ Writing(v) => Current(v)' = Current(v)
<1> USE DEF db, mutes, history, worker
<1>1. pc \in [Workers -> Stages] /\ todo \in [Workers -> Seq(Issues)]
  BY DEF TypeInv, TypeOK
<1>2. ASSUME NEW l \in Stages \ {"save", "commit"}, ~Writing(w), Goto(w, l),
             \A v \in Workers \ {w} : todo'[v] = todo[v]
      PROVE  \A v \in Workers : /\ Writing(v)' <=> Writing(v)
                                /\ Writing(v) => Current(v)' = Current(v)
  BY <1>1, <1>2 DEF Goto, Writing, Current
<1>3. CASE StartLoop(w)
  <2>1. UNCHANGED <<events, attempts, lost, call>> /\ ~Writing(w) /\ Goto(w, "gate")
    BY <1>3 DEF StartLoop, Writing
  <2>2. \A v \in Workers \ {w} : todo'[v] = todo[v]
    BY <1>1, <1>3 DEF StartLoop
  <2> QED  BY <1>2, <2>1, <2>2 DEF Stages
<1>4. CASE Gate(w)
  <2>1. UNCHANGED <<events, attempts, lost, call>> /\ ~Writing(w)
        /\ (Goto(w, "idle") \/ Goto(w, "loop"))
    BY <1>4 DEF Gate, Writing
  <2>2. \A v \in Workers \ {w} : todo'[v] = todo[v]
    BY <1>1, <1>4 DEF Gate
  <2> QED  BY <1>2, <2>1, <2>2 DEF Stages
<1>5. CASE MatchIssue(w)
  <2>1. UNCHANGED <<events, attempts, lost, call>> /\ ~Writing(w)
        /\ (Goto(w, "vet") \/ Goto(w, "loop"))
    BY <1>5 DEF MatchIssue, NextDrift, Writing
  <2>2. \A v \in Workers \ {w} : todo'[v] = todo[v]
    BY <1>1, <1>5 DEF MatchIssue, NextDrift
  <2> QED  BY <1>2, <2>1, <2>2 DEF Stages
<1>6. CASE Vet(w)
  <2>1. UNCHANGED <<events, attempts, lost, call>> /\ ~Writing(w)
        /\ (Goto(w, "apply") \/ Goto(w, "loop"))
    BY <1>6 DEF Vet, NextDrift, Writing
  <2>2. \A v \in Workers \ {w} : todo'[v] = todo[v]
    BY <1>1, <1>6 DEF Vet, NextDrift
  <2> QED  BY <1>2, <2>1, <2>2 DEF Stages
<1>7. CASE SaveEvent(w)
  <2>1. UNCHANGED <<events, attempts, lost, call>>
    BY <1>7 DEF SaveEvent
  <2>2. pc[w] = "save" /\ pc' = [pc EXCEPT ![w] = "commit"] /\ todo' = todo
    BY <1>7 DEF SaveEvent, Goto
  <2> QED  BY <1>1, <2>1, <2>2 DEF Writing, Current
<1>8. CASE CountFailures(w)
  <2>1. UNCHANGED <<events, attempts, lost, call>> /\ ~Writing(w)
        /\ (Goto(w, "clear_flag") \/ Goto(w, "loop"))
    BY <1>8 DEF CountFailures, NextDrift, Writing
  <2>2. \A v \in Workers \ {w} : todo'[v] = todo[v]
    BY <1>1, <1>8 DEF CountFailures, NextDrift
  <2> QED  BY <1>2, <2>1, <2>2 DEF Stages
<1>9. CASE ClearFlag(w)
  <2>1. UNCHANGED <<events, attempts, lost, call>> /\ ~Writing(w) /\ Goto(w, "loop")
    BY <1>9 DEF ClearFlag, NextDrift, Writing
  <2>2. \A v \in Workers \ {w} : todo'[v] = todo[v]
    BY <1>1, <1>9 DEF ClearFlag, NextDrift
  <2> QED  BY <1>2, <2>1, <2>2 DEF Stages
<1>10. CASE FinishLoop(w)
  <2>1. UNCHANGED <<events, attempts, lost, call>> /\ ~Writing(w) /\ Goto(w, "idle")
    BY <1>10 DEF FinishLoop, Writing
  <2>2. \A v \in Workers \ {w} : todo'[v] = todo[v]
    BY <1>10 DEF FinishLoop
  <2> QED  BY <1>2, <2>1, <2>2 DEF Stages
<1> QED  BY <1>3, <1>4, <1>5, <1>6, <1>7, <1>8, <1>9, <1>10 DEF WorkerStep

(* The requests of the API other than an apply and its record.             *)
LEMMA QuietClient ==
  ASSUME TypeInv, NEW c \in Clients, ClientStep(c), ~RecordApply(c),
         ~ \E i \in Issues : \E d \in Devices : ApplyByOperator(c, i, d)
  PROVE  /\ UNCHANGED <<events, attempts, lost, worker>>
         /\ \A b \in Clients : /\ Reporting(b)' <=> Reporting(b)
                               /\ Reporting(b) => call'[b].issue = call[b].issue
<1> USE DEF db, mutes, history, UnchangedByApi
<1>1. call \in [Clients \cup Importers -> Call] /\ NoCall \in Call /\ NoCall.op = "idle"
  BY NoCallType DEF TypeInv, TypeOK, NoCall
<1> USE DEF Applying
<1>2. ASSUME ~Reporting(c), NEW r, r.op \notin {"succeeded", "failed"},
             call' = [call EXCEPT ![c] = r]
      PROVE  \A b \in Clients : /\ Reporting(b)' <=> Reporting(b)
                                /\ Reporting(b) => call'[b].issue = call[b].issue
  BY <1>1, <1>2 DEF Reporting
<1>3. ASSUME ~Reporting(c), Done(c)
      PROVE  \A b \in Clients : /\ Reporting(b)' <=> Reporting(b)
                                /\ Reporting(b) => call'[b].issue = call[b].issue
  BY <1>1, <1>2, <1>3 DEF Done
<1>4. ASSUME NEW op \in {"patch", "count", "enable", "disable"}, ~Reporting(c),
             NEW i \in Issues, NEW k, Begin(c, op, i, k)
      PROVE  \A b \in Clients : /\ Reporting(b)' <=> Reporting(b)
                                /\ Reporting(b) => call'[b].issue = call[b].issue
  <2>1. [NoCall EXCEPT !.op = op, !.issue = i, !.kind = k, !.enabled = row[i].enabled,
                       !.same = row[i].kind = k].op = op
    BY <1>1 DEF Call
  <2> QED  BY <1>2, <1>4, <2>1 DEF Begin
<1>5. ASSUME NEW i \in Issues, NEW k \in Payloads, LoadForPatch(c, i, k)
      PROVE  /\ UNCHANGED <<events, attempts, lost, worker>>
             /\ ~Reporting(c) /\ Begin(c, "patch", i, k)
  BY <1>5 DEF LoadForPatch, Serving, Reporting
<1>6. ASSUME NEW i \in Issues, LoadForEnable(c, i) \/ LoadForDisable(c, i)
      PROVE  /\ UNCHANGED <<events, attempts, lost, worker>> /\ ~Reporting(c)
             /\ \E op \in {"count", "disable"} : Begin(c, op, i, "null")
  BY <1>6 DEF LoadForEnable, LoadForDisable, Serving, Reporting
<1>7. CASE WritePatch(c) \/ WriteEnable(c) \/ WriteDisable(c)
  <2>1. UNCHANGED <<events, attempts, lost, worker>> /\ ~Reporting(c) /\ Done(c)
    BY <1>7 DEF WritePatch, WriteEnable, WriteDisable, Serving, Reporting
  <2> QED  BY <1>3, <2>1
<1>8. CASE CheckConfirmed(c)
  <2>1. UNCHANGED <<events, attempts, lost, worker>> /\ ~Reporting(c)
    BY <1>8 DEF CheckConfirmed, Serving, Reporting
  <2>2. CASE call' = [call EXCEPT ![c].op = "enable"]
    BY <1>1, <2>1, <2>2 DEF Reporting, Call
  <2> QED  BY <1>3, <1>8, <2>1, <2>2 DEF CheckConfirmed
<1>9. CASE RecordRefused(c)
  <2>1. UNCHANGED <<events, attempts, lost, worker>> /\ ~Reporting(c) /\ Done(c)
    BY <1>9 DEF RecordRefused, Reporting
  <2> QED  BY <1>3, <2>1
<1> QED  BY <1>4, <1>5, <1>6, <1>7, <1>8, <1>9 DEF ClientStep

(* What remains leaves the sessions and the log alone, but for dry runs,   *)
(* prunings and crashes.                                                   *)
LEMMA QuietOthers ==
  ASSUME TypeInv,
         \/ SpendRepoll \/ UNCHANGED vars
         \/ \E c \in Importers : ImporterStep(c)
         \/ \E i \in Issues : \E k \in Payloads : CreateKnownIssue(i, k)
         \/ \E i \in Issues : \E d \in Operated : Acknowledge(d, i)
         \/ \E d \in Operated : SetDevicePaused(d) \/ MoveWindow(d)
  PROVE  /\ UNCHANGED <<events, attempts, lost, worker>>
         /\ \A b \in Clients : call'[b] = call[b]
<1> USE DEF db, mutes, history, UnchangedByApi
<1>1. ASSUME NEW c \in Importers, ImporterStep(c)
      PROVE  /\ UNCHANGED <<events, attempts, lost, worker>>
             /\ \A b \in Clients : call'[b] = call[b]
  <2>1. \E r : call' = [call EXCEPT ![c] = r]
    <3>1. ASSUME NEW i \in Issues, NEW k \in Payloads, LoadForImport(c, i, k)
          PROVE  \E r : call' = [call EXCEPT ![c] = r]
      BY <3>1 DEF LoadForImport, Begin
    <3>2. CASE WriteImport(c)
      BY <3>2 DEF WriteImport, Done
    <3> QED  BY <1>1, <3>1, <3>2 DEF ImporterStep
  <2>2. UNCHANGED <<events, attempts, lost, worker>>
    <3>1. ASSUME NEW i \in Issues, NEW k \in Payloads, LoadForImport(c, i, k)
          PROVE  UNCHANGED <<events, attempts, lost, worker>>
      BY <3>1 DEF LoadForImport
    <3>2. CASE WriteImport(c)
      BY <3>2 DEF WriteImport
    <3> QED  BY <1>1, <3>1, <3>2 DEF ImporterStep
  <2> QED  BY <1>1, <2>1, <2>2, ProcessAssumption DEF TypeInv, TypeOK
<1>2. CASE UNCHANGED vars
  BY <1>2 DEF vars
<1>3. ASSUME NEW i \in Issues, NEW k \in Payloads, CreateKnownIssue(i, k)
      PROVE  UNCHANGED <<events, attempts, lost, worker, call>>
  BY <1>3 DEF CreateKnownIssue
<1>4. ASSUME \/ SpendRepoll
             \/ \E i \in Issues : \E d \in Operated : Acknowledge(d, i)
             \/ \E d \in Operated : SetDevicePaused(d) \/ MoveWindow(d)
      PROVE  UNCHANGED <<events, attempts, lost, worker, call>>
  BY <1>4 DEF SpendRepoll, Acknowledge, SetDevicePaused, MoveWindow
<1> QED  BY <1>1, <1>2, <1>3, <1>4

(* Every step keeps the stamps apart.                                      *)
LEMMA StampStep ==
  ASSUME TypeInv, GateInv, OwnStamps, [Next]_vars
  PROVE  OwnStamps'
<1> USE DEF TypeInv, TypeOK, OwnStamps
<1>1. \A e \in events : e.at < clock
  BY DEF GateInv, LogInv
<1>2. CASE UNCHANGED <<events, clock>>
  <2>1. ASSUME NEW w \in Workers, pc'[w] = "commit"
        PROVE  pc[w] = "commit" /\ stamp'[w] = stamp[w]
    <3>1. ~SaveEvent(w)
      BY <1>2 DEF SaveEvent
    <3>2. ~StartLoop(w) /\ ~Gate(w) /\ ~MatchIssue(w) /\ ~Vet(w) /\ ~ApplyFix(w)
      BY <2>1 DEF StartLoop, Gate, MatchIssue, Vet, ApplyFix, NextDrift, Goto
    <3>3. ~CommitEvent(w) /\ ~CountFailures(w) /\ ~ClearFlag(w) /\ ~FinishLoop(w)
      BY <2>1 DEF CommitEvent, CountFailures, ClearFlag, FinishLoop, NextDrift, Goto
    <3> QED  BY <2>1, <3>1, <3>2, <3>3, WorkersMove DEF WorkerStep
  <2> QED  BY <1>2, <2>1
<1>3. ASSUME NEW w \in Workers, SaveEvent(w)
      PROVE  OwnStamps'
  <2>1. /\ events' = events /\ clock' = clock + 1
        /\ stamp' = [stamp EXCEPT ![w] = clock] /\ pc' = [pc EXCEPT ![w] = "commit"]
    BY <1>3 DEF SaveEvent, Goto
  <2>2. \A e \in events : e.at \in Nat
    BY DEF Event
  <2> QED  BY <1>1, <2>1, <2>2
<1>4. ASSUME NEW w \in Workers, CommitEvent(w)
      PROVE  OwnStamps'
  <2>1. /\ clock' = clock /\ stamp' = [stamp EXCEPT ![w] = 0] /\ pc[w] = "commit"
        /\ \E e : e.at = stamp[w] /\ events' = events \cup {e}
    BY <1>4 DEF CommitEvent
  <2>2. pc' = [pc EXCEPT ![w] = "count_failures"] \/ pc' = [pc EXCEPT ![w] = "loop"]
    BY <1>4 DEF CommitEvent, Goto, NextDrift
  <2> QED  BY <2>1, <2>2
<1>5. ASSUME UNCHANGED <<pc, stamp>>, clock' = clock + 1,
             NEW e, e.at = clock, events' = events \cup {e}
      PROVE  OwnStamps'
  BY <1>5
<1>6. ASSUME NEW c \in Clients, RecordApply(c)
      PROVE  OwnStamps'
  <2> DEFINE e == [issue |-> call[c].issue, by |-> "api", at |-> clock,
                   result |-> IF call[c].op = "succeeded" THEN "success" ELSE "failure"]
  <2>1. UNCHANGED <<pc, stamp>> /\ clock' = clock + 1 /\ events' = events \cup {e}
    BY <1>6 DEF RecordApply, worker
  <2>2. e.at = clock
    OBVIOUS
  <2> HIDE DEF e
  <2> QED  BY <1>5, <2>1, <2>2
<1>7. ASSUME NEW i \in Issues, NEW d \in Devices, DryRun(i, d)
      PROVE  OwnStamps'
  <2>1. /\ UNCHANGED <<pc, stamp>> /\ clock' = clock + 1
        /\ \E e : e.at = clock /\ events' = events \cup {e}
    BY <1>7 DEF DryRun, UnchangedByApi, worker
  <2> QED  BY <1>5, <2>1
<1> QED  BY <1>2, <1>3, <1>4, <1>6, <1>7, LogChanges

(* The scheduler never attempts a dry run.                                 *)
LEMMA NoDryRunsStep ==
  ASSUME TypeInv, NoDryRuns, [Next]_vars
  PROVE  NoDryRuns'
<1> SUFFICES ASSUME NEW w \in Workers  PROVE result'[w] # "dry_run_only"
  BY DEF NoDryRuns
<1> USE DEF TypeInv, TypeOK, NoDryRuns
<1>1. CASE StartLoop(w) \/ Gate(w) \/ MatchIssue(w) \/ Vet(w)
  BY <1>1 DEF StartLoop, Gate, MatchIssue, Vet
<1>2. CASE ApplyFix(w) \/ SaveEvent(w) \/ CommitEvent(w)
  BY <1>2 DEF ApplyFix, SaveEvent, CommitEvent
<1>3. CASE CountFailures(w) \/ ClearFlag(w) \/ FinishLoop(w)
  BY <1>3 DEF CountFailures, ClearFlag, FinishLoop
<1>4. CASE SchedulerCrash \/ ApiCrash
  BY <1>4 DEF SchedulerCrash, ApiCrash, Kill
<1> QED  BY <1>1, <1>2, <1>3, <1>4, WorkersMove DEF WorkerStep

LEMMA StampInvariant == Spec => []StampInv
<1>1. Init => StampInv
  BY DEF Init, StampInv, OwnStamps, NoDryRuns
<1>2. TypeInv /\ GateInv /\ StampInv /\ [Next]_vars => StampInv'
  BY StampStep, NoDryRunsStep DEF StampInv
<1> QED  BY <1>1, <1>2, TypesInvariant, GateInvariant, PTL DEF Spec

(* The sets that are counted are finite.                                   *)
LEMMA LogIsFinite ==
  ASSUME GateInv, NEW i \in Issues
  PROVE  /\ IsFiniteSet(Recorded(i)) /\ Cardinality(Recorded(i)) \in Nat
         /\ IsFiniteSet(Unwritten(i)) /\ Cardinality(Unwritten(i)) \in Nat
<1>1. Recorded(i) \subseteq events /\ IsFiniteSet(events)
  BY DEF Recorded, GateInv, LogInv
<1>2. Unwritten(i) \subseteq Workers \cup Clients /\ IsFiniteSet(Workers \cup Clients)
  BY ProcessAssumption, FS_Union DEF Unwritten
<1> QED  BY <1>1, <1>2, FS_Subset, FS_CardinalityType

(* Every session has its audit event, is about to write it, or is lost.    *)
Balanced(i) == attempts[i] = Cardinality(Recorded(i)) + Cardinality(Unwritten(i)) + lost[i]

(* A session opened for an issue is one more that nothing is written of.   *)
LEMMA SessionOpens ==
  ASSUME TypeInv, GateInv, NEW i \in Issues, NEW j \in Issues, NEW x,
         attempts' = [attempts EXCEPT ![j] = @ + 1], events' = events, lost' = lost,
         Balanced(i), x \notin Unwritten(i),
         Unwritten(i)' = IF i = j THEN Unwritten(i) \cup {x} ELSE Unwritten(i)
  PROVE  Balanced(i)'
<1>1. /\ Recorded(i)' = Recorded(i)
      /\ attempts \in [Issues -> Nat] /\ lost \in [Issues -> Nat]
  BY DEF Recorded, TypeInv, TypeOK
<1>2. Cardinality(Unwritten(i) \cup {x}) = Cardinality(Unwritten(i)) + 1
  BY LogIsFinite, FS_AddElement
<1> QED  BY <1>1, <1>2, LogIsFinite DEF Balanced

(* An audit event that is new takes one session off those.                 *)
LEMMA EventIsWritten ==
  ASSUME TypeInv, GateInv, NEW i \in Issues, NEW e, NEW x,
         attempts' = attempts, events' = events \cup {e}, lost' = lost, e \notin events,
         e.result # "dry_run_only", Balanced(i),
         e.issue = i => x \in Unwritten(i),
         Unwritten(i)' = IF e.issue = i THEN Unwritten(i) \ {x} ELSE Unwritten(i)
  PROVE  Balanced(i)'
<1>1. CASE e.issue = i
  <2>1. Recorded(i)' = Recorded(i) \cup {e} /\ e \notin Recorded(i)
    BY <1>1 DEF Recorded
  <2>2. Cardinality(Recorded(i) \cup {e}) = Cardinality(Recorded(i)) + 1
    BY <2>1, LogIsFinite, FS_AddElement
  <2>3. Cardinality(Unwritten(i) \ {x}) = Cardinality(Unwritten(i)) - 1
    BY <1>1, LogIsFinite, FS_RemoveElement
  <2>4. lost \in [Issues -> Nat]
    BY DEF TypeInv, TypeOK
  <2> QED  BY <1>1, <2>1, <2>2, <2>3, <2>4, LogIsFinite DEF Balanced
<1>2. CASE e.issue # i
  <2>1. Recorded(i)' = Recorded(i)
    BY <1>2 DEF Recorded
  <2> QED  BY <1>2, <2>1 DEF Balanced
<1> QED  BY <1>1, <1>2

(* What a crash or a pruning cuts off moves from those about to write to   *)
(* those lost.                                                             *)
LEMMA SessionsAreLost ==
  ASSUME TypeInv, GateInv, NEW i \in Issues, NEW S,
         attempts' = attempts, events' = events, Balanced(i),
         lost'[i] = lost[i] + Cardinality(Unwritten(i) \cap S),
         Unwritten(i)' = Unwritten(i) \ S
  PROVE  Balanced(i)'
<1>1. /\ Recorded(i)' = Recorded(i) /\ lost \in [Issues -> Nat]
  BY DEF Recorded, TypeInv, TypeOK
<1>2. /\ Cardinality(Unwritten(i) \ S)
           = Cardinality(Unwritten(i)) - Cardinality(Unwritten(i) \cap S)
      /\ Cardinality(Unwritten(i) \cap S) \in Nat
  <2>1. IsFiniteSet(Unwritten(i)) /\ IsFiniteSet(Unwritten(i) \cap S)
    BY LogIsFinite, FS_Intersection
  <2> QED  BY <2>1, FS_Difference, FS_CardinalityType
<1> QED  BY <1>1, <1>2, LogIsFinite DEF Balanced

(* Every step keeps the audit log complete.                                *)
LEMMA AuditStep ==
  ASSUME TypeInv, GateInv, StampInv, AuditTrail, [Next]_vars
  PROVE  AuditTrail'
<1> SUFFICES ASSUME NEW i \in Issues  PROVE Balanced(i)'
  BY DEF AuditTrail, Balanced
<1> USE DEF Applying
<1>2. Balanced(i)
  BY DEF AuditTrail, Balanced
<1>3. ASSUME UNCHANGED <<events, attempts, lost>>, Unwritten(i)' = Unwritten(i)
      PROVE  Balanced(i)'
  <2>1. Recorded(i)' = Recorded(i)
    BY <1>3 DEF Recorded
  <2> QED  BY <1>2, <1>3, <2>1 DEF Balanced
<1>4. ASSUME NEW w \in Workers, StartLoop(w) \/ WorkerStep(w)
      PROVE  Balanced(i)'
  <2> USE DEF db, mutes, history, worker
  <2>1. CASE ~ApplyFix(w) /\ ~CommitEvent(w)
    <3>1. /\ UNCHANGED <<events, attempts, lost, call>>
          /\ \A v \in Workers : /\ Writing(v)' <=> Writing(v)
                                /\ Writing(v) => Current(v)' = Current(v)
      BY <1>4, <2>1, QuietWorker
    <3>2. \A c \in Clients : /\ Reporting(c)' <=> Reporting(c)
                             /\ Reporting(c) => call'[c].issue = call[c].issue
      BY <3>1 DEF Reporting
    <3> QED  BY <1>3, <3>1, <3>2, UnwrittenStays
  <2>2. CASE ApplyFix(w)
    <3>1. /\ lost' = lost /\ events' = events /\ todo' = todo /\ call' = call
          /\ pc' = [pc EXCEPT ![w] = "save"] /\ pc[w] = "apply"
          /\ attempts' = [attempts EXCEPT ![Current(w)] = @ + 1]
      BY <2>2 DEF ApplyFix, Goto
    <3>2. Current(w) \in Issues
      BY <3>1, CurrentType DEF TypeInv, TypeOK, HoldsDrift, Holding
    <3>3. pc \in [Workers -> Stages] /\ w \notin Clients
      BY ProcessAssumption DEF TypeInv, TypeOK
    <3>4. w \notin Unwritten(i)
      BY <3>1, <3>3 DEF Unwritten
    <3>5. Unwritten(i)' = IF i = Current(w) THEN Unwritten(i) \cup {w} ELSE Unwritten(i)
      BY <3>1, <3>3 DEF Unwritten, Current
    <3> QED  BY <1>2, <3>1, <3>2, <3>4, <3>5, SessionOpens
  <2>3. CASE CommitEvent(w)
    <3> DEFINE e == [issue |-> Current(w), by |-> "scheduler", result |-> result[w],
                     at |-> stamp[w]]
    <3>1. /\ lost' = lost /\ events' = events \cup {e} /\ call' = call
          /\ pc[w] = "commit" /\ attempts' = attempts
      BY <2>3 DEF CommitEvent
    <3>2. e \notin events /\ e.result # "dry_run_only" /\ e.issue = Current(w)
      BY <3>1 DEF StampInv, OwnStamps, NoDryRuns
    <3>3. /\ pc \in [Workers -> Stages] /\ todo \in [Workers -> Seq(Issues)]
          /\ w \notin Clients
      BY ProcessAssumption DEF TypeInv, TypeOK
    <3>4. /\ pc' = [pc EXCEPT ![w] = "count_failures"] \/ pc' = [pc EXCEPT ![w] = "loop"]
          /\ \A v \in Workers \ {w} : todo'[v] = todo[v]
      BY <2>3, <3>3 DEF CommitEvent, Goto, NextDrift
    <3>5. Unwritten(i)' = IF Current(w) = i THEN Unwritten(i) \ {w} ELSE Unwritten(i)
      BY <3>1, <3>3, <3>4 DEF Unwritten, Current
    <3>6. Current(w) = i => w \in Unwritten(i)
      BY <3>1 DEF Unwritten
    <3> HIDE DEF e
    <3> QED  BY <1>2, <3>1, <3>2, <3>5, <3>6, EventIsWritten
  <2> QED  BY <2>1, <2>2, <2>3
<1>5. ASSUME NEW c \in Clients, ClientStep(c)
      PROVE  Balanced(i)'
  <2> USE DEF db, mutes, history, worker, UnchangedByApi
  <2>0. call \in [Clients \cup Importers -> Call] /\ NoCall \in Call /\ NoCall.op = "idle"
        /\ c \notin Workers
    BY NoCallType, ProcessAssumption DEF TypeInv, TypeOK, NoCall
  <2>1. CASE /\ ~RecordApply(c)
             /\ ~ \E j \in Issues : \E d \in Devices : ApplyByOperator(c, j, d)
    BY <1>3, <1>5, <2>1, QuietClient, UnwrittenStays DEF Writing, Current
  <2>2. ASSUME NEW j \in Issues, NEW d \in Devices, ApplyByOperator(c, j, d)
        PROVE  Balanced(i)'
    <3>1. /\ lost' = lost /\ UNCHANGED <<events, pc, todo>> /\ call[c].op = "idle"
          /\ attempts' = [attempts EXCEPT ![j] = @ + 1]
      BY <2>2 DEF ApplyByOperator, Serving
    <3>2. PICK op \in {"succeeded", "failed"} :
             call' = [call EXCEPT ![c] = [NoCall EXCEPT !.op = op, !.issue = j, !.device = d]]
      BY <2>2 DEF ApplyByOperator
    <3>3. call'[c].op = op /\ call'[c].issue = j /\ ~call'[c].gone
      BY <2>0, <3>2 DEF Call, NoCall
    <3>4. \A b \in Clients \ {c} : call'[b] = call[b]
      BY <2>0, <3>2
    <3>5. c \notin Unwritten(i)
      BY <2>0, <3>1 DEF Unwritten
    <3>6. Unwritten(i)' = IF i = j THEN Unwritten(i) \cup {c} ELSE Unwritten(i)
      BY <3>1, <3>3, <3>4 DEF Unwritten, Current
    <3> QED  BY <1>2, <3>1, <3>5, <3>6, SessionOpens
  <2>3. CASE RecordApply(c)
    <3> DEFINE e == [issue |-> call[c].issue, by |-> "api", at |-> clock,
                     result |-> IF call[c].op = "succeeded" THEN "success" ELSE "failure"]
    <3>1. /\ lost' = lost /\ UNCHANGED <<attempts, pc, todo>> /\ events' = events \cup {e}
          /\ Applying(c) /\ ~call[c].gone
          /\ call' = [call EXCEPT ![c] = NoCall]
      BY <2>3 DEF RecordApply, Done
    <3>2. e \notin events /\ e.result # "dry_run_only" /\ e.issue = call[c].issue
      <4>1. \A f \in events : f.at < clock /\ f.at \in Nat
        BY DEF GateInv, LogInv, TypeInv, TypeOK, Event
      <4>2. e.at = clock /\ clock \in Nat
        BY DEF TypeInv, TypeOK
      <4> QED  BY <4>1, <4>2
    <3>3. Unwritten(i)' = IF call[c].issue = i THEN Unwritten(i) \ {c} ELSE Unwritten(i)
      BY <2>0, <3>1 DEF Unwritten, Current
    <3>4. call[c].issue = i => c \in Unwritten(i)
      BY <3>1 DEF Unwritten
    <3> HIDE DEF e
    <3> QED  BY <1>2, <3>1, <3>2, <3>3, <3>4, EventIsWritten
  <2> QED  BY <2>1, <2>2, <2>3
<1>6. ASSUME NEW j \in Issues, NEW d \in Devices, DryRun(j, d)
      PROVE  Balanced(i)'
  <2> DEFINE e == [issue |-> j, by |-> "api", result |-> "dry_run_only", at |-> clock]
  <2>1. /\ lost' = lost /\ UNCHANGED <<attempts, pc, todo, call>> /\ events' = events \cup {e}
    BY <1>6 DEF DryRun, UnchangedByApi, history, worker
  <2>2. Recorded(i)' = Recorded(i) /\ Unwritten(i)' = Unwritten(i)
    BY <2>1 DEF Recorded, Unwritten, Current
  <2> QED  BY <1>2, <2>1, <2>2 DEF Balanced
<1>7. ASSUME \/ SpendRepoll \/ UNCHANGED vars
             \/ \E c \in Importers : ImporterStep(c)
             \/ \E j \in Issues : \E k \in Payloads : CreateKnownIssue(j, k)
             \/ \E j \in Issues : \E d \in Operated : Acknowledge(d, j)
             \/ \E d \in Operated : SetDevicePaused(d) \/ MoveWindow(d)
      PROVE  Balanced(i)'
  BY <1>3, <1>7, QuietOthers, UnwrittenStays DEF Writing, Reporting, Current, worker
<1>8. ASSUME NEW c \in Clients, PruneDrift(c)
      PROVE  Balanced(i)'
  <2> USE DEF db, mutes, history, worker, UnchangedByApi
  <2>1. /\ UNCHANGED <<events, attempts, pc, todo>> /\ Applying(c) /\ ~call[c].gone
        /\ call' = [call EXCEPT ![c].gone = TRUE]
        /\ lost' = [lost EXCEPT ![call[c].issue] = @ + 1]
    BY <1>8 DEF PruneDrift
  <2>2. call \in [Clients \cup Importers -> Call] /\ lost \in [Issues -> Nat]
        /\ c \notin Workers
    BY ProcessAssumption DEF TypeInv, TypeOK
  <2>3. Unwritten(i)' = Unwritten(i) \ {c}
    BY <2>1, <2>2 DEF Unwritten, Current, Applying, Call
  <2>4. Unwritten(i) \cap {c} = IF call[c].issue = i THEN {c} ELSE {}
    BY <2>1, <2>2 DEF Unwritten
  <2>5. lost'[i] = lost[i] + Cardinality(Unwritten(i) \cap {c})
    <3>1. Cardinality({c}) = 1 /\ Cardinality({}) = 0
      BY FS_Singleton, FS_EmptySet
    <3>2. lost'[i] = lost[i] + (IF call[c].issue = i THEN 1 ELSE 0)
      BY <2>1, <2>2
    <3> QED  BY <2>4, <3>1, <3>2
  <2> QED  BY <1>2, <2>1, <2>3, <2>5, SessionsAreLost
<1>9. CASE SchedulerCrash \/ ApiCrash
  <2>1. \E W \in SUBSET (Workers \cup Clients) :
           /\ \E job : Kill(W, job)
           /\ \A c \in Clients : call'[c] = IF c \in W THEN NoCall ELSE call[c]
    <3>1. call \in [Clients \cup Importers -> Call]
      BY DEF TypeInv, TypeOK
    <3>2. CASE SchedulerCrash
      <4>1. \A c \in Clients : c \notin {w \in Workers : ~InApi(w)}
        BY ProcessAssumption
      <4> QED  BY <3>2, <4>1 DEF SchedulerCrash
    <3>3. CASE ApiCrash
      <4>1. \A c \in Clients : c \in {w \in Workers : InApi(w)} \cup Clients
        OBVIOUS
      <4> QED  BY <3>1, <3>3, <4>1 DEF ApiCrash
    <3> QED  BY <1>9, <3>2, <3>3
  <2>2. PICK W \in SUBSET (Workers \cup Clients) :
           /\ \E job : Kill(W, job)
           /\ \A c \in Clients : call'[c] = IF c \in W THEN NoCall ELSE call[c]
    BY <2>1
  <2>3. PICK job : Kill(W, job)
    BY <2>2
  <2>4. /\ UNCHANGED <<events, attempts>>
        /\ lost'[i] = lost[i] + Cardinality(Unwritten(i) \cap W)
        /\ pc' = [w \in Workers |-> IF w \in W THEN "idle" ELSE pc[w]]
        /\ todo' = [w \in Workers |-> IF w \in W THEN <<>> ELSE todo[w]]
    BY <2>3 DEF Kill, db
  <2>5. NoCall.op = "idle"
    BY DEF NoCall
  <2>6. Unwritten(i)' = Unwritten(i) \ W
    BY <2>2, <2>4, <2>5 DEF Unwritten, Current, Applying
  <2> QED  BY <1>2, <2>4, <2>6, SessionsAreLost
<1> QED  BY <1>4, <1>5, <1>6, <1>7, <1>8, <1>9 DEF Next

(* Every device session has exactly one audit event, is about to write it, *)
(* or was cut off from it by a crash or a pruning, for any number of       *)
(* workers and requests.                                                   *)
THEOREM AuditIsComplete == Spec => []AuditTrail
<1>1. Init => AuditTrail
  <2> SUFFICES ASSUME Init, NEW i \in Issues
               PROVE  attempts[i] = Cardinality(Recorded(i)) + Cardinality(Unwritten(i)) + lost[i]
    BY DEF AuditTrail
  <2>1. Recorded(i) = {} /\ Unwritten(i) = {} /\ attempts[i] = 0 /\ lost[i] = 0
    BY DEF Init, Recorded, Unwritten, NoCall, Applying
  <2> QED  BY <2>1, FS_EmptySet
<1>2. TypeInv /\ GateInv /\ StampInv /\ AuditTrail /\ [Next]_vars => AuditTrail'
  BY AuditStep
<1> QED  BY <1>1, <1>2, TypesInvariant, GateInvariant, StampInvariant, PTL DEF Spec
=============================================================================

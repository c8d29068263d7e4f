------------------------------ MODULE AutoApply ------------------------------
(***************************************************************************)
(* Unattended remediation: the scheduler's auto-apply loop (auto_apply.py) *)
(* running in several threads at once beside the API endpoints that edit,  *)
(* arm, disarm and manually apply the same known issues (api/app.py), and  *)
(* beside the pattern importer.  They share one Postgres database (READ    *)
(* COMMITTED): every action below is one statement or one transaction.     *)
(*                                                                         *)
(* A fingerprint has at most one known_issues row, so a row, its id and    *)
(* its fingerprint are one value, a member of Issues.  A payload is known  *)
(* by its kind.  Time enters as the stamp applied_at of an audit event.    *)
(***************************************************************************)
EXTENDS Integers, Sequences, FiniteSets

CONSTANTS
    Issues,       \* fingerprints, which name the known_issues rows
    Devices,
    Supported,    \* the devices whose platform has a registered applier
    Workers,      \* threads that may run a drift check
    DeviceOf,     \* the device a worker checks
    Trigger,      \* what starts a worker: see Triggers
    Clients,      \* threads of the API's pool serving mutating requests
    Importers,    \* processes running `driftcheck import-patterns`
    CONFIRM_THRESHOLD,
    FAILURE_THRESHOLD,
    AutoRemediationEnabled,   \* the AUTO_REMEDIATION_ENABLED environment switch
    Endpoints,    \* the API endpoints that are called
    Payloads,     \* the payload kinds that requests and imports carry
    Operated,     \* the devices that are ever paused, acknowledged or in a window
    MaxDrifts,    \* bound: drift records in one check
    MaxEvents,    \* bound: audit events ever stamped
    MaxCrashes,   \* bound: process crashes
    MaxLost       \* bound: drift events of an issue pruned beneath a running fix

Triggers == {"interval", "syslog", "repoll", "api_repoll"}
Repolls  == {"repoll", "api_repoll"}
AllEndpoints == {"create", "patch", "enable", "disable", "apply", "dry_run"}
Kinds    == {"restore_intent", "raw_snippet", "null"}

ASSUME CoreAssumption ==
    /\ Issues # {} /\ Devices # {}
    /\ Supported \subseteq Devices /\ Operated \subseteq Devices
    /\ Endpoints \subseteq AllEndpoints /\ Payloads \subseteq Kinds
    /\ DeviceOf \in [Workers -> Devices]
    /\ Trigger \in [Workers -> Triggers]
    /\ CONFIRM_THRESHOLD \in Nat
    /\ FAILURE_THRESHOLD \in Nat \ {0}
    /\ AutoRemediationEnabled \in BOOLEAN
    /\ MaxDrifts \in Nat /\ MaxEvents \in Nat /\ MaxCrashes \in Nat /\ MaxLost \in Nat

ASSUME ProcessAssumption ==
    /\ Clients \cap Importers = {} /\ Clients \cap Workers = {}
    /\ IsFiniteSet(Clients) /\ IsFiniteSet(Workers)

VARIABLES
    row,       \* known_issues: kind of the payload and auto_apply_enabled
    events,    \* remediation_events, committed rows only
    clock,     \* the next applied_at
    paused,    \* devices with auto_remediation_paused
    window,    \* devices inside an active maintenance window
    acked,     \* (device, fingerprint) with an active acknowledgement
    pc,        \* where each worker is in run_auto_apply
    todo,      \* the drift records (their fingerprints) it has still to handle
    kind,      \* payload kind of the row it matched
    result,    \* outcome of its apply, not yet written
    stamp,     \* applied_at of its flushed, uncommitted event
    won,       \* whether an apply of this loop succeeded
    repolls,   \* <<process, device>> with one or more one-shot re-polls pending
    call,      \* the request each client or importer is serving
    crashes,   \* number of process crashes
    rearmed,   \* history: issues armed, or hit by a crash, since their last
               \* scheduler failure
    late,      \* history: scheduler applies since the flag was cleared
    attempts,  \* history: device sessions opened to apply an issue
    lost       \* history: those of them that a crash or a pruning cut off
               \* from their audit event

db      == <<row, events, clock>>
mutes   == <<paused, window, acked>>
worker  == <<pc, todo, kind, result, stamp, won>>
history == <<rearmed, late, attempts, lost>>
vars    == <<db, mutes, worker, repolls, call, crashes, history>>

-----------------------------------------------------------------------------
(* The database.                                                           *)

Results == {"success", "failure", "blocked", "dry_run_only"}
Row     == [kind : Kinds \cup {"absent"}, enabled : BOOLEAN]
Event   == [issue : Issues, by : {"scheduler", "api"}, result : Results, at : Nat]

Absent     == [kind |-> "absent", enabled |-> FALSE]
Exists(i)  == row[i].kind # "absent"

(* confirmed_count: every success counts, whoever applied it. *)
Successes(i)   == {e \in events : e.issue = i /\ e.result = "success"}
Confirmed(i)   == Cardinality(Successes(i)) >= CONFIRM_THRESHOLD

SchedulerRuns(i, r) ==
    {e \in events : e.issue = i /\ e.by = "scheduler" /\ e.result = r}

(* The scheduler failures of an issue that no scheduler success follows.   *)
TrailingFailures(i) ==
    {f \in SchedulerRuns(i, "failure") :
        \A s \in SchedulerRuns(i, "success") : s.at < f.at}

(* _consecutive_failures(...) >= FAILURE_THRESHOLD: the code looks at the  *)
(* last FAILURE_THRESHOLD outcomes only and counts the leading failures.   *)
Tripped(i) == Cardinality(TrailingFailures(i)) >= FAILURE_THRESHOLD

-----------------------------------------------------------------------------
(* Requests.  SQLAlchemy emits an UPDATE only for an attribute that        *)
(* differs from the value the handler loaded, so a request remembers the   *)
(* flag it loaded and whether the payload it loaded was of its own kind.   *)
(* gone: the drift event that an apply names was deleted meanwhile.        *)

Ops == {"idle", "patch", "count", "enable", "disable", "insert", "update",
        "succeeded", "failed"}
Call == [op : Ops, issue : Issues, device : Devices, kind : Kinds,
         enabled : BOOLEAN, same : BOOLEAN, gone : BOOLEAN]

NoCall == [op |-> "idle", issue |-> CHOOSE i \in Issues : TRUE,
           device |-> CHOOSE d \in Devices : TRUE, kind |-> "null",
           enabled |-> FALSE, same |-> FALSE, gone |-> FALSE]

Begin(c, op, i, k)  == call' = [call EXCEPT ![c] =
                          [NoCall EXCEPT !.op = op, !.issue = i, !.kind = k,
                                         !.enabled = row[i].enabled,
                                         !.same = row[i].kind = k]]
Done(c)             == call' = [call EXCEPT ![c] = NoCall]
Serving(c, op)      == call[c].op = op

(* The bound on audit events: nothing new is attempted once those written  *)
(* and those about to be written reach it.                                 *)
Room == clock + Cardinality({w \in Workers : pc[w] = "save"})
              + Cardinality({c \in Clients : call[c].op \in {"succeeded", "failed"}})
            < MaxEvents

-----------------------------------------------------------------------------
Init ==
    /\ row = [i \in Issues |-> Absent]
    /\ events = {}
    /\ clock = 0
    /\ paused = {} /\ window = {} /\ acked = {}
    /\ pc = [w \in Workers |-> "idle"]
    /\ todo = [w \in Workers |-> <<>>]
    /\ kind = [w \in Workers |-> "null"]
    /\ result = [w \in Workers |-> "blocked"]
    /\ stamp = [w \in Workers |-> 0]
    /\ won = [w \in Workers |-> FALSE]
    /\ repolls = {}
    /\ call = [c \in Clients \cup Importers |-> NoCall]
    /\ crashes = 0
    /\ rearmed = Issues
    /\ late = [i \in Issues |-> 0]
    /\ attempts = [i \in Issues |-> 0]
    /\ lost = [i \in Issues |-> 0]

-----------------------------------------------------------------------------
(* run_auto_apply                                                          *)

Current(w) == Head(todo[w])
Goto(w, l) == pc' = [pc EXCEPT ![w] = l]

(* One of the pending jobs is spent; it need not be the last.              *)
SpendJob(p) == repolls' \in {repolls, repolls \ {p}}

(* A drift check found and stored drift and calls run_auto_apply.  An      *)
(* interval job and a syslog trigger may start one at any time, a re-poll  *)
(* only when its one-shot job is pending.                                  *)
StartLoop(w) ==
    /\ AutoRemediationEnabled
    /\ pc[w] = "idle"
    /\ \E n \in 1..MaxDrifts : \E ds \in [1..n -> Issues] :
          todo' = [todo EXCEPT ![w] = ds]
    /\ Goto(w, "gate")
    /\ IF Trigger[w] \in Repolls
       THEN \E p \in repolls : p = <<Trigger[w], DeviceOf[w]>> /\ SpendJob(p)
       ELSE UNCHANGED repolls
    /\ UNCHANGED <<db, mutes, kind, result, stamp, won, call, crashes, history>>

(* A one-shot re-poll misses its 30 s grace, or finds no drift.            *)
SpendRepoll ==
    \E p \in repolls :
        /\ SpendJob(p)
        /\ UNCHANGED <<db, mutes, worker, call, crashes, history>>

(* The pause and then the windows are read, once, before the first drift.  *)
Gate(w) ==
    /\ pc[w] = "gate"
    /\ IF DeviceOf[w] \in paused \cup window
       THEN Goto(w, "idle") /\ todo' = [todo EXCEPT ![w] = <<>>]
       ELSE Goto(w, "loop") /\ UNCHANGED todo
    /\ UNCHANGED <<db, mutes, kind, result, stamp, won, repolls, call, crashes, history>>

(* continue: on to the next drift record. *)
NextDrift(w) == Goto(w, "loop") /\ todo' = [todo EXCEPT ![w] = Tail(@)]

\* Mutant: the auto_apply_enabled filter is forgotten.
MatchAnyIssue(w) ==
    /\ pc[w] = "loop" /\ todo[w] # <<>>
    /\ Goto(w, "vet") /\ UNCHANGED todo
    /\ kind' = [kind EXCEPT ![w] = row[Current(w)].kind]
    /\ UNCHANGED <<db, mutes, result, stamp, won, repolls, call, crashes, history>>

(* Look up the armed issue with the drift's fingerprint: one SELECT returns *)
(* the flag and the payload together.                                       *)
MatchIssue(w) ==
    /\ pc[w] = "loop" /\ todo[w] # <<>>
    /\ IF row[Current(w)].enabled
       THEN /\ Goto(w, "vet") /\ UNCHANGED todo
            /\ kind' = [kind EXCEPT ![w] = row[Current(w)].kind]
       ELSE NextDrift(w) /\ UNCHANGED kind
    /\ UNCHANGED <<db, mutes, result, stamp, won, repolls, call, crashes, history>>

(* Acknowledged drift, a payload that is not restore_intent and a platform *)
(* without an applier are skipped, without an audit event.                 *)
Vet(w) ==
    /\ pc[w] = "vet"
    /\ kind' = [kind EXCEPT ![w] = "null"]
    /\ IF /\ <<DeviceOf[w], Current(w)>> \notin acked
          /\ kind[w] = "restore_intent"
          /\ DeviceOf[w] \in Supported
       THEN Goto(w, "apply") /\ UNCHANGED todo
       ELSE NextDrift(w)
    /\ UNCHANGED <<db, mutes, result, stamp, won, repolls, call, crashes, history>>

(* The applier opens the device session; it returns, refuses the drift     *)
(* (RemediationBlockedError) or fails in any other way.                    *)
ApplyFix(w) ==
    /\ pc[w] = "apply" /\ Room
    /\ \E r \in {"success", "failure", "blocked"} :
          result' = [result EXCEPT ![w] = r]
    /\ Goto(w, "save")
    /\ late' = [late EXCEPT ![Current(w)] = IF row[Current(w)].enabled THEN 0 ELSE @ + 1]
    /\ attempts' = [attempts EXCEPT ![Current(w)] = @ + 1]
    /\ UNCHANGED <<db, mutes, todo, kind, stamp, won, repolls, call, crashes, rearmed, lost>>

(* save_remediation_event: stamped and flushed, invisible until commit.    *)
SaveEvent(w) ==
    /\ pc[w] = "save"
    /\ stamp' = [stamp EXCEPT ![w] = clock]
    /\ clock' = clock + 1
    /\ Goto(w, "commit")
    /\ UNCHANGED <<row, events, mutes, todo, kind, result, won, repolls, call, crashes, history>>

\* Mutant: a refused drift leaves no audit event.
CommitUnlessBlocked(w) ==
    /\ pc[w] = "commit"
    /\ events' = IF result[w] = "blocked" THEN events
                 ELSE events \cup {[issue |-> Current(w), by |-> "scheduler",
                                    result |-> result[w], at |-> stamp[w]]}
    /\ stamp' = [stamp EXCEPT ![w] = 0]
    /\ result' = [result EXCEPT ![w] = "blocked"]
    /\ NextDrift(w)
    /\ UNCHANGED <<row, clock, mutes, kind, won, repolls, call, crashes, history>>

CommitEvent(w) ==
    /\ pc[w] = "commit"
    /\ events' = events \cup {[issue |-> Current(w), by |-> "scheduler",
                               result |-> result[w], at |-> stamp[w]]}
    /\ won' = [won EXCEPT ![w] = @ \/ result[w] = "success"]
    /\ result' = [result EXCEPT ![w] = "blocked"]
    /\ stamp' = [stamp EXCEPT ![w] = 0]
    /\ IF result[w] = "failure"
       THEN /\ Goto(w, "count_failures") /\ UNCHANGED todo
            /\ rearmed' = rearmed \ {Current(w)}
       ELSE NextDrift(w) /\ UNCHANGED rearmed
    /\ UNCHANGED <<row, clock, mutes, kind, repolls, call, crashes, late, attempts, lost>>

\* Mutant: the threshold is exceeded, not reached.
CountFailuresOffByOne(w) ==
    /\ pc[w] = "count_failures"
    /\ IF Cardinality(TrailingFailures(Current(w))) > FAILURE_THRESHOLD
       THEN Goto(w, "clear_flag") /\ UNCHANGED todo
       ELSE NextDrift(w)
    /\ UNCHANGED <<db, mutes, kind, result, stamp, won, repolls, call, crashes, history>>

CountFailures(w) ==
    /\ pc[w] = "count_failures"
    /\ IF Tripped(Current(w))
       THEN Goto(w, "clear_flag") /\ UNCHANGED todo
       ELSE NextDrift(w)
    /\ UNCHANGED <<db, mutes, kind, result, stamp, won, repolls, call, crashes, history>>

\* Mutant: the update is never committed.
ClearFlagUncommitted(w) ==
    /\ pc[w] = "clear_flag" /\ NextDrift(w)
    /\ UNCHANGED <<db, mutes, kind, result, stamp, won, repolls, call, crashes, history>>

(* set_auto_apply_enabled(False), committed.                               *)
ClearFlag(w) ==
    /\ pc[w] = "clear_flag"
    /\ row' = [row EXCEPT ![Current(w)].enabled = FALSE]
    /\ NextDrift(w)
    /\ UNCHANGED <<events, clock, mutes, kind, result, stamp, won, repolls, call, crashes, history>>

(* The loop is over: any success schedules a re-poll, except in a check    *)
(* run by the API process, which passes no schedule_repoll_fn.             *)
FinishLoop(w) ==
    /\ pc[w] = "loop" /\ todo[w] = <<>>
    /\ Goto(w, "idle")
    /\ won' = [won EXCEPT ![w] = FALSE]
    /\ repolls' = IF won[w] /\ Trigger[w] # "api_repoll"
                  THEN repolls \cup {<<"repoll", DeviceOf[w]>>}
                  ELSE repolls
    /\ UNCHANGED <<db, mutes, todo, kind, result, stamp, call, crashes, history>>

WorkerStep(w) ==
    \/ Gate(w) \/ MatchIssue(w) \/ Vet(w) \/ ApplyFix(w)
    \/ SaveEvent(w) \/ CommitEvent(w) \/ CountFailures(w) \/ ClearFlag(w)
    \/ FinishLoop(w)

-----------------------------------------------------------------------------
(* Known issues: the API and the importer                                  *)

UnchangedByApi == UNCHANGED <<mutes, worker, repolls, crashes>>

\* Mutant: the payload kind is not validated.
CreateUnvalidated(i, k) ==
    /\ "create" \in Endpoints /\ ~Exists(i)
    /\ row' = [row EXCEPT ![i] = [kind |-> "shell", enabled |-> FALSE]]
    /\ UNCHANGED <<events, clock, call, history>> /\ UnchangedByApi

(* POST /known-issues: the unique constraint refuses a second row.         *)
CreateKnownIssue(i, k) ==
    /\ "create" \in Endpoints /\ ~Exists(i)
    /\ row' = [row EXCEPT ![i] = [kind |-> k, enabled |-> FALSE]]
    /\ UNCHANGED <<events, clock, call, history>> /\ UnchangedByApi

(* PATCH /known-issues/{id}: load the row, ...                             *)
LoadForPatch(c, i, k) ==
    /\ "patch" \in Endpoints /\ Serving(c, "idle") /\ Exists(i)
    /\ Begin(c, "patch", i, k)
    /\ UNCHANGED <<db, history>> /\ UnchangedByApi

(* ... then write the payload and, when it is not executable unattended,   *)
(* clear the flag if the loaded row had it set.  A payload equal to the    *)
(* loaded one is not written; two payloads of one kind may differ.         *)
WritePatch(c) ==
    LET r == call[c]
        mustClear == r.kind # "restore_intent" /\ r.enabled
    IN  /\ Serving(c, "patch")
        /\ \E k \in {r.kind} \cup (IF r.same THEN {row[r.issue].kind} ELSE {}) :
              row' = [row EXCEPT ![r.issue] =
                        [kind |-> k, enabled |-> @.enabled /\ ~mustClear]]
        /\ Done(c)
        /\ UNCHANGED <<events, clock, history>> /\ UnchangedByApi

(* PATCH /known-issues/{id}/auto-apply {"enabled": true}: the kind of the  *)
(* loaded row, the confirmed count and the process switch are checked in   *)
(* turn; a refusal is a 422 without effect.                                *)
LoadForEnable(c, i) ==
    /\ "enable" \in Endpoints /\ Serving(c, "idle")
    /\ row[i].kind = "restore_intent"
    /\ Begin(c, "count", i, "null")
    /\ UNCHANGED <<db, history>> /\ UnchangedByApi

\* Mutant: the confirmed count is not looked at.
CheckNothing(c) ==
    /\ Serving(c, "count")
    /\ call' = [call EXCEPT ![c].op = "enable"]
    /\ UNCHANGED <<db, history>> /\ UnchangedByApi

CheckConfirmed(c) ==
    /\ Serving(c, "count")
    /\ IF Confirmed(call[c].issue) /\ AutoRemediationEnabled
       THEN call' = [call EXCEPT ![c].op = "enable"]
       ELSE Done(c)
    /\ UNCHANGED <<db, history>> /\ UnchangedByApi

WriteEnable(c) ==
    LET i == call[c].issue
    IN  /\ Serving(c, "enable")
        /\ IF call[c].enabled
           THEN UNCHANGED <<row, rearmed, late>>
           ELSE /\ row' = [row EXCEPT ![i].enabled = TRUE]
                /\ rearmed' = rearmed \cup {i}
                /\ late' = [late EXCEPT ![i] = 0]
        /\ Done(c)
        /\ UNCHANGED <<events, clock, attempts, lost>> /\ UnchangedByApi

(* {"enabled": false} is not gated.                                        *)
LoadForDisable(c, i) ==
    /\ "disable" \in Endpoints /\ Serving(c, "idle") /\ Exists(i)
    /\ Begin(c, "disable", i, "null")
    /\ UNCHANGED <<db, history>> /\ UnchangedByApi

WriteDisable(c) ==
    /\ Serving(c, "disable")
    /\ row' = IF call[c].enabled
              THEN [row EXCEPT ![call[c].issue].enabled = FALSE]
              ELSE row
    /\ Done(c)
    /\ UNCHANGED <<events, clock, history>> /\ UnchangedByApi

(* upsert_known_issue: an update replaces the payload and keeps the flag.  *)
LoadForImport(c, i, k) ==
    /\ Serving(c, "idle")
    /\ Begin(c, IF Exists(i) THEN "update" ELSE "insert", i, k)
    /\ UNCHANGED <<db, history>> /\ UnchangedByApi

\* Mutant: an import overwrites the whole row, and community patterns arrive armed.
WriteImportArmed(c) ==
    /\ call[c].op \in {"insert", "update"}
    /\ row' = [row EXCEPT ![call[c].issue] = [kind |-> call[c].kind, enabled |-> TRUE]]
    /\ Done(c)
    /\ UNCHANGED <<events, clock, history>> /\ UnchangedByApi

WriteImport(c) ==
    LET r == call[c]
    IN  /\ \/ /\ Serving(c, "insert")       \* the unique constraint may refuse it
              /\ row' = IF Exists(r.issue) THEN row
                        ELSE [row EXCEPT ![r.issue] = [kind |-> r.kind, enabled |-> FALSE]]
           \/ /\ Serving(c, "update")
              /\ \E k \in {r.kind} \cup (IF r.same THEN {row[r.issue].kind} ELSE {}) :
                    row' = [row EXCEPT ![r.issue].kind = k]
        /\ Done(c)
        /\ UNCHANGED <<events, clock, history>> /\ UnchangedByApi

-----------------------------------------------------------------------------
(* Manual remediation                                                      *)

(* POST .../remediate/apply, up to the applier's return.  The pre-checks   *)
(* (kind null, check_blocked, no applier) answer 422 without effect.  Any  *)
(* stored drift event may be named: its device is all that matters here.   *)
ApplyByOperator(c, i, d) ==
    /\ "apply" \in Endpoints /\ Serving(c, "idle")
    /\ row[i].kind \in {"restore_intent", "raw_snippet"}
    /\ d \in Supported /\ Room
    /\ \E r \in {"succeeded", "failed"} :
          call' = [call EXCEPT ![c] = [NoCall EXCEPT !.op = r, !.issue = i, !.device = d]]
    /\ attempts' = [attempts EXCEPT ![i] = @ + 1]
    /\ UNCHANGED <<db, rearmed, late, lost>> /\ UnchangedByApi

Applying(c) == call[c].op \in {"succeeded", "failed"}

(* Retention deletes the drift event of a fix in progress: the handler     *)
(* only read the row, which locks nothing.                                 *)
PruneDrift(c) ==
    LET i == call[c].issue
    IN  /\ Applying(c) /\ ~call[c].gone /\ lost[i] < MaxLost
        /\ call' = [call EXCEPT ![c].gone = TRUE]
        /\ lost' = [lost EXCEPT ![i] = @ + 1]
        /\ UNCHANGED <<db, rearmed, late, attempts>> /\ UnchangedByApi

(* The audit event is committed; a success schedules the API's re-poll.    *)
RecordApply(c) ==
    LET r == call[c]
    IN  /\ Applying(c) /\ ~r.gone
        /\ events' = events \cup
              {[issue |-> r.issue, by |-> "api", at |-> clock,
                result |-> IF r.op = "succeeded" THEN "success" ELSE "failure"]}
        /\ clock' = clock + 1
        /\ repolls' = IF r.op = "succeeded"
                      THEN repolls \cup {<<"api_repoll", r.device>>}
                      ELSE repolls
        /\ Done(c)
        /\ UNCHANGED <<row, mutes, worker, crashes, history>>

(* The foreign key refuses an audit event whose drift event is gone: the   *)
(* request ends with that error, without an event and without a re-poll.   *)
RecordRefused(c) ==
    /\ Applying(c) /\ call[c].gone
    /\ Done(c)
    /\ UNCHANGED <<db, history>> /\ UnchangedByApi

(* POST .../remediate/dry-run: only a dry run that worked, and whose drift *)
(* event is still there, is recorded.                                      *)
DryRun(i, d) ==
    /\ "dry_run" \in Endpoints
    /\ row[i].kind \in {"restore_intent", "raw_snippet"}
    /\ d \in Supported /\ Room
    /\ events' = events \cup
          {[issue |-> i, by |-> "api", result |-> "dry_run_only", at |-> clock]}
    /\ clock' = clock + 1
    /\ UNCHANGED <<row, call, history>> /\ UnchangedByApi

ClientStep(c) ==
    \/ \E i \in Issues :
          \/ \E k \in Payloads : LoadForPatch(c, i, k)
          \/ LoadForEnable(c, i) \/ LoadForDisable(c, i)
          \/ \E d \in Devices : ApplyByOperator(c, i, d)
    \/ WritePatch(c) \/ CheckConfirmed(c) \/ WriteEnable(c) \/ WriteDisable(c)
    \/ RecordApply(c) \/ RecordRefused(c)

ImporterStep(c) ==
    \/ \E i \in Issues, k \in Payloads : LoadForImport(c, i, k)
    \/ WriteImport(c)

-----------------------------------------------------------------------------
(* The operator's switches, maintenance windows opening and closing,       *)
(* acknowledgements made, withdrawn and expiring.                          *)

Toggle(S, x) == IF x \in S THEN S \ {x} ELSE S \cup {x}

SetDevicePaused(d) ==
    /\ paused' = Toggle(paused, d)
    /\ UNCHANGED <<db, window, acked, worker, repolls, call, crashes, history>>

MoveWindow(d) ==
    /\ window' = Toggle(window, d)
    /\ UNCHANGED <<db, paused, acked, worker, repolls, call, crashes, history>>

Acknowledge(d, i) ==
    /\ acked' = Toggle(acked, <<d, i>>)
    /\ UNCHANGED <<db, paused, window, worker, repolls, call, crashes, history>>

-----------------------------------------------------------------------------
(* Crashes.  Open transactions roll back; the job stores are in memory.    *)

InApi(w) == Trigger[w] = "api_repoll"

(* The sessions for an issue whose audit event is still to be written, and *)
(* will be: each by its worker or by its request.                          *)
Unwritten(i) ==
    {w \in Workers : pc[w] \in {"save", "commit"} /\ Current(w) = i}
      \cup {c \in Clients : Applying(c) /\ ~call[c].gone /\ call[c].issue = i}

(* The threads W of a process end, and with them what they had not written. *)
Kill(W, job) ==
    /\ crashes < MaxCrashes
    /\ crashes' = crashes + 1
    /\ pc' = [w \in Workers |-> IF w \in W THEN "idle" ELSE pc[w]]
    /\ todo' = [w \in Workers |-> IF w \in W THEN <<>> ELSE todo[w]]
    /\ kind' = [w \in Workers |-> IF w \in W THEN "null" ELSE kind[w]]
    /\ result' = [w \in Workers |-> IF w \in W THEN "blocked" ELSE result[w]]
    /\ stamp' = [w \in Workers |-> IF w \in W THEN 0 ELSE stamp[w]]
    /\ won' = [w \in Workers |-> IF w \in W THEN FALSE ELSE won[w]]
    /\ repolls' = {p \in repolls : p[1] # job}
    /\ rearmed' = Issues
    /\ lost' = [i \in Issues |-> lost[i] + Cardinality(Unwritten(i) \cap W)]
    /\ UNCHANGED <<db, mutes, late, attempts>>

SchedulerCrash ==
    Kill({w \in Workers : ~InApi(w)}, "repoll") /\ UNCHANGED call

ApiCrash ==
    /\ Kill({w \in Workers : InApi(w)} \cup Clients, "api_repoll")
    /\ call' = [c \in Clients \cup Importers |-> IF c \in Clients THEN NoCall ELSE call[c]]

-----------------------------------------------------------------------------
Next ==
    \/ \E w \in Workers : StartLoop(w) \/ WorkerStep(w)
    \/ SpendRepoll
    \/ \E c \in Clients : ClientStep(c) \/ PruneDrift(c)
    \/ \E c \in Importers : ImporterStep(c)
    \/ \E i \in Issues : \E k \in Payloads : CreateKnownIssue(i, k)
    \/ \E i \in Issues : \E d \in Devices : DryRun(i, d)
    \/ \E i \in Issues : \E d \in Operated : Acknowledge(d, i)
    \/ \E d \in Operated : SetDevicePaused(d) \/ MoveWindow(d)
    \/ SchedulerCrash \/ ApiCrash

Spec == Init /\ [][Next]_vars

(* A thread that entered the loop keeps running: it waits for nothing but  *)
(* the database and the device, whose calls return or time out.            *)
Fairness == \A w \in Workers : WF_vars(WorkerStep(w))
FairSpec == Spec /\ Fairness

-----------------------------------------------------------------------------
(* Properties                                                              *)

Stages == {"idle", "gate", "loop", "vet", "apply", "save",
           "commit", "count_failures", "clear_flag"}

(* Every variable has its type.                                            *)
TypeOK ==
    /\ row \in [Issues -> Row]
    /\ events \subseteq Event
    /\ clock \in Nat
    /\ paused \subseteq Devices /\ window \subseteq Devices
    /\ acked \subseteq Devices \X Issues
    /\ pc \in [Workers -> Stages]
    /\ todo \in [Workers -> Seq(Issues)]
    /\ kind \in [Workers -> Kinds \cup {"absent"}]
    /\ result \in [Workers -> Results]
    /\ stamp \in [Workers -> Nat]
    /\ won \in [Workers -> BOOLEAN]
    /\ repolls \subseteq Repolls \X Devices
    /\ call \in [Clients \cup Importers -> Call]
    /\ crashes \in Nat
    /\ rearmed \subseteq Issues
    /\ late \in [Issues -> Nat]
    /\ attempts \in [Issues -> Nat]
    /\ lost \in [Issues -> Nat]

ManualSuccesses(i) == {e \in Successes(i) : e.by = "api"}

(* An issue is armed for unattended apply only after CONFIRM_THRESHOLD     *)
(* successful manual applies, although the gate counts every success: the  *)
(* scheduler's own successes can never be what arms an issue.              *)
ConfirmGate ==
    \A i \in Issues :
        row[i].enabled => Cardinality(ManualSuccesses(i)) >= CONFIRM_THRESHOLD

(* Whatever the scheduler did unattended, CONFIRM_THRESHOLD successes of   *)
(* the same issue had been written to the audit log before it.             *)
ConfirmedBeforeUnattended ==
    \A e \in events : e.by = "scheduler" =>
        Cardinality({s \in Successes(e.issue) : s.at < e.at}) >= CONFIRM_THRESHOLD

Clearing(w, i) ==
    pc[w] \in {"count_failures", "clear_flag"} /\ Current(w) = i

(* The circuit breaker: an armed issue whose last FAILURE_THRESHOLD        *)
(* scheduler outcomes all failed is about to be disarmed by some worker,   *)
(* unless an operator armed it (or a crash hit) after the last failure.    *)
(* With several workers the one that commits last sees every failure.      *)
CircuitBreaker ==
    \A i \in Issues : row[i].enabled /\ Tripped(i) /\ i \notin rearmed =>
        \E w \in Workers : Clearing(w, i)

InFlight(i) == {w \in Workers : pc[w] \in {"vet", "apply"} /\ Current(w) = i}

(* Disarming an issue stops it: after the flag is cleared each worker can  *)
(* apply the fix once more at most, having matched the row before.         *)
BoundedOvershoot ==
    \A i \in Issues : ~row[i].enabled =>
        late[i] + Cardinality(InFlight(i)) <= Cardinality(Workers)

Recorded(i) == {e \in events : e.issue = i /\ e.result # "dry_run_only"}

(* Every device session opened to apply a fix, whatever came of it, has    *)
(* exactly one audit event or is about to write it.  The only exceptions   *)
(* are the sessions whose process crashed before they wrote it, and those  *)
(* whose drift event retention deleted beneath them.                       *)
AuditTrail ==
    \A i \in Issues :
        attempts[i] = Cardinality(Recorded(i)) + Cardinality(Unwritten(i)) + lost[i]

(* A tripped breaker really disarms the issue: the clearing worker cannot  *)
(* be overtaken for ever.                                                  *)
BreakerTrips ==
    \A i \in Issues :
        (row[i].enabled /\ Tripped(i) /\ i \notin rearmed)
            ~> (~row[i].enabled \/ ~Tripped(i) \/ i \in rearmed)

(* models.py:80 and schema.md: auto_apply_enabled is forbidden for payload *)
(* kinds other than restore_intent.                                        *)
ArmedOnlyForRestoreIntent ==
    \A i \in Issues : row[i].enabled => row[i].kind = "restore_intent"
=============================================================================

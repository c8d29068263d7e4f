--------------------------- MODULE DriftRetention ---------------------------
(***************************************************************************)
(* drift_events grows with every check; the retention job prunes it, while *)
(* API requests dry-run or apply a fix for one of its rows and write an    *)
(* audit event that references the row.  The foreign key of                *)
(* remediation_events.drift_event_id has no ON DELETE clause, so Postgres  *)
(* refuses a DELETE that would orphan an audit event, and an INSERT whose  *)
(* drift row is gone.  (The scheduler's audit events reference no row.)    *)
(***************************************************************************)
EXTENDS Integers, FiniteSets

CONSTANTS
    Clients,      \* threads of the API's pool serving dry-runs and applies
    RETENTION,    \* ticks a drift event is kept: DRIFT_RETENTION_DAYS
    Endpoints,    \* the endpoints that are called: "dry_run", "apply"
    MaxTime,      \* bound: the clock
    MaxDrifts,    \* bound: drift events ever stored
    MaxRequests   \* bound: requests ever served

ASSUME RetentionAssumption ==
    /\ RETENTION \in Nat
    /\ Endpoints \subseteq {"dry_run", "apply"}
    /\ MaxTime \in Nat /\ MaxDrifts \in Nat /\ MaxRequests \in Nat

VARIABLES
    now,
    drifts,      \* drift_events: [id, at]; the ids come from a sequence
    nextId,
    audit,       \* remediation_events: [drift, op], one for each request
    call,        \* the request a client is serving, after its checks passed
    requests,    \* requests begun
    cutoff       \* the cutoff of the retention run in progress, -1 when none

vars == <<now, drifts, nextId, audit, call, requests, cutoff>>

NoCall == [op |-> "idle", drift |-> 0, n |-> 0]

Init ==
    /\ now = 0
    /\ drifts = {} /\ nextId = 1
    /\ audit = {}
    /\ call = [c \in Clients |-> NoCall]
    /\ requests = 0
    /\ cutoff = -1

Ids        == {e.id : e \in drifts}
Referenced == {a.drift : a \in audit}

-----------------------------------------------------------------------------
Tick ==
    /\ now < MaxTime
    /\ now' = now + 1
    /\ UNCHANGED <<drifts, nextId, audit, call, requests, cutoff>>

(* A drift check stores what it found.                                     *)
SaveDrifts ==
    /\ nextId <= MaxDrifts
    /\ drifts' = drifts \cup {[id |-> nextId, at |-> now]}
    /\ nextId' = nextId + 1
    /\ UNCHANGED <<now, audit, call, requests, cutoff>>

(* _run_retention reads the clock (nothing is older than tick 0), ...      *)
BeginRetention ==
    /\ cutoff = -1
    /\ cutoff' = IF now > RETENTION THEN now - RETENTION ELSE 0
    /\ UNCHANGED <<now, drifts, nextId, audit, call, requests>>

Doomed == {e \in drifts : e.at < cutoff}

\* Mutant: audited drift events are deleted all the same.
DeleteCascading ==
    /\ cutoff # -1
    /\ drifts' = drifts \ Doomed
    /\ cutoff' = -1
    /\ UNCHANGED <<now, nextId, audit, call, requests>>

\* Mutant: the deletion is not committed.
DeleteUncommitted ==
    /\ cutoff # -1
    /\ cutoff' = -1
    /\ UNCHANGED <<now, drifts, nextId, audit, call, requests>>

(* ... then deletes in one statement: one audited row among the old ones   *)
(* and nothing is deleted; the error is logged and swallowed.              *)
DeleteOlder ==
    /\ cutoff # -1
    /\ drifts' = IF \E e \in Doomed : e.id \in Referenced
                 THEN drifts ELSE drifts \ Doomed
    /\ cutoff' = -1
    /\ UNCHANGED <<now, nextId, audit, call, requests>>

(* A request names a drift event (404 when it is not there) and starts the *)
(* applier, which takes as long as the device does.                        *)
Load(c, op, e) ==
    /\ op \in Endpoints /\ call[c].op = "idle" /\ requests < MaxRequests
    /\ requests' = requests + 1
    /\ call' = [call EXCEPT ![c] = [op |-> op, drift |-> e.id, n |-> requests + 1]]
    /\ UNCHANGED <<now, drifts, nextId, audit, cutoff>>

(* The applier returned: the audit event is written and committed; when    *)
(* its drift row is gone the INSERT fails and the request ends in a 500.   *)
Record(c) ==
    /\ call[c].op # "idle"
    /\ audit' = IF call[c].drift \in Ids THEN audit \cup {call[c]} ELSE audit
    /\ call' = [call EXCEPT ![c] = NoCall]
    /\ UNCHANGED <<now, drifts, nextId, requests, cutoff>>

(* A dry run that fails is a 502 and is not recorded.                      *)
FailDryRun(c) ==
    /\ call[c].op = "dry_run"
    /\ call' = [call EXCEPT ![c] = NoCall]
    /\ UNCHANGED <<now, drifts, nextId, audit, requests, cutoff>>

Next ==
    \/ Tick \/ SaveDrifts \/ BeginRetention \/ DeleteOlder
    \/ \E c \in Clients :
          \/ \E op \in Endpoints : \E e \in drifts : Load(c, op, e)
          \/ Record(c) \/ FailDryRun(c)

Spec == Init /\ [][Next]_vars

(* The retention job is an interval job and its two steps end.             *)
FairSpec == Spec /\ WF_vars(BeginRetention) /\ WF_vars(DeleteOlder)

-----------------------------------------------------------------------------
(* Properties                                                              *)

Request == [op : {"idle", "dry_run", "apply"}, drift : 0..MaxDrifts, n : 0..MaxRequests]

(* Every variable has its type.                                            *)
TypeOK ==
    /\ now \in 0..MaxTime
    /\ drifts \subseteq [id : 1..MaxDrifts, at : 0..MaxTime]
    /\ nextId \in 1..(MaxDrifts + 1)
    /\ audit \subseteq Request
    /\ call \in [Clients -> Request]
    /\ requests \in 0..MaxRequests
    /\ cutoff \in -1..MaxTime

(* The audit log stays readable: the drift event an audit event refers to  *)
(* is still stored, however retention and long requests interleave.        *)
AuditedDriftIsKept == Referenced \subseteq Ids

Old == {e \in drifts : now - e.at > RETENTION}

(* Without audited drift the table is kept small: whatever is too old is   *)
(* deleted.                                                                *)
UnauditedIsPruned ==
    \A n \in 1..MaxDrifts :
        ((\E e \in Old : e.id = n) /\ audit = {}) ~> (n \notin Ids \/ audit # {})

(* PROJECT_PLAN.md:592: drift retention prunes old events.                 *)
OldIsPruned ==
    \A n \in 1..MaxDrifts :
        (\E e \in Old : e.id = n /\ n \notin Referenced) ~> (n \notin Ids \/ n \in Referenced)
=============================================================================

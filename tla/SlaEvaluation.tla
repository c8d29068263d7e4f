--------------------------- MODULE SlaEvaluation ---------------------------
(***************************************************************************)
(* The SLA evaluation job (sla.py, scheduler._run_sla_evaluation) beside   *)
(* what changes the tables it reads: drift checks storing detections,      *)
(* retention, alert rules, maintenance windows and acknowledgements.       *)
(*                                                                         *)
(* One job instance runs at a time (max_instances is 1).  Its transaction  *)
(* is three steps: it reads (Scan), compares with sla_breach_state and     *)
(* fires the webhooks (FireEdges), and its caller commits (Commit) or the  *)
(* process dies or the commit fails (Abort).                               *)
(***************************************************************************)
EXTENDS Integers, FiniteSets

CONSTANTS
    Devices,
    Fingerprints,
    Rules,               \* the alert rules that may exist
    Covers,              \* the breaches a rule watches: device, severity, object type
    Window,              \* window_minutes of a rule, in ticks
    UNREACHABLE_AFTER,   \* ticks of silence: two poll cycles
    RETENTION,           \* ticks a drift event is kept
    MayDelete,           \* whether operators delete alert rules in this instance
    MaxTime,             \* bound: the clock
    MaxAborts            \* bound: cycles that die before their commit

Keys == Devices \X Fingerprints

ASSUME SlaAssumption ==
    /\ Covers \in [Rules -> SUBSET Keys]
    /\ Window \in [Rules -> Nat]
    /\ UNREACHABLE_AFTER \in Nat /\ RETENTION \in Nat
    /\ MayDelete \in BOOLEAN
    /\ MaxTime \in Nat /\ MaxAborts \in Nat

VARIABLES
    now,
    drifting,    \* (device, fingerprint) really drifting on the network
    events,      \* drift_events: <<key, detected_at>>
    collected,   \* last_collected_at, -1 when the device never reported
    rules,       \* the enabled alert rules
    window,      \* devices in an active maintenance window
    acked,       \* breaches acknowledged
    tracked,     \* sla_breach_state
    pc,          \* where the job is
    job,         \* what the cycle has read and decided
    aborts,
    gone,        \* history: keys the last check of their device did not find
    cleared,     \* history: keys some scan found not in breach since they were
                 \* paged, or whose page was fired by a cycle that died
    pages        \* history: sla_breached minus sla_resolved fired, per key

tables == <<events, collected, rules, window, acked>>
cycle  == <<tracked, pc, job, aborts, cleared, pages>>
vars   == <<now, drifting, tables, cycle, gone>>

NoJob == [breaching |-> {}, firable |-> {}, silent |-> {}, window |-> {}, acked |-> {},
          gone |-> {}, started |-> {}, ended |-> {}]

Init ==
    /\ now = 0
    /\ drifting = {}
    /\ events = {}
    /\ collected = [d \in Devices |-> -1]
    /\ rules = {}
    /\ window = {} /\ acked = {}
    /\ tracked = {}
    /\ pc = "idle" /\ job = NoJob
    /\ aborts = 0
    /\ gone = Keys /\ cleared = Keys
    /\ pages = [k \in Keys |-> 0]

-----------------------------------------------------------------------------
(* The tables                                                              *)

Tick ==
    /\ now < MaxTime
    /\ now' = now + 1
    /\ UNCHANGED <<drifting, tables, cycle, gone>>

Change(k) ==
    /\ drifting' = IF k \in drifting THEN drifting \ {k} ELSE drifting \cup {k}
    /\ UNCHANGED <<now, tables, cycle, gone>>

OnDevice(d) == {k \in Keys : k[1] = d}

(* A successful drift check: save_drifts and record_collection commit      *)
(* together.  Every check inserts a row for every drift it sees.           *)
DriftCheck(d) ==
    LET seen == drifting \cap OnDevice(d)
    IN  /\ events' = events \cup (seen \X {now})
        /\ collected' = [collected EXCEPT ![d] = now]
        /\ gone' = (gone \ seen) \cup (OnDevice(d) \ seen)
        /\ UNCHANGED <<now, drifting, rules, window, acked, cycle>>

(* The retention job.                                                      *)
Prune ==
    /\ events' = {e \in events : e[2] >= now - RETENTION}
    /\ events' # events
    /\ UNCHANGED <<now, drifting, collected, rules, window, acked, cycle, gone>>

CreateRule(r) ==
    /\ r \notin rules
    /\ rules' = rules \cup {r}
    /\ UNCHANGED <<now, drifting, events, collected, window, acked, cycle, gone>>

DeleteRule(r) ==
    /\ MayDelete /\ r \in rules
    /\ rules' = rules \ {r}
    /\ UNCHANGED <<now, drifting, events, collected, window, acked, cycle, gone>>

(* A window opens or closes; an acknowledgement is made, withdrawn or      *)
(* expires.                                                                *)
MoveWindow(d) ==
    /\ window' = IF d \in window THEN window \ {d} ELSE window \cup {d}
    /\ UNCHANGED <<now, drifting, events, collected, rules, acked, cycle, gone>>

\* Mutant: the acknowledgement forgets its device.
AcknowledgeFingerprint(k) ==
    /\ acked' = acked \cup {k[2]}
    /\ UNCHANGED <<now, drifting, events, collected, rules, window, cycle, gone>>

Acknowledge(k) ==
    /\ acked' = IF k \in acked THEN acked \ {k} ELSE acked \cup {k}
    /\ UNCHANGED <<now, drifting, events, collected, rules, window, cycle, gone>>

-----------------------------------------------------------------------------
(* The evaluation cycle                                                    *)

(* get_drifts_older_than for an enabled rule, scoped to the rule.          *)
BreachesOf(r) == {k \in Covers[r] : \E e \in events :
                     e[1] = k /\ e[2] <= now - Window[r]}

Breaching == UNION {BreachesOf(r) : r \in rules}

(* _is_unreachable *)
Silent(d) == collected[d] = -1 \/ collected[d] < now - UNREACHABLE_AFTER

Muted(k) == k[1] \in window \/ k \in acked

(* device_unreachable is fired here, once per silent device with a breach. *)
Scan ==
    /\ pc = "idle" /\ pc' = "scanned"
    /\ LET silent == {d \in Devices : Silent(d) /\ \E k \in Breaching : k[1] = d}
       IN  job' = [NoJob EXCEPT
                     !.breaching = Breaching,
                     !.silent = silent,
                     !.firable = {k \in Breaching : k[1] \notin silent /\ ~Muted(k)},
                     !.window = window,
                     !.acked = acked,
                     !.gone = gone]
    /\ cleared' = cleared \cup (Keys \ Breaching)
    /\ UNCHANGED <<now, drifting, tables, tracked, aborts, gone, pages>>

\* Mutant: every firable breach fires, as before v4.5.
EveryFirable == job.firable

(* Rising edge: firable and not tracked.                                   *)
Started == job.firable \ tracked

\* Mutant: a breach that is muted counts as cleared.
EndedNotFirable == tracked \ job.firable

(* Falling edge: tracked, gone this cycle and not merely muted.  The       *)
(* acknowledgement is read again, the windows are those of the scan.       *)
Ended == {k \in tracked \ job.breaching :
            k[1] \notin job.window \cup job.silent /\ k \notin acked}

FireEdges ==
    /\ pc = "scanned" /\ pc' = "fired"
    /\ job' = [job EXCEPT !.started = Started, !.ended = Ended]
    /\ pages' = [k \in Keys |-> pages[k] + (IF k \in Started THEN 1 ELSE 0)
                                         - (IF k \in Ended THEN 1 ELSE 0)]
    /\ cleared' = cleared \ Started
    /\ UNCHANGED <<now, drifting, tables, tracked, aborts, gone>>

\* Mutant: resolved breaches stay in sla_breach_state.
CommitKeepingRows ==
    /\ pc = "fired" /\ pc' = "idle"
    /\ tracked' = tracked \cup job.started
    /\ job' = NoJob
    /\ UNCHANGED <<now, drifting, tables, aborts, gone, cleared, pages>>

\* Mutant: a breach is recorded whether or not it was muted.
CommitMuted ==
    /\ pc = "fired" /\ pc' = "idle"
    /\ tracked' = (tracked \cup job.breaching) \ job.ended
    /\ job' = NoJob
    /\ UNCHANGED <<now, drifting, tables, aborts, gone, cleared, pages>>

\* Mutant: whatever is not in breach is forgotten, resolved or not.
CommitOnlyBreaching ==
    /\ pc = "fired" /\ pc' = "idle"
    /\ tracked' = (tracked \cap job.breaching) \cup job.started
    /\ job' = NoJob
    /\ UNCHANGED <<now, drifting, tables, aborts, gone, cleared, pages>>

(* record_sla_breach, clear_sla_breach and the caller's commit.            *)
Commit ==
    /\ pc = "fired" /\ pc' = "idle"
    /\ tracked' = (tracked \cup job.started) \ job.ended
    /\ job' = NoJob
    /\ UNCHANGED <<now, drifting, tables, aborts, gone, cleared, pages>>

(* The scheduler dies, or a statement or the commit fails and the error is *)
(* swallowed: nothing is written, what was fired is fired.                 *)
Abort ==
    /\ pc # "idle" /\ aborts < MaxAborts
    /\ aborts' = aborts + 1
    /\ pc' = "idle" /\ job' = NoJob
    /\ cleared' = cleared \cup job.started
    /\ UNCHANGED <<now, drifting, tables, tracked, gone, pages>>

-----------------------------------------------------------------------------
Environment ==
    \/ Tick \/ Prune
    \/ \E k \in Keys : Change(k) \/ Acknowledge(k)
    \/ \E d \in Devices : DriftCheck(d) \/ MoveWindow(d)
    \/ \E r \in Rules : CreateRule(r) \/ DeleteRule(r)

Evaluate == Scan \/ FireEdges \/ Commit

Next == Environment \/ Evaluate \/ Abort

Spec == Init /\ [][Next]_vars

(* The job is an interval job: it keeps being run, and a run ends.         *)
FairSpec == Spec /\ WF_vars(Evaluate)

-----------------------------------------------------------------------------
(* Properties                                                              *)

Job == [breaching : SUBSET Keys, firable : SUBSET Keys, silent : SUBSET Devices,
        window : SUBSET Devices, acked : SUBSET Keys, gone : SUBSET Keys,
        started : SUBSET Keys, ended : SUBSET Keys]

(* Every variable has its type.                                            *)
TypeOK ==
    /\ now \in Nat
    /\ drifting \subseteq Keys
    /\ events \subseteq Keys \X Nat
    /\ collected \in [Devices -> Nat \cup {-1}]
    /\ rules \subseteq Rules
    /\ window \subseteq Devices /\ acked \subseteq Keys
    /\ tracked \subseteq Keys
    /\ pc \in {"idle", "scanned", "fired"}
    /\ job \in Job
    /\ aborts \in Nat
    /\ gone \subseteq Keys /\ cleared \subseteq Keys
    /\ pages \in [Keys -> Int]

(* What the receiver knows is what sla_breach_state says, or will say when *)
(* the cycle in progress commits: an open page for every tracked breach    *)
(* and for no other.  A cycle that dies between firing and committing      *)
(* parts the two by at most one page.                                      *)
Settled == IF pc = "fired" THEN (tracked \cup job.started) \ job.ended ELSE tracked
Excess(k) == pages[k] - (IF k \in Settled THEN 1 ELSE 0)

PagesFollowTracked == \A k \in Keys : -aborts <= Excess(k) /\ Excess(k) <= aborts

(* The docstring of sla.py, as an abstract machine.                        *)
Alerts == INSTANCE EdgeAlerts WITH Breaches <- Keys, open <- Settled, saved <- tracked
EdgeTriggered == Alerts!Spec

(* A mute neither fabricates a resolution nor drops the tracked state: a   *)
(* breach is paged a second time only if some scan since its last page     *)
(* found it over, or the cycle that paged it died before its commit.       *)
NoRepageAfterMute ==
    [][\A k \in Keys : pages'[k] > pages[k] => k \in cleared]_vars

CanFire(k) == k \in Breaching /\ ~Silent(k[1]) /\ ~Muted(k)

(* No breach is missed: one that lasts, on a device that reports and with  *)
(* no mute, is tracked in the end and, if no cycle died, its page is open.  *)
LastingBreachIsPaged ==
    \A k \in Keys : (<>[]CanFire(k)) => <>[](k \in tracked /\ (aborts = 0 => pages[k] = 1))

CanResolve(k) == k \notin Breaching /\ ~Silent(k[1]) /\ ~Muted(k)

(* No page stays open: a breach that is over for good is resolved.         *)
EndedBreachIsResolved ==
    \A k \in Keys : (<>[]CanResolve(k)) => <>[](k \notin tracked /\ (aborts = 0 => pages[k] = 0))

-----------------------------------------------------------------------------
(* What the documentation says and the code does not do                    *)

(* sla.py:9-10: sla_resolved fires in the cycle the underlying drift       *)
(* clears, that is the first cycle after a check that did not find it.     *)
ResolvedWhenCleared ==
    [][pc = "scanned" /\ pc' = "fired" =>
          \A k \in (tracked \cap job.gone) :
              k[1] \in job.window \cup job.silent \/ k \in acked \/ k \in job.ended']_vars
=============================================================================

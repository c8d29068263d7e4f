----------------------------- MODULE Remediation -----------------------------
(***************************************************************************)
(* The drift loop of one device: its intent in NetBox, its real            *)
(* configuration, and the threads that compare the two (pipeline.py,       *)
(* differ.py) and push the intent back (auto_apply.py, the remediate       *)
(* endpoints, appliers/).  Checks of one device overlap: the interval job, *)
(* syslog triggers and re-polls do not exclude one another, nor do they    *)
(* exclude the API.                                                        *)
(*                                                                         *)
(* Whether an issue is armed, paused or acknowledged is AutoApply's        *)
(* subject; here the fingerprints with an armed restore_intent issue are a *)
(* constant.  A fix sets one field of one object.  Only the objects of a   *)
(* document are followed: no applier can fix its texts.                    *)
(*                                                                         *)
(* The device has settings, not documents: untagged_vlan stands for the    *)
(* VLAN of access mode and tagged_vlans for the list of trunk mode, set    *)
(* whether or not the port is in that mode; on JunOS tagged_vlans stands   *)
(* for the one list of members.  What a collector reads of them is Shown.  *)
(***************************************************************************)
EXTENDS Differ, Integers

CONSTANTS
    Baseline,      \* the objects of the intent and of the device at first
    Edits,         \* the <<object, field, value>> that others set
    Optional,      \* the objects that others add and remove
    Management,    \* the objects _block_mgmt_interface refuses
    Platforms,     \* the platforms the device may have
    Checkers,      \* threads of the scheduler that may run a check
    Clients,       \* threads of the API's pool serving remediate requests
    Armed,         \* fingerprints with an armed restore_intent issue
    Snippets,      \* the edits that raw snippets make
    MaxChanges,    \* bound: edits of the intent or of the device by others
    MaxFaults      \* bound: failures of a session, or of a device to converge

Threads == Checkers \cup Clients
Objects == DOMAIN Baseline

AllPlatforms == {"arista_eos", "cisco_iosxe", "juniper_junos", "nokia_srlinux"}

ASSUME RemediationAssumption ==
    /\ Platforms \subseteq AllPlatforms
    /\ \A o \in Objects : o[1] \in Blocks /\ DOMAIN Baseline[o] = FieldsOf(o)
    /\ Optional \subseteq Objects
    /\ \A f \in Armed : f[1] \in Blocks
    /\ Checkers \cap Clients = {}
    /\ MaxChanges \in Nat /\ MaxFaults \in Nat

VARIABLES
    platform,
    intent,      \* the objects NetBox documents
    reality,     \* the objects on the device and their settings
    stored,      \* drift_events
    th,          \* what each thread is doing
    changes, faults

vars == <<platform, intent, reality, stored, th, changes, faults>>

(* A thread: the intent it read, the drift it has still to fix, the edit   *)
(* in progress and the drift it is for, the device before its commit, and  *)
(* how the last edit ended.  held: the edit was in effect at some moment   *)
(* since its commit.                                                       *)
None == <<"none">>
Idle == [pc |-> "idle", plan |-> Baseline, todo |-> {}, drift |-> None, edit |-> None,
         live |-> FALSE, before |-> Baseline, held |-> FALSE, result |-> "none"]

Init ==
    /\ platform \in Platforms
    /\ intent = Baseline /\ reality = Baseline
    /\ stored = {}
    /\ th = [t \in Threads |-> Idle]
    /\ changes = 0 /\ faults = 0

Fault == faults < MaxFaults /\ faults' = faults + 1

-----------------------------------------------------------------------------
(* Others edit NetBox and the device.                                      *)

(* Every result of an edit by hand of the documents' objects c.            *)
Edited(c) ==
    {Put(c, e[1], e[2], e[3]) : e \in {x \in Edits : x[1] \in DOMAIN c}}
        \cup {[p \in DOMAIN c \ {o} |-> c[p]] : o \in Optional \cap DOMAIN c}
        \cup {[p \in DOMAIN c \cup {o} |-> IF p = o THEN Baseline[p] ELSE c[p]] :
                 o \in Optional \ DOMAIN c}

EditIntent ==
    /\ changes < MaxChanges /\ changes' = changes + 1
    /\ intent' \in Edited(intent)
    /\ UNCHANGED <<platform, reality, stored, th, faults>>

EditDevice ==
    /\ changes < MaxChanges /\ changes' = changes + 1
    /\ reality' \in Edited(reality)
    /\ UNCHANGED <<platform, intent, stored, th, faults>>

-----------------------------------------------------------------------------
(* What the collectors read of a port: the VLAN of an access port, the     *)
(* list of a trunk, and every port of a Juniper as routed.  No applier     *)
(* sets VLANs on SR Linux, and how it misreads them does not matter here.  *)

ShownPort(x) ==
    CASE platform = "juniper_junos" ->
            [x EXCEPT !.mode = {"routed"}, !.untagged_vlan = {}, !.tagged_vlans = {}]
      [] platform \in {"arista_eos", "cisco_iosxe"} ->
            [x EXCEPT !.untagged_vlan = IF x.mode = {"access"} THEN @ ELSE {},
                      !.tagged_vlans  = IF x.mode = {"tagged"} THEN @ ELSE {}]
      [] OTHER -> x

Shown(c) == [o \in DOMAIN c |-> IF o[1] = "interface" THEN ShownPort(c[o]) ELSE c[o]]

-----------------------------------------------------------------------------
(* What an applier refuses and what it renders                             *)

Symptoms == {"session_state", "adjacency_state"}

(* check_blocked: no record has an empty intent, missing_in_intent records *)
(* say "absent".                                                           *)
CheckBlocked(d) ==
    d.field \in Symptoms \/ (d.drift_kind = "missing_in_intent" /\ d.intent = {})

\* Mutant: an applier without its management interface check.
RefusedUnlessSymptom(d) == CheckBlocked(d)

Refused(d) == CheckBlocked(d) \/ d.object \in Management

NapalmFields ==
    {<<"interface", "description">>, <<"interface", "enabled">>,
     <<"interface", "untagged_vlan">>, <<"interface", "tagged_vlans">>, <<"vlan", "name">>}

(* _render_restore_intent raises for everything else.                      *)
Rendered ==
    [arista_eos |-> NapalmFields, cisco_iosxe |-> NapalmFields, juniper_junos |-> NapalmFields,
     nokia_srlinux |-> {<<"interface", "description">>, <<"interface", "enabled">>}]

CanRender(d) == <<d.object[1], d.field>> \in Rendered[platform]

\* Mutant: the stanza is rendered from the device's value.
RestoreReality(d) == <<d.object, d.field, d.reality>>

RestoreIntent(d) == <<d.object, d.field, d.intent>>

(* On JunOS a candidate is merged: names are added, and so are the VLANs   *)
(* of a port, tagged or not, to its one list of members.                   *)
Adds(f)    == platform = "juniper_junos" /\ f \in {"untagged_vlan", "tagged_vlans", "name"}
Setting(f) == IF platform = "juniper_junos" /\ f = "untagged_vlan" THEN "tagged_vlans" ELSE f

(* The device after an edit: an access VLAN is set on a trunk as well, and *)
(* is no use there.                                                        *)
After(c, e) ==
    LET s == Setting(e[2])
    IN  Put(c, e[1], s, IF Adds(e[2]) THEN c[e[1]][s] \cup e[3] ELSE e[3])

(* The device does not take a stanza of an object that it does not have,   *)
(* or one without a value, `switchport access vlan None': only the         *)
(* description of JunOS and SR Linux may be empty.                         *)
Void(e) ==
    /\ e[3] = {} /\ e[2] # "enabled"
    /\ e[2] = "description" => platform \notin {"juniper_junos", "nokia_srlinux"}

Rejected(c, e) == e[1] \notin DOMAIN c \/ Void(e)

(* compare_config() of the edit is empty.                                  *)
InEffect(c, e) == e[1] \in DOMAIN c /\ After(c, e) = c

-----------------------------------------------------------------------------
(* run_drift_check                                                         *)

Become(t, r) == th' = [th EXCEPT ![t] = r]

(* fingerprint(): the type of the object, the field and the kind.          *)
Fingerprint(d) == <<d.object[1], d.field, d.drift_kind>>

StartCheck(w) ==
    /\ th[w].pc = "idle"
    /\ Become(w, [Idle EXCEPT !.pc = "collect", !.plan = intent])
    /\ UNCHANGED <<platform, intent, reality, stored, changes, faults>>

\* Mutant: the session that stores the records is not committed.
CollectUnsaved(w) ==
    /\ th[w].pc = "collect"
    /\ Become(w, [th[w] EXCEPT !.pc = "loop",
                     !.todo = {d \in ObjectDiff(th[w].plan, Shown(reality)) :
                                 Fingerprint(d) \in Armed}])
    /\ UNCHANGED <<platform, intent, reality, stored, changes, faults>>

(* Collect, compare and store; then the auto-apply loop has the records    *)
(* with an armed issue before it.                                          *)
Collect(w) ==
    /\ th[w].pc = "collect"
    /\ LET drifts == ObjectDiff(th[w].plan, Shown(reality))
       IN  /\ stored' = stored \cup drifts
           /\ Become(w, [th[w] EXCEPT !.pc = "loop",
                            !.todo = {d \in drifts : Fingerprint(d) \in Armed}])
    /\ UNCHANGED <<platform, intent, reality, changes, faults>>

(* The device does not answer: the check ends without a trace.             *)
CollectFails(w) ==
    /\ th[w].pc = "collect" /\ Fault
    /\ Become(w, Idle)
    /\ UNCHANGED <<platform, intent, reality, stored, changes>>

(* The applier is called: it refuses, cannot render, or opens a session.   *)
NextFix(w) ==
    /\ th[w].pc = "loop"
    /\ \E d \in th[w].todo :
          IF Refused(d) \/ ~CanRender(d)
          THEN Become(w, [th[w] EXCEPT !.todo = @ \ {d}, !.result = "none"])
          ELSE Become(w, [th[w] EXCEPT !.todo = @ \ {d}, !.pc = "open", !.drift = d,
                             !.edit = RestoreIntent(d), !.live = TRUE, !.held = FALSE,
                             !.result = "none"])
    /\ UNCHANGED <<platform, intent, reality, stored, changes, faults>>

EndCheck(w) ==
    /\ th[w].pc = "loop" /\ th[w].todo = {}
    /\ Become(w, Idle)
    /\ UNCHANGED <<platform, intent, reality, stored, changes, faults>>

(* POST .../remediate/dry-run and .../apply, for a drift event that is     *)
(* stored and however old, and a payload of either kind.                   *)
Request(c) ==
    /\ th[c].pc = "idle"
    /\ \E d \in stored : \E live \in BOOLEAN :
          /\ ~Refused(d)
          /\ \E e \in (IF CanRender(d) THEN {RestoreIntent(d)} ELSE {}) \cup Snippets :
                Become(c, [Idle EXCEPT !.pc = "open", !.drift = d, !.edit = e, !.live = live])
    /\ UNCHANGED <<platform, intent, reality, stored, changes, faults>>

-----------------------------------------------------------------------------
(* A device session: open, load the candidate, compare it, then discard it *)
(* (dry run) or commit it; on IOS-XE compare it again and roll back.       *)

Finished(t, result) ==
    [Idle EXCEPT !.pc = IF t \in Checkers THEN "loop" ELSE "idle", !.result = result,
                 !.plan = th[t].plan, !.todo = th[t].todo, !.held = th[t].held]

OpenSession(t) ==
    /\ th[t].pc = "open"
    /\ Become(t, IF th[t].live THEN [th[t] EXCEPT !.pc = "commit"]
                 ELSE Finished(t, "dry_run_only"))
    /\ UNCHANGED <<platform, intent, reality, stored, changes, faults>>

(* The commit takes effect, unless the device rejects the stanza.  Only    *)
(* IOS-XE is verified: it may apply a part, here nothing, and say nothing. *)
Committed(t, c) ==
    LET r == [th[t] EXCEPT !.before = reality, !.held = InEffect(c, th[t].edit)]
    IN  IF platform = "cisco_iosxe" THEN [r EXCEPT !.pc = "verify"]
        ELSE [Finished(t, "success") EXCEPT !.held = r.held]

Commit(t) ==
    /\ th[t].pc = "commit" /\ ~Rejected(reality, th[t].edit)
    /\ reality' = After(reality, th[t].edit)
    /\ Become(t, Committed(t, reality'))
    /\ UNCHANGED <<platform, intent, stored, changes, faults>>

CommitIgnored(t) ==
    /\ th[t].pc = "commit" /\ platform = "cisco_iosxe" /\ Fault
    /\ Become(t, Committed(t, reality))
    /\ UNCHANGED <<platform, intent, reality, stored, changes>>

CommitRejected(t) ==
    /\ th[t].pc = "commit" /\ Rejected(reality, th[t].edit)
    /\ Become(t, Finished(t, "failure"))
    /\ UNCHANGED <<platform, intent, reality, stored, changes, faults>>

(* An exception ends the session: nothing was committed, or it was and the *)
(* answer is lost.  A failure of the verification itself rolls back nothing. *)
SessionFails(t) ==
    /\ th[t].pc \in {"open", "commit", "verify"} /\ Fault
    /\ \/ UNCHANGED reality
       \/ /\ th[t].pc = "commit" /\ ~Rejected(reality, th[t].edit)
          /\ reality' = After(reality, th[t].edit)
    /\ Become(t, Finished(t, "failure"))
    /\ UNCHANGED <<platform, intent, stored, changes>>

\* Mutant: the second comparison is only logged.
VerifyLogged(t) ==
    /\ th[t].pc = "verify"
    /\ Become(t, Finished(t, "success"))
    /\ UNCHANGED <<platform, intent, reality, stored, changes, faults>>

Verify(t) ==
    /\ th[t].pc = "verify"
    /\ Become(t, IF InEffect(reality, th[t].edit)
                 THEN [Finished(t, "success") EXCEPT !.held = TRUE]
                 ELSE [th[t] EXCEPT !.pc = "rollback"])
    /\ UNCHANGED <<platform, intent, reality, stored, changes, faults>>

(* rollback(): the configuration is what it was before the commit, other   *)
(* sessions' commits since then included; operational state is not part    *)
(* of it.                                                                  *)
Operational == Symptoms \cup {"tunnel_state"}

Restored(c, old) ==
    [o \in DOMAIN c |->
        IF o \notin DOMAIN old THEN c[o]
        ELSE [f \in DOMAIN c[o] |-> IF f \in Operational THEN c[o][f] ELSE old[o][f]]]

Rollback(t) ==
    /\ th[t].pc = "rollback"
    /\ reality' = Restored(reality, th[t].before)
    /\ Become(t, Finished(t, "failure"))
    /\ UNCHANGED <<platform, intent, stored, changes, faults>>

RollbackFails(t) ==
    /\ th[t].pc = "rollback" /\ Fault
    /\ Become(t, Finished(t, "failure"))
    /\ UNCHANGED <<platform, intent, reality, stored, changes>>

Session(t) ==
    \/ OpenSession(t) \/ Commit(t) \/ CommitIgnored(t) \/ CommitRejected(t)
    \/ SessionFails(t) \/ Verify(t) \/ Rollback(t) \/ RollbackFails(t)

Check(w) ==
    StartCheck(w) \/ Collect(w) \/ CollectFails(w) \/ NextFix(w) \/ EndCheck(w)

Next ==
    \/ EditIntent \/ EditDevice
    \/ \E w \in Checkers : Check(w)
    \/ \E c \in Clients : Request(c)
    \/ \E t \in Threads : Session(t)

Spec == Init /\ [][Next]_vars

(* The interval job keeps checking, and every call of a device ends with   *)
(* its timeout at the latest.  A read of the intent that hangs, which has  *)
(* no timeout, ends a device's checks: that is Polling's subject.          *)
FairSpec == Spec /\ \A w \in Checkers : WF_vars(Check(w) \/ Session(w))

-----------------------------------------------------------------------------
(* Properties                                                              *)

Results == {"none", "dry_run_only", "failure", "success"}

(* Every variable has its type.                                            *)
TypeOK ==
    /\ platform \in Platforms
    /\ DOMAIN intent \subseteq Objects /\ DOMAIN reality \subseteq Objects
    /\ \A o \in DOMAIN reality : DOMAIN reality[o] = FieldsOf(o)
    /\ \A t \in Threads :
          /\ th[t].pc \in {"idle", "collect", "loop", "open", "commit", "verify", "rollback"}
          /\ th[t].todo \subseteq stored
          /\ th[t].live \in BOOLEAN /\ th[t].held \in BOOLEAN
          /\ th[t].result \in Results
    /\ changes \in 0..MaxChanges /\ faults \in 0..MaxFaults

(* An apply that counts as a success was in the configuration of the       *)
(* device at some moment after its commit, whatever the other threads did. *)
(* It does not say that the drift is gone: see Shown.                      *)
SuccessMeansApplied ==
    \A t \in Threads : th[t].result = "success" => th[t].held

(* What the scheduler commits unattended changes no setting but that of an *)
(* attribute with an armed issue, which holds the intent it read           *)
(* afterwards; never that of a symptom or of a management interface.  On   *)
(* JunOS a fix of untagged_vlan changes the list of the tagged VLANs too.  *)
UnattendedRestoresIntent ==
    [][\A w \in Checkers : th[w].pc = "commit" /\ th'[w] # th[w] =>
          \A o \in DOMAIN reality : \A f \in FieldsOf(o) :
              reality'[o][f] # reality[o][f] =>
                  \E g \in FieldsOf(o) :
                      /\ Setting(g) = f
                      /\ <<o[1], g, "value_mismatch">> \in Armed
                      /\ o \notin Management /\ g \notin Symptoms
                      /\ th[w].plan[o][g] \subseteq reality'[o][f]]_vars

(* An object that stays missing on the device is reported.                 *)
LastingLossIsStored ==
    \A o \in Optional :
        (<>[](o \in DOMAIN intent \ DOMAIN reality))
            => <>(\E d \in stored : d.object = o /\ d.drift_kind = "missing_in_reality")

(* A fix of the attribute can show.                                        *)
Restorable(o, f) ==
    /\ <<o[1], f, "value_mismatch">> \in Armed /\ o \notin Management
    /\ <<o[1], f>> \in Rendered[platform] /\ ~Adds(f)
    /\ ~Void(<<o, f, intent[o][f]>>)
    /\ f = "untagged_vlan" => reality[o].mode = {"access"}
    /\ f = "tagged_vlans" => reality[o].mode = {"tagged"}

(* Unattended remediation does its job: once others leave the device and   *)
(* its intent alone, an attribute with an armed issue whose fix can show   *)
(* ends up as intended, though checks with stale intents undo each other's *)
(* work.  The exception is that on IOS-XE rollbacks of concurrent fixes    *)
(* may undo one another for ever; then failures are recorded for ever, and *)
(* the circuit breaker of AutoApply disarms the issue.                     *)
ArmedDriftIsRestored ==
    (<>[](\A c \in Clients : th[c].pc = "idle")) =>
        \/ []<><<\E w \in Checkers : th'[w].result = "failure" /\ th'[w] # th[w]>>_vars
        \/ <>[](\A o \in DOMAIN intent \cap DOMAIN reality : \A f \in FieldsOf(o) :
                   Restorable(o, f) => intent[o][f] = Shown(reality)[o][f])

-----------------------------------------------------------------------------
(* What the documentation says and the code does not do                    *)

(* remediation.md:58-59, base.py:109-110: an object that the intent does   *)
(* not document is blocked before any vendor code runs.                    *)
UndocumentedIsBlocked ==
    \A t \in Threads : th[t].pc \in {"open", "commit", "verify"} =>
        th[t].drift.drift_kind # "missing_in_intent"
=============================================================================

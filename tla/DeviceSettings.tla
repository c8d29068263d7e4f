--------------------------- MODULE DeviceSettings ---------------------------
(***************************************************************************)
(* device_settings: one row per device, written by the drift check         *)
(* (record_collection), the reachability probe (record_reachability), the  *)
(* lifecycle sync (record_lifecycle) and the pause endpoint                *)
(* (set_device_paused).  Each is an upsert: SELECT the row, then INSERT it *)
(* with this writer's columns or UPDATE those that differ from what was    *)
(* loaded, then commit.  Nothing is locked between the SELECT and the      *)
(* statement; from the statement to the commit Postgres locks the row or   *)
(* the key, and a second INSERT of a committed key fails.                  *)
(*                                                                         *)
(* The lifecycle dates are one value; the time of day matters only for the *)
(* stamps that are compared.                                               *)
(***************************************************************************)
EXTENDS Integers, SequencesExt

CONSTANTS
    Devices,
    Listed,       \* those in the devices.yml the API has cached
    Checks,       \* threads running drift checks
    Probes,       \* threads probing: a sweep probes each device once
    Syncs,        \* the lifecycle job
    Clients,      \* threads of the API's pool serving pause requests
    Target,       \* the device of a thread other than the sync's
    SyncOrder,    \* the order in which NetBox lists the devices
    MaxTime,      \* bound: the clock
    MaxBegun      \* bound: transactions ever begun

Writers == Checks \cup Probes \cup Syncs \cup Clients

ASSUME SettingsAssumption ==
    /\ Listed \subseteq Devices
    /\ Target \in [Checks \cup Probes \cup Clients -> Devices]
    /\ \A p, q \in Probes : Target[p] = Target[q] => p = q
    /\ SyncOrder \in Seq(Devices)
    /\ \A m, n \in 1..Len(SyncOrder) : SyncOrder[m] = SyncOrder[n] => m = n
    /\ MaxTime \in Nat /\ MaxBegun \in Nat

VARIABLES
    now,
    begun,       \* number of transactions begun
    setting,     \* device_settings, committed
    drifts,      \* the checks that committed, <<device, time, drift was found>>
    tx,          \* the transaction of each writer
    asked,       \* history: what the last committed pause request asked for
    answered     \* history: when the last answered probe ran

vars == <<now, begun, setting, drifts, tx, asked, answered>>

None   == -1
Absent == [exists |-> FALSE, paused |-> FALSE, pausedAt |-> None, collected |-> None,
           reachable |-> "null", checkedAt |-> None, seen |-> None, expiry |-> None]

(* A transaction: the devices it still has to write, what it loaded, the   *)
(* values it writes, and the rows it has written and not yet committed.    *)
NoTx == [op |-> "none", device |-> CHOOSE d \in Devices : TRUE, todo |-> <<>>,
         loaded |-> Absent, phase |-> "idle", at |-> None, answer |-> FALSE,
         rows |-> [d \in Devices |-> Absent]]

Init ==
    /\ now = 0 /\ begun = 0
    /\ setting = [d \in Devices |-> Absent]
    /\ drifts = {}
    /\ tx = [t \in Writers |-> NoTx]
    /\ asked = [d \in Devices |-> FALSE]
    /\ answered = [d \in Devices |-> None]

Tick ==
    /\ now < MaxTime
    /\ now' = now + 1
    /\ UNCHANGED <<begun, setting, drifts, tx, asked, answered>>

-----------------------------------------------------------------------------
Begin(t, op, ds, answer) ==
    /\ tx[t].phase = "idle"
    /\ begun < MaxBegun /\ begun' = begun + 1
    /\ tx' = [tx EXCEPT ![t] = [NoTx EXCEPT !.op = op, !.device = Head(ds), !.todo = ds,
                                            !.phase = "select", !.at = now,
                                            !.answer = answer]]
    /\ UNCHANGED <<now, setting, drifts, asked, answered>>

(* run_drift_check, from save_drifts on: the drift events, if any, are in  *)
(* the same transaction.  Two checks of a device may run at once.          *)
StartCheck(t) == \E found \in BOOLEAN : Begin(t, "check", <<Target[t]>>, found)

\* Mutant: one transaction for the whole sweep.
StartSweep(t) == \E up \in BOOLEAN : Begin(t, "probe", Reverse(SyncOrder), up)

(* _probe_one; the two outcomes of the connection attempt.                 *)
StartProbe(t) == \E up \in BOOLEAN : Begin(t, "probe", <<Target[t]>>, up)

(* _run_lifecycle_sync writes every device in one transaction.             *)
StartSync(t) == SyncOrder # <<>> /\ Begin(t, "sync", SyncOrder, FALSE)

(* PATCH /devices/{device_name}/auto-apply; 404 for a device not listed.   *)
StartPause(t) ==
    /\ Target[t] \in Listed
    /\ \E p \in BOOLEAN : Begin(t, "pause", <<Target[t]>>, p)

Current(t) == Head(tx[t].todo)

(* get_device_setting *)
Select(t) ==
    /\ tx[t].phase = "select"
    /\ tx' = [tx EXCEPT ![t].loaded = setting[Current(t)], ![t].phase = "write"]
    /\ UNCHANGED <<now, begun, setting, drifts, asked, answered>>

\* Mutant: a probe that fails otherwise than by a refusal is stored as such.
AssignedRaw(t, r) ==
    [r EXCEPT !.collected = IF tx[t].op = "check" THEN tx[t].at ELSE @,
              !.reachable = IF tx[t].op = "probe" /\ ~tx[t].answer THEN "timeout" ELSE @]

(* What the handler assigns to the object it loaded or made.               *)
Assigned(t, r) ==
    CASE tx[t].op = "check" -> [r EXCEPT !.collected = tx[t].at]
      [] tx[t].op = "probe" -> [r EXCEPT !.reachable = IF tx[t].answer THEN "up" ELSE "down",
                                         !.checkedAt = tx[t].at,
                                         !.seen = IF tx[t].answer THEN tx[t].at ELSE @]
      [] tx[t].op = "sync"  -> [r EXCEPT !.expiry = 0]
      [] tx[t].op = "pause" -> [r EXCEPT !.paused = tx[t].answer,
                                         !.pausedAt = IF tx[t].answer THEN tx[t].at ELSE None]

\* Mutant: the whole object is written back.
MergedWhole(t, row) == [Assigned(t, tx[t].loaded) EXCEPT !.exists = TRUE]

(* The row after the statement.  SQLAlchemy writes the attributes whose    *)
(* value differs from the loaded one; the others keep what the row has now. *)
Merged(t, row) ==
    LET old == tx[t].loaded
        new == Assigned(t, old)
    IN  [f \in DOMAIN row |->
            IF f = "exists" THEN TRUE ELSE IF new[f] # old[f] THEN new[f] ELSE row[f]]

WaitsFor(t, u) == tx[t].phase = "write" /\ tx[u].rows[Current(t)].exists
Free(t)        == \A u \in Writers \ {t} : ~WaitsFor(t, u)
Conflict(t) == ~tx[t].loaded.exists /\ setting[Current(t)].exists

End(t) == tx' = [tx EXCEPT ![t] = NoTx]

(* The INSERT of a key that was committed since the SELECT: the whole      *)
(* transaction is rolled back, drift events included; a job swallows the   *)
(* error, a request answers 500.                                           *)
Fail(t) ==
    /\ tx[t].phase = "write" /\ Conflict(t) /\ Free(t)
    /\ End(t)
    /\ UNCHANGED <<now, begun, setting, drifts, asked, answered>>

(* flush: INSERT or UPDATE, which waits for another transaction that has   *)
(* written the row.  An UPDATE that changes nothing is not sent.           *)
Flush(t) ==
    LET d    == Current(t)
        row  == Merged(t, setting[d])
        rest == Tail(tx[t].todo)
    IN  /\ tx[t].phase = "write" /\ ~Conflict(t) /\ Free(t)
        /\ tx' = [tx EXCEPT ![t] =
                    [@ EXCEPT !.rows[d] = IF row = setting[d] THEN Absent ELSE row,
                              !.todo = rest, !.loaded = Absent,
                              !.phase = IF rest = <<>> THEN "commit" ELSE "select"]]
        /\ UNCHANGED <<now, begun, setting, drifts, asked, answered>>

\* Mutant: the drift events are committed, the stamp is not.
CommitUnstamped(t) ==
    /\ tx[t].phase = "commit"
    /\ setting' = [d \in Devices |-> IF tx[t].rows[d].exists /\ tx[t].op # "check"
                                     THEN tx[t].rows[d] ELSE setting[d]]
    /\ drifts' = IF tx[t].op = "check"
                 THEN drifts \cup {<<tx[t].device, tx[t].at, tx[t].answer>>} ELSE drifts
    /\ End(t)
    /\ UNCHANGED <<now, begun, asked, answered>>

Commit(t) ==
    LET r == tx[t]
    IN  /\ r.phase = "commit"
        /\ setting' = [d \in Devices |-> IF r.rows[d].exists THEN r.rows[d] ELSE setting[d]]
        /\ drifts' = IF r.op = "check"
                     THEN drifts \cup {<<r.device, r.at, r.answer>>} ELSE drifts
        /\ asked' = IF r.op = "pause" THEN [asked EXCEPT ![r.device] = r.answer] ELSE asked
        /\ answered' = IF r.op = "probe" /\ r.answer
                       THEN [answered EXCEPT ![r.device] = r.at] ELSE answered
        /\ End(t)
        /\ UNCHANGED <<now, begun>>

Advance(t) == Select(t) \/ Flush(t) \/ Fail(t) \/ Commit(t)

(* The end of an instance: its bounds are reached and nothing is in progress. *)
Bounded ==
    /\ begun = MaxBegun /\ now = MaxTime
    /\ \A t \in Writers : tx[t].phase = "idle"
    /\ UNCHANGED vars

Next ==
    \/ Tick \/ Bounded
    \/ \E t \in Checks : StartCheck(t)
    \/ \E t \in Probes : StartProbe(t)
    \/ \E t \in Syncs : StartSync(t)
    \/ \E t \in Clients : StartPause(t)
    \/ \E t \in Writers : Advance(t)

Spec == Init /\ [][Next]_vars

-----------------------------------------------------------------------------
(* Properties                                                              *)

Time == {None} \cup 0..MaxTime
Setting == [exists : BOOLEAN, paused : BOOLEAN, pausedAt : Time, collected : Time,
            reachable : {"null", "up", "down"}, checkedAt : Time, seen : Time, expiry : Time]

(* Every variable has its type.                                            *)
TypeOK ==
    /\ now \in 0..MaxTime /\ begun \in 0..MaxBegun
    /\ setting \in [Devices -> Setting]
    /\ drifts \subseteq Devices \X Time \X BOOLEAN
    /\ \A t \in Writers :
          /\ tx[t].op \in {"none", "check", "probe", "sync", "pause"}
          /\ tx[t].phase \in {"idle", "select", "write", "commit"}
          /\ tx[t].todo \in Seq(Devices)
          /\ tx[t].loaded \in Setting
          /\ tx[t].rows \in [Devices -> Setting]
    /\ asked \in [Devices -> BOOLEAN]
    /\ answered \in [Devices -> Time]

(* No writer of a row undoes what another wrote, though none locks before  *)
(* it reads: the kill-switch is where the last answered request put it,    *)
(* when requests come one at a time, and "last seen" is the last probe     *)
(* that was answered.                                                      *)
NoLostUpdate ==
    \A d \in Devices : setting[d].paused = asked[d] /\ setting[d].seen = answered[d]

(* The silence of a device is measured on real collections: the stamp and  *)
(* the drift events of a check become visible together.                    *)
StampsAreChecks ==
    \A d \in Devices :
        /\ setting[d].collected # None =>
               \E found \in BOOLEAN : <<d, setting[d].collected, found>> \in drifts
        /\ setting[d].collected = None => \A e \in drifts : e[1] # d

(* No deadlock: no set of transactions wait for one another.  The sync,    *)
(* which alone holds the locks of several rows, meets nobody who holds one *)
(* and waits for another.                                                  *)
NoCircularWait ==
    \A S \in (SUBSET Writers) \ {{}} :
        \E t \in S : \A u \in S \ {t} : ~WaitsFor(t, u)
=============================================================================

------------------------ MODULE DeviceSettingsProofs ------------------------
(***************************************************************************)
(* Theorems about the writers of device_settings and the report that reads *)
(* beside them, for any devices, threads and bounds.                       *)
(***************************************************************************)
EXTENDS InventoryAccuracy, WellFoundedInduction, NaturalsInduction, TLAPS

-----------------------------------------------------------------------------
(* Types                                                                   *)

Transaction ==
    [op : {"none", "check", "probe", "sync", "pause"}, device : Devices \cup {NoTx.device},
     todo : Seq(Devices), loaded : Setting, phase : {"idle", "select", "write", "commit"},
     at : Time, answer : BOOLEAN, rows : [Devices -> Setting]]

(* Who runs a transaction r, and what it still has to write: a check, a    *)
(* probe and a pause request have the device of their thread.              *)
OwnShape(t, r) ==
    /\ t \in Checks \cup Probes \cup Clients /\ r.device = Target[t]
    /\ r.todo \in {<<>>, <<Target[t]>>}
    /\ r.op = "probe" => t \in Probes
    /\ r.op = "pause" => t \in Clients
    /\ \A d \in Devices : r.rows[d].exists => d = Target[t] /\ r.phase = "commit"

(* The sync works through SyncOrder from the front.                        *)
SyncShape(r) ==
    LET done == Len(SyncOrder) - Len(r.todo)
    IN  /\ done \in Nat
        /\ \A n \in 1..Len(r.todo) : r.todo[n] = SyncOrder[done + n]
        /\ \A d \in Devices : r.rows[d].exists => \E n \in 1..done : d = SyncOrder[n]

Shape(t, r) ==
    /\ r.phase = "idle" <=> r.op = "none"
    /\ r.phase \in {"select", "write"} <=> r.todo # <<>>
    /\ r.op # "none" => r.at \in 0..MaxTime
    /\ r.op = "none" => \A d \in Devices : ~r.rows[d].exists
    /\ r.op \in {"check", "probe", "pause"} => OwnShape(t, r)
    /\ r.op = "sync" => SyncShape(r)

Types ==
    /\ TypeOK
    /\ tx \in [Writers -> Transaction]
    /\ \A t \in Writers : Shape(t, tx[t])

-----------------------------------------------------------------------------
(* What the open transactions know of the table                            *)

(* One transaction at most has written a row, and a row not there yet has  *)
(* no values.                                                              *)
Locks ==
    /\ \A t, u \in Writers, d \in Devices :
           tx[t].rows[d].exists /\ tx[u].rows[d].exists => t = u
    /\ \A d \in Devices : ~setting[d].exists => setting[d] = Absent

(* A row written and not committed differs from the committed one in its   *)
(* writer's columns only.                                                  *)
Disjoint ==
    \A t \in Writers, d \in Devices : tx[t].rows[d].exists =>
        /\ tx[t].op # "probe" => tx[t].rows[d].seen = setting[d].seen
        /\ tx[t].op # "pause" => tx[t].rows[d].paused = setting[d].paused
        /\ tx[t].op # "check" => tx[t].rows[d].collected = setting[d].collected

-----------------------------------------------------------------------------
(* The steps, type by type                                                 *)

LEMMA AbsentType == Absent \in Setting /\ None \in Time /\ ~Absent.exists
BY SettingsAssumption DEF Absent, Setting, Time, None

LEMMA ConstantTypes ==
  /\ MaxTime \in Nat /\ MaxBegun \in Nat
  /\ Target \in [Checks \cup Probes \cup Clients -> Devices]
BY SettingsAssumption

LEMMA MergedType ==
  ASSUME NEW t, NEW row \in Setting, tx[t].loaded \in Setting,
         Assigned(t, tx[t].loaded) \in Setting
  PROVE  Merged(t, row) \in Setting
<1>1. DOMAIN row = {"exists", "paused", "pausedAt", "collected", "reachable", "checkedAt",
                    "seen", "expiry"}
  BY DEF Setting
<1> QED  BY <1>1 DEF Merged, Setting

LEMMA NoTxType == NoTx \in Transaction
BY AbsentType DEF NoTx, Transaction

(* A transaction begins with nothing loaded and nothing written.           *)
LEMMA BeginTypes ==
  ASSUME TypeOK, tx \in [Writers -> Transaction], NEW t \in Writers,
         NEW op \in {"check", "probe", "sync", "pause"},
         NEW ds \in Seq(Devices), ds # <<>>, NEW answer \in BOOLEAN,
         Begin(t, op, ds, answer)
  PROVE  /\ TypeOK' /\ tx' \in [Writers -> Transaction]
         /\ \A u \in Writers \ {t} : tx'[u] = tx[u]
         /\ tx'[t].op = op /\ tx'[t].phase = "select" /\ tx'[t].at = now
         /\ tx'[t].device = Head(ds) /\ tx'[t].todo = ds
         /\ tx'[t].rows = [d \in Devices |-> Absent]
<1> DEFINE r == [NoTx EXCEPT !.op = op, !.device = Head(ds), !.todo = ds,
                             !.phase = "select", !.at = now, !.answer = answer]
<1>1. tx' = [tx EXCEPT ![t] = r]
  BY DEF Begin
<1>2. Head(ds) \in Devices /\ now \in Time
  BY DEF TypeOK, Time
<1>3. NoTx.rows = [d \in Devices |-> Absent]
  BY DEF NoTx
<1>4. /\ r \in Transaction /\ r.op = op /\ r.phase = "select" /\ r.at = now
      /\ r.device = Head(ds) /\ r.todo = ds /\ r.rows = [d \in Devices |-> Absent]
  BY <1>2, <1>3, NoTxType DEF Transaction
<1>5. tx' \in [Writers -> Transaction] /\ tx'[t] = r
  BY <1>1, <1>4
<1>6. begun' \in 0..MaxBegun
  BY ConstantTypes DEF Begin, TypeOK
<1>7. TypeOK'
  BY <1>5, <1>6 DEF Begin, TypeOK, Transaction
<1> QED  BY <1>1, <1>4, <1>5, <1>7

(* A step of an open transaction changes that transaction only.            *)
LEMMA AdvanceTypes ==
  ASSUME TypeOK, tx \in [Writers -> Transaction], \A u \in Writers : Shape(u, tx[u]),
         NEW t \in Writers, Advance(t)
  PROVE  /\ TypeOK' /\ tx' \in [Writers -> Transaction]
         /\ \A u \in Writers \ {t} : tx'[u] = tx[u]
<1>1. tx[t] \in Transaction /\ Shape(t, tx[t])
  OBVIOUS
<1>2. CASE Select(t)
  <2>1. /\ tx[t].phase = "select" /\ Current(t) \in Devices
    BY <1>1, <1>2 DEF Select, Current, Shape, Transaction
  <2> DEFINE r == [tx[t] EXCEPT !.loaded = setting[Current(t)], !.phase = "write"]
  <2>2. r \in Transaction
    BY <1>1, <2>1 DEF Transaction, TypeOK
  <2>3. tx' = [tx EXCEPT ![t] = r]
    BY <1>2 DEF Select
  <2>4. tx' \in [Writers -> Transaction]
    BY <2>2, <2>3
  <2> QED  BY <1>2, <2>3, <2>4 DEF Select, TypeOK, Transaction
<1>3. CASE Fail(t)
  <2>1. tx' \in [Writers -> Transaction]
    BY <1>3, NoTxType DEF Fail, End
  <2> QED  BY <1>3, <2>1 DEF Fail, End, TypeOK, Transaction
<1>4. CASE Flush(t)
  <2> DEFINE d   == Current(t)
             row == Merged(t, setting[d])
             rest == Tail(tx[t].todo)
             w == IF row = setting[d] THEN Absent ELSE row
             r == [tx[t] EXCEPT !.rows[d] = w, !.todo = rest, !.loaded = Absent,
                                !.phase = IF rest = <<>> THEN "commit" ELSE "select"]
  <2>1. tx[t].phase = "write" /\ d \in Devices /\ rest \in Seq(Devices)
    BY <1>1, <1>4 DEF Flush, Current, Shape, Transaction
  <2>2. Assigned(t, tx[t].loaded) \in Setting
    <3>1. tx[t].loaded \in Setting /\ tx[t].at \in Time /\ tx[t].answer \in BOOLEAN
      BY <1>1 DEF Transaction
    <3>2. tx[t].op \in {"check", "probe", "sync", "pause"} /\ 0 \in Time
      BY <1>1, <2>1, ConstantTypes DEF Shape, OwnShape, Transaction, Time
    <3> QED  BY <3>1, <3>2, AbsentType DEF Assigned, Setting
  <2>3. row \in Setting
    BY <1>1, <2>1, <2>2, MergedType DEF Transaction, TypeOK
  <2>4. r \in Transaction
    <3>1. [tx[t].rows EXCEPT ![d] = w] \in [Devices -> Setting]
      BY <1>1, <2>1, <2>3, AbsentType DEF Transaction
    <3> QED  BY <1>1, <2>1, <3>1, AbsentType DEF Transaction
  <2>5. tx' = [tx EXCEPT ![t] = r]
    BY <1>4 DEF Flush
  <2>6. tx' \in [Writers -> Transaction]
    BY <2>4, <2>5
  <2> QED  BY <1>4, <2>5, <2>6 DEF Flush, TypeOK, Transaction
<1>5. CASE Commit(t)
  <2>1. tx' \in [Writers -> Transaction]
    BY <1>5, NoTxType DEF Commit, End
  <2>2. setting' \in [Devices -> Setting]
    BY <1>1, <1>5 DEF Commit, TypeOK, Transaction
  <2>3. tx[t].op \in {"check", "probe", "pause"} => tx[t].device \in Devices
    BY <1>1, ConstantTypes DEF Shape, OwnShape
  <2>4. drifts' \subseteq Devices \X Time \X BOOLEAN
    BY <1>1, <1>5, <2>3 DEF Commit, TypeOK, Transaction
  <2>5. asked' \in [Devices -> BOOLEAN] /\ answered' \in [Devices -> Time]
    BY <1>1, <1>5, <2>3 DEF Commit, TypeOK, Transaction
  <2> QED  BY <1>5, <2>1, <2>2, <2>4, <2>5 DEF Commit, End, TypeOK, Transaction
<1> QED  BY <1>2, <1>3, <1>4, <1>5 DEF Advance

LEMMA NoTxShape ==
  ASSUME NEW t \in Writers, tx'[t] = NoTx
  PROVE  Shape(t, tx'[t])
BY DEF NoTx, Absent, Shape

(* A transaction of a thread's own device.                                 *)
LEMMA BeginShapes ==
  ASSUME Types, NEW t \in Checks \cup Probes \cup Clients,
         NEW op \in {"check", "probe", "pause"},
         op = "probe" => t \in Probes, op = "pause" => t \in Clients,
         NEW answer \in BOOLEAN, Begin(t, op, <<Target[t]>>, answer)
  PROVE  Types'
<1>1. t \in Writers /\ Target[t] \in Devices
  BY ConstantTypes DEF Writers
<1> DEFINE ds == <<Target[t]>>
<1>a. ds \in Seq(Devices) /\ ds # <<>> /\ Head(ds) = Target[t] /\ Begin(t, op, ds, answer)
  BY <1>1
<1>b. ds = <<Target[t]>>
  OBVIOUS
<1>c. op \in {"check", "probe", "sync", "pause"} /\ TypeOK /\ tx \in [Writers -> Transaction]
  BY DEF Types
<1> HIDE DEF ds
<1>2. /\ TypeOK' /\ tx' \in [Writers -> Transaction]
      /\ \A u \in Writers \ {t} : tx'[u] = tx[u]
      /\ tx'[t].op = op /\ tx'[t].phase = "select" /\ tx'[t].at = now
      /\ tx'[t].device = Target[t] /\ tx'[t].todo = <<Target[t]>>
      /\ tx'[t].rows = [d \in Devices |-> Absent]
  <2>1. /\ TypeOK' /\ tx' \in [Writers -> Transaction]
        /\ \A u \in Writers \ {t} : tx'[u] = tx[u]
        /\ tx'[t].op = op /\ tx'[t].phase = "select" /\ tx'[t].at = now
        /\ tx'[t].device = Head(ds) /\ tx'[t].todo = ds
        /\ tx'[t].rows = [d \in Devices |-> Absent]
    BY <1>1, <1>a, <1>c, BeginTypes
  <2> QED  BY <1>a, <1>b, <2>1
<1>3. Shape(t, tx'[t])
  BY <1>1, <1>2, AbsentType DEF Shape, OwnShape, SyncShape, Types, TypeOK
<1>4. \A u \in Writers \ {t} : Shape(u, tx'[u])
  BY <1>2 DEF Types
<1> QED  BY <1>2, <1>3, <1>4 DEF Types

(* The lifecycle sync's transaction.                                       *)
LEMMA SyncShapes ==
  ASSUME Types, NEW t \in Syncs, StartSync(t)
  PROVE  Types'
<1>1. t \in Writers /\ SyncOrder \in Seq(Devices) /\ SyncOrder # <<>>
  BY SettingsAssumption DEF StartSync, Writers
<1>2. /\ TypeOK' /\ tx' \in [Writers -> Transaction]
      /\ \A u \in Writers \ {t} : tx'[u] = tx[u]
      /\ tx'[t].op = "sync" /\ tx'[t].phase = "select" /\ tx'[t].at = now
      /\ tx'[t].todo = SyncOrder
      /\ tx'[t].rows = [d \in Devices |-> Absent]
  BY <1>1, BeginTypes DEF Types, StartSync
<1>3. Shape(t, tx'[t])
  BY <1>1, <1>2, AbsentType DEF Shape, OwnShape, SyncShape, Types, TypeOK
<1>4. \A u \in Writers \ {t} : Shape(u, tx'[u])
  BY <1>2 DEF Types
<1> QED  BY <1>2, <1>3, <1>4 DEF Types

(* What a flush leaves of the transaction.                                 *)
LEMMA Flushed ==
  ASSUME Types, NEW t \in Writers, Flush(t)
  PROVE  LET d == Current(t)
             w == Merged(t, setting[d])
         IN  /\ d \in Devices /\ tx[t].todo # <<>> /\ tx[t].op # "none"
             /\ tx[t].phase = "write"
             /\ tx'[t].op = tx[t].op /\ tx'[t].device = tx[t].device
             /\ tx'[t].at = tx[t].at /\ tx'[t].answer = tx[t].answer
             /\ tx'[t].todo = Tail(tx[t].todo) /\ tx'[t].loaded = Absent
             /\ tx'[t].phase = IF tx'[t].todo = <<>> THEN "commit" ELSE "select"
             /\ tx'[t].rows = [tx[t].rows EXCEPT
                                 ![d] = IF w = setting[d] THEN Absent ELSE w]
             /\ \A e \in Devices \ {d} : tx'[t].rows[e] = tx[t].rows[e]
<1>1. tx[t] \in Transaction /\ Shape(t, tx[t]) /\ tx[t].phase = "write"
  BY DEF Types, Flush
<1>2. Current(t) \in Devices /\ tx[t].todo # <<>> /\ tx[t].op # "none"
  BY <1>1 DEF Current, Shape, Transaction
<1> QED  BY <1>1, <1>2 DEF Flush, Types, Transaction

LEMMA AdvanceShapes ==
  ASSUME Types, NEW t \in Writers, Advance(t)
  PROVE  Types'
<1>1. /\ TypeOK' /\ tx' \in [Writers -> Transaction]
      /\ \A u \in Writers \ {t} : tx'[u] = tx[u]
  BY AdvanceTypes DEF Types
<1>2. tx[t] \in Transaction /\ Shape(t, tx[t])
  BY DEF Types
<1>3. Shape(t, tx'[t])
  <2>1. CASE Select(t)
    <3>1. /\ tx'[t].op = tx[t].op /\ tx'[t].device = tx[t].device
          /\ tx'[t].at = tx[t].at /\ tx'[t].todo = tx[t].todo
          /\ tx'[t].rows = tx[t].rows /\ tx[t].phase = "select" /\ tx'[t].phase = "write"
      BY <1>2, <2>1 DEF Select, Types, Transaction
    <3> QED  BY <1>2, <3>1 DEF Shape, OwnShape, SyncShape
  <2>2. CASE Fail(t) \/ Commit(t)
    BY <2>2, NoTxShape DEF Fail, Commit, End, Types
  <2>3. CASE Flush(t)
    <3> DEFINE d == Current(t)
    <3>1. /\ d \in Devices /\ tx[t].todo # <<>> /\ tx[t].op # "none"
          /\ tx'[t].op = tx[t].op /\ tx'[t].device = tx[t].device
          /\ tx'[t].at = tx[t].at /\ tx'[t].todo = Tail(tx[t].todo)
          /\ tx'[t].phase = IF tx'[t].todo = <<>> THEN "commit" ELSE "select"
          /\ \A e \in Devices \ {d} : tx'[t].rows[e] = tx[t].rows[e]
          /\ tx[t].phase = "write"
      BY <2>3, Flushed
    <3>2. CASE tx[t].op \in {"check", "probe", "pause"}
      <4>1. OwnShape(t, tx[t]) /\ tx[t].todo = <<Target[t]>>
        BY <1>2, <3>1, <3>2 DEF Shape, OwnShape
      <4>2. d = Target[t] /\ tx'[t].todo = <<>>
        BY <3>1, <4>1 DEF Current
      <4>3. OwnShape(t, tx'[t])
        BY <3>1, <4>1, <4>2 DEF OwnShape
      <4> QED  BY <1>2, <3>1, <3>2, <4>2, <4>3 DEF Shape
    <3>3. CASE tx[t].op = "sync"
      <4>1. /\ tx[t].todo \in Seq(Devices) /\ SyncOrder \in Seq(Devices)
            /\ SyncShape(tx[t])
        BY <1>2, <3>3, SettingsAssumption DEF Transaction, Shape
      <4>2. /\ Len(tx'[t].todo) = Len(tx[t].todo) - 1
            /\ \A n \in 1..Len(tx'[t].todo) : tx'[t].todo[n] = tx[t].todo[n + 1]
            /\ Len(tx[t].todo) \in Nat \ {0} /\ d = tx[t].todo[1]
            /\ Len(SyncOrder) \in Nat
        BY <3>1, <4>1 DEF Current
      <4> DEFINE done == Len(SyncOrder) - Len(tx[t].todo)
                 left == Len(tx'[t].todo)
      <4>3. /\ done \in Nat
            /\ \A n \in 1..Len(tx[t].todo) : tx[t].todo[n] = SyncOrder[done + n]
            /\ \A e \in Devices : tx[t].rows[e].exists => \E n \in 1..done : e = SyncOrder[n]
        BY <4>1 DEF SyncShape
      <4>4. /\ left \in Nat /\ Len(tx[t].todo) = left + 1
            /\ Len(SyncOrder) - left = done + 1
        BY <4>2
      <4> HIDE DEF done, left
      <4>5. d = SyncOrder[done + 1] /\ done + 1 \in 1..(done + 1)
        <5>1. 1 \in 1..Len(tx[t].todo) /\ done + 1 \in 1..(done + 1)
          BY <4>3, <4>4
        <5>2. tx[t].todo[1] = SyncOrder[done + 1]
          BY <4>3, <5>1
        <5> QED  BY <4>2, <5>1, <5>2
      <4>6. ASSUME NEW n \in 1..left
            PROVE  tx'[t].todo[n] = SyncOrder[(done + 1) + n]
        <5>1. n + 1 \in 1..Len(tx[t].todo) /\ done + (n + 1) = (done + 1) + n
          BY <4>3, <4>4
        <5>2. tx'[t].todo[n] = tx[t].todo[n + 1]
          BY <4>2 DEF left
        <5> QED  BY <4>3, <5>1, <5>2
      <4>7. ASSUME NEW e \in Devices, tx'[t].rows[e].exists
            PROVE  \E n \in 1..(done + 1) : e = SyncOrder[n]
        <5>1. CASE e = d
          BY <4>5, <5>1
        <5>2. CASE e # d
          <6>1. PICK n \in 1..done : e = SyncOrder[n]
            BY <3>1, <4>3, <4>7, <5>2
          <6>2. n \in 1..(done + 1)
            BY <4>3
          <6> QED  BY <6>1, <6>2
        <5> QED  BY <5>1, <5>2
      <4>8. SyncShape(tx'[t])
        <5> DEFINE k == Len(SyncOrder) - Len(tx'[t].todo)
        <5>1. k = done + 1
          BY <4>4 DEF left
        <5> HIDE DEF k
        <5>2. /\ k \in Nat
              /\ \A n \in 1..Len(tx'[t].todo) : tx'[t].todo[n] = SyncOrder[k + n]
          BY <4>3, <4>6, <5>1 DEF left
        <5>3. \A e \in Devices : tx'[t].rows[e].exists => \E n \in 1..k : e = SyncOrder[n]
          BY <4>7, <5>1
        <5> QED  BY <5>2, <5>3 DEF SyncShape, k
      <4> QED  BY <1>2, <3>1, <3>3, <4>8 DEF Shape
    <3> QED  BY <1>2, <3>1, <3>2, <3>3 DEF Transaction
  <2> QED  BY <2>1, <2>2, <2>3 DEF Advance
<1>4. \A u \in Writers \ {t} : Shape(u, tx'[u])
  BY <1>1 DEF Types
<1> QED  BY <1>1, <1>3, <1>4 DEF Types

LEMMA NextTypes ==
  ASSUME Types, [Next]_vars
  PROVE  Types'
<1>1. CASE UNCHANGED vars
  BY <1>1 DEF vars, Types, TypeOK
<1>2. CASE Tick
  <2>1. now' \in 0..MaxTime
    BY <1>2, ConstantTypes DEF Tick, Types, TypeOK
  <2> QED  BY <1>2, <2>1 DEF Tick, Types, TypeOK
<1>3. ASSUME NEW t \in Checks, StartCheck(t) PROVE Types'
  BY <1>3, BeginShapes DEF StartCheck
<1>4. ASSUME NEW t \in Probes, StartProbe(t) PROVE Types'
  BY <1>4, BeginShapes DEF StartProbe
<1>5. ASSUME NEW t \in Clients, StartPause(t) PROVE Types'
  BY <1>5, BeginShapes DEF StartPause
<1> QED
  BY <1>1, <1>2, <1>3, <1>4, <1>5, SyncShapes, AdvanceShapes DEF Next, Bounded

LEMMA InitTypes ==
  ASSUME Init
  PROVE  Types
<1>1. tx \in [Writers -> Transaction]
  BY NoTxType DEF Init
<1>2. TypeOK
  BY <1>1, AbsentType, ConstantTypes DEF Init, TypeOK, Transaction
<1>3. \A t \in Writers : Shape(t, tx[t])
  BY DEF Init, NoTx, Absent, Shape
<1> QED  BY <1>1, <1>2, <1>3 DEF Types

LEMMA TypesInvariant == Spec => []Types
<1>1. Types /\ [Next]_vars => Types'
  BY NextTypes
<1> QED  BY InitTypes, <1>1, PTL DEF Spec

(* Type correctness of the writers of device_settings.                     *)
THEOREM SettingsTypeCorrect == Spec => []TypeOK
<1>1. Types => TypeOK
  BY DEF Types
<1> QED  BY <1>1, TypesInvariant, PTL

-----------------------------------------------------------------------------
(* What a step does to the rows                                            *)

(* A transaction that begins, fails or is left alone has no row it did not *)
(* have; only a flush writes one, only a commit changes the table.         *)
Quiet ==
    /\ UNCHANGED <<setting, drifts, asked, answered>>
    /\ \A t \in Writers :
          \/ tx'[t] = tx[t]
          \/ /\ tx'[t].phase \in {"idle", "select"}
             /\ \A d \in Devices : ~tx'[t].rows[d].exists
          \/ Select(t)

LEMMA BeginQuiet ==
  ASSUME Types, NEW t \in Writers, NEW op, NEW ds, NEW answer, Begin(t, op, ds, answer)
  PROVE  Quiet
<1>1. NoTx.rows = [d \in Devices |-> Absent]
  BY DEF NoTx
<1> DEFINE r == [NoTx EXCEPT !.op = op, !.device = Head(ds), !.todo = ds,
                             !.phase = "select", !.at = now, !.answer = answer]
<1>2. r.phase = "select" /\ \A d \in Devices : ~r.rows[d].exists
  BY <1>1, NoTxType, AbsentType DEF Transaction
<1>3. tx' = [tx EXCEPT ![t] = r] /\ UNCHANGED <<setting, drifts, asked, answered>>
  BY DEF Begin
<1> HIDE DEF r
<1>4. \A u \in Writers : tx'[u] = IF u = t THEN r ELSE tx[u]
  BY <1>3 DEF Types
<1> QED  BY <1>2, <1>3, <1>4 DEF Quiet

LEMMA Moves ==
  ASSUME Types, [Next]_vars
  PROVE  Quiet \/ \E t \in Writers : Flush(t) \/ Commit(t)
<1>1. CASE UNCHANGED vars \/ Tick
  BY <1>1 DEF vars, Tick, Quiet
<1>2. ASSUME NEW t \in Writers, NEW op, NEW ds, NEW answer, Begin(t, op, ds, answer)
      PROVE  Quiet
  BY <1>2, BeginQuiet
<1>3. ASSUME NEW t \in Writers, Select(t) PROVE Quiet
  BY <1>3 DEF Select, Quiet, Types
<1>4. ASSUME NEW t \in Writers, Fail(t) PROVE Quiet
  BY <1>4, NoTxType DEF Fail, End, Quiet, Types, NoTx, Absent
<1>5. CASE \E t \in Writers : StartCheck(t) \/ StartProbe(t) \/ StartSync(t) \/ StartPause(t)
  BY <1>2, <1>5 DEF StartCheck, StartProbe, StartSync, StartPause
<1> QED
  BY <1>1, <1>3, <1>4, <1>5 DEF Next, Bounded, Advance, Writers

(* A flush changes one row, which nobody else has written, and no column   *)
(* of it that is another writer's.                                         *)
LEMMA MergedFields ==
  ASSUME NEW t, NEW row \in Setting, tx[t] \in Transaction, tx[t].op # "none"
  PROVE  LET w == Merged(t, row)
             r == tx[t]
         IN  /\ w.exists
             /\ w.seen = IF r.op = "probe" /\ r.answer /\ r.at # r.loaded.seen
                         THEN r.at ELSE row.seen
             /\ w.paused = IF r.op = "pause" /\ r.answer # r.loaded.paused
                           THEN r.answer ELSE row.paused
             /\ w.collected = IF r.op = "check" /\ r.at # r.loaded.collected
                              THEN r.at ELSE row.collected
<1>1. DOMAIN row = {"exists", "paused", "pausedAt", "collected", "reachable", "checkedAt",
                    "seen", "expiry"}
  BY DEF Setting
<1>2. tx[t].loaded \in Setting /\ tx[t].op \in {"check", "probe", "sync", "pause"}
  BY DEF Transaction
<1> DEFINE new == Assigned(t, tx[t].loaded)
<1>3. /\ new.seen = IF tx[t].op = "probe" /\ tx[t].answer THEN tx[t].at ELSE tx[t].loaded.seen
      /\ new.paused = IF tx[t].op = "pause" THEN tx[t].answer ELSE tx[t].loaded.paused
      /\ new.collected = IF tx[t].op = "check" THEN tx[t].at ELSE tx[t].loaded.collected
  BY <1>2 DEF Assigned, Setting
<1> HIDE DEF new
<1>4. \A f \in DOMAIN row : Merged(t, row)[f] =
          IF f = "exists" THEN TRUE
          ELSE IF new[f] # tx[t].loaded[f] THEN new[f] ELSE row[f]
  BY DEF Merged, new
<1>5. Merged(t, row).exists
  BY <1>1, <1>4
<1>6. Merged(t, row).seen = IF new.seen # tx[t].loaded.seen THEN new.seen ELSE row.seen
  BY <1>1, <1>4
<1>7. Merged(t, row).paused = IF new.paused # tx[t].loaded.paused THEN new.paused ELSE row.paused
  BY <1>1, <1>4
<1>8. Merged(t, row).collected =
          IF new.collected # tx[t].loaded.collected THEN new.collected ELSE row.collected
  BY <1>1, <1>4
<1> QED  BY <1>3, <1>5, <1>6, <1>7, <1>8

LEMMA Written ==
  ASSUME Types, NEW t \in Writers, Flush(t)
  PROVE  LET r == tx[t]
             d == Current(t)
             w == tx'[t].rows[d]
             seen == IF r.op = "probe" /\ r.answer /\ r.at # r.loaded.seen
                     THEN r.at ELSE setting[d].seen
             paused == IF r.op = "pause" /\ r.answer # r.loaded.paused
                       THEN r.answer ELSE setting[d].paused
             collected == IF r.op = "check" /\ r.at # r.loaded.collected
                          THEN r.at ELSE setting[d].collected
         IN  /\ setting' = setting
             /\ \A u \in Writers \ {t} : tx'[u] = tx[u] /\ ~tx[u].rows[d].exists
             /\ w.exists => w.seen = seen /\ w.paused = paused /\ w.collected = collected
             /\ ~w.exists => /\ setting[d].seen = seen /\ setting[d].paused = paused
                             /\ setting[d].collected = collected
<1> DEFINE d == Current(t)
           m == Merged(t, setting[d])
<1>1. tx[t] \in Transaction /\ tx[t].op # "none" /\ d \in Devices /\ setting[d] \in Setting
  BY Flushed DEF Types, TypeOK
<1>2. /\ m.exists
      /\ m.seen = IF tx[t].op = "probe" /\ tx[t].answer /\ tx[t].at # tx[t].loaded.seen
                  THEN tx[t].at ELSE setting[d].seen
      /\ m.paused = IF tx[t].op = "pause" /\ tx[t].answer # tx[t].loaded.paused
                    THEN tx[t].answer ELSE setting[d].paused
      /\ m.collected = IF tx[t].op = "check" /\ tx[t].at # tx[t].loaded.collected
                       THEN tx[t].at ELSE setting[d].collected
  BY <1>1, MergedFields
<1>3. tx'[t].rows[d] = IF m = setting[d] THEN Absent ELSE m
  BY ZenonT(30), <1>1, Flushed DEF Types, Transaction
<1>4. \A u \in Writers \ {t} : tx'[u] = tx[u]
  BY AdvanceTypes DEF Types, Advance
<1>5. setting' = setting /\ \A u \in Writers \ {t} : ~tx[u].rows[d].exists
  BY DEF Flush, Free, WaitsFor
<1> HIDE DEF m, d
<1>6. CASE m = setting[d]
  <2>1. ~tx'[t].rows[d].exists
    BY <1>3, <1>6, AbsentType
  <2> QED  BY <1>2, <1>4, <1>5, <1>6, <2>1 DEF d
<1>7. CASE m # setting[d]
  BY <1>2, <1>3, <1>4, <1>5, <1>7 DEF d
<1> QED  BY <1>6, <1>7

(* A commit publishes the rows of its transaction and ends it.             *)
LEMMA Committed ==
  ASSUME Types, Locks, NEW t \in Writers, Commit(t)
  PROVE  /\ \A d \in Devices : ~tx'[t].rows[d].exists
         /\ tx'[t].phase = "idle" /\ tx'[t].op = "none"
         /\ \A u \in Writers \ {t} : tx'[u] = tx[u]
         /\ \A d \in Devices :
                setting'[d] = IF tx[t].rows[d].exists THEN tx[t].rows[d] ELSE setting[d]
         /\ \A u \in Writers \ {t}, d \in Devices :
                tx[u].rows[d].exists => setting'[d] = setting[d]
<1>1. tx'[t] = NoTx /\ \A u \in Writers \ {t} : tx'[u] = tx[u]
  BY DEF Commit, End, Types
<1>2. \A d \in Devices :
          setting'[d] = IF tx[t].rows[d].exists THEN tx[t].rows[d] ELSE setting[d]
  BY DEF Commit
<1>3. /\ tx'[t].phase = "idle" /\ tx'[t].op = "none"
      /\ \A d \in Devices : ~tx'[t].rows[d].exists
  BY <1>1, AbsentType DEF NoTx
<1> QED  BY <1>1, <1>2, <1>3 DEF Locks

(* A select changes only what is loaded: the committed row.                *)
LEMMA Loaded ==
  ASSUME Types, NEW t \in Writers, Select(t)
  PROVE  /\ tx'[t].rows = tx[t].rows /\ tx'[t].op = tx[t].op
         /\ tx'[t].device = tx[t].device /\ tx'[t].at = tx[t].at
         /\ tx'[t].answer = tx[t].answer /\ tx'[t].todo = tx[t].todo
         /\ tx'[t].phase = "write" /\ tx'[t].loaded = setting[Current(t)]
         /\ tx[t].todo # <<>> /\ Current(t) \in Devices
<1>1. tx[t] \in Transaction /\ Shape(t, tx[t]) /\ tx[t].phase = "select"
  BY DEF Types, Select
<1>2. tx[t].todo # <<>> /\ Current(t) \in Devices
  BY <1>1 DEF Shape, Transaction, Current
<1> QED  BY <1>1, <1>2 DEF Select, Types, Transaction

LEMMA NextLocks ==
  ASSUME Types, Locks, Disjoint, [Next]_vars
  PROVE  Locks' /\ Disjoint'
<1>1. CASE Quiet
  <2>1. /\ setting' = setting
        /\ \A t \in Writers, d \in Devices : tx'[t].rows[d].exists =>
               tx'[t].rows = tx[t].rows /\ tx'[t].op = tx[t].op
    BY <1>1, Loaded DEF Quiet
  <2> QED  BY <2>1 DEF Locks, Disjoint
<1>2. ASSUME NEW t \in Writers, Flush(t) PROVE Locks' /\ Disjoint'
  <2> DEFINE d == Current(t)
  <2>1. /\ d \in Devices /\ tx'[t].op = tx[t].op /\ setting' = setting
        /\ \A u \in Writers \ {t} : tx'[u] = tx[u] /\ ~tx[u].rows[d].exists
        /\ \A e \in Devices \ {d} : tx'[t].rows[e] = tx[t].rows[e]
    BY <1>2, Flushed, Written
  <2>2. tx'[t].rows[d].exists =>
            /\ tx[t].op # "probe" => tx'[t].rows[d].seen = setting[d].seen
            /\ tx[t].op # "pause" => tx'[t].rows[d].paused = setting[d].paused
            /\ tx[t].op # "check" => tx'[t].rows[d].collected = setting[d].collected
    BY <1>2, Written
  <2> HIDE DEF d
  <2>3. Locks'
    BY <2>1 DEF Locks
  <2>4. Disjoint'
    BY <2>1, <2>2 DEF Disjoint
  <2> QED  BY <2>3, <2>4
<1>3. ASSUME NEW t \in Writers, Commit(t) PROVE Locks' /\ Disjoint'
  BY <1>3, Committed DEF Locks, Disjoint
<1> QED  BY <1>1, <1>2, <1>3, Moves

RowsInv == Types /\ Locks /\ Disjoint

LEMMA RowsInvariant == Spec => []RowsInv
<1>1. Init => RowsInv
  BY InitTypes, AbsentType DEF Init, NoTx, Locks, Disjoint, RowsInv
<1>2. RowsInv /\ [Next]_vars => RowsInv'
  BY NextTypes, NextLocks DEF RowsInv
<1> QED  BY <1>1, <1>2, PTL DEF Spec

-----------------------------------------------------------------------------
(* No lost update                                                          *)

(* What a probe loaded of "last seen" is what the row still has, and once  *)
(* it has written, the column is the instant of an answered probe.         *)
SeenFresh(t) ==
    LET r == tx[t]
        s == setting[r.device]
        w == r.rows[r.device]
    IN  r.op = "probe" =>
            /\ r.phase = "write" => r.loaded.seen = s.seen
            /\ r.phase = "commit" =>
                   (IF w.exists THEN w.seen ELSE s.seen) = IF r.answer THEN r.at ELSE s.seen

SeenInv ==
    /\ \A t \in Writers : SeenFresh(t)
    /\ \A d \in Devices : setting[d].seen = answered[d]

(* The same of a pause request and the kill-switch.                        *)
PausedFresh(t) ==
    LET r == tx[t]
        s == setting[r.device]
        w == r.rows[r.device]
    IN  r.op = "pause" =>
            /\ r.phase = "write" => r.loaded.paused = s.paused
            /\ r.phase = "commit" => (IF w.exists THEN w.paused ELSE s.paused) = r.answer

PausedInv ==
    /\ \A t \in Writers : PausedFresh(t)
    /\ \A d \in Devices : setting[d].paused = asked[d]

(* A transaction with one device is about it alone.                        *)
LEMMA OwnDevice ==
  ASSUME Types, NEW t \in Writers, tx[t].op \in {"check", "probe", "pause"}
  PROVE  /\ tx[t].device \in Devices /\ tx[t].device = Target[t]
         /\ tx[t].todo # <<>> => Current(t) = tx[t].device
         /\ \A d \in Devices : tx[t].rows[d].exists => d = tx[t].device
         /\ tx[t].op = "probe" => t \in Probes
         /\ tx[t].op = "pause" => t \in Clients
         /\ tx[t].at \in 0..MaxTime
<1>1. OwnShape(t, tx[t]) /\ tx[t].at \in 0..MaxTime
  BY DEF Types, Shape
<1> QED  BY <1>1, ConstantTypes DEF OwnShape, Current

LEMMA SeenInit == Init => SeenInv
BY DEF Init, NoTx, Absent, SeenInv, SeenFresh, None

LEMMA NextSeen ==
  ASSUME RowsInv, RowsInv', SeenInv, [Next]_vars
  PROVE  SeenInv'
<1> USE DEF RowsInv
<1>1. CASE Quiet
  <2>1. ASSUME NEW t \in Writers PROVE SeenFresh(t)'
    <3>1. CASE tx'[t] = tx[t]
      BY <1>1, <3>1 DEF Quiet, SeenInv, SeenFresh
    <3>2. CASE tx'[t].phase \in {"idle", "select"}
      BY <3>2 DEF SeenFresh
    <3>3. CASE Select(t)
      <4>1. CASE tx[t].op = "probe"
        <5>1. tx'[t].loaded.seen = setting[tx'[t].device].seen /\ tx'[t].phase = "write"
          BY <3>3, <4>1, Loaded, OwnDevice
        <5> QED  BY <1>1, <5>1 DEF Quiet, SeenFresh
      <4>2. CASE tx[t].op # "probe"
        BY <3>3, <4>2, Loaded DEF SeenFresh
      <4> QED  BY <4>1, <4>2
    <3> QED  BY <1>1, <3>1, <3>2, <3>3 DEF Quiet
  <2> QED  BY <1>1, <2>1 DEF Quiet, SeenInv
<1>2. ASSUME NEW t \in Writers, Flush(t) PROVE SeenInv'
  <2> DEFINE d == Current(t)
  <2>1. /\ d \in Devices /\ tx[t].todo # <<>> /\ tx[t].phase = "write"
        /\ tx'[t].op = tx[t].op /\ tx'[t].device = tx[t].device
        /\ tx'[t].at = tx[t].at /\ tx'[t].answer = tx[t].answer
        /\ tx'[t].phase \in {"commit", "select"}
    BY <1>2, Flushed
  <2>2. /\ setting' = setting /\ answered' = answered
        /\ \A u \in Writers \ {t} : tx'[u] = tx[u]
    BY <1>2, Written DEF Flush
  <2>3. SeenFresh(t)'
    <3>1. CASE tx[t].op = "probe"
      <4>1. d = tx[t].device /\ tx[t].loaded.seen = setting[d].seen
        BY <2>1, <3>1, OwnDevice DEF SeenInv, SeenFresh
      <4> DEFINE w == tx'[t].rows[d]
      <4>2. (IF w.exists THEN w.seen ELSE setting[d].seen) =
                IF tx[t].answer /\ tx[t].at # tx[t].loaded.seen
                THEN tx[t].at ELSE setting[d].seen
        BY <1>2, <3>1, Written
      <4> HIDE DEF d
      <4> QED  BY <2>1, <2>2, <4>1, <4>2 DEF SeenFresh
    <3>2. CASE tx[t].op # "probe"
      BY <2>1, <3>2 DEF SeenFresh
    <3> QED  BY <3>1, <3>2
  <2>4. \A u \in Writers \ {t} : SeenFresh(u)'
    BY <2>2 DEF SeenInv, SeenFresh
  <2> QED  BY <2>2, <2>3, <2>4 DEF SeenInv
<1>3. ASSUME NEW t \in Writers, Commit(t) PROVE SeenInv'
  <2>1. /\ tx'[t].phase = "idle"
        /\ \A u \in Writers \ {t} : tx'[u] = tx[u]
        /\ \A d \in Devices :
               setting'[d] = IF tx[t].rows[d].exists THEN tx[t].rows[d] ELSE setting[d]
        /\ \A u \in Writers \ {t}, d \in Devices :
               tx[u].rows[d].exists => setting'[d] = setting[d]
    BY <1>3, Committed
  <2>2. ASSUME NEW u \in Writers \ {t} PROVE SeenFresh(u)'
    <3>1. CASE tx[u].op # "probe"
      BY <2>1, <3>1 DEF SeenFresh
    <3>2. CASE tx[u].op = "probe"
      <4> DEFINE d == tx[u].device
      <4>1. d \in Devices /\ d = Target[u] /\ u \in Probes
        BY <3>2, OwnDevice
      <4>2. setting'[d].seen = setting[d].seen
        <5>1. CASE tx[t].op = "probe"
          <6>1. t \in Probes /\ \A e \in Devices : tx[t].rows[e].exists => e = Target[t]
            BY <5>1, OwnDevice
          <6>2. ~tx[t].rows[d].exists
            BY <4>1, <6>1, SettingsAssumption
          <6> QED  BY <2>1, <4>1, <6>2
        <5>2. CASE tx[t].op # "probe"
          BY <2>1, <4>1, <5>2 DEF Disjoint
        <5> QED  BY <5>1, <5>2
      <4> QED  BY <2>1, <4>1, <4>2 DEF SeenInv, SeenFresh
    <3> QED  BY <3>1, <3>2
  <2>3. ASSUME NEW d \in Devices PROVE setting'[d].seen = answered'[d]
    <3>1. setting[d].seen = answered[d] /\ tx[t].phase = "commit"
      BY <1>3 DEF SeenInv, Commit
    <3>2. CASE tx[t].op # "probe"
      <4>1. answered' = answered
        BY <1>3, <3>2 DEF Commit
      <4> QED  BY <2>1, <3>1, <3>2, <4>1 DEF Disjoint
    <3>3. CASE tx[t].op = "probe"
      <4>1. /\ SeenFresh(t) /\ tx[t].device \in Devices
            /\ tx[t].rows[d].exists => d = tx[t].device
        BY <3>3, OwnDevice DEF SeenInv
      <4>2. answered'[d] = IF tx[t].answer /\ d = tx[t].device THEN tx[t].at ELSE answered[d]
        BY <1>3, <3>3 DEF Commit, Types, TypeOK
      <4> QED  BY <2>1, <3>1, <3>3, <4>1, <4>2 DEF SeenFresh
    <3> QED  BY <3>2, <3>3
  <2>4. SeenFresh(t)'
    BY <2>1 DEF SeenFresh
  <2> QED  BY <2>2, <2>3, <2>4 DEF SeenInv
<1> QED  BY <1>1, <1>2, <1>3, Moves

(* The pause requests about one device come one at a time.  Two that       *)
(* overlap may lose an update, as nothing in the endpoint orders a pause   *)
(* and a resume that each read the row before the other wrote it.          *)
OneClientPerDevice == \A c, e \in Clients : Target[c] = Target[e] => c = e

LEMMA PausedInit ==
  ASSUME Init
  PROVE  PausedInv
<1>1. \A t \in Writers : PausedFresh(t)
  BY DEF Init, NoTx, PausedFresh
<1>2. \A d \in Devices : setting[d].paused = asked[d]
  BY Zenon DEF Init, Absent
<1> QED  BY <1>1, <1>2 DEF PausedInv

LEMMA NextPaused ==
  ASSUME OneClientPerDevice, RowsInv, RowsInv', PausedInv, [Next]_vars
  PROVE  PausedInv'
<1> USE DEF RowsInv
<1>1. CASE Quiet
  <2>1. ASSUME NEW t \in Writers PROVE PausedFresh(t)'
    <3>1. CASE tx'[t] = tx[t]
      BY <1>1, <3>1 DEF Quiet, PausedInv, PausedFresh
    <3>2. CASE tx'[t].phase \in {"idle", "select"}
      BY <3>2 DEF PausedFresh
    <3>3. CASE Select(t)
      <4>1. CASE tx[t].op = "pause"
        <5>1. tx'[t].loaded.paused = setting[tx'[t].device].paused /\ tx'[t].phase = "write"
          BY <3>3, <4>1, Loaded, OwnDevice
        <5> QED  BY <1>1, <5>1 DEF Quiet, PausedFresh
      <4>2. CASE tx[t].op # "pause"
        BY <3>3, <4>2, Loaded DEF PausedFresh
      <4> QED  BY <4>1, <4>2
    <3> QED  BY <1>1, <3>1, <3>2, <3>3 DEF Quiet
  <2> QED  BY <1>1, <2>1 DEF Quiet, PausedInv
<1>2. ASSUME NEW t \in Writers, Flush(t) PROVE PausedInv'
  <2> DEFINE d == Current(t)
  <2>1. /\ d \in Devices /\ tx[t].todo # <<>> /\ tx[t].phase = "write"
        /\ tx'[t].op = tx[t].op /\ tx'[t].device = tx[t].device
        /\ tx'[t].at = tx[t].at /\ tx'[t].answer = tx[t].answer
        /\ tx'[t].phase \in {"commit", "select"}
    BY <1>2, Flushed
  <2>2. /\ setting' = setting /\ asked' = asked
        /\ \A u \in Writers \ {t} : tx'[u] = tx[u]
    BY <1>2, Written DEF Flush
  <2>3. PausedFresh(t)'
    <3>1. CASE tx[t].op = "pause"
      <4>1. d = tx[t].device /\ tx[t].loaded.paused = setting[d].paused
        BY <2>1, <3>1, OwnDevice DEF PausedInv, PausedFresh
      <4> DEFINE w == tx'[t].rows[d]
      <4>2. (IF w.exists THEN w.paused ELSE setting[d].paused) =
                IF tx[t].answer # tx[t].loaded.paused
                THEN tx[t].answer ELSE setting[d].paused
        BY <1>2, <3>1, Written
      <4> HIDE DEF d
      <4> QED  BY <2>1, <2>2, <4>1, <4>2 DEF PausedFresh
    <3>2. CASE tx[t].op # "pause"
      BY <2>1, <3>2 DEF PausedFresh
    <3> QED  BY <3>1, <3>2
  <2>4. \A u \in Writers \ {t} : PausedFresh(u)'
    BY <2>2 DEF PausedInv, PausedFresh
  <2> QED  BY <2>2, <2>3, <2>4 DEF PausedInv
<1>3. ASSUME NEW t \in Writers, Commit(t) PROVE PausedInv'
  <2>1. /\ tx'[t].phase = "idle"
        /\ \A u \in Writers \ {t} : tx'[u] = tx[u]
        /\ \A d \in Devices :
               setting'[d] = IF tx[t].rows[d].exists THEN tx[t].rows[d] ELSE setting[d]
        /\ \A u \in Writers \ {t}, d \in Devices :
               tx[u].rows[d].exists => setting'[d] = setting[d]
    BY <1>3, Committed
  <2>2. ASSUME NEW u \in Writers \ {t} PROVE PausedFresh(u)'
    <3>1. CASE tx[u].op # "pause"
      BY <2>1, <3>1 DEF PausedFresh
    <3>2. CASE tx[u].op = "pause"
      <4> DEFINE d == tx[u].device
      <4>1. d \in Devices /\ d = Target[u] /\ u \in Clients
        BY <3>2, OwnDevice
      <4>2. setting'[d].paused = setting[d].paused
        <5>1. CASE tx[t].op = "pause"
          <6>1. t \in Clients /\ \A e \in Devices : tx[t].rows[e].exists => e = Target[t]
            BY <5>1, OwnDevice
          <6>2. ~tx[t].rows[d].exists
            BY <4>1, <6>1 DEF OneClientPerDevice
          <6> QED  BY <2>1, <4>1, <6>2
        <5>2. CASE tx[t].op # "pause"
          BY <2>1, <4>1, <5>2 DEF Disjoint
        <5> QED  BY <5>1, <5>2
      <4> QED  BY <2>1, <4>1, <4>2 DEF PausedInv, PausedFresh
    <3> QED  BY <3>1, <3>2
  <2>3. ASSUME NEW d \in Devices PROVE setting'[d].paused = asked'[d]
    <3>1. setting[d].paused = asked[d] /\ tx[t].phase = "commit"
      BY <1>3 DEF PausedInv, Commit
    <3>2. CASE tx[t].op # "pause"
      <4>1. asked' = asked
        BY <1>3, <3>2 DEF Commit
      <4> QED  BY <2>1, <3>1, <3>2, <4>1 DEF Disjoint
    <3>3. CASE tx[t].op = "pause"
      <4>1. /\ PausedFresh(t) /\ tx[t].device \in Devices
            /\ tx[t].rows[d].exists => d = tx[t].device
        BY <3>3, OwnDevice DEF PausedInv
      <4>2. asked'[d] = IF d = tx[t].device THEN tx[t].answer ELSE asked[d]
        BY <1>3, <3>3 DEF Commit, Types, TypeOK
      <4> QED  BY <2>1, <3>1, <3>3, <4>1, <4>2 DEF PausedFresh
    <3> QED  BY <3>2, <3>3
  <2>4. PausedFresh(t)'
    BY <2>1 DEF PausedFresh
  <2> QED  BY <2>2, <2>3, <2>4 DEF PausedInv
<1> QED  BY <1>1, <1>2, <1>3, Moves

(* "Last seen" is the instant of the last answered probe, whatever the     *)
(* other writers of the row do meanwhile, and however many they are.       *)
THEOREM SeenIsLastAnswer == Spec => [](\A d \in Devices : setting[d].seen = answered[d])
<1>1. RowsInv /\ RowsInv' /\ SeenInv /\ [Next]_vars => SeenInv'
  BY NextSeen
<1>2. SeenInv => \A d \in Devices : setting[d].seen = answered[d]
  BY DEF SeenInv
<1> QED  BY <1>1, <1>2, SeenInit, RowsInvariant, PTL DEF Spec

(* No writer of the row undoes what another wrote, when the pause requests *)
(* of a device come one at a time.                                         *)
THEOREM NoUpdateLost ==
  ASSUME OneClientPerDevice
  PROVE  Spec => []NoLostUpdate
<1>1. RowsInv /\ RowsInv' /\ SeenInv /\ [Next]_vars => SeenInv'
  BY NextSeen
<1>2. RowsInv /\ RowsInv' /\ PausedInv /\ [Next]_vars => PausedInv'
  BY NextPaused
<1>3. SeenInv /\ PausedInv => NoLostUpdate
  BY DEF SeenInv, PausedInv, NoLostUpdate
<1> QED  BY <1>1, <1>2, <1>3, SeenInit, PausedInit, RowsInvariant, PTL DEF Spec

-----------------------------------------------------------------------------
(* Stamps and drift events                                                 *)

(* A stamp loaded is still there in some form, and the stamp a check has   *)
(* written is its own or a committed one.                                  *)
CheckFresh(t) ==
    LET r == tx[t]
        s == setting[r.device]
        w == r.rows[r.device]
    IN  r.op = "check" =>
            /\ r.phase = "write" /\ r.loaded.collected # None => s.collected # None
            /\ r.phase = "commit" =>
                   IF w.exists /\ w.collected # s.collected THEN w.collected = r.at
                   ELSE s.collected # None

StampInv == (\A t \in Writers : CheckFresh(t)) /\ StampsAreChecks

LEMMA StampInit == Init => StampInv
BY DEF Init, NoTx, Absent, StampInv, CheckFresh, StampsAreChecks, None

(* A commit stamps a device with its own check or leaves the stamp.        *)
LEMMA Stamped ==
  ASSUME RowsInv, StampInv, NEW t \in Writers, Commit(t), NEW d \in Devices
  PROVE  \/ setting'[d].collected = setting[d].collected
         \/ /\ tx[t].op = "check" /\ d = tx[t].device
            /\ setting'[d].collected = tx[t].at
<1> USE DEF RowsInv
<1>1. setting'[d] = IF tx[t].rows[d].exists THEN tx[t].rows[d] ELSE setting[d]
  BY Committed
<1>2. CASE tx[t].op # "check"
  BY <1>1, <1>2 DEF Disjoint
<1>3. CASE tx[t].op = "check"
  <2>1. CheckFresh(t) /\ tx[t].phase = "commit"
    BY DEF StampInv, Commit
  <2>2. tx[t].rows[d].exists => d = tx[t].device
    BY <1>3, OwnDevice
  <2> QED  BY <1>1, <1>3, <2>1, <2>2 DEF CheckFresh
<1> QED  BY <1>2, <1>3

LEMMA NextStamps ==
  ASSUME RowsInv, RowsInv', StampInv, [Next]_vars
  PROVE  StampInv'
<1> USE DEF RowsInv
<1>1. CASE Quiet
  <2>1. ASSUME NEW t \in Writers PROVE CheckFresh(t)'
    <3>1. CASE tx'[t] = tx[t]
      BY <1>1, <3>1 DEF Quiet, StampInv, CheckFresh
    <3>2. CASE tx'[t].phase \in {"idle", "select"}
      BY <3>2 DEF CheckFresh
    <3>3. CASE Select(t)
      <4>1. CASE tx[t].op = "check"
        <5>1. /\ tx'[t].loaded.collected = setting[tx'[t].device].collected
              /\ tx'[t].phase = "write"
          BY <3>3, <4>1, Loaded, OwnDevice
        <5> QED  BY <1>1, <5>1 DEF Quiet, CheckFresh
      <4>2. CASE tx[t].op # "check"
        BY <3>3, <4>2, Loaded DEF CheckFresh
      <4> QED  BY <4>1, <4>2
    <3> QED  BY <1>1, <3>1, <3>2, <3>3 DEF Quiet
  <2> QED  BY <1>1, <2>1 DEF Quiet, StampInv, StampsAreChecks
<1>2. ASSUME NEW t \in Writers, Flush(t) PROVE StampInv'
  <2> DEFINE d == Current(t)
  <2>1. /\ d \in Devices /\ tx[t].todo # <<>> /\ tx[t].phase = "write"
        /\ tx'[t].op = tx[t].op /\ tx'[t].device = tx[t].device
        /\ tx'[t].at = tx[t].at /\ tx'[t].phase \in {"commit", "select"}
    BY <1>2, Flushed
  <2>2. /\ setting' = setting /\ drifts' = drifts
        /\ \A u \in Writers \ {t} : tx'[u] = tx[u]
    BY <1>2, Written DEF Flush
  <2>3. CheckFresh(t)'
    <3>1. CASE tx[t].op = "check"
      <4>1. /\ d = tx[t].device /\ tx[t].at # None
            /\ tx[t].loaded.collected # None => setting[d].collected # None
        BY <2>1, <3>1, OwnDevice DEF StampInv, CheckFresh, None
      <4> DEFINE w == tx'[t].rows[d]
      <4>2. (IF w.exists THEN w.collected ELSE setting[d].collected) =
                IF tx[t].at # tx[t].loaded.collected
                THEN tx[t].at ELSE setting[d].collected
        BY <1>2, <3>1, Written
      <4> HIDE DEF d
      <4> QED  BY <2>1, <2>2, <4>1, <4>2 DEF CheckFresh
    <3>2. CASE tx[t].op # "check"
      BY <2>1, <3>2 DEF CheckFresh
    <3> QED  BY <3>1, <3>2
  <2>4. \A u \in Writers \ {t} : CheckFresh(u)'
    BY <2>2 DEF StampInv, CheckFresh
  <2> QED  BY <2>2, <2>3, <2>4 DEF StampInv, StampsAreChecks
<1>3. ASSUME NEW t \in Writers, Commit(t) PROVE StampInv'
  <2>1. /\ tx'[t].phase = "idle"
        /\ \A u \in Writers \ {t} : tx'[u] = tx[u]
        /\ \A u \in Writers \ {t}, d \in Devices :
               tx[u].rows[d].exists => setting'[d] = setting[d]
    BY <1>3, Committed
  <2>2. /\ tx[t].op = "check" =>
               /\ tx[t].device \in Devices /\ tx[t].at # None /\ tx[t].answer \in BOOLEAN
               /\ drifts' = drifts \cup {<<tx[t].device, tx[t].at, tx[t].answer>>}
        /\ tx[t].op # "check" => drifts' = drifts
    BY <1>3, OwnDevice DEF Commit, None, Types, Transaction
  <2>3. ASSUME NEW u \in Writers \ {t} PROVE CheckFresh(u)'
    <3>1. CASE tx[u].op # "check"
      BY <2>1, <3>1 DEF CheckFresh
    <3>2. CASE tx[u].op = "check"
      <4> DEFINE d == tx[u].device
      <4>1. d \in Devices
        BY <3>2, OwnDevice
      <4>2. setting[d].collected # None => setting'[d].collected # None
        BY <1>3, <2>2, <4>1, Stamped
      <4>3. tx[u].rows[d].exists => setting'[d] = setting[d]
        BY <2>1, <4>1
      <4> QED  BY <2>1, <4>2, <4>3 DEF StampInv, CheckFresh
    <3> QED  BY <3>1, <3>2
  <2>4. ASSUME NEW d \in Devices, setting'[d].collected # None
        PROVE  \E found \in BOOLEAN : <<d, setting'[d].collected, found>> \in drifts'
    BY <1>3, <2>2, <2>4, Stamped DEF StampInv, StampsAreChecks
  <2>5. ASSUME NEW d \in Devices, setting'[d].collected = None, NEW e \in drifts'
        PROVE  e[1] # d
    <3>1. setting[d].collected = None
      BY <1>3, <2>2, <2>5, Stamped
    <3>2. CASE e \in drifts
      BY <3>1, <3>2 DEF StampInv, StampsAreChecks
    <3>3. CASE tx[t].op = "check" /\ e = <<tx[t].device, tx[t].at, tx[t].answer>>
      <4>1. CASE d = tx[t].device
        <5>1. CheckFresh(t) /\ tx[t].phase = "commit"
          BY <1>3 DEF StampInv, Commit
        <5>2. setting'[d] = IF tx[t].rows[d].exists THEN tx[t].rows[d] ELSE setting[d]
          BY <1>3, Committed
        <5> QED  BY <2>2, <2>5, <3>1, <3>3, <4>1, <5>1, <5>2 DEF CheckFresh
      <4>2. CASE d # tx[t].device
        BY <3>3, <4>2
      <4> QED  BY <4>1, <4>2
    <3> QED  BY <2>2, <3>2, <3>3
  <2>6. CheckFresh(t)'
    BY <2>1 DEF CheckFresh
  <2> QED  BY <2>3, <2>4, <2>5, <2>6 DEF StampInv, StampsAreChecks
<1> QED  BY <1>1, <1>2, <1>3, Moves

(* The stamp of a device and the drift events of its checks become visible *)
(* together, however the checks overlap one another and the other writers. *)
THEOREM StampsMatchChecks == Spec => []StampsAreChecks
<1>1. RowsInv /\ RowsInv' /\ StampInv /\ [Next]_vars => StampInv'
  BY NextStamps
<1>2. StampInv => StampsAreChecks
  BY DEF StampInv
<1> QED  BY <1>1, <1>2, StampInit, RowsInvariant, PTL DEF Spec

-----------------------------------------------------------------------------
(* No deadlock                                                             *)

LEMMA LeastExists ==
  ASSUME NEW N \in SUBSET Nat, N # {}
  PROVE  \E m \in N : \A n \in N : m <= n
<1>1. PICK m \in N : \A n \in N : ~(<<n, m>> \in OpToRel(<, Nat))
  BY NatLessThanWellFounded, WFMin
<1>2. ASSUME NEW n \in N PROVE m <= n
  <2>1. SUFFICES ASSUME n < m PROVE FALSE
    OBVIOUS
  <2>2. <<n, m>> \in Nat \X Nat /\ <<n, m>>[1] < <<n, m>>[2]
    BY <2>1
  <2>3. <<n, m>> \in OpToRel(<, Nat)
    BY <2>2 DEF OpToRel
  <2> QED  BY <1>1, <2>3
<1> QED  BY <1>2

(* Whoever waits and is waited for is the sync: the others have nothing    *)
(* written when they wait.                                                 *)
LEMMA WaitsAndHolds ==
  ASSUME Types, NEW t \in Writers, NEW u \in Writers, NEW v \in Writers,
         WaitsFor(t, u), WaitsFor(u, v)
  PROVE  tx[u].op = "sync"
<1>1. /\ Shape(t, tx[t]) /\ Shape(u, tx[u]) /\ tx[t] \in Transaction /\ tx[u] \in Transaction
      /\ tx[t].phase = "write" /\ tx[u].phase = "write"
  BY DEF Types, WaitsFor
<1>2. Current(t) \in Devices /\ tx[u].rows[Current(t)].exists
  BY <1>1 DEF Shape, Current, WaitsFor, Transaction
<1>3. tx[u].op \notin {"none", "check", "probe", "pause"}
  BY <1>1, <1>2 DEF Shape, OwnShape
<1> QED  BY <1>1, <1>3 DEF Transaction

(* One sync waits only for another that is further on.                     *)
LEMMA WaitsForAhead ==
  ASSUME Types, NEW u \in Writers, NEW v \in Writers, WaitsFor(u, v),
         tx[u].op = "sync", tx[v].op = "sync"
  PROVE  Len(tx[v].todo) < Len(tx[u].todo)
<1> DEFINE L == Len(SyncOrder)
           p == Len(tx[u].todo)
           q == Len(tx[v].todo)
<1>1. /\ tx[u].todo \in Seq(Devices) /\ tx[v].todo \in Seq(Devices)
      /\ SyncOrder \in Seq(Devices) /\ SyncShape(tx[u]) /\ SyncShape(tx[v])
      /\ tx[u].todo # <<>>
  BY SettingsAssumption DEF Types, Transaction, Shape, WaitsFor
<1>2. /\ L \in Nat /\ p \in Nat \ {0} /\ q \in Nat
      /\ Current(u) = tx[u].todo[1] /\ Current(u) \in Devices
  BY <1>1 DEF Current
<1>3. /\ L - p \in Nat /\ \A n \in 1..p : tx[u].todo[n] = SyncOrder[L - p + n]
  BY <1>1 DEF SyncShape
<1>4. Current(u) = SyncOrder[L - p + 1]
  <2>1. 1 \in 1..p
    BY <1>2
  <2> QED  BY <1>2, <1>3, <2>1
<1>5. L - q \in Nat /\ \E n \in 1..(L - q) : Current(u) = SyncOrder[n]
  BY <1>1, <1>2 DEF SyncShape, WaitsFor
<1>6. PICK n \in 1..(L - q) : Current(u) = SyncOrder[n]
  BY <1>5
<1>7. n \in 1..L /\ L - p + 1 \in 1..L
  BY <1>2, <1>3, <1>5
<1>8. n = L - p + 1
  BY <1>4, <1>6, <1>7, SettingsAssumption
<1>9. q < p
  <2> HIDE DEF L, p, q
  <2> QED  BY <1>2, <1>5, <1>6, <1>8
<1> QED  BY <1>9

LEMMA TypesExcludeCycle ==
  ASSUME Types, NEW S \in SUBSET Writers, S # {},
         \A t \in S : \E u \in S \ {t} : WaitsFor(t, u)
  PROVE  FALSE
<1> DEFINE syncs == {u \in S : tx[u].op = "sync"}
           N == {Len(tx[u].todo) : u \in syncs}
<1>2. \A t, u \in S : WaitsFor(t, u) => u \in syncs
  <2>1. ASSUME NEW t \in S, NEW u \in S, WaitsFor(t, u) PROVE u \in syncs
    <3>1. PICK v \in S : WaitsFor(u, v)
      OBVIOUS
    <3> QED  BY <2>1, <3>1, WaitsAndHolds
  <2> QED  BY <2>1
<1>3. \E u \in S : u \in syncs
  <2>1. PICK t \in S : TRUE
    OBVIOUS
  <2> QED  BY <1>2, <2>1
<1>4. N \in SUBSET Nat /\ N # {}
  <2>1. \A u \in S : Len(tx[u].todo) \in Nat
    BY DEF Types, Transaction
  <2> QED  BY <1>3, <2>1
<1>5. PICK m \in N : \A n \in N : m <= n
  BY <1>4, LeastExists
<1>6. PICK u \in syncs : m = Len(tx[u].todo)
  BY <1>5
<1>7. PICK v \in S \ {u} : WaitsFor(u, v)
  BY <1>6
<1>8. v \in syncs /\ Len(tx[v].todo) < Len(tx[u].todo)
  BY <1>2, <1>6, <1>7, WaitsForAhead
<1>9. Len(tx[v].todo) \in N /\ m \in Nat /\ Len(tx[v].todo) \in Nat
  BY <1>4, <1>5, <1>8
<1> QED  BY <1>5, <1>6, <1>8, <1>9

LEMMA TypesExcludeCycles ==
  ASSUME Types
  PROVE  NoCircularWait
<1>1. ASSUME NEW S \in SUBSET Writers, S # {},
             ~ \E t \in S : \A u \in S \ {t} : ~WaitsFor(t, u)
      PROVE  FALSE
  BY <1>1, TypesExcludeCycle
<1> SUFFICES ASSUME NEW S \in (SUBSET Writers) \ {{}}
             PROVE  \E t \in S : \A u \in S \ {t} : ~WaitsFor(t, u)
  BY DEF NoCircularWait
<1>2. S \in SUBSET Writers /\ S # {}
  OBVIOUS
<1> QED  BY <1>1, <1>2

(* No set of transactions wait for one another, however many threads write *)
(* and whatever devices the syncs visit, since all visit them in one order. *)
THEOREM NeverCircular == Spec => []NoCircularWait
<1>1. Types => NoCircularWait
  BY TypesExcludeCycles
<1> QED  BY <1>1, TypesInvariant, PTL

-----------------------------------------------------------------------------
(* The accuracy report                                                     *)

Statuses == {"stale", "drifted", "accurate"}

(* Between its two queries, a report has seen some of the statuses that    *)
(* were true, the present one among them; a device it counts as drifted    *)
(* still is, and another was not so at the first query.                    *)
Witnessed(r) ==
    report[r].phase = "stamps" =>
        /\ report[r].cutoff \in Int
        /\ \A d \in Listed :
              LET truth == report[r].truth[d]
              IN  /\ truth \subseteq Statuses
                  /\ Status(d, report[r].cutoff, setting[d], drifts) \in truth
                  /\ d \in report[r].drifted => d \in DriftedSince(report[r].cutoff, drifts)
                  /\ d \notin report[r].drifted => "accurate" \in truth \/ "stale" \in truth

Report ==
    [phase : {"none", "stamps", "made"}, cutoff : Int, drifted : SUBSET Devices,
     truth : [Listed -> SUBSET Statuses], shown : [Listed -> Statuses \cup {"none"}]]

ReportInv ==
    /\ report \in [Readers -> Report]
    /\ \A r \in Readers : Witnessed(r)
    /\ ReportWasTrue

LEMMA StatusType ==
  ASSUME NEW d, NEW cutoff, NEW row, NEW checks
  PROVE  Status(d, cutoff, row, checks) \in Statuses
BY DEF Status, Classify, Statuses

(* Drift events are never taken back by the writers.                       *)
LEMMA DriftsGrow ==
  ASSUME [Next]_vars
  PROVE  drifts \subseteq drifts'
<1>1. ASSUME NEW t, Advance(t) PROVE drifts \subseteq drifts'
  BY <1>1 DEF Advance, Select, Flush, Fail, Commit
<1>2. ASSUME NEW t, NEW op, NEW ds, NEW answer, Begin(t, op, ds, answer)
      PROVE  drifts \subseteq drifts'
  BY <1>2 DEF Begin
<1> QED
  BY <1>1, <1>2 DEF Next, Tick, Bounded, StartCheck, StartProbe, StartSync, StartPause, vars

LEMMA NoReportType == NoReport \in Report
BY DEF NoReport, Report, Statuses

LEMMA WritersKeepReports ==
  ASSUME TypeOK, ReportInv, Next, Witness
  PROVE  ReportInv'
<1> DEFINE seen(r) == [d \in Listed |->
               report[r].truth[d] \cup {Status(d, report[r].cutoff, setting[d]', drifts')}]
<1>1. ASSUME NEW r \in Readers, report[r].phase = "stamps"
      PROVE  /\ report'[r] = [report[r] EXCEPT !.truth = seen(r)]
             /\ report'[r] \in Report /\ report'[r].truth = seen(r)
             /\ report'[r].phase = "stamps"
  <2>1. report'[r] = [report[r] EXCEPT !.truth = seen(r)]
    BY <1>1 DEF Witness, ReportInv, Report
  <2>2. seen(r) \in [Listed -> SUBSET Statuses]
    BY StatusType DEF ReportInv, Report
  <2>3. report[r] \in Report
    BY DEF ReportInv
  <2> HIDE DEF seen
  <2>4. /\ report'[r].truth = seen(r) /\ report'[r].phase = report[r].phase
        /\ report'[r] \in Report
    BY <2>1, <2>2, <2>3 DEF Report
  <2> QED  BY <1>1, <2>1, <2>4
<1>2. ASSUME NEW r \in Readers, report[r].phase # "stamps"
      PROVE  report'[r] = report[r]
  BY <1>2 DEF Witness
<1>3. report' \in [Readers -> Report]
  <2>1. \A r \in Readers : report'[r] \in Report
    BY <1>1, <1>2 DEF ReportInv
  <2>2. DOMAIN report' = Readers /\ report' = [r \in Readers |-> report'[r]]
    BY DEF Witness
  <2> QED  BY <2>1, <2>2
<1>4. ASSUME NEW r \in Readers, report[r].phase = "stamps" PROVE Witnessed(r)'
  <2> HIDE DEF seen
  <2>1. /\ report'[r].cutoff = report[r].cutoff /\ report'[r].drifted = report[r].drifted
        /\ report'[r].truth = seen(r) /\ Witnessed(r) /\ report[r].cutoff \in Int
    BY ZenonT(30), <1>1, <1>4 DEF ReportInv, Report
  <2>2. ASSUME NEW d \in Listed
        PROVE  /\ seen(r)[d] \subseteq Statuses
               /\ Status(d, report[r].cutoff, setting[d]', drifts') \in seen(r)[d]
               /\ d \notin report[r].drifted => "accurate" \in seen(r)[d] \/ "stale" \in seen(r)[d]
    BY <1>4, <2>1, StatusType DEF seen, Witnessed
  <2>3. ASSUME NEW d \in Listed, d \in report[r].drifted
        PROVE  d \in DriftedSince(report[r].cutoff, drifts')
    BY <1>4, <2>1, <2>3, DriftsGrow DEF Witnessed, DriftedSince
  <2> QED  BY <2>1, <2>2, <2>3 DEF Witnessed, ReportInv, Report
<1>5. \A r \in Readers : Witnessed(r)'
  BY <1>2, <1>4 DEF Witnessed
<1>6. ReportWasTrue'
  <2>1. \A r \in Readers : report'[r].phase = "made" => report'[r] = report[r]
    BY <1>1, <1>2
  <2> QED  BY <2>1 DEF ReportWasTrue, ReportInv
<1> QED  BY <1>3, <1>5, <1>6 DEF ReportInv

LEMMA ReadersKeepReports ==
  ASSUME TypeOK, ReportInv, UNCHANGED vars, NEW r \in Readers,
         QueryDrift(r) \/ QueryStamps(r) \/ Forget(r)
  PROVE  ReportInv'
<1> USE DEF ReportInv
<1>1. /\ setting' = setting /\ drifts' = drifts
      /\ \A q \in Readers \ {r} : report'[q] = report[q]
  BY DEF vars, QueryDrift, QueryStamps, Forget
<1>2. /\ report'[r] \in Report /\ Witnessed(r)'
      /\ report' = [report EXCEPT ![r] = report'[r]]
      /\ report'[r].phase = "made" => \A d \in Listed :
             \/ report'[r].shown[d] \in report'[r].truth[d]
             \/ report'[r].shown[d] = "accurate" /\ report'[r].truth[d] = {"stale", "drifted"}
  <2>1. CASE QueryDrift(r)
    <3> DEFINE cutoff == now - WINDOW
               first == [d \in Listed |-> {Status(d, cutoff, setting[d], drifts)}]
               new == [NoReport EXCEPT !.phase = "stamps", !.cutoff = cutoff,
                           !.drifted = DriftedSince(cutoff, drifts), !.truth = first]
    <3>1. cutoff \in Int /\ DriftedSince(cutoff, drifts) \in SUBSET Devices
      BY AccuracyAssumption DEF TypeOK, DriftedSince
    <3>2. first \in [Listed -> SUBSET Statuses]
      BY StatusType
    <3>3. report' = [report EXCEPT ![r] = new]
      BY <2>1 DEF QueryDrift
    <3> HIDE DEF cutoff, first
    <3>4. /\ new \in Report /\ new.phase = "stamps" /\ new.cutoff = cutoff
          /\ new.drifted = DriftedSince(cutoff, drifts) /\ new.truth = first
      BY <3>1, <3>2, NoReportType DEF Report
    <3> HIDE DEF new
    <3>5. report'[r] = new
      BY <3>3
    <3>6. ASSUME NEW d \in Listed
          PROVE  /\ first[d] = {Status(d, cutoff, setting[d], drifts)}
                 /\ d \notin DriftedSince(cutoff, drifts) =>
                        Status(d, cutoff, setting[d], drifts) \in {"accurate", "stale"}
      BY SettingsAssumption DEF first, Status, Classify, DriftedSince
    <3>7. Witnessed(r)'
      BY <1>1, <3>1, <3>4, <3>5, <3>6, StatusType DEF Witnessed
    <3> QED  BY <3>3, <3>4, <3>5, <3>7
  <2>2. CASE QueryStamps(r)
    <3> DEFINE shown == [d \in Listed |->
                   Classify(setting[d].collected, report[r].cutoff, d \in report[r].drifted)]
    <3>1. shown \in [Listed -> Statuses \cup {"none"}]
      BY DEF Classify, Statuses
    <3>2. /\ report[r].phase = "stamps" /\ report[r] \in Report
          /\ report' = [report EXCEPT ![r].phase = "made", ![r].shown = shown]
      BY <2>2 DEF QueryStamps
    <3> HIDE DEF shown
    <3>3. /\ report'[r] \in Report /\ report'[r].phase = "made"
          /\ report'[r].shown = shown /\ report'[r].truth = report[r].truth
          /\ report' = [report EXCEPT ![r] = report'[r]]
      BY <3>1, <3>2 DEF Report
    <3>4. ASSUME NEW d \in Listed
          PROVE  \/ shown[d] \in report[r].truth[d]
                 \/ shown[d] = "accurate" /\ report[r].truth[d] = {"stale", "drifted"}
      <4> DEFINE truth == report[r].truth[d]
                 current == Status(d, report[r].cutoff, setting[d], drifts)
                 stale == setting[d].collected = None \/ setting[d].collected < report[r].cutoff
      <4>1. /\ truth \subseteq Statuses /\ current \in truth
            /\ d \in report[r].drifted => d \in DriftedSince(report[r].cutoff, drifts)
            /\ d \notin report[r].drifted => "accurate" \in truth \/ "stale" \in truth
        BY <3>2 DEF Witnessed
      <4>2. /\ stale => shown[d] = "stale" /\ current = "stale"
            /\ ~stale /\ d \in report[r].drifted => shown[d] = "drifted"
            /\ ~stale /\ d \in report[r].drifted => current = "drifted"
            /\ ~stale /\ d \notin report[r].drifted => shown[d] = "accurate"
            /\ ~stale => current \in {"drifted", "accurate"}
        BY <4>1 DEF shown, Status, Classify, DriftedSince
      <4> HIDE DEF truth, current, stale
      <4>3. \/ shown[d] \in truth
            \/ shown[d] = "accurate" /\ truth = {"stale", "drifted"}
        BY <4>1, <4>2 DEF Statuses
      <4> QED  BY <4>3 DEF truth
    <3>5. Witnessed(r)'
      BY <3>3 DEF Witnessed
    <3> QED  BY <3>3, <3>4, <3>5
  <2>3. CASE Forget(r)
    <3>1. report' = [report EXCEPT ![r] = NoReport] /\ report'[r] = NoReport
      BY <2>3 DEF Forget
    <3>2. NoReport.phase = "none"
      BY DEF NoReport
    <3> QED  BY <3>1, <3>2, NoReportType DEF Witnessed
  <2> QED  BY <2>1, <2>2, <2>3
<1>3. report' \in [Readers -> Report]
  BY <1>2
<1>4. \A q \in Readers : Witnessed(q)'
  BY <1>1, <1>2 DEF Witnessed
<1>5. ReportWasTrue'
  BY <1>1, <1>2 DEF ReportWasTrue
<1> QED  BY <1>3, <1>4, <1>5

LEMMA AccuracyRefines == AccuracySpec => Spec
<1>1. AccuracyInit => Init
  BY DEF AccuracyInit
<1>2. [AccuracyNext]_everything => [Next]_vars
  BY DEF AccuracyNext, everything, QueryDrift, QueryStamps, Forget
<1> QED  BY <1>1, <1>2, PTL DEF AccuracySpec, Spec

(* What a report says of a device was so at some instant while it was made, *)
(* but for the one race named there, whatever the checks, probes, syncs    *)
(* and pause requests commit between its two queries.                      *)
THEOREM ReportsWereTrue == AccuracySpec => []ReportWasTrue
<1>1. AccuracyInit => ReportInv
  <2>1. ASSUME AccuracyInit PROVE ReportInv
    <3>1. report \in [Readers -> Report]
      BY <2>1, NoReportType DEF AccuracyInit
    <3>2. \A r \in Readers : report[r].phase = "none"
      BY <2>1 DEF AccuracyInit, NoReport
    <3> QED  BY <3>1, <3>2 DEF ReportInv, Witnessed, ReportWasTrue
  <2> QED  BY <2>1
<1>2. TypeOK /\ ReportInv /\ [AccuracyNext]_everything => ReportInv'
  <2>1. ASSUME TypeOK, ReportInv, UNCHANGED everything PROVE ReportInv'
    BY <2>1 DEF everything, vars, ReportInv, Witnessed, ReportWasTrue
  <2>2. ASSUME TypeOK, ReportInv, NEW r \in Readers,
               QueryDrift(r) \/ QueryStamps(r) \/ Forget(r)
        PROVE  ReportInv'
    <3>1. UNCHANGED vars
      BY <2>2 DEF QueryDrift, QueryStamps, Forget
    <3> QED  BY <2>2, <3>1, ReadersKeepReports
  <2> QED  BY <2>1, <2>2, WritersKeepReports DEF AccuracyNext
<1>3. ReportInv => ReportWasTrue
  BY DEF ReportInv
<1> QED
  BY <1>1, <1>2, <1>3, AccuracyRefines, SettingsTypeCorrect, PTL DEF AccuracySpec
=============================================================================

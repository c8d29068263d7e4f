-------------------------- MODULE RemediationProofs --------------------------
(***************************************************************************)
(* Theorems about diff() and about the cycle of detecting, applying and    *)
(* detecting again.                                                        *)
(***************************************************************************)
EXTENDS Remediation, TLAPS

-----------------------------------------------------------------------------
(* diff()                                                                  *)

(* A document of objects: names with the fields of their block.            *)
IsObjects(c) ==
    /\ \A o \in DOMAIN c : o[1] \in Blocks
    /\ c = [o \in DOMAIN c |-> c[o]]
    /\ \A o \in DOMAIN c : c[o] = [f \in FieldsOf(o) |-> c[o][f]]

(* Soundness and completeness: no record means the same objects with the   *)
(* same fields, and equal documents have no record.                        *)
THEOREM NoDriftIffEqual ==
  ASSUME NEW i, NEW r, IsObjects(i), IsObjects(r)
  PROVE  ObjectDiff(i, r) = {} <=> i = r
<1>1. ASSUME ObjectDiff(i, r) = {} PROVE i = r
  <2>1. DOMAIN i = DOMAIN r
    BY <1>1 DEF ObjectDiff, Lacking, Extra
  <2>2. ASSUME NEW o \in DOMAIN i PROVE i[o] = r[o]
    <3>1. ASSUME NEW f \in FieldsOf(o) PROVE i[o][f] = r[o][f]
      <4>1. SUFFICES ASSUME i[o][f] # r[o][f] PROVE FALSE
        OBVIOUS
      <4>2. Record(o, f, i[o][f], r[o][f], "value_mismatch", Mismatch(o[1], f, i[o][f]))
              \in Changed(i, r)
        BY <2>1, <4>1 DEF Changed
      <4> QED  BY <1>1, <4>2 DEF ObjectDiff
    <3> QED  BY <2>1, <3>1 DEF IsObjects
  <2> QED  BY <2>1, <2>2 DEF IsObjects
<1>2. ASSUME i = r PROVE ObjectDiff(i, r) = {}
  BY <1>2 DEF ObjectDiff, Lacking, Extra, Changed
<1> QED  BY <1>1, <1>2

(* A presence field is no field of its block.                              *)
LEMMA PresenceIsNoField ==
  ASSUME NEW b \in Blocks
  PROVE  Presence[b] \notin Fields[b]
BY DEF Blocks, Fields, Presence

(* An object and a field name one record at most: a drift is reported once *)
(* and fixed once.                                                         *)
THEOREM OneRecordPerField ==
  ASSUME NEW i, NEW r, IsObjects(i), IsObjects(r),
         NEW d \in ObjectDiff(i, r), NEW e \in ObjectDiff(i, r),
         d.object = e.object, d.field = e.field
  PROVE  d = e
<1>1. ASSUME NEW x \in Lacking(i, r)
      PROVE  /\ x.object \in DOMAIN i \ DOMAIN r
             /\ x = Record(x.object, Presence[x.object[1]], {"present"}, {"absent"},
                           "missing_in_reality", Missing(x.object[1]))
  BY DEF Lacking, Record
<1>2. ASSUME NEW x \in Extra(i, r)
      PROVE  /\ x.object \in DOMAIN r \ DOMAIN i
             /\ x = Record(x.object, Presence[x.object[1]], {"absent"}, {"present"},
                           "missing_in_intent", Undocumented(x.object[1]))
  BY DEF Extra, Record
<1>3. ASSUME NEW x \in Changed(i, r)
      PROVE  /\ x.object \in DOMAIN i \cap DOMAIN r
             /\ x.field \in FieldsOf(x.object)
             /\ x = Record(x.object, x.field, i[x.object][x.field], r[x.object][x.field],
                           "value_mismatch", Mismatch(x.object[1], x.field, i[x.object][x.field]))
  BY DEF Changed, Record
<1>4. CASE d \in Lacking(i, r) /\ e \in Lacking(i, r)
  BY <1>1, <1>4
<1>5. CASE d \in Extra(i, r) /\ e \in Extra(i, r)
  BY <1>2, <1>5
<1>6. CASE d \in Changed(i, r) /\ e \in Changed(i, r)
  BY <1>3, <1>6
<1>7. (d \in Lacking(i, r) => e \notin Extra(i, r) \cup Changed(i, r))
      /\ (d \in Extra(i, r) => e \notin Lacking(i, r) \cup Changed(i, r))
      /\ (d \in Changed(i, r) => e \notin Lacking(i, r) \cup Extra(i, r))
  BY <1>1, <1>2, <1>3
<1> QED  BY <1>4, <1>5, <1>6, <1>7 DEF ObjectDiff

(* Putting the intended value in a document removes that record only.      *)
LEMMA PutRemovesItsDrift ==
  ASSUME NEW i, NEW r, IsObjects(i), IsObjects(r),
         NEW d \in Changed(i, r)
  PROVE  ObjectDiff(i, Put(r, d.object, d.field, d.intent)) = ObjectDiff(i, r) \ {d}
<1> DEFINE s == Put(r, d.object, d.field, d.intent)
<1>0. PICK o \in DOMAIN i \cap DOMAIN r : \E f \in FieldsOf(o) :
         /\ i[o][f] # r[o][f]
         /\ d = Record(o, f, i[o][f], r[o][f], "value_mismatch", Mismatch(o[1], f, i[o][f]))
  BY DEF Changed
<1>1. PICK f \in FieldsOf(o) :
         /\ i[o][f] # r[o][f]
         /\ d = Record(o, f, i[o][f], r[o][f], "value_mismatch", Mismatch(o[1], f, i[o][f]))
  BY <1>0
<1>2. d.object = o /\ d.field = f /\ d.intent = i[o][f]
  BY <1>1 DEF Record
<1>3. DOMAIN s = DOMAIN r
  BY DEF Put
<1>4. \A p \in DOMAIN r : \A g \in FieldsOf(p) :
         s[p][g] = IF p = o /\ g = f THEN i[o][f] ELSE r[p][g]
  BY <1>2 DEF Put, IsObjects
<1>5. Lacking(i, s) = Lacking(i, r) /\ Extra(i, s) = Extra(i, r)
  BY <1>3 DEF Lacking, Extra
<1>6. Changed(i, s) = Changed(i, r) \ {d}
  <2>1. ASSUME NEW x \in Changed(i, s) PROVE x \in Changed(i, r) /\ x # d
    <3>0. PICK p \in DOMAIN i \cap DOMAIN s : \E g \in FieldsOf(p) :
             /\ i[p][g] # s[p][g]
             /\ x = Record(p, g, i[p][g], s[p][g], "value_mismatch", Mismatch(p[1], g, i[p][g]))
      BY DEF Changed
    <3>1. PICK g \in FieldsOf(p) :
             /\ i[p][g] # s[p][g]
             /\ x = Record(p, g, i[p][g], s[p][g], "value_mismatch", Mismatch(p[1], g, i[p][g]))
      BY <3>0
    <3>2. ~(p = o /\ g = f) /\ s[p][g] = r[p][g]
      BY <1>3, <1>4, <3>1
    <3>3. x \in Changed(i, r)
      BY <1>3, <3>1, <3>2 DEF Changed
    <3>4. x # d
      BY <1>1, <3>1, <3>2 DEF Record
    <3> QED  BY <3>3, <3>4
  <2>2. ASSUME NEW x \in Changed(i, r), x # d PROVE x \in Changed(i, s)
    <3>0. PICK p \in DOMAIN i \cap DOMAIN r : \E g \in FieldsOf(p) :
             /\ i[p][g] # r[p][g]
             /\ x = Record(p, g, i[p][g], r[p][g], "value_mismatch", Mismatch(p[1], g, i[p][g]))
      BY DEF Changed
    <3>1. PICK g \in FieldsOf(p) :
             /\ i[p][g] # r[p][g]
             /\ x = Record(p, g, i[p][g], r[p][g], "value_mismatch", Mismatch(p[1], g, i[p][g]))
      BY <3>0
    <3>2. ~(p = o /\ g = f)
      BY <1>1, <2>2, <3>1
    <3>3. s[p][g] = r[p][g]
      BY <1>4, <3>1, <3>2
    <3> QED  BY <1>3, <3>1, <3>3 DEF Changed
  <2> QED  BY <2>1, <2>2
<1>7. d \notin Lacking(i, r) /\ d \notin Extra(i, r)
  BY <1>1 DEF Lacking, Extra, Record
<1> QED  BY <1>5, <1>6, <1>7 DEF ObjectDiff

(* A setting that is read: the VLAN of a port in access mode, the list of  *)
(* one in trunk mode, and every other setting that can be rendered.        *)
Reads(x, f) ==
    /\ f = "untagged_vlan" => x.mode = {"access"}
    /\ f = "tagged_vlans" => x.mode = {"tagged"}
    /\ f # "mode"

(* What a collector shows of a port when such a setting is set.            *)
LEMMA ReadShows ==
  ASSUME platform \in {"arista_eos", "cisco_iosxe"},
         NEW x, x = [f \in Fields["interface"] |-> x[f]],
         NEW f \in Fields["interface"], Reads(x, f), NEW v,
         NEW y, y = [x EXCEPT ![f] = v]
  PROVE  ShownPort(y) = [ShownPort(x) EXCEPT ![f] = v]
<1> DEFINE Shape6(z) == z = [g \in Fields["interface"] |-> z[g]]
           Look(z) == [g \in Fields["interface"] |->
                CASE g = "untagged_vlan" -> IF z.mode = {"access"} THEN z[g] ELSE {}
                  [] g = "tagged_vlans" -> IF z.mode = {"tagged"} THEN z[g] ELSE {}
                  [] OTHER -> z[g]]
<1>1. ASSUME NEW z, Shape6(z) PROVE ShownPort(z) = Look(z)
  BY <1>1 DEF ShownPort, Fields
<1>2. Shape6(x) /\ Shape6(y) /\ y.mode = x.mode
  BY DEF Reads, Fields
<1>3. \A g \in Fields["interface"] : y[g] = IF g = f THEN v ELSE x[g]
  OBVIOUS
<1>4. Look(y) = [Look(x) EXCEPT ![f] = v]
  BY <1>2, <1>3 DEF Reads
<1> HIDE DEF Look, Shape6
<1>5. ShownPort(y) = Look(y) /\ ShownPort(x) = Look(x)
  BY ONLY <1>1, <1>2
<1> QED  BY <1>4, <1>5

(* The fix of a drift whose setting is read, on a platform that replaces   *)
(* what it sets, removes its record and no other: it makes no new drift,   *)
(* and fixing one after the other ends.  Without that a commit leaves the  *)
(* record where it was: an access VLAN that is set on a trunk.             *)
THEOREM FixRemovesItsDrift ==
  ASSUME platform \in {"arista_eos", "cisco_iosxe"},
         NEW i, NEW r, IsObjects(i), IsObjects(r),
         NEW d \in Changed(i, Shown(r)), CanRender(d),
         d.object[1] = "interface" => Reads(r[d.object], d.field)
  PROVE  ObjectDiff(i, Shown(After(r, RestoreIntent(d)))) = ObjectDiff(i, Shown(r)) \ {d}
<1> DEFINE o == d.object
           f == d.field
           v == d.intent
           s == Shown(r)
           x == r[o]
<1>1. o \in DOMAIN r /\ f \in FieldsOf(o)
  BY DEF Changed, Record, Shown
<1>2. After(r, RestoreIntent(d)) = Put(r, o, f, v)
  BY DEF After, RestoreIntent, Setting, Adds
<1>3. IsObjects(s)
  <2>1. DOMAIN s = DOMAIN r /\ s = [p \in DOMAIN s |-> s[p]] /\ \A p \in DOMAIN s : p[1] \in Blocks
    BY DEF Shown, IsObjects
  <2>2. ASSUME NEW p \in DOMAIN r PROVE s[p] = [g \in FieldsOf(p) |-> s[p][g]]
    <3>1. CASE p[1] = "interface"
      <4>1. s[p] = ShownPort(r[p])
        BY <3>1 DEF Shown
      <4>2. r[p] = [g \in FieldsOf(p) |-> r[p][g]]
        BY DEF IsObjects
      <4>3. ShownPort(r[p]) = [g \in FieldsOf(p) |-> ShownPort(r[p])[g]]
        BY <4>2 DEF ShownPort
      <4> QED  BY <4>1, <4>3
    <3>2. CASE p[1] # "interface"
      BY <3>2 DEF Shown, IsObjects
    <3> QED  BY <3>1, <3>2
  <2> QED  BY <2>1, <2>2 DEF IsObjects
<1>4. Shown(Put(r, o, f, v)) = Put(s, o, f, v)
  <2>1. DOMAIN Put(r, o, f, v) = DOMAIN r /\ DOMAIN s = DOMAIN r
    BY DEF Put, Shown
  <2>2. ASSUME NEW p \in DOMAIN r, p # o PROVE Put(r, o, f, v)[p] = r[p]
    BY <2>2 DEF Put
  <2>3. Put(r, o, f, v)[o] = [x EXCEPT ![f] = v]
    BY <1>1 DEF Put
  <2>4. CASE o[1] = "interface"
    <3>1. x = [g \in Fields["interface"] |-> x[g]] /\ f \in Fields["interface"]
      BY <1>1, <2>4 DEF IsObjects, FieldsOf
    <3> HIDE DEF x, f, v
    <3> DEFINE y == [x EXCEPT ![f] = v]
    <3>2. ShownPort(y) = [ShownPort(x) EXCEPT ![f] = v]
      <4>1. y = [x EXCEPT ![f] = v]
        OBVIOUS
      <4>2. f \in Fields["interface"] /\ Reads(x, f)
        BY <2>4, <3>1 DEF x, f
      <4> HIDE DEF y
      <4> QED  BY <3>1, <4>1, <4>2, ReadShows
    <3>3. s[o] = ShownPort(x)
      BY <1>1, <2>4 DEF Shown, x
    <3> QED  BY <1>1, <2>1, <2>2, <2>3, <2>4, <3>2, <3>3 DEF Shown, Put, x
  <2>5. CASE o[1] # "interface"
    BY <1>1, <2>1, <2>2, <2>3, <2>5 DEF Shown, Put
  <2> QED  BY <2>4, <2>5
<1> QED  BY <1>2, <1>3, <1>4, PutRemovesItsDrift

-----------------------------------------------------------------------------
(* The threads.  The inductive invariant follows one thread: the records   *)
(* it has still to fix are of the intent it read and of an armed issue; in *)
(* a session it carries one of them out and has no result yet.             *)

Shape(r) ==
    DOMAIN r = {"pc", "plan", "todo", "drift", "edit", "live", "before", "held", "result"}

InSession == {"open", "commit", "verify", "rollback"}

Owed(plan, d) ==
    /\ Fingerprint(d) \in Armed
    /\ d.field \in FieldsOf(d.object) =>
          d.drift_kind = "value_mismatch" /\ d.intent = plan[d.object][d.field]

(* The drift a checker's session is for.                                   *)
Restores(r) ==
    /\ Owed(r.plan, r.drift) /\ r.drift.field \in FieldsOf(r.drift.object)
    /\ ~Refused(r.drift) /\ r.edit = RestoreIntent(r.drift)

ThreadOK(t, r, s) ==
    /\ Shape(r) /\ DOMAIN r.plan \subseteq Objects
    /\ r.pc \in {"idle", "collect", "loop"} \cup InSession
    /\ r.todo \subseteq s /\ r.live \in BOOLEAN /\ r.held \in BOOLEAN /\ r.result \in Results
    /\ r.pc \in InSession => r.result = "none"
    /\ r.result = "success" => r.held
    /\ t \in Checkers => /\ \A d \in r.todo : Owed(r.plan, d)
                         /\ r.pc \in InSession => Restores(r)

RealityOK ==
    /\ platform \in Platforms
    /\ DOMAIN intent \subseteq Objects /\ DOMAIN reality \subseteq Objects
    /\ \A o \in DOMAIN reality : DOMAIN reality[o] = FieldsOf(o)
    /\ changes \in 0..MaxChanges /\ faults \in 0..MaxFaults

ThreadsOK ==
    /\ th = [t \in Threads |-> th[t]]
    /\ \A t \in Threads : ThreadOK(t, th[t], stored)

LoopInv == RealityOK /\ ThreadsOK

(* An idle thread.                                                         *)
LEMMA IdleOK ==
  ASSUME NEW t \in Threads, NEW s
  PROVE  ThreadOK(t, Idle, s)
BY DEF ThreadOK, Idle, Shape, Objects, InSession, Results

(* One thread moves, the others stay what they are.                        *)
LEMMA OneMoves ==
  ASSUME ThreadsOK, stored \subseteq stored', NEW t \in Threads,
         \E r : Become(t, r) /\ ThreadOK(t, r, stored')
  PROVE  ThreadsOK'
<1>1. PICK r : Become(t, r) /\ ThreadOK(t, r, stored')
  OBVIOUS
<1>2. th' = [u \in Threads |-> IF u = t THEN r ELSE th[u]]
  BY <1>1 DEF ThreadsOK, Become
<1>3. ASSUME NEW u \in Threads PROVE ThreadOK(u, th'[u], stored')
  <2>1. CASE u = t
    BY <1>1, <1>2, <2>1
  <2>2. CASE u # t
    <3>1. th'[u] = th[u] /\ ThreadOK(u, th[u], stored)
      BY <1>2, <2>2 DEF ThreadsOK
    <3> QED  BY <3>1 DEF ThreadOK
  <2> QED  BY <2>1, <2>2
<1> QED  BY <1>2, <1>3 DEF ThreadsOK

(* No thread moves.                                                        *)
LEMMA NoneMoves ==
  ASSUME ThreadsOK, UNCHANGED <<th, stored>>
  PROVE  ThreadsOK'
BY DEF ThreadsOK

(* A thread that finishes its session.                                     *)
LEMMA FinishedOK ==
  ASSUME NEW t \in Threads, ThreadOK(t, th[t], stored), NEW res \in Results,
         res = "success" => th[t].held
  PROVE  ThreadOK(t, Finished(t, res), stored)
<1> DEFINE p == IF t \in Checkers THEN "loop" ELSE "idle"
           r == [Idle EXCEPT !.pc = p, !.result = res,
                             !.plan = th[t].plan, !.todo = th[t].todo, !.held = th[t].held]
<1>0. Finished(t, res) = r
  BY DEF Finished
<1>1. p \in {"idle", "loop"}
  OBVIOUS
<1> HIDE DEF p
<1>2. Shape(r)
  BY DEF Shape, Idle
<1>3. r.plan = th[t].plan /\ r.todo = th[t].todo
  BY DEF Idle
<1>4. r.result = res /\ r.pc = p /\ (r.live <=> FALSE) /\ r.live \in BOOLEAN
  BY DEF Idle
<1>5. r.held = th[t].held
  BY DEF Idle
<1> HIDE DEF r
<1>6. r.held \in BOOLEAN /\ (r.result = "success" => r.held)
  <2>1. th[t].held \in BOOLEAN
    BY DEF ThreadOK
  <2> QED  BY <1>4, <1>5, <2>1
<1>7. \A d \in r.todo : t \in Checkers => Owed(r.plan, d)
  BY <1>3 DEF ThreadOK
<1>8. ThreadOK(t, r, stored)
  BY <1>1, <1>2, <1>3, <1>4, <1>6, <1>7 DEF ThreadOK, InSession
<1> QED  BY <1>0, <1>8

(* A thread that moves on in its session.                                  *)
LEMMA MovesOnOK ==
  ASSUME NEW t \in Threads, ThreadOK(t, th[t], stored), th[t].pc \in InSession,
         NEW p \in InSession
  PROVE  ThreadOK(t, [th[t] EXCEPT !.pc = p], stored)
<1> DEFINE q == th[t]
           r == [q EXCEPT !.pc = p]
<1>1. Shape(q) /\ ThreadOK(t, q, stored) /\ q.pc \in InSession
  BY DEF ThreadOK
<1> HIDE DEF q
<1>2. Shape(r)
  BY <1>1 DEF Shape
<1>3. r.plan = q.plan /\ r.todo = q.todo /\ r.held = q.held
  BY <1>1 DEF Shape
<1>4. r.result = q.result /\ r.live = q.live /\ r.pc = p
  BY <1>1 DEF Shape
<1>5. r.drift = q.drift /\ r.edit = q.edit
  BY <1>1 DEF Shape
<1> HIDE DEF r
<1>6. ThreadOK(t, r, stored)
  BY <1>1, <1>2, <1>3, <1>4, <1>5 DEF ThreadOK, Restores
<1> QED  BY <1>6 DEF q, r

(* A thread in a session that notes the configuration it met.              *)
LEMMA NotesOK ==
  ASSUME NEW t \in Threads, ThreadOK(t, th[t], stored), th[t].pc \in InSession,
         NEW b, NEW h \in BOOLEAN, NEW p \in InSession
  PROVE  ThreadOK(t, [[th[t] EXCEPT !.before = b, !.held = h] EXCEPT !.pc = p], stored)
<1> DEFINE q == th[t]
           r == [[q EXCEPT !.before = b, !.held = h] EXCEPT !.pc = p]
<1>1. Shape(q) /\ ThreadOK(t, q, stored) /\ q.pc \in InSession
  BY DEF ThreadOK
<1> HIDE DEF q
<1>2. Shape(r)
  BY <1>1 DEF Shape
<1>3. r.plan = q.plan /\ r.todo = q.todo /\ r.held = h
  BY <1>1 DEF Shape
<1>4. r.result = q.result /\ r.live = q.live /\ r.pc = p
  BY <1>1 DEF Shape
<1>5. r.drift = q.drift /\ r.edit = q.edit
  BY <1>1 DEF Shape
<1> HIDE DEF r
<1>6. ThreadOK(t, r, stored)
  BY <1>1, <1>2, <1>3, <1>4, <1>5 DEF ThreadOK, Restores, InSession
<1> QED  BY <1>6 DEF q, r

(* A success whose edit was in effect.                                     *)
LEMMA SuccessOK ==
  ASSUME NEW t \in Threads, ThreadOK(t, th[t], stored), NEW h \in BOOLEAN, h
  PROVE  ThreadOK(t, [Finished(t, "success") EXCEPT !.held = h], stored)
<1> DEFINE q == Finished(t, "failure")
           z == Finished(t, "success")
           r == [z EXCEPT !.held = h]
<1>1. ThreadOK(t, q, stored)
  BY FinishedOK DEF Results
<1>2. Shape(z) /\ z.plan = q.plan /\ z.todo = q.todo /\ z.pc = q.pc
  BY DEF Finished, Idle, Shape
<1>3. z.live = FALSE /\ z.result = "success" /\ z.pc \in {"idle", "loop"}
  BY DEF Finished, Idle
<1> HIDE DEF q, z
<1>4. Shape(r) /\ r.plan = q.plan /\ r.todo = q.todo /\ r.pc \in {"idle", "loop"}
  BY <1>2, <1>3 DEF Shape
<1>5. r.live \in BOOLEAN /\ r.result = "success" /\ r.held = h
  BY <1>2, <1>3 DEF Shape
<1> HIDE DEF r
<1>6. ThreadOK(t, r, stored)
  BY <1>1, <1>4, <1>5 DEF ThreadOK, InSession, Results
<1> QED  BY <1>6 DEF r, z

(* A record of a field is of a mismatch and carries the intended value.    *)
LEMMA RecordsAreOwed ==
  ASSUME NEW i, NEW r, \A o \in DOMAIN i \cup DOMAIN r : o[1] \in Blocks,
         NEW d \in ObjectDiff(i, r), Fingerprint(d) \in Armed
  PROVE  Owed(i, d)
<1>1. CASE d \in Lacking(i, r) \cup Extra(i, r)
  <2>1. d.field = Presence[d.object[1]] /\ d.object[1] \in Blocks
    BY <1>1 DEF Lacking, Extra, Record
  <2> QED  BY <2>1, PresenceIsNoField DEF Owed, FieldsOf
<1>2. CASE d \in Changed(i, r)
  <2>1. d.drift_kind = "value_mismatch" /\ d.intent = i[d.object][d.field]
    BY <1>2 DEF Changed, Record
  <2> QED  BY <2>1 DEF Owed
<1> QED  BY <1>1, <1>2 DEF ObjectDiff

(* The objects known have the names of their blocks.                       *)
LEMMA BlocksOfObjects == \A o \in Objects : o[1] \in Blocks
BY RemediationAssumption

(* An applier renders fields only, never the presence of an object.        *)
LEMMA RenderedIsField ==
  ASSUME RealityOK, NEW d, CanRender(d)
  PROVE  d.field \in FieldsOf(d.object)
<1>1. platform \in AllPlatforms
  BY RemediationAssumption DEF RealityOK
<1>2. <<d.object[1], d.field>> \in NapalmFields
  BY <1>1 DEF CanRender, Rendered, NapalmFields, AllPlatforms
<1> QED  BY <1>2 DEF NapalmFields, FieldsOf, Fields

(* A check keeps the invariant of its thread.                              *)
LEMMA CheckKeeps ==
  ASSUME LoopInv, NEW w \in Checkers, Check(w)
  PROVE  ThreadsOK'
<1> DEFINE q == th[w]
<1>1. w \in Threads /\ ThreadsOK /\ RealityOK /\ ThreadOK(w, q, stored) /\ Shape(q)
  BY DEF LoopInv, Threads, ThreadsOK, ThreadOK
<1>2. CASE StartCheck(w)
  <2> DEFINE r == [Idle EXCEPT !.pc = "collect", !.plan = intent]
  <2>1. Shape(r) /\ r.pc = "collect" /\ r.plan = intent /\ r.todo = {}
    BY DEF Shape, Idle
  <2>2. r.live \in BOOLEAN /\ r.held \in BOOLEAN /\ r.result = "none"
    BY DEF Idle
  <2>3. Become(w, r) /\ UNCHANGED stored
    BY <1>2 DEF StartCheck
  <2> HIDE DEF r
  <2>4. ThreadOK(w, r, stored')
    BY <1>1, <2>1, <2>2 DEF ThreadOK, RealityOK, InSession, Results
  <2> QED  BY <1>1, <2>3, <2>4, OneMoves
<1>3. CASE Collect(w)
  <2> DEFINE drifts == ObjectDiff(q.plan, Shown(reality))
             todo == {d \in drifts : Fingerprint(d) \in Armed}
             r == [q EXCEPT !.pc = "loop", !.todo = todo]
  <2>1. Become(w, r) /\ stored' = stored \cup drifts
    BY <1>3 DEF Collect
  <2>2. DOMAIN q.plan \subseteq Objects /\ DOMAIN Shown(reality) \subseteq Objects
    BY <1>1 DEF ThreadOK, RealityOK, Shown
  <2>3. \A d \in todo : Owed(q.plan, d)
    BY <2>2, BlocksOfObjects, RecordsAreOwed
  <2>4. todo \subseteq stored'
    BY <2>1
  <2> HIDE DEF q, todo
  <2>5. Shape(r) /\ r.pc = "loop" /\ r.plan = q.plan /\ r.todo = todo
    BY <1>1 DEF Shape
  <2>6. r.live = q.live /\ r.held = q.held /\ r.result = q.result
    BY <1>1 DEF Shape
  <2> HIDE DEF r
  <2>7. ThreadOK(w, r, stored')
    BY <1>1, <2>3, <2>4, <2>5, <2>6 DEF ThreadOK, InSession
  <2> QED  BY <1>1, <2>1, <2>7, OneMoves
<1>4. CASE CollectFails(w) \/ EndCheck(w)
  <2>1. Become(w, Idle) /\ UNCHANGED stored
    BY <1>4 DEF CollectFails, EndCheck
  <2> QED  BY <1>1, <2>1, IdleOK, OneMoves
<1>5. CASE NextFix(w)
  <2>1. PICK d \in q.todo :
           IF Refused(d) \/ ~CanRender(d)
           THEN Become(w, [q EXCEPT !.todo = @ \ {d}, !.result = "none"])
           ELSE Become(w, [q EXCEPT !.todo = @ \ {d}, !.pc = "open", !.drift = d,
                              !.edit = RestoreIntent(d), !.live = TRUE, !.held = FALSE,
                              !.result = "none"])
    BY <1>5 DEF NextFix
  <2>2. q.pc = "loop" /\ UNCHANGED stored
    BY <1>5 DEF NextFix
  <2> HIDE DEF q
  <2>3. CASE Refused(d) \/ ~CanRender(d)
    <3> DEFINE r == [q EXCEPT !.todo = @ \ {d}, !.result = "none"]
    <3>1. Shape(r) /\ r.pc = "loop" /\ r.plan = q.plan /\ r.todo = q.todo \ {d}
      BY <1>1, <2>2 DEF Shape
    <3>2. r.live = q.live /\ r.held = q.held /\ r.result = "none"
      BY <1>1 DEF Shape
    <3>3. Become(w, r)
      BY <2>1, <2>3
    <3> HIDE DEF r
    <3>4. ThreadOK(w, r, stored')
      BY <1>1, <2>2, <3>1, <3>2 DEF ThreadOK, InSession, Results
    <3> QED  BY <1>1, <2>2, <3>3, <3>4, OneMoves
  <2>4. CASE ~Refused(d) /\ CanRender(d)
    <3> DEFINE e == RestoreIntent(d)
               r == [q EXCEPT !.todo = @ \ {d}, !.pc = "open", !.drift = d,
                              !.edit = e, !.live = TRUE, !.held = FALSE, !.result = "none"]
    <3>1. Become(w, r)
      BY <2>1, <2>4
    <3>2. Owed(q.plan, d) /\ d.field \in FieldsOf(d.object)
      BY <1>1, <2>4, RenderedIsField DEF ThreadOK
    <3>0. e = RestoreIntent(d)
      OBVIOUS
    <3> HIDE DEF e
    <3>3. Shape(r) /\ r.pc = "open" /\ r.plan = q.plan /\ r.todo = q.todo \ {d}
      BY <1>1 DEF Shape
    <3>4. r.live \in BOOLEAN /\ r.held \in BOOLEAN /\ r.result = "none"
      BY <1>1 DEF Shape
    <3>5. r.drift = d /\ r.edit = e
      BY <1>1 DEF Shape
    <3> HIDE DEF r
    <3>6. Restores(r)
      BY <2>4, <3>0, <3>2, <3>3, <3>5 DEF Restores
    <3>7. ThreadOK(w, r, stored')
      BY <1>1, <2>2, <3>3, <3>4, <3>6 DEF ThreadOK, InSession, Results
    <3> QED  BY <1>1, <2>2, <3>1, <3>7, OneMoves
  <2> QED  BY <2>3, <2>4
<1> QED  BY <1>2, <1>3, <1>4, <1>5 DEF Check

(* A request opens a session of a thread that owes nothing.                *)
LEMMA RequestKeeps ==
  ASSUME LoopInv, NEW c \in Clients, Request(c)
  PROVE  ThreadsOK'
<1>1. c \in Threads /\ c \notin Checkers /\ ThreadsOK
  BY RemediationAssumption DEF LoopInv, Threads
<1>2. PICK d \in stored, live \in BOOLEAN :
         \E e \in (IF CanRender(d) THEN {RestoreIntent(d)} ELSE {}) \cup Snippets :
            Become(c, [Idle EXCEPT !.pc = "open", !.drift = d, !.edit = e, !.live = live])
  BY DEF Request
<1>3. PICK e : Become(c, [Idle EXCEPT !.pc = "open", !.drift = d, !.edit = e, !.live = live])
  BY <1>2
<1> DEFINE r == [Idle EXCEPT !.pc = "open", !.drift = d, !.edit = e, !.live = live]
<1>4. Shape(r) /\ r.pc = "open" /\ r.plan = Baseline /\ r.todo = {} /\ r.live = live
  BY DEF Shape, Idle
<1>5. r.held \in BOOLEAN /\ r.result = "none"
  BY DEF Idle
<1>6. UNCHANGED stored
  BY DEF Request
<1> HIDE DEF r
<1>7. ThreadOK(c, r, stored')
  BY <1>1, <1>4, <1>5 DEF ThreadOK, InSession, Results, Objects
<1>8. Become(c, r)
  BY <1>3 DEF r
<1> QED  BY <1>1, <1>6, <1>7, <1>8, OneMoves

(* Applying an edit twice is applying it once.                             *)
LEMMA EditIsIdempotent ==
  ASSUME NEW c, NEW e, e[1] \in DOMAIN c
  PROVE  InEffect(After(c, e), e)
<1> DEFINE o == e[1]
           f == Setting(e[2])
           v == IF Adds(e[2]) THEN c[o][f] \cup e[3] ELSE e[3]
           a == After(c, e)
           w == IF Adds(e[2]) THEN a[o][f] \cup e[3] ELSE e[3]
<1>1. a = [c EXCEPT ![o][f] = v]
  BY DEF After, Put
<1>2. After(a, e) = [a EXCEPT ![o][f] = w]
  BY DEF After, Put
<1>3. v \cup e[3] = v
  OBVIOUS
<1>4. f \in DOMAIN c[o] => a[o][f] = v
  BY <1>1
<1>5. f \in DOMAIN c[o] => w = v
  BY <1>3, <1>4
<1> HIDE DEF v, w, a, f
<1>6. [a EXCEPT ![o][f] = w] = a
  <2>1. CASE f \in DOMAIN c[o]
    BY <1>1, <1>5, <2>1
  <2>2. CASE f \notin DOMAIN c[o]
    BY <1>1, <2>2
  <2> QED  BY <2>1, <2>2
<1>7. o \in DOMAIN a
  BY <1>1
<1>8. After(a, e) = a
  BY <1>2, <1>6
<1> QED  BY <1>7, <1>8 DEF InEffect, a

(* Each step of a session keeps the invariant of its thread.               *)
LEMMA SessionKeeps ==
  ASSUME LoopInv, NEW t \in Threads, Session(t)
  PROVE  ThreadsOK'
<1> DEFINE q == th[t]
<1>1. ThreadsOK /\ ThreadOK(t, q, stored) /\ Shape(q) /\ q.held \in BOOLEAN
  BY DEF LoopInv, ThreadsOK, ThreadOK
<1>2. UNCHANGED stored /\ q.pc \in InSession
  BY DEF Session, OpenSession, Commit, CommitIgnored, CommitRejected, SessionFails,
         Verify, Rollback, RollbackFails, InSession
<1>3. ASSUME NEW res \in Results, res = "success" => q.held, Become(t, Finished(t, res))
      PROVE  ThreadsOK'
  BY <1>1, <1>2, <1>3, FinishedOK, OneMoves
<1>4. ASSUME NEW p \in InSession, Become(t, [q EXCEPT !.pc = p])
      PROVE  ThreadsOK'
  BY <1>1, <1>2, <1>4, MovesOnOK, OneMoves
<1>5. {"dry_run_only", "failure", "success"} \subseteq Results
      /\ {"commit", "verify", "rollback"} \subseteq InSession
  BY DEF Results, InSession
<1>6. CASE OpenSession(t)
  BY <1>3, <1>4, <1>5, <1>6 DEF OpenSession
<1>7. CASE CommitRejected(t) \/ SessionFails(t) \/ Rollback(t) \/ RollbackFails(t)
  <2>1. Become(t, Finished(t, "failure"))
    BY <1>7 DEF CommitRejected, SessionFails, Rollback, RollbackFails
  <2> QED  BY <1>3, <1>5, <2>1
<1>8. CASE Verify(t)
  <2>1. CASE InEffect(reality, q.edit)
    <3> DEFINE r == [Finished(t, "success") EXCEPT !.held = TRUE]
    <3>1. Become(t, r)
      BY <1>8, <2>1 DEF Verify
    <3>2. ThreadOK(t, r, stored)
      BY <1>1, SuccessOK
    <3> QED  BY <1>1, <1>2, <3>1, <3>2, OneMoves
  <2>2. CASE ~InEffect(reality, q.edit)
    BY <1>4, <1>5, <1>8, <2>2 DEF Verify
  <2> QED  BY <2>1, <2>2
<1>9. CASE Commit(t) \/ CommitIgnored(t)
  <2>1. PICK c : Become(t, Committed(t, c)) /\ (InEffect(c, q.edit) \/ platform = "cisco_iosxe")
    BY <1>9, EditIsIdempotent DEF Commit, CommitIgnored, Rejected
  <2> DEFINE h == InEffect(c, q.edit)
             n == [q EXCEPT !.before = reality, !.held = h]
  <2>2. CASE platform = "cisco_iosxe"
    <3>1. Become(t, [n EXCEPT !.pc = "verify"])
      BY <2>1, <2>2 DEF Committed
    <3>2. ThreadOK(t, [n EXCEPT !.pc = "verify"], stored)
      BY <1>1, <1>2, <1>5, NotesOK, MovesOnOK DEF InEffect
    <3> QED  BY <1>1, <1>2, <3>1, <3>2, OneMoves
  <2>3. CASE platform # "cisco_iosxe"
    <3> DEFINE r == [Finished(t, "success") EXCEPT !.held = n.held]
    <3>1. Become(t, r)
      BY <2>1, <2>3 DEF Committed
    <3>2. n.held
      BY <1>1, <2>1, <2>3 DEF Shape
    <3>3. ThreadOK(t, r, stored)
      BY <1>1, <3>2, SuccessOK
    <3> QED  BY <1>1, <1>2, <3>1, <3>3, OneMoves
  <2> QED  BY <2>2, <2>3
<1> QED  BY <1>6, <1>7, <1>8, <1>9 DEF Session

(* The objects that a device or its intent has, with the fields of their   *)
(* blocks, whoever edits them.                                             *)
Document(c) == DOMAIN c \subseteq Objects /\ \A o \in DOMAIN c : DOMAIN c[o] = FieldsOf(o)

(* Setting a field leaves a document.                                      *)
LEMMA PutDocument ==
  ASSUME NEW c, Document(c), NEW o, NEW f, NEW v
  PROVE  Document(Put(c, o, f, v))
BY DEF Document, Put

(* So does a rollback.                                                     *)
LEMMA RestoredDocument ==
  ASSUME NEW c, Document(c), NEW old
  PROVE  Document(Restored(c, old))
<1> DEFINE r == Restored(c, old)
<1>1. DOMAIN r = DOMAIN c
  BY DEF Restored
<1>2. ASSUME NEW o \in DOMAIN c PROVE DOMAIN r[o] = DOMAIN c[o]
  BY DEF Restored
<1> QED  BY <1>1, <1>2 DEF Document

(* So does every edit by hand.                                             *)
LEMMA EditedDocument ==
  ASSUME NEW c, Document(c), NEW r \in Edited(c)
  PROVE  Document(r)
<1>1. ASSUME NEW e \in Edits, r = Put(c, e[1], e[2], e[3]) PROVE Document(r)
  BY <1>1, PutDocument
<1>2. ASSUME NEW o \in Optional, r = [p \in DOMAIN c \ {o} |-> c[p]] PROVE Document(r)
  BY <1>2 DEF Document
<1>3. ASSUME NEW o \in Optional,
             r = [p \in DOMAIN c \cup {o} |-> IF p = o THEN Baseline[p] ELSE c[p]]
      PROVE  Document(r)
  <2>1. o \in Objects /\ DOMAIN Baseline[o] = FieldsOf(o)
    BY RemediationAssumption
  <2> QED  BY <1>3, <2>1 DEF Document
<1> QED  BY <1>1, <1>2, <1>3 DEF Edited

(* No step leaves the documents, the bounds or the platform.               *)
LEMMA RealityKeeps ==
  ASSUME RealityOK, DOMAIN intent \subseteq Objects, [Next]_vars
  PROVE  RealityOK'
<1>1. Document(reality) /\ MaxChanges \in Nat /\ MaxFaults \in Nat
  BY RemediationAssumption DEF RealityOK, Document
<1>2. (Fault \/ UNCHANGED faults) => faults' \in 0..MaxFaults
  BY <1>1 DEF Fault, RealityOK
<1>3. CASE EditIntent
  <2>1. DOMAIN intent' \subseteq Objects
    <3>1. ASSUME NEW e \in Edits, intent' = Put(intent, e[1], e[2], e[3])
          PROVE  DOMAIN intent' \subseteq Objects
      BY <3>1 DEF Put, RealityOK
    <3>2. ASSUME NEW o \in Optional, intent' = [p \in DOMAIN intent \ {o} |-> intent[p]]
          PROVE  DOMAIN intent' \subseteq Objects
      BY <3>2 DEF RealityOK
    <3>3. ASSUME NEW o \in Optional,
                 intent' = [p \in DOMAIN intent \cup {o} |->
                              IF p = o THEN Baseline[p] ELSE intent[p]]
          PROVE  DOMAIN intent' \subseteq Objects
      BY <3>3, RemediationAssumption DEF RealityOK
    <3> QED  BY <1>3, <3>1, <3>2, <3>3 DEF EditIntent, Edited
  <2> QED  BY <1>1, <1>2, <1>3, <2>1 DEF EditIntent, RealityOK
<1>4. CASE EditDevice
  <2>1. Document(reality')
    BY <1>1, <1>4, EditedDocument DEF EditDevice
  <2> QED  BY <1>1, <1>2, <1>4, <2>1 DEF EditDevice, RealityOK, Document
<1>5. ASSUME NEW w \in Checkers, Check(w) PROVE RealityOK'
  BY <1>2, <1>5 DEF Check, StartCheck, Collect, CollectFails, NextFix, EndCheck, RealityOK
<1>6. ASSUME NEW c \in Clients, Request(c) PROVE RealityOK'
  BY <1>6 DEF Request, RealityOK
<1>7. ASSUME NEW t \in Threads, Session(t) PROVE RealityOK'
  <2>1. Document(After(reality, th[t].edit))
    BY <1>1, PutDocument DEF After
  <2>2. Document(Restored(reality, th[t].before))
    BY <1>1, RestoredDocument
  <2>3. Document(reality')
    BY <1>1, <1>7, <2>1, <2>2 DEF Session, OpenSession, Commit, CommitIgnored, CommitRejected,
       SessionFails, Verify, Rollback, RollbackFails
  <2>4. UNCHANGED <<platform, intent, changes>> /\ (Fault \/ UNCHANGED faults)
    BY <1>7 DEF Session, OpenSession, Commit, CommitIgnored, CommitRejected,
       SessionFails, Verify, Rollback, RollbackFails
  <2> QED  BY <1>2, <2>3, <2>4 DEF RealityOK, Document
<1>8. CASE UNCHANGED vars
  BY <1>8 DEF vars, RealityOK
<1> QED  BY <1>3, <1>4, <1>5, <1>6, <1>7, <1>8 DEF Next

(* LoopInv is inductive.                                                   *)
LEMMA LoopInvariant == Spec => []LoopInv
<1>1. Init => LoopInv
  <2> SUFFICES ASSUME Init PROVE LoopInv
    OBVIOUS
  <2>1. ThreadsOK
    BY IdleOK DEF Init, ThreadsOK
  <2>2. RealityOK
    BY RemediationAssumption DEF Init, RealityOK, Objects
  <2> QED  BY <2>1, <2>2 DEF LoopInv
<1>2. LoopInv /\ [Next]_vars => LoopInv'
  <2> SUFFICES ASSUME LoopInv, [Next]_vars PROVE LoopInv'
    OBVIOUS
  <2>1. RealityOK'
    BY RealityKeeps DEF LoopInv, RealityOK
  <2>2. ThreadsOK'
    <3>1. CASE EditIntent \/ EditDevice \/ UNCHANGED vars
      BY <3>1, NoneMoves DEF EditIntent, EditDevice, vars, LoopInv
    <3> QED  BY <3>1, CheckKeeps, RequestKeeps, SessionKeeps DEF Next
  <2> QED  BY <2>1, <2>2 DEF LoopInv
<1> QED  BY <1>1, <1>2, PTL DEF Spec

(* Type correctness of the remediation loop.                               *)
THEOREM LoopTypeCorrect == Spec => []TypeOK
<1>1. LoopInv => TypeOK
  BY DEF LoopInv, RealityOK, ThreadsOK, ThreadOK, TypeOK, InSession
<1> QED  BY <1>1, LoopInvariant, PTL

(* The configuration a successful session pushed was on the device at some *)
(* moment after its commit, for any number of threads, edits and faults.   *)
(* Where a platform does not verify, that rests on its commit; whether the *)
(* collectors see it is another matter (Shown).                            *)
THEOREM SuccessWasApplied == Spec => []SuccessMeansApplied
<1>1. LoopInv => SuccessMeansApplied
  BY DEF LoopInv, ThreadsOK, ThreadOK, SuccessMeansApplied
<1> QED  BY <1>1, LoopInvariant, PTL

(* A checker in a commit moves only by a step of its own session.          *)
LEMMA OnlyItsCommit ==
  ASSUME LoopInv, [Next]_vars, NEW w \in Checkers, th[w].pc = "commit", th'[w] # th[w]
  PROVE  reality' = reality \/ reality' = After(reality, th[w].edit)
<1>1. \A t \in Threads : \A r : Become(t, r) => t = w
  BY DEF Become, LoopInv, ThreadsOK, Threads
<1>2. ASSUME NEW u \in Checkers, Check(u) PROVE reality' = reality
  BY <1>2 DEF Check, StartCheck, Collect, CollectFails, NextFix, EndCheck
<1>3. ASSUME NEW t \in Threads, Session(t)
      PROVE  reality' = reality \/ reality' = After(reality, th[w].edit)
  <2>1. t = w
    BY <1>1, <1>3 DEF Session, OpenSession, Commit, CommitIgnored, CommitRejected,
       SessionFails, Verify, Rollback, RollbackFails
  <2> QED  BY <1>3, <2>1 DEF Session, OpenSession, Commit, CommitIgnored, CommitRejected,
       SessionFails, Verify, Rollback, RollbackFails
<1> QED  BY <1>2, <1>3 DEF Next, EditIntent, EditDevice, Request, vars

(* What a commit of the scheduler changes is the setting of the field it   *)
(* was for, and after it that setting holds at least the intent.           *)
LEMMA CommitRestores ==
  ASSUME LoopInv, [Next]_vars, NEW w \in Checkers, th[w].pc = "commit", th'[w] # th[w],
         NEW o \in DOMAIN reality, NEW f \in FieldsOf(o), reality'[o][f] # reality[o][f]
  PROVE  \E g \in FieldsOf(o) :
            /\ Setting(g) = f
            /\ <<o[1], g, "value_mismatch">> \in Armed
            /\ o \notin Management /\ g \notin Symptoms
            /\ th[w].plan[o][g] \subseteq reality'[o][f]
<1> DEFINE q == th[w]
           d == q.drift
           x == q.edit
           s == Setting(x[2])
           v == IF Adds(x[2]) THEN reality[x[1]][s] \cup x[3] ELSE x[3]
<1>1. Restores(q)
  BY DEF LoopInv, ThreadsOK, ThreadOK, Threads, InSession
<1>2. reality' = [reality EXCEPT ![x[1]][s] = v]
  BY OnlyItsCommit DEF After, Put
<1>3. x = <<d.object, d.field, d.intent>> /\ ~Refused(d) /\ d.field \in FieldsOf(d.object)
  BY <1>1 DEF Restores, RestoreIntent
<1>4. Fingerprint(d) \in Armed /\ d.drift_kind = "value_mismatch"
      /\ d.intent = q.plan[d.object][d.field]
  BY <1>1 DEF Restores, Owed
<1>5. x[3] \subseteq v
  OBVIOUS
<1>6. DOMAIN reality[o] = FieldsOf(o)
  BY DEF LoopInv, RealityOK
<1>0. s = Setting(x[2])
  OBVIOUS
<1> HIDE DEF q, x, v, s
<1>7. o = x[1] /\ f = s /\ reality'[o][f] = v
  BY <1>2, <1>6
<1>8. o = d.object /\ f = Setting(d.field) /\ x[3] = d.intent
  BY <1>0, <1>3, <1>7
<1> DEFINE g == d.field
<1>9. q.plan[o][g] \subseteq reality'[o][f]
  BY <1>4, <1>5, <1>7, <1>8
<1>10. o \notin Management /\ g \notin Symptoms
  BY <1>3, <1>8 DEF Refused, CheckBlocked
<1>11. <<o[1], g, "value_mismatch">> \in Armed
  BY <1>4, <1>8 DEF Fingerprint
<1>12. g \in FieldsOf(o)
  BY <1>3, <1>8
<1> HIDE DEF g
<1>13. Setting(g) = f
  BY <1>8 DEF g
<1> QED  BY <1>9, <1>10, <1>11, <1>12, <1>13 DEF q

(* What the scheduler does unattended sets what it read as the intent of   *)
(* an attribute with an armed issue, and nothing else but, on JunOS, the   *)
(* members that tagged and untagged VLANs share, whatever requests and     *)
(* other checks do.                                                        *)
THEOREM UnattendedRestores == Spec => UnattendedRestoresIntent
<1>1. LoopInv /\ [Next]_vars =>
        [\A w \in Checkers : th[w].pc = "commit" /\ th'[w] # th[w] =>
            \A o \in DOMAIN reality : \A f \in FieldsOf(o) :
                reality'[o][f] # reality[o][f] =>
                    \E g \in FieldsOf(o) :
                        /\ Setting(g) = f
                        /\ <<o[1], g, "value_mismatch">> \in Armed
                        /\ o \notin Management /\ g \notin Symptoms
                        /\ th[w].plan[o][g] \subseteq reality'[o][f]]_vars
  BY CommitRestores
<1> QED  BY <1>1, LoopInvariant, PTL DEF Spec, UnattendedRestoresIntent
=============================================================================

--------------------------- MODULE CheckTailProofs ---------------------------
(***************************************************************************)
(* Theorems about the webhook dispatcher and the tail of a drift check, for *)
(* any queue, threads, findings and bounds.                                *)
(***************************************************************************)
EXTENDS CheckTail, FiniteSetTheorems, TLAPS

-----------------------------------------------------------------------------
(* The dispatcher                                                          *)

LEMMA NextTypes ==
  ASSUME TypeOK, [Next]_vars
  PROVE  TypeOK'
<1> USE DispatcherAssumption DEF TypeOK
<1>1. CASE UNCHANGED vars
  BY <1>1 DEF vars
<1>2. CASE Start \/ Join \/ JoinTimeout \/ ProcessExit
  BY <1>2 DEF Start, Join, JoinTimeout, ProcessExit
<1>3. ASSUME NEW t, Fire(t) PROVE TypeOK'
  BY <1>3 DEF Fire
<1>4. CASE Stop
  BY <1>4 DEF Stop
<1>5. CASE PutSentinel
  BY <1>5 DEF PutSentinel, Shutdown
<1>6. CASE Get
  <2>1. Head(queue) \in 0..MaxFires /\ Tail(queue) \in Seq(0..MaxFires)
        /\ Len(Tail(queue)) <= QueueSize
    BY <1>6 DEF Get, Waiting
  <2> QED  BY <1>6, <2>1 DEF Get
<1>7. CASE Exit
  BY <1>7 DEF Exit, Waiting
<1>8. CASE Post
  <2>1. inHand \in 1..MaxFires /\ attempted' = Append(attempted, inHand)
    BY <1>8 DEF Post
  <2>2. attempted' \in Seq(1..MaxFires)
    BY <2>1
  <2>3. delivered' \subseteq 1..MaxFires
    <3>1. delivered' = delivered \cup {inHand} \/ delivered' = delivered
      BY <1>8 DEF Post
    <3> QED  BY <2>1, <3>1
  <2> QED  BY <1>8, <2>2, <2>3 DEF Post
<1> QED  BY <1>1, <1>2, <1>3, <1>4, <1>5, <1>6, <1>7, <1>8 DEF Next, Worker

(* Type correctness of the dispatcher: its queue is bounded.               *)
THEOREM DispatcherTypeCorrect == Spec => []TypeOK
<1>1. Init => TypeOK
  BY DispatcherAssumption DEF Init, TypeOK
<1>2. TypeOK /\ [Next]_vars => TypeOK'
  BY NextTypes
<1> QED  BY <1>1, <1>2, PTL DEF Spec

(* What an entry appended to the queue leaves in place.                    *)
LEMMA Appended ==
  ASSUME TypeOK, TypeOK', NEW x, queue' = Append(queue, x)
  PROVE  /\ Len(queue') = Len(queue) + 1 /\ queue'[Len(queue) + 1] = x
         /\ \A n \in 1..Len(queue) : queue'[n] = queue[n]
         /\ 1..Len(queue') = 1..Len(queue) \cup {Len(queue) + 1}
         /\ Len(queue) \in Nat
BY SMTT(30) DEF TypeOK

(* What the head of the queue leaves behind.                               *)
LEMMA Shifted ==
  ASSUME TypeOK, TypeOK', queue # <<>>, queue' = Tail(queue)
  PROVE  /\ Len(queue') = Len(queue) - 1 /\ Head(queue) = queue[1]
         /\ \A n \in 1..Len(queue') : queue'[n] = queue[n + 1]
         /\ Len(queue) \in Nat \ {0}
BY DEF TypeOK

LEMMA NextInOrder ==
  ASSUME TypeOK, TypeOK', NoLossInOrder, [Next]_vars
  PROVE  NoLossInOrder'
<1> USE DEF NoLossInOrder, Waiters, Taken
<1>0. /\ Len(attempted) \in Nat /\ accepted \in Nat /\ inHand \in Nat /\ Taken \in Nat
      /\ \A n \in 1..Len(queue) : queue[n] \in Nat
  <2>1. Len(attempted) \in Nat /\ accepted \in Nat /\ inHand \in Nat
    BY DEF TypeOK
  <2>2. \A n \in 1..Len(queue) : queue[n] \in Nat
    BY SMTT(30), DispatcherAssumption DEF TypeOK
  <2> QED  BY <2>1, <2>2
<1>1. CASE UNCHANGED <<queue, inHand, accepted, attempted>>
  BY <1>1
<1>2. CASE UNCHANGED vars \/ Start \/ Stop \/ Join \/ JoinTimeout \/ ProcessExit
  BY <1>1, <1>2 DEF vars, Start, Stop, Join, JoinTimeout, ProcessExit
<1>3. ASSUME NEW t, Fire(t) PROVE NoLossInOrder'
  <2>1. /\ queue' = Append(queue, accepted + 1) /\ accepted' = accepted + 1
        /\ inHand' = inHand /\ attempted' = attempted
    BY <1>3 DEF Fire
  <2> DEFINE L == Len(queue)
  <2>2. /\ Len(queue') = L + 1 /\ queue'[L + 1] = accepted + 1
        /\ \A n \in 1..L : queue'[n] = queue[n]
        /\ 1..Len(queue') = 1..L \cup {L + 1} /\ L \in Nat
    BY <2>1, Appended
  <2>3. Waiters' = Waiters \cup {L + 1}
    <3>1. queue'[L + 1] # Shutdown
      BY <1>0, <2>2 DEF Shutdown
    <3>2. Waiters' = {n \in 1..L \cup {L + 1} : queue'[n] # Shutdown}
      BY <2>2
    <3> HIDE DEF L
    <3>3. \A n \in 1..L : queue'[n] # Shutdown <=> n \in Waiters
      BY <2>2 DEF L
    <3>4. Waiters \subseteq 1..L
      BY DEF L
    <3> HIDE DEF Waiters
    <3> QED  BY <3>1, <3>2, <3>3, <3>4
  <2>4. \A n \in Waiters : n \in 1..L /\ queue[n] <= accepted /\ queue'[n] = queue[n]
    BY <1>0, <2>2
  <2> HIDE DEF Waiters, L
  <2>5. \A m, n \in Waiters' : m < n => queue'[m] < queue'[n]
    BY <1>0, <2>2, <2>3, <2>4
  <2>6. {queue'[n] : n \in Waiters'} = {queue[n] : n \in Waiters} \cup {accepted + 1}
    BY <2>2, <2>3, <2>4
  <2>7. (Taken + 1)..accepted' = (Taken + 1)..accepted \cup {accepted + 1}
    BY <1>0, <2>1
  <2>8. Taken' = Taken
    BY <2>1
  <2> HIDE DEF Taken
  <2>9. {queue'[n] : n \in Waiters'} = (Taken' + 1)..accepted'
    BY <2>6, <2>7, <2>8
  <2>10. inHand' \in {0, Taken'} /\ Taken' <= accepted'
    BY <1>0, <2>1, <2>8
  <2> QED  BY <2>1, <2>5, <2>9, <2>10
<1>4. CASE PutSentinel
  <2>1. queue' = Append(queue, Shutdown) /\ UNCHANGED <<inHand, accepted, attempted>>
    BY <1>4 DEF PutSentinel
  <2> DEFINE L == Len(queue)
  <2>2. /\ Len(queue') = L + 1 /\ queue'[L + 1] = Shutdown
        /\ \A n \in 1..L : queue'[n] = queue[n]
        /\ 1..Len(queue') = 1..L \cup {L + 1} /\ L \in Nat
    BY <2>1, Appended
  <2>3. Waiters' = Waiters /\ \A n \in Waiters : queue'[n] = queue[n]
    BY <2>2
  <2> QED  BY <2>1, <2>3
<1>5. ASSUME queue # <<>>, queue' = Tail(queue), UNCHANGED <<accepted, attempted>>, inHand = 0,
             IF queue[1] = Shutdown THEN inHand' = 0 ELSE inHand' = queue[1]
      PROVE  NoLossInOrder'
  <2>1. /\ Len(queue') = Len(queue) - 1 /\ Len(queue) \in Nat \ {0}
        /\ \A n \in 1..Len(queue') : queue'[n] = queue[n + 1]
    BY <1>5, Shifted
  <2>2. /\ \A n \in Waiters' : n + 1 \in Waiters /\ queue'[n] = queue[n + 1]
        /\ \A n \in Waiters : n # 1 => n - 1 \in Waiters' /\ queue'[n - 1] = queue[n]
        /\ Waiters \subseteq Nat /\ Waiters' \subseteq Nat
    BY <2>1
  <2>3. \A m, n \in Waiters' : m < n => queue'[m] < queue'[n]
    BY <2>2
  <2>4. CASE queue[1] = Shutdown
    <3>1. 1 \notin Waiters
      BY <2>4
    <3>2. /\ \A n \in Waiters' : \E m \in Waiters : queue'[n] = queue[m]
          /\ \A n \in Waiters : n # 1 /\ \E m \in Waiters' : queue[n] = queue'[m]
      BY <2>2, <3>1
    <3> HIDE DEF Waiters
    <3>3. {queue'[n] : n \in Waiters'} = {queue[n] : n \in Waiters}
      BY <3>2
    <3> QED  BY <1>5, <2>3, <2>4, <3>3
  <2>5. CASE queue[1] # Shutdown
    <3>1. 1 \in Waiters /\ inHand' = queue[1]
      BY <1>5, <2>1, <2>5
    <3>2. /\ \A n \in Waiters : n # 1 => 1 < n
          /\ queue[1] \in (Taken + 1)..accepted
      BY <2>1, <3>1
    <3>3. queue[1] = Taken + 1
      <4>1. Taken + 1 \in (Taken + 1)..accepted
        BY <1>0, <3>2
      <4>2. PICK n \in Waiters : queue[n] = Taken + 1
        BY <4>1
      <4>3. n = 1 \/ queue[1] < queue[n]
        BY <3>1, <3>2
      <4> QED  BY <1>0, <3>2, <4>2, <4>3
    <3>4. {queue'[n] : n \in Waiters'} = {queue[n] : n \in Waiters} \ {queue[1]}
      <4>1. \A n \in Waiters' : queue'[n] = queue[n + 1] /\ queue[n + 1] # queue[1]
        <5>1. \A n \in Waiters' : n + 1 \in Waiters /\ n + 1 # 1 /\ queue'[n] = queue[n + 1]
          BY <2>2
        <5>2. \A n \in Waiters : n # 1 => queue[1] < queue[n]
          BY <3>1, <3>2
        <5> QED  BY <1>0, <5>1, <5>2
      <4>2. /\ \A n \in Waiters' : \E m \in Waiters : queue'[n] = queue[m] /\ queue[m] # queue[1]
            /\ \A n \in Waiters : n = 1 \/ \E m \in Waiters' : queue[n] = queue'[m]
        BY <2>2, <4>1
      <4> HIDE DEF Waiters
      <4> QED  BY <4>2
    <3>5. Taken' = Taken + 1 /\ inHand' = Taken' /\ Taken' <= accepted
      BY <1>0, <1>5, <3>1, <3>2, <3>3
    <3>6. ((Taken + 1)..accepted) \ {Taken + 1} = (Taken' + 1)..accepted
      BY <1>0, <3>5
    <3> HIDE DEF Taken, Waiters
    <3> QED  BY <1>5, <2>3, <3>3, <3>4, <3>5, <3>6
  <2> QED  BY <2>4, <2>5
<1>6. CASE Get \/ Exit
  <2>1. Head(queue) = queue[1] \/ queue = <<>>
    BY DEF TypeOK
  <2> QED  BY <1>5, <1>6, <2>1 DEF Get, Exit, Waiting
<1>7. CASE Post
  <2>1. /\ inHand # 0 /\ inHand' = 0 /\ attempted' = Append(attempted, inHand)
        /\ UNCHANGED <<queue, accepted>>
    BY <1>7 DEF Post
  <2>2. inHand = Len(attempted) + 1 /\ Taken = Len(attempted) + 1
    BY <1>0, <2>1
  <2>3. /\ Len(attempted') = Len(attempted) + 1 /\ Taken' = Taken
        /\ \A n \in 1..Len(attempted') : attempted'[n] = n
    BY <2>1, <2>2 DEF TypeOK
  <2> QED  BY <2>1, <2>3
<1> QED  BY <1>2, <1>3, <1>4, <1>6, <1>7 DEF Next, Worker

(* Nothing accepted is lost, duplicated or reordered, however calls of     *)
(* fire(), start() and stop() and the worker interleave.                   *)
THEOREM NothingLost == Spec => []NoLossInOrder
<1>1. Init => NoLossInOrder
  BY DEF Init, NoLossInOrder, Waiters, Taken
<1>2. TypeOK /\ TypeOK' /\ NoLossInOrder /\ [Next]_vars => NoLossInOrder'
  BY NextInOrder
<1> QED  BY <1>1, <1>2, DispatcherTypeCorrect, PTL DEF Spec

-----------------------------------------------------------------------------
(* stop()                                                                  *)

(* Before the only call of stop() there is no sentinel and no worker has   *)
(* exited; when the call waits for the worker, whatever is behind its      *)
(* sentinel is newer than its barrier.                                     *)
DrainInv ==
    /\ barrier <= accepted
    /\ stops = 0 \/ control = "putting" =>
           thread # "dead" /\ \A n \in 1..Len(queue) : queue[n] # Shutdown
    /\ stops = 0 => control \notin {"putting", "joining"}
    /\ control = "joining" =>
           \A p \in 1..Len(queue) : queue[p] = Shutdown =>
               \A n \in 1..Len(queue) : p < n => queue[n] > barrier
    /\ control = "joining" /\ thread = "dead" => Len(attempted) >= barrier

(* A worker that finds the sentinel first has posted all that was accepted *)
(* up to the barrier.                                                      *)
LEMMA ExitDrained ==
  ASSUME TypeOK, NoLossInOrder, DrainInv, Exit, control = "joining"
  PROVE  Len(attempted) >= barrier
<1>1. /\ queue # <<>> /\ queue[1] = Shutdown /\ inHand = 0 /\ Len(queue) \in Nat \ {0}
      /\ Len(attempted) \in Nat /\ accepted \in Nat /\ barrier \in Nat
  BY DEF Exit, Waiting, TypeOK
<1>2. \A n \in Waiters : queue[n] > barrier
  <2>1. \A n \in Waiters : n \in 1..Len(queue) /\ 1 < n
    BY <1>1 DEF Waiters
  <2>2. 1 \in 1..Len(queue)
    BY <1>1
  <2> QED  BY <1>1, <2>1, <2>2 DEF DrainInv
<1>3. SUFFICES ASSUME Len(attempted) < barrier PROVE FALSE
  BY <1>1
<1>4. barrier \in (Taken + 1)..accepted
  BY <1>1, <1>3 DEF Taken, DrainInv
<1>5. PICK n \in Waiters : queue[n] = barrier
  BY <1>4 DEF NoLossInOrder
<1> QED  BY <1>1, <1>2, <1>5

LEMMA NextDrain ==
  ASSUME MaxStops <= 1, TypeOK, TypeOK', NoLossInOrder, DrainInv, [Next]_vars
  PROVE  DrainInv'
<1>0. /\ barrier \in Nat /\ accepted \in Nat /\ Len(attempted) \in Nat
      /\ stops \in Nat /\ Len(queue) \in Nat /\ MaxStops \in Nat
  BY DispatcherAssumption DEF TypeOK
<1>1. CASE UNCHANGED vars \/ Join \/ JoinTimeout \/ ProcessExit
  BY <1>1 DEF DrainInv, vars, Join, JoinTimeout, ProcessExit
<1>2. CASE Start
  BY <1>2 DEF DrainInv, Start
<1>3. CASE Stop
  <2>1. stops = 0 /\ stops' # 0
    BY <1>0, <1>3 DEF Stop
  <2> QED  BY <1>3, <2>1 DEF DrainInv, Stop
<1>4. ASSUME NEW t, Fire(t) PROVE DrainInv'
  <2>1. /\ queue' = Append(queue, accepted + 1) /\ accepted' = accepted + 1
        /\ UNCHANGED <<thread, control, stops, attempted, barrier>>
    BY <1>4 DEF Fire
  <2>2. /\ queue'[Len(queue) + 1] = accepted + 1
        /\ \A n \in 1..Len(queue) : queue'[n] = queue[n]
        /\ 1..Len(queue') = 1..Len(queue) \cup {Len(queue) + 1}
    BY <2>1, Appended
  <2>3. accepted + 1 # Shutdown /\ accepted + 1 > barrier
    BY <1>0 DEF DrainInv, Shutdown
  <2>4. stops = 0 \/ control = "putting" => \A n \in 1..Len(queue') : queue'[n] # Shutdown
    BY <2>2, <2>3 DEF DrainInv
  <2>5. ASSUME control = "joining", NEW p \in 1..Len(queue'), queue'[p] = Shutdown,
               NEW n \in 1..Len(queue'), p < n
        PROVE  queue'[n] > barrier
    <3>1. p \in 1..Len(queue) /\ queue[p] = Shutdown
      BY <2>2, <2>3, <2>5
    <3>2. CASE n \in 1..Len(queue)
      BY <2>2, <2>5, <3>1, <3>2 DEF DrainInv
    <3>3. CASE n = Len(queue) + 1
      BY <2>2, <2>3, <3>3
    <3> QED  BY <2>2, <3>2, <3>3
  <2>6. barrier <= accepted + 1
    BY <1>0 DEF DrainInv
  <2> QED  BY <2>1, <2>4, <2>5, <2>6 DEF DrainInv
<1>5. CASE PutSentinel
  <2>1. /\ queue' = Append(queue, Shutdown) /\ barrier' = accepted
        /\ control = "putting" /\ control' = "joining"
        /\ UNCHANGED <<thread, stops, accepted, attempted>>
    BY <1>5 DEF PutSentinel
  <2>2. /\ \A n \in 1..Len(queue) : queue'[n] = queue[n]
        /\ 1..Len(queue') = 1..Len(queue) \cup {Len(queue) + 1}
    BY <2>1, Appended
  <2>3. \A p, n \in 1..Len(queue') : queue'[p] = Shutdown => ~(p < n)
    <3>1. ASSUME NEW p \in 1..Len(queue'), NEW n \in 1..Len(queue'), queue'[p] = Shutdown
          PROVE  ~(p < n)
      <4>1. p = Len(queue) + 1
        BY <2>1, <2>2, <3>1 DEF DrainInv
      <4> QED  BY <1>0, <2>2, <4>1
    <3> QED  BY <3>1
  <2>4. thread # "dead" /\ stops # 0
    BY <2>1 DEF DrainInv
  <2> QED  BY <1>0, <2>1, <2>3, <2>4 DEF DrainInv
<1>6. ASSUME queue # <<>>, queue' = Tail(queue),
             UNCHANGED <<control, stops, accepted, attempted, barrier>>,
             \/ thread' = thread
             \/ Exit
      PROVE  DrainInv'
  <2>1. /\ Len(queue') = Len(queue) - 1 /\ Head(queue) = queue[1]
        /\ Len(queue) \in Nat \ {0}
        /\ \A n \in 1..Len(queue') : queue'[n] = queue[n + 1]
    BY <1>6, Shifted
  <2>2. \A n \in 1..Len(queue') : n + 1 \in 1..Len(queue) /\ queue'[n] = queue[n + 1]
    BY <2>1
  <2>3. \A p, n \in 1..Len(queue') : p < n => p + 1 < n + 1
    OBVIOUS
  <2>4. control = "joining" =>
            \A p \in 1..Len(queue') : queue'[p] = Shutdown =>
                \A n \in 1..Len(queue') : p < n => queue'[n] > barrier
    BY <2>2, <2>3 DEF DrainInv
  <2>5. CASE thread' = thread
    BY <1>6, <2>2, <2>4, <2>5 DEF DrainInv
  <2>6. CASE Exit
    <3>1. 1 \in 1..Len(queue) /\ queue[1] = Shutdown
      BY <2>1, <2>6 DEF Exit, Waiting
    <3>2. ~(stops = 0 \/ control = "putting")
      BY <3>1 DEF DrainInv
    <3>3. control = "joining" => Len(attempted) >= barrier
      BY <2>6, ExitDrained
    <3> QED  BY <1>6, <2>4, <3>2, <3>3 DEF DrainInv
  <2> QED  BY <1>6, <2>5, <2>6
<1>7. CASE Get \/ Exit
  BY <1>6, <1>7 DEF Get, Exit, Waiting
<1>8. CASE Post
  <2>1. Len(attempted') = Len(attempted) + 1
    BY <1>8 DEF Post, TypeOK
  <2> QED  BY <1>0, <1>8, <2>1 DEF Post, DrainInv
<1> QED  BY <1>1, <1>2, <1>3, <1>4, <1>5, <1>7, <1>8 DEF Next, Worker

(* stop() drains: when the only call of a process sees the worker exit,    *)
(* everything accepted before its sentinel has been posted.                *)
THEOREM StopHasDrained ==
  ASSUME MaxStops <= 1
  PROVE  Spec => StopDrains
<1>1. Init => DrainInv
  BY DEF Init, DrainInv
<1>2. TypeOK /\ TypeOK' /\ NoLossInOrder /\ DrainInv /\ [Next]_vars => DrainInv'
  BY NextDrain
<1>3. DrainInv /\ [Next]_vars =>
          [control = "joining" /\ control' = "free" /\ thread = "dead" =>
              Len(attempted) >= barrier]_vars
  BY DEF DrainInv
<1> QED
  BY <1>1, <1>2, <1>3, DispatcherTypeCorrect, NothingLost, PTL DEF Spec, StopDrains

-----------------------------------------------------------------------------
(* The tail of a check implements a caller of the dispatcher               *)

LEMMA EmitFires ==
  ASSUME NEW type, Emit(type)
  PROVE  [Next]_vars
<1>1. CASE Fire(type)
  <2>1. type \in Types
    BY <1>1, DispatcherAssumption DEF Fire
  <2> QED  BY <1>1, <2>1 DEF Next
<1> QED  BY <1>1 DEF Emit

LEMMA TailSteps ==
  ASSUME [TailNext]_whole
  PROVE  [Next]_vars
<1>1. CASE UNCHANGED whole
  BY <1>1 DEF whole
<1>2. CASE Dispatching
  <2>1. Fire("sla_breached") => "sla_breached" \in Types
    BY DispatcherAssumption DEF Fire
  <2> QED  BY <1>2, <2>1 DEF Dispatching, Next
<1>3. ASSUME NEW t \in Threads, Persist(t) \/ Step(t) \/ GiveUp(t) PROVE [Next]_vars
  <2>1. CASE Report(t) \/ Alert(t)
    BY <2>1, EmitFires DEF Report, Alert
  <2>2. CASE UNCHANGED vars
    BY <2>2
  <2>3. Report(t) \/ Alert(t) \/ UNCHANGED vars
    BY <1>3 DEF Persist, Step, Fixed, FixRaises, BeginExplain, Ask, Write, GiveUp,
          CommitExplanations, Finish
  <2> QED  BY <2>1, <2>2, <2>3
<1> QED  BY <1>1, <1>2, <1>3 DEF TailNext

(* The checks, with their explanations and the SLA job, are callers as the *)
(* dispatcher expects them: what holds of it holds beside them.            *)
THEOREM TailImplementsDispatcher == TailSpec => Spec
<1>1. TailInit => Init
  BY DEF TailInit
<1>2. [TailNext]_whole => [Next]_vars
  BY TailSteps
<1> QED  BY <1>1, <1>2, PTL DEF TailSpec, Spec

-----------------------------------------------------------------------------
(* Where a check is                                                        *)

(* The position n runs over the drift records, or over the outcomes of the  *)
(* fixes, and the alerts fired are as many as the critical records it has  *)
(* passed.                                                                 *)
CheckType ==
    [phase : Progress, drifts : Seq([fp : Fingerprints, critical : BOOLEAN]),
     outcomes : Seq({"apply_success", "apply_failure"}), n : Nat \ {0},
     existing : SUBSET Fingerprints, loaded : Sources \cup {"none"},
     text : Sources \cup {"none"}, written : [Fingerprints -> Sources \cup {"none"}],
     fired : Nat]

PassedCriticals(c) == {m \in 1..Len(c.drifts) : c.drifts[m].critical /\ m < c.n}

Placed(t, c) ==
    /\ c.drifts \in Findings[t] \cup {<<>>}
    /\ c.n <= CASE c.phase = "reporting" -> Len(c.outcomes) + 1
               [] c.phase = "writing" -> Len(c.drifts)
               [] c.phase \in {"asking", "alerting"} -> Len(c.drifts) + 1
               [] OTHER -> 1
    /\ c.fired = IF c.phase = "alerting" THEN Cardinality(PassedCriticals(c)) ELSE 0

TailInv ==
    /\ TypeOK
    /\ explained \in [Fingerprints -> Sources \cup {"none"}]
    /\ checks \in 0..MaxChecks
    /\ check \in [Threads -> CheckType]
    /\ \A t \in Threads : Placed(t, check[t])

LEMMA NoCheckPlaced ==
  ASSUME NEW t
  PROVE  NoCheck \in CheckType /\ Placed(t, NoCheck)
<1>1. NoRows \in [Fingerprints -> Sources \cup {"none"}]
  BY DEF NoRows
<1> QED  BY <1>1 DEF NoCheck, CheckType, Placed, Progress, Sources

(* A new place of one thread's check, and nothing else that matters.       *)
LEMMA Replaced ==
  ASSUME TailInv, TypeOK', NEW t \in Threads, NEW c \in CheckType, Placed(t, c), Becomes(t, c),
         explained' \in [Fingerprints -> Sources \cup {"none"}], checks' \in 0..MaxChecks
  PROVE  TailInv'
<1>1. \A u \in Threads : check'[u] = IF u = t THEN c ELSE check[u]
  BY DEF Becomes, TailInv
<1>2. check' \in [Threads -> CheckType]
  BY DEF Becomes, TailInv
<1> QED  BY <1>1, <1>2 DEF TailInv

(* No critical record is passed by the first, ...                          *)
LEMMA NonePassed ==
  ASSUME NEW c \in CheckType, c.n = 1
  PROVE  Cardinality(PassedCriticals(c)) = 0
<1>1. PassedCriticals(c) = {}
  BY DEF PassedCriticals, CheckType
<1> QED  BY <1>1, FS_EmptySet

(* ... and each alert passes one more.                                     *)
LEMMA OnePassed ==
  ASSUME NEW c \in CheckType, NEW e \in CheckType, c.n <= Len(c.drifts),
         e.drifts = c.drifts, e.n = c.n + 1
  PROVE  Cardinality(PassedCriticals(e)) =
             Cardinality(PassedCriticals(c)) + IF c.drifts[c.n].critical THEN 1 ELSE 0
<1>1. c.n \in 1..Len(c.drifts) /\ Len(c.drifts) \in Nat /\ c.n \in Nat
  BY DEF CheckType
<1>2. IsFiniteSet(PassedCriticals(c)) /\ Cardinality(PassedCriticals(c)) \in Nat
  <2>1. IsFiniteSet(1..Len(c.drifts))
    BY <1>1, FS_Interval
  <2>2. PassedCriticals(c) \subseteq 1..Len(c.drifts)
    BY DEF PassedCriticals
  <2>3. IsFiniteSet(PassedCriticals(c))
    BY <2>1, <2>2, FS_Subset
  <2> QED  BY <2>3, FS_CardinalityType
<1>3. c.n \notin PassedCriticals(c)
  BY <1>1 DEF PassedCriticals
<1>4. CASE c.drifts[c.n].critical
  <2>1. PassedCriticals(e) = PassedCriticals(c) \cup {c.n}
    BY <1>1, <1>4 DEF PassedCriticals
  <2> QED  BY <1>2, <1>3, <1>4, <2>1, FS_AddElement
<1>5. CASE ~c.drifts[c.n].critical
  <2>1. PassedCriticals(e) = PassedCriticals(c)
    BY <1>1, <1>5 DEF PassedCriticals
  <2> QED  BY <1>2, <1>5, <2>1
<1> QED  BY <1>4, <1>5

(* The next record, and the next phase.                                    *)
LEMMA PassedType ==
  ASSUME NEW t, check[t] \in CheckType
  PROVE  /\ Passed(t) \in CheckType /\ Passed(t).n = check[t].n + 1
         /\ Passed(t).fired = check[t].fired /\ Passed(t).phase = check[t].phase
         /\ Passed(t).drifts = check[t].drifts /\ Passed(t).outcomes = check[t].outcomes
         /\ Passed(t).written = check[t].written
<1>1. check[t].n + 1 \in Nat \ {0}
  BY DEF CheckType
<1> DEFINE k == check[t].n + 1
<1> HIDE DEF k
<1>2. Passed(t) = [check[t] EXCEPT !.n = k]
  BY DEF Passed, k
<1>3. k \in Nat \ {0}
  BY <1>1 DEF k
<1>4. /\ Passed(t) \in CheckType /\ Passed(t).n = k
      /\ Passed(t).fired = check[t].fired /\ Passed(t).phase = check[t].phase
      /\ Passed(t).drifts = check[t].drifts /\ Passed(t).outcomes = check[t].outcomes
      /\ Passed(t).written = check[t].written
  BY <1>2, <1>3 DEF CheckType
<1> QED  BY <1>4 DEF k

LEMMA DoneType ==
  ASSUME NEW t, check[t] \in CheckType, NEW phase \in Progress
  PROVE  /\ Done(t, phase) \in CheckType /\ Done(t, phase).n = 1
         /\ Done(t, phase).fired = check[t].fired /\ Done(t, phase).phase = phase
         /\ Done(t, phase).drifts = check[t].drifts
<1>1. 1 \in Nat \ {0}
  OBVIOUS
<1> QED  BY <1>1 DEF Done, CheckType

(* The record a check looks at is one of its findings.                     *)
LEMMA FpType ==
  ASSUME NEW t, check[t] \in CheckType, check[t].n <= Len(check[t].drifts)
  PROVE  check[t].n \in 1..Len(check[t].drifts) /\ Fp(t) \in Fingerprints
<1>1. /\ check[t].drifts \in Seq([fp : Fingerprints, critical : BOOLEAN])
      /\ check[t].n \in Nat \ {0} /\ Len(check[t].drifts) \in Nat
  BY DEF CheckType
<1>2. check[t].n \in 1..Len(check[t].drifts)
  BY <1>1
<1>3. check[t].drifts[check[t].n] \in [fp : Fingerprints, critical : BOOLEAN]
  <2> DEFINE F == [fp : Fingerprints, critical : BOOLEAN]
             s == check[t].drifts
             n == check[t].n
  <2>1. s \in Seq(F) /\ n \in 1..Len(s)
    BY <1>1, <1>2
  <2> HIDE DEF F, s, n
  <2>2. s[n] \in F
    BY <2>1
  <2> QED  BY <2>2 DEF F, s, n
<1> QED  BY <1>2, <1>3 DEF Fp

LEMMA StepPlaced ==
  ASSUME TailInv, TypeOK', NEW t \in Threads, Persist(t) \/ Step(t) \/ GiveUp(t)
  PROVE  TailInv'
<1> DEFINE c == check[t]
<1>0. /\ c \in CheckType /\ Placed(t, c) /\ TypeOK'
      /\ explained \in [Fingerprints -> Sources \cup {"none"}] /\ checks \in 0..MaxChecks
  BY DEF TailInv
<1>1. CASE Persist(t)
  <2>1. PICK drifts \in Findings[t] :
           Becomes(t, [NoCheck EXCEPT !.phase = "fixing", !.drifts = drifts])
    BY <1>1 DEF Persist
  <2> DEFINE e == [NoCheck EXCEPT !.phase = "fixing", !.drifts = drifts]
  <2>2. drifts \in Seq([fp : Fingerprints, critical : BOOLEAN])
    BY TailAssumption
  <2>3. e \in CheckType /\ e.n = 1 /\ e.fired = 0 /\ e.phase = "fixing" /\ e.drifts = drifts
    BY <2>2, NoCheckPlaced DEF NoCheck, CheckType, Progress
  <2>4. Placed(t, e)
    BY <2>3 DEF Placed
  <2>5. explained' = explained /\ checks' \in 0..MaxChecks
    <3>1. checks < MaxChecks /\ checks' = checks + 1 /\ explained' = explained
      BY <1>1 DEF Persist
    <3>2. MaxChecks \in Nat
      BY TailAssumption
    <3> QED  BY <1>0, <3>1, <3>2
  <2> HIDE DEF e
  <2> QED  BY <1>0, <2>1, <2>3, <2>4, <2>5, Replaced DEF e
<1>2. CASE Fixed(t)
  <2>1. PICK outcomes \in Outcomes :
           Becomes(t, [check[t] EXCEPT !.phase = "reporting", !.outcomes = outcomes])
    BY <1>2 DEF Fixed
  <2> DEFINE e == [check[t] EXCEPT !.phase = "reporting", !.outcomes = outcomes]
  <2>2. outcomes \in Seq({"apply_success", "apply_failure"}) /\ c.phase = "fixing"
    BY <1>2, TailAssumption DEF Fixed, In
  <2>3. /\ e \in CheckType /\ e.n = c.n /\ e.fired = c.fired /\ e.phase = "reporting"
        /\ e.drifts = c.drifts /\ e.outcomes = outcomes
    BY <1>0, <2>2 DEF CheckType, Progress
  <2>4. Placed(t, e)
    BY <1>0, <2>2, <2>3 DEF Placed, CheckType
  <2> HIDE DEF e
  <2> QED  BY <1>0, <1>2, <2>1, <2>3, <2>4, Replaced DEF e, Fixed
<1>3. CASE FixRaises(t) \/ Finish(t)
  BY <1>0, <1>3, NoCheckPlaced, Replaced DEF FixRaises, Finish
<1>4. CASE Report(t)
  <2>1. c.phase = "reporting" /\ explained' = explained /\ checks' = checks
    BY <1>4 DEF Report, In
  <2>2. CASE c.n <= Len(c.outcomes)
    <3> DEFINE e == Passed(t)
    <3>1. /\ e \in CheckType /\ e.n = c.n + 1 /\ e.fired = c.fired /\ e.phase = c.phase
          /\ e.drifts = c.drifts /\ e.outcomes = c.outcomes
      BY <1>0, PassedType
    <3>2. Placed(t, e)
      BY <1>0, <2>1, <2>2, <3>1 DEF Placed, CheckType
    <3>3. Becomes(t, e)
      BY <1>4, <2>2 DEF Report
    <3> HIDE DEF e
    <3> QED  BY <1>0, <2>1, <3>1, <3>2, <3>3, Replaced
  <2>3. CASE ~(c.n <= Len(c.outcomes))
    <3> DEFINE e == Done(t, "explaining")
    <3>1. /\ e \in CheckType /\ e.n = 1 /\ e.fired = c.fired /\ e.phase = "explaining"
          /\ e.drifts = c.drifts
      BY <1>0, DoneType DEF Progress
    <3>2. Placed(t, e)
      BY <1>0, <2>1, <3>1 DEF Placed
    <3>3. Becomes(t, e)
      BY <1>4, <2>3 DEF Report
    <3> HIDE DEF e
    <3> QED  BY <1>0, <2>1, <3>1, <3>2, <3>3, Replaced
  <2> QED  BY <2>2, <2>3
<1>a. ASSUME NEW e \in CheckType, e.n = 1, e.phase \in {"asking", "alerting"},
             e.drifts = c.drifts, e.fired = 0
      PROVE  Placed(t, e)
  <2>1. Len(e.drifts) \in Nat
    BY DEF CheckType
  <2> QED  BY <1>0, <1>a, <2>1, NonePassed DEF Placed
<1>5. CASE BeginExplain(t)
  <2>1. c.phase = "explaining" /\ c.fired = 0
    BY <1>0, <1>5 DEF BeginExplain, In, Placed
  <2>2. explained' = explained /\ checks' = checks
    BY <1>5 DEF BeginExplain
  <2> DEFINE e == [Done(t, "asking") EXCEPT !.existing = Stored]
             f == Done(t, "alerting")
  <2>3. /\ e \in CheckType /\ e.n = 1 /\ e.phase = "asking" /\ e.drifts = c.drifts
        /\ e.fired = 0
    <3>1. /\ Done(t, "asking") \in CheckType /\ Done(t, "asking").n = 1
          /\ Done(t, "asking").phase = "asking" /\ Done(t, "asking").drifts = c.drifts
          /\ Done(t, "asking").fired = 0
      BY <1>0, <2>1, DoneType DEF Progress
    <3> QED  BY <3>1 DEF CheckType, Stored
  <2>4. /\ f \in CheckType /\ f.n = 1 /\ f.phase = "alerting" /\ f.drifts = c.drifts
        /\ f.fired = 0
    BY <1>0, <2>1, DoneType DEF Progress
  <2>5. Becomes(t, e) \/ Becomes(t, f)
    BY <1>5 DEF BeginExplain
  <2> HIDE DEF e, f
  <2> QED  BY <1>0, <1>a, <2>2, <2>3, <2>4, <2>5, Replaced
<1>6. CASE Ask(t)
  <2>1. /\ c.phase = "asking" /\ c.n <= Len(c.drifts) /\ c.fired = 0
        /\ explained' = explained /\ checks' = checks
    BY <1>0, <1>6 DEF Ask, In, Placed
  <2>2. c.n \in 1..Len(c.drifts) /\ Fp(t) \in Fingerprints
    BY <1>0, <2>1, FpType
  <2>3. CASE Fp(t) \in Skipped(t)
    <3> DEFINE e == Passed(t)
    <3>1. /\ e \in CheckType /\ e.n = c.n + 1 /\ e.fired = 0 /\ e.phase = "asking"
          /\ e.drifts = c.drifts
      BY <1>0, <2>1, PassedType
    <3>2. Placed(t, e)
      BY <1>0, <2>1, <2>2, <3>1 DEF Placed, CheckType
    <3>3. Becomes(t, e)
      BY <1>6, <2>3 DEF Ask
    <3> HIDE DEF e
    <3> QED  BY <1>0, <2>1, <3>1, <3>2, <3>3, Replaced
  <2>4. CASE Fp(t) \notin Skipped(t)
    <3>1. PICK source \in Answers(t) :
             Becomes(t, [check[t] EXCEPT !.phase = "writing", !.text = source,
                                         !.loaded = explained[Fp(t)]])
      BY <1>6, <2>4 DEF Ask
    <3> DEFINE e == [check[t] EXCEPT !.phase = "writing", !.text = source,
                                     !.loaded = explained[Fp(t)]]
    <3>2. source \in Sources /\ explained[Fp(t)] \in Sources \cup {"none"}
      BY <1>0, <2>2, TailAssumption DEF Answers, Sources
    <3>3. /\ e \in CheckType /\ e.n = c.n /\ e.fired = 0 /\ e.phase = "writing"
          /\ e.drifts = c.drifts
      BY <1>0, <2>1, <3>2 DEF CheckType, Progress
    <3>4. Placed(t, e)
      BY <1>0, <2>1, <3>3 DEF Placed
    <3> HIDE DEF e
    <3> QED  BY <1>0, <2>1, <3>1, <3>3, <3>4, Replaced DEF e
  <2> QED  BY <2>3, <2>4
<1>7. CASE Write(t)
  <2>1. /\ c.phase = "writing" /\ c.n <= Len(c.drifts) /\ c.fired = 0
        /\ explained' = explained /\ checks' = checks
    BY <1>0, <1>7 DEF Write, In, Placed
  <2>2. c.n \in 1..Len(c.drifts) /\ Fp(t) \in Fingerprints
    BY <1>0, <2>1, FpType
  <2> DEFINE e == [Passed(t) EXCEPT !.phase = "asking", !.written[Fp(t)] = check[t].text]
  <2>3. Passed(t) \in CheckType /\ Passed(t).n = c.n + 1 /\ Passed(t).fired = 0
        /\ Passed(t).drifts = c.drifts /\ Passed(t).written = c.written
    BY <1>0, <2>1, PassedType
  <2>4. [c.written EXCEPT ![Fp(t)] = c.text] \in [Fingerprints -> Sources \cup {"none"}]
    BY <1>0, <2>2 DEF CheckType
  <2>5. /\ e \in CheckType /\ e.n = c.n + 1 /\ e.fired = 0 /\ e.phase = "asking"
        /\ e.drifts = c.drifts
    BY <2>3, <2>4 DEF CheckType, Progress
  <2>6. Placed(t, e)
    BY <1>0, <2>1, <2>2, <2>5 DEF Placed, CheckType
  <2>7. Becomes(t, e)
    BY <1>7 DEF Write
  <2> HIDE DEF e
  <2> QED  BY <1>0, <2>1, <2>5, <2>6, <2>7, Replaced
<1>8. CASE GiveUp(t) \/ CommitExplanations(t)
  <2>1. c.phase \in {"writing", "asking"} /\ c.fired = 0 /\ checks' = checks
    BY <1>0, <1>8 DEF GiveUp, Trying, CommitExplanations, In, Placed
  <2> DEFINE e == [Done(t, "alerting") EXCEPT !.written = NoRows]
  <2>2. NoRows \in [Fingerprints -> Sources \cup {"none"}]
    BY DEF NoRows
  <2>3. /\ e \in CheckType /\ e.n = 1 /\ e.fired = 0 /\ e.phase = "alerting"
        /\ e.drifts = c.drifts
    <3>1. /\ Done(t, "alerting") \in CheckType /\ Done(t, "alerting").n = 1
          /\ Done(t, "alerting").phase = "alerting" /\ Done(t, "alerting").drifts = c.drifts
          /\ Done(t, "alerting").fired = 0
      BY <1>0, <2>1, DoneType DEF Progress
    <3> QED  BY <2>2, <3>1 DEF CheckType
  <2>4. explained' \in [Fingerprints -> Sources \cup {"none"}]
    BY <1>0, <1>8 DEF GiveUp, CommitExplanations, CheckType
  <2>5. Becomes(t, e)
    BY <1>8 DEF GiveUp, CommitExplanations
  <2> HIDE DEF e
  <2> QED  BY <1>0, <1>a, <2>1, <2>3, <2>4, <2>5, Replaced
<1>9. CASE Alert(t)
  <2>1. /\ c.phase = "alerting" /\ c.n <= Len(c.drifts)
        /\ c.fired = Cardinality(PassedCriticals(c))
        /\ explained' = explained /\ checks' = checks
    BY <1>0, <1>9 DEF Alert, In, Placed
  <2> DEFINE k == IF c.drifts[c.n].critical THEN 1 ELSE 0
             e == IF c.drifts[c.n].critical THEN [Passed(t) EXCEPT !.fired = @ + 1]
                  ELSE Passed(t)
  <2>2. /\ e \in CheckType /\ e.n = c.n + 1 /\ e.fired = c.fired + k /\ e.phase = "alerting"
        /\ e.drifts = c.drifts
    <3>1. /\ Passed(t) \in CheckType /\ Passed(t).n = c.n + 1 /\ Passed(t).fired = c.fired
          /\ Passed(t).phase = "alerting" /\ Passed(t).drifts = c.drifts /\ c.fired \in Nat
      BY <1>0, <2>1, PassedType DEF CheckType
    <3>2. CASE c.drifts[c.n].critical
      <4> DEFINE g == [Passed(t) EXCEPT !.fired = Passed(t).fired + 1]
      <4>1. e = g /\ k = 1 /\ Passed(t).fired + 1 \in Nat
        BY <3>1, <3>2
      <4>2. /\ g \in CheckType /\ g.n = c.n + 1 /\ g.fired = c.fired + 1
            /\ g.phase = "alerting" /\ g.drifts = c.drifts
        BY <3>1, <4>1 DEF CheckType
      <4> QED  BY <4>1, <4>2
    <3>3. CASE ~c.drifts[c.n].critical
      BY <3>1, <3>3
    <3> QED  BY <3>2, <3>3
  <2>3. Becomes(t, e)
    BY <1>9 DEF Alert
  <2> HIDE DEF e
  <2>4. e.fired = Cardinality(PassedCriticals(e))
    BY <1>0, <2>1, <2>2, OnePassed
  <2>5. Placed(t, e)
    BY <1>0, <2>1, <2>2, <2>4 DEF Placed, CheckType
  <2> QED  BY <1>0, <2>1, <2>2, <2>3, <2>5, Replaced
<1> QED
  BY <1>1, <1>2, <1>3, <1>4, <1>5, <1>6, <1>7, <1>8, <1>9 DEF Step

LEMMA TailInvariant == TailSpec => []TailInv
<1>1. TailInit => TailInv
  <2>1. ASSUME TailInit PROVE TailInv
    <3>1. TypeOK
      BY <2>1, DispatcherAssumption DEF TailInit, Init, TypeOK
    <3> QED  BY <2>1, <3>1, NoCheckPlaced, TailAssumption DEF TailInit, TailInv, NoRows
  <2> QED  BY <2>1
<1>2. TypeOK' /\ TailInv /\ [TailNext]_whole => TailInv'
  <2>1. ASSUME TypeOK', TailInv, Dispatching \/ UNCHANGED whole PROVE TailInv'
    BY <2>1 DEF Dispatching, whole, tail, TailInv
  <2> QED  BY <2>1, StepPlaced DEF TailNext
<1> QED  BY <1>1, <1>2, TailImplementsDispatcher, DispatcherTypeCorrect, PTL DEF TailSpec

(* Type correctness of the checks and the dispatcher they share.           *)
THEOREM TailTypeCorrect == TailSpec => []TailTypes
<1>1. TailInv => TailTypes
  <2>1. ASSUME TailInv, NEW t \in Threads
        PROVE  check[t].n \in 1..(Len(check[t].drifts) + Len(check[t].outcomes) + 1)
    <3>1. /\ check[t].n \in Nat \ {0}
          /\ Len(check[t].drifts) \in Nat /\ Len(check[t].outcomes) \in Nat
      BY <2>1 DEF TailInv, CheckType
    <3>2. Placed(t, check[t])
      BY <2>1 DEF TailInv
    <3> DEFINE n == check[t].n
               d == Len(check[t].drifts)
               o == Len(check[t].outcomes)
    <3>3. n <= o + 1 \/ n <= d \/ n <= d + 1 \/ n <= 1
      BY <3>2 DEF Placed
    <3>a. n \in Nat \ {0} /\ d \in Nat /\ o \in Nat
      BY <3>1
    <3> HIDE DEF n, d, o
    <3>4. n \in 1..(d + o + 1)
      BY <3>a, <3>3
    <3> QED  BY <3>4 DEF n, d, o
  <2> QED  BY <2>1 DEF TailInv, TailTypes, CheckType, Placed
<1> QED  BY <1>1, TailInvariant, PTL

(* Explanations never break a check: once the auto-apply loop has          *)
(* returned, it ends only after one alert for each critical drift,         *)
(* whatever the model answers and however the transactions of other        *)
(* threads conflict with its own.                                          *)
THEOREM AlertsAlwaysSurvive == TailSpec => AlertsSurvive
<1>1. TailInv /\ [TailNext]_whole =>
          [\A t \in Threads :
              (check[t].phase \notin {"idle", "fixing"} /\ check'[t].phase = "idle")
                  => check[t].fired = Criticals(t)]_whole
  <2>1. SUFFICES ASSUME TailInv, TailNext, NEW t \in Threads,
                        check[t].phase \notin {"idle", "fixing"}, check'[t].phase = "idle"
                 PROVE  check[t].fired = Criticals(t)
    OBVIOUS
  <2>2. Finish(t)
    <3>1. ~Dispatching
      BY <2>1 DEF Dispatching, tail
    <3>2. PICK u \in Threads : Persist(u) \/ Step(u) \/ GiveUp(u)
      BY <2>1, <3>1 DEF TailNext
    <3>3. \E c : Becomes(u, c)
      BY <3>2 DEF Persist, Step, Fixed, FixRaises, Report, BeginExplain, Ask, Write, GiveUp,
            CommitExplanations, Alert, Finish
    <3>4. u = t
      BY <2>1, <3>3 DEF Becomes, TailInv
    <3>5. /\ check[t] \in CheckType
          /\ \A c : Becomes(t, c) => check'[t] = c
      BY <2>1 DEF Becomes, TailInv
    <3> QED
      BY ZenonT(30), <2>1, <3>2, <3>4, <3>5
      DEF Persist, Step, Fixed, FixRaises, Report, BeginExplain, Ask, Write, GiveUp, CommitExplanations, Alert, Passed, Done, In, CheckType
  <2>3. /\ check[t] \in CheckType /\ Placed(t, check[t])
        /\ check[t].phase = "alerting" /\ check[t].n > Len(check[t].drifts)
    BY <2>1, <2>2 DEF TailInv, Finish, In
  <2>4. PassedCriticals(check[t]) =
            {n \in 1..Len(check[t].drifts) : check[t].drifts[n].critical}
    BY <2>3 DEF PassedCriticals, CheckType
  <2> QED  BY <2>3, <2>4 DEF Placed, Criticals
<1> QED  BY <1>1, TailInvariant, PTL DEF TailSpec, AlertsSurvive
=============================================================================

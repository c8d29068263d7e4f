---------------------------- MODULE PollingProofs ----------------------------
(***************************************************************************)
(* Theorems about Polling, for any devices, periods, delays and pool.      *)
(***************************************************************************)
EXTENDS Polling, FiniteSetTheorems, TLAPS

-----------------------------------------------------------------------------
(* Types                                                                   *)

(* The re-polls of a device are kept soonest first.                        *)
Sorted(q) == \A m, n \in 1..Len(q) : m <= n => q[m] <= q[n]

Entry  == [job : AllJobs, late : 0..(GRACE + 1)]
Thread == [job : AllJobs, age : 0..MaxRun, phase : Phases]

Types ==
    /\ wait \in [Recurring -> Int] /\ \A j \in Recurring : wait[j] \in 0..Period[j]
    /\ pending \in [Devices -> Seq(0..REPOLL_DELAY)]
    /\ \A d \in Devices : Sorted(pending[d])
    /\ queue \in Seq(Entry)
    /\ threads \in [Slots -> Thread]
    /\ syslog \in [Devices -> SUBSET ((0..MaxRun) \X Phases)]
    /\ since \in [Devices -> 0..COOLDOWN]
    /\ listening \in BOOLEAN
    /\ silent \in [Devices -> 0..Horizon] /\ slack \in [Devices -> 0..Horizon]
    /\ restarts \in 0..MaxRestarts

(* The constants, as far as arithmetic needs them.                         *)
LEMMA Sizes ==
  /\ INTERVAL \in Nat /\ INTERVAL > 0 /\ MaxRun \in Nat /\ Horizon \in Nat
  /\ REPOLL_DELAY \in Nat /\ GRACE \in Nat /\ COOLDOWN \in Nat /\ COOLDOWN > 0
  /\ MaxRepolls \in Nat /\ MaxRestarts \in Nat
  /\ Period \in [Recurring -> Int] /\ \A j \in Recurring : Period[j] \in Nat /\ Period[j] > 0
  /\ \A d \in Devices : Check(d) \in Recurring /\ Period[Check(d)] = INTERVAL
BY PollingAssumption

(* The head of a sorted queue leaves.                                      *)
LEMMA SortedTail ==
  ASSUME NEW R \in Nat, NEW q \in Seq(0..R), Sorted(q), q # <<>>
  PROVE  Tail(q) \in Seq(0..R) /\ Sorted(Tail(q))
<1>1. Len(Tail(q)) = Len(q) - 1 /\ Len(q) \in Nat /\ Tail(q) \in Seq(0..R)
  OBVIOUS
<1>2. \A n \in 1..Len(Tail(q)) : Tail(q)[n] = q[n + 1]
  OBVIOUS
<1>3. ASSUME NEW m \in 1..Len(Tail(q)), NEW n \in 1..Len(Tail(q)), m <= n
      PROVE  Tail(q)[m] <= Tail(q)[n]
  <2>1. m + 1 \in 1..Len(q) /\ n + 1 \in 1..Len(q) /\ m + 1 <= n + 1
    BY <1>1, <1>3
  <2>2. q[m + 1] <= q[n + 1]
    BY <2>1 DEF Sorted
  <2> QED  BY <1>2, <2>2
<1> QED  BY <1>1, <1>3 DEF Sorted

(* The latest of all joins at the end.                                     *)
LEMMA SortedAppend ==
  ASSUME NEW R \in Nat, NEW q \in Seq(0..R), Sorted(q)
  PROVE  Append(q, R) \in Seq(0..R) /\ Sorted(Append(q, R))
<1> DEFINE a == Append(q, R)
<1>1. a \in Seq(0..R) /\ Len(a) = Len(q) + 1 /\ Len(q) \in Nat
  OBVIOUS
<1>2. a[Len(q) + 1] = R /\ \A n \in 1..Len(q) : a[n] = q[n] /\ q[n] \in 0..R
  OBVIOUS
<1> HIDE DEF a
<1>3. ASSUME NEW m \in 1..Len(a), NEW n \in 1..Len(a), m <= n PROVE a[m] <= a[n]
  <2>1. CASE n \in 1..Len(q)
    <3>1. m \in 1..Len(q)
      BY <1>1, <1>3, <2>1
    <3> QED  BY <1>2, <1>3, <2>1, <3>1 DEF Sorted
  <2>2. CASE n = Len(q) + 1
    <3>1. a[n] = R /\ (m = n \/ m \in 1..Len(q))
      BY <1>1, <1>2, <2>2
    <3> QED  BY <1>2, <3>1
  <2> QED  BY <1>1, <2>1, <2>2
<1> QED  BY <1>1, <1>3 DEF Sorted, a

(* A tick passes and none of them was due.                                 *)
LEMMA SortedAged ==
  ASSUME NEW R \in Nat, NEW q \in Seq(0..R), Sorted(q), q # <<>> => Head(q) > 0
  PROVE  LET a == [n \in 1..Len(q) |-> q[n] - 1]
         IN  a \in Seq(0..R) /\ Sorted(a)
<1> DEFINE a == [n \in 1..Len(q) |-> q[n] - 1]
<1>1. ASSUME NEW n \in 1..Len(q) PROVE q[n] - 1 \in 0..R
  <2>1. 1 \in 1..Len(q) /\ q[1] <= q[n] /\ q[1] > 0 /\ q[n] \in 0..R
    BY DEF Sorted
  <2>2. q[1] \in 0..R
    BY <2>1
  <2> QED  BY <2>1, <2>2
<1>2. a \in Seq(0..R) /\ Len(a) = Len(q)
  BY <1>1
<1>3. ASSUME NEW m \in 1..Len(q), NEW n \in 1..Len(q), m <= n PROVE a[m] <= a[n]
  BY <1>3 DEF Sorted
<1> QED  BY <1>2, <1>3 DEF Sorted

(* What is lost only adds silence, up to the horizon.                      *)
LEMMA LostType ==
  ASSUME slack \in [Devices -> 0..Horizon], NEW J
  PROVE  Lost(J) \in [Devices -> 0..Horizon]
BY Sizes DEF Lost, Upto

(* A counter of a device is cleared, or all of them count one more tick.   *)
LEMMA CounterTypes ==
  ASSUME NEW H \in Nat, NEW f \in [Devices -> 0..H], NEW d
  PROVE  /\ [f EXCEPT ![d] = 0] \in [Devices -> 0..H]
         /\ [e \in Devices |-> Upto(f[e] + 1, H)] \in [Devices -> 0..H]
<1>1. 0 \in 0..H
  OBVIOUS
<1>2. ASSUME NEW e \in Devices PROVE Upto(f[e] + 1, H) \in 0..H
  <2>1. f[e] \in 0..H
    OBVIOUS
  <2> QED  BY <2>1 DEF Upto
<1> QED  BY <1>1, <1>2

(* The idle run and the entries of the queue are typed.                    *)
LEMMA ItemTypes ==
  /\ Idle \in Thread /\ Idle.job = <<"none", "all">> /\ Idle.phase = "idle" /\ Idle.age = 0
  /\ \A j \in AllJobs : Item(j) \in Entry /\ Item(j).job = j /\ Item(j).late = 0
  /\ Recurring \subseteq AllJobs /\ \A d \in Devices : Repoll(d) \in AllJobs
BY Sizes DEF Idle, Thread, Phases, AllJobs, Item, Entry

(* The re-polls of all devices when one device asks for one more.          *)
LEMMA AskTypes ==
  ASSUME Types, NEW d, MayAsk(d)
  PROVE  /\ pending' \in [Devices -> Seq(0..REPOLL_DELAY)]
         /\ \A e \in Devices : Sorted(pending'[e])
<1>1. CASE UNCHANGED pending
  BY <1>1 DEF Types
<1>2. CASE d \in Fixable /\ pending' = [pending EXCEPT ![d] = Append(@, REPOLL_DELAY)]
  <2>1. d \in Devices
    BY <1>2, PollingAssumption
  <2>2. Append(pending[d], REPOLL_DELAY) \in Seq(0..REPOLL_DELAY)
        /\ Sorted(Append(pending[d], REPOLL_DELAY))
    BY <2>1, Sizes, SortedAppend DEF Types
  <2> DEFINE a == Append(pending[d], REPOLL_DELAY)
  <2>3. pending' = [pending EXCEPT ![d] = a]
    BY <1>2
  <2> HIDE DEF a
  <2> QED  BY <2>1, <2>2, <2>3 DEF Types, a
<1> QED  BY <1>1, <1>2 DEF MayAsk

(* The scheduler's steps keep the types.                                   *)
LEMMA SchedulerTypes ==
  ASSUME Types,
         \/ \E n \in 1..Len(Registered) : Submit(n)
         \/ \E d \in Devices : SubmitRepoll(d)
         \/ PickUp
  PROVE  Types'
<1>1. ASSUME NEW n \in 1..Len(Registered), Submit(n) PROVE Types'
  <2> DEFINE j == Registered[n]
  <2>1. j \in Recurring /\ j \in AllJobs
    BY ItemTypes DEF Recurring
  <2>2. wait' = [wait EXCEPT ![j] = Period[j]]
    BY <1>1 DEF Submit
  <2>3. queue' = queue \/ queue' = Append(queue, Item(j))
    BY <1>1 DEF Submit, Submitted
  <2>4. slack' = slack \/ slack' = Lost({j})
    BY <1>1 DEF Submit
  <2> HIDE DEF j
  <2>5. wait' \in [Recurring -> Int] /\ \A i \in Recurring : wait'[i] \in 0..Period[i]
    BY <2>1, <2>2, Sizes DEF Types
  <2>6. queue' \in Seq(Entry)
    <3>1. Item(j) \in Entry /\ queue \in Seq(Entry)
      BY <2>1, ItemTypes DEF Types
    <3> DEFINE i == Item(j)
    <3> HIDE DEF i
    <3>2. i \in Entry /\ (queue' = queue \/ queue' = Append(queue, i))
      BY <2>3, <3>1 DEF i
    <3> QED  BY <3>1, <3>2
  <2>7. slack' \in [Devices -> 0..Horizon]
    BY <2>4, LostType DEF Types
  <2> QED  BY <1>1, <2>5, <2>6, <2>7 DEF Submit, Types, input
<1>2. ASSUME NEW d \in Devices, SubmitRepoll(d) PROVE Types'
  <2> DEFINE q == pending[d]
             t == Tail(q)
  <2>1. q \in Seq(0..REPOLL_DELAY) /\ Sorted(q) /\ q # <<>>
    BY <1>2 DEF SubmitRepoll, Types
  <2>2. t \in Seq(0..REPOLL_DELAY) /\ Sorted(t)
    BY <2>1, Sizes, SortedTail
  <2>3. pending' = [pending EXCEPT ![d] = t]
    BY <1>2 DEF SubmitRepoll
  <2> HIDE DEF q, t
  <2>4. pending' \in [Devices -> Seq(0..REPOLL_DELAY)] /\ \A e \in Devices : Sorted(pending'[e])
    BY <2>2, <2>3 DEF Types
  <2>5. queue' \in Seq(Entry)
    BY <1>2, ItemTypes DEF SubmitRepoll, Submitted, Types
  <2> QED  BY <1>2, <2>4, <2>5 DEF SubmitRepoll, Types, input
<1>3. CASE PickUp
  <2> DEFINE item == Head(queue)
             run == [job |-> item.job, age |-> 0,
                     phase |-> IF IsCheck(item.job) THEN "collect" ELSE "work"]
  <2>1. queue # <<>> /\ queue \in Seq(Entry)
    BY <1>3 DEF PickUp, Types
  <2>2. item \in Entry /\ Tail(queue) \in Seq(Entry)
    BY <2>1
  <2>3. run \in Thread
    BY <2>2, Sizes DEF Entry, Thread, Phases
  <2>4. PICK s \in FreeSlots : threads' = threads \/ threads' = [threads EXCEPT ![s] = run]
    BY <1>3 DEF PickUp
  <2> HIDE DEF item, run
  <2>5. threads' \in [Slots -> Thread]
    BY <2>3, <2>4 DEF Types
  <2> QED  BY <1>3, <2>2, <2>5 DEF PickUp, Types, input
<1> QED  BY <1>1, <1>2, <1>3

(* The steps of a run keep the types.                                      *)
LEMMA RunTypes ==
  ASSUME Types, NEW s \in Slots, Collect(s) \/ FailCheck(s) \/ Hang(s) \/ Finish(s) \/ EndWork(s)
  PROVE  Types'
<1> DEFINE d == threads[s].job[2]
<1>1. CASE Collect(s)
  <2>1. threads' \in [Slots -> Thread]
    BY <1>1 DEF Collect, Types, Thread, Phases
  <2>2. silent' \in [Devices -> 0..Horizon] /\ slack' \in [Devices -> 0..Horizon]
    BY <1>1, Sizes, CounterTypes DEF Collect, Stamped, Types
  <2> QED  BY <1>1, <2>1, <2>2 DEF Collect, Types, input
<1>2. CASE FailCheck(s)
  <2>1. threads' \in [Slots -> Thread] /\ slack' \in [Devices -> 0..Horizon]
    BY <1>2, ItemTypes, LostType DEF FailCheck, Types
  <2> QED  BY <1>2, <2>1 DEF FailCheck, Types, input
<1>3. CASE Finish(s)
  <2>1. threads' \in [Slots -> Thread]
    BY <1>3, ItemTypes DEF Finish, Types
  <2>2. /\ pending' \in [Devices -> Seq(0..REPOLL_DELAY)]
        /\ \A e \in Devices : Sorted(pending'[e])
    BY <1>3, AskTypes DEF Finish
  <2> QED  BY <1>3, <2>1, <2>2 DEF Finish, Types, input
<1>4. CASE EndWork(s)
  <2>1. threads' \in [Slots -> Thread]
    BY <1>4, ItemTypes DEF EndWork, Types
  <2> QED  BY <1>4, <2>1 DEF EndWork, Types, input
<1>5. CASE Hang(s)
  <2> DEFINE r == threads[s]
             h == [r EXCEPT !.phase = "hung", !.age = 0]
  <2>1. threads' = [threads EXCEPT ![s] = h]
    BY <1>5 DEF Hang
  <2>2. r \in Thread /\ 0 \in 0..MaxRun /\ "hung" \in Phases
    BY Sizes DEF Types, Phases
  <2> HIDE DEF r
  <2>3. h \in Thread
    BY <2>2 DEF Thread
  <2> HIDE DEF h
  <2>4. threads' \in [Slots -> Thread]
    BY <2>1, <2>3 DEF Types
  <2>5. slack' \in [Devices -> 0..Horizon]
    BY <1>5, LostType DEF Hang, Types
  <2> QED  BY <1>5, <2>4, <2>5 DEF Hang, Types, input
<1> QED  BY <1>1, <1>2, <1>3, <1>4, <1>5

(* So do the syslog listener and the checks it starts.                     *)
LEMMA SyslogTypes ==
  ASSUME Types, NEW d \in Devices, SyslogCheck(d) \/ Message(d) \/ ListenerEnds
  PROVE  Types'
<1>1. CASE SyslogCheck(d)
  <2>1. PICK t \in syslog[d] :
           \/ syslog' = [syslog EXCEPT ![d] = (@ \ {t}) \cup {<<t[1], "fix">>}]
           \/ syslog' = [syslog EXCEPT ![d] = @ \ {t}]
    BY <1>1 DEF SyslogCheck
  <2>2. t \in (0..MaxRun) \X Phases
    BY DEF Types
  <2>3. <<t[1], "fix">> \in (0..MaxRun) \X Phases
    BY <2>2 DEF Phases
  <2>4. syslog' \in [Devices -> SUBSET ((0..MaxRun) \X Phases)]
    <3> DEFINE new == <<t[1], "fix">>
    <3>1. \/ syslog' = [syslog EXCEPT ![d] = (@ \ {t}) \cup {new}]
          \/ syslog' = [syslog EXCEPT ![d] = @ \ {t}]
      BY <2>1
    <3>2. new \in (0..MaxRun) \X Phases
      BY <2>3
    <3> HIDE DEF new
    <3>3. syslog \in [Devices -> SUBSET ((0..MaxRun) \X Phases)]
      BY DEF Types
    <3> DEFINE T == (0..MaxRun) \X Phases
    <3> HIDE DEF T
    <3>4. syslog \in [Devices -> SUBSET T] /\ new \in T
      BY <3>2, <3>3 DEF T
    <3>5. syslog' \in [Devices -> SUBSET T]
      BY <3>1, <3>4
    <3> QED  BY <3>5 DEF T
  <2>5. silent' \in [Devices -> 0..Horizon] /\ slack' \in [Devices -> 0..Horizon]
    <3>1. Stamped(d) \/ UNCHANGED <<silent, slack>>
      BY <1>1 DEF SyslogCheck
    <3>2. Stamped(d) => /\ silent' \in [Devices -> 0..Horizon]
                        /\ slack' \in [Devices -> 0..Horizon]
      BY Sizes, CounterTypes DEF Stamped, Types
    <3> QED  BY <3>1, <3>2 DEF Types
  <2>6. /\ pending' \in [Devices -> Seq(0..REPOLL_DELAY)]
        /\ \A e \in Devices : Sorted(pending'[e])
    <3>1. MayAsk(d)
      BY <1>1 DEF SyslogCheck, MayAsk
    <3> QED  BY <3>1, AskTypes
  <2> QED  BY <1>1, <2>4, <2>5, <2>6 DEF SyslogCheck, Types
<1>2. CASE Message(d)
  <2> DEFINE e == ByAddress(Hostname[d])
             new == <<0, "collect">>
  <2>1. new \in (0..MaxRun) \X Phases
    BY Sizes DEF Phases
  <2>2. syslog' = [syslog EXCEPT ![e] = @ \cup {new}] /\ since' = [since EXCEPT ![e] = 0]
    BY <1>2 DEF Message
  <2> HIDE DEF e, new
  <2>3. syslog' \in [Devices -> SUBSET ((0..MaxRun) \X Phases)]
    BY <2>1, <2>2 DEF Types
  <2>4. since' \in [Devices -> 0..COOLDOWN]
    BY <2>2, Sizes, CounterTypes DEF Types
  <2> QED  BY <1>2, <2>3, <2>4 DEF Message, Types, jobs
<1>3. CASE ListenerEnds
  BY <1>3 DEF ListenerEnds, Types, jobs
<1> QED  BY <1>1, <1>2, <1>3

(* A tick keeps the types because nothing was due, no run was at its limit *)
(* and what is counted is capped.                                          *)
LEMMA TickTypes ==
  ASSUME Types, Tick
  PROVE  Types'
<1>1. wait' \in [Recurring -> Int] /\ \A j \in Recurring : wait'[j] \in 0..Period[j]
  <2>1. ASSUME NEW j \in Recurring PROVE wait[j] # 0
    BY DEF Tick, Quiet, Due, Recurring
  <2>2. wait' = [j \in Recurring |-> wait[j] - 1]
    BY DEF Tick
  <2> QED  BY <2>1, <2>2, Sizes DEF Types
<1>2. /\ pending' \in [Devices -> Seq(0..REPOLL_DELAY)]
      /\ \A e \in Devices : Sorted(pending'[e])
  <2>1. ASSUME NEW d \in Devices
        PROVE  pending'[d] \in Seq(0..REPOLL_DELAY) /\ Sorted(pending'[d])
    <3> DEFINE q == pending[d]
               a == [n \in 1..Len(q) |-> q[n] - 1]
    <3>1. q \in Seq(0..REPOLL_DELAY) /\ Sorted(q) /\ (q # <<>> => Head(q) > 0)
      BY DEF Types, Tick, Quiet
    <3>2. pending'[d] = a
      BY DEF Tick
    <3> HIDE DEF q
    <3>3. a \in Seq(0..REPOLL_DELAY) /\ Sorted(a)
      BY <3>1, Sizes, SortedAged
    <3> QED  BY <3>2, <3>3
  <2>2. pending' = [d \in Devices |-> pending'[d]]
    BY DEF Tick
  <2> QED  BY <2>1, <2>2
<1>3. queue' \in Seq(Entry)
  <2>1. ASSUME NEW n \in 1..Len(queue)
        PROVE  [queue[n] EXCEPT !.late = Upto(@ + 1, GRACE + 1)] \in Entry
    <3> DEFINE e == queue[n]
    <3>1. e \in Entry
      BY DEF Types
    <3> HIDE DEF e
    <3>2. Upto(e.late + 1, GRACE + 1) \in 0..(GRACE + 1)
      BY <3>1, Sizes DEF Entry, Upto
    <3>3. [e EXCEPT !.late = Upto(e.late + 1, GRACE + 1)] \in Entry
      BY <3>1, <3>2 DEF Entry
    <3> QED  BY <3>3 DEF e
  <2>2. Len(queue) \in Nat
    BY DEF Types
  <2> QED  BY <2>1, <2>2 DEF Tick
<1>4. threads' \in [Slots -> Thread]
  <2>1. ASSUME NEW s \in Slots, Ages(threads[s])
        PROVE  [threads[s] EXCEPT !.age = @ + 1] \in Thread
    <3>1. threads[s] \in Thread /\ threads[s].age < MaxRun
      BY <2>1 DEF Types, Tick, Quiet
    <3> QED  BY <3>1, Sizes DEF Thread
  <2> QED  BY <2>1 DEF Tick, Types
<1>5. syslog' \in [Devices -> SUBSET ((0..MaxRun) \X Phases)]
  <2>1. ASSUME NEW d \in Devices, NEW t \in syslog[d]
        PROVE  <<t[1] + 1, t[2]>> \in (0..MaxRun) \X Phases
    <3>1. t \in (0..MaxRun) \X Phases /\ t[1] < MaxRun
      BY DEF Types, Tick, Quiet
    <3> QED  BY <3>1, Sizes
  <2> QED  BY <2>1 DEF Tick
<1>6. since' \in [Devices -> 0..COOLDOWN] /\ silent' \in [Devices -> 0..Horizon]
  BY Sizes, CounterTypes DEF Tick, Types
<1>7. slack' \in [Devices -> 0..Horizon]
  BY LostType DEF Tick, Types
<1> QED  BY <1>1, <1>2, <1>3, <1>4, <1>5, <1>6, <1>7 DEF Tick, Types

(* What a process starts with.                                             *)
LEMMA FreshTypes ==
  /\ Period \in [Recurring -> Int] /\ \A j \in Recurring : Period[j] \in 0..Period[j]
  /\ NoRepolls \in [Devices -> Seq(0..REPOLL_DELAY)] /\ \A d \in Devices : Sorted(NoRepolls[d])
  /\ <<>> \in Seq(Entry)
  /\ NoRuns \in [Slots -> Thread]
  /\ [d \in Devices |-> {}] \in [Devices -> SUBSET ((0..MaxRun) \X Phases)]
  /\ [d \in Devices |-> COOLDOWN] \in [Devices -> 0..COOLDOWN]
<1>1. \A d \in Devices : NoRepolls[d] = <<>>
  BY DEF NoRepolls
<1>2. Sorted(<<>>)
  BY DEF Sorted
<1>3. NoRepolls \in [Devices -> Seq(0..REPOLL_DELAY)]
  BY DEF NoRepolls
<1> QED  BY <1>1, <1>2, <1>3, Sizes, ItemTypes DEF NoRuns

(* A restart begins with them.                                             *)
LEMMA RestartTypes ==
  ASSUME Types, Restart
  PROVE  Types'
<1>1. slack' \in [Devices -> 0..Horizon]
  BY SMTT(30), Sizes DEF Restart, Types, Upto
<1>2. restarts' \in 0..MaxRestarts
  BY Sizes DEF Restart, Types
<1> QED  BY <1>1, <1>2, FreshTypes DEF Restart, Types

(* Types is inductive.                                                     *)
LEMMA TypesInvariant == Spec => []Types
<1>1. Init => Types
  BY FreshTypes, Sizes DEF Init, Types
<1>2. Types /\ [Next]_vars => Types'
  <2> SUFFICES ASSUME Types, [Next]_vars PROVE Types'
    OBVIOUS
  <2>1. CASE UNCHANGED vars
    BY <2>1 DEF vars, jobs, input, Types
  <2>2. CASE ListenerEnds
    BY <2>2 DEF ListenerEnds, jobs, Types
  <2> QED  BY <2>1, <2>2, SchedulerTypes, RunTypes, SyslogTypes, TickTypes, RestartTypes
           DEF Next, Progress
<1> QED  BY <1>1, <1>2, PTL DEF Spec

(* Type correctness of the scheduling model.                               *)
THEOREM PollingTypeCorrect == Spec => []TypeOK
<1>1. Types => TypeOK
  BY DEF Types, TypeOK, Entry, Thread
<1> QED  BY <1>1, TypesInvariant, PTL

-----------------------------------------------------------------------------
(* Silence.  The inductive invariant looks ahead to the next run: what a   *)
(* device has been silent for and what it still waits make one interval    *)
(* and the slack, unless a check of it is on its way; that check's run     *)
(* began within one interval and the slack.                                *)

Awaits(d) == \E n \in OnTime : queue[n].job = Check(d)

Collecting(d, s) == threads[s].job = Check(d) /\ threads[s].phase = "collect"

Explained(d) ==
    /\ silent[d] + wait[Check(d)] <= 2 * INTERVAL + slack[d]
    /\ \/ Awaits(d)
       \/ \E s \in Slots : Collecting(d, s)
       \/ silent[d] + wait[Check(d)] <= INTERVAL + slack[d]
    /\ Awaits(d) => silent[d] <= INTERVAL + slack[d]
    /\ \A s \in Slots : Collecting(d, s) => silent[d] <= INTERVAL + slack[d] + threads[s].age

(* The numbers of a device.                                                *)
LEMMA Numbers ==
  ASSUME Types, NEW d \in Devices
  PROVE  /\ silent[d] \in 0..Horizon /\ slack[d] \in 0..Horizon
         /\ wait[Check(d)] \in 0..INTERVAL
         /\ \A s \in Slots : threads[s].age \in 0..MaxRun
BY Sizes DEF Types, Thread

(* A collection clears the silence, whatever else is on its way.           *)
LEMMA StampExplains ==
  ASSUME Types', NEW d \in Devices, silent'[d] = 0, slack'[d] = 0
  PROVE  Explained(d)'
<1> DEFINE w == wait'[Check(d)]
<1>1. w \in 0..INTERVAL /\ \A s \in Slots : threads'[s].age \in 0..MaxRun
  BY Sizes DEF Types, Thread
<1> QED  BY <1>1, Sizes DEF Explained

(* No loss of a run has to explain what leaves the numbers of d and the    *)
(* checks on their way to it alone.                                        *)
LEMMA StillExplained ==
  ASSUME Types, NEW d \in Devices, Explained(d),
         silent'[d] = silent[d], slack'[d] = slack[d], wait'[Check(d)] = wait[Check(d)],
         Awaits(d)' => Awaits(d),
         Awaits(d) => Awaits(d)' \/ \E s \in Slots : Collecting(d, s)',
         \A s \in Slots : Collecting(d, s)' =>
            \/ Awaits(d) /\ threads'[s].age = 0
            \/ Collecting(d, s) /\ threads'[s].age = threads[s].age,
         (\E s \in Slots : Collecting(d, s)) => \E s \in Slots : Collecting(d, s)'
  PROVE  Explained(d)'
<1>1. silent[d] \in Int /\ slack[d] \in Int /\ wait[Check(d)] \in Int /\ INTERVAL \in Int
  BY Numbers, Sizes
<1>2. ASSUME NEW s \in Slots, Collecting(d, s)'
      PROVE  silent'[d] <= INTERVAL + slack'[d] + threads'[s].age
  BY <1>1, <1>2 DEF Explained
<1> HIDE DEF Awaits, Collecting
<1> QED  BY <1>2 DEF Explained

(* A lost run explains one more interval.                                  *)
LEMMA LossExplains ==
  ASSUME Types, NEW d \in Devices, Explained(d),
         silent'[d] = silent[d], wait'[Check(d)] = wait[Check(d)],
         slack'[d] = Upto(slack[d] + INTERVAL, Horizon),
         Awaits(d)' => Awaits(d),
         \A s \in Slots : Collecting(d, s)' =>
            Collecting(d, s) /\ threads'[s].age = threads[s].age
  PROVE  Explained(d)'
<1> DEFINE l == slack[d]
           k == slack'[d]
           i == silent[d]
           w == wait[Check(d)]
<1>1. /\ i \in 0..Horizon /\ l \in 0..Horizon /\ w \in 0..INTERVAL
      /\ \A s \in Slots : threads[s].age \in 0..MaxRun
  BY Numbers
<1>2. k = Horizon \/ k = l + INTERVAL
  BY <1>1, Sizes DEF Upto
<1>3. i + w <= 2 * INTERVAL + l
  BY DEF Explained
<1>4. k \in Nat /\ k >= l /\ i + w <= INTERVAL + k
  BY <1>1, <1>2, <1>3, Sizes DEF Upto
<1>5. ASSUME NEW s \in Slots, Collecting(d, s)'
      PROVE  i <= INTERVAL + k + threads'[s].age
  <2>1. i <= INTERVAL + l + threads[s].age /\ threads'[s].age = threads[s].age
    BY <1>5 DEF Explained
  <2> QED  BY <1>1, <1>4, <2>1, Sizes
<1>6. Awaits(d)' => i <= INTERVAL + k
  BY <1>1, <1>4, Sizes
<1>7. i + w <= 2 * INTERVAL + k
  BY <1>1, <1>4, Sizes
<1> QED  BY <1>4, <1>5, <1>6, <1>7 DEF Explained

(* What an entry at the end of the queue changes for d.                    *)
LEMMA AppendAwaits ==
  ASSUME Types, NEW d \in Devices, NEW j \in AllJobs, queue' = Append(queue, Item(j))
  PROVE  Awaits(d)' <=> Awaits(d) \/ j = Check(d)
<1> DEFINE e == Item(j)
<1>1. e.job = j /\ e.late = 0 /\ queue \in Seq(Entry)
  BY ItemTypes DEF Types
<1> HIDE DEF e
<1>2. queue' = Append(queue, e)
  BY DEF e
<1>3. Len(queue') = Len(queue) + 1 /\ queue'[Len(queue) + 1] = e /\ Len(queue) \in Nat
      /\ \A n \in 1..Len(queue) : queue'[n] = queue[n]
  BY <1>1, <1>2
<1>4. ASSUME Awaits(d) PROVE Awaits(d)'
  <2>1. PICK n \in OnTime : queue[n].job = Check(d)
    BY <1>4 DEF Awaits
  <2>2. n \in 1..Len(queue') /\ queue'[n] = queue[n] /\ queue[n].late = 0
    BY <1>3, <2>1 DEF OnTime
  <2> QED  BY <2>1, <2>2 DEF Awaits, OnTime
<1>5. ASSUME j = Check(d) PROVE Awaits(d)'
  <2>1. Len(queue) + 1 \in 1..Len(queue') /\ queue'[Len(queue) + 1].late = 0
        /\ queue'[Len(queue) + 1].job = Check(d)
    BY <1>1, <1>3, <1>5
  <2> QED  BY <2>1 DEF Awaits, OnTime
<1>6. ASSUME Awaits(d)', j # Check(d) PROVE Awaits(d)
  <2>1. PICK n \in 1..Len(queue') : queue'[n].late = 0 /\ queue'[n].job = Check(d)
    BY <1>6 DEF Awaits, OnTime
  <2>2. n \in 1..Len(queue) /\ queue'[n] = queue[n]
    BY <1>1, <1>3, <1>6, <2>1
  <2> QED  BY <2>1, <2>2 DEF Awaits, OnTime
<1> QED  BY <1>4, <1>5, <1>6

(* What the head of the queue leaves behind.                               *)
LEMMA TailAwaits ==
  ASSUME Types, NEW d \in Devices, queue # <<>>, queue' = Tail(queue)
  PROVE  /\ Awaits(d)' => Awaits(d)
         /\ Awaits(d) => Awaits(d)' \/ (Head(queue).job = Check(d) /\ Head(queue).late = 0)
<1>1. queue \in Seq(Entry) /\ Len(queue) \in Nat /\ Len(queue) > 0
  BY DEF Types
<1>2. Len(queue') = Len(queue) - 1 /\ \A n \in 1..Len(queue') : queue'[n] = queue[n + 1]
  BY <1>1
<1>3. ASSUME Awaits(d)' PROVE Awaits(d)
  <2>1. PICK n \in 1..Len(queue') : queue'[n].late = 0 /\ queue'[n].job = Check(d)
    BY <1>3 DEF Awaits, OnTime
  <2>2. n + 1 \in 1..Len(queue) /\ queue'[n] = queue[n + 1]
    BY <1>1, <1>2, <2>1
  <2> QED  BY <2>1, <2>2 DEF Awaits, OnTime
<1>4. ASSUME Awaits(d) PROVE Awaits(d)' \/ (Head(queue).job = Check(d) /\ Head(queue).late = 0)
  <2>1. PICK n \in 1..Len(queue) : queue[n].late = 0 /\ queue[n].job = Check(d)
    BY <1>4 DEF Awaits, OnTime
  <2>2. CASE n = 1
    BY <1>1, <2>1, <2>2
  <2>3. CASE n # 1
    <3>1. n - 1 \in 1..Len(queue') /\ queue'[n - 1] = queue[n]
      BY <1>1, <1>2, <2>3
    <3> QED  BY <2>1, <3>1 DEF Awaits, OnTime
  <2> QED  BY <2>2, <2>3
<1> QED  BY <1>3, <1>4

(* A submission, or one that is skipped.                                   *)
LEMMA SubmitExplains ==
  ASSUME Types, Types', NEW d \in Devices, Explained(d), NEW n \in 1..Len(Registered), Submit(n)
  PROVE  Explained(d)'
<1> DEFINE j == Registered[n]
           c == Check(d)
<1>1. j \in Recurring /\ j \in AllJobs /\ c \in Recurring /\ wait[j] = 0
  BY ItemTypes, Sizes DEF Recurring, Submit, Due
<1>2. UNCHANGED <<threads, silent>> /\ wait' = [wait EXCEPT ![j] = Period[j]]
  BY DEF Submit
<1>3. \A s \in Slots : Collecting(d, s)' <=> Collecting(d, s)
  BY <1>2 DEF Collecting
<1>4. /\ silent[d] \in 0..Horizon /\ slack[d] \in 0..Horizon
      /\ \A s \in Slots : threads[s].age \in 0..MaxRun
  BY Numbers
<1>5. CASE j = c
  <2>1. wait[c] = 0 /\ wait'[c] = INTERVAL
    BY <1>1, <1>2, <1>5, Sizes DEF Types
  <2>2. CASE InProgress(j)
    <3>1. slack'[d] = Upto(slack[d] + INTERVAL, Horizon) /\ UNCHANGED queue
      BY <1>5, <2>2 DEF Submit, Lost
    <3>2. Awaits(d)' <=> Awaits(d)
      BY <3>1 DEF Awaits, OnTime
    <3> DEFINE i == silent[d]
               l == slack[d]
               k == slack'[d]
    <3>3. i <= 2 * INTERVAL + l
      BY <1>4, <2>1, Sizes DEF Explained
    <3>4. k \in Nat /\ k >= l /\ i <= INTERVAL + k
      <4>1. INTERVAL \in Nat /\ Horizon \in Nat /\ i \in 0..Horizon /\ l \in 0..Horizon
        BY <1>4, Sizes
      <4>2. k = l + INTERVAL \/ (k = Horizon /\ l + INTERVAL >= Horizon)
        BY <3>1, <4>1 DEF Upto
      <4> HIDE DEF i, l, k
      <4> QED  BY <3>3, <4>1, <4>2
    <3>5. ASSUME NEW s \in Slots PROVE i <= INTERVAL + k + threads'[s].age
      <4> DEFINE a == threads[s].age
      <4>1. a \in Nat /\ threads'[s].age = a
        BY <1>2, <1>4
      <4>2. i \in Nat /\ INTERVAL \in Nat
        BY <1>4, Sizes
      <4> HIDE DEF k, i, a
      <4> QED  BY <3>4, <4>1, <4>2
    <3>6. silent'[d] + wait'[c] <= 2 * INTERVAL + k /\ silent'[d] = i
      BY <1>2, <1>4, <2>1, <3>4, Sizes
    <3>7. silent'[d] + wait'[c] <= INTERVAL + k \/ Awaits(d)' \/ \E s \in Slots : Collecting(d, s)'
      <4>1. CASE Awaits(d) \/ \E s \in Slots : Collecting(d, s)
        BY <1>3, <3>2, <4>1
      <4>2. CASE i <= INTERVAL + l
        <5>1. k = Horizon \/ k = l + INTERVAL
          BY <3>1 DEF Upto
        <5> QED  BY <1>2, <1>4, <2>1, <4>2, <5>1, Sizes
      <4> QED  BY <1>4, <2>1, <4>1, <4>2, Sizes DEF Explained
    <3> QED  BY <3>4, <3>5, <3>6, <3>7 DEF Explained
  <2>3. CASE ~InProgress(j)
    <3>1. slack' = slack /\ queue' = Append(queue, Item(j))
      BY <2>3 DEF Submit, Submitted
    <3>2. Awaits(d)'
      BY <1>1, <1>5, <3>1, AppendAwaits
    <3>3. ~Awaits(d) /\ \A s \in Slots : ~Collecting(d, s)
      BY <1>5, <2>3 DEF InProgress, Running, Waiting, Awaits, OnTime, Collecting
    <3>4. silent[d] <= INTERVAL + slack[d]
      BY <1>4, <2>1, <3>3, Sizes DEF Explained
    <3>5. silent'[d] + wait'[c] <= 2 * INTERVAL + slack'[d] /\ silent'[d] <= INTERVAL + slack'[d]
      BY <1>2, <1>4, <2>1, <3>1, <3>4, Sizes
    <3>6. \A s \in Slots : ~Collecting(d, s)'
      BY <1>3, <3>3
    <3> QED  BY <3>2, <3>5, <3>6 DEF Explained
  <2> QED  BY <2>2, <2>3
<1>6. CASE j # c
  <2>1. wait'[c] = wait[c] /\ silent'[d] = silent[d]
    BY <1>1, <1>2, <1>6 DEF Types
  <2>2. slack'[d] = slack[d]
    BY <1>6 DEF Submit, Lost
  <2>3. Awaits(d)' <=> Awaits(d)
    <3>1. CASE UNCHANGED queue
      BY <3>1 DEF Awaits, OnTime
    <3>2. CASE queue' = Append(queue, Item(j))
      BY <1>1, <1>6, <3>2, AppendAwaits
    <3> QED  BY <3>1, <3>2 DEF Submit, Submitted
  <2> QED  BY <1>2, <1>3, <2>1, <2>2, <2>3, StillExplained
<1> QED  BY <1>5, <1>6

(* A thread that takes what waited: the check is now on its way.           *)
LEMMA PickUpExplains ==
  ASSUME Types, NEW d \in Devices, Explained(d), PickUp
  PROVE  Explained(d)'
<1> DEFINE item == Head(queue)
           run == [job |-> item.job, age |-> 0,
                   phase |-> IF IsCheck(item.job) THEN "collect" ELSE "work"]
<1>1. queue # <<>> /\ queue' = Tail(queue) /\ UNCHANGED <<wait, silent, slack>>
  BY DEF PickUp
<1>2. PICK x \in FreeSlots :
         threads' = IF item.late > Grace(item.job) THEN threads
                    ELSE [threads EXCEPT ![x] = run]
  BY DEF PickUp
<1>3. x \in Slots /\ threads[x] = Idle
  BY DEF FreeSlots
<1>4. Check(d)[1] = "drift-check" /\ IsCheck(Check(d)) /\ Grace(Check(d)) = 0
  BY DEF Check, IsCheck, Grace
<1>5. item \in Entry
  BY <1>1 DEF Types
<1>6. \A s \in Slots : Collecting(d, s) => s # x
  BY <1>3, ItemTypes DEF Collecting
<1>7. Awaits(d)' => Awaits(d)
  BY <1>1, TailAwaits
<1>8. item.job = Check(d) /\ item.late = 0 => Awaits(d)
  <2>1. 1 \in 1..Len(queue) /\ item = queue[1]
    BY <1>1 DEF Types
  <2> QED  BY <2>1 DEF Awaits, OnTime
<1>9. run.job = item.job /\ run.age = 0 /\ (IsCheck(item.job) => run.phase = "collect")
  OBVIOUS
<1>10. item.late \in Nat
  BY <1>5, Sizes DEF Entry
<1> HIDE DEF item, run
<1>11. ASSUME NEW s \in Slots
       PROVE  /\ Collecting(d, s) => Collecting(d, s)' /\ threads'[s].age = threads[s].age
              /\ Collecting(d, s)' => \/ Awaits(d) /\ threads'[s].age = 0
                                      \/ Collecting(d, s) /\ threads'[s].age = threads[s].age
  <2>1. CASE threads' = threads
    BY <2>1 DEF Collecting
  <2>2. CASE threads' = [threads EXCEPT ![x] = run] /\ item.late <= Grace(item.job)
    <3>1. CASE s = x
      <4>1. threads'[s] = run
        BY <1>3, <2>2, <3>1 DEF Types
      <4>2. ASSUME Collecting(d, s)' PROVE Awaits(d) /\ threads'[s].age = 0
        <5>1. item.job = Check(d)
          BY <1>9, <4>1, <4>2 DEF Collecting
        <5>2. item.late = 0
          BY <1>4, <1>10, <2>2, <5>1
        <5> QED  BY <1>8, <1>9, <4>1, <5>1, <5>2
      <4> QED  BY <1>6, <3>1, <4>2
    <3>2. CASE s # x
      BY <2>2, <3>2 DEF Collecting, Types
    <3> QED  BY <3>1, <3>2
  <2>3. Grace(item.job) \in Nat
    BY Sizes DEF Grace
  <2> QED  BY <1>2, <1>10, <2>1, <2>2, <2>3
<1>12. Awaits(d) => Awaits(d)' \/ \E s \in Slots : Collecting(d, s)'
  <2>1. SUFFICES ASSUME item.job = Check(d), item.late = 0
                 PROVE  \E s \in Slots : Collecting(d, s)'
    BY <1>1, TailAwaits DEF item
  <2>2. threads'[x] = run
    BY <1>2, <1>3, <1>4, <2>1 DEF Types
  <2>3. Collecting(d, x)'
    BY <1>4, <1>9, <2>1, <2>2 DEF Collecting
  <2> QED  BY <1>3, <2>3
<1> QED  BY <1>1, <1>7, <1>11, <1>12, StillExplained

(* A run that ends or goes on: only a check that failed has lost a run, and *)
(* one that collected clears the silence.                                  *)
LEMMA RunExplains ==
  ASSUME Types, Types', NEW d \in Devices, Explained(d),
         NEW s \in Slots, Collect(s) \/ FailCheck(s) \/ Hang(s) \/ Finish(s) \/ EndWork(s)
  PROVE  Explained(d)'
<1> DEFINE j == threads[s].job
<1>1. UNCHANGED <<wait, queue>>
  BY DEF Collect, FailCheck, Hang, Finish, EndWork
<1>2. Awaits(d)' <=> Awaits(d)
  BY <1>1 DEF Awaits, OnTime
<1>3. \A x \in Slots \ {s} : threads'[x] = threads[x]
  BY DEF Collect, FailCheck, Hang, Finish, EndWork, Types
<1>4. ~Collecting(d, s)'
  <2>1. CASE Collect(s)
    BY <2>1 DEF Collect, Collecting, Types, Thread
  <2>2. CASE FailCheck(s) \/ Finish(s) \/ EndWork(s)
    BY <2>2, ItemTypes DEF FailCheck, Finish, EndWork, Collecting, Types
  <2>3. CASE Hang(s)
    <3>1. threads'[s] = [threads[s] EXCEPT !.phase = "hung", !.age = 0]
      BY <2>3 DEF Hang, Types
    <3>2. threads'[s].phase = "hung"
      BY <3>1 DEF Types, Thread
    <3> QED  BY <3>2 DEF Collecting
  <2> QED  BY <2>1, <2>2, <2>3
<1>5. \A x \in Slots : Collecting(d, x)' =>
         Collecting(d, x) /\ threads'[x].age = threads[x].age
  BY <1>3, <1>4 DEF Collecting
<1>6. ASSUME ~Collecting(d, s), silent'[d] = silent[d], slack'[d] = slack[d]
      PROVE  Explained(d)'
  <2>1. (\E x \in Slots : Collecting(d, x)) => \E x \in Slots : Collecting(d, x)'
    BY <1>3, <1>6 DEF Collecting
  <2> QED  BY <1>1, <1>2, <1>5, <1>6, <2>1, StillExplained
<1>7. CASE Collect(s)
  <2>1. CASE j[2] = d
    <3>1. silent'[d] = 0 /\ slack'[d] = 0
      BY <1>7, <2>1 DEF Collect, Stamped, Types
    <3> QED  BY <3>1, StampExplains
  <2>2. CASE j[2] # d
    <3>1. silent'[d] = silent[d] /\ slack'[d] = slack[d]
      BY <1>7, <2>2 DEF Collect, Stamped, Types
    <3>2. ~Collecting(d, s)
      BY <2>2 DEF Collecting, Check
    <3> QED  BY <1>6, <3>1, <3>2
  <2> QED  BY <2>1, <2>2
<1>8. CASE FailCheck(s) \/ Hang(s)
  <2>1. CASE j = Check(d)
    <3>1. slack'[d] = Upto(slack[d] + INTERVAL, Horizon) /\ silent'[d] = silent[d]
      BY <1>8, <2>1 DEF FailCheck, Hang, Lost
    <3> QED  BY <1>1, <1>2, <1>5, <3>1, LossExplains
  <2>2. CASE j # Check(d)
    BY <1>6, <1>8, <2>2 DEF FailCheck, Hang, Lost, Collecting
  <2> QED  BY <2>1, <2>2
<1>9. CASE Finish(s) \/ EndWork(s)
  <2>1. ~Collecting(d, s) /\ silent' = silent /\ slack' = slack
    BY <1>9 DEF Finish, EndWork, Collecting
  <2> QED  BY <1>6, <2>1
<1> QED  BY <1>7, <1>8, <1>9

(* A tick: what waits on time is late after it, and lost.                  *)
LEMMA TickExplains ==
  ASSUME Types, Types', NEW d \in Devices, Explained(d), Tick
  PROVE  Explained(d)'
<1> DEFINE c == Check(d)
<1>1. /\ silent[d] \in 0..Horizon /\ slack[d] \in 0..Horizon /\ wait[c] \in 0..INTERVAL
      /\ \A s \in Slots : threads[s].age \in 0..MaxRun
  BY Numbers
<1>2. wait'[c] = wait[c] - 1 /\ silent'[d] = Upto(silent[d] + 1, Horizon)
  BY Sizes DEF Tick
<1>3. silent'[d] \in Nat /\ silent'[d] <= silent[d] + 1 /\ silent'[d] <= Horizon
  BY <1>1, <1>2, Sizes DEF Upto
<1>4. ~Awaits(d)'
  <2>1. ASSUME NEW n \in 1..Len(queue) PROVE queue'[n].late # 0
    <3> DEFINE e == queue[n]
    <3>1. e \in Entry /\ queue'[n] = [e EXCEPT !.late = Upto(e.late + 1, GRACE + 1)]
      BY DEF Tick, Types
    <3> HIDE DEF e
    <3>2. queue'[n].late = Upto(e.late + 1, GRACE + 1)
      BY <3>1 DEF Entry
    <3>3. Upto(e.late + 1, GRACE + 1) > 0
      BY <3>1, Sizes DEF Entry, Upto
    <3> QED  BY <3>2, <3>3, Sizes
  <2>2. Len(queue') = Len(queue)
    BY DEF Tick, Types
  <2> QED  BY <2>1, <2>2 DEF Awaits, OnTime
<1>5. ASSUME NEW s \in Slots
      PROVE  /\ Collecting(d, s) <=> Collecting(d, s)'
             /\ Collecting(d, s) => threads'[s].age = threads[s].age + 1
  <2>1. CASE ~Ages(threads[s])
    <3>1. threads'[s] = threads[s]
      BY <2>1 DEF Tick
    <3> QED  BY <2>1, <3>1 DEF Ages, Collecting
  <2>2. CASE Ages(threads[s])
    <3> DEFINE r == threads[s]
    <3>1. r \in Thread /\ threads'[s] = [r EXCEPT !.age = r.age + 1]
      BY <2>2 DEF Tick, Types
    <3> HIDE DEF r
    <3>2. threads'[s].job = r.job /\ threads'[s].phase = r.phase /\ threads'[s].age = r.age + 1
      BY <3>1 DEF Thread
    <3> QED  BY <3>2 DEF Collecting, r
  <2> QED  BY <2>1, <2>2
<1>6. slack'[d] = IF Awaits(d) THEN Upto(slack[d] + INTERVAL, Horizon) ELSE slack[d]
  BY DEF Tick, Lost, Awaits
<1> DEFINE i == silent[d]
           l == slack[d]
           w == wait[c]
           i1 == silent'[d]
           l1 == slack'[d]
           w1 == wait'[c]
<1>7. /\ i + w <= 2 * INTERVAL + l
      /\ Awaits(d) \/ (\E s \in Slots : Collecting(d, s)) \/ i + w <= INTERVAL + l
      /\ \A s \in Slots : Collecting(d, s) => i <= INTERVAL + l + threads[s].age
  BY DEF Explained
<1>8. l1 \in Nat /\ l1 >= l /\ (Awaits(d) => l1 = Horizon \/ l1 = l + INTERVAL)
  BY <1>1, <1>6, Sizes DEF Upto
<1> HIDE DEF i, l, w, i1, l1, w1
<1>9. w1 = w - 1 /\ i1 <= i + 1 /\ i1 <= Horizon /\ i1 \in Nat /\ i \in Nat /\ l \in Nat
      /\ w \in 0..INTERVAL
  BY <1>1, <1>2, <1>3, Sizes DEF i, l, w, i1, w1
<1>10. i1 + w1 <= 2 * INTERVAL + l1
  BY <1>7, <1>8, <1>9, Sizes
<1>11. (\E s \in Slots : Collecting(d, s)') \/ i1 + w1 <= INTERVAL + l1
  <2>1. CASE Awaits(d)
    BY <1>7, <1>8, <1>9, <2>1, Sizes
  <2>2. CASE \E s \in Slots : Collecting(d, s)
    BY <1>5, <2>2
  <2>3. CASE i + w <= INTERVAL + l
    BY <1>8, <1>9, <2>3, Sizes
  <2> QED  BY <1>7, <2>1, <2>2, <2>3
<1>12. ASSUME NEW s \in Slots, Collecting(d, s)'
       PROVE  i1 <= INTERVAL + l1 + threads'[s].age
  <2> DEFINE a == threads[s].age
             a1 == threads'[s].age
  <2>1. a1 = a + 1 /\ a \in Nat
    BY <1>1, <1>5, <1>12, Sizes
  <2>2. i <= INTERVAL + l + a
    BY <1>5, <1>7, <1>12
  <2> HIDE DEF a, a1
  <2>3. i1 <= INTERVAL + l1 + a1
    BY <1>8, <1>9, <2>1, <2>2, Sizes
  <2> QED  BY <2>3 DEF a1
<1> QED  BY <1>4, <1>10, <1>11, <1>12 DEF Explained, i1, l1, w1

(* A restart postpones the next check by an interval at most, and loses    *)
(* the one on its way.                                                     *)
LEMMA RestartExplains ==
  ASSUME Types, Types', NEW d \in Devices, Explained(d), Restart
  PROVE  Explained(d)'
<1> DEFINE i == silent[d]
           l == slack[d]
           k == slack'[d]
<1>1. i \in 0..Horizon /\ l \in 0..Horizon /\ wait[Check(d)] \in 0..INTERVAL
  BY Numbers
<1>2. silent'[d] = i /\ wait'[Check(d)] = INTERVAL
      /\ k = Upto(l + (IF Uncollected(d) THEN 2 * INTERVAL ELSE INTERVAL), Horizon)
  BY Sizes DEF Restart
<1>3. ~Awaits(d)' /\ \A s \in Slots : ~Collecting(d, s)'
  BY ItemTypes DEF Restart, Awaits, OnTime, Collecting, NoRuns
<1>4. Uncollected(d) <=> Awaits(d) \/ \E s \in Slots : Collecting(d, s)
  BY DEF Uncollected, Awaits, Running, Collecting
<1>5. i <= 2 * INTERVAL + l /\ (Uncollected(d) \/ i <= INTERVAL + l)
  BY <1>1, <1>4, Sizes DEF Explained
<1>6. i <= k /\ k \in Nat
  <2>1. CASE Uncollected(d)
    BY <1>1, <1>2, <1>5, <2>1, Sizes DEF Upto
  <2>2. CASE ~Uncollected(d)
    BY <1>1, <1>2, <1>5, <2>2, Sizes DEF Upto
  <2> QED  BY <2>1, <2>2
<1> QED  BY <1>1, <1>2, <1>3, <1>6, Sizes DEF Explained

(* Re-polls, messages and what they start, except for its collections.     *)
LEMMA OthersExplain ==
  ASSUME Types, Types', NEW d \in Devices, Explained(d), NEW e \in Devices,
         SubmitRepoll(e) \/ SyslogCheck(e) \/ Message(e) \/ ListenerEnds \/ UNCHANGED vars
  PROVE  Explained(d)'
<1>1. UNCHANGED <<wait, threads>>
  BY DEF SubmitRepoll, SyslogCheck, Message, ListenerEnds, vars, jobs
<1>2. \A s \in Slots : (Collecting(d, s)' <=> Collecting(d, s)) /\ threads'[s].age = threads[s].age
  BY <1>1 DEF Collecting
<1>3. Awaits(d)' <=> Awaits(d)
  <2>1. CASE UNCHANGED queue
    BY <2>1 DEF Awaits, OnTime
  <2>2. CASE SubmitRepoll(e)
    <3>1. Repoll(e) # Check(d) /\ Repoll(e) \in AllJobs
      BY ItemTypes DEF Repoll, Check
    <3> QED  BY <2>2, <3>1, AppendAwaits DEF SubmitRepoll, Submitted
  <2> QED  BY <2>1, <2>2 DEF SyslogCheck, Message, ListenerEnds, vars, jobs
<1>4. ASSUME silent'[d] = silent[d], slack'[d] = slack[d] PROVE Explained(d)'
  BY <1>1, <1>2, <1>3, <1>4, StillExplained
<1>5. CASE SyslogCheck(e)
  <2>1. Stamped(e) \/ UNCHANGED <<silent, slack>>
    BY <1>5 DEF SyslogCheck
  <2>2. CASE Stamped(e) /\ e = d
    BY <2>2, StampExplains DEF Stamped, Types
  <2>3. CASE Stamped(e) /\ e # d
    BY <1>4, <2>3 DEF Stamped, Types
  <2> QED  BY <1>4, <2>1, <2>2, <2>3
<1> QED  BY <1>4, <1>5 DEF SubmitRepoll, Message, ListenerEnds, vars

SilenceInv == \A d \in Devices : Explained(d)

(* The silence of every device is explained in every state.                *)
LEMMA SilenceInvariant == Spec => []SilenceInv
<1>1. Init => SilenceInv
  <2> SUFFICES ASSUME Init, NEW d \in Devices PROVE Explained(d)
    BY DEF SilenceInv
  <2>1. silent[d] = 0 /\ slack[d] = 0 /\ wait[Check(d)] = INTERVAL
    BY Sizes DEF Init
  <2>2. ~Awaits(d) /\ \A s \in Slots : ~Collecting(d, s)
    BY ItemTypes DEF Init, Awaits, OnTime, Collecting, NoRuns
  <2> QED  BY <2>1, <2>2, Sizes DEF Explained
<1>2. Types /\ Types' /\ SilenceInv /\ [Next]_vars => SilenceInv'
  <2> SUFFICES ASSUME Types, Types', NEW d \in Devices, Explained(d), [Next]_vars
               PROVE  Explained(d)'
    BY DEF SilenceInv
  <2> QED  BY SubmitExplains, PickUpExplains, RunExplains, TickExplains, RestartExplains,
              OthersExplain DEF Next, Progress
<1> QED  BY <1>1, <1>2, TypesInvariant, PTL DEF Spec

(* A device is silent for no longer than an interval and a check, except   *)
(* for the interval runs of it that were lost.                             *)
THEOREM SilenceHasReasons == Spec => []SilenceIsExplained
<1>1. Types /\ SilenceInv => SilenceIsExplained
  <2> SUFFICES ASSUME Types, NEW d \in Devices, Explained(d)
               PROVE  silent[d] <= INTERVAL + slack[d] + MaxRun
    BY DEF SilenceInv, SilenceIsExplained
  <2>1. /\ silent[d] \in 0..Horizon /\ slack[d] \in 0..Horizon /\ wait[Check(d)] \in 0..INTERVAL
        /\ \A s \in Slots : threads[s].age \in 0..MaxRun
    BY Numbers
  <2>2. CASE \E s \in Slots : Collecting(d, s)
    <3>1. PICK s \in Slots : silent[d] <= INTERVAL + slack[d] + threads[s].age
      BY <2>2 DEF Explained
    <3>2. threads[s].age <= MaxRun /\ threads[s].age \in Nat
      BY <2>1, Sizes
    <3> QED  BY <2>1, <3>1, <3>2, Sizes
  <2>3. CASE Awaits(d) \/ silent[d] + wait[Check(d)] <= INTERVAL + slack[d]
    BY <2>1, <2>3, Sizes DEF Explained
  <2> QED  BY <2>2, <2>3 DEF Explained
<1> QED  BY <1>1, TypesInvariant, SilenceInvariant, PTL

-----------------------------------------------------------------------------
(* Messages.  The checks that messages start are as old as the cooldown    *)
(* keeps them apart.                                                       *)

Spaced(d) ==
    /\ \A t \in syslog[d] : since[d] <= t[1]
    /\ \A t, u \in syslog[d] : t = u \/ t[1] + COOLDOWN <= u[1] \/ u[1] + COOLDOWN <= t[1]

ThrottleInv == \A d \in Devices : Spaced(d)

(* What a step leaves of the checks of a device, or makes older.           *)
LEMMA SpacedStep ==
  ASSUME Types, NEW d \in Devices, Spaced(d), [Next]_vars
  PROVE  Spaced(d)'
<1>1. /\ since[d] \in 0..COOLDOWN
      /\ \A t \in syslog[d] : t \in (0..MaxRun) \X Phases /\ t[1] \in 0..MaxRun
  BY DEF Types
<1>2. CASE UNCHANGED <<syslog, since>>
  BY <1>2 DEF Spaced
<1>3. ASSUME NEW e \in Devices, Message(e) PROVE Spaced(d)'
  <2> DEFINE b == ByAddress(Hostname[e])
             new == <<0, "collect">>
  <2>1. /\ since[b] >= COOLDOWN /\ since' = [since EXCEPT ![b] = 0]
        /\ syslog' = [syslog EXCEPT ![b] = @ \cup {new}]
    BY <1>3 DEF Message
  <2>2. new[1] = 0
    OBVIOUS
  <2> HIDE DEF b, new
  <2>3. CASE b = d
    <3>1. since'[d] = 0 /\ syslog'[d] = syslog[d] \cup {new}
      BY <2>1, <2>3 DEF Types
    <3>2. \A t \in syslog[d] : COOLDOWN <= t[1]
      BY <1>1, <2>1, <2>3, Sizes DEF Spaced
    <3> QED  BY <1>1, <2>2, <3>1, <3>2, Sizes DEF Spaced
  <2>4. CASE b # d
    <3>1. since'[d] = since[d] /\ syslog'[d] = syslog[d]
      BY <2>1, <2>4 DEF Types
    <3> QED  BY <3>1 DEF Spaced
  <2> QED  BY <2>3, <2>4
<1>4. ASSUME NEW e \in Devices, SyslogCheck(e) PROVE Spaced(d)'
  <2>1. PICK t \in syslog[e] :
           \/ syslog' = [syslog EXCEPT ![e] = (@ \ {t}) \cup {<<t[1], "fix">>}]
           \/ syslog' = [syslog EXCEPT ![e] = @ \ {t}]
    BY <1>4 DEF SyslogCheck
  <2> DEFINE new == <<t[1], "fix">>
  <2>2. new[1] = t[1] /\ since' = since
    BY <1>4 DEF SyslogCheck
  <2>3. \/ syslog' = [syslog EXCEPT ![e] = (@ \ {t}) \cup {new}]
        \/ syslog' = [syslog EXCEPT ![e] = @ \ {t}]
    BY <2>1
  <2> HIDE DEF new
  <2>4. CASE e = d
    <3>1. syslog'[d] = (syslog[d] \ {t}) \cup {new} \/ syslog'[d] = syslog[d] \ {t}
      BY <2>3, <2>4 DEF Types
    <3>2. t \in syslog[d]
      BY <2>4
    <3> QED  BY <1>1, <2>2, <3>1, <3>2 DEF Spaced
  <2>5. CASE e # d
    <3>1. syslog'[d] = syslog[d]
      BY <2>3, <2>5 DEF Types
    <3> QED  BY <2>2, <3>1 DEF Spaced
  <2> QED  BY <2>4, <2>5
<1>5. CASE Tick
  <2>1. syslog'[d] = {<<t[1] + 1, t[2]>> : t \in syslog[d]}
        /\ since'[d] = Upto(since[d] + 1, COOLDOWN)
    BY <1>5 DEF Tick
  <2>2. since'[d] <= since[d] + 1 /\ since'[d] \in Nat
    BY <1>1, <2>1, Sizes DEF Upto
  <2>3. ASSUME NEW t \in syslog'[d]
        PROVE  \E u \in syslog[d] : t[1] = u[1] + 1 /\ t = <<u[1] + 1, u[2]>>
    BY <2>1
  <2>4. \A t \in syslog'[d] : since'[d] <= t[1]
    BY <1>1, <2>2, <2>3 DEF Spaced
  <2>5. ASSUME NEW t \in syslog'[d], NEW u \in syslog'[d]
        PROVE  t = u \/ t[1] + COOLDOWN <= u[1] \/ u[1] + COOLDOWN <= t[1]
    <3>1. PICK x \in syslog[d], y \in syslog[d] :
             /\ t[1] = x[1] + 1 /\ t = <<x[1] + 1, x[2]>>
             /\ u[1] = y[1] + 1 /\ u = <<y[1] + 1, y[2]>>
      BY <2>3
    <3>2. x = y \/ x[1] + COOLDOWN <= y[1] \/ y[1] + COOLDOWN <= x[1]
      BY DEF Spaced
    <3>3. x[1] \in Int /\ y[1] \in Int
      BY <1>1, Sizes
    <3> QED  BY <3>1, <3>2, <3>3, Sizes
  <2> QED  BY <2>4, <2>5 DEF Spaced
<1>6. CASE Restart
  BY <1>6 DEF Restart, Spaced
<1> QED  BY <1>2, <1>3, <1>4, <1>5, <1>6 DEF Next, Progress, PickUp, Submit, Collect,
            FailCheck, Hang, Finish, EndWork, SubmitRepoll, ListenerEnds, vars, input

(* Numbers that far apart are in different multiples.                      *)
LEMMA ApartDivides ==
  ASSUME NEW C \in Nat, C > 0, NEW a \in Nat, NEW b \in Nat, a + C <= b
  PROVE  a \div C # b \div C
OBVIOUS

(* The checks that messages started are finitely many.                     *)
LEMMA SyslogFinite ==
  ASSUME Types, NEW d \in Devices
  PROVE  IsFiniteSet(syslog[d])
<1>0. syslog[d] \subseteq (0..MaxRun) \X Phases
  BY DEF Types
<1>1. IsFiniteSet(0..MaxRun)
  BY Sizes, FS_Interval
<1>2. IsFiniteSet(Phases)
  <2>1. IsFiniteSet({"idle"})
    BY FS_Singleton
  <2>2. IsFiniteSet({"idle"} \cup {"collect"})
    BY <2>1, FS_AddElement
  <2>3. IsFiniteSet(({"idle"} \cup {"collect"}) \cup {"fix"})
    BY <2>2, FS_AddElement
  <2>4. IsFiniteSet((({"idle"} \cup {"collect"}) \cup {"fix"}) \cup {"work"})
    BY <2>3, FS_AddElement
  <2>5. IsFiniteSet(((({"idle"} \cup {"collect"}) \cup {"fix"}) \cup {"work"}) \cup {"hung"})
    BY <2>4, FS_AddElement
  <2>6. Phases = ((({"idle"} \cup {"collect"}) \cup {"fix"}) \cup {"work"}) \cup {"hung"}
    BY DEF Phases
  <2> QED  BY <2>5, <2>6
<1>3. IsFiniteSet((0..MaxRun) \X Phases)
  BY <1>1, <1>2, FS_Product
<1> QED  BY <1>0, <1>3, FS_Subset

(* Checks that are that far apart are few.                                 *)
LEMMA SpacedAreFew ==
  ASSUME Types, NEW d \in Devices, Spaced(d)
  PROVE  Cardinality(syslog[d]) <= (MaxRun \div COOLDOWN) + 1
<1> DEFINE S == syslog[d]
           N == MaxRun \div COOLDOWN
           T == 0..N
           f == [t \in S |-> t[1] \div COOLDOWN]
<1>1. S \subseteq (0..MaxRun) \X Phases
  BY DEF Types
<1>2. IsFiniteSet(S)
  BY SyslogFinite
<1>3. N \in Nat /\ IsFiniteSet(T) /\ Cardinality(T) = N + 1
  <2>1. N \in Nat
    BY Sizes
  <2> HIDE DEF N
  <2> QED  BY <2>1, FS_Interval
<1>4. Cardinality(S) \in Nat
  BY <1>2, FS_CardinalityType
<1>5. ASSUME NEW t \in S PROVE t[1] \div COOLDOWN \in T
  <2>1. t[1] \in Nat /\ t[1] <= MaxRun
    BY <1>1, Sizes
  <2> QED  BY <2>1, Sizes
<1>6. f \in [S -> T]
  BY <1>5
<1>7. ASSUME NEW t \in S, NEW u \in S, t # u PROVE f[t] # f[u]
  <2>1. t[1] + COOLDOWN <= u[1] \/ u[1] + COOLDOWN <= t[1]
    BY <1>7 DEF Spaced
  <2>2. t[1] \in Nat /\ u[1] \in Nat
    BY <1>1, Sizes
  <2>3. t[1] \div COOLDOWN # u[1] \div COOLDOWN
    BY <2>1, <2>2, Sizes, ApartDivides
  <2> QED  BY <2>3
<1> HIDE DEF S, N, T, f
<1>8. ~(Cardinality(T) < Cardinality(S))
  BY <1>2, <1>3, <1>6, <1>7, FS_PigeonHole
<1> QED  BY <1>3, <1>4, <1>8 DEF S, N

(* However many messages come, the checks that they start do not pile up,  *)
(* for every cooldown and every length of a run.                           *)
THEOREM ThrottleHolds == Spec => []MessagesAreThrottled
<1>1. Init => ThrottleInv
  BY DEF Init, ThrottleInv, Spaced
<1>2. Types /\ ThrottleInv /\ [Next]_vars => ThrottleInv'
  BY SpacedStep DEF ThrottleInv
<1>3. Types /\ ThrottleInv => MessagesAreThrottled
  BY SpacedAreFew DEF ThrottleInv, MessagesAreThrottled
<1> QED  BY <1>1, <1>2, <1>3, TypesInvariant, PTL DEF Spec

-----------------------------------------------------------------------------
(* Re-polls.  Those of a device are counted where they are: in the job     *)
(* store, in the pool's queue, on a thread.                                *)

(* The counts are numbers.                                                 *)
LEMMA Counts ==
  ASSUME Types, NEW j
  PROVE  /\ IsFiniteSet(Waiting(j)) /\ Cardinality(Waiting(j)) \in Nat
         /\ IsFiniteSet(Running(j)) /\ Cardinality(Running(j)) \in Nat
<1>1. Len(queue) \in Int /\ PoolSize \in Int
  BY PollingAssumption DEF Types
<1>2. IsFiniteSet(1..Len(queue)) /\ IsFiniteSet(Slots)
  BY <1>1, FS_Interval DEF Slots
<1>3. Waiting(j) \subseteq 1..Len(queue) /\ Running(j) \subseteq Slots
  BY DEF Waiting, Running
<1> QED  BY <1>2, <1>3, FS_Subset, FS_CardinalityType

(* One more entry is one more that waits, for its job.                     *)
LEMMA WaitingAppend ==
  ASSUME Types, NEW j, NEW i \in AllJobs, queue' = Append(queue, Item(i))
  PROVE  Cardinality(Waiting(j)') = IF i = j THEN Cardinality(Waiting(j)) + 1
                                    ELSE Cardinality(Waiting(j))
<1> DEFINE e == Item(i)
           l == Len(queue)
<1>1. e.job = i /\ e \in Entry /\ queue \in Seq(Entry) /\ queue' = Append(queue, e)
  BY ItemTypes DEF Types
<1> HIDE DEF e
<1>2. /\ Len(queue') = l + 1 /\ l \in Nat /\ queue'[l + 1] = e
      /\ \A n \in 1..l : queue'[n] = queue[n]
  BY <1>1
<1> HIDE DEF l
<1>3. 1..Len(queue) = 1..l
  BY DEF l
<1>4. Waiting(j)' = IF i = j THEN Waiting(j) \cup {l + 1} ELSE Waiting(j)
  BY <1>1, <1>2, <1>3 DEF Waiting
<1>5. l + 1 \notin Waiting(j)
  BY <1>2, <1>3 DEF Waiting
<1> QED  BY <1>4, <1>5, Counts, FS_AddElement

(* Without its head the queue has one less for the job of the head.        *)
LEMMA WaitingTail ==
  ASSUME Types, NEW j, queue # <<>>, queue' = Tail(queue)
  PROVE  Cardinality(Waiting(j)') = IF Head(queue).job = j THEN Cardinality(Waiting(j)) - 1
                                    ELSE Cardinality(Waiting(j))
<1> DEFINE l == Len(queue)
           W == Waiting(j) \ {1}
           V == Waiting(j)'
           f == [n \in V |-> n + 1]
<1>1. /\ l \in Nat /\ l > 0 /\ Len(queue') = l - 1 /\ Head(queue) = queue[1]
      /\ \A n \in 1..(l - 1) : queue'[n] = queue[n + 1]
  BY DEF Types
<1>2. V = {n \in 1..(l - 1) : queue[n + 1].job = j}
  BY <1>1 DEF Waiting
<1>3. W = {n \in 2..l : queue[n].job = j}
  BY <1>1 DEF Waiting
<1> HIDE DEF l, W, V
<1>4. f \in [V -> W]
  BY <1>1, <1>2, <1>3
<1>5. \A m, n \in V : f[m] = f[n] => m = n
  BY <1>1, <1>2
<1>6. ASSUME NEW w \in W PROVE \E n \in V : f[n] = w
  <2>1. w - 1 \in V /\ f[w - 1] = w
    BY <1>1, <1>2, <1>3
  <2> QED  BY <2>1
<1> HIDE DEF f
<1>7. f \in Bijection(V, W)
  BY <1>4, <1>5, <1>6 DEF Bijection, Injection, Surjection, IsInjective
<1>8. ExistsBijection(V, W)
  BY <1>7 DEF ExistsBijection
<1>9. IsFiniteSet(V)
  <2>1. IsFiniteSet(1..(l - 1))
    BY <1>1, FS_Interval
  <2> QED  BY <1>2, <2>1, FS_Subset
<1>10. Cardinality(V) = Cardinality(W)
  BY <1>8, <1>9, FS_Bijection
<1>11. 1 \in Waiting(j) <=> Head(queue).job = j
  BY <1>1 DEF Waiting, l
<1>12. Cardinality(W) = IF 1 \in Waiting(j) THEN Cardinality(Waiting(j)) - 1
                        ELSE Cardinality(Waiting(j))
  BY Counts, FS_RemoveElement DEF W
<1> QED  BY <1>10, <1>11, <1>12 DEF V

(* A thread that starts or ends a run counts for its job only.             *)
LEMMA RunningChanges ==
  ASSUME Types, NEW j, NEW s \in Slots, NEW r,
         threads' = [threads EXCEPT ![s] = r]
  PROVE  Cardinality(Running(j)') =
            Cardinality(Running(j)) + (IF r.job = j THEN 1 ELSE 0)
                                    - (IF threads[s].job = j THEN 1 ELSE 0)
<1>1. threads'[s] = r /\ \A x \in Slots \ {s} : threads'[x] = threads[x]
  BY DEF Types
<1>2. IsFiniteSet(Running(j)) /\ Cardinality(Running(j)) \in Nat
  BY Counts
<1>3. CASE r.job = j /\ threads[s].job # j
  <2>1. Running(j)' = Running(j) \cup {s} /\ s \notin Running(j)
    BY <1>1, <1>3 DEF Running
  <2>2. Cardinality(Running(j)') = Cardinality(Running(j)) + 1
    BY <1>2, <2>1, FS_AddElement
  <2> QED  BY <1>2, <1>3, <2>2
<1>4. CASE r.job # j /\ threads[s].job = j
  <2>1. Running(j)' = Running(j) \ {s} /\ s \in Running(j)
    BY <1>1, <1>4 DEF Running
  <2>2. Cardinality(Running(j)') = Cardinality(Running(j)) - 1
    BY <1>2, <2>1, FS_RemoveElement
  <2> QED  BY <1>2, <1>4, <2>2
<1>5. CASE r.job = j <=> threads[s].job = j
  <2>1. Running(j)' = Running(j)
    BY <1>1, <1>5 DEF Running
  <2> QED  BY <1>2, <1>5, <2>1
<1> QED  BY <1>3, <1>4, <1>5

(* Only checks collect and fix.                                            *)
PhaseInv == \A s \in Slots : threads[s].phase \in {"collect", "fix"} => IsCheck(threads[s].job)

(* A thread changes its run when it takes or ends one, and its phase only  *)
(* when it has collected.                                                  *)
LEMMA PhaseStep ==
  ASSUME Types, PhaseInv, [Next]_vars
  PROVE  PhaseInv'
<1>1. CASE UNCHANGED threads
  BY <1>1 DEF PhaseInv
<1>2. CASE PickUp
  <2> DEFINE item == Head(queue)
             run == [job |-> item.job, age |-> 0,
                     phase |-> IF IsCheck(item.job) THEN "collect" ELSE "work"]
  <2>1. PICK x \in FreeSlots : threads' = threads \/ threads' = [threads EXCEPT ![x] = run]
    BY <1>2 DEF PickUp
  <2>2. run.phase \in {"collect", "fix"} => IsCheck(run.job)
    OBVIOUS
  <2> HIDE DEF run
  <2> QED  BY <2>1, <2>2 DEF PhaseInv, Types
<1>3. ASSUME NEW s \in Slots, Collect(s) \/ FailCheck(s) \/ Hang(s) \/ Finish(s) \/ EndWork(s)
      PROVE  PhaseInv'
  <2>1. CASE Collect(s)
    <3> DEFINE r == [threads[s] EXCEPT !.phase = "fix"]
    <3>1. threads' = [threads EXCEPT ![s] = r]
      BY <2>1 DEF Collect
    <3>2. r.job = threads[s].job /\ IsCheck(threads[s].job)
      BY <2>1 DEF Collect, PhaseInv, Types, Thread
    <3> HIDE DEF r
    <3> QED  BY <3>1, <3>2 DEF PhaseInv, Types
  <2>2. CASE threads' = [threads EXCEPT ![s] = Idle]
    BY <2>2, ItemTypes DEF PhaseInv, Types
  <2>3. CASE Hang(s)
    <3> DEFINE r == [threads[s] EXCEPT !.phase = "hung", !.age = 0]
    <3>1. threads' = [threads EXCEPT ![s] = r]
      BY <2>3 DEF Hang
    <3>2. r.phase = "hung"
      BY DEF Types, Thread
    <3> HIDE DEF r
    <3> QED  BY <3>1, <3>2 DEF PhaseInv, Types
  <2> QED  BY <1>3, <2>1, <2>2, <2>3 DEF FailCheck, Finish, EndWork
<1>4. CASE Tick
  <2>1. ASSUME NEW s \in Slots
        PROVE  threads'[s].job = threads[s].job /\ threads'[s].phase = threads[s].phase
    <3> DEFINE r == threads[s]
    <3>1. r \in Thread /\ (threads'[s] = r \/ threads'[s] = [r EXCEPT !.age = r.age + 1])
      BY <1>4 DEF Tick, Types
    <3> HIDE DEF r
    <3>2. [r EXCEPT !.age = r.age + 1].job = r.job /\ [r EXCEPT !.age = r.age + 1].phase = r.phase
      BY <3>1 DEF Thread
    <3> QED  BY <3>1, <3>2 DEF r
  <2> QED  BY <2>1 DEF PhaseInv
<1>5. CASE Restart
  BY <1>5, ItemTypes DEF Restart, NoRuns, PhaseInv
<1> QED  BY <1>1, <1>2, <1>3, <1>4, <1>5 DEF Next, Progress, Submit, SubmitRepoll, SyslogCheck,
            Message, ListenerEnds, vars, jobs

(* What a step did not touch counts as before.                             *)
LEMMA SameCount ==
  ASSUME NEW d, UNCHANGED <<pending, queue, threads>>
  PROVE  Outstanding(d)' = Outstanding(d)
BY DEF Outstanding, Ahead, Waiting, Running

(* The three counts of a device.                                           *)
LEMMA OutstandingSum ==
  ASSUME Types, NEW d \in Devices
  PROVE  /\ Len(pending[d]) \in Nat
         /\ Cardinality(Waiting(Repoll(d))) \in Nat /\ Cardinality(Running(Repoll(d))) \in Nat
         /\ Outstanding(d) = Len(pending[d]) + Cardinality(Waiting(Repoll(d)))
                               + Cardinality(Running(Repoll(d)))
         /\ Repoll(d) # Idle.job /\ Check(d) # Idle.job /\ Repoll(d) # Check(d)
<1>1. Len(pending[d]) \in Nat
  BY DEF Types
<1>2. Cardinality(Waiting(Repoll(d))) \in Nat /\ Cardinality(Running(Repoll(d))) \in Nat
  BY Counts
<1> QED  BY <1>1, <1>2, ItemTypes DEF Outstanding, Ahead, Repoll, Check

(* Asking appends at most one re-poll, of the device that asks.            *)
LEMMA AskCount ==
  ASSUME Types, NEW d \in Devices, NEW e, MayAsk(e)
  PROVE  \/ Len(pending'[d]) = Len(pending[d])
         \/ e = d /\ Len(pending'[d]) = Len(pending[d]) + 1
<1>1. CASE UNCHANGED pending
  BY <1>1
<1>2. CASE pending' = [pending EXCEPT ![e] = Append(@, REPOLL_DELAY)]
  <2> DEFINE q == pending[d]
  <2>1. q \in Seq(0..REPOLL_DELAY)
    BY DEF Types
  <2>2. pending'[d] = IF e = d THEN Append(q, REPOLL_DELAY) ELSE q
    BY <1>2 DEF Types
  <2> HIDE DEF q
  <2>3. Len(Append(q, REPOLL_DELAY)) = Len(q) + 1
    BY <2>1
  <2> QED  BY <2>2, <2>3 DEF q
<1> QED  BY <1>1, <1>2 DEF MayAsk

(* The steps of the scheduler move re-polls and make none.                 *)
LEMMA SchedulerMakesNone ==
  ASSUME Types, NEW d \in Devices,
         \/ \E n \in 1..Len(Registered) : Submit(n)
         \/ \E e \in Devices : SubmitRepoll(e)
         \/ PickUp
  PROVE  ~(Outstanding(d)' > Outstanding(d))
<1> DEFINE R == Repoll(d)
           P == Len(pending[d])
           W == Cardinality(Waiting(R))
           U == Cardinality(Running(R))
<1>1. P \in Nat /\ W \in Nat /\ U \in Nat /\ Outstanding(d) = P + W + U /\ R # Idle.job
  BY OutstandingSum
<1>2. Outstanding(d)' = Len(pending'[d]) + Cardinality(Waiting(R)') + Cardinality(Running(R)')
  BY DEF Outstanding, Ahead, Repoll
<1>3. ASSUME NEW n \in 1..Len(Registered), Submit(n) PROVE ~(Outstanding(d)' > Outstanding(d))
  <2> DEFINE j == Registered[n]
  <2>1. j \in AllJobs /\ j[1] \in Kinds
    <3>1. j \in Recurring
      BY DEF Recurring
    <3>2. Registered \in Seq(Kinds \X (Devices \cup {"all"}))
      BY PollingAssumption
    <3>3. j \in Kinds \X (Devices \cup {"all"})
      BY <3>2
    <3> QED  BY <3>1, <3>3, ItemTypes
  <2>2. j # R
    BY <2>1 DEF Kinds, Repoll
  <2>3. UNCHANGED <<pending, threads>> /\ (queue' = queue \/ queue' = Append(queue, Item(j)))
    BY <1>3 DEF Submit, Submitted
  <2> HIDE DEF j
  <2>4. Cardinality(Waiting(R)') = W
    <3>1. CASE queue' = queue
      BY <3>1 DEF Waiting
    <3>2. CASE queue' = Append(queue, Item(j))
      BY <2>1, <2>2, <3>2, WaitingAppend
    <3> QED  BY <2>3, <3>1, <3>2
  <2>5. Cardinality(Running(R)') = U
    BY <2>3 DEF Running
  <2>6. Len(pending'[d]) = P
    BY <2>3
  <2> QED  BY <1>1, <1>2, <2>4, <2>5, <2>6
<1>4. ASSUME NEW e \in Devices, SubmitRepoll(e) PROVE ~(Outstanding(d)' > Outstanding(d))
  <2>1. queue' = Append(queue, Item(Repoll(e))) /\ threads' = threads
        /\ pending[e] # <<>> /\ pending' = [pending EXCEPT ![e] = Tail(@)]
    BY <1>4 DEF SubmitRepoll, Submitted
  <2>2. Cardinality(Waiting(R)') = IF Repoll(e) = R THEN W + 1 ELSE W
    BY <2>1, ItemTypes, WaitingAppend
  <2>3. Repoll(e) = R <=> e = d
    BY DEF Repoll
  <2>4. Len(pending'[d]) = IF e = d THEN P - 1 ELSE P
    BY SMTT(30), <2>1 DEF Types
  <2>5. Cardinality(Running(R)') = U
    BY <2>1 DEF Running
  <2> QED  BY <1>1, <1>2, <2>2, <2>3, <2>4, <2>5
<1>5. CASE PickUp
  <2> DEFINE item == Head(queue)
             run == [job |-> item.job, age |-> 0,
                     phase |-> IF IsCheck(item.job) THEN "collect" ELSE "work"]
  <2>1. PICK x \in FreeSlots : threads' = threads \/ threads' = [threads EXCEPT ![x] = run]
    BY <1>5 DEF PickUp
  <2>2. queue # <<>> /\ queue' = Tail(queue) /\ pending' = pending
    BY <1>5 DEF PickUp
  <2>3. Cardinality(Waiting(R)') = IF item.job = R THEN W - 1 ELSE W
    BY <2>2, WaitingTail
  <2>4. x \in Slots /\ threads[x] = Idle /\ run.job = item.job
    BY <2>1 DEF FreeSlots
  <2> HIDE DEF run
  <2>5. /\ Cardinality(Running(R)') \in Nat
        /\ Cardinality(Running(R)') <= U + (IF item.job = R THEN 1 ELSE 0)
    <3>1. CASE threads' = threads
      <4>1. Running(R)' = Running(R)
        BY <3>1 DEF Running
      <4> QED  BY <1>1, <4>1
    <3>2. CASE threads' = [threads EXCEPT ![x] = run]
      <4>1. Cardinality(Running(R)') = U + (IF run.job = R THEN 1 ELSE 0)
                                         - (IF threads[x].job = R THEN 1 ELSE 0)
        BY <2>4, <3>2, RunningChanges
      <4> QED  BY <1>1, <2>4, <4>1
    <3> QED  BY <2>1, <3>1, <3>2
  <2>7. Len(pending'[d]) = P
    BY <2>2
  <2> QED  BY <1>1, <1>2, <2>3, <2>5, <2>7
<1> QED  BY <1>3, <1>4, <1>5

(* A run that ends: the re-poll it may ask for takes its own place, or     *)
(* that of the check that asked.                                           *)
LEMMA RunCount ==
  ASSUME Types, PhaseInv, NEW d \in Devices, NEW s \in Slots,
         Collect(s) \/ FailCheck(s) \/ Hang(s) \/ Finish(s) \/ EndWork(s),
         Outstanding(d)' > Outstanding(d)
  PROVE  Outstanding(d)' = Outstanding(d) + 1 /\ Originals(d)' < Originals(d)
<1> DEFINE R == Repoll(d)
           C == Check(d)
           j == threads[s].job
           P == Len(pending[d])
           W == Cardinality(Waiting(R))
           U == Cardinality(Running(R))
<1>1. /\ P \in Nat /\ W \in Nat /\ U \in Nat /\ Outstanding(d) = P + W + U
      /\ R # Idle.job /\ C # Idle.job /\ R # C
  BY OutstandingSum
<1>2. Outstanding(d)' = Len(pending'[d]) + Cardinality(Waiting(R)') + Cardinality(Running(R)')
  BY DEF Outstanding, Ahead, Repoll
<1>3. UNCHANGED <<queue, syslog>>
  BY DEF Collect, FailCheck, Hang, Finish, EndWork, input
<1>4. Cardinality(Waiting(R)') = W
  BY <1>3 DEF Waiting
<1>5. Collect(s) \/ Hang(s) \/ threads' = [threads EXCEPT ![s] = Idle]
  BY DEF FailCheck, Finish, EndWork
<1>6. ~Collect(s) /\ ~Hang(s)
  <2> SUFFICES ASSUME Collect(s) \/ Hang(s) PROVE FALSE
    OBVIOUS
  <2>1. PICK r : threads' = [threads EXCEPT ![s] = r] /\ pending' = pending
                 /\ r.job = threads[s].job
    <3>1. CASE Collect(s)
      <4> DEFINE r == [threads[s] EXCEPT !.phase = "fix"]
      <4>1. threads' = [threads EXCEPT ![s] = r] /\ pending' = pending
        BY <3>1 DEF Collect
      <4>2. r.job = threads[s].job
        BY DEF Types, Thread
      <4> QED  BY <4>1, <4>2
    <3>2. CASE Hang(s)
      <4> DEFINE r == [threads[s] EXCEPT !.phase = "hung", !.age = 0]
      <4>1. threads' = [threads EXCEPT ![s] = r] /\ pending' = pending
        BY <3>2 DEF Hang
      <4>2. r.job = threads[s].job
        BY DEF Types, Thread
      <4> QED  BY <4>1, <4>2
    <3> QED  BY <3>1, <3>2
  <2>3. Running(R)' = Running(R)
    BY <2>1 DEF Running, Types
  <2> QED  BY <1>1, <1>2, <1>4, <2>1, <2>3
<1>7. Cardinality(Running(R)') = U - (IF j = R THEN 1 ELSE 0)
  <2>1. Cardinality(Running(R)') = U + (IF Idle.job = R THEN 1 ELSE 0) - (IF j = R THEN 1 ELSE 0)
    BY <1>5, <1>6, RunningChanges
  <2> QED  BY <1>1, <2>1
<1>8. Finish(s)
  <2> SUFFICES ASSUME UNCHANGED pending PROVE FALSE
    BY <1>6 DEF FailCheck, EndWork
  <2> QED  BY <1>1, <1>2, <1>4, <1>7
<1>9. MayAsk(j[2])
  BY <1>8 DEF Finish
<1>10. j # R /\ j[2] = d /\ Len(pending'[d]) = P + 1
  <2>1. \/ Len(pending'[d]) = P
        \/ j[2] = d /\ Len(pending'[d]) = P + 1
    BY <1>9, AskCount
  <2> QED  BY SMTT(30), <1>1, <1>2, <1>4, <1>7, <2>1
<1>11. j = C
  <2>1. IsCheck(j)
    BY <1>8 DEF Finish, PhaseInv
  <2>2. j \in AllJobs
    BY DEF Types, Thread
  <2>3. j = <<j[1], j[2]>>
    <3>1. ASSUME j \in Recurring PROVE j = <<j[1], j[2]>>
      <4>1. PICK n \in 1..Len(Registered) : j = Registered[n]
        BY <3>1 DEF Recurring
      <4>2. Registered[n] \in Kinds \X (Devices \cup {"all"})
        <5>1. Registered \in Seq(Kinds \X (Devices \cup {"all"}))
          BY PollingAssumption
        <5> QED  BY <5>1
      <4> QED  BY <4>1, <4>2
    <3> QED  BY <2>2, <3>1 DEF AllJobs, Repoll, Idle
  <2> QED  BY <1>10, <2>1, <2>3 DEF IsCheck, Check, Repoll
<1>12. Originals(d)' < Originals(d)
  <2>1. Cardinality(Running(C)') = Cardinality(Running(C)) + (IF Idle.job = C THEN 1 ELSE 0)
                                     - (IF j = C THEN 1 ELSE 0)
    BY <1>5, <1>6, RunningChanges
  <2>2. Cardinality(Running(C)) \in Nat /\ Cardinality(syslog[d]) \in Nat
    BY Counts, SyslogFinite, FS_CardinalityType
  <2>3. Originals(d) = Cardinality(Running(C)) + Cardinality(syslog[d])
    BY DEF Originals
  <2>4. Originals(d)' = Cardinality(Running(C)') + Cardinality(syslog[d])
    BY <1>3 DEF Originals, Check
  <2> QED  BY <1>1, <1>11, <2>1, <2>2, <2>3, <2>4
<1> QED  BY <1>1, <1>2, <1>4, <1>7, <1>10, <1>12

(* The check of a message that ends, likewise.                             *)
LEMMA SyslogCount ==
  ASSUME Types, NEW d \in Devices, NEW e \in Devices, SyslogCheck(e),
         Outstanding(d)' > Outstanding(d)
  PROVE  Outstanding(d)' = Outstanding(d) + 1 /\ Originals(d)' < Originals(d)
<1> DEFINE R == Repoll(d)
           P == Len(pending[d])
           W == Cardinality(Waiting(R))
           U == Cardinality(Running(R))
<1>1. P \in Nat /\ W \in Nat /\ U \in Nat /\ Outstanding(d) = P + W + U
  BY OutstandingSum
<1>2. Outstanding(d)' = Len(pending'[d]) + Cardinality(Waiting(R)') + Cardinality(Running(R)')
  BY DEF Outstanding, Ahead, Repoll
<1>3. UNCHANGED <<queue, threads>>
  BY DEF SyslogCheck
<1>4. Cardinality(Waiting(R)') = W /\ Cardinality(Running(R)') = U
  BY <1>3 DEF Waiting, Running
<1>5. ~UNCHANGED pending
  BY <1>1, <1>2, <1>4
<1>6. PICK t \in syslog[e] : MayAsk(e) /\ syslog' = [syslog EXCEPT ![e] = @ \ {t}]
  BY <1>5 DEF SyslogCheck
<1>7. e = d /\ Len(pending'[d]) = P + 1
  <2>1. \/ Len(pending'[d]) = P
        \/ e = d /\ Len(pending'[d]) = P + 1
    BY <1>6, AskCount
  <2> QED  BY <1>1, <1>2, <1>4, <2>1
<1>8. syslog'[d] = syslog[d] \ {t} /\ t \in syslog[d]
  BY <1>6, <1>7 DEF Types
<1>9. Cardinality(syslog'[d]) = Cardinality(syslog[d]) - 1 /\ Cardinality(syslog[d]) \in Nat
  BY <1>8, SyslogFinite, FS_RemoveElement, FS_CardinalityType
<1>10. Running(Check(d))' = Running(Check(d)) /\ Cardinality(Running(Check(d))) \in Nat
  BY <1>3, Counts DEF Running
<1>11. Originals(d)' < Originals(d)
  BY <1>9, <1>10 DEF Originals
<1> QED  BY <1>1, <1>2, <1>4, <1>7, <1>11

(* A tick moves nothing, and a restart forgets everything.                 *)
LEMMA TickCount ==
  ASSUME Types, NEW d \in Devices, Tick \/ Restart
  PROVE  ~(Outstanding(d)' > Outstanding(d))
<1> DEFINE R == Repoll(d)
           P == Len(pending[d])
           W == Cardinality(Waiting(R))
           U == Cardinality(Running(R))
<1>1. P \in Nat /\ W \in Nat /\ U \in Nat /\ Outstanding(d) = P + W + U /\ R # Idle.job
  BY OutstandingSum
<1>2. Outstanding(d)' = Len(pending'[d]) + Cardinality(Waiting(R)') + Cardinality(Running(R)')
  BY DEF Outstanding, Ahead, Repoll
<1>3. CASE Tick
  <2>1. Len(pending'[d]) = P
    BY <1>1, <1>3 DEF Tick
  <2>2. Waiting(R)' = Waiting(R)
    <3>1. Len(queue') = Len(queue)
      BY <1>3 DEF Tick, Types
    <3>2. ASSUME NEW n \in 1..Len(queue) PROVE queue'[n].job = queue[n].job
      <4> DEFINE q == queue[n]
      <4>1. q \in Entry /\ queue'[n] = [q EXCEPT !.late = Upto(q.late + 1, GRACE + 1)]
        BY <1>3 DEF Tick, Types
      <4> HIDE DEF q
      <4>2. queue'[n].job = q.job
        BY <4>1 DEF Entry
      <4> QED  BY <4>2 DEF q
    <3> QED  BY <3>1, <3>2 DEF Waiting
  <2>3. Running(R)' = Running(R)
    <3>1. ASSUME NEW s \in Slots PROVE threads'[s].job = threads[s].job
      <4> DEFINE r == threads[s]
      <4>1. r \in Thread /\ threads'[s] = IF Ages(r) THEN [r EXCEPT !.age = r.age + 1] ELSE r
        BY <1>3 DEF Tick, Types
      <4> HIDE DEF r
      <4>2. [r EXCEPT !.age = r.age + 1].job = r.job
        BY <4>1 DEF Thread
      <4>3. threads'[s].job = r.job
        BY <4>1, <4>2
      <4> QED  BY <4>3 DEF r
    <3> QED  BY <3>1 DEF Running
  <2> QED  BY <1>1, <1>2, <2>1, <2>2, <2>3
<1>4. CASE Restart
  <2>1. Len(pending'[d]) = 0
    BY <1>4 DEF Restart, NoRepolls
  <2>2. Waiting(R)' = {}
    BY <1>4 DEF Restart, Waiting
  <2>3. Running(R)' = {}
    BY <1>1, <1>4 DEF Restart, Running, NoRuns, Repoll
  <2> QED  BY <1>1, <1>2, <2>1, <2>2, <2>3, FS_EmptySet
<1> QED  BY <1>3, <1>4

(* Every step adds one re-poll of a device at most, and only in the place  *)
(* of an interval or syslog check of it that ends.                         *)
LEMMA RepollStep ==
  ASSUME Types, PhaseInv, [Next]_vars, NEW d \in Devices, Outstanding(d)' > Outstanding(d)
  PROVE  Outstanding(d)' = Outstanding(d) + 1 /\ Originals(d)' < Originals(d)
<1>1. UNCHANGED <<pending, queue, threads>> => ~(Outstanding(d)' > Outstanding(d))
  <2>1. Outstanding(d) \in Nat
    BY OutstandingSum
  <2> QED  BY <2>1, SameCount
<1> QED  BY <1>1, RunCount, SyslogCount, SchedulerMakesNone, TickCount
         DEF Next, Progress, Message, ListenerEnds, vars, jobs

(* A fix that has to be repeated keeps one chain of re-polls for each      *)
(* interval or syslog check, for any number of devices and threads.        *)
THEOREM RepollsStayFew == Spec => RepollsDoNotMultiply
<1>1. Init => PhaseInv
  BY ItemTypes DEF Init, NoRuns, PhaseInv
<1>2. Types /\ PhaseInv /\ [Next]_vars => PhaseInv'
  BY PhaseStep
<1>3. Types /\ PhaseInv /\ [Next]_vars =>
        [\A d \in Devices : Outstanding(d)' > Outstanding(d) =>
            /\ Outstanding(d)' = Outstanding(d) + 1
            /\ Originals(d)' < Originals(d)]_vars
  BY RepollStep
<1> QED  BY <1>1, <1>2, <1>3, TypesInvariant, PTL DEF Spec, RepollsDoNotMultiply
=============================================================================

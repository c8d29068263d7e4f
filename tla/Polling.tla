------------------------------- MODULE Polling -------------------------------
(***************************************************************************)
(* When devices are checked.  scheduler.main registers one interval job    *)
(* per device and a few others with APScheduler, starts the syslog         *)
(* listener, and gives every check a way to ask for one more check after a *)
(* fix.  APScheduler submits what is due to a pool of threads, at most one *)
(* instance of a job at a time, and a pool thread drops a run that it      *)
(* picks up too late.                                                      *)
(*                                                                         *)
(* Time passes in ticks and only when the program has nothing left to do   *)
(* at once; every duration is kept as an age, so no clock is needed.       *)
(***************************************************************************)
EXTENDS Integers, Sequences, FiniteSets

CONSTANTS
    Devices,
    Registered,      \* the interval jobs, <<kind, device or "all">>, as main adds them
    Period,          \* of each of them, in ticks
    INTERVAL,        \* the period of the drift checks
    REPOLL_DELAY,
    GRACE,           \* misfire_grace_time of a re-poll; an interval job's is below a tick
    COOLDOWN,
    MaxRun,          \* the longest run of a job that ends
    PoolSize,        \* threads of the pool: 10 by default
    Order,           \* the devices as the inventory lists them
    Hostname,        \* the address a device's messages come from
    Fixable,         \* devices on which fixes are applied
    Horizon,         \* bound: silence is not measured further
    MaxRepolls,      \* bound: re-polls of a device that have not begun
    MaxRestarts      \* bound: process restarts

Check(d)  == <<"drift-check", d>>
Repoll(d) == <<"repoll", d>>
Kinds     == {"drift-check", "reachability", "sla-evaluation", "drift-retention",
              "lifecycle-sync"}
Recurring == {Registered[n] : n \in 1..Len(Registered)}

ASSUME PollingAssumption ==
    /\ INTERVAL \in Nat \ {0} /\ MaxRun \in Nat /\ Horizon \in Nat
    /\ REPOLL_DELAY \in Nat /\ GRACE \in Nat /\ COOLDOWN \in Nat \ {0}
    /\ Registered \in Seq(Kinds \X (Devices \cup {"all"}))
    /\ \A d \in Devices : Check(d) \in Recurring
    /\ Period \in [Recurring -> Nat \ {0}]
    /\ \A d \in Devices : Period[Check(d)] = INTERVAL
    /\ PoolSize \in Nat \ {0}
    /\ Order \in Seq(Devices) /\ {Order[n] : n \in 1..Len(Order)} = Devices
    /\ DOMAIN Hostname = Devices /\ Fixable \subseteq Devices
    /\ MaxRepolls \in Nat /\ MaxRestarts \in Nat

VARIABLES
    wait,       \* ticks until an interval job is due
    pending,    \* ticks until each one-shot re-poll of a device is due, soonest first
    queue,      \* what the pool has still to pick up, and how late it is
    threads,    \* what each pool thread runs
    syslog,     \* the check threads that messages started, per device
    since,      \* ticks since a message triggered a check of the device, at most COOLDOWN
    listening,  \* the syslog listener has not ended
    silent,     \* ticks since the last collection, as last_collected_at shows them
    slack,      \* history: ticks of silence that lost interval runs account for
    restarts

jobs   == <<wait, pending, queue, threads>>
input  == <<syslog, since, listening>>
vars   == <<jobs, input, silent, slack, restarts>>

Upto(n, limit) == IF n < limit THEN n ELSE limit
Slots == 1..PoolSize

(* A run of a job: a check collects, commits its stamp, then fixes.  One   *)
(* that hangs never ends, and its age no longer matters.                   *)
Idle      == [job |-> <<"none", "all">>, age |-> 0, phase |-> "idle"]
NoRuns    == [s \in Slots |-> Idle]
NoRepolls == [d \in Devices |-> <<>>]

Init ==
    /\ wait = Period /\ pending = NoRepolls /\ queue = <<>> /\ threads = NoRuns
    /\ syslog = [d \in Devices |-> {}]
    /\ since = [d \in Devices |-> COOLDOWN]
    /\ listening = TRUE
    /\ silent = [d \in Devices |-> 0]
    /\ slack = [d \in Devices |-> 0]
    /\ restarts = 0

-----------------------------------------------------------------------------
(* APScheduler                                                             *)

Running(j)    == {s \in Slots : threads[s].job = j}
Waiting(j)    == {n \in 1..Len(queue) : queue[n].job = j}
InProgress(j) == Running(j) # {} \/ Waiting(j) # {}
FreeSlots     == {s \in Slots : threads[s] = Idle}
IsCheck(j)    == j[1] \in {"drift-check", "repoll"}
Item(j)       == [job |-> j, late |-> 0]

(* Runs of the jobs J are lost: an interval check among them leaves its    *)
(* device silent for one more interval.                                    *)
Lost(J) == [d \in Devices |->
               IF Check(d) \in J THEN Upto(slack[d] + INTERVAL, Horizon) ELSE slack[d]]

Due == {n \in 1..Len(Registered) : wait[Registered[n]] = 0}

Submitted(j) == queue' = Append(queue, Item(j))

\* Mutant: every job has the same id, and the last one replaces the others.
SubmitLast(n) ==
    LET j == Registered[n]
    IN  /\ n \in Due /\ \A m \in Due : n <= m
        /\ wait' = [wait EXCEPT ![j] = Period[j]]
        /\ IF n = Len(Registered) /\ ~InProgress(j) THEN Submitted(j) ELSE UNCHANGED queue
        /\ UNCHANGED <<pending, threads, input, silent, slack, restarts>>

(* The interval jobs that are due are submitted in the order of their      *)
(* registration, except those whose last run is not over (max_instances),  *)
(* and are due again one period later in any case.                         *)
Submit(n) ==
    LET j == Registered[n]
    IN  /\ n \in Due /\ \A m \in Due : n <= m
        /\ wait' = [wait EXCEPT ![j] = Period[j]]
        /\ IF InProgress(j)
           THEN slack' = Lost({j}) /\ UNCHANGED queue
           ELSE Submitted(j) /\ UNCHANGED slack
        /\ UNCHANGED <<pending, threads, input, silent, restarts>>

(* A one-shot job is due; it leaves the job store.                         *)
SubmitRepoll(d) ==
    /\ pending[d] # <<>> /\ Head(pending[d]) = 0
    /\ pending' = [pending EXCEPT ![d] = Tail(@)]
    /\ Submitted(Repoll(d))
    /\ UNCHANGED <<wait, threads, input, silent, slack, restarts>>

Grace(j) == IF j[1] = "repoll" THEN GRACE ELSE 0

(* A free thread takes the oldest entry; one that is too late is missed.   *)
PickUp ==
    LET item == Head(queue)
        run  == [job |-> item.job, age |-> 0,
                 phase |-> IF IsCheck(item.job) THEN "collect" ELSE "work"]
    IN  /\ queue # <<>>
        /\ queue' = Tail(queue)
        /\ \E slot \in FreeSlots :
              /\ \A s \in FreeSlots : slot <= s
              /\ threads' = IF item.late > Grace(item.job) THEN threads
                            ELSE [threads EXCEPT ![slot] = run]
        /\ UNCHANGED <<wait, pending, input, silent, slack, restarts>>

-----------------------------------------------------------------------------
(* _check_one and run_drift_check                                          *)

Stamped(d) ==
    /\ silent' = [silent EXCEPT ![d] = 0]
    /\ slack' = [slack EXCEPT ![d] = 0]

(* A check commits what it collected, with the stamp.                      *)
Collect(s) ==
    /\ threads[s].phase = "collect"
    /\ threads' = [threads EXCEPT ![s].phase = "fix"]
    /\ Stamped(threads[s].job[2])
    /\ UNCHANGED <<wait, pending, queue, input, restarts>>

(* Anything goes wrong before that: the error is logged and swallowed.     *)
FailCheck(s) ==
    /\ threads[s].phase = "collect"
    /\ threads' = [threads EXCEPT ![s] = Idle]
    /\ slack' = Lost({threads[s].job})
    /\ UNCHANGED <<wait, pending, queue, input, silent, restarts>>

(* The clients of the intent source are called without a timeout: a read   *)
(* of the intent that is never answered leaves the run in its thread, and  *)
(* every later run of its job is skipped.                                  *)
Hang(s) ==
    /\ \/ threads[s].phase = "collect"
       \/ threads[s].phase = "work" /\ threads[s].job[1] = "lifecycle-sync"
    /\ threads' = [threads EXCEPT ![s].phase = "hung", ![s].age = 0]
    /\ slack' = Lost({threads[s].job})
    /\ UNCHANGED <<wait, pending, queue, input, silent, restarts>>

(* Re-polls of d that are pending or submitted, and those that run as well. *)
Ahead(d)       == Len(pending[d]) + Cardinality(Waiting(Repoll(d)))
Outstanding(d) == Ahead(d) + Cardinality(Running(Repoll(d)))

\* Mutant: one re-poll for each fix instead of one for the loop.
MayAskForEach(d) ==
    \/ UNCHANGED pending
    \/ /\ d \in Fixable /\ Ahead(d) < MaxRepolls
       /\ pending' = [pending EXCEPT ![d] = @ \o <<REPOLL_DELAY, REPOLL_DELAY>>]

(* The auto-apply loop of a check: a fix that worked asks for one re-poll, *)
(* whatever started this check.                                            *)
MayAsk(d) ==
    \/ UNCHANGED pending
    \/ /\ d \in Fixable /\ Ahead(d) < MaxRepolls
       /\ pending' = [pending EXCEPT ![d] = Append(@, REPOLL_DELAY)]

(* The end of a check.                                                     *)
Finish(s) ==
    /\ threads[s].phase = "fix"
    /\ threads' = [threads EXCEPT ![s] = Idle]
    /\ MayAsk(threads[s].job[2])
    /\ UNCHANGED <<wait, queue, input, silent, slack, restarts>>

(* The end of a probe, of the SLA evaluation, of retention or of the sync. *)
EndWork(s) ==
    /\ threads[s].phase = "work"
    /\ threads' = [threads EXCEPT ![s] = Idle]
    /\ UNCHANGED <<wait, pending, queue, input, silent, slack, restarts>>

-----------------------------------------------------------------------------
(* SyslogReceiver                                                          *)

(* _ip_map: of the devices with one hostname the last one stays.           *)
ByAddress(a) ==
    Order[CHOOSE n \in 1..Len(Order) :
            /\ Hostname[Order[n]] = a
            /\ \A m \in 1..Len(Order) : Hostname[Order[m]] = a => m <= n]

\* Mutant: the trigger is not remembered.
MessageForgotten(d) ==
    LET e == ByAddress(Hostname[d])
    IN  /\ listening /\ since[e] >= COOLDOWN
        /\ syslog' = [syslog EXCEPT ![e] = @ \cup {<<0, "collect">>}]
        /\ UNCHANGED <<jobs, since, listening, silent, slack, restarts>>

(* _on_message: a message from d's address starts a check in a thread of   *)
(* its own; one within the cooldown, or from elsewhere, is ignored.        *)
Message(d) ==
    LET e == ByAddress(Hostname[d])
    IN  /\ listening /\ since[e] >= COOLDOWN
        /\ since' = [since EXCEPT ![e] = 0]
        /\ syslog' = [syslog EXCEPT ![e] = @ \cup {<<0, "collect">>}]
        /\ UNCHANGED <<jobs, listening, silent, slack, restarts>>

(* _listen: an error of the socket ends the loop.                          *)
ListenerEnds ==
    /\ listening /\ listening' = FALSE
    /\ UNCHANGED <<jobs, syslog, since, silent, slack, restarts>>

(* The check of such a thread: it collects, fails or finishes.  One that   *)
(* hangs is not heard of again, and is as good as failed.                  *)
SyslogCheck(d) ==
    \E t \in syslog[d] :
        /\ \/ /\ t[2] = "collect" /\ Stamped(d)
              /\ syslog' = [syslog EXCEPT ![d] = (@ \ {t}) \cup {<<t[1], "fix">>}]
              /\ UNCHANGED pending
           \/ /\ t[2] = "collect"
              /\ syslog' = [syslog EXCEPT ![d] = @ \ {t}]
              /\ UNCHANGED <<pending, silent, slack>>
           \/ /\ t[2] = "fix" /\ MayAsk(d)
              /\ syslog' = [syslog EXCEPT ![d] = @ \ {t}]
              /\ UNCHANGED <<silent, slack>>
        /\ UNCHANGED <<wait, queue, threads, since, listening, restarts>>

-----------------------------------------------------------------------------
(* Time and restarts                                                       *)

\* Mutant: no run has a limit, device sessions included.
QuietEndless ==
    /\ Due = {}
    /\ \A d \in Devices : pending[d] # <<>> => Head(pending[d]) > 0
    /\ queue # <<>> => FreeSlots = {}

Ages(run) == run.phase \notin {"idle", "hung"}

(* Nothing is due, no free thread has work, no run has reached its limit.  *)
Quiet ==
    /\ Due = {}
    /\ \A d \in Devices : pending[d] # <<>> => Head(pending[d]) > 0
    /\ queue # <<>> => FreeSlots = {}
    /\ \A s \in Slots : threads[s].age < MaxRun \/ ~Ages(threads[s])
    /\ \A d \in Devices : \A t \in syslog[d] : t[1] < MaxRun

OnTime == {n \in 1..Len(queue) : queue[n].late = 0}

(* A run that is still queued after a tick is late, and an interval job's  *)
(* is lost.                                                                *)
Tick ==
    /\ Quiet
    /\ wait' = [j \in Recurring |-> wait[j] - 1]
    /\ pending' = [d \in Devices |-> [n \in 1..Len(pending[d]) |-> pending[d][n] - 1]]
    /\ queue' = [n \in 1..Len(queue) |-> [queue[n] EXCEPT !.late = Upto(@ + 1, GRACE + 1)]]
    /\ threads' = [s \in Slots |-> IF Ages(threads[s]) THEN [threads[s] EXCEPT !.age = @ + 1]
                                   ELSE threads[s]]
    /\ syslog' = [d \in Devices |-> {<<t[1] + 1, t[2]>> : t \in syslog[d]}]
    /\ since' = [d \in Devices |-> Upto(since[d] + 1, COOLDOWN)]
    /\ silent' = [d \in Devices |-> Upto(silent[d] + 1, Horizon)]
    /\ slack' = Lost({queue[n].job : n \in OnTime})
    /\ UNCHANGED <<listening, restarts>>

Uncollected(d) ==
    \/ \E n \in OnTime : queue[n].job = Check(d)
    \/ \E s \in Running(Check(d)) : threads[s].phase = "collect"

(* The job store is in memory: the first run is a whole period away, and   *)
(* a check in progress is lost as well.                                    *)
Restart ==
    /\ restarts < MaxRestarts /\ restarts' = restarts + 1
    /\ wait' = Period /\ pending' = NoRepolls /\ queue' = <<>> /\ threads' = NoRuns
    /\ syslog' = [d \in Devices |-> {}]
    /\ since' = [d \in Devices |-> COOLDOWN]
    /\ listening' = TRUE
    /\ slack' = [d \in Devices |->
                    Upto(slack[d] + (IF Uncollected(d) THEN 2 * INTERVAL ELSE INTERVAL), Horizon)]
    /\ UNCHANGED silent

Progress ==
    \/ Tick \/ PickUp
    \/ \E n \in 1..Len(Registered) : Submit(n)
    \/ \E s \in Slots : Collect(s) \/ FailCheck(s) \/ Finish(s) \/ EndWork(s)
    \/ \E d \in Devices : SubmitRepoll(d) \/ SyslogCheck(d)

Next ==
    \/ Progress
    \/ \E s \in Slots : Hang(s)
    \/ \E d \in Devices : Message(d)
    \/ ListenerEnds \/ Restart

Spec == Init /\ [][Next]_vars

(* Time passes, the scheduler thread and its pool work, and every run that *)
(* does not hang ends; nothing has to hang, nobody has to send a message,  *)
(* and nothing has to restart.                                             *)
FairSpec == Spec /\ WF_vars(Progress)

-----------------------------------------------------------------------------
(* Properties                                                              *)

Phases  == {"idle", "collect", "fix", "work", "hung"}
AllJobs == Recurring \cup {Repoll(d) : d \in Devices} \cup {Idle.job}

(* Every variable has its type.                                            *)
TypeOK ==
    /\ \A j \in Recurring : wait[j] \in 0..Period[j]
    /\ \A d \in Devices : pending[d] \in Seq(0..REPOLL_DELAY)
    /\ queue \in Seq([job : AllJobs, late : 0..(GRACE + 1)])
    /\ threads \in [Slots -> [job : AllJobs, age : 0..MaxRun, phase : Phases]]
    /\ syslog \in [Devices -> SUBSET ((0..MaxRun) \X Phases)]
    /\ since \in [Devices -> 0..COOLDOWN]
    /\ listening \in BOOLEAN
    /\ silent \in [Devices -> 0..Horizon] /\ slack \in [Devices -> 0..Horizon]
    /\ restarts \in 0..MaxRestarts

(* A device is silent for an interval and the length of a check, plus one  *)
(* interval for each of its interval checks that failed, hung, was missed  *)
(* for want of a free thread, was skipped, or was postponed by a restart;  *)
(* so one that answers in time is never silent for longer than the         *)
(* 2 * INTERVAL after which SLA evaluation calls it unreachable.           *)
SilenceIsExplained == \A d \in Devices : silent[d] <= INTERVAL + slack[d] + MaxRun

(* However many messages a device sends, the checks they start and that do *)
(* not hang overlap no more than the cooldown allows.                      *)
MessagesAreThrottled ==
    \A d \in Devices : Cardinality(syslog[d]) <= (MaxRun \div COOLDOWN) + 1

Originals(d) == Cardinality(Running(Check(d))) + Cardinality(syslog[d])

(* A re-poll begets at most one re-poll: a fix that has to be applied again *)
(* and again keeps one chain of re-polls going for each interval or syslog *)
(* check that applied it, and never more.                                  *)
RepollsDoNotMultiply ==
    [][\A d \in Devices : Outstanding(d)' > Outstanding(d) =>
          /\ Outstanding(d)' = Outstanding(d) + 1
          /\ Originals(d)' < Originals(d)]_vars

(* No run of the interval check of d hangs or is picked up too late.       *)
Spared(d) ==
    /\ \A s \in Running(Check(d)) : threads[s].phase # "hung"
    /\ \A n \in Waiting(Check(d)) : queue[n].late = 0

(* Polling goes on: what ends the checks of a device for good is a run of  *)
(* its own check that hangs, or a pool that is short of threads again and  *)
(* again when the check is due.  Other runs that hang, failed checks,      *)
(* re-polls, floods of messages and the end of the listener do not.        *)
PollingGoesOn ==
    \A d \in Devices : (<>[]Spared(d)) => []<>(Running(Check(d)) # {})
=============================================================================

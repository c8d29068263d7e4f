-------------------------- MODULE WebhookDispatcher --------------------------
(***************************************************************************)
(* webhook.WebhookDispatcher: callers enqueue events without blocking, one *)
(* daemon worker posts them.  stop() puts a sentinel behind what is queued *)
(* and waits, for a limited time, for the worker to exit.                  *)
(***************************************************************************)
EXTENDS Integers, Sequences

CONSTANTS
    Enabled,       \* WEBHOOK_URL is set
    Subscribed,    \* WEBHOOK_EVENTS: the event types dispatched
    Types,         \* the event types callers fire
    QueueSize,
    MaxFires,      \* bound: accepted events, which are numbered in order
    MaxStops       \* bound: calls of stop()

ASSUME DispatcherAssumption ==
    /\ Enabled \in BOOLEAN
    /\ Subscribed \subseteq Types
    /\ QueueSize \in Nat \ {0}
    /\ MaxFires \in Nat /\ MaxStops \in Nat

Shutdown == 0          \* the sentinel; events are numbered from 1

VARIABLES
    queue,       \* _queue: event numbers and sentinels
    thread,      \* _thread: "none", or the last worker, "alive" or "dead";
                 \* "killed" once the process has exited
    inHand,      \* the event the worker is posting, 0 when it waits in get()
    control,     \* the thread that starts and stops: "free", "putting", "joining",
                 \* "gone" once the process has exited
    stops,       \* calls of stop() so far
    accepted,    \* history: events enqueued so far
    attempted,   \* history: events posted, in order, whatever came of it
    delivered,   \* history: events answered with a status below 400
    barrier      \* history: events accepted when stop() put its sentinel, 0 if none

vars == <<queue, thread, inHand, control, stops, accepted, attempted, delivered, barrier>>

Init ==
    /\ queue = <<>>
    /\ thread = "none"
    /\ inHand = 0
    /\ control = "free"
    /\ stops = 0
    /\ accepted = 0
    /\ attempted = <<>>
    /\ delivered = {}
    /\ barrier = 0

-----------------------------------------------------------------------------
(* start(): no-op when disabled or when the last worker is still alive.    *)
Start ==
    /\ control = "free"
    /\ Enabled /\ thread # "alive"
    /\ thread' = "alive"
    /\ UNCHANGED <<queue, inHand, control, stops, accepted, attempted, delivered, barrier>>

\* Mutant: the queue is not bounded.
FireUnbounded(t) ==
    /\ Enabled /\ thread # "killed"
    /\ t \in Subscribed /\ accepted < MaxFires
    /\ accepted' = accepted + 1
    /\ queue' = Append(queue, accepted + 1)
    /\ UNCHANGED <<thread, inHand, control, stops, attempted, delivered, barrier>>

\* Mutant: a full queue makes room by dropping its oldest entry.
FireDroppingOldest(t) ==
    /\ Enabled /\ thread # "killed"
    /\ t \in Subscribed /\ accepted < MaxFires
    /\ accepted' = accepted + 1
    /\ queue' = Append(IF Len(queue) < QueueSize THEN queue ELSE Tail(queue), accepted + 1)
    /\ UNCHANGED <<thread, inHand, control, stops, attempted, delivered, barrier>>

(* fire(): put_nowait; a full queue drops the event, as does a disabled    *)
(* dispatcher or an unsubscribed type, without any effect.                 *)
Fire(t) ==
    /\ Enabled /\ thread # "killed"
    /\ t \in Subscribed /\ accepted < MaxFires
    /\ Len(queue) < QueueSize
    /\ accepted' = accepted + 1
    /\ queue' = Append(queue, accepted + 1)
    /\ UNCHANGED <<thread, inHand, control, stops, attempted, delivered, barrier>>

(* stop(): returns at once when no worker was ever started; otherwise it   *)
(* blocks until the sentinel has room, ...                                 *)
Stop ==
    /\ control = "free" /\ stops < MaxStops
    /\ thread # "none"
    /\ control' = "putting"
    /\ stops' = stops + 1
    /\ UNCHANGED <<queue, thread, inHand, accepted, attempted, delivered, barrier>>

PutSentinel ==
    /\ control = "putting"
    /\ Len(queue) < QueueSize
    /\ queue' = Append(queue, Shutdown)
    /\ barrier' = accepted
    /\ control' = "joining"
    /\ UNCHANGED <<thread, inHand, stops, accepted, attempted, delivered>>

(* ... then joins the worker, or gives up at the timeout.  _thread stays.  *)
Join ==
    /\ control = "joining" /\ thread = "dead"
    /\ control' = "free"
    /\ UNCHANGED <<queue, thread, inHand, stops, accepted, attempted, delivered, barrier>>

JoinTimeout ==
    /\ control = "joining" /\ thread = "alive"
    /\ control' = "free"
    /\ UNCHANGED <<queue, thread, inHand, stops, accepted, attempted, delivered, barrier>>

-----------------------------------------------------------------------------
(* The worker: get(), then post.                                           *)

Waiting == thread = "alive" /\ inHand = 0 /\ queue # <<>>

Get ==
    /\ Waiting /\ Head(queue) # Shutdown
    /\ inHand' = Head(queue)
    /\ queue' = Tail(queue)
    /\ UNCHANGED <<thread, control, stops, accepted, attempted, delivered, barrier>>

\* Mutant: the worker leaves as soon as a shutdown is requested.
ExitAtOnce ==
    /\ thread = "alive" /\ inHand = 0
    /\ \E n \in 1..Len(queue) : queue[n] = Shutdown
    /\ thread' = "dead"
    /\ queue' = SelectSeq(queue, LAMBDA x : x # Shutdown)
    /\ UNCHANGED <<inHand, control, stops, accepted, attempted, delivered, barrier>>

Exit ==
    /\ Waiting /\ Head(queue) = Shutdown
    /\ thread' = "dead"
    /\ queue' = Tail(queue)
    /\ UNCHANGED <<inHand, control, stops, accepted, attempted, delivered, barrier>>

\* Mutant: a failed post kills the worker.
PostDies ==
    /\ thread = "alive" /\ inHand # 0
    /\ attempted' = Append(attempted, inHand)
    /\ \/ delivered' = delivered \cup {inHand} /\ UNCHANGED thread
       \/ UNCHANGED delivered /\ thread' = "dead"
    /\ inHand' = 0
    /\ UNCHANGED <<queue, control, stops, accepted, barrier>>

(* _dispatch: a transport error or a status of 400 and more is logged; the *)
(* event is gone either way.                                               *)
Post ==
    /\ thread = "alive" /\ inHand # 0
    /\ attempted' = Append(attempted, inHand)
    /\ \/ delivered' = delivered \cup {inHand}
       \/ UNCHANGED delivered
    /\ inHand' = 0
    /\ UNCHANGED <<queue, thread, control, stops, accepted, barrier>>

Worker == Get \/ Exit \/ Post

(* scheduler.main returns on Ctrl+C: the daemon worker dies with the       *)
(* process, wherever it is.                                                *)
ProcessExit ==
    /\ thread \in {"alive", "dead"}
    /\ thread' = "killed" /\ control' = "gone"
    /\ UNCHANGED <<queue, inHand, stops, accepted, attempted, delivered, barrier>>

Next ==
    \/ Start
    \/ \E t \in Types : Fire(t)
    \/ Stop \/ PutSentinel \/ Join \/ JoinTimeout
    \/ Worker
    \/ ProcessExit

Spec == Init /\ [][Next]_vars

(* The worker thread runs until its sentinel: a post ends with its timeout. *)
FairSpec == Spec /\ WF_vars(Worker)

-----------------------------------------------------------------------------
(* Properties                                                              *)

(* Every variable has its type.                                            *)
TypeOK ==
    /\ queue \in Seq(0..MaxFires) /\ Len(queue) <= QueueSize
    /\ thread \in {"none", "alive", "dead", "killed"}
    /\ inHand \in 0..MaxFires
    /\ control \in {"free", "putting", "joining", "gone"}
    /\ stops \in 0..MaxStops
    /\ accepted \in 0..MaxFires
    /\ attempted \in Seq(1..MaxFires)
    /\ delivered \subseteq 1..MaxFires
    /\ barrier \in 0..MaxFires

Taken   == Len(attempted) + IF inHand = 0 THEN 0 ELSE 1
Waiters == {n \in 1..Len(queue) : queue[n] # Shutdown}

(* Nothing accepted is lost, duplicated or reordered on the way to its one *)
(* post: what was posted, what is in hand and what waits, in this order,   *)
(* are the accepted events.                                                *)
NoLossInOrder ==
    /\ \A n \in 1..Len(attempted) : attempted[n] = n
    /\ inHand \in {0, Taken} /\ Taken <= accepted
    /\ \A m, n \in Waiters : m < n => queue[m] < queue[n]
    /\ {queue[n] : n \in Waiters} = (Taken + 1)..accepted

(* stop() drains: once it has seen the worker exit, everything accepted    *)
(* before its sentinel was posted (tests/test_webhook.py:10-11).           *)
StopDrains ==
    [][control = "joining" /\ control' = "free" /\ thread = "dead" =>
          Len(attempted) >= barrier]_vars

(* While a worker runs and no stop() was called, everything accepted is    *)
(* posted in the end, however many posts fail.                             *)
EverythingIsPosted ==
    \A n \in 1..MaxFires :
        (thread = "alive" /\ accepted = n /\ stops = 0)
            ~> (Len(attempted) >= n \/ stops > 0 \/ thread = "killed")
=============================================================================

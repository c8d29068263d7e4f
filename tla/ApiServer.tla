------------------------------ MODULE ApiServer ------------------------------
(***************************************************************************)
(* The API process around the requests of DriftRetention.  One event loop  *)
(* runs the authentication middleware, which talks to the database without *)
(* ever yielding; handlers run in a pool of threads; the session of a      *)
(* request is closed by the loop once its handler has returned; and both   *)
(* take their connections from one pool, which makes whoever finds it      *)
(* empty wait, up to a timeout.  Keys come from the command line or from   *)
(* requests, and are revoked by requests.                                  *)
(***************************************************************************)
EXTENDS DriftRetention

CONSTANTS
    AUTH,         \* FALSE when NETDRIFT_DISABLE_API_AUTH is set
    Calls,        \* what each client calls: Endpoints, "mint", "revoke", "read"
    Lifetimes,    \* expires_at of a minted key, in ticks or Never
    PoolSize,     \* connections of the engine's pool: 15 by default
    MaxKeys,      \* bound: keys ever created
    MaxBootstrap  \* bound: of them, the first that the command line may create

Never == MaxTime + 1

ASSUME ServerAssumption ==
    /\ AUTH \in BOOLEAN
    /\ Calls \in [Clients -> SUBSET (Endpoints \cup {"mint", "revoke", "read"})]
    /\ Lifetimes \subseteq 0..Never
    /\ PoolSize \in Nat \ {0} /\ MaxKeys \in Nat /\ MaxBootstrap \in Nat

VARIABLES
    keys,      \* api_keys: the rows, [id, expires_at, last_used_at]
    nextKey,
    req        \* where each client's request is, and under which key

server == <<keys, nextKey, req>>
all    == <<vars, server>>

Ops      == Endpoints \cup {"mint", "revoke", "read"}
NoReq    == [phase |-> "none", op |-> "read", key |-> 0, at |-> 0, valid |-> FALSE]
Enter(c, phase) == req' = [req EXCEPT ![c].phase = phase]
Admit(c)        == req' = [req EXCEPT ![c] = [@ EXCEPT !.phase = "admitted", !.key = 0, !.at = 0]]
Respond(c)      == req' = [req EXCEPT ![c] = NoReq]

In(phases)  == {c \in Clients : req[c].phase \in phases}

(* The loop is inside the middleware of a request and does nothing else.   *)
LoopIsFree  == In({"connecting", "checked"}) = {}

(* Sessions in a transaction have a connection.                            *)
Connections == In({"checked", "applying", "closing"})
PoolIsEmpty == Cardinality(Connections) >= PoolSize

Row(k)      == {r \in keys : r.id = k}
Valid(k)    == \E r \in Row(k) : now < r.expires_at

ApiInit ==
    /\ Init
    /\ keys = {} /\ nextKey = 1
    /\ req = [c \in Clients |-> NoReq]

-----------------------------------------------------------------------------
(* create_api_key: a key that nobody has used.                             *)
NewKey(expires_at) ==
    /\ nextKey <= MaxKeys
    /\ keys' = keys \cup {[id |-> nextKey, expires_at |-> expires_at, last_used_at |-> -1]}
    /\ nextKey' = nextKey + 1

(* driftcheck create-api-key                                               *)
Bootstrap == nextKey <= MaxBootstrap /\ NewKey(Never) /\ UNCHANGED <<vars, req>>

(* A request, with any key there ever was; 0 stands for none and for a     *)
(* guess.                                                                  *)
Arrive(c, op, k) ==
    /\ req[c].phase = "none" /\ k < nextKey
    /\ req' = [req EXCEPT ![c] = [phase |-> "arrived", op |-> op, key |-> k, at |-> 0,
                                  valid |-> Valid(k)]]
    /\ UNCHANGED <<vars, keys, nextKey>>

\* Mutant: the middleware is a function of its own thread.
MiddlewareInThread(c) ==
    /\ req[c].phase = "arrived"
    /\ IF req[c].op = "read" \/ ~AUTH
       THEN Admit(c)
       ELSE req' = [req EXCEPT ![c].phase = "connecting", ![c].at = now]
    /\ UNCHANGED <<vars, keys, nextKey>>

(* require_api_key begins: reads pass, and so does everything when the     *)
(* check is turned off; for the others verify_api_key reads the clock and  *)
(* needs a connection.                                                     *)
Middleware(c) ==
    /\ req[c].phase = "arrived" /\ LoopIsFree
    /\ IF req[c].op = "read" \/ ~AUTH
       THEN Admit(c)
       ELSE req' = [req EXCEPT ![c].phase = "connecting", ![c].at = now]
    /\ UNCHANGED <<vars, keys, nextKey>>

\* Mutant: a key is still good at the instant it expires.
SelectLenient(c) ==
    /\ req[c].phase = "connecting" /\ ~PoolIsEmpty
    /\ IF \E r \in Row(req[c].key) : req[c].at <= r.expires_at
       THEN Enter(c, "checked") ELSE Respond(c)
    /\ UNCHANGED <<vars, keys, nextKey>>

(* The SELECT by hash; no row or one that has expired is a 401.            *)
SelectKey(c) ==
    /\ req[c].phase = "connecting" /\ ~PoolIsEmpty
    /\ IF \E r \in Row(req[c].key) : req[c].at < r.expires_at
       THEN Enter(c, "checked") ELSE Respond(c)
    /\ UNCHANGED <<vars, keys, nextKey>>

(* The UPDATE of last_used_at and the commit.  The row may be gone by now: *)
(* SQLAlchemy raises, and the client gets a 500.                           *)
StampKey(c) ==
    LET k == req[c].key
    IN  /\ req[c].phase = "checked"
        /\ keys' = {IF r.id = k THEN [r EXCEPT !.last_used_at = req[c].at] ELSE r : r \in keys}
        /\ IF Row(k) = {} THEN Respond(c) ELSE Admit(c)
        /\ UNCHANGED <<vars, nextKey>>

\* Mutant: the pool has no timeout.
TimeoutNever(c) ==
    /\ PoolIsEmpty /\ req[c].phase = "admitted"
    /\ Respond(c)
    /\ UNCHANGED <<vars, keys, nextKey>>

(* The pool stays empty until the timeout: a 500 for whoever waits.        *)
PoolTimeout(c) ==
    /\ PoolIsEmpty /\ req[c].phase \in {"connecting", "admitted", "reloading"}
    /\ Respond(c)
    /\ UNCHANGED <<vars, keys, nextKey>>

-----------------------------------------------------------------------------
(* The handlers.  Each takes a connection for its first query.             *)

Starts(c, op) == req[c].phase = "admitted" /\ req[c].op = op /\ ~PoolIsEmpty

(* A GET, or a request that ends in a 404, a 422 or an error after its     *)
(* first query: the session keeps its connection until it is closed.       *)
Refuse(c) ==
    /\ \E op \in Ops : Starts(c, op)
    /\ Enter(c, "closing")
    /\ UNCHANGED <<vars, keys, nextKey>>

(* POST /api-keys commits, then reads the new row again for its answer.    *)
Mint(c) ==
    /\ Starts(c, "mint")
    /\ \E expires_at \in Lifetimes : NewKey(expires_at)
    /\ Enter(c, "reloading")
    /\ UNCHANGED vars

(* DELETE /api-keys/{id}: any key, its own and the last one included.      *)
Revoke(c) ==
    /\ Starts(c, "revoke")
    /\ \E r \in keys : keys' = keys \ {r}
    /\ Respond(c)
    /\ UNCHANGED <<vars, nextKey>>

(* A dry-run or an apply: the transaction stays open while the applier     *)
(* talks to the device.                                                    *)
StartFix(c) ==
    /\ \E op \in Endpoints : Starts(c, op) /\ \E e \in drifts : Load(c, op, e)
    /\ Enter(c, "applying")
    /\ UNCHANGED <<keys, nextKey>>

(* ... and its audit event is committed.  An apply then reads the drift    *)
(* event again for the webhook; a failed INSERT leaves the transaction     *)
(* open.                                                                   *)
EndFix(c) ==
    /\ req[c].phase = "applying" /\ Record(c)
    /\ IF call[c].drift \notin Ids THEN Enter(c, "closing")
       ELSE IF call[c].op = "apply" THEN Enter(c, "reloading")
       ELSE Respond(c)
    /\ UNCHANGED <<keys, nextKey>>

(* A dry run fails: a 502, with the transaction open.                      *)
FailFix(c) ==
    /\ req[c].phase = "applying" /\ FailDryRun(c)
    /\ Enter(c, "closing")
    /\ UNCHANGED <<keys, nextKey>>

(* The rows that the commit expired are read again.                        *)
Reload(c) ==
    /\ req[c].phase = "reloading" /\ ~PoolIsEmpty
    /\ Enter(c, "closing")
    /\ UNCHANGED <<vars, keys, nextKey>>

(* get_session is resumed, by the loop, and closes the session.            *)
Close(c) ==
    /\ req[c].phase = "closing" /\ LoopIsFree
    /\ Respond(c)
    /\ UNCHANGED <<vars, keys, nextKey>>

-----------------------------------------------------------------------------
(* What goes on outside the API.                                           *)
Outside ==
    /\ Tick \/ SaveDrifts \/ BeginRetention \/ DeleteOlder
    /\ UNCHANGED server

Handler(c) ==
    \/ Refuse(c) \/ Mint(c) \/ Revoke(c) \/ Reload(c)
    \/ StartFix(c) \/ EndFix(c) \/ FailFix(c)

(* What the loop does about c before it does anything else.                *)
Verify(c) == SelectKey(c) \/ StampKey(c) \/ (req[c].phase = "connecting" /\ PoolTimeout(c))

ApiNext ==
    \/ Outside \/ Bootstrap
    \/ \E c \in Clients :
          \/ \E op \in Calls[c] : \E k \in 0..MaxKeys : Arrive(c, op, k)
          \/ Middleware(c) \/ SelectKey(c) \/ StampKey(c) \/ PoolTimeout(c)
          \/ Handler(c) \/ Close(c)

ApiSpec == ApiInit /\ [][ApiNext]_all

(* The loop goes on with what it has begun; the retention job is an        *)
(* interval job.  Devices and clients may be slow for ever.                *)
ApiFairSpec ==
    /\ ApiSpec
    /\ WF_all(\E c \in Clients : Verify(c))
    /\ WF_all(BeginRetention /\ UNCHANGED server) /\ WF_all(DeleteOlder /\ UNCHANGED server)

-----------------------------------------------------------------------------
(* Properties                                                              *)

Phases == {"none", "arrived", "connecting", "checked", "admitted", "applying", "reloading",
           "closing"}

(* Every variable of the server has its type.                              *)
ServerTypes ==
    /\ keys \subseteq [id : 1..MaxKeys, expires_at : 0..Never, last_used_at : -1..MaxTime]
    /\ nextKey \in 1..(MaxKeys + 1)
    /\ req \in [Clients -> [phase : Phases, op : Ops, key : 0..MaxKeys,
                            at : 0..MaxTime, valid : BOOLEAN]]

(* A revoked or expired key is refused on the very next request: whatever  *)
(* a handler was started for came with a key that was good when it came,   *)
(* although the middleware looks later, in two steps, with the clock going *)
(* on and revocations committed in between.                                *)
RevokedIsOut ==
    AUTH => \A c \in In({"admitted", "applying", "reloading", "closing"}) :
               req[c].op # "read" => req[c].valid

(* last_used_at of a key never goes back, for the loop verifies one        *)
(* request at a time, from reading the clock to the commit.                *)
StampsNeverGoBack ==
    [][\A r \in keys : \A s \in keys' : r.id = s.id => r.last_used_at <= s.last_used_at]_all

(* The loop may block on a pool whose connections all wait for the loop to *)
(* close their sessions, but never beyond the timeout: it is freed again   *)
(* and again, however long the devices keep the other handlers.            *)
LoopIsFreed == []<>LoopIsFree
=============================================================================

------------------------ MODULE DriftRetentionProofs ------------------------
(* Theorems about DriftRetention and about the ApiServer around it, for    *)
(* all bounds and numbers of clients.                                      *)
EXTENDS ApiServer, TLAPS

(* Every variable keeps its type.                                          *)
THEOREM RetentionTypes == Spec => []TypeOK
<1> USE RetentionAssumption DEF TypeOK, Request
<1>1. Init => TypeOK
  BY DEF Init, NoCall
<1>2. TypeOK /\ [Next]_vars => TypeOK'
  <2> SUFFICES ASSUME TypeOK, [Next]_vars PROVE TypeOK'
    OBVIOUS
  <2>1. CASE Tick
    BY <2>1 DEF Tick
  <2>2. CASE SaveDrifts
    BY <2>2 DEF SaveDrifts
  <2>3. CASE BeginRetention
    BY <2>3 DEF BeginRetention
  <2>4. CASE DeleteOlder
    BY <2>4 DEF DeleteOlder, Doomed
  <2>5. ASSUME NEW c \in Clients, NEW op \in Endpoints, NEW e \in drifts, Load(c, op, e)
        PROVE  TypeOK'
    <3>1. [op |-> op, drift |-> e.id, n |-> requests + 1] \in Request
      BY <2>5 DEF Load
    <3> QED  BY <2>5, <3>1 DEF Load
  <2>6. ASSUME NEW c \in Clients, Record(c)  PROVE  TypeOK'
    BY <2>6 DEF Record, NoCall
  <2>7. ASSUME NEW c \in Clients, FailDryRun(c)  PROVE  TypeOK'
    BY <2>7 DEF FailDryRun, NoCall
  <2>8. CASE UNCHANGED vars
    BY <2>8 DEF vars
  <2> QED  BY <2>1, <2>2, <2>3, <2>4, <2>5, <2>6, <2>7, <2>8 DEF Next
<1> QED  BY <1>1, <1>2, PTL DEF Spec

(* Only the retention job takes drift events away, and audit events are    *)
(* only added, each for a drift event that is there.                       *)
LEMMA RetentionMoves ==
  ASSUME [Next]_vars
  PROVE  \/ DeleteOlder
         \/ /\ drifts \subseteq drifts'
            /\ Referenced' \subseteq Referenced \cup Ids
<1>1. CASE Tick \/ BeginRetention \/ UNCHANGED vars
  BY <1>1 DEF Tick, BeginRetention, vars, Referenced
<1>2. CASE SaveDrifts
  BY <1>2 DEF SaveDrifts, Referenced
<1>3. ASSUME NEW c \in Clients, NEW op \in Endpoints, NEW e \in drifts, Load(c, op, e)
      PROVE  drifts' = drifts /\ Referenced' = Referenced
  BY <1>3 DEF Load, Referenced
<1>4. ASSUME NEW c \in Clients, Record(c)
      PROVE  drifts' = drifts /\ Referenced' \subseteq Referenced \cup Ids
  BY <1>4 DEF Record, Referenced
<1>5. ASSUME NEW c \in Clients, FailDryRun(c)
      PROVE  drifts' = drifts /\ Referenced' = Referenced
  BY <1>5 DEF FailDryRun, Referenced
<1> QED  BY <1>1, <1>2, <1>3, <1>4, <1>5 DEF Next

(* The drift event of an audit event is kept, for any number of requests,  *)
(* however long they take and whenever the retention job runs.             *)
THEOREM AuditedIsKept == Spec => []AuditedDriftIsKept
<1>1. Init => AuditedDriftIsKept
  BY DEF Init, AuditedDriftIsKept, Referenced
<1>2. AuditedDriftIsKept /\ [Next]_vars => AuditedDriftIsKept'
  <2> SUFFICES ASSUME AuditedDriftIsKept, [Next]_vars, NEW r \in Referenced'
               PROVE  r \in Ids'
    BY DEF AuditedDriftIsKept
  <2>1. CASE DeleteOlder
    <3>1. r \in Referenced
      BY <2>1 DEF DeleteOlder, Referenced
    <3>2. PICK e \in drifts : e.id = r
      BY <3>1 DEF AuditedDriftIsKept, Ids
    <3>3. e \in drifts'
      BY <2>1, <3>1, <3>2 DEF DeleteOlder, Doomed
    <3> QED  BY <3>2, <3>3 DEF Ids
  <2>2. CASE drifts \subseteq drifts' /\ Referenced' \subseteq Referenced \cup Ids
    BY <2>2 DEF AuditedDriftIsKept, Ids
  <2> QED  BY <2>1, <2>2, RetentionMoves
<1> QED  BY <1>1, <1>2, PTL DEF Spec

-----------------------------------------------------------------------------
(* The server                                                              *)

(* Every step of the server is a step of the pruning model or leaves its   *)
(* variables alone.                                                        *)
LEMMA ServerStep == [ApiNext]_all => [Next]_vars
<1> SUFFICES ASSUME [ApiNext]_all PROVE [Next]_vars
  OBVIOUS
<1>1. CASE Outside
  BY <1>1 DEF Outside, Next
<1>2. CASE Bootstrap
  BY <1>2 DEF Bootstrap
<1>3. ASSUME NEW c \in Clients, NEW op \in Calls[c], NEW k \in 0..MaxKeys, Arrive(c, op, k)
      PROVE  UNCHANGED vars
  BY <1>3 DEF Arrive
<1>4. ASSUME NEW c \in Clients, Middleware(c) \/ SelectKey(c) \/ StampKey(c) \/ PoolTimeout(c)
      PROVE  UNCHANGED vars
  BY <1>4 DEF Middleware, SelectKey, StampKey, PoolTimeout
<1>5. ASSUME NEW c \in Clients, Refuse(c) \/ Mint(c) \/ Revoke(c) \/ Reload(c) \/ Close(c)
      PROVE  UNCHANGED vars
  BY <1>5 DEF Refuse, Mint, Revoke, Reload, Close
<1>6. ASSUME NEW c \in Clients, StartFix(c) \/ EndFix(c) \/ FailFix(c)
      PROVE  Next
  BY <1>6 DEF StartFix, EndFix, FailFix, Next
<1>7. CASE UNCHANGED all
  BY <1>7 DEF all
<1> QED  BY <1>1, <1>2, <1>3, <1>4, <1>5, <1>6, <1>7 DEF ApiNext, Handler

(* To retention, the server is the clients of DriftRetention: what is      *)
(* proved of Spec holds behind the middleware, the pool and the keys.      *)
THEOREM ServerServes == ApiSpec => Spec
<1>1. ApiInit => Init
  BY DEF ApiInit
<1> QED  BY <1>1, ServerStep, PTL DEF ApiSpec, Spec

(* A request, and the three ways in which a step changes one.              *)
Asked == [phase : Phases, op : Ops, key : 0..MaxKeys, at : 0..MaxTime, valid : BOOLEAN]

LEMMA EnterTyped ==
    ASSUME req \in [Clients -> Asked], NEW c \in Clients, NEW phase \in Phases, Enter(c, phase)
    PROVE  req' \in [Clients -> Asked]
<1>1. [req[c] EXCEPT !.phase = phase] \in Asked
  BY DEF Asked
<1>2. req' = [req EXCEPT ![c] = [req[c] EXCEPT !.phase = phase]]
  BY DEF Enter
<1> QED  BY <1>1, <1>2

LEMMA AdmitTyped ==
    ASSUME req \in [Clients -> Asked], NEW c \in Clients, Admit(c)
    PROVE  req' \in [Clients -> Asked]
<1>1. [req[c] EXCEPT !.phase = "admitted", !.key = 0, !.at = 0] \in Asked
  <2>1. 0 \in 0..MaxKeys /\ 0 \in 0..MaxTime
    BY ServerAssumption, RetentionAssumption
  <2>2. "admitted" \in Phases
    BY DEF Phases
  <2> QED  BY <2>1, <2>2 DEF Asked
<1>2. req' = [req EXCEPT ![c] = [req[c] EXCEPT !.phase = "admitted", !.key = 0, !.at = 0]]
  BY DEF Admit
<1> QED  BY <1>1, <1>2

LEMMA RespondTyped ==
    ASSUME req \in [Clients -> Asked], NEW c \in Clients, Respond(c)
    PROVE  req' \in [Clients -> Asked]
<1>1. NoReq \in Asked
  BY ServerAssumption, RetentionAssumption DEF NoReq, Asked, Phases, Ops
<1> QED  BY <1>1 DEF Respond

LEMMA NewKeyTyped ==
    ASSUME keys \subseteq [id : 1..MaxKeys, expires_at : 0..Never, last_used_at : -1..MaxTime],
           nextKey \in 1..(MaxKeys + 1), NEW expires_at \in 0..Never, NewKey(expires_at)
    PROVE  /\ keys' \subseteq [id : 1..MaxKeys, expires_at : 0..Never, last_used_at : -1..MaxTime]
           /\ nextKey' \in 1..(MaxKeys + 1)
<1>1. nextKey \in 1..MaxKeys /\ -1 \in -1..MaxTime
  BY ServerAssumption, RetentionAssumption DEF NewKey
<1>2. nextKey' \in 1..(MaxKeys + 1)
  BY <1>1, ServerAssumption DEF NewKey
<1> QED  BY <1>1, <1>2 DEF NewKey

(* Every variable of the server has its type.                              *)
THEOREM ServerTypesHold == ApiSpec => [](TypeOK /\ ServerTypes)
<1>1. ApiSpec => []TypeOK
  BY ServerServes, RetentionTypes
<1>2. ApiInit => ServerTypes
  <2> SUFFICES ASSUME ApiInit PROVE ServerTypes
    OBVIOUS
  <2>1. NoReq \in Asked
    BY ServerAssumption, RetentionAssumption DEF NoReq, Asked, Phases, Ops
  <2> QED  BY <2>1, ServerAssumption DEF ApiInit, ServerTypes, Asked
<1>3. TypeOK /\ ServerTypes /\ [ApiNext]_all => ServerTypes'
  <2> SUFFICES ASSUME TypeOK, ServerTypes, [ApiNext]_all PROVE ServerTypes'
    OBVIOUS
  <2> DEFINE Rows == [id : 1..MaxKeys, expires_at : 0..Never, last_used_at : -1..MaxTime]
  <2>0. /\ req \in [Clients -> Asked] /\ keys \subseteq Rows /\ nextKey \in 1..(MaxKeys + 1)
        /\ now \in 0..MaxTime
    BY DEF ServerTypes, Asked, TypeOK
  <2>q. SUFFICES /\ req' \in [Clients -> Asked] /\ keys' \subseteq Rows
                 /\ nextKey' \in 1..(MaxKeys + 1)
    BY DEF ServerTypes, Asked
  <2> HIDE DEF Rows
  <2>1. CASE Outside \/ UNCHANGED all
    BY <2>0, <2>1 DEF Outside, all, server
  <2>2. CASE Bootstrap
    <3>1. Never \in 0..Never
      BY RetentionAssumption DEF Never
    <3> QED  BY <2>0, <2>2, <3>1, NewKeyTyped DEF Bootstrap, Rows
  <2>3. ASSUME NEW c \in Clients, NEW op \in Calls[c], NEW k \in 0..MaxKeys, Arrive(c, op, k)
        PROVE  /\ req' \in [Clients -> Asked] /\ keys' \subseteq Rows
               /\ nextKey' \in 1..(MaxKeys + 1)
    <3>1. op \in Ops
      BY ServerAssumption DEF Ops
    <3>2. [phase |-> "arrived", op |-> op, key |-> k, at |-> 0, valid |-> Valid(k)] \in Asked
      BY <3>1, RetentionAssumption DEF Asked, Phases, Valid
    <3> QED  BY <2>0, <2>3, <3>2 DEF Arrive
  <2>4. ASSUME NEW c \in Clients, Middleware(c)
        PROVE  /\ req' \in [Clients -> Asked] /\ keys' \subseteq Rows
               /\ nextKey' \in 1..(MaxKeys + 1)
    <3>1. CASE Admit(c)
      BY <2>0, <2>4, <3>1, AdmitTyped DEF Middleware
    <3>2. CASE req' = [req EXCEPT ![c].phase = "connecting", ![c].at = now]
      <4>1. [req[c] EXCEPT !.phase = "connecting", !.at = now] \in Asked
        BY <2>0 DEF Asked, Phases
      <4>2. req' = [req EXCEPT ![c] = [req[c] EXCEPT !.phase = "connecting", !.at = now]]
        BY <3>2
      <4> QED  BY <2>0, <2>4, <4>1, <4>2 DEF Middleware
    <3> QED  BY <2>4, <3>1, <3>2 DEF Middleware
  <2>5. ASSUME NEW c \in Clients,
               SelectKey(c) \/ PoolTimeout(c) \/ Refuse(c) \/ Reload(c) \/ Close(c)
        PROVE  /\ req' \in [Clients -> Asked] /\ keys' \subseteq Rows
               /\ nextKey' \in 1..(MaxKeys + 1)
    <3>1. Enter(c, "checked") \/ Enter(c, "closing") \/ Respond(c)
      BY <2>5 DEF SelectKey, PoolTimeout, Refuse, Reload, Close
    <3>2. UNCHANGED <<keys, nextKey>>
      BY <2>5 DEF SelectKey, PoolTimeout, Refuse, Reload, Close
    <3> QED  BY <2>0, <3>1, <3>2, EnterTyped, RespondTyped DEF Phases
  <2>6. ASSUME NEW c \in Clients, StampKey(c)
        PROVE  /\ req' \in [Clients -> Asked] /\ keys' \subseteq Rows
               /\ nextKey' \in 1..(MaxKeys + 1)
    <3>1. \A r \in keys : [r EXCEPT !.last_used_at = req[c].at] \in Rows
      BY <2>0, RetentionAssumption DEF Asked, Rows
    <3>2. keys' \subseteq Rows
      BY <2>0, <2>6, <3>1 DEF StampKey
    <3>3. req' \in [Clients -> Asked]
      BY <2>0, <2>6, AdmitTyped, RespondTyped DEF StampKey
    <3> QED  BY <2>0, <2>6, <3>2, <3>3 DEF StampKey
  <2>7. ASSUME NEW c \in Clients, Mint(c)
        PROVE  /\ req' \in [Clients -> Asked] /\ keys' \subseteq Rows
               /\ nextKey' \in 1..(MaxKeys + 1)
    <3>1. PICK expires_at \in Lifetimes : NewKey(expires_at)
      BY <2>7 DEF Mint
    <3>2. expires_at \in 0..Never
      BY ServerAssumption
    <3>3. req' \in [Clients -> Asked]
      BY <2>0, <2>7, EnterTyped DEF Mint, Phases
    <3> QED  BY <2>0, <3>1, <3>2, <3>3, NewKeyTyped DEF Rows
  <2>8. ASSUME NEW c \in Clients, Revoke(c)
        PROVE  /\ req' \in [Clients -> Asked] /\ keys' \subseteq Rows
               /\ nextKey' \in 1..(MaxKeys + 1)
    BY <2>0, <2>8, RespondTyped DEF Revoke
  <2>9. ASSUME NEW c \in Clients, StartFix(c) \/ EndFix(c) \/ FailFix(c)
        PROVE  /\ req' \in [Clients -> Asked] /\ keys' \subseteq Rows
               /\ nextKey' \in 1..(MaxKeys + 1)
    <3>1. \/ Enter(c, "applying") \/ Enter(c, "closing") \/ Enter(c, "reloading")
          \/ Respond(c)
      BY <2>9 DEF StartFix, EndFix, FailFix
    <3>2. UNCHANGED <<keys, nextKey>>
      BY <2>9 DEF StartFix, EndFix, FailFix
    <3> QED  BY <2>0, <3>1, <3>2, EnterTyped, RespondTyped DEF Phases
  <2> QED  BY <2>1, <2>2, <2>3, <2>4, <2>5, <2>6, <2>7, <2>8, <2>9 DEF ApiNext, Handler
<1> QED  BY <1>1, <1>2, <1>3, PTL DEF ApiSpec

(* Rows of api_keys keep their expiry, ids are not used again, and the     *)
(* clock does not go back.                                                 *)
LEMMA RowsLast ==
    ASSUME TypeOK, ServerTypes, [ApiNext]_all
    PROVE  /\ now <= now' /\ nextKey <= nextKey'
           /\ \A s \in keys' : s.id < nextKey =>
                 \E r \in keys : r.id = s.id /\ r.expires_at = s.expires_at
<1>1. now <= now'
  <2>1. CASE Tick
    BY <2>1 DEF Tick, TypeOK
  <2>2. ~Tick /\ [Next]_vars => now' = now
    BY DEF Next, vars, SaveDrifts, BeginRetention, DeleteOlder, Load, Record, FailDryRun
  <2> QED  BY <2>1, <2>2, ServerStep DEF TypeOK
<1>2. ASSUME NEW x, NewKey(x)
      PROVE  /\ nextKey <= nextKey'
             /\ \A s \in keys' : s.id < nextKey => s \in keys
  BY <1>2 DEF NewKey, ServerTypes
<1>3. CASE Bootstrap
  BY <1>1, <1>2, <1>3 DEF Bootstrap
<1>4. ASSUME NEW c \in Clients, Mint(c)
      PROVE  /\ nextKey <= nextKey'
             /\ \A s \in keys' : s.id < nextKey => s \in keys
  BY <1>2, <1>4 DEF Mint
<1>5. ASSUME NEW c \in Clients, Revoke(c)
      PROVE  nextKey <= nextKey' /\ keys' \subseteq keys
  BY <1>5 DEF Revoke, ServerTypes
<1>6. ASSUME NEW c \in Clients, StampKey(c)
      PROVE  /\ nextKey <= nextKey'
             /\ \A s \in keys' :
                   \E r \in keys : r.id = s.id /\ r.expires_at = s.expires_at
  BY <1>6 DEF StampKey, ServerTypes
<1>7. \/ Bootstrap \/ \E c \in Clients : Mint(c) \/ Revoke(c) \/ StampKey(c)
      \/ UNCHANGED <<keys, nextKey>>
  BY DEF ApiNext, Handler, Outside, server, all, Arrive, Middleware, SelectKey, PoolTimeout,
         Refuse, Reload, StartFix, EndFix, FailFix, Close
<1>8. CASE UNCHANGED <<keys, nextKey>>
  BY <1>1, <1>8 DEF ServerTypes
<1> QED  BY <1>1, <1>3, <1>4, <1>5, <1>6, <1>7, <1>8

(* A step answers a request, lets one in, or takes it one phase further.   *)
Begun == {"checked", "admitted", "applying", "reloading", "closing"}

LEMMA RequestMoves ==
    ASSUME ServerTypes, [ApiNext]_all, NEW c \in Clients
    PROVE  \/ req'[c] = req[c]
           \/ req'[c] = NoReq
           \/ \E op \in Ops : \E k \in 0..MaxKeys :
                 /\ k < nextKey /\ UNCHANGED <<now, keys>>
                 /\ req'[c] = [phase |-> "arrived", op |-> op, key |-> k, at |-> 0,
                               valid |-> Valid(k)]
           \/ /\ req[c].phase = "arrived" /\ (req[c].op = "read" \/ ~AUTH)
              /\ req'[c].op = req[c].op /\ req'[c].phase = "admitted"
           \/ /\ req[c].phase = "arrived" /\ LoopIsFree /\ UNCHANGED <<now, keys>>
              /\ req'[c] = [req[c] EXCEPT !.phase = "connecting", !.at = now]
              /\ \A d \in Clients \ {c} : req'[d] = req[d]
           \/ /\ req[c].phase = "connecting" /\ UNCHANGED <<now, keys>>
              /\ \E r \in Row(req[c].key) : req[c].at < r.expires_at
              /\ req'[c] = [req[c] EXCEPT !.phase = "checked"]
           \/ /\ req[c].phase \in Begun /\ req'[c].phase \in Begun \ {"checked"}
              /\ req'[c].op = req[c].op /\ req'[c].valid = req[c].valid
<1> USE DEF ServerTypes
<1>1. CASE Outside \/ Bootstrap \/ UNCHANGED all
  BY <1>1 DEF Outside, Bootstrap, server, all
<1>2. ASSUME NEW d \in Clients, Admit(d)
      PROVE  \/ req'[c] = req[c]
             \/ /\ d = c /\ req'[c].phase = "admitted"
                /\ req'[c].op = req[c].op /\ req'[c].valid = req[c].valid
  <2>1. req' = [req EXCEPT ![d] = [req[d] EXCEPT !.phase = "admitted", !.key = 0, !.at = 0]]
    BY <1>2 DEF Admit
  <2>2. CASE d = c
    BY <2>1, <2>2
  <2>3. CASE d # c
    BY <2>1, <2>3
  <2> QED  BY <2>2, <2>3
<1>3. ASSUME NEW d \in Clients, NEW op \in Calls[d], NEW k \in 0..MaxKeys, Arrive(d, op, k)
      PROVE  \/ req'[c] = req[c]
             \/ /\ op \in Ops /\ k < nextKey /\ UNCHANGED <<now, keys>>
                /\ req'[c] = [phase |-> "arrived", op |-> op, key |-> k, at |-> 0,
                              valid |-> Valid(k)]
  BY <1>3, ServerAssumption DEF Arrive, vars, Ops
<1>4. ASSUME NEW d \in Clients, Middleware(d)
      PROVE  \/ req'[c] = req[c]
             \/ /\ req[c].phase = "arrived" /\ (req[c].op = "read" \/ ~AUTH)
                /\ req'[c].op = req[c].op /\ req'[c].phase = "admitted"
             \/ /\ req[c].phase = "arrived" /\ LoopIsFree /\ UNCHANGED <<now, keys>>
                /\ req'[c] = [req[c] EXCEPT !.phase = "connecting", !.at = now]
                /\ \A e \in Clients \ {c} : req'[e] = req[e]
  <2>1. CASE Admit(d)
    BY <1>2, <1>4, <2>1 DEF Middleware
  <2>2. CASE req' = [req EXCEPT ![d].phase = "connecting", ![d].at = now]
    <3>1. req' = [req EXCEPT ![d] = [req[d] EXCEPT !.phase = "connecting", !.at = now]]
      BY <2>2
    <3>2. \A e \in Clients \ {d} : req'[e] = req[e]
      BY <3>1
    <3>3. req'[d] = [req[d] EXCEPT !.phase = "connecting", !.at = now]
      BY <3>1
    <3>4. req[d].phase = "arrived" /\ LoopIsFree /\ UNCHANGED <<now, keys>>
      BY <1>4 DEF Middleware, vars
    <3>5. CASE c = d
      BY <3>2, <3>3, <3>4, <3>5
    <3>6. CASE c # d
      BY <3>2, <3>6
    <3> QED  BY <3>5, <3>6
  <2> QED  BY <1>4, <2>1, <2>2 DEF Middleware
<1>5. ASSUME NEW d \in Clients, SelectKey(d)
      PROVE  \/ req'[c] = req[c]
             \/ req'[c] = NoReq
             \/ /\ req[c].phase = "connecting" /\ UNCHANGED <<now, keys>>
                /\ \E r \in Row(req[c].key) : req[c].at < r.expires_at
                /\ req'[c] = [req[c] EXCEPT !.phase = "checked"]
  BY <1>5 DEF SelectKey, Enter, Respond, vars
<1>6. ASSUME NEW d \in Clients, PoolTimeout(d) \/ Revoke(d) \/ Close(d)
      PROVE  req'[c] = req[c] \/ req'[c] = NoReq
  BY <1>6 DEF PoolTimeout, Revoke, Close, Respond
<1>7. ASSUME NEW d \in Clients, StampKey(d)
      PROVE  \/ req'[c] = req[c]
             \/ req'[c] = NoReq
             \/ /\ req[c].phase \in Begun /\ req'[c].phase \in Begun \ {"checked"}
                /\ req'[c].op = req[c].op /\ req'[c].valid = req[c].valid
  <2>1. req[d].phase = "checked" /\ (Admit(d) \/ Respond(d))
    BY <1>7 DEF StampKey
  <2>2. CASE Admit(d)
    BY <1>2, <2>1, <2>2 DEF Begun
  <2>3. CASE Respond(d)
    BY <2>3 DEF Respond
  <2> QED  BY <2>1, <2>2, <2>3
<1>8. ASSUME NEW d \in Clients,
             \/ Refuse(d) \/ Mint(d) \/ StartFix(d) \/ EndFix(d) \/ FailFix(d) \/ Reload(d)
      PROVE  \/ req'[c] = req[c]
             \/ req'[c] = NoReq
             \/ /\ req[c].phase \in Begun /\ req'[c].phase \in Begun \ {"checked"}
                /\ req'[c].op = req[c].op /\ req'[c].valid = req[c].valid
  <2>1. /\ req[d].phase \in Begun
        /\ \/ Enter(d, "closing") \/ Enter(d, "reloading") \/ Enter(d, "applying")
           \/ Respond(d)
    BY <1>8 DEF Refuse, Mint, StartFix, EndFix, FailFix, Reload, Starts, Begun
  <2> QED  BY <2>1 DEF Enter, Respond, Begun
<1> QED  BY ZenonT(30), <1>1, <1>3, <1>4, <1>5, <1>6, <1>7, <1>8 DEF ApiNext, Handler

(* What the server has found out about the key of a request: nothing when  *)
(* it arrives, except that a key which was not good then stays so.         *)
KeyIsJudged(c) ==
    /\ req[c].phase = "arrived" =>
          /\ req[c].key < nextKey
          /\ req[c].valid \/ \A r \in Row(req[c].key) : r.expires_at <= now
    /\ req[c].phase = "connecting" =>
          /\ req[c].key < nextKey
          /\ req[c].valid \/ \A r \in Row(req[c].key) : r.expires_at <= req[c].at
    /\ req[c].phase \in Begun => req[c].valid

KeysAreJudged == AUTH => \A c \in Clients : req[c].op # "read" => KeyIsJudged(c)

(* A revoked or expired key is refused on the very next request, for all   *)
(* clients, keys, lifetimes and sizes of the pool.                         *)
THEOREM RevokedKeysAreOut == ApiSpec => []RevokedIsOut
<1>1. ApiInit => KeysAreJudged
  BY DEF ApiInit, KeysAreJudged, NoReq
<1>2. /\ TypeOK /\ ServerTypes /\ KeysAreJudged /\ [ApiNext]_all
      /\ TypeOK' /\ ServerTypes'
      => KeysAreJudged'
  <2> SUFFICES ASSUME TypeOK, ServerTypes, KeysAreJudged, [ApiNext]_all,
                      TypeOK', ServerTypes', AUTH,
                      NEW c \in Clients, req'[c].op # "read"
               PROVE  KeyIsJudged(c)'
    BY DEF KeysAreJudged
  <2> USE DEF KeyIsJudged
  <2>0. /\ req[c].key \in Int /\ nextKey \in Int /\ nextKey' \in Int
        /\ now \in Int /\ now' \in Int /\ req[c].at \in Int
        /\ \A r \in keys : r.expires_at \in Int
        /\ \A r \in keys' : r.expires_at \in Int
    BY ServerAssumption, RetentionAssumption DEF ServerTypes, TypeOK
  <2>1. CASE req'[c] = req[c]
    <3>1. KeyIsJudged(c)
      BY <2>1 DEF KeysAreJudged
    <3>2. /\ now <= now' /\ nextKey <= nextKey'
          /\ \A r \in keys' : r.id < nextKey =>
                \E q \in keys : q.id = r.id /\ q.expires_at = r.expires_at
      BY RowsLast
    <3>3. ASSUME req[c].key < nextKey, NEW r \in Row(req[c].key)'
          PROVE  \E q \in Row(req[c].key) : q.expires_at = r.expires_at
      <4>1. r \in keys' /\ r.id = req[c].key
        BY <2>1 DEF Row
      <4> QED  BY <3>2, <3>3, <4>1 DEF Row
    <3>4. req[c].key < nextKey => req[c].key < nextKey'
      BY <2>0, <3>2
    <3>5. CASE req[c].phase = "arrived"
      <4>1. \A r \in Row(req[c].key)' : r.expires_at \in Int
        BY <2>0 DEF Row
      <4> QED  BY <2>0, <2>1, <3>1, <3>2, <3>3, <3>4, <3>5, <4>1 DEF Begun
    <3>6. CASE req[c].phase = "connecting"
      BY <2>0, <2>1, <3>1, <3>3, <3>4, <3>6 DEF Begun
    <3>7. CASE req[c].phase \notin {"arrived", "connecting"}
      BY <2>1, <3>1, <3>7
    <3> QED  BY <3>5, <3>6, <3>7
  <2>2. CASE req'[c] = NoReq
    BY <2>2 DEF NoReq, Begun
  <2>3. ASSUME NEW op \in Ops, NEW k \in 0..MaxKeys, k < nextKey, UNCHANGED <<now, keys>>,
               req'[c] = [phase |-> "arrived", op |-> op, key |-> k, at |-> 0,
                          valid |-> Valid(k)]
        PROVE  KeyIsJudged(c)'
    <3>1. k < nextKey'
      BY <2>0, <2>3, RowsLast
    <3>2. Valid(k) \/ \A r \in Row(k) : r.expires_at <= now
      BY <2>0 DEF Valid, Row
    <3>3. Row(k)' = Row(k)
      BY <2>3 DEF Row
    <3> QED  BY <2>3, <3>1, <3>2, <3>3 DEF Begun
  <2>4. CASE /\ req[c].phase = "arrived" /\ LoopIsFree /\ UNCHANGED <<now, keys>>
             /\ req'[c] = [req[c] EXCEPT !.phase = "connecting", !.at = now]
    <3>1. KeyIsJudged(c)
      BY <2>4 DEF KeysAreJudged, ServerTypes
    <3>2. req'[c].key < nextKey'
      BY <2>0, <2>4, <3>1, RowsLast DEF ServerTypes
    <3>3. Row(req[c].key)' = Row(req[c].key)
      BY <2>4 DEF Row, ServerTypes
    <3> QED  BY <2>4, <3>1, <3>2, <3>3 DEF Begun, ServerTypes
  <2>5. CASE /\ req[c].phase = "connecting" /\ UNCHANGED <<now, keys>>
             /\ \E r \in Row(req[c].key) : req[c].at < r.expires_at
             /\ req'[c] = [req[c] EXCEPT !.phase = "checked"]
    <3>1. KeyIsJudged(c)
      BY <2>5 DEF KeysAreJudged, ServerTypes
    <3>2. PICK r \in Row(req[c].key) : req[c].at < r.expires_at
      BY <2>5
    <3>3. req[c].valid
      BY <2>0, <2>5, <3>1, <3>2 DEF Row
    <3> QED  BY <2>5, <3>3 DEF Begun, ServerTypes
  <2>6. CASE /\ req[c].phase \in Begun /\ req'[c].phase \in Begun \ {"checked"}
             /\ req'[c].op = req[c].op /\ req'[c].valid = req[c].valid
    <3>1. req[c].valid
      BY <2>6 DEF KeysAreJudged
    <3> QED  BY <2>6, <3>1 DEF Begun
  <2> QED  BY <2>1, <2>2, <2>3, <2>4, <2>5, <2>6, RequestMoves
<1>3. KeysAreJudged => RevokedIsOut
  BY DEF KeysAreJudged, KeyIsJudged, RevokedIsOut, In, Begun
<1> QED  BY <1>1, <1>2, <1>3, ServerTypesHold, PTL DEF ApiSpec

(* How the table of keys changes.                                          *)
LEMMA KeysMove ==
    ASSUME ServerTypes, [ApiNext]_all
    PROVE  \/ keys' \subseteq keys /\ nextKey' = nextKey
           \/ \E x \in 0..Never : NewKey(x)
           \/ \E c \in Clients : StampKey(c)
<1>1. CASE Bootstrap
  <2>1. Never \in 0..Never
    BY RetentionAssumption DEF Never
  <2> QED  BY <1>1, <2>1 DEF Bootstrap
<1>2. ASSUME NEW c \in Clients, Mint(c)  PROVE  \E x \in 0..Never : NewKey(x)
  BY <1>2, ServerAssumption DEF Mint
<1>3. ASSUME NEW c \in Clients, Revoke(c)  PROVE  keys' \subseteq keys /\ nextKey' = nextKey
  BY <1>3 DEF Revoke
<1>4. \/ Bootstrap \/ \E c \in Clients : Mint(c) \/ Revoke(c) \/ StampKey(c)
      \/ UNCHANGED <<keys, nextKey>>
  BY DEF ApiNext, Handler, Outside, server, all, Arrive, Middleware, SelectKey, PoolTimeout,
         Refuse, Reload, StartFix, EndFix, FailFix, Close
<1> QED  BY <1>1, <1>2, <1>3, <1>4

(* A stamp is never later than the clock, nor than the reading of it that  *)
(* the one request being verified has taken.                               *)
Verified == {"connecting", "checked"}

StampsArePast ==
    /\ \A r \in keys : r.id < nextKey /\ r.last_used_at <= now
    /\ \A r, s \in keys : r.id = s.id => r = s
    /\ \A c \in In(Verified) :
          /\ req[c].at <= now
          /\ \A r \in keys : r.last_used_at <= req[c].at
          /\ \A d \in In(Verified) : d = c

LEMMA StampsStayPast == ApiSpec => []StampsArePast
<1>1. ApiInit => StampsArePast
  BY DEF ApiInit, StampsArePast, In, NoReq, Verified
<1>2. /\ TypeOK /\ ServerTypes /\ StampsArePast /\ [ApiNext]_all
      /\ TypeOK' /\ ServerTypes'
      => StampsArePast'
  <2> SUFFICES ASSUME TypeOK, ServerTypes, StampsArePast, [ApiNext]_all,
                      TypeOK', ServerTypes'
               PROVE  StampsArePast'
    OBVIOUS
  <2>0. /\ now \in Int /\ now' \in Int /\ now <= now' /\ nextKey \in Int /\ nextKey' \in Int
        /\ nextKey <= nextKey'
        /\ \A r \in keys : r.id \in Int /\ r.last_used_at \in Int
        /\ \A r \in keys' : r.id \in Int /\ r.last_used_at \in Int
        /\ \A c \in Clients : req[c].at \in Nat /\ req'[c].at \in Nat
    BY RowsLast, ServerAssumption, RetentionAssumption DEF ServerTypes, TypeOK
  <2>1. ASSUME NEW r \in keys'  PROVE  r.id < nextKey' /\ r.last_used_at <= now'
    <3>1. CASE keys' \subseteq keys
      BY <2>0, <2>1, <3>1 DEF StampsArePast
    <3>2. ASSUME NEW x, NewKey(x)  PROVE  r.id < nextKey' /\ r.last_used_at <= now'
      BY <2>0, <2>1, <3>2 DEF StampsArePast, NewKey, TypeOK
    <3>3. ASSUME NEW c \in Clients, StampKey(c)
          PROVE  r.id < nextKey' /\ r.last_used_at <= now'
      <4>1. PICK q \in keys : /\ r.id = q.id
                              /\ r.last_used_at \in {q.last_used_at, req[c].at}
        BY <3>3, <2>1 DEF StampKey, ServerTypes
      <4>2. req[c].at <= now
        BY <3>3 DEF StampKey, StampsArePast, In, Verified
      <4> QED  BY <2>0, <4>1, <4>2 DEF StampsArePast
    <3> QED  BY <3>1, <3>2, <3>3, KeysMove
  <2>2. ASSUME NEW r \in keys', NEW s \in keys', r.id = s.id  PROVE  r = s
    <3>1. CASE keys' \subseteq keys
      BY <2>2, <3>1 DEF StampsArePast
    <3>2. ASSUME NEW x, NewKey(x)  PROVE  r = s
      BY <2>0, <2>2, <3>2 DEF StampsArePast, NewKey
    <3>3. ASSUME NEW c \in Clients, StampKey(c)  PROVE  r = s
      <4> DEFINE Stamped(q) == IF q.id = req[c].key
                               THEN [q EXCEPT !.last_used_at = req[c].at] ELSE q
      <4>1. PICK q \in keys : r = Stamped(q)
        BY <3>3 DEF StampKey
      <4>2. PICK p \in keys : s = Stamped(p)
        BY <3>3 DEF StampKey
      <4>3. r.id = q.id /\ s.id = p.id
        BY <4>1, <4>2 DEF ServerTypes
      <4> QED  BY <2>2, <4>1, <4>2, <4>3 DEF StampsArePast
    <3> QED  BY <3>1, <3>2, <3>3, KeysMove
  <2>3. ASSUME NEW c \in Clients, req'[c].phase \in Verified
        PROVE  \/ req[c].phase \in Verified /\ req'[c].at = req[c].at
               \/ /\ LoopIsFree /\ keys' = keys /\ req'[c].at = now
                  /\ \A d \in Clients \ {c} : req'[d] = req[d]
    <3>1. req[c] \in [phase : Phases, op : Ops, key : 0..MaxKeys, at : 0..MaxTime, valid : BOOLEAN]
      BY DEF ServerTypes
    <3>2. CASE req'[c] = req[c]
      BY <2>3, <3>2
    <3>3. CASE req[c].phase = "connecting" /\ req'[c] = [req[c] EXCEPT !.phase = "checked"]
      BY <3>1, <3>3 DEF Verified
    <3>4. CASE /\ req[c].phase = "arrived" /\ LoopIsFree /\ UNCHANGED <<now, keys>>
               /\ req'[c] = [req[c] EXCEPT !.phase = "connecting", !.at = now]
               /\ \A d \in Clients \ {c} : req'[d] = req[d]
      BY <3>1, <3>4
    <3>5. req'[c].phase \notin {"none", "arrived", "admitted"}
      BY <2>3 DEF Verified
    <3>6. req'[c] # NoReq
      BY <3>5 DEF NoReq
    <3>7. ASSUME NEW op \in Ops, NEW k \in 0..MaxKeys
          PROVE  req'[c] # [phase |-> "arrived", op |-> op, key |-> k, at |-> 0,
                            valid |-> Valid(k)]
      <4>1. [phase |-> "arrived", op |-> op, key |-> k, at |-> 0, valid |-> Valid(k)].phase
              = "arrived"
        OBVIOUS
      <4> QED  BY <3>5, <4>1
    <3>8. req'[c].phase \notin Begun \ {"checked"}
      BY <2>3 DEF Begun, Verified
    <3> QED  BY <3>2, <3>3, <3>4, <3>5, <3>6, <3>7, <3>8, RequestMoves
  <2>4. ASSUME NEW c \in In(Verified)'
        PROVE  /\ req'[c].at <= now'
               /\ \A r \in keys' : r.last_used_at <= req'[c].at
               /\ \A d \in In(Verified)' : d = c
    <3>0. c \in Clients /\ req'[c].phase \in Verified
      BY <2>4 DEF In
    <3>1. CASE req[c].phase \in Verified /\ req'[c].at = req[c].at
      <4>1. /\ req[c].at <= now
            /\ \A r \in keys : r.last_used_at <= req[c].at
            /\ \A d \in In(Verified) : d = c
        BY <3>0, <3>1 DEF StampsArePast, In
      <4>2. ASSUME NEW r \in keys'  PROVE  r.last_used_at <= req[c].at
        <5>1. CASE keys' \subseteq keys
          BY <4>1, <4>2, <5>1
        <5>2. ASSUME NEW x, NewKey(x)  PROVE  r.last_used_at <= req[c].at
          BY <2>0, <3>0, <4>1, <4>2, <5>2 DEF NewKey
        <5>3. ASSUME NEW d \in Clients, StampKey(d)  PROVE  r.last_used_at <= req[c].at
          <6>1. d = c
            BY <4>1, <5>3 DEF StampKey, In, Verified
          <6>2. PICK q \in keys : r.last_used_at \in {q.last_used_at, req[d].at}
            BY <5>3, <4>2 DEF StampKey, ServerTypes
          <6> QED  BY <2>0, <3>0, <4>1, <6>1, <6>2
        <5> QED  BY <5>1, <5>2, <5>3, KeysMove
      <4>3. ASSUME NEW d \in In(Verified)'  PROVE  d = c
        <5>1. d \in Clients /\ req'[d].phase \in Verified
          BY <4>3 DEF In
        <5>2. ~LoopIsFree
          BY <3>0, <3>1 DEF LoopIsFree, In, Verified
        <5> QED  BY <2>3, <4>1, <5>1, <5>2 DEF In
      <4> QED  BY <2>0, <3>0, <3>1, <4>1, <4>2, <4>3
    <3>2. CASE /\ LoopIsFree /\ keys' = keys /\ req'[c].at = now
               /\ \A d \in Clients \ {c} : req'[d] = req[d]
      <4>1. ASSUME NEW d \in In(Verified)'  PROVE  d = c
        BY <3>2, <4>1 DEF LoopIsFree, In, Verified
      <4> QED  BY <2>0, <3>2, <4>1 DEF StampsArePast
    <3> QED  BY <2>3, <3>0, <3>1, <3>2
  <2> QED  BY <2>1, <2>2, <2>4 DEF StampsArePast
<1> QED  BY <1>1, <1>2, ServerTypesHold, PTL DEF ApiSpec

(* last_used_at of a key never goes back, however many requests overlap.   *)
THEOREM StampsOnlyGoForward == ApiSpec => StampsNeverGoBack
<1>1. TypeOK /\ ServerTypes /\ StampsArePast /\ [ApiNext]_all
        => [\A r \in keys : \A s \in keys' :
               r.id = s.id => r.last_used_at <= s.last_used_at]_all
  <2> SUFFICES ASSUME TypeOK, ServerTypes, StampsArePast, [ApiNext]_all,
                      NEW r \in keys, NEW s \in keys', r.id = s.id
               PROVE  r.last_used_at <= s.last_used_at
    OBVIOUS
  <2>0. \A q \in keys : q.id \in Int /\ q.last_used_at \in Int
    BY DEF ServerTypes
  <2>1. CASE keys' \subseteq keys
    BY <2>0, <2>1 DEF StampsArePast
  <2>2. ASSUME NEW x, NewKey(x)  PROVE  r.last_used_at <= s.last_used_at
    <3>1. s \in keys
      BY <2>0, <2>2 DEF NewKey, StampsArePast, ServerTypes
    <3> QED  BY <2>0, <3>1 DEF StampsArePast
  <2>3. ASSUME NEW c \in Clients, StampKey(c)  PROVE  r.last_used_at <= s.last_used_at
    <3>1. PICK q \in keys : q.id = s.id /\ s.last_used_at \in {q.last_used_at, req[c].at}
      BY <2>3 DEF StampKey, ServerTypes
    <3>2. q = r
      BY <3>1 DEF StampsArePast
    <3>3. r.last_used_at <= req[c].at
      BY <2>3 DEF StampKey, StampsArePast, In, Verified
    <3> QED  BY <2>0, <3>1, <3>2, <3>3
  <2> QED  BY <2>1, <2>2, <2>3, KeysMove
<1> QED  BY <1>1, ServerTypesHold, StampsStayPast, PTL DEF ApiSpec, StampsNeverGoBack
=============================================================================

------------------------------ MODULE CheckTail ------------------------------
(***************************************************************************)
(* What a drift check does once its drift is stored, in several scheduler  *)
(* threads around one WebhookDispatcher: it reports the fixes that were    *)
(* tried, has what is new explained by a language model, and alerts on     *)
(* critical drift.                                                         *)
(*                                                                         *)
(* The explanations of a check are one transaction that stays open during  *)
(* the calls of the model.  A fingerprint does not name the device, so     *)
(* checks of different devices store the same rows, in the order in which  *)
(* they found the drift: they wait for, overtake or deadlock one another.  *)
(***************************************************************************)
EXTENDS WebhookDispatcher, FiniteSets

CONSTANTS
    Threads,      \* scheduler and syslog threads running checks
    Fingerprints,
    Findings,     \* what the checks of a thread may find: sequences of [fp, critical]
    Outcomes,     \* what the auto-apply loop may report: sequences of event types
    AI,           \* a provider of explanations is configured
    Texts,        \* the sources of what a thread gets explained: does the model answer?
    MaxChecks     \* bound: checks that found something

ASSUME TailAssumption ==
    /\ Findings \in [Threads -> SUBSET Seq([fp : Fingerprints, critical : BOOLEAN])]
    /\ Texts \in [Threads -> SUBSET {"llm", "deterministic"}]
    /\ Outcomes \subseteq Seq({"apply_success", "apply_failure"})
    /\ AI \in BOOLEAN /\ MaxChecks \in Nat

VARIABLES
    explained,    \* drift_explanations: the source of a stored text, or "none"
    check,        \* where each thread's check is
    checks        \* checks begun

tail == <<explained, check, checks>>
whole == <<vars, tail>>

Sources == {"llm", "deterministic"}
NoRows  == [f \in Fingerprints |-> "none"]

(* n is the next drift record, or outcome, to look at; existing and written *)
(* are the rows the transaction found and those it has flushed.            *)
NoCheck == [phase |-> "idle", drifts |-> <<>>, outcomes |-> <<>>, n |-> 1,
            existing |-> {}, loaded |-> "none", text |-> "none", written |-> NoRows,
            fired |-> 0]

TailInit ==
    /\ Init
    /\ explained = NoRows /\ checks = 0
    /\ check = [t \in Threads |-> NoCheck]

Alive   == thread # "killed"
In(t, phase) == Alive /\ check[t].phase = phase
Done(t, phase) == [check[t] EXCEPT !.phase = phase, !.n = 1]
Becomes(t, c)  == check' = [check EXCEPT ![t] = c]
Passed(t)      == [check[t] EXCEPT !.n = @ + 1]

(* fire() from a check: an event that is not taken is dropped.             *)
Emit(type) ==
    IF Enabled /\ type \in Subscribed /\ Len(queue) < QueueSize /\ accepted < MaxFires
    THEN Fire(type) ELSE UNCHANGED vars

-----------------------------------------------------------------------------
(* run_drift_check has committed what it found.                            *)
Persist(t) ==
    /\ In(t, "idle") /\ checks < MaxChecks
    /\ checks' = checks + 1
    /\ \E drifts \in Findings[t] :
          Becomes(t, [NoCheck EXCEPT !.phase = "fixing", !.drifts = drifts])
    /\ UNCHANGED <<vars, explained>>

(* The auto-apply loop returns its outcomes, ...                           *)
Fixed(t) ==
    /\ In(t, "fixing")
    /\ \E outcomes \in Outcomes :
          Becomes(t, [check[t] EXCEPT !.phase = "reporting", !.outcomes = outcomes])
    /\ UNCHANGED <<vars, explained, checks>>

(* ... or raises, which ends the check.                                    *)
FixRaises(t) ==
    /\ In(t, "fixing")
    /\ Becomes(t, NoCheck)
    /\ UNCHANGED <<vars, explained, checks>>

(* _make_auto_apply_fn: one event for each outcome.                        *)
Report(t) ==
    /\ In(t, "reporting")
    /\ IF check[t].n <= Len(check[t].outcomes)
       THEN Emit(check[t].outcomes[check[t].n]) /\ Becomes(t, Passed(t))
       ELSE UNCHANGED vars /\ Becomes(t, Done(t, "explaining"))
    /\ UNCHANGED <<explained, checks>>

-----------------------------------------------------------------------------
(* generate_explanations                                                   *)

Stored == {f \in Fingerprints : explained[f] # "none"}

(* get_explanations of the check's fingerprints.                           *)
BeginExplain(t) ==
    /\ In(t, "explaining")
    /\ Becomes(t, IF AI /\ check[t].drifts # <<>>
                  THEN [Done(t, "asking") EXCEPT !.existing = Stored]
                  ELSE Done(t, "alerting"))
    /\ UNCHANGED <<vars, explained, checks>>

Fp(t)      == check[t].drifts[check[t].n].fp
Holds(t)   == {f \in Fingerprints : check[t].written[f] # "none"}

(* Explained before, or earlier in this check.                             *)
Skipped(t) == check[t].existing \cup Holds(t)

(* explain(): the model's text, or the deterministic one when the model    *)
(* fails or has nothing to say.                                            *)
Answers(t) == Texts[t]

(* The text of the next drift record; upsert_explanation SELECTs the row.  *)
Ask(t) ==
    /\ In(t, "asking") /\ check[t].n <= Len(check[t].drifts)
    /\ IF Fp(t) \in Skipped(t) THEN Becomes(t, Passed(t))
       ELSE \E source \in Answers(t) :
                Becomes(t, [check[t] EXCEPT !.phase = "writing", !.text = source,
                                            !.loaded = explained[Fp(t)]])
    /\ UNCHANGED <<vars, explained, checks>>

WaitsFor(t, u) == check[t].phase = "writing" /\ Fp(t) \in Holds(u)
MayWrite(t)    == \A u \in Threads \ {t} : ~WaitsFor(t, u)

(* An INSERT of a row that was committed since the SELECT.                 *)
Conflict(t) == check[t].loaded = "none" /\ explained[Fp(t)] # "none"

(* flush: INSERT or UPDATE, once nobody else holds the row.                *)
Write(t) ==
    /\ In(t, "writing") /\ MayWrite(t) /\ ~Conflict(t)
    /\ Becomes(t, [Passed(t) EXCEPT !.phase = "asking", !.written[Fp(t)] = check[t].text])
    /\ UNCHANGED <<vars, explained, checks>>

(* Threads that wait for one another.                                      *)
Deadlocked(t) ==
    \E S \in SUBSET Threads :
        t \in S /\ \A x \in S : \E u \in S \ {x} : WaitsFor(x, u)

(* The flush that is sure to fail: the INSERT, or that of a transaction    *)
(* which the database aborts to end a deadlock.                            *)
Doomed(t) == In(t, "writing") /\ ((MayWrite(t) /\ Conflict(t)) \/ Deadlocked(t))

(* Inside the try block: anything may fail, down to the commit.            *)
Trying(t) == In(t, "asking") \/ In(t, "writing")

\* Mutant: the error is not swallowed, and _check_one logs it.
GiveUpRaising(t) ==
    /\ Trying(t)
    /\ Becomes(t, NoCheck)
    /\ UNCHANGED <<vars, explained, checks>>

(* An error, whatever it is: all that was explained is rolled back, and    *)
(* the error swallowed.                                                    *)
GiveUp(t) ==
    /\ Trying(t)
    /\ Becomes(t, [Done(t, "alerting") EXCEPT !.written = NoRows])
    /\ UNCHANGED <<vars, explained, checks>>

CommitExplanations(t) ==
    /\ In(t, "asking") /\ check[t].n > Len(check[t].drifts)
    /\ explained' = [f \in Fingerprints |-> IF f \in Holds(t) THEN check[t].written[f]
                                            ELSE explained[f]]
    /\ Becomes(t, [Done(t, "alerting") EXCEPT !.written = NoRows])
    /\ UNCHANGED <<vars, checks>>

-----------------------------------------------------------------------------
\* Mutant: fire() waits for room in the queue.
AlertBlocking(t) ==
    /\ In(t, "alerting") /\ check[t].n <= Len(check[t].drifts)
    /\ IF check[t].drifts[check[t].n].critical
       THEN Fire("critical_drift") /\ Becomes(t, [Passed(t) EXCEPT !.fired = @ + 1])
       ELSE UNCHANGED vars /\ Becomes(t, Passed(t))
    /\ UNCHANGED <<explained, checks>>

(* _fire_critical_drifts                                                   *)
Alert(t) ==
    /\ In(t, "alerting") /\ check[t].n <= Len(check[t].drifts)
    /\ IF check[t].drifts[check[t].n].critical
       THEN Emit("critical_drift") /\ Becomes(t, [Passed(t) EXCEPT !.fired = @ + 1])
       ELSE UNCHANGED vars /\ Becomes(t, Passed(t))
    /\ UNCHANGED <<explained, checks>>

Finish(t) ==
    /\ In(t, "alerting") /\ check[t].n > Len(check[t].drifts)
    /\ Becomes(t, NoCheck)
    /\ UNCHANGED <<vars, explained, checks>>

Step(t) ==
    \/ Fixed(t) \/ FixRaises(t) \/ Report(t)
    \/ BeginExplain(t) \/ Ask(t) \/ Write(t) \/ CommitExplanations(t)
    \/ (Doomed(t) /\ GiveUp(t))
    \/ Alert(t) \/ Finish(t)

(* The SLA job fires through the same dispatcher.                          *)
Dispatching ==
    /\ \/ Start \/ Fire("sla_breached")
       \/ Stop \/ PutSentinel \/ Join \/ JoinTimeout
       \/ Worker \/ ProcessExit
    /\ UNCHANGED tail

TailNext ==
    \/ Dispatching
    \/ \E t \in Threads : Persist(t) \/ Step(t) \/ GiveUp(t)

TailSpec == TailInit /\ [][TailNext]_whole

(* A check goes on: the applier, the model and the database answer or time *)
(* out.  That something else fails is never owed to it.                    *)
TailFairSpec ==
    /\ TailSpec
    /\ WF_whole(Worker /\ UNCHANGED tail)
    /\ \A t \in Threads : WF_whole(Step(t))

-----------------------------------------------------------------------------
(* Properties                                                              *)

Progress == {"idle", "fixing", "reporting", "explaining", "asking", "writing", "alerting"}

(* Every variable has its type, those of the dispatcher included.          *)
TailTypes ==
    /\ TypeOK
    /\ explained \in [Fingerprints -> Sources \cup {"none"}]
    /\ checks \in 0..MaxChecks
    /\ \A t \in Threads :
          /\ check[t].phase \in Progress
          /\ check[t].drifts \in Findings[t] \cup {<<>>}
          /\ check[t].n \in 1..(Len(check[t].drifts) + Len(check[t].outcomes) + 1)
          /\ check[t].existing \subseteq Fingerprints
          /\ check[t].written \in [Fingerprints -> Sources \cup {"none"}]

Criticals(t) == Cardinality({n \in 1..Len(check[t].drifts) : check[t].drifts[n].critical})

(* Explanations are best effort and never break a poll (pipeline.py:73):   *)
(* once the auto-apply loop has returned, a check does not end before it   *)
(* has fired one alert for each critical drift, whatever becomes of its    *)
(* explanations.                                                           *)
AlertsSurvive ==
    [][\A t \in Threads :
          (check[t].phase \notin {"idle", "fixing"} /\ check'[t].phase = "idle")
              => check[t].fired = Criticals(t)]_whole

(* Every check ends, though transactions with the same explanations may    *)
(* block one another and the queue of webhooks may be full for good.       *)
NoCheckHangs ==
    \A t \in Threads :
        check[t].phase # "idle" ~> (check[t].phase = "idle" \/ thread = "killed")
=============================================================================

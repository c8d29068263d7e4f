----------------------------- MODULE EdgeAlerts -----------------------------
(***************************************************************************)
(* What edge-triggered alerting promises (the docstring of sla.py): for    *)
(* each breach one sla_breached when it starts, then silence, then one     *)
(* sla_resolved, in turn and for ever, remembered across cycles and        *)
(* process restarts.  An announcement is remembered only once it is saved: *)
(* a sender that dies in between forgets it and will announce it again.    *)
(***************************************************************************)
EXTENDS Integers

CONSTANT Breaches      \* the things that may be in breach

VARIABLES
    open,     \* the breaches announced and not resolved, as the sender sees it
    saved,    \* what the sender will still know after a restart
    pages     \* sla_breached minus sla_resolved webhooks, per breach

Init ==
    /\ open = {} /\ saved = {}
    /\ pages = [k \in Breaches |-> 0]

(* One evaluation cycle announces new breaches and resolved ones.          *)
Announce(started, ended) ==
    /\ open = saved
    /\ started \cap open = {} /\ ended \subseteq open
    /\ open' = (open \cup started) \ ended
    /\ pages' = [k \in Breaches |-> IF k \in started THEN pages[k] + 1
                                    ELSE IF k \in ended THEN pages[k] - 1 ELSE pages[k]]
    /\ UNCHANGED saved

Save == saved' = open /\ UNCHANGED <<open, pages>>

Lose == open' = saved /\ UNCHANGED <<saved, pages>>

Next ==
    \/ \E started, ended \in SUBSET Breaches : Announce(started, ended)
    \/ Save \/ Lose

Spec == Init /\ [][Next]_<<open, saved, pages>>
=============================================================================

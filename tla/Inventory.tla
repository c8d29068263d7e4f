----------------------------- MODULE Inventory -----------------------------
(***************************************************************************)
(* Which devices there are: the list the scheduler polls                   *)
(* (resolve_inventory) and the one the API acts on (its cached devices.yml),*)
(* and how old they are (lifecycle.py).                                    *)
(*                                                                         *)
(* devices.yml maps names to details, functions on the keys given there; a *)
(* value that is missing or empty is NoValue.  Dates are days.             *)
(***************************************************************************)
EXTENDS Integers, Sequences

CONSTANTS
    NoValue,
    Account      \* the service account: NETDRIFT_DEVICE_USERNAME and _PASSWORD

Keys == {"hostname", "username", "password"}

Or(a, b)  == IF a = NoValue THEN b ELSE a
Get(m, k) == IF k \in DOMAIN m THEN m[k] ELSE NoValue

Override(yaml, n) == IF n \in DOMAIN yaml THEN yaml[n] ELSE [k \in {} |-> NoValue]

(* What a device has unless devices.yml says otherwise; entry.address is   *)
(* its primary IP in NetBox.                                               *)
Default(entry) == [hostname |-> Or(entry.address, entry.name),
                   username |-> Account.username, password |-> Account.password]

Details(entry, override) ==
    [k \in Keys \cup DOMAIN override |->
        IF k \in Keys THEN Or(Get(override, k), Default(entry)[k]) ELSE override[k]]

(* Of two devices with one name the later entry wins.                      *)
Names(listed) == {listed[j].name : j \in 1..Len(listed)}
IsLast(listed, j) == \A i \in j + 1..Len(listed) : listed[i].name # listed[j].name
EntryOf(listed, n) ==
    listed[CHOOSE j \in 1..Len(listed) : listed[j].name = n /\ IsLast(listed, j)]

Polled(source, listed, yaml) ==
    IF source = "netbox"
    THEN [n \in Names(listed) |-> Details(EntryOf(listed, n), Override(yaml, n))]
    ELSE yaml

(* _get_device: 404 outside this domain.                                   *)
Served(yaml) == yaml

-----------------------------------------------------------------------------
ParseDate(value) == IF value \in Int THEN value ELSE NoValue

DaysUntil(value, today) ==
    IF ParseDate(value) = NoValue THEN NoValue ELSE ParseDate(value) - today

Classify(value, within, today) ==
    LET days == DaysUntil(value, today)
    IN  CASE days = NoValue -> NoValue
          [] days # NoValue /\ days < 0 -> "expired"
          [] days # NoValue /\ days >= 0 /\ days <= within -> "expiring"
          [] OTHER -> "ok"

LifecycleSummary(warranty, eol, within, today) ==
    [warranty_expiry |-> ParseDate(warranty), end_of_life |-> ParseDate(eol),
     warranty_status |-> Classify(warranty, within, today),
     eol_status      |-> Classify(eol, within, today),
     warranty_days_left |-> DaysUntil(warranty, today),
     eol_days_left      |-> DaysUntil(eol, today)]

Severity == [ok |-> 0, expiring |-> 1, expired |-> 2]
=============================================================================

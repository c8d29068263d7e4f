------------------------------- MODULE Differ -------------------------------
(***************************************************************************)
(* differ.diff: the drift records of an intent document against a reality  *)
(* document.  The five blocks of named objects are compared alike; the     *)
(* texts running_config and software_version only when both are known.     *)
(*                                                                         *)
(* A document is its objects (a function on the <<block, name>> present)   *)
(* and its texts.  A value is the set of its members: a scalar is a        *)
(* singleton, a VLAN list any set; {} is the empty text.                   *)
(***************************************************************************)

CONSTANT Normal      \* what _normalize_config makes of a configuration text

Fields ==
    [interface      |-> {"enabled", "description", "ip_addresses", "mode",
                         "untagged_vlan", "tagged_vlans"},
     vlan           |-> {"name"},
     bgp_neighbor   |-> {"remote_as", "enabled", "description", "session_state"},
     ospf_adjacency |-> {"area", "interface", "adjacency_state"},
     tunnel         |-> {"type", "source", "destination", "enabled", "tunnel_state"}]

Blocks == DOMAIN Fields
FieldsOf(o) == Fields[o[1]]

Presence ==
    [interface |-> "_interface", vlan |-> "_vlan", bgp_neighbor |-> "_bgp_neighbor",
     ospf_adjacency |-> "_ospf_adjacency", tunnel |-> "_tunnel"]

Texts  == {"running_config", "software_version"}
Holder == [running_config |-> <<"config">>, software_version |-> <<"device">>]

-----------------------------------------------------------------------------
(* Severities                                                              *)

Missing(b)      == IF b \in {"interface", "tunnel"} THEN "critical" ELSE "warning"
Undocumented(b) == IF b = "interface" THEN "warning" ELSE "info"

Cosmetic == {<<"interface", "description">>, <<"vlan", "name">>, <<"bgp_neighbor", "description">>}

(* Should be up and is not: an outage.  The reverse is only untidy.        *)
Outage(b, f, wanted) ==
    \/ b \in {"interface", "tunnel"} /\ f = "enabled" /\ wanted = {"true"}
    \/ b = "tunnel" /\ f = "tunnel_state" /\ wanted = {"up"}

Mismatch(b, f, wanted) ==
    IF <<b, f>> \in Cosmetic THEN "info"
    ELSE IF Outage(b, f, wanted) THEN "critical" ELSE "warning"

-----------------------------------------------------------------------------
Record(o, f, wanted, found, kind, severity) ==
    [object |-> o, field |-> f, intent |-> wanted, reality |-> found,
     drift_kind |-> kind, severity |-> severity]

\* Mutant: the differences of the names are taken the wrong way round.
LackingSwapped(i, r) ==
    {Record(o, Presence[o[1]], {"present"}, {"absent"}, "missing_in_reality", Missing(o[1])) :
        o \in DOMAIN r \ DOMAIN i}

Lacking(i, r) ==
    {Record(o, Presence[o[1]], {"present"}, {"absent"}, "missing_in_reality", Missing(o[1])) :
        o \in DOMAIN i \ DOMAIN r}

Extra(i, r) ==
    {Record(o, Presence[o[1]], {"absent"}, {"present"}, "missing_in_intent", Undocumented(o[1])) :
        o \in DOMAIN r \ DOMAIN i}

Changed(i, r) ==
    UNION {{Record(o, f, i[o][f], r[o][f], "value_mismatch", Mismatch(o[1], f, i[o][f])) :
                f \in {g \in FieldsOf(o) : i[o][g] # r[o][g]}} :
            o \in DOMAIN i \cap DOMAIN r}

(* Only a configuration is normalised.                                     *)
Compared(t, v) == IF t = "running_config" THEN Normal[v] ELSE v

TextDiff(i, r) ==
    {Record(Holder[t], t, Compared(t, i[t]), Compared(t, r[t]), "value_mismatch", "warning") :
        t \in {u \in Texts : /\ i[u] # {} /\ r[u] # {}
                             /\ Compared(u, i[u]) # Compared(u, r[u])}}

ObjectDiff(i, r) == Lacking(i, r) \cup Extra(i, r) \cup Changed(i, r)

(* The objects when one value of one of them is set.                       *)
Put(c, o, f, v) == [c EXCEPT ![o][f] = v]

Diff(intent, reality) ==
    ObjectDiff(intent.objects, reality.objects) \cup TextDiff(intent.texts, reality.texts)
=============================================================================

---------------------------- MODULE MCRemediation ----------------------------
(* Instances of Remediation for TLC.                                       *)
EXTENDS Remediation, TLC

Port   == <<"interface", "e1">>
Oob    == <<"interface", "m1">>

(* One trunk and the management interface.                                 *)
Routed(f) == CASE f = "mode" -> {"routed"} [] f \in {"untagged_vlan", "tagged_vlans"} -> {}
               [] OTHER -> {"a"}
Trunk(f)  == CASE f = "mode" -> {"tagged"} [] f = "tagged_vlans" -> {"10"} [] OTHER -> Routed(f)

OnePort ==
    Port :> [f \in Fields["interface"] |-> Trunk(f)]
  @@ Oob :> [f \in Fields["interface"] |-> Routed(f)]

(* Among the edits, and the one a snippet makes, is that of a native VLAN. *)
Native     == {<<Port, "untagged_vlan", {"1"}>>}
SomeEdits  == {<<Port, "tagged_vlans", {"10", "20"}>>, <<Oob, "enabled", {"b"}>>} \cup Native

(* Every kind of drift that SomeEdits cause has an armed issue.            *)
Everything == {<<e[1][1], e[2], "value_mismatch">> : e \in SomeEdits}
                 \cup {<<"interface", "_interface", "missing_in_reality">>}
PortOnly   == {Port}
OobOnly    == {Oob}
Identity   == [v \in {} |-> v]
=============================================================================

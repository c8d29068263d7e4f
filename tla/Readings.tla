------------------------------ MODULE Readings ------------------------------
(***************************************************************************)
(* The two documents the differ compares, read from one network: what      *)
(* get_intent makes of the records of NetBox or Nautobot, and what the     *)
(* collector of each platform makes of its device's answers.  A truth is a *)
(* device that is configured exactly as it is documented: what it shows    *)
(* the differ as drift is the tool's own doing.                            *)
(*                                                                         *)
(* A truth maps the objects <<block, name>> to what is so.  As in Differ a *)
(* value is the set of its members.  An OSPF area is written as a number   *)
(* or dotted; an address has a family and is listed under the interface    *)
(* itself ("bare") or under its unit 0 ("zero") or another one ("other");  *)
(* the interface of an adjacency is a port and the unit that is written    *)
(* after it, if any ("none").  A `bundle' is a link aggregation, `encapsu- *)
(* lated' says that an access port's VLAN is one of a tag, and `carried'   *)
(* that the device has a VLAN of its site.                                 *)
(***************************************************************************)
EXTENDS Differ, Integers

Sources   == {"netbox", "nautobot"}
Platforms == {"arista_eos", "cisco_iosxe", "juniper_junos", "nokia_srlinux"}
Switches  == {"arista_eos", "cisco_iosxe"}    \* the collectors that read VLANs of ports

-----------------------------------------------------------------------------
(* The source of truth                                                     *)

(* str(mode).lower(); no mode at all is a routed port.                     *)
ModeLabel == [routed |-> "routed", access |-> "access", trunk |-> "tagged",
              trunk_all |-> "tagged-all", qinq |-> "q-in-q"]

IntendedInterface(t) ==
    [enabled |-> t.enabled, description |-> t.description,
     ip_addresses |-> {a.address : a \in t.addresses},
     mode |-> {ModeLabel[t.switching]},
     untagged_vlan |-> t.untagged, tagged_vlans |-> t.tagged]

(* What a BGP neighbor or a tunnel has besides its state.                  *)
Neighbor(t, state) == [remote_as |-> t.remote_as, enabled |-> t.enabled,
                       description |-> t.description, session_state |-> state]
Tunnel(t) == [type |-> {t.type}, source |-> t.source, destination |-> t.destination,
              enabled |-> t.enabled, tunnel_state |-> t.tunnel_state]

(* These blocks are JSON in the shape of the document: taken as written.   *)
FromContext(o, t) ==
    CASE o[1] = "bgp_neighbor"   -> Neighbor(t, {t.state})
      [] o[1] = "ospf_adjacency" ->
            [area |-> {t.area}, interface |-> {t.interface}, adjacency_state |-> {t.state}]
      [] OTHER -> Tunnel(t)

Intended(o, t) ==
    CASE o[1] = "interface" -> IntendedInterface(t)
      [] o[1] = "vlan"      -> [name |-> t.name]
      [] OTHER              -> FromContext(o, t)

(* Nautobot's document has no tunnels.                                     *)
Documented(s, T) == {o \in DOMAIN T : s = "nautobot" => o[1] # "tunnel"}

IntentObjects(s, T) == [o \in Documented(s, T) |-> Intended(o, T[o])]

-----------------------------------------------------------------------------
(* The collectors                                                          *)

RoutedPort    == [mode |-> "routed", untagged |-> {}, tagged |-> {}]
AccessPort(v) == [mode |-> "access", untagged |-> v, tagged |-> {}]
TrunkPort(vs) == [mode |-> "tagged", untagged |-> {}, tagged |-> vs]

(* SR Linux: the first bridged subinterface with a tag speaks for the port. *)
FirstVlan(t) == CHOOSE v \in IF t.switching = "access" THEN t.untagged ELSE t.tagged : TRUE

(* A trunk that allows all VLANs lists none.  A bundle's switchport is     *)
(* under its short name (Po1): the lookup by the full one does not find it.*)
AristaPort(t) ==
    CASE t.bundle \/ t.switching = "routed" -> RoutedPort
      [] ~t.bundle /\ t.switching = "access" -> AccessPort(t.untagged)
      [] OTHER -> TrunkPort(t.tagged)

(* A port of another mode is missing from the map, hence routed.           *)
CiscoPort(t) ==
    CASE t.switching = "access" -> AccessPort(t.untagged)
      [] t.switching \in {"trunk", "trunk_all"} -> TrunkPort(t.tagged)
      [] OTHER -> RoutedPort

HasTag(t) == t.switching = "trunk" \/ (t.switching = "access" /\ t.encapsulated)

NokiaPort(t) == IF HasTag(t) THEN AccessPort({FirstVlan(t)}) ELSE RoutedPort

Port(p, t) ==
    CASE p = "arista_eos"    -> AristaPort(t)
      [] p = "cisco_iosxe"   -> CiscoPort(t)
      [] p = "nokia_srlinux" -> NokiaPort(t)
      [] p = "juniper_junos" -> RoutedPort

(* _build_switchport_map raises on a mode it does not know: no document.   *)
Collects(p, T) ==
    p = "arista_eos" => \A o \in DOMAIN T : o[1] = "interface" => T[o].switching # "qinq"

(* JunOS lists addresses by unit.  Unit 0 is asked, and the name itself    *)
(* only when nothing is listed there.  Of these IPv4 is read.              *)
Under(t, unit) == {a \in t.addresses : a.unit = unit}
Asked(p, t) ==
    IF p # "juniper_junos" THEN t.addresses
    ELSE IF Under(t, "zero") # {} THEN Under(t, "zero") ELSE Under(t, "bare")

Addresses(p, t) == {a.address : a \in {b \in Asked(p, t) : b.family = "ipv4"}}

(* The state of a session comes from the summary's text; without a line    *)
(* there each collector falls back in its own way.                         *)
AristaState(t) == IF t.summarised THEN {t.state} ELSE {}
CiscoState(t)  == IF t.summarised THEN {t.state} ELSE {"unknown"}
JunosState(t)  ==
    IF t.summarised THEN {t.state}
    ELSE {IF t.state = "established" THEN "established" ELSE "idle"}

SessionState(p, t) ==
    CASE p = "arista_eos"    -> AristaState(t)
      [] p = "cisco_iosxe"   -> CiscoState(t)
      [] p = "juniper_junos" -> JunosState(t)
      [] p = "nokia_srlinux" -> {t.state}

(* normalize_area, _normalize_ospf_state                                   *)
Dotted(area) == [area EXCEPT !.form = "dotted"]
AdjacencyState(p, t) == IF p = "cisco_iosxe" /\ t.shown = "2way" THEN "2-way" ELSE t.shown

FoundInterface(p, t) ==
    [enabled |-> t.enabled, description |-> t.description,
     ip_addresses |-> Addresses(p, t), mode |-> {Port(p, t).mode},
     untagged_vlan |-> Port(p, t).untagged, tagged_vlans |-> Port(p, t).tagged]

(* JunOS: whatever follows the dot is dropped, be it .0 or not.            *)
AdjacencyInterface(p, t) ==
    IF p = "juniper_junos" THEN [t.interface EXCEPT !.unit = "none"] ELSE t.interface

Adjacency(p, t) == [area |-> {Dotted(t.area)}, interface |-> {AdjacencyInterface(p, t)},
                    adjacency_state |-> {AdjacencyState(p, t)}]

(* An SR Linux VLAN has the name of its mac-vrf.                           *)
Found(p, o, t) ==
    CASE o[1] = "interface"      -> FoundInterface(p, t)
      [] o[1] = "vlan"           -> [name |-> IF p = "nokia_srlinux" THEN t.macvrf ELSE t.name]
      [] o[1] = "bgp_neighbor"   -> Neighbor(t, SessionState(p, t))
      [] o[1] = "ospf_adjacency" -> Adjacency(p, t)
      [] OTHER                   -> Tunnel(t)

AristaTunnels == {"gre", "vti"}
CiscoTunnels  == {"gre", "vti"}
JunosTunnels  == {"gre", "vti"}
NokiaTunnels  == {"gre"}

TunnelTypes == [arista_eos |-> AristaTunnels, cisco_iosxe |-> CiscoTunnels,
                juniper_junos |-> JunosTunnels, nokia_srlinux |-> NokiaTunnels]

(* SR Linux has no list of VLANs: those of its ports are all it shows.     *)
OnAPort(T, v) ==
    \E o \in DOMAIN T :
        /\ o[1] = "interface" /\ HasTag(T[o])
        /\ FirstVlan(T[o]) = v

(* The blocks that may come back empty without an error: a command or path *)
(* that fails, an answer without a value, or get_vlans() on a Juniper that *)
(* is not ELS.  SR Linux has its VLANs from its interfaces.                *)
MayBeEmpty ==
    [arista_eos    |-> {"tunnel"}, cisco_iosxe |-> {"tunnel"},
     juniper_junos |-> {"tunnel", "vlan"},
     nokia_srlinux |-> {"interface", "tunnel", "bgp_neighbor", "ospf_adjacency"}]

Visible(p, T, empty) ==
    {o \in DOMAIN T :
        /\ o[1] \notin empty
        /\ o[1] = "tunnel" => T[o].type \in TunnelTypes[p]
        /\ o[1] = "vlan" => IF p # "nokia_srlinux" THEN T[o].carried
                            ELSE "interface" \notin empty /\ OnAPort(T, o[2])}

RealityObjects(p, T, empty) == [o \in Visible(p, T, empty) |-> Found(p, o, T[o])]

(* What a poll of a device configured as documented stores.                *)
FalseDrift(s, p, T, empty) == ObjectDiff(IntentObjects(s, T), RealityObjects(p, T, empty))

-----------------------------------------------------------------------------
(* What is so, and where the tool cannot see it                            *)

(* A truth is well formed.  BGP states are those of the schema; an OSPF    *)
(* state is shown as the schema writes it, or as 2WAY.                     *)
IsPort(t) ==
    /\ t.switching \in DOMAIN ModeLabel
    /\ t.switching = "routed" => t.untagged = {} /\ t.tagged = {}
    /\ t.switching = "access" => t.tagged = {} /\ \E v \in t.untagged : t.untagged = {v}
    /\ t.switching = "trunk" => t.tagged # {} /\ t.untagged \cap t.tagged = {}
    /\ t.switching \in {"trunk_all", "qinq"} => t.tagged = {}
    /\ t.bundle \in BOOLEAN /\ t.encapsulated \in BOOLEAN
    /\ \A a \in t.addresses : a.unit \in {"bare", "zero", "other"}

IsTruth(T) ==
    \A o \in DOMAIN T :
        /\ o[1] \in Blocks
        /\ o[1] = "interface" => IsPort(T[o])
        /\ o[1] = "bgp_neighbor" => T[o].state # "unknown" /\ T[o].summarised \in BOOLEAN
        /\ o[1] = "ospf_adjacency" =>
              /\ T[o].area \in [form : {"dotted", "number"}, number : Nat]
              /\ T[o].interface = [port |-> T[o].interface.port, unit |-> T[o].interface.unit]
              /\ T[o].state # "2way"
              /\ \/ T[o].shown = T[o].state
                 \/ T[o].shown = "2way" /\ T[o].state = "2-way"

(* The switchports that a collector takes for routed ports.               *)
Overlooked(p, t) ==
    \/ p = "juniper_junos"
    \/ p = "arista_eos" /\ t.bundle
    \/ p = "nokia_srlinux" /\ ~t.encapsulated

(* The modes it has no word for.                                           *)
Unread == [arista_eos    |-> {"trunk_all"}, cisco_iosxe |-> {"trunk_all", "qinq"},
           juniper_junos |-> {}, nokia_srlinux |-> {"trunk", "trunk_all", "qinq"}]

(* Two lists of one port: the unit 0 hides what is listed under the name.  *)
Unasked(t, a) ==
    \/ a.unit = "other"
    \/ a.unit = "bare" /\ \E b \in t.addresses : b.unit = "zero"

(* The fields that read otherwise on the device than they are documented.  *)
Misread(p, t, f) ==
    \/ /\ f = "ip_addresses"
       /\ \E a \in t.addresses : \A b \in t.addresses :
              b.address = a.address => b.family # "ipv4" \/ (p = "juniper_junos" /\ Unasked(t, b))
    \/ f = "mode" /\ t.switching # "routed" /\ (Overlooked(p, t) \/ t.switching \in Unread[p])
    \/ f = "untagged_vlan" /\ t.untagged # {} /\ (Overlooked(p, t) \/ t.switching # "access")
    \/ f = "untagged_vlan" /\ p = "nokia_srlinux" /\ t.switching = "trunk"
    \/ f = "tagged_vlans" /\ t.tagged # {} /\ (Overlooked(p, t) \/ p = "nokia_srlinux")
    \/ f = "name" /\ p = "nokia_srlinux" /\ t.macvrf # t.name
    \/ /\ f = "session_state" /\ ~t.summarised
       /\ \/ p \in Switches
          \/ p = "juniper_junos" /\ t.state \notin {"established", "idle"}
    \/ f = "interface" /\ p = "juniper_junos" /\ t.interface.unit # "none"
    \/ f = "area" /\ t.area.form # "dotted"
    \/ f = "adjacency_state" /\ t.shown # t.state /\ p # "cisco_iosxe"
=============================================================================

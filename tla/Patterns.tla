------------------------------ MODULE Patterns ------------------------------
(***************************************************************************)
(* Pattern files and known_issues: validating patterns (schema.py), their  *)
(* import as an upsert by fingerprint (loader.py, importer.py) and the     *)
(* export of the table as a bundle of patterns (exporter.py).              *)
(*                                                                         *)
(* A fingerprint is <<object type, field, drift kind>>.  A table is a      *)
(* function on the fingerprints it has a row for; a bundle, or a directory *)
(* of files, a function on its positions.  The order of an export is that  *)
(* of the fingerprints, so they are its positions, and two exports are     *)
(* equal bytes when they are equal functions.  A pattern's name and        *)
(* vendors are stored nowhere; an exported one is named by its position.   *)
(* The normalised fingerprint of a row is left out: no import writes it.   *)
(***************************************************************************)

EXTENDS Fingerprints

CONSTANTS
    Blank,     \* the empty values: texts without a character, empty lists
    Null,      \* YAML's null
    Barred     \* fields with a `|' in them, which separates fingerprints

Platform == {"arista_eos", "cisco_iosxe", "nokia_srlinux", "juniper_junos"}

OPERATIONAL_FIELDS == {"session_state", "adjacency_state", "tunnel_state"}

-----------------------------------------------------------------------------
(* PatternSchema.  A platform's body is a function on the keys it has.     *)

Given(b, k) == k \in DOMAIN b /\ b[k] # Null

ValidBody(b) ==
    /\ DOMAIN b \subseteq {"transport", "body", "updates"} /\ "transport" \in DOMAIN b
    /\ \/ /\ b["transport"] = "cli" /\ ~Given(b, "updates")
          /\ Given(b, "body") /\ b["body"] \notin Blank
       \/ /\ b["transport"] = "gnmi" /\ ~Given(b, "body")
          /\ Given(b, "updates") /\ b["updates"] \notin Blank

Nothing == [p \in {} |-> Null]
NoFix   == [kind |-> "null", by_platform |-> Nothing]
Restore == [kind |-> "restore_intent", by_platform |-> Nothing]

ValidRemediation(r) ==
    \/ r \in {NoFix, Restore}
    \/ /\ r.kind = "raw_snippet"
       /\ DOMAIN r.by_platform # {} /\ DOMAIN r.by_platform \subseteq Platform
       /\ \A p \in DOMAIN r.by_platform : ValidBody(r.by_platform[p])

Valid(p) ==
    /\ p.type \in ObjectTypes
    /\ p.kinds # {} /\ p.kinds \subseteq DriftKinds
    /\ {p.field, p.cause, p.fix} \cap Blank = {}
    /\ ValidRemediation(p.remediation)
    /\ p.field \in OPERATIONAL_FIELDS => p.remediation = NoFix

-----------------------------------------------------------------------------
(* Import                                                                  *)

(* As differ's own records have them, with `_' for an identifier.          *)
FingerprintsOf(p) ==
    {Fingerprint([object |-> [type |-> p.type, id |-> "_"], field |-> p.field,
                  drift_kind |-> k]) : k \in p.kinds}

Collision(b) ==
    \E m, n \in DOMAIN b :
        m # n /\ FingerprintsOf(b[m]) \cap FingerprintsOf(b[n]) # {}

(* PatternError, before any row is written.                                *)
Refused(b) == (\E n \in DOMAIN b : ~Valid(b[n])) \/ Collision(b)

(* model_dump(exclude_none=True)                                           *)
Dumped(b) == [k \in {j \in DOMAIN b : b[j] # Null} |-> b[k]]

Stored(r) ==
    [kind |-> r.kind,
     by_platform |-> [p \in DOMAIN r.by_platform |-> Dumped(r.by_platform[p])]]

Imported(b) == UNION {FingerprintsOf(b[n]) : n \in DOMAIN b}
Owner(b, f) == b[CHOOSE n \in DOMAIN b : f \in FingerprintsOf(b[n])]

RowOf(p, armed) ==
    [cause |-> p.cause, fix |-> p.fix, remediation |-> Stored(p.remediation),
     auto_apply_enabled |-> armed]

Armed(table, f) == IF f \in DOMAIN table THEN table[f].auto_apply_enabled ELSE FALSE

(* Rows are refreshed or inserted; the flag of a row is kept.              *)
Upserted(table, b) ==
    [f \in DOMAIN table \cup Imported(b) |->
        IF f \in Imported(b) THEN RowOf(Owner(b, f), Armed(table, f)) ELSE table[f]]

Import(table, b) == IF Refused(b) THEN table ELSE Upserted(table, b)

-----------------------------------------------------------------------------
(* Export                                                                  *)

Exported(r) ==
    IF r.kind = "restore_intent" THEN Restore
    ELSE IF r.kind = "raw_snippet"
         THEN [kind |-> "raw_snippet", by_platform |-> r.by_platform]
         ELSE NoFix

PatternOf(f, row) ==
    [type |-> f[1], field |-> f[2], kinds |-> {f[3]}, cause |-> row.cause,
     fix |-> row.fix, remediation |-> Exported(row.remediation)]

(* A row that no pattern can express is left out.                          *)
Expressible(f, row) == f[2] \notin Barred /\ Valid(PatternOf(f, row))

Export(table) ==
    [f \in {g \in DOMAIN table : Expressible(g, table[g])} |-> PatternOf(f, table[f])]
=============================================================================

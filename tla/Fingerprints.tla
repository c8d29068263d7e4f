---------------------------- MODULE Fingerprints ----------------------------
(***************************************************************************)
(* The identity of a drift (fingerprint.py): the exact fingerprint every   *)
(* match uses, and the normalised one of the fuzzy fallback, which keeps a *)
(* token for the identifier of the object.                                 *)
(*                                                                         *)
(* An object is its type and its identifier, NoId for config and device.   *)
(* A normalised fingerprint is <<type, token, field, drift kind>> with ""  *)
(* for a token it does not have; a similarity is a fraction, as a pair.    *)
(***************************************************************************)
EXTENDS Integers, FiniteSets

CONSTANTS
    NoId,      \* the identifier of an object that has none
    Class,     \* Class[id]: what _SLOT_NUMERIC leaves of an identifier
    NoMatch    \* fuzzy_match's (None, 0.0)

ObjectTypes == {"interface", "vlan", "bgp_neighbor", "ospf_adjacency", "config",
                "device", "tunnel"}
DriftKinds  == {"value_mismatch", "missing_in_intent", "missing_in_reality"}

Fingerprint(d) == <<d.object.type, d.field, d.drift_kind>>

-----------------------------------------------------------------------------
(* Normalisation                                                           *)

IDENTIFIER_TOKEN ==
    [bgp_neighbor |-> "{IP}", ospf_adjacency |-> "{ROUTER_ID}", vlan |-> "{VLAN_ID}"]

Classed == {"interface", "tunnel"}

TokenOf(o) ==
    IF o.id = NoId THEN ""
    ELSE IF o.type \in DOMAIN IDENTIFIER_TOKEN THEN IDENTIFIER_TOKEN[o.type]
    ELSE IF o.type \notin Classed THEN "{ID}"
    ELSE IF Class[o.id] = "" THEN "{IFACE}" ELSE Class[o.id]

FuzzyFingerprint(d) == <<d.object.type, TokenOf(d.object), d.field, d.drift_kind>>

(* From an exact fingerprint, whose object is gone.                        *)
BackfillToken(type) ==
    IF type \in DOMAIN IDENTIFIER_TOKEN THEN IDENTIFIER_TOKEN[type]
    ELSE IF type \in Classed THEN "{IFACE}" ELSE ""

NormalizeFingerprint(fp) == <<fp[1], BackfillToken(fp[1]), fp[2], fp[3]>>

-----------------------------------------------------------------------------
(* Similarity                                                              *)

Tokens(fp) == {fp[1], fp[2], fp[3], fp[4]} \ {""}

FuzzySimilarity(a, b) ==
    IF a = b THEN <<1, 1>>
    ELSE IF Tokens(a) = {} \/ Tokens(b) = {} THEN <<0, 1>>
    ELSE <<Cardinality(Tokens(a) \cap Tokens(b)), Cardinality(Tokens(a) \cup Tokens(b))>>

AtLeast(s, t) == s[1] * t[2] >= t[1] * s[2]

DEFAULT_FUZZY_THRESHOLD == <<7, 10>>

(* The first of the best candidates, which come in a sequence.             *)
Best(target, cands) ==
    CHOOSE n \in DOMAIN cands :
        /\ \A m \in DOMAIN cands :
              AtLeast(FuzzySimilarity(target, cands[n]), FuzzySimilarity(target, cands[m]))
        /\ \A m \in DOMAIN cands :
              m < n => ~AtLeast(FuzzySimilarity(target, cands[m]),
                                FuzzySimilarity(target, cands[n]))

FuzzyMatch(target, cands, threshold) ==
    IF \E n \in DOMAIN cands : /\ FuzzySimilarity(target, cands[n])[1] > 0
                               /\ AtLeast(FuzzySimilarity(target, cands[n]), threshold)
    THEN cands[Best(target, cands)] ELSE NoMatch

-----------------------------------------------------------------------------
(* The known issue shown with a drift.  Issues come in a sequence; one has *)
(* a fingerprint and, or NoMatch, a normalised one.                        *)

Candidates(issues) ==
    [n \in {m \in DOMAIN issues : issues[m].normalized # NoMatch} |-> issues[n].normalized]

FuzzyIssue(issues, d, threshold) ==
    LET found == FuzzyMatch(FuzzyFingerprint(d), Candidates(issues), threshold)
        alike == {n \in DOMAIN Candidates(issues) : issues[n].normalized = found}
    IN  IF found = NoMatch THEN NoMatch
        ELSE issues[CHOOSE n \in alike : \A m \in alike : m <= n]

MatchedIssue(issues, d, fuzzy_on, threshold) ==
    IF \E n \in DOMAIN issues : issues[n].fingerprint = Fingerprint(d)
    THEN issues[CHOOSE n \in DOMAIN issues : issues[n].fingerprint = Fingerprint(d)]
    ELSE IF fuzzy_on THEN FuzzyIssue(issues, d, threshold) ELSE NoMatch
=============================================================================

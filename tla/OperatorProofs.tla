--------------------------- MODULE OperatorProofs ---------------------------
(***************************************************************************)
(* Theorems about the operators: the fingerprints of drifts, the pattern   *)
(* library, the documents that the sources of truth and the collectors     *)
(* make of one network, the inventory, and the triage of a drift.          *)
(***************************************************************************)
EXTENDS Patterns, Readings, Inventory, Triage,
        FiniteSetTheorems, WellFoundedInduction, NaturalsInduction, TLAPS

-----------------------------------------------------------------------------
(* Fingerprints: what the normalised ones add to the exact ones.           *)

(* Drifts over the fields F: no word of a fingerprint serves two of its    *)
(* parts, but for the field "interface" of an adjacency.                   *)
Vocabulary(F) ==
    F \cap DriftKinds = {} /\ F \cap ObjectTypes \subseteq {"interface"} /\ "" \notin F

IsToken(F, w) == w \notin F \cup ObjectTypes \cup DriftKinds

IsDrift(F, d) ==
    /\ d.object.type \in ObjectTypes /\ d.drift_kind \in DriftKinds
    /\ d.field \in F /\ d.field # d.object.type
    /\ IsToken(F, TokenOf(d.object))

(* What the rows of an issue with this fingerprint may hold: the API's own *)
(* normalisation of a drift, or one derived from the fingerprint.          *)
NormalizedOf(F, fp, n) ==
    \/ \E e : IsDrift(F, e) /\ Fingerprint(e) = fp /\ n = FuzzyFingerprint(e)
    \/ /\ n = NormalizeFingerprint(fp) /\ fp = <<fp[1], fp[2], fp[3]>>
       /\ fp[1] \in ObjectTypes /\ fp[2] \in F /\ fp[3] \in DriftKinds /\ fp[2] # fp[1]
       /\ IsToken(F, BackfillToken(fp[1]))

(* The backfill of an issue is the fuzzy fingerprint of every drift it is  *)
(* about, except for interfaces and tunnels (fingerprint.py:104).          *)
THEOREM BackfillIsFuzzy ==
  ASSUME NEW d,
         \/ d.object.type \in DOMAIN IDENTIFIER_TOKEN /\ d.object.id # NoId
         \/ d.object.type \in {"config", "device"} /\ d.object.id = NoId
  PROVE  NormalizeFingerprint(Fingerprint(d)) = FuzzyFingerprint(d)
<1>1. BackfillToken(d.object.type) = TokenOf(d.object)
  BY DEF BackfillToken, TokenOf, IDENTIFIER_TOKEN, Classed
<1> QED  BY <1>1 DEF NormalizeFingerprint, Fingerprint, FuzzyFingerprint

(* Drifts alike to the fuzzy match are alike to the exact one.             *)
THEOREM FuzzyRefinesExact ==
  ASSUME NEW d, NEW e, FuzzyFingerprint(d) = FuzzyFingerprint(e)
  PROVE  Fingerprint(d) = Fingerprint(e)
BY DEF FuzzyFingerprint, Fingerprint

LEMMA FewTokens ==
  ASSUME NEW a, NEW b, NEW c, NEW d
  PROVE  IsFiniteSet({a, b, c, d} \ {""}) /\ Cardinality({a, b, c, d} \ {""}) <= 4
<1>1. IsFiniteSet({d}) /\ Cardinality({d}) = 1
  BY FS_Singleton
<1>2. IsFiniteSet({d} \cup {c}) /\ Cardinality({d} \cup {c}) \in 1..2
  BY <1>1, FS_AddElement
<1>3. IsFiniteSet(({d} \cup {c}) \cup {b}) /\ Cardinality(({d} \cup {c}) \cup {b}) \in 1..3
  BY <1>2, FS_AddElement
<1>4. /\ IsFiniteSet((({d} \cup {c}) \cup {b}) \cup {a})
      /\ Cardinality((({d} \cup {c}) \cup {b}) \cup {a}) \in 1..4
  BY <1>3, FS_AddElement
<1>5. (({d} \cup {c}) \cup {b}) \cup {a} = {a, b, c, d}
  OBVIOUS
<1>6. IsFiniteSet({a, b, c, d}) /\ Cardinality({a, b, c, d}) \in 1..4
  BY <1>4, <1>5
<1>7. ASSUME NEW Q, IsFiniteSet(Q), Cardinality(Q) \in 1..4, NEW x
      PROVE  IsFiniteSet(Q \ {x}) /\ Cardinality(Q \ {x}) <= 4
  <2>1. /\ IsFiniteSet(Q \ {x})
        /\ Cardinality(Q \ {x}) = IF x \in Q THEN Cardinality(Q) - 1 ELSE Cardinality(Q)
    BY <1>7, FS_RemoveElement
  <2> QED  BY <1>7, <2>1
<1> QED  BY ONLY <1>6, <1>7

(* Of two sets of at most four, a similarity above 3/5 needs one of them   *)
(* to contain the other.                                                   *)
LEMMA SimilarIsContained ==
  ASSUME NEW A, NEW B, IsFiniteSet(A), IsFiniteSet(B),
         Cardinality(A) <= 4, Cardinality(B) <= 4,
         5 * Cardinality(A \cap B) > 3 * Cardinality(A \cup B)
  PROVE  A \subseteq B \/ B \subseteq A
<1>1. SUFFICES ASSUME ~(A \subseteq B), ~(B \subseteq A)  PROVE  FALSE
  OBVIOUS
<1>2. /\ IsFiniteSet(A \cap B)
      /\ Cardinality(A \cap B) <= Cardinality(A) /\ Cardinality(A \cap B) # Cardinality(A)
  BY <1>1, FS_Subset
<1>3. Cardinality(A \cap B) <= Cardinality(B) /\ Cardinality(A \cap B) # Cardinality(B)
  BY <1>1, FS_Subset
<1>4. Cardinality(A \cup B) = Cardinality(A) + Cardinality(B) - Cardinality(A \cap B)
  BY FS_Union
<1>5. Cardinality(A) \in Nat /\ Cardinality(B) \in Nat /\ Cardinality(A \cap B) \in Nat
  BY <1>2, FS_CardinalityType
<1> QED  BY <1>2, <1>3, <1>4, <1>5

Words(F, t, w, f, k) ==
    t \in ObjectTypes /\ IsToken(F, w) /\ f \in F /\ k \in DriftKinds /\ f # t

Contained(t, w, f, k, u, v, g, l) == {t, w, f, k} \ {""} \subseteq {u, v, g, l} \ {""}

(* If the words of one fingerprint are among those of another, the type,   *)
(* the field and the kind are the same.                                    *)
LEMMA ContainedIsEqual ==
  ASSUME NEW F, Vocabulary(F),
         NEW t, NEW w, NEW f, NEW k, Words(F, t, w, f, k),
         NEW u, NEW v, NEW g, NEW l, Words(F, u, v, g, l),
         Contained(t, w, f, k, u, v, g, l)
  PROVE  t = u /\ f = g /\ k = l
<1> USE DEF Words
<1>1. t # "" /\ f # "" /\ k # ""
  BY DEF Vocabulary, ObjectTypes, DriftKinds
<1>2. {t, f, k} \subseteq {u, v, g, l}
  BY <1>1 DEF Contained
<1>3. v \notin {t, f, k}
  BY DEF IsToken
<1>4. {t, f, k} \subseteq {u, g, l}
  BY <1>2, <1>3
<1>5. ObjectTypes \cap DriftKinds = {}
  BY DEF ObjectTypes, DriftKinds
<1>6. k = l /\ t # l /\ f # l
  BY <1>4, <1>5 DEF Vocabulary
<1>7. {t, f} \subseteq {u, g}
  BY <1>4, <1>6
<1>8. CASE t = u
  BY <1>6, <1>7, <1>8
<1>9. CASE t # u
  <2>1. t = g /\ f = u
    BY <1>7, <1>9
  <2>2. t = "interface" /\ f = "interface"
    BY <2>1 DEF Vocabulary
  <2> QED  BY <2>2
<1> QED  BY <1>8, <1>9

(* A drift more similar than 3/5 to an issue has its exact fingerprint.    *)
THEOREM SimilarEnoughIsExact ==
  ASSUME NEW F, Vocabulary(F), NEW d, IsDrift(F, d),
         NEW fp, NEW n, NormalizedOf(F, fp, n),
         NEW p \in Nat, NEW q \in Nat, 5 * p > 3 * q,
         AtLeast(FuzzySimilarity(FuzzyFingerprint(d), n), <<p, q>>)
  PROVE  Fingerprint(d) = fp
<1>1. PICK u, v, g, l :
        /\ u \in ObjectTypes /\ IsToken(F, v) /\ g \in F /\ l \in DriftKinds
        /\ n = <<u, v, g, l>> /\ fp = <<u, g, l>> /\ g # u
  <2>1. CASE \E e : IsDrift(F, e) /\ Fingerprint(e) = fp /\ n = FuzzyFingerprint(e)
    <3>1. PICK e : IsDrift(F, e) /\ Fingerprint(e) = fp /\ n = FuzzyFingerprint(e)
      BY <2>1
    <3> QED  BY <3>1 DEF IsDrift, Fingerprint, FuzzyFingerprint
  <2>2. CASE /\ n = NormalizeFingerprint(fp) /\ fp = <<fp[1], fp[2], fp[3]>>
             /\ fp[1] \in ObjectTypes /\ fp[2] \in F /\ fp[3] \in DriftKinds /\ fp[2] # fp[1]
             /\ IsToken(F, BackfillToken(fp[1]))
    BY <2>2 DEF NormalizeFingerprint
  <2> QED  BY <2>1, <2>2 DEF NormalizedOf
<1> DEFINE t == d.object.type
           w == TokenOf(d.object)
           f == d.field
           k == d.drift_kind
           A == Tokens(FuzzyFingerprint(d))
           B == Tokens(n)
<1>2. A = {t, w, f, k} \ {""} /\ B = {u, v, g, l} \ {""}
  BY <1>1 DEF Tokens, FuzzyFingerprint
<1>3. /\ IsFiniteSet(A) /\ Cardinality(A) <= 4
      /\ IsFiniteSet(B) /\ Cardinality(B) <= 4
  <2>1. IsFiniteSet({t, w, f, k} \ {""}) /\ Cardinality({t, w, f, k} \ {""}) <= 4
    BY FewTokens
  <2>2. IsFiniteSet({u, v, g, l} \ {""}) /\ Cardinality({u, v, g, l} \ {""}) <= 4
    BY FewTokens
  <2> QED  BY <1>2, <2>1, <2>2
<1>4. k \in A /\ l \in B
  BY <1>1, <1>2 DEF IsDrift, DriftKinds
<1>5. A \subseteq B \/ B \subseteq A
  <2>1. CASE FuzzyFingerprint(d) = n
    BY <2>1
  <2>2. CASE FuzzyFingerprint(d) # n
    <3>1. FuzzySimilarity(FuzzyFingerprint(d), n) =
            <<Cardinality(A \cap B), Cardinality(A \cup B)>>
      BY <1>4, <2>2 DEF FuzzySimilarity
    <3>2. Cardinality(A \cap B) * q >= p * Cardinality(A \cup B)
      BY <3>1 DEF AtLeast
    <3>3. IsFiniteSet(A \cap B) /\ IsFiniteSet(A \cup B) /\ A \cup B # {}
      BY <1>3, <1>4, FS_Intersection, FS_Union
    <3>4. /\ Cardinality(A \cap B) \in Nat
          /\ Cardinality(A \cup B) \in Nat /\ Cardinality(A \cup B) # 0
      BY <3>3, FS_CardinalityType, FS_EmptySet
    <3>5. 5 * Cardinality(A \cap B) > 3 * Cardinality(A \cup B)
      BY <3>2, <3>4
    <3> QED  BY <1>3, <3>5, SimilarIsContained
  <2> QED  BY <2>1, <2>2
<1>6. Words(F, t, w, f, k) /\ Words(F, u, v, g, l)
  BY <1>1 DEF IsDrift, Words
<1>7. t = u /\ f = g /\ k = l
  <2> HIDE DEF t, w, f, k
  <2>1. CASE A \subseteq B
    <3>1. Contained(t, w, f, k, u, v, g, l)
      BY <1>2, <2>1 DEF Contained
    <3> QED  BY <1>6, <3>1, ContainedIsEqual
  <2>2. CASE B \subseteq A
    <3>1. Contained(u, v, g, l, t, w, f, k)
      BY <1>2, <2>2 DEF Contained
    <3> QED  BY <1>6, <3>1, ContainedIsEqual
  <2> QED  BY <1>5, <2>1, <2>2
<1> QED  BY <1>1, <1>7 DEF Fingerprint

(* The list of drifts looks for a fuzzy match only where no issue has the  *)
(* exact fingerprint (app.py:517-527).  With a threshold above 3/5, as the *)
(* default is, it never finds one: switching it on changes no match.       *)
THEOREM FuzzyFallbackIsIdle ==
  ASSUME NEW F, Vocabulary(F), NEW d, IsDrift(F, d), NEW issues,
         \A n \in DOMAIN issues :
             \/ issues[n].normalized = NoMatch
             \/ NormalizedOf(F, issues[n].fingerprint, issues[n].normalized),
         NEW p \in Nat, NEW q \in Nat, 5 * p > 3 * q
  PROVE  MatchedIssue(issues, d, TRUE, <<p, q>>) = MatchedIssue(issues, d, FALSE, <<p, q>>)
<1>1. SUFFICES ASSUME \A n \in DOMAIN issues : issues[n].fingerprint # Fingerprint(d)
               PROVE  FuzzyIssue(issues, d, <<p, q>>) = NoMatch
  BY DEF MatchedIssue
<1> DEFINE cands == Candidates(issues)
<1>2. ASSUME NEW n \in DOMAIN cands
      PROVE  ~AtLeast(FuzzySimilarity(FuzzyFingerprint(d), cands[n]), <<p, q>>)
  <2>1. n \in DOMAIN issues /\ cands[n] = issues[n].normalized /\ cands[n] # NoMatch
    BY <1>2 DEF Candidates
  <2>2. NormalizedOf(F, issues[n].fingerprint, cands[n])
    BY <2>1
  <2> QED  BY <1>1, <2>1, <2>2, SimilarEnoughIsExact
<1>3. FuzzyMatch(FuzzyFingerprint(d), cands, <<p, q>>) = NoMatch
  BY <1>2 DEF FuzzyMatch
<1> QED  BY <1>3 DEF FuzzyIssue

-----------------------------------------------------------------------------
(* Patterns: what the export and the import promise to each other.         *)

IsTable(t) ==
    /\ t = [f \in DOMAIN t |-> t[f]]
    /\ \A f \in DOMAIN t : f = <<f[1], f[2], f[3]>>

Empty == [f \in {} |-> Null]

(* No body of the table has a key with a null value.  An import stores no  *)
(* such key; a request of the API may.                                     *)
WithoutNulls(t) ==
    \A f \in DOMAIN t :
        LET r == Exported(t[f].remediation)
        IN  r = [kind |-> r.kind,
                 by_platform |-> [p \in DOMAIN r.by_platform |-> Dumped(r.by_platform[p])]]

(* An exported pattern stands for the fingerprint of its row.              *)
LEMMA ExportedFingerprint ==
  ASSUME NEW t, IsTable(t), NEW f \in DOMAIN Export(t)
  PROVE  /\ f \in DOMAIN t /\ f[2] \notin Barred
         /\ Export(t)[f] = PatternOf(f, t[f]) /\ Valid(PatternOf(f, t[f]))
         /\ FingerprintsOf(Export(t)[f]) = {f}
<1>1. /\ f \in DOMAIN t /\ f[2] \notin Barred
      /\ Export(t)[f] = PatternOf(f, t[f]) /\ Valid(PatternOf(f, t[f]))
  BY DEF Export, Expressible
<1>2. FingerprintsOf(PatternOf(f, t[f])) = {<<f[1], f[2], f[3]>>}
  BY DEF FingerprintsOf, Fingerprint, PatternOf
<1> QED  BY <1>1, <1>2 DEF IsTable

(* The export of any table is accepted by the import: every pattern in it  *)
(* is valid and no two collide (exporter.py:26).                           *)
THEOREM ExportIsImportable ==
  ASSUME NEW t, IsTable(t)
  PROVE  ~Refused(Export(t))
<1>1. ASSUME NEW f \in DOMAIN Export(t)  PROVE  Valid(Export(t)[f])
  BY <1>1, ExportedFingerprint
<1>2. ASSUME NEW f \in DOMAIN Export(t), NEW g \in DOMAIN Export(t), f # g
      PROVE  FingerprintsOf(Export(t)[f]) \cap FingerprintsOf(Export(t)[g]) = {}
  BY <1>2, ExportedFingerprint
<1> QED  BY <1>1, <1>2 DEF Refused, Collision

(* Importing an export into an empty table stores each row as its pattern  *)
(* says.                                                                   *)
LEMMA Reimported ==
  ASSUME NEW t, IsTable(t)
  PROVE  Import(Empty, Export(t)) =
           [f \in DOMAIN Export(t) |-> RowOf(PatternOf(f, t[f]), FALSE)]
<1> DEFINE b == Export(t)
<1>1. Imported(b) = DOMAIN b
  BY ExportedFingerprint DEF Imported
<1>2. ASSUME NEW f \in DOMAIN b  PROVE  Owner(b, f) = PatternOf(f, t[f])
  <2>1. ASSUME NEW n \in DOMAIN b  PROVE  f \in FingerprintsOf(b[n]) <=> n = f
    BY ExportedFingerprint
  <2>2. (CHOOSE n \in DOMAIN b : f \in FingerprintsOf(b[n])) = f
    BY <2>1
  <2> QED  BY <2>2, ExportedFingerprint DEF Owner
<1>3. DOMAIN Empty = {} /\ \A f : Armed(Empty, f) = FALSE
  BY DEF Empty, Armed
<1>4. Upserted(Empty, b) = [f \in DOMAIN b |-> RowOf(PatternOf(f, t[f]), FALSE)]
  BY <1>1, <1>2, <1>3 DEF Upserted
<1> QED  BY <1>4, ExportIsImportable DEF Import

(* export, wipe, import, export: the second export is the first, byte by   *)
(* byte, if no body carries a null (exporter.py:6, app.py:714).            *)
THEOREM RoundTrip ==
  ASSUME NEW t, IsTable(t), WithoutNulls(t)
  PROVE  Export(Import(Empty, Export(t))) = Export(t)
<1> DEFINE s == Import(Empty, Export(t))
<1>1. /\ DOMAIN s = DOMAIN Export(t)
      /\ \A f \in DOMAIN s : s[f] = RowOf(PatternOf(f, t[f]), FALSE)
  BY Reimported
<1>2. ASSUME NEW f \in DOMAIN Export(t)
      PROVE  PatternOf(f, s[f]) = PatternOf(f, t[f])
  <2> DEFINE r == Exported(t[f].remediation)
  <2>1. Stored(r) = r
    BY <1>2, ExportedFingerprint DEF WithoutNulls, Stored
  <2>2. s[f].remediation = r /\ s[f].cause = t[f].cause /\ s[f].fix = t[f].fix
    BY <1>1, <1>2, <2>1 DEF RowOf, PatternOf
  <2>3. Exported(r) = r
    BY DEF Exported, Restore, NoFix
  <2> QED  BY <2>2, <2>3 DEF PatternOf
<1>3. ASSUME NEW f \in DOMAIN Export(t)  PROVE  Expressible(f, s[f])
  BY <1>2, <1>3, ExportedFingerprint DEF Expressible
<1>4. Export(s) = [f \in DOMAIN Export(t) |-> PatternOf(f, t[f])]
  BY <1>1, <1>2, <1>3 DEF Export
<1>5. Export(t) = [f \in DOMAIN Export(t) |-> PatternOf(f, t[f])]
  BY DEF Export
<1> QED  BY <1>4, <1>5

(* Importing the same files twice is importing them once (importer.py,     *)
(* repository.py:314), whatever the table holds.                           *)
THEOREM ImportIsIdempotent ==
  ASSUME NEW t, NEW b
  PROVE  Import(Import(t, b), b) = Import(t, b)
<1>1. CASE Refused(b)
  BY <1>1 DEF Import
<1>2. CASE ~Refused(b)
  <2> DEFINE u == Upserted(t, b)
  <2>1. DOMAIN u = DOMAIN t \cup Imported(b)
    BY DEF Upserted
  <2>2. ASSUME NEW f \in Imported(b)
        PROVE  RowOf(Owner(b, f), Armed(u, f)) = u[f]
    <3>1. u[f] = RowOf(Owner(b, f), Armed(t, f)) /\ f \in DOMAIN u
      BY <2>1, <2>2 DEF Upserted
    <3>2. Armed(u, f) = Armed(t, f)
      BY <3>1 DEF RowOf, Armed
    <3> QED  BY <3>1, <3>2
  <2>3. Upserted(u, b) = [f \in DOMAIN u |-> u[f]]
    BY <2>1, <2>2 DEF Upserted
  <2>4. u = [f \in DOMAIN u |-> u[f]]
    BY DEF Upserted
  <2> QED  BY <1>2, <2>3, <2>4 DEF Import
<1> QED  BY <1>1, <1>2

-----------------------------------------------------------------------------
(* Readings: the documents of one network.                                 *)

(* The fields that differ between the two documents, block by block.       *)
LEMMA PortMisread ==
  ASSUME NEW T, IsTruth(T), NEW o \in DOMAIN T, o[1] = "interface",
         NEW p \in Platforms, Collects(p, T), NEW f \in FieldsOf(o)
  PROVE  Intended(o, T[o])[f] # Found(p, o, T[o])[f] <=> Misread(p, T[o], f)
<1> DEFINE t == T[o]
<1>1. IsPort(t) /\ (p = "arista_eos" => t.switching # "qinq")
  BY DEF IsTruth, Collects
<1>2. f \in {"enabled", "description", "ip_addresses", "mode", "untagged_vlan", "tagged_vlans"}
  BY DEF FieldsOf, Fields
<1>3. CASE f \in {"enabled", "description"}
  BY <1>3 DEF Intended, IntendedInterface, FromContext, Found, FoundInterface,
          Adjacency, Neighbor, Tunnel, Misread
<1>4. CASE f = "ip_addresses"
  <2>1. /\ Intended(o, t)[f] = {a.address : a \in t.addresses}
        /\ Found(p, o, t)[f] = Addresses(p, t)
    BY <1>4 DEF Intended, IntendedInterface, FromContext, Found, FoundInterface,
          Adjacency, Neighbor, Tunnel
  <2>2. \A a \in t.addresses :
            a \in Asked(p, t) <=> ~(p = "juniper_junos" /\ Unasked(t, a))
    BY <1>1 DEF IsPort, Asked, Under, Unasked
  <2>3. Asked(p, t) \subseteq t.addresses
    BY DEF Asked, Under
  <2>4. Misread(p, t, f) <=>
            \E a \in t.addresses : \A b \in t.addresses :
                b.address = a.address => b.family # "ipv4" \/ b \notin Asked(p, t)
    BY <1>4, <2>2 DEF Misread
  <2>5. Addresses(p, t) = {a.address : a \in {b \in Asked(p, t) : b.family = "ipv4"}}
    BY DEF Addresses
  <2> DEFINE Told == {a.address : a \in t.addresses}
             Read == {a.address : a \in {b \in Asked(p, t) : b.family = "ipv4"}}
  <2>6. Read \subseteq Told
    BY <2>3
  <2>7. Told \subseteq Read <=> ~Misread(p, t, f)
    BY <2>3, <2>4
  <2>8. Intended(o, t)[f] = Told /\ Found(p, o, t)[f] = Read
    BY <2>1, <2>5
  <2> HIDE DEF Told, Read
  <2>9. Told # Read <=> Misread(p, t, f)
    BY <2>6, <2>7
  <2> QED  BY <2>8, <2>9
<1>5. CASE f = "mode"
  <2>1. Intended(o, t)[f] = {ModeLabel[t.switching]} /\ Found(p, o, t)[f] = {Port(p, t).mode}
    BY <1>5 DEF Intended, IntendedInterface, FromContext, Found, FoundInterface,
          Adjacency, Neighbor, Tunnel
  <2>2. Misread(p, t, f) <=>
            t.switching # "routed" /\ (Overlooked(p, t) \/ t.switching \in Unread[p])
    BY <1>5 DEF Misread
  <2>3. ModeLabel[t.switching] # Port(p, t).mode
            <=> t.switching # "routed" /\ (Overlooked(p, t) \/ t.switching \in Unread[p])
    BY <1>1 DEF IsPort, ModeLabel, Port, AristaPort, CiscoPort, NokiaPort, HasTag,
                Unread, Overlooked, Platforms, RoutedPort, AccessPort, TrunkPort
  <2> QED  BY <2>1, <2>2, <2>3
<1>6. CASE f \in {"untagged_vlan", "tagged_vlans"}
  <2>1. /\ Intended(o, t).untagged_vlan = t.untagged /\ Intended(o, t).tagged_vlans = t.tagged
        /\ Found(p, o, t).untagged_vlan = Port(p, t).untagged
        /\ Found(p, o, t).tagged_vlans = Port(p, t).tagged
    BY DEF Intended, IntendedInterface, FromContext, Found, FoundInterface,
          Adjacency, Neighbor, Tunnel
  <2>2. t.switching = "access" => t.untagged = {FirstVlan(t)}
    BY <1>1 DEF IsPort, FirstVlan
  <2>3. t.switching = "trunk" => FirstVlan(t) \notin t.untagged
    <3>1. t.switching = "trunk" => FirstVlan(t) = CHOOSE v \in t.tagged : TRUE
      BY DEF FirstVlan
    <3> QED  BY <1>1, <3>1 DEF IsPort
  <2>4. t.untagged # Port(p, t).untagged <=> Misread(p, t, "untagged_vlan")
    BY <1>1, <2>2, <2>3 DEF IsPort, ModeLabel, Port, AristaPort, CiscoPort,
                NokiaPort, HasTag, Misread, Overlooked, Platforms, RoutedPort,
                AccessPort, TrunkPort
  <2>5. t.tagged # Port(p, t).tagged <=> Misread(p, t, "tagged_vlans")
    BY <1>1 DEF IsPort, ModeLabel, Port, AristaPort, CiscoPort,
                NokiaPort, HasTag, Misread, Overlooked, Platforms, RoutedPort,
                AccessPort, TrunkPort
  <2> QED  BY <1>6, <2>1, <2>4, <2>5
<1> QED  BY <1>2, <1>3, <1>4, <1>5, <1>6

LEMMA TheBlocks ==
  Blocks = {"interface", "vlan", "bgp_neighbor", "ospf_adjacency", "tunnel"}
BY DEF Blocks, Fields

LEMMA OtherMisread ==
  ASSUME NEW T, IsTruth(T), NEW o \in DOMAIN T, o[1] # "interface",
         NEW p \in Platforms, NEW f \in FieldsOf(o)
  PROVE  Intended(o, T[o])[f] # Found(p, o, T[o])[f] <=> Misread(p, T[o], f)
<1> DEFINE t == T[o]
<1>1. o[1] \in Blocks
  BY DEF IsTruth
<1>2. CASE o[1] = "vlan"
  <2>1. f = "name"
    BY <1>2 DEF FieldsOf, Fields
  <2> QED  BY <1>2, <2>1 DEF Intended, IntendedInterface, FromContext, Found, FoundInterface,
          Adjacency, Neighbor, Tunnel, Misread
<1>3. CASE o[1] = "bgp_neighbor"
  <2>1. f \in {"enabled", "remote_as", "description", "session_state"}
    BY <1>3 DEF FieldsOf, Fields
  <2>2. t.state # "unknown" /\ t.summarised \in BOOLEAN
    BY <1>3 DEF IsTruth
  <2>3. CASE f = "session_state"
    <3>1. Intended(o, t)[f] = {t.state} /\ Found(p, o, t)[f] = SessionState(p, t)
      BY <1>3, <2>3 DEF Intended, IntendedInterface, FromContext, Found, FoundInterface,
          Adjacency, Neighbor, Tunnel
    <3>2. Misread(p, t, f) <=>
              /\ ~t.summarised
              /\ \/ p \in Switches
                 \/ p = "juniper_junos" /\ t.state \notin {"established", "idle"}
      BY <2>3 DEF Misread
    <3>3. {t.state} # SessionState(p, t) <=>
              /\ ~t.summarised
              /\ \/ p \in Switches
                 \/ p = "juniper_junos" /\ t.state \notin {"established", "idle"}
      <4>1. CASE t.summarised /\ p # "nokia_srlinux"
        BY <4>1, <2>2 DEF Platforms, SessionState, AristaState, CiscoState, JunosState, Switches
      <4>2. CASE ~t.summarised /\ p = "arista_eos"
        BY <4>2 DEF SessionState, AristaState, CiscoState, JunosState, Switches
      <4>3. CASE ~t.summarised /\ p = "cisco_iosxe"
        BY <4>3, <2>2 DEF SessionState, AristaState, CiscoState, JunosState, Switches
      <4>4. CASE ~t.summarised /\ p = "juniper_junos"
        BY <4>4 DEF SessionState, AristaState, CiscoState, JunosState, Switches
      <4>5. CASE p = "nokia_srlinux"
        BY <4>5 DEF SessionState, Switches
      <4> QED  BY <4>1, <4>2, <4>3, <4>4, <4>5, <2>2 DEF Platforms
    <3> QED  BY <3>1, <3>2, <3>3
  <2> QED  BY <1>3, <2>1, <2>3 DEF Intended, IntendedInterface, FromContext, Found, FoundInterface,
          Adjacency, Neighbor, Tunnel, Misread
<1>4. CASE o[1] = "ospf_adjacency"
  <2>1. f \in {"area", "interface", "adjacency_state"}
    BY <1>4 DEF FieldsOf, Fields
  <2>2. /\ t.area \in [form : {"dotted", "number"}, number : Nat]
        /\ t.interface = [port |-> t.interface.port, unit |-> t.interface.unit]
        /\ t.state # "2way"
        /\ t.shown = t.state \/ (t.shown = "2way" /\ t.state = "2-way")
    BY <1>4 DEF IsTruth
  <2>3. CASE f = "area"
    <3>1. Dotted(t.area) = [form |-> "dotted", number |-> t.area.number]
      <4>1. t.area = [form |-> t.area.form, number |-> t.area.number]
        BY <2>2
      <4> QED  BY <4>1 DEF Dotted
    <3>2. t.area = Dotted(t.area) <=> t.area.form = "dotted"
      BY <2>2, <3>1
    <3>3. Intended(o, t)[f] = {t.area} /\ Found(p, o, t)[f] = {Dotted(t.area)}
      BY <1>4, <2>3 DEF Intended, IntendedInterface, FromContext, Found, FoundInterface,
          Adjacency, Neighbor, Tunnel
    <3>4. Misread(p, t, f) <=> t.area.form # "dotted"
      BY <2>3 DEF Misread
    <3> QED  BY <3>2, <3>3, <3>4
  <2>4. CASE f = "adjacency_state"
    <3>1. Intended(o, t)[f] = {t.state} /\ Found(p, o, t)[f] = {AdjacencyState(p, t)}
      BY <1>4, <2>4 DEF Intended, IntendedInterface, FromContext, Found, FoundInterface,
          Adjacency, Neighbor, Tunnel
    <3>2. Misread(p, t, f) <=> t.shown # t.state /\ p # "cisco_iosxe"
      BY <2>4 DEF Misread
    <3>3. t.state # AdjacencyState(p, t) <=> t.shown # t.state /\ p # "cisco_iosxe"
      BY <2>2 DEF AdjacencyState
    <3> QED  BY <3>1, <3>2, <3>3
  <2>5. CASE f = "interface"
    <3>1. /\ Intended(o, t)[f] = {t.interface}
          /\ Found(p, o, t)[f] = {AdjacencyInterface(p, t)}
      BY <1>4, <2>5 DEF Intended, IntendedInterface, FromContext, Found, FoundInterface,
          Adjacency, Neighbor, Tunnel
    <3>2. Misread(p, t, f) <=> p = "juniper_junos" /\ t.interface.unit # "none"
      BY <2>5 DEF Misread
    <3>3. [t.interface EXCEPT !.unit = "none"] = [port |-> t.interface.port, unit |-> "none"]
      BY <2>2
    <3>4. t.interface # AdjacencyInterface(p, t)
              <=> p = "juniper_junos" /\ t.interface.unit # "none"
      BY <2>2, <3>3 DEF AdjacencyInterface
    <3> QED  BY <3>1, <3>2, <3>4
  <2> QED  BY <2>1, <2>3, <2>4, <2>5
<1>5. CASE o[1] = "tunnel"
  <2>1. f \in {"type", "source", "destination", "enabled", "tunnel_state"}
    BY <1>5 DEF FieldsOf, Fields
  <2> QED  BY <1>5, <2>1 DEF Intended, IntendedInterface, FromContext, Found, FoundInterface,
          Adjacency, Neighbor, Tunnel, Misread
<1>6. o[1] \in {"interface", "vlan", "bgp_neighbor", "ospf_adjacency", "tunnel"}
  BY <1>1, TheBlocks
<1> QED  BY <1>2, <1>3, <1>4, <1>5, <1>6

LEMMA Misreadings ==
  ASSUME NEW T, IsTruth(T), NEW o \in DOMAIN T,
         NEW p \in Platforms, Collects(p, T), NEW f \in FieldsOf(o)
  PROVE  Intended(o, T[o])[f] # Found(p, o, T[o])[f] <=> Misread(p, T[o], f)
BY PortMisread, OtherMisread

(* A record says of which object and field it is.                          *)
Tells(d, o, f) == d.object = o /\ d.field = f

LEMMA LackingTells ==
  ASSUME NEW i, NEW r, NEW o, NEW f
  PROVE  (\E d \in Lacking(i, r) : Tells(d, o, f))
             <=> o \in DOMAIN i \ DOMAIN r /\ f = Presence[o[1]]
<1> DEFINE Rec(x) == Record(x, Presence[x[1]], {"present"}, {"absent"}, "missing_in_reality",
                            Missing(x[1]))
<1>1. \A x : Rec(x).object = x /\ Rec(x).field = Presence[x[1]]
  BY DEF Record
<1>2. Lacking(i, r) = {Rec(x) : x \in DOMAIN i \ DOMAIN r}
  BY DEF Lacking
<1> HIDE DEF Rec
<1> QED  BY <1>1, <1>2 DEF Tells

LEMMA ExtraTells ==
  ASSUME NEW i, NEW r, NEW o, NEW f
  PROVE  (\E d \in Extra(i, r) : Tells(d, o, f))
             <=> o \in DOMAIN r \ DOMAIN i /\ f = Presence[o[1]]
<1> DEFINE Rec(x) == Record(x, Presence[x[1]], {"absent"}, {"present"}, "missing_in_intent",
                            Undocumented(x[1]))
<1>1. \A x : Rec(x).object = x /\ Rec(x).field = Presence[x[1]]
  BY DEF Record
<1>2. Extra(i, r) = {Rec(x) : x \in DOMAIN r \ DOMAIN i}
  BY DEF Extra
<1> HIDE DEF Rec
<1> QED  BY <1>1, <1>2 DEF Tells

LEMMA ChangedTells ==
  ASSUME NEW i, NEW r, NEW o, NEW f
  PROVE  (\E d \in Changed(i, r) : Tells(d, o, f))
             <=> o \in DOMAIN i \cap DOMAIN r /\ f \in FieldsOf(o) /\ i[o][f] # r[o][f]
<1> DEFINE Rec(x, g) == Record(x, g, i[x][g], r[x][g], "value_mismatch",
                               Mismatch(x[1], g, i[x][g]))
           Of(x) == {Rec(x, g) : g \in {h \in FieldsOf(x) : i[x][h] # r[x][h]}}
<1>1. \A x, g : Rec(x, g).object = x /\ Rec(x, g).field = g
  BY DEF Record
<1>2. Changed(i, r) = UNION {Of(x) : x \in DOMAIN i \cap DOMAIN r}
  BY DEF Changed
<1> HIDE DEF Rec
<1>3. ASSUME NEW d \in Changed(i, r), Tells(d, o, f)
      PROVE  o \in DOMAIN i \cap DOMAIN r /\ f \in FieldsOf(o) /\ i[o][f] # r[o][f]
  BY <1>1, <1>2, <1>3 DEF Tells
<1>4. ASSUME o \in DOMAIN i \cap DOMAIN r, f \in FieldsOf(o), i[o][f] # r[o][f]
      PROVE  \E d \in Changed(i, r) : Tells(d, o, f)
  <2>1. Rec(o, f) \in Of(o)
    BY <1>4
  <2>2. Rec(o, f) \in Changed(i, r)
    BY <1>2, <1>4, <2>1
  <2> QED  BY <1>1, <2>2 DEF Tells
<1> QED  BY <1>3, <1>4

(* A device that is configured as it is documented shows drift exactly     *)
(* where an object is visible on one side only and in the fields that its  *)
(* collector misreads: for every platform and source, whatever blocks come *)
(* back empty.                                                             *)
THEOREM FalseDriftIsKnown ==
  ASSUME NEW T, IsTruth(T), NEW s \in Sources, NEW p \in Platforms, Collects(p, T),
         NEW empty \in SUBSET MayBeEmpty[p], NEW o \in DOMAIN T, NEW f
  PROVE  LET I == Documented(s, T)
             V == Visible(p, T, empty)
         IN  (\E d \in FalseDrift(s, p, T, empty) : Tells(d, o, f))
                 <=> \/ o \in (I \ V) \cup (V \ I) /\ f = Presence[o[1]]
                     \/ o \in I \cap V /\ f \in FieldsOf(o) /\ Misread(p, T[o], f)
<1> DEFINE I == Documented(s, T)
           V == Visible(p, T, empty)
           i == IntentObjects(s, T)
           r == RealityObjects(p, T, empty)
<1>1. /\ DOMAIN i = I /\ DOMAIN r = V
      /\ I \subseteq DOMAIN T /\ V \subseteq DOMAIN T
  BY DEF IntentObjects, RealityObjects, Documented, Visible
<1>2. (\E d \in Lacking(i, r) : Tells(d, o, f)) <=> o \in I \ V /\ f = Presence[o[1]]
  <2> HIDE DEF I, V, i, r
  <2>1. (\E d \in Lacking(i, r) : Tells(d, o, f)) <=> o \in DOMAIN i \ DOMAIN r /\ f = Presence[o[1]]
    BY Zenon, LackingTells
  <2> QED  BY Zenon, <1>1, <2>1
<1>3. (\E d \in Extra(i, r) : Tells(d, o, f)) <=> o \in V \ I /\ f = Presence[o[1]]
  <2> HIDE DEF I, V, i, r
  <2> QED  BY Zenon, <1>1, ExtraTells
<1>4. (\E d \in Changed(i, r) : Tells(d, o, f))
        <=> o \in I \cap V /\ f \in FieldsOf(o) /\ i[o][f] # r[o][f]
  <2> HIDE DEF I, V, i, r
  <2>1. (\E d \in Changed(i, r) : Tells(d, o, f))
            <=> o \in DOMAIN i \cap DOMAIN r /\ f \in FieldsOf(o) /\ i[o][f] # r[o][f]
    BY Zenon, ChangedTells
  <2> QED  BY Zenon, <1>1, <2>1
<1>5. ASSUME o \in I \cap V, f \in FieldsOf(o)
      PROVE  i[o][f] # r[o][f] <=> Misread(p, T[o], f)
  <2>1. i[o] = Intended(o, T[o]) /\ r[o] = Found(p, o, T[o])
    BY <1>5 DEF IntentObjects, RealityObjects
  <2> QED  BY <1>5, <2>1, Misreadings
<1>6. FalseDrift(s, p, T, empty) = Lacking(i, r) \cup Extra(i, r) \cup Changed(i, r)
  BY DEF FalseDrift, ObjectDiff
<1> QED  BY <1>2, <1>3, <1>4, <1>5, <1>6

(* An Arista or Cisco device whose tunnels can be read shows no drift when *)
(* its addresses are IPv4, its trunks name their VLANs and have no native  *)
(* one, no bundle of an Arista is a switchport, it carries every VLAN of   *)
(* its site, its sessions are in the summary, areas are documented with    *)
(* dots and adjacency states shown as the schema writes them.              *)
THEOREM SwitchesAgree ==
  ASSUME NEW T, IsTruth(T), NEW p \in Switches,
         \A o \in DOMAIN T :
            /\ o[1] = "interface" =>
                  /\ T[o].switching \in {"routed", "access", "trunk"}
                  /\ T[o].switching = "trunk" => T[o].untagged = {}
                  /\ p = "arista_eos" /\ T[o].switching # "routed" => ~T[o].bundle
                  /\ \A a \in T[o].addresses : a.family = "ipv4"
            /\ o[1] = "vlan" => T[o].carried
            /\ o[1] = "bgp_neighbor" => T[o].summarised
            /\ o[1] = "ospf_adjacency" => T[o].area.form = "dotted" /\ T[o].shown = T[o].state
            /\ o[1] = "tunnel" => T[o].type \in {"gre", "vti"}
  PROVE  FalseDrift("netbox", p, T, {}) = {}
<1>1. p \in Platforms /\ Collects(p, T) /\ {} \in SUBSET MayBeEmpty[p]
  BY DEF Switches, Platforms, Collects
<1>2. Documented("netbox", T) = DOMAIN T
  BY DEF Documented
<1>3. Visible(p, T, {}) = DOMAIN T
  <2>1. p # "nokia_srlinux" /\ TunnelTypes[p] = {"gre", "vti"}
    BY DEF Switches, TunnelTypes, AristaTunnels, CiscoTunnels
  <2> QED  BY <2>1 DEF Visible
<1>4. ASSUME NEW o \in DOMAIN T, NEW f \in FieldsOf(o)
      PROVE  ~Misread(p, T[o], f)
  <2>1. o[1] \in {"interface", "vlan", "bgp_neighbor", "ospf_adjacency", "tunnel"}
    BY TheBlocks DEF IsTruth
  <2>2. p \in {"arista_eos", "cisco_iosxe"} /\ p \notin {"juniper_junos", "nokia_srlinux"}
    BY DEF Switches
  <2>3. CASE o[1] = "interface"
    <3>1. f \in {"enabled", "description", "ip_addresses", "mode", "untagged_vlan",
                 "tagged_vlans"}
      BY <2>3 DEF FieldsOf, Fields
    <3>2. /\ T[o].switching \notin Unread[p]
          /\ T[o].switching # "routed" => ~Overlooked(p, T[o])
      BY <2>2, <2>3 DEF Unread, Overlooked
    <3>3. /\ T[o].switching # "access" => T[o].untagged = {}
          /\ T[o].switching # "trunk" => T[o].tagged = {}
      BY <2>3 DEF IsTruth, IsPort
    <3>4. f # "ip_addresses" \/ ~Misread(p, T[o], "ip_addresses")
      BY <2>2, <2>3 DEF Misread
    <3> QED  BY <2>2, <3>1, <3>2, <3>3, <3>4 DEF Misread, Switches
  <2>4. CASE o[1] = "vlan"
    BY <2>2, <2>4 DEF FieldsOf, Fields, Misread
  <2>5. CASE o[1] = "bgp_neighbor"
    BY <2>2, <2>5 DEF FieldsOf, Fields, Misread
  <2>6. CASE o[1] = "ospf_adjacency"
    BY <2>2, <2>6 DEF FieldsOf, Fields, Misread
  <2>7. CASE o[1] = "tunnel"
    BY <2>2, <2>7 DEF FieldsOf, Fields, Misread
  <2> QED  BY <2>1, <2>3, <2>4, <2>5, <2>6, <2>7
<1>5. SUFFICES ASSUME NEW d \in FalseDrift("netbox", p, T, {}) PROVE FALSE
  OBVIOUS
<1>6. d.object \in DOMAIN T
  BY <1>2, <1>3 DEF FalseDrift, ObjectDiff, Lacking, Extra, Changed, Record, IntentObjects,
                    RealityObjects
<1>7. Tells(d, d.object, d.field)
  BY DEF Tells
<1>8. \E f \in FieldsOf(d.object) : Misread(p, T[d.object], f)
  <2> DEFINE o == d.object
             f == d.field
             I == Documented("netbox", T)
             V == Visible(p, T, {})
  <2>1. \E e \in FalseDrift("netbox", p, T, {}) : Tells(e, o, f)
    BY <1>5, <1>7
  <2>2. \/ o \in (I \ V) \cup (V \ I) /\ f = Presence[o[1]]
        \/ o \in I \cap V /\ f \in FieldsOf(o) /\ Misread(p, T[o], f)
    <3> HIDE DEF o, f
    <3>1. "netbox" \in Sources
      BY DEF Sources
    <3> QED  BY <1>1, <1>6, <2>1, <3>1, FalseDriftIsKnown DEF o
  <2> QED  BY <1>2, <1>3, <2>2
<1> QED  BY <1>4, <1>6, <1>8

(* A read that fails without an error looks like a loss: every documented  *)
(* object of the block is reported missing, a tunnel as critical, the      *)
(* VLANs of a Juniper that has no get_vlans() included.                    *)
THEOREM FailedReadIsLoss ==
  ASSUME NEW T, NEW s \in Sources, NEW p \in Platforms,
         NEW empty \in SUBSET MayBeEmpty[p],
         NEW o \in Documented(s, T), o[1] \in empty
  PROVE  Record(o, Presence[o[1]], {"present"}, {"absent"}, "missing_in_reality", Missing(o[1]))
             \in FalseDrift(s, p, T, empty)
<1>1. o \notin Visible(p, T, empty)
  BY DEF Visible
<1> QED  BY <1>1 DEF FalseDrift, ObjectDiff, Lacking, IntentObjects, RealityObjects

-----------------------------------------------------------------------------
(* Triage                                                                  *)

LEMMA FirstExists ==
  ASSUME NEW rows \in SUBSET Nat, rows # {}
  PROVE  FirstSeen(rows) \in rows /\ \A u \in rows : FirstSeen(rows) <= u
<1>1. \E t \in rows : \A u \in rows : ~(<<u, t>> \in OpToRel(<, Nat))
  BY NatLessThanWellFounded, WFMin
<1>2. PICK t \in rows : \A u \in rows : ~(<<u, t>> \in OpToRel(<, Nat))
  BY <1>1
<1>3. ASSUME NEW u \in rows PROVE t <= u
  <2>1. SUFFICES ASSUME u < t PROVE FALSE
    OBVIOUS
  <2>2. <<u, t>> \in Nat \X Nat /\ <<u, t>>[1] < <<u, t>>[2]
    BY <2>1
  <2>3. <<u, t>> \in OpToRel(<, Nat)
    BY <2>2 DEF OpToRel
  <2> QED  BY <1>2, <2>3
<1> QED  BY <1>3 DEF FirstSeen
(* A drift is chronic as soon as one of its rows is an hour old, however   *)
(* long it was away before the others: the code asks when it was first     *)
(* seen, not since when it lasts.                                          *)
THEOREM OneOldRowIsChronic ==
  ASSUME NEW rows \in SUBSET Nat, NEW now \in Nat
  PROVE  TriageStatus(rows, now) = "chronic" <=> \E t \in rows : now - t >= NEW_WITHIN
<1>1. CASE rows = {}
  BY <1>1 DEF TriageStatus
<1>2. CASE rows # {}
  <2>1. PICK f \in rows : f = FirstSeen(rows) /\ \A u \in rows : f <= u
    BY <1>2, FirstExists
  <2>2. TriageStatus(rows, now) = "chronic" <=> ~(now - f < NEW_WITHIN)
    BY <1>2, <2>1 DEF TriageStatus
  <2>3. now - f >= NEW_WITHIN <=> \E t \in rows : now - t >= NEW_WITHIN
    <3>1. ASSUME NEW t \in rows, now - t >= NEW_WITHIN PROVE now - f >= NEW_WITHIN
      <4>1. f <= t /\ f \in Nat /\ t \in Nat
        BY <2>1
      <4> QED  BY <3>1, <4>1 DEF NEW_WITHIN
    <3> QED  BY <3>1
  <2>4. f \in Nat
    OBVIOUS
  <2> QED  BY <2>2, <2>3, <2>4 DEF NEW_WITHIN
<1> QED  BY <1>1, <1>2

(* Retention does not make a lasting drift new again: if it was stored at  *)
(* least every `gap' minutes and the cutoff leaves an hour and a gap, it   *)
(* stays chronic after a pruning.                                          *)
THEOREM PruningKeepsChronic ==
  ASSUME NEW rows \in SUBSET Nat, NEW now \in Nat, NEW cutoff \in Nat, NEW gap \in Nat,
         cutoff + gap + NEW_WITHIN <= now,
         \A u \in cutoff..now - gap : \E t \in rows : u <= t /\ t <= u + gap
  PROVE  TriageStatus(Pruned(rows, cutoff), now) = "chronic"
<1>1. cutoff \in cutoff..now - gap
  BY DEF NEW_WITHIN
<1>2. PICK t \in rows : cutoff <= t /\ t <= cutoff + gap
  BY <1>1
<1>3. t \in Pruned(rows, cutoff) /\ now - t >= NEW_WITHIN
  BY <1>2 DEF Pruned, NEW_WITHIN
<1>4. Pruned(rows, cutoff) \in SUBSET Nat
  BY DEF Pruned
<1> QED  BY <1>3, <1>4, OneOldRowIsChronic

(* Time alone only makes a drift chronic, and without a usable answer of a *)
(* model a critical drift is an incident at every age; no answer, however  *)
(* malformed, leaves the three assessments.                                *)
THEOREM TriageIsSafe ==
  ASSUME NEW rows \in SUBSET Nat, NEW now \in Nat, NEW later \in Nat, now <= later,
         NEW severity, NEW configured \in BOOLEAN, NEW answer
  PROVE  /\ TriageStatus(rows, now) = "chronic" => TriageStatus(rows, later) = "chronic"
         /\ LET r == Triage(rows, now, severity, configured, answer).result
            IN  /\ r.assessment \in Assessments
                /\ severity = "critical" /\ r.source = "deterministic"
                       => r.assessment = "incident"
<1>1. TriageStatus(rows, now) = "chronic" => TriageStatus(rows, later) = "chronic"
  <2>1. \A t \in rows : now - t >= NEW_WITHIN => later - t >= NEW_WITHIN
    BY DEF NEW_WITHIN
  <2> QED  BY <2>1, OneOldRowIsChronic
<1> QED  BY <1>1 DEF Triage, Assess, Accepted, Deterministic, Assessments

-----------------------------------------------------------------------------
(* The inventory                                                           *)

(* CHOOSE finds the last entry of a name.                                  *)
LEMMA LastEntry ==
  ASSUME NEW listed, Len(listed) \in Nat, NEW n \in Names(listed)
  PROVE  \E j \in 1..Len(listed) :
            listed[j].name = n /\ IsLast(listed, j) /\ EntryOf(listed, n) = listed[j]
<1> DEFINE S == {j \in 1..Len(listed) : listed[j].name = n}
           B == {Len(listed) - j : j \in S}
<1>1. B \in SUBSET Nat /\ B # {}
  BY DEF Names
<1>2. PICK b \in B : \A c \in B : b <= c
  BY <1>1, FirstExists
<1>3. PICK j \in S : b = Len(listed) - j
  BY <1>2
<1>4. ASSUME NEW i \in j + 1..Len(listed) PROVE listed[i].name # n
  <2>1. SUFFICES ASSUME listed[i].name = n PROVE FALSE
    OBVIOUS
  <2>2. i \in S /\ Len(listed) - i < b
    BY <1>3, <1>4, <2>1
  <2>3. Len(listed) - i \in B
    BY <2>2
  <2>4. b <= Len(listed) - i /\ b \in Int /\ Len(listed) - i \in Int
    BY SMTT(30), <1>1, <1>2, <2>3
  <2> HIDE DEF S, B
  <2> QED  BY <2>2, <2>4
<1>5. \E k \in 1..Len(listed) : listed[k].name = n /\ IsLast(listed, k)
  BY <1>3, <1>4 DEF IsLast
<1> QED  BY <1>5 DEF EntryOf

(* Of the NetBox devices of one name the last one listed is polled, at its *)
(* own address unless devices.yml gives one.  The others are polled under  *)
(* no name: no poll goes to an address that only such a device has, unless *)
(* devices.yml gives it to some device.                                    *)
THEOREM LaterEntryWins ==
  ASSUME NEW listed, Len(listed) \in Nat, NEW yaml, NEW i \in 1..Len(listed)
  PROVE  LET polled == Polled("netbox", listed, yaml)
             own(k) == Default(listed[k]).hostname
         IN  /\ IsLast(listed, i) =>
                   polled[listed[i].name].hostname =
                       Or(Get(Override(yaml, listed[i].name), "hostname"), own(i))
             /\ /\ ~IsLast(listed, i)
                /\ \A k \in 1..Len(listed) : k # i => own(k) # own(i)
                /\ \A m \in DOMAIN yaml : Get(yaml[m], "hostname") # own(i)
                => \A n \in DOMAIN polled : polled[n].hostname # own(i)
<1> DEFINE polled == Polled("netbox", listed, yaml)
           own(k) == Default(listed[k]).hostname
<1>1. ASSUME NEW n \in Names(listed)
      PROVE  \E j \in 1..Len(listed) :
                /\ listed[j].name = n /\ IsLast(listed, j)
                /\ polled[n].hostname = Or(Get(Override(yaml, n), "hostname"), own(j))
  <2>1. PICK j \in 1..Len(listed) :
            listed[j].name = n /\ IsLast(listed, j) /\ EntryOf(listed, n) = listed[j]
    BY <1>1, LastEntry
  <2>2. polled[n] = Details(listed[j], Override(yaml, n))
    BY <1>1, <2>1 DEF Polled
  <2>3. polled[n].hostname = Or(Get(Override(yaml, n), "hostname"), own(j))
    BY <2>2 DEF Details, Keys
  <2> QED  BY <2>1, <2>3
<1>2. \A j, k \in 1..Len(listed) :
          IsLast(listed, j) /\ IsLast(listed, k) /\ listed[j].name = listed[k].name => j = k
  BY DEF IsLast
<1>3. listed[i].name \in Names(listed) /\ DOMAIN polled = Names(listed)
  BY DEF Names, Polled
<1>4. ASSUME IsLast(listed, i)
      PROVE  polled[listed[i].name].hostname =
                 Or(Get(Override(yaml, listed[i].name), "hostname"), own(i))
  <2> HIDE DEF polled, own
  <2> QED  BY <1>1, <1>2, <1>3, <1>4
<1>5. ASSUME ~IsLast(listed, i), \A k \in 1..Len(listed) : k # i => own(k) # own(i),
             \A m \in DOMAIN yaml : Get(yaml[m], "hostname") # own(i),
             NEW n \in DOMAIN polled
      PROVE  polled[n].hostname # own(i)
  <2>1. PICK j \in 1..Len(listed) :
            /\ IsLast(listed, j)
            /\ polled[n].hostname = Or(Get(Override(yaml, n), "hostname"), own(j))
    BY <1>1, <1>3, <1>5
  <2>2. own(j) # own(i)
    BY <1>5, <2>1
  <2>3. \/ Get(Override(yaml, n), "hostname") = NoValue
        \/ n \in DOMAIN yaml /\ Override(yaml, n) = yaml[n]
    BY DEF Override, Get
  <2> HIDE DEF polled, own
  <2> QED  BY <1>5, <2>1, <2>2, <2>3 DEF Or
<1> QED  BY <1>3, <1>4, <1>5

(* With NetBox as the list every device there is polled and remediated.    *)
(* The API serves devices.yml as it is: without an entry there a device    *)
(* cannot be paused, and with one the API connects as the poller does only *)
(* if the entry gives, by itself, whatever the default would.              *)
THEOREM ApiSeesDevicesYmlOnly ==
  ASSUME NEW listed, Len(listed) \in Nat, NEW yaml, NEW n \in Names(listed)
  PROVE  LET polled == Polled("netbox", listed, yaml)
         IN  /\ DOMAIN polled = Names(listed)
             /\ n \in DOMAIN Served(yaml) =>
                   \A k \in Keys :
                      Get(Served(yaml)[n], k) = polled[n][k]
                          <=> \/ Get(yaml[n], k) # NoValue
                              \/ Default(EntryOf(listed, n))[k] = NoValue
BY DEF Polled, Details, Override, Served, Keys, Get, Or, Default

(* The state of a warranty or of an end of life only gets worse with time, *)
(* and a date that cannot be read is never a state.                        *)
THEOREM LifecycleWorsens ==
  ASSUME NEW value, NEW within \in Nat, NEW today \in Int, NEW later \in Int,
         today <= later, NoValue \notin Int, NoValue \notin DOMAIN Severity
  PROVE  /\ Classify(value, within, today) = NoValue <=> value \notin Int
         /\ value \in Int => Severity[Classify(value, within, today)]
                                 <= Severity[Classify(value, within, later)]
<1>1. CASE value \notin Int
  BY <1>1 DEF Classify, DaysUntil, ParseDate
<1>2. ASSUME value \in Int, NEW t \in Int
      PROVE  Classify(value, within, t) = IF value - t < 0 THEN "expired"
                                         ELSE IF value - t <= within THEN "expiring" ELSE "ok"
  <2>1. DaysUntil(value, t) = value - t /\ value - t # NoValue
    BY <1>2 DEF DaysUntil, ParseDate
  <2> QED  BY <1>2, <2>1 DEF Classify
<1>3. CASE value \in Int
  <2>1. Severity["ok"] = 0 /\ Severity["expiring"] = 1 /\ Severity["expired"] = 2
    BY DEF Severity
  <2>2. DOMAIN Severity = {"ok", "expiring", "expired"}
    BY DEF Severity
  <2> QED  BY <1>2, <1>3, <2>1, <2>2
<1> QED  BY <1>1, <1>3
=============================================================================

----------------------- MODULE ChangeTranslationLemmas -----------------------
(***************************************************************************)
(* Facts about the translation of notifications that other proofs cite.    *)
(***************************************************************************)
EXTENDS ChangeTranslation, TLAPS

LEMMA KnownTablesAndOps ==
  /\ DOMAIN ObjectKind = {"clusters", "versions"}
  /\ DOMAIN ChangeType = {"c", "u", "d"}
  /\ ObjectKind["clusters"] = "ClusterLink" /\ ObjectKind["versions"] = "Version"
  /\ ChangeType["c"] = "create" /\ ChangeType["u"] = "update" /\ ChangeType["d"] = "delete"
BY DEF ObjectKind, ChangeType

\* The published details of a notification that isn't rejected have the types
\* that models.Change declares.
THEOREM TranslationIsChange ==
  ASSUME NEW n \in Notification, ~Rejected(n)
  PROVE  Translate(n) \in Change
<1>1. ObjectID(n) \in Ids
  BY IdsAssumption DEF Rejected, ObjectID, TakeID, Notification, RowImage, NotAnId
<1>2. n.table \in {"clusters", "versions"} /\ n.op \in {"c", "u", "d"}
  BY KnownTablesAndOps DEF Rejected
<1>3. ObjectKind[n.table] \in {"ClusterLink", "Version"}
  BY <1>2, KnownTablesAndOps
<1>4. ChangeType[n.op] \in {"create", "update", "delete"}
  BY <1>2, KnownTablesAndOps
<1>5. QED
  BY <1>1, <1>3, <1>4 DEF Translate, Change
=============================================================================

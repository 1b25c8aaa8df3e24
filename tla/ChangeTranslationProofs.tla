----------------------- MODULE ChangeTranslationProofs -----------------------
(***************************************************************************)
(* Proofs that the translation of notifications is right, for every set of *)
(* identifiers, tables and operations.                                     *)
(***************************************************************************)
EXTENDS ChangeTranslationProperties, ChangeTranslationLemmas, TLAPS

\* What the two blocks of processMessage that look for the identifier compute
\* together: the first value, whatever it is.
LEMMA IdentifierIsFirst ==
  ASSUME NEW n \in Notification
  PROVE  /\ FirstID(n) \in Ids => ObjectID(n) = FirstID(n)
         /\ FirstID(n) \notin Ids => ObjectID(n) \in {"error", ""}
<1>1. n.before \in RowImage /\ n.after \in RowImage
  BY DEF Notification
<1>2. CASE n.after \in Ids
  BY <1>1, <1>2, IdsAssumption DEF RowImage, FirstID, ObjectID, TakeID, NotAnId
<1>3. CASE n.after = "not_string"
  BY <1>1, <1>3, IdsAssumption DEF RowImage, FirstID, ObjectID, TakeID, NotAnId
<1>4. CASE n.after \in {"nil", "absent", ""}
  BY <1>1, <1>4, IdsAssumption DEF RowImage, FirstID, ObjectID, TakeID, NotAnId
<1>5. QED
  BY <1>1, <1>2, <1>3, <1>4 DEF RowImage

OutcomeOK ==
  /\ notification \in Notification
  /\ outcome # Pending =>
       outcome = IF Rejected(notification) THEN NoChange ELSE Translate(notification)

LEMMA OutcomeCorrect == Spec => []OutcomeOK
<1>1. Init => OutcomeOK
  BY DEF Init, OutcomeOK
<1>2. OutcomeOK /\ [Next]_vars => OutcomeOK'
  BY DEF OutcomeOK, Next, ProcessMessage, vars
<1>3. QED
  BY <1>1, <1>2, PTL DEF Spec

\* For every notification processMessage fails when, and only when, the table of
\* the reference says so, and publishes what it says otherwise.
THEOREM TranslationMeetsReference == Spec => []MeetsReference
<1>1. OutcomeOK => MeetsReference
  <2> SUFFICES ASSUME OutcomeOK, outcome # Pending
               PROVE  MeetsReference
    BY DEF MeetsReference
  <2> DEFINE n == notification
             known == n.json = "ok" /\ n.table \in {"clusters", "versions"} /\ n.op \in {"c", "u", "d"}
  <2>1. n \in Notification /\ outcome = IF Rejected(n) THEN NoChange ELSE Translate(n)
    BY DEF OutcomeOK
  <2>2. n.json \in {"ok", "bad"}
    BY <2>1 DEF Notification
  <2>3. Rejected(n) <=> ~(known /\ FirstID(n) \in Ids)
    BY <2>1, <2>2, IdentifierIsFirst, KnownTablesAndOps, IdsAssumption
       DEF Rejected, IsMalformed, NotAnId
  <2>4. CASE Rejected(n)
    BY <2>1, <2>3, <2>4 DEF MeetsReference
  <2>5. CASE ~Rejected(n)
    <3>1. known /\ FirstID(n) \in Ids /\ outcome = Translate(n)
      BY <2>1, <2>3, <2>5
    <3>2. outcome \in Change
      BY <2>1, <2>5, <3>1, TranslationIsChange
    <3>3. outcome.object.id = FirstID(n)
      <4>1. outcome.object.id = ObjectID(n)
        BY <3>1 DEF Translate
      <4>2. ObjectID(n) = FirstID(n)
        BY <2>1, <3>1, IdentifierIsFirst
      <4>3. QED
        BY <4>1, <4>2
    <3>4. outcome.object.kind = "ClusterLink" <=> n.table = "clusters"
      BY <3>1, KnownTablesAndOps DEF Translate
    <3>5. outcome.type = CASE n.op = "c" -> "create"
                           [] n.op = "u" -> "update"
                           [] n.op = "d" -> "delete"
      BY <3>1, KnownTablesAndOps DEF Translate
    <3>6. QED
      BY <3>1, <3>2, <3>3, <3>4, <3>5 DEF MeetsReference
  <2>6. QED
    BY <2>4, <2>5
<1>2. QED
  BY <1>1, OutcomeCorrect, PTL

\* Whatever the identifiers are, no insertion, update or deletion of a row of
\* the known tables is rejected, and the event links to that row.
THEOREM RowChangesAreTranslated == Spec => []RowChangesGetThrough
<1>1. OutcomeOK => RowChangesGetThrough
  <2> SUFFICES ASSUME OutcomeOK, outcome # Pending, notification \in RowChange
               PROVE  /\ outcome # NoChange
                      /\ outcome.object.id \in {notification.before, notification.after}
    BY DEF RowChangesGetThrough
  <2> DEFINE n == notification
  <2>1. n \in Notification
    BY DEF RowChange
  <2>2. FirstID(n) \in Ids /\ FirstID(n) \in {n.before, n.after}
    BY IdsAssumption DEF RowChange, FirstID, NotAnId
  <2>3. n.table \in {"clusters", "versions"} /\ n.op \in {"c", "u", "d"} /\ n.json = "ok"
    BY DEF RowChange
  <2>4. ObjectID(n) = FirstID(n)
    BY <2>1, <2>2, IdentifierIsFirst
  <2>5. ~Rejected(n)
    BY <2>2, <2>3, <2>4, KnownTablesAndOps, IdsAssumption DEF Rejected, IsMalformed, NotAnId
  <2>6. outcome = Translate(n)
    BY <2>5 DEF OutcomeOK
  <2>7. outcome # NoChange
    BY <2>1, <2>5, <2>6, TranslationIsChange, MarkersAssumption
  <2>8. QED
    BY <2>2, <2>4, <2>6, <2>7 DEF Translate
<1>2. QED
  BY <1>1, OutcomeCorrect, PTL
=============================================================================

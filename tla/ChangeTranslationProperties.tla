-------------------- MODULE ChangeTranslationProperties --------------------
(***************************************************************************)
(* The translation of one notification, run once on each of them, and what *)
(* is expected from it.                                                    *)
(***************************************************************************)
EXTENDS ChangeTranslation

CONSTANTS
  Pending,    \* the notification hasn't been processed yet
  NoChange    \* processMessage has returned an error

ASSUME MarkersAssumption == {Pending, NoChange} \cap Change = {}

VARIABLES notification, outcome

vars == <<notification, outcome>>

Init ==
  /\ notification \in Notification
  /\ outcome = Pending

ProcessMessage ==
  /\ outcome = Pending
  /\ outcome' = IF Rejected(notification) THEN NoChange ELSE Translate(notification)
  /\ UNCHANGED notification

Next == ProcessMessage

Spec == Init /\ [][Next]_vars

----------------------------------------------------------------------------

\* The first of the row images, after and before the change, that holds
\* anything but an empty value in its `id` column.
FirstID(n) ==
  LET HasValue(row) == row \notin {"nil", "absent", ""}
  IN  IF HasValue(n.after) THEN n.after
      ELSE IF HasValue(n.before) THEN n.before
      ELSE ""

\* The sequence of early returns and of identifiers overwritten in place
\* amounts to this table: an event for every JSON document of a known table and
\* operation whose first identifier is a string, and an error otherwise.
MeetsReference ==
  outcome # Pending =>
    LET n == notification
        known == n.json = "ok" /\ n.table \in {"clusters", "versions"} /\ n.op \in {"c", "u", "d"}
    IN  IF known /\ FirstID(n) \in Ids
        THEN /\ outcome \in Change
             /\ outcome.object.id = FirstID(n)
             /\ outcome.object.kind = "ClusterLink" <=> n.table = "clusters"
             /\ outcome.type = CASE n.op = "c" -> "create"
                                 [] n.op = "u" -> "update"
                                 [] n.op = "d" -> "delete"
        ELSE outcome = NoChange

\* What Debezium writes for a row with an identifier that is inserted, updated
\* (with or without the image before the change) or deleted.
RowChange ==
  {n \in Notification :
     /\ n.json = "ok"
     /\ n.table \in {"clusters", "versions"}
     /\ \/ n.op = "c" /\ n.before = "nil" /\ n.after \in Ids
        \/ n.op = "u" /\ n.before \in {"nil", n.after} /\ n.after \in Ids
        \/ n.op = "d" /\ n.before \in Ids /\ n.after = "nil"}

\* No change of a row is ever rejected: the early returns of processMessage
\* only discard what isn't a change of a row of the tables that it knows.
RowChangesGetThrough ==
  (notification \in RowChange /\ outcome # Pending) =>
     /\ outcome # NoChange
     /\ outcome.object.id \in {notification.before, notification.after}

\* The comment of the Link type says that its kind "will be something like
\* `ClusterLink`, `VersionLink`, etc.", so never the kind of an object.
KindIsLinkKind ==
  outcome \notin {Pending, NoChange} =>
     outcome.object.kind \in {"ClusterLink", "VersionLink"}
=============================================================================

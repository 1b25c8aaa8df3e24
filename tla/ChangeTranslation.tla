------------------------- MODULE ChangeTranslation -------------------------
(***************************************************************************)
(* How the event producer turns a raw Debezium notification, read from the *)
(* input topic, into the change that it publishes (the part of             *)
(* EventProducer.processMessage that touches no topic).                    *)
(*                                                                         *)
(* A notification is abstracted to what the translation looks at: whether  *)
(* the value is JSON of the right shape, the table, the operation, and for *)
(* each of the two row images what its `id` column holds:                  *)
(*                                                                         *)
(*   "nil"         there is no row image (the JSON field is null or absent)*)
(*   "absent"      there is a row image, without an `id` column            *)
(*   "not_string"  the `id` column holds something that isn't a string     *)
(*   ""            the `id` column holds the empty string                  *)
(*   i \in Ids     the `id` column holds the identifier i                  *)
(***************************************************************************)
CONSTANTS
  Ids,     \* the non-empty object identifiers
  Tables,  \* the values of `source.table`, known to the producer or not
  Ops      \* the values of `op`, known to the producer or not

NotAnId == {"nil", "absent", "not_string", "", "error"}

ASSUME IdsAssumption == Ids \cap NotAnId = {}

RowImage == Ids \cup {"nil", "absent", "not_string", ""}

Notification ==
  [json: {"ok", "bad"}, table: Tables, op: Ops, before: RowImage, after: RowImage]

\* A tombstone, or anything else that json.Unmarshal rejects: the remaining
\* fields are never looked at.
IsMalformed(n) == n.json = "bad"

\* The kind of the link to the changed object, for the tables that the
\* producer knows.
ObjectKind == [clusters |-> "ClusterLink", versions |-> "Version"]

\* The type of the change, for the operations that the producer knows.
ChangeType == [c |-> "create", u |-> "update", d |-> "delete"]

\* Mistake: a missing row image is an error.
TakeIDStrictly(id, row) ==
  IF id # "" \/ row = "absent" THEN id
  ELSE IF row \in {"nil", "not_string"} THEN "error"
  ELSE row

\* One of the two identical blocks that look for the identifier: nothing is
\* done when it has been found already (or the previous block has returned an
\* error), when there is no row image and when it has no identifier.
TakeID(id, row) ==
  IF id # "" \/ row \in {"nil", "absent"} THEN id
  ELSE IF row = "not_string" THEN "error"
  ELSE row

\* Mistake: the two blocks are swapped.
ObjectIDBefore(n) == TakeID(TakeID("", n.before), n.after)

\* The image after the change goes first, then the image before it.
ObjectID(n) == TakeID(TakeID("", n.after), n.before)

Rejected(n) ==
  \/ IsMalformed(n)
  \/ n.table \notin DOMAIN ObjectKind
  \/ n.op \notin DOMAIN ChangeType
  \/ ObjectID(n) \in {"error", ""}

\* The details of the published event, for a notification that isn't rejected.
Translate(n) ==
  [kind |-> "Change",
   type |-> ChangeType[n.op],
   object |-> [kind |-> ObjectKind[n.table], id |-> ObjectID(n)]]

Change ==
  [kind: {"Change"},
   type: {"create", "update", "delete"},
   object: [kind: {"ClusterLink", "Version"}, id: Ids]]
=============================================================================

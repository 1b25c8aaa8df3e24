------------------------ MODULE MCChangeTranslation ------------------------
(***************************************************************************)
(* Every notification with two identifiers, the two tables that the        *)
(* producer knows and another one, and all the operations of Debezium.     *)
(***************************************************************************)
EXTENDS ChangeTranslationProperties

MCTables == {"clusters", "versions", "accounts"}
MCOps == {"c", "u", "d", "r"}
=============================================================================

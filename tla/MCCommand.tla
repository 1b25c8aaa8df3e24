----------------------------- MODULE MCCommand -----------------------------
(***************************************************************************)
(* The servers of the server command, and a shorter list.                  *)
(***************************************************************************)
EXTENDS CommandProperties

ServerCommand == <<"api", "health", "metrics">>
ApiAndHealth == <<"api", "health">>
=============================================================================

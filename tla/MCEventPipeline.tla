-------------------------- MODULE MCEventPipeline --------------------------
(***************************************************************************)
(* Small instances of EventPipeline for TLC: notifications of one cluster  *)
(* and of one version, with the cipher and the text of MCEventService.     *)
(***************************************************************************)
EXTENDS EventPipeline, TLC

CONSTANT i1

MCIds == {i1}
MCTables == {"clusters", "versions"}
MCOps == {"c", "u"}

ClusterCreated ==
  [json |-> "ok", table |-> "clusters", op |-> "c", before |-> "nil", after |-> i1]
VersionUpdated ==
  [json |-> "ok", table |-> "versions", op |-> "u", before |-> i1, after |-> i1]

MCInputs == {ClusterCreated, VersionUpdated}

\* One producer never reaches the bound: see OneProducerCopies.
ASSUME EnoughEvents ==
  /\ Cardinality(Producers) = 1
  /\ MaxEvents >= Cardinality(InPartitions) * MaxInput * (MaxFaults + 1)

MCWords == -1 .. MaxEvents
MCMagic == 0
MCEncrypt(b) == <<b[2], b[1]>>
MCDecrypt(b) == <<b[2], b[1]>>
MCToText(b) == ToString(b)
MCText == {ToString(b) : b \in MCWords \X MCWords}
MCFromText(t) == CHOOSE b \in MCWords \X MCWords : ToString(b) = t
=============================================================================

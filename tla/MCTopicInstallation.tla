------------------------ MODULE MCTopicInstallation ------------------------
(***************************************************************************)
(* A producer and a server that share a topic, another server that doesn't *)
(* install, and a producer without one of its parameters.                  *)
(***************************************************************************)
EXTENDS TopicInstallationProperties

MCProcesses == {"producer", "server", "plain", "wrong"}
MCTopics == {"changes", "events"}
MCNeeds ==
  [producer |-> {"changes", "events"}, server |-> {"events"}, plain |-> {"events"},
   wrong |-> {"changes", "events"}]
MCInstalling == {"producer", "server", "wrong"}
=============================================================================

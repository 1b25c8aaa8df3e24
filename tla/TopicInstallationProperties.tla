-------------------- MODULE TopicInstallationProperties --------------------
(***************************************************************************)
(* What `install: true` is good for.                                       *)
(***************************************************************************)
EXTENDS TopicInstallation

Answers == {"none", "pending", "created", "exists", "failed"}

\* Every variable has its type, and only a process that waits has answers.
TypeOK ==
  /\ topics \subseteq Topics
  /\ state \in [Processes -> {"down", "building", "waiting", "running"}]
  /\ answer \in [Processes -> [Topics -> Answers]]
  /\ late \subseteq Topics
  /\ faults \in 0 .. MaxFaults
  /\ \A p \in Processes : state[p] # "waiting" => answer[p] = NoAnswers

\* A process that installs doesn't begin to work before its topics exist, no
\* matter who has created them or which of the answers were errors.
RunningHasTopics ==
  \A p \in Installing : state[p] = "running" => Needs[p] \subseteq topics

\* Requests whose answer is lost, creations that take place after their process
\* has ended and other processes that create the same topics never make a process
\* fail for ever: when the disturbances end all of them work.
AllRun == \A p \in Processes \ Misconfigured : <>[](state[p] = "running")
=============================================================================

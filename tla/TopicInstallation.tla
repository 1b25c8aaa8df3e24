------------------------- MODULE TopicInstallation -------------------------
(***************************************************************************)
(* How the processes make sure that their topics exist before they start   *)
(* (Build and createTopics of event_producer.go and event_service.go, with *)
(* the `install` parameter).  Processes start at the same time, want the   *)
(* same topics, and have no coordination other than ignoring the error     *)
(* that says that a topic already exists.  The only retry is that of the   *)
(* Deployment, which starts again the processes that end.                  *)
(***************************************************************************)
EXTENDS Naturals

CONSTANTS
  Processes,      \* event producers and event services
  Topics,
  Needs,          \* the topics of each process: input and output, or only one
  Installing,     \* the processes with `install: true`
  Misconfigured,  \* those without a mandatory parameter or with a wrong CA
  MaxFaults       \* bound: failed requests, failed creations and stops

ASSUME InstallationAssumption ==
  /\ Needs \in [Processes -> SUBSET Topics]
  /\ Installing \subseteq Processes /\ Misconfigured \subseteq Processes
  /\ MaxFaults \in Nat

VARIABLES
  topics,   \* the topics that exist
  state,    \* what each process is doing
  answer,   \* the answer of the broker about each topic, for each process
  late,     \* topics requested by processes that haven't waited for the answer
  faults    \* disturbances so far

vars == <<topics, state, answer, late, faults>>

NoAnswers == [t \in Topics |-> "none"]

Init ==
  /\ topics \in SUBSET Topics
  /\ state = [p \in Processes |-> "down"]
  /\ answer = [p \in Processes |-> NoAnswers]
  /\ late = {}
  /\ faults = 0

Fault == faults < MaxFaults /\ faults' = faults + 1

SetState(p, next) == state' = [state EXCEPT ![p] = next]

Start(p) ==
  /\ state[p] = "down"
  /\ SetState(p, "building")
  /\ UNCHANGED <<topics, answer, late, faults>>

\* Build returns an error and the process ends.
BuildFails(p) ==
  /\ state[p] = "building"
  /\ p \in Misconfigured
  /\ SetState(p, "down")
  /\ UNCHANGED <<topics, answer, late, faults>>

BuildWithoutInstall(p) ==
  /\ state[p] = "building"
  /\ p \notin Misconfigured \cup Installing
  /\ SetState(p, "running")
  /\ UNCHANGED <<topics, answer, late, faults>>

\* One request for all the topics.
SendCreateTopics(p) ==
  /\ state[p] = "building"
  /\ p \in Installing \ Misconfigured
  /\ SetState(p, "waiting")
  /\ answer' = [answer EXCEPT ![p] = [t \in Topics |-> IF t \in Needs[p] THEN "pending" ELSE "none"]]
  /\ UNCHANGED <<topics, late, faults>>

\* The broker creates the topics of a request one by one.
CreateTopic(p, t) ==
  /\ answer[p][t] = "pending"
  /\ topics' = topics \cup {t}
  /\ answer' = [answer EXCEPT ![p][t] = IF t \in topics THEN "exists" ELSE "created"]
  /\ UNCHANGED <<state, late, faults>>

CreateTopicFails(p, t) ==
  /\ answer[p][t] = "pending"
  /\ Fault
  /\ answer' = [answer EXCEPT ![p][t] = "failed"]
  /\ UNCHANGED <<topics, state, late>>

\* The broker completes a request of a process that has gone.
CreateLate(t) ==
  /\ t \in late
  /\ topics' = topics \cup {t}
  /\ late' = late \ {t}
  /\ UNCHANGED <<state, answer, faults>>

\* The process ends, or at least it no longer waits for the answers.
Leave(p) ==
  /\ SetState(p, "down")
  /\ answer' = [answer EXCEPT ![p] = NoAnswers]
  /\ late' \in SUBSET (late \cup {t \in Topics : answer[p][t] = "pending"})
  /\ late \subseteq late'
  /\ UNCHANGED topics

\* The request fails, or its answer is lost, with any part of it done.
RequestFails(p) == state[p] = "waiting" /\ Fault /\ Leave(p)

Answered(p) ==
  /\ state[p] = "waiting"
  /\ \A t \in Topics : answer[p][t] # "pending"

\* Mistake: all the errors are ignored.
IgnoreAll(response) == FALSE

\* Mistake: a topic that already exists is an error like any other.
IgnoreNone(response) == response \in {"failed", "exists"}

\* An error that isn't TopicAlreadyExists counts, for any of the topics.
CanNotIgnore(response) == response = "failed"

InstallFails(p) ==
  /\ Answered(p)
  /\ \E t \in Topics : CanNotIgnore(answer[p][t])
  /\ Leave(p)
  /\ UNCHANGED faults

\* Mistake: the answers are kept.
InstallSucceedsKeeping(p) ==
  /\ Answered(p)
  /\ ~\E t \in Topics : CanNotIgnore(answer[p][t])
  /\ SetState(p, "running")
  /\ UNCHANGED <<topics, answer, late, faults>>

InstallSucceeds(p) ==
  /\ Answered(p)
  /\ ~\E t \in Topics : CanNotIgnore(answer[p][t])
  /\ SetState(p, "running")
  /\ answer' = [answer EXCEPT ![p] = NoAnswers]
  /\ UNCHANGED <<topics, late, faults>>

Stop(p) == state[p] # "down" /\ Fault /\ Leave(p)

Broker(p) == \E t \in Topics : CreateTopic(p, t)

Build(p) ==
  \/ BuildFails(p) \/ BuildWithoutInstall(p) \/ SendCreateTopics(p)
  \/ InstallFails(p) \/ InstallSucceeds(p)

Next ==
  \/ \E p \in Processes :
       \/ Start(p) \/ Build(p) \/ Broker(p) \/ RequestFails(p) \/ Stop(p)
       \/ \E t \in Topics : CreateTopicFails(p, t)
  \/ \E t \in Topics : CreateLate(t)

Spec == Init /\ [][Next]_vars

\* The Deployment starts what ends, processes run, and the broker answers.
FairSpec ==
  /\ Spec
  /\ \A p \in Processes : WF_vars(Start(p)) /\ WF_vars(Build(p)) /\ WF_vars(Broker(p))
=============================================================================

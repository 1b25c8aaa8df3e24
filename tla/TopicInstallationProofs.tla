---------------------- MODULE TopicInstallationProofs ----------------------
(***************************************************************************)
(* Proofs about the installation of topics, for any number of processes    *)
(* and topics.                                                             *)
(***************************************************************************)
EXTENDS TopicInstallationProperties, TLAPS

\* A process that waits has asked for all the topics that it needs, and the ones
\* that it has been told about exist.
AnswersAreTrue ==
  \A p \in Processes : state[p] = "waiting" =>
    \A t \in Topics :
      /\ t \in Needs[p] => answer[p][t] # "none"
      /\ answer[p][t] \in {"created", "exists"} => t \in topics

Inv == TypeOK /\ AnswersAreTrue /\ RunningHasTopics

\* Topics aren't deleted, so the other processes aren't disturbed.
LEMMA TopicsRemain ==
  ASSUME Inv, topics \subseteq topics', NEW p \in Processes, state'[p] = state[p],
         answer'[p] = answer[p]
  PROVE  /\ state'[p] = "waiting" =>
              \A t \in Topics :
                /\ t \in Needs[p] => answer'[p][t] # "none"
                /\ answer'[p][t] \in {"created", "exists"} => t \in topics'
         /\ p \in Installing /\ state'[p] = "running" => Needs[p] \subseteq topics'
BY DEF Inv, AnswersAreTrue, RunningHasTopics

LEMMA InvInit == Init => Inv
BY InstallationAssumption
   DEF Init, Inv, TypeOK, AnswersAreTrue, RunningHasTopics, NoAnswers, Answers

\* A process ends, or stops waiting.
LEMMA LeaveKeeps ==
  ASSUME Inv, NEW p \in Processes, Leave(p), faults' \in 0 .. MaxFaults
  PROVE  Inv'
<1>1. /\ state' = [state EXCEPT ![p] = "down"] /\ answer' = [answer EXCEPT ![p] = NoAnswers]
      /\ late' \subseteq Topics /\ topics' = topics
  BY DEF Leave, SetState, Inv, TypeOK
<1>2. TypeOK'
  BY <1>1 DEF Inv, TypeOK, NoAnswers, Answers
<1>3. state'[p] = "down"
  BY <1>1 DEF Inv, TypeOK
<1>4. \A q \in Processes \ {p} : state'[q] = state[q] /\ answer'[q] = answer[q]
  BY <1>1 DEF Inv, TypeOK
<1>5. AnswersAreTrue' /\ RunningHasTopics'
  BY <1>1, <1>3, <1>4, TopicsRemain, InstallationAssumption DEF AnswersAreTrue, RunningHasTopics
<1>6. QED
  BY <1>2, <1>5 DEF Inv

\* A process changes its state without waiting for anything.
LEMMA MoveKeeps ==
  ASSUME Inv, NEW p \in Processes, NEW next \in {"down", "building", "running"},
         SetState(p, next), answer' \in [Processes -> [Topics -> Answers]],
         answer'[p] = NoAnswers, \A q \in Processes \ {p} : answer'[q] = answer[q],
         next = "running" /\ p \in Installing => Needs[p] \subseteq topics,
         UNCHANGED <<topics, late, faults>>
  PROVE  Inv'
<1>1. state' = [state EXCEPT ![p] = next] /\ state'[p] = next
  BY DEF SetState, Inv, TypeOK
<1>2. \A q \in Processes \ {p} : state'[q] = state[q]
  BY <1>1 DEF Inv, TypeOK
<1>3. TypeOK'
  BY <1>1, <1>2 DEF Inv, TypeOK
<1>4. AnswersAreTrue' /\ RunningHasTopics'
  BY <1>1, <1>2, TopicsRemain, InstallationAssumption DEF AnswersAreTrue, RunningHasTopics
<1>5. QED
  BY <1>3, <1>4 DEF Inv

\* The broker answers about one topic, which exists if it says so.
LEMMA AnswerKeeps ==
  ASSUME Inv, NEW p \in Processes, NEW t \in Topics,
         NEW response \in {"created", "exists", "failed"}, answer[p][t] = "pending",
         answer' = [answer EXCEPT ![p][t] = response], topics' \subseteq Topics,
         topics \subseteq topics', response # "failed" => t \in topics',
         faults' \in 0 .. MaxFaults, UNCHANGED <<state, late>>
  PROVE  Inv'
<1>1. state[p] = "waiting"
  BY DEF Inv, TypeOK, NoAnswers
<1>2. /\ answer' \in [Processes -> [Topics -> Answers]] /\ answer'[p][t] = response
      /\ \A u \in Topics \ {t} : answer'[p][u] = answer[p][u]
      /\ \A q \in Processes \ {p} : answer'[q] = answer[q]
  BY DEF Inv, TypeOK, Answers
<1>3. TypeOK'
  BY <1>1, <1>2 DEF Inv, TypeOK
<1>4. \A u \in Topics :
        /\ u \in Needs[p] => answer'[p][u] # "none"
        /\ answer'[p][u] \in {"created", "exists"} => u \in topics'
  BY <1>1, <1>2 DEF Inv, AnswersAreTrue
<1>5. AnswersAreTrue'
  BY <1>2, <1>4, TopicsRemain DEF AnswersAreTrue
<1>6. RunningHasTopics'
  BY InstallationAssumption DEF Inv, RunningHasTopics
<1>7. QED
  BY <1>3, <1>5, <1>6 DEF Inv

LEMMA InvStep ==
  ASSUME Inv, [Next]_vars
  PROVE  Inv'
<1>1. faults \in 0 .. MaxFaults /\ MaxFaults \in Nat /\ (Fault => faults' \in 0 .. MaxFaults)
  BY InstallationAssumption DEF Inv, TypeOK, Fault
<1>2. ASSUME NEW p \in Processes, Start(p) \/ BuildFails(p) \/ BuildWithoutInstall(p)
      PROVE  Inv'
  <2>1. answer' = answer /\ answer[p] = NoAnswers /\ UNCHANGED <<topics, late, faults>>
    BY <1>2 DEF Start, BuildFails, BuildWithoutInstall, Inv, TypeOK
  <2>2. \/ SetState(p, "building")
        \/ SetState(p, "down")
        \/ SetState(p, "running") /\ p \notin Installing
    BY <1>2 DEF Start, BuildFails, BuildWithoutInstall
  <2>3. answer' \in [Processes -> [Topics -> Answers]]
    BY <2>1 DEF Inv, TypeOK
  <2>4. QED
    BY <2>1, <2>2, <2>3, MoveKeeps
<1>3. ASSUME NEW p \in Processes, SendCreateTopics(p)
      PROVE  Inv'
  <2> DEFINE asked == [t \in Topics |-> IF t \in Needs[p] THEN "pending" ELSE "none"]
  <2>1. /\ state' = [state EXCEPT ![p] = "waiting"] /\ answer' = [answer EXCEPT ![p] = asked]
        /\ UNCHANGED <<topics, late, faults>>
    BY <1>3 DEF SendCreateTopics, SetState
  <2>2. asked \in [Topics -> Answers]
    BY DEF Answers
  <2>3. /\ state'[p] = "waiting" /\ answer'[p] = asked
        /\ \A q \in Processes \ {p} : state'[q] = state[q] /\ answer'[q] = answer[q]
    BY <2>1, <2>2 DEF Inv, TypeOK
  <2>4. TypeOK'
    BY <2>1, <2>2, <2>3 DEF Inv, TypeOK
  <2>5. AnswersAreTrue' /\ RunningHasTopics'
    BY <2>1, <2>3, TopicsRemain, InstallationAssumption DEF AnswersAreTrue, RunningHasTopics
  <2>6. QED
    BY <2>4, <2>5 DEF Inv
<1>4. ASSUME NEW p \in Processes, InstallSucceeds(p)
      PROVE  Inv'
  <2>1. /\ state[p] = "waiting" /\ SetState(p, "running")
        /\ \A t \in Topics : answer[p][t] \notin {"pending", "failed"}
        /\ answer' = [answer EXCEPT ![p] = NoAnswers] /\ UNCHANGED <<topics, late, faults>>
    BY <1>4 DEF InstallSucceeds, Answered, CanNotIgnore
  <2>2. answer[p] \in [Topics -> Answers] /\ Needs[p] \subseteq Topics
    BY InstallationAssumption DEF Inv, TypeOK
  <2>3. Needs[p] \subseteq topics
    BY <2>1, <2>2 DEF Inv, AnswersAreTrue, Answers
  <2>4. answer' \in [Processes -> [Topics -> Answers]] /\ answer'[p] = NoAnswers
        /\ \A q \in Processes \ {p} : answer'[q] = answer[q]
    BY <2>1 DEF Inv, TypeOK, NoAnswers, Answers
  <2>5. QED
    BY <2>1, <2>3, <2>4, MoveKeeps
<1>5. ASSUME NEW p \in Processes, InstallFails(p) \/ RequestFails(p) \/ Stop(p)
      PROVE  Inv'
  <2>1. Leave(p) /\ faults' \in 0 .. MaxFaults
    BY <1>1, <1>5 DEF InstallFails, RequestFails, Stop
  <2>2. QED
    BY <2>1, LeaveKeeps
<1>6. ASSUME NEW p \in Processes, NEW t \in Topics, CreateTopic(p, t)
      PROVE  Inv'
  <2>1. PICK response \in {"created", "exists", "failed"} :
          /\ answer' = [answer EXCEPT ![p][t] = response] /\ answer[p][t] = "pending"
          /\ topics' = topics \cup {t} /\ UNCHANGED <<state, late, faults>>
    BY <1>6 DEF CreateTopic
  <2>2. topics' \subseteq Topics
    BY <2>1 DEF Inv, TypeOK
  <2>3. QED
    BY <1>1, <2>1, <2>2, AnswerKeeps
<1>7. ASSUME NEW p \in Processes, NEW t \in Topics, CreateTopicFails(p, t)
      PROVE  Inv'
  <2>1. /\ answer' = [answer EXCEPT ![p][t] = "failed"] /\ answer[p][t] = "pending"
        /\ UNCHANGED <<topics, state, late>> /\ faults' \in 0 .. MaxFaults
    BY <1>1, <1>7 DEF CreateTopicFails
  <2>2. topics' \subseteq Topics
    BY <2>1 DEF Inv, TypeOK
  <2>3. QED
    BY <2>1, <2>2, AnswerKeeps
<1>8. ASSUME NEW t \in Topics, CreateLate(t)
      PROVE  Inv'
  BY <1>8, InstallationAssumption
  DEF CreateLate, Inv, TypeOK, AnswersAreTrue, RunningHasTopics
<1>9. CASE UNCHANGED vars
  BY <1>9 DEF vars, Inv, TypeOK, AnswersAreTrue, RunningHasTopics
<1>10. QED
  BY <1>2, <1>3, <1>4, <1>5, <1>6, <1>7, <1>8, <1>9 DEF Next, Build, Broker

LEMMA Invariance == Spec => []Inv
<1>1. QED
  BY InvInit, InvStep, PTL DEF Spec

\* Whatever the broker answers, and however often processes end and start, only a
\* process that waits has answers (createTopics).
THEOREM InstallationTypes == Spec => []TypeOK
<1>1. Inv => TypeOK
  BY DEF Inv
<1>2. QED
  BY <1>1, Invariance, PTL

\* A process that installs doesn't begin to work before all its topics exist, no
\* matter who has created them or which of the answers were errors (createTopics,
\* called by Build).
THEOREM TopicsBeforeWork == Spec => []RunningHasTopics
<1>1. Inv => RunningHasTopics
  BY DEF Inv
<1>2. QED
  BY <1>1, Invariance, PTL
=============================================================================

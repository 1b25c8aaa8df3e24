------------------------- MODULE EventPipelineProofs -------------------------
(***************************************************************************)
(* Proofs about the pipeline: its steps are steps of the producers and of  *)
(* the service, so everything that has been proved of the parts can be     *)
(* said of the whole, for any number of processes, partitions and clients. *)
(***************************************************************************)
EXTENDS EventPipeline, EventProducerProofs, SequenceTheorems

ServiceProofs == INSTANCE EventServiceProofs WITH
  topic <- Topic,
  Objects <- Ids,
  Events <- {Parsed(details) : details \in Change}

ParsedEvents == {Parsed(details) : details \in Change}

----------------------------------------------------------------------------

\* What the proofs about the service assume holds here.
LEMMA ServiceAssumed ==
  /\ Anonymous \subseteq Clients
  /\ ParsedEvents \subseteq ServiceProofs!Message
  /\ "missing" \notin Ids
  /\ "" \notin Text
  /\ Garbage \subseteq {t \in Text : ServiceProofs!DecodeOffset(t) = Invalid}
  /\ MaxEvents \in Nat /\ MaxRequests \in Nat /\ MaxChanges \in Nat
  /\ ServiceProofs!LastOffset .. MaxEvents \subseteq Words
  /\ Closed \notin Int
<1>1. ParsedEvents \subseteq ServiceProofs!Message
  BY DEF ParsedEvents, Parsed, Change, ServiceProofs!Message
<1>2. QED
  BY <1>1, PipelineAssumption
  DEF DecodeOffset, ServiceProofs!DecodeOffset, ServiceProofs!LastOffset

LEMMA SameServe ==
  ASSUME NEW c
  PROVE  Service!Serve(c) <=> ServiceProofs!Serve(c)
BY DEF Service!Serve, ServiceProofs!Serve,
   Service!InvalidFrom, ServiceProofs!InvalidFrom, Service!SetOffset, ServiceProofs!SetOffset,
   Service!Connect, ServiceProofs!Connect, Service!SkipExpired, ServiceProofs!SkipExpired,
   Service!Read, ServiceProofs!Read, Service!CallFails, ServiceProofs!CallFails,
   Service!ParseFails, ServiceProofs!ParseFails, Service!UserMissing, ServiceProofs!UserMissing,
   Service!SkipUnknown, ServiceProofs!SkipUnknown, Service!SendReview, ServiceProofs!SendReview,
   Service!Review, ServiceProofs!Review, Service!SkipDenied, ServiceProofs!SkipDenied,
   Service!Deliver, ServiceProofs!Deliver, Service!DeliveryFails, ServiceProofs!DeliveryFails,
   Service!End, ServiceProofs!End, Service!Step, ServiceProofs!Step,
   Service!NextMessage, ServiceProofs!NextMessage, Service!Current, ServiceProofs!Current,
   Service!Reviewable, ServiceProofs!Reviewable, Service!ReviewType, ServiceProofs!ReviewType,
   Service!Subject, ServiceProofs!Subject, Service!PermittedBy, ServiceProofs!PermittedBy,
   Service!NoRequest, ServiceProofs!NoRequest, Service!LastOffset, ServiceProofs!LastOffset,
   Service!EncodeOffset, ServiceProofs!EncodeOffset,
   Service!DecodeOffset, ServiceProofs!DecodeOffset, Service!kafkaVars, ServiceProofs!kafkaVars,
   Service!grantVars, ServiceProofs!grantVars, Service!clientVars, ServiceProofs!clientVars

LEMMA SameEnvironment == Service!Environment <=> ServiceProofs!Environment
BY DEF Service!Environment, ServiceProofs!Environment,
   Service!Publish, ServiceProofs!Publish, Service!Expire, ServiceProofs!Expire,
   Service!ChangeGrant, ServiceProofs!ChangeGrant, Service!Open, ServiceProofs!Open,
   Service!Disconnect, ServiceProofs!Disconnect, Service!FromValues, ServiceProofs!FromValues,
   Service!Types, ServiceProofs!Types,
   Service!End, ServiceProofs!End, Service!Current, ServiceProofs!Current,
   Service!Reviewable, ServiceProofs!Reviewable, Service!ReviewType, ServiceProofs!ReviewType,
   Service!Subject, ServiceProofs!Subject, Service!PermittedBy, ServiceProofs!PermittedBy,
   Service!NoRequest, ServiceProofs!NoRequest, Service!LastOffset, ServiceProofs!LastOffset,
   Service!EncodeOffset, ServiceProofs!EncodeOffset,
   Service!DecodeOffset, ServiceProofs!DecodeOffset, Service!kafkaVars, ServiceProofs!kafkaVars,
   Service!grantVars, ServiceProofs!grantVars, Service!clientVars, ServiceProofs!clientVars

\* The two instances of the service are the same.
LEMMA SameService == Service!Spec <=> ServiceProofs!Spec
<1>1. Service!Init <=> ServiceProofs!Init
  BY DEF Service!Init, ServiceProofs!Init, Service!NoRequest, ServiceProofs!NoRequest,
     Service!LastOffset, ServiceProofs!LastOffset, Service!Types, ServiceProofs!Types
<1>2. [Service!Next]_Service!vars <=> [ServiceProofs!Next]_ServiceProofs!vars
  <2>1. Service!vars = ServiceProofs!vars
    BY DEF Service!vars, ServiceProofs!vars, Service!kafkaVars, ServiceProofs!kafkaVars,
       Service!grantVars, ServiceProofs!grantVars, Service!clientVars, ServiceProofs!clientVars
  <2>2. Service!vars' = ServiceProofs!vars'
    BY DEF Service!vars, ServiceProofs!vars, Service!kafkaVars, ServiceProofs!kafkaVars,
       Service!grantVars, ServiceProofs!grantVars, Service!clientVars, ServiceProofs!clientVars
  <2>3. Service!Next <=> ServiceProofs!Next
    BY SameServe, SameEnvironment DEF Service!Next, ServiceProofs!Next
  <2>4. QED
    BY <2>1, <2>2, <2>3
<1>3. QED
  BY <1>1, <1>2, PTL DEF Service!Spec, ServiceProofs!Spec

----------------------------------------------------------------------------

\* What the service sees of a step of the producers.
LEMMA TopicStep ==
  ASSUME Consistent, Consistent', [Next]_vars
  PROVE  Topic' = Topic \/ \E m \in ParsedEvents : Topic' = Append(Topic, m)
<1>1. CASE UNCHANGED output
  BY <1>1 DEF Topic
<1>2. ASSUME NEW p \in Producers, loop[p] = "writing", Publish(p)
      PROVE  Topic' = Topic \/ \E m \in ParsedEvents : Topic' = Append(Topic, m)
  <2> DEFINE before == output[PartitionZero]
             after == output'[PartitionZero]
             e == OutEvent(p)
  <2>1. /\ output \in [OutPartitions -> Seq(OutputEvent)]
        /\ output' \in [OutPartitions -> Seq(OutputEvent)]
        /\ hand[p].out \in OutPartitions /\ PartitionZero \in OutPartitions
    BY <1>2, PipelineAssumption DEF Consistent, TypeOK
  <2>2. after = IF PartitionZero = hand[p].out THEN Append(before, e) ELSE before
    BY <1>2, <2>1 DEF Publish
  <2>3. CASE PartitionZero # hand[p].out
    BY <2>2, <2>3 DEF Topic
  <2>4. CASE PartitionZero = hand[p].out
    <3>1. before \in Seq(OutputEvent) /\ after \in Seq(OutputEvent) /\ after = Append(before, e)
      BY <2>1, <2>2, <2>4
    <3> HIDE DEF e
    <3> DEFINE n == Len(before)
    <3>2. /\ n \in Nat /\ DOMAIN before = 1 .. n /\ DOMAIN after = 1 .. (n + 1)
          /\ after[n + 1] = e /\ \A i \in 1 .. n : after[i] = before[i]
      BY <3>1
    <3>3. e \in OutputEvent
      <4>1. n + 1 \in DOMAIN after
        BY <3>2
      <4>2. QED
        BY <3>1, <3>2, <4>1, ElementOfSeq
    <3>4. \A i \in 1 .. n : Parsed(before[i].details) \in ParsedEvents
      <4> TAKE i \in 1 .. n
      <4>1. before[i] \in OutputEvent
        BY <3>1, <3>2, ElementOfSeq
      <4>2. QED
        BY <4>1 DEF OutputEvent, ParsedEvents
    <3>5. Parsed(e.details) \in ParsedEvents
      BY <3>3 DEF OutputEvent, ParsedEvents
    <3> HIDE DEF before, after, n
    <3>6. Topic = [i \in 1 .. n |-> Parsed(before[i].details)]
      BY <3>2 DEF Topic, before
    <3>7. Topic' = [i \in 1 .. (n + 1) |-> Parsed(after[i].details)]
      BY <3>2 DEF Topic, after, Parsed
    <3>8. Topic \in Seq(ParsedEvents) /\ Len(Topic) = n
      BY <3>2, <3>4, <3>6
    <3>9. Append(Topic, Parsed(e.details)) =
            [i \in 1 .. (n + 1) |-> IF i = n + 1 THEN Parsed(e.details) ELSE Topic[i]]
      BY <3>2, <3>5, <3>8
    <3>10. \A i \in 1 .. (n + 1) :
             Parsed(after[i].details) = IF i = n + 1 THEN Parsed(e.details) ELSE Topic[i]
      BY <3>2, <3>6
    <3>11. Topic' = Append(Topic, Parsed(e.details))
      BY <3>7, <3>9, <3>10
    <3>12. QED
      BY <3>5, <3>11
  <2>5. QED
    BY <2>3, <2>4
<1>3. QED
  BY <1>1, <1>2, OutputChanges

LEMMA TopicType ==
  ASSUME Consistent
  PROVE  Len(Topic) \in Nat /\ Topic \in Seq(ParsedEvents)
<1> DEFINE events == output[PartitionZero]
<1>1. events \in Seq(OutputEvent)
  BY PipelineAssumption DEF Consistent, TypeOK
<1>2. Len(events) \in Nat /\ DOMAIN events = 1 .. Len(events)
  BY <1>1, LenProperties
<1>3. \A i \in 1 .. Len(events) : Parsed(events[i].details) \in ParsedEvents
  <2> TAKE i \in 1 .. Len(events)
  <2>1. events[i] \in OutputEvent
    BY <1>1, <1>2, ElementOfSeq
  <2>2. QED
    BY <2>1 DEF OutputEvent, ParsedEvents
<1> HIDE DEF events
<1>4. Topic = [i \in 1 .. Len(events) |-> Parsed(events[i].details)]
  BY <1>2 DEF Topic, events
<1>5. QED
  BY <1>2, <1>3, <1>4

\* In the pipeline the producers do what they do alone.
THEOREM PipelineRunsProducers == PipelineSpec => Spec
<1>1. PipelineInit => Init
  BY DEF PipelineInit
<1>2. [PipelineNext]_pipelineVars => [Next]_vars
  BY DEF PipelineNext, Produce, Surroundings, Serve, pipelineVars
<1>3. QED
  BY <1>1, <1>2, PTL DEF PipelineSpec, Spec

LEMMA PipelineConsistent == PipelineSpec => []AccountingInv
<1>1. QED
  BY PipelineRunsProducers, AccountingInvariant, PTL

\* And so does the service: all that the producers do is, for it, that messages come
\* from time to time, of those that it knows (processMessage of both sides).
THEOREM PipelineRunsService == PipelineSpec => Service!Spec
<1>1. PipelineInit => Service!Init
  BY DEF PipelineInit
<1>2. ASSUME Consistent, Consistent', [PipelineNext]_pipelineVars
      PROVE  [Service!Next]_Service!vars
  <2>1. CASE Produce
    <3>1. [Next]_vars /\ Len(Topic') <= MaxEvents /\ UNCHANGED serviceVars
      BY <2>1 DEF Produce
    <3>2. CASE Topic' = Topic
      BY <3>1, <3>2 DEF Service!vars, Service!kafkaVars, Service!grantVars, Service!clientVars,
         serviceVars
    <3>3. ASSUME NEW m \in ParsedEvents, Topic' = Append(Topic, m)
          PROVE  Service!Publish(m)
      <4>1. Topic \in Seq(ParsedEvents) /\ Len(Topic) \in Nat /\ MaxEvents \in Nat
        BY <1>2, TopicType, PipelineAssumption
      <4>2. Len(Topic') = Len(Topic) + 1
        BY <3>3, <4>1, AppendProperties
      <4>3. Len(Topic) < MaxEvents
        BY <3>1, <4>1, <4>2
      <4>4. QED
        BY <3>1, <3>3, <4>3
        DEF Service!Publish, Service!grantVars, Service!clientVars, serviceVars
    <3>4. QED
      BY <1>2, <3>1, <3>2, <3>3, TopicStep
      DEF Service!Next, Service!Environment, ParsedEvents
  <2>2. CASE Surroundings \/ \E c \in Clients : Serve(c)
    BY <2>2 DEF Surroundings, Serve, Service!Next
  <2>3. CASE UNCHANGED pipelineVars
    <3>1. output' = output /\ UNCHANGED serviceVars
      BY <2>3 DEF pipelineVars, vars
    <3>2. Topic' = Topic
      BY <3>1 DEF Topic
    <3>3. QED
      BY <3>1, <3>2 DEF Service!vars, Service!kafkaVars, Service!grantVars, Service!clientVars,
         serviceVars
  <2>4. QED
    BY <1>2, <2>1, <2>2, <2>3 DEF PipelineNext
<1>3. AccountingInv => Consistent
  BY DEF AccountingInv
<1>4. QED
  BY <1>1, <1>2, <1>3, PipelineConsistent, PTL DEF PipelineSpec, Service!Spec

LEMMA PipelineHistory == PipelineSpec => []ServiceProofs!History
<1>1. ServiceProofs!Spec => []ServiceProofs!History
  BY WordsAssumption, CipherAssumption, TextAssumption, ServiceAssumed,
     ServiceProofs!HistoryComplete DEF Block, ServiceProofs!Block, ParsedEvents
<1>2. QED
  BY <1>1, PipelineRunsService, SameService, PTL

----------------------------------------------------------------------------
(* What the clients receive.                                               *)

\* The history of a client in the words of the pipeline.
LEMMA ClientHistory ==
  ASSUME ServiceProofs!History, NEW c \in Clients, NEW i \in DOMAIN received[c]
  PROVE  /\ first \in Nat
         /\ Service!Offsets(c)[i] \in 0 .. (Len(Topic) - 1)
         /\ Service!PermittedBy(grants \cup disputed, c, Topic[Service!Offsets(c)[i] + 1])
         /\ Service!Offsets(c)[1] \in Nat
         /\ \A place \in Service!Offsets(c)[1] .. Service!Offsets(c)[i] :
              (/\ place >= first /\ place < Len(Topic) /\ c \notin Anonymous
               /\ Service!PermittedBy(grants \ disputed, c, Topic[place + 1]))
              => Service!HasReceived(c, place)
<1>1. Service!Offsets(c) = ServiceProofs!Offsets(c)
  BY DEF Service!Offsets, ServiceProofs!Offsets, Service!DecodeOffset, ServiceProofs!DecodeOffset
<1>2. \A g, m : Service!PermittedBy(g, c, m) <=> ServiceProofs!PermittedBy(g, c, m)
  BY DEF Service!PermittedBy, ServiceProofs!PermittedBy,
     Service!Reviewable, ServiceProofs!Reviewable, Service!ReviewType, ServiceProofs!ReviewType,
     Service!Subject, ServiceProofs!Subject
<1>3. \A place : Service!HasReceived(c, place) <=> ServiceProofs!HasReceived(c, place)
  BY <1>1 DEF Service!HasReceived, ServiceProofs!HasReceived
<1>4. /\ first \in Nat
      /\ ServiceProofs!Offsets(c)[i] \in 0 .. (Len(Topic) - 1)
      /\ ServiceProofs!EverPermitted(c, Topic[ServiceProofs!Offsets(c)[i] + 1])
      /\ ServiceProofs!Offsets(c)[1] \in Nat
      /\ \A place \in ServiceProofs!Offsets(c)[1] .. ServiceProofs!Offsets(c)[i] :
           ServiceProofs!NotMissed(c, place)
  BY DEF ServiceProofs!History
<1>5. QED
  BY <1>1, <1>2, <1>3, <1>4
  DEF ServiceProofs!EverPermitted, ServiceProofs!NotMissed, ServiceProofs!AlwaysPermitted

\* The message of the topic that comes from a notification is what the service finds
\* in its translation.
LEMMA MessageOfTopic ==
  ASSUME Consistent, PublishedFromInput, NEW place \in 0 .. (Len(Topic) - 1)
  PROVE  LET e == output[PartitionZero][place + 1]
             n == input[e.part][e.off + 1]
         IN  /\ place + 1 \in DOMAIN output[PartitionZero]
             /\ e.part \in InPartitions /\ e.off \in Nat /\ e.off < Len(input[e.part])
             /\ n \in Notification /\ ~Rejected(n)
             /\ Topic[place + 1] = Parsed(Translate(n))
<1> DEFINE events == output[PartitionZero]
           e == events[place + 1]
           n == input[e.part][e.off + 1]
<1>1. PartitionZero \in OutPartitions /\ events \in Seq(OutputEvent)
  BY PipelineAssumption DEF Consistent, TypeOK
<1>2. Len(events) \in Nat /\ DOMAIN events = 1 .. Len(events)
  BY <1>1, LenProperties
<1>3. DOMAIN Topic = DOMAIN events /\ Len(Topic) = Len(events)
  <2>1. Topic \in Seq(ParsedEvents)
    BY TopicType
  <2>2. DOMAIN Topic = 1 .. Len(Topic) /\ Len(Topic) \in Nat
    BY <2>1, LenProperties
  <2>3. DOMAIN Topic = DOMAIN events
    BY DEF Topic
  <2>4. QED
    BY <1>2, <2>2, <2>3
<1>4. place + 1 \in DOMAIN events
  BY <1>2, <1>3
<1>5. e \in OutputEvent
  BY <1>1, <1>2, <1>4, ElementOfSeq
<1>6. e.part \in InPartitions /\ e.off \in Nat
  BY <1>5 DEF OutputEvent
<1>7. e.off < Len(input[e.part]) /\ ~Rejected(n) /\ e.details = Translate(n)
  BY <1>1, <1>4 DEF PublishedFromInput
<1>8. n \in Notification
  <2>1. input[e.part] \in Seq(Inputs)
    BY <1>6 DEF Consistent, TypeOK
  <2>2. Len(input[e.part]) \in Nat
    BY <2>1, LenProperties
  <2>3. e.off + 1 \in 1 .. Len(input[e.part])
    BY <1>6, <1>7, <2>2
  <2>4. n \in Inputs
    BY <2>1, <2>3, ElementOfSeq
  <2>5. QED
    BY <2>4, ProducerAssumption
<1>9. Topic[place + 1] = Parsed(e.details)
  BY <1>4 DEF Topic
<1>10. QED
  BY <1>4, <1>6, <1>7, <1>8, <1>9

\* A client hears only of changes of clusters that it has been allowed to see
\* (processMessage of both sides, checkPermission).
THEOREM ClientsHearOfRealChanges == PipelineSpec => []HeardOfIsReal
<1>1. ASSUME Consistent, PublishedFromInput, ServiceProofs!History
      PROVE  HeardOfIsReal
  <2> SUFFICES ASSUME NEW c \in Clients, NEW i \in DOMAIN received[c]
               PROVE  LET e == output[PartitionZero][Service!Offsets(c)[i] + 1]
                          n == input[e.part][e.off + 1]
                      IN  /\ ~Rejected(n) /\ n.table = "clusters"
                          /\ <<c, "Cluster", ObjectID(n)>> \in grants \cup disputed
    BY DEF HeardOfIsReal
  <2> DEFINE place == Service!Offsets(c)[i]
             e == output[PartitionZero][place + 1]
             n == input[e.part][e.off + 1]
             m == Topic[place + 1]
  <2>1. /\ place \in 0 .. (Len(Topic) - 1)
        /\ Service!PermittedBy(grants \cup disputed, c, m)
    BY <1>1, ClientHistory
  <2>2. ~Rejected(n) /\ m = Parsed(Translate(n))
    BY <1>1, <2>1, MessageOfTopic
  <2> HIDE DEF m, n, e, place
  <2>3. /\ m.resource = ObjectKind[n.table] /\ m.object = ObjectID(n)
        /\ n.table \in {"clusters", "versions"}
    BY <2>2, KnownTablesAndOps DEF Parsed, Translate, Rejected
  <2>4. /\ m.resource \in {"Cluster", "ClusterLink", "Subscription", "SubscriptionLink"}
        /\ Service!Subject(c, m) \in grants \cup disputed
    BY <2>1 DEF Service!PermittedBy, Service!Reviewable, Service!ReviewType
  <2>5. n.table = "clusters" /\ m.resource = "ClusterLink"
    BY <2>3, <2>4, KnownTablesAndOps
  <2>6. Service!Subject(c, m) = <<c, "Cluster", ObjectID(n)>>
    BY <2>3, <2>5 DEF Service!Subject, Service!ReviewType
  <2>7. QED
    BY <2>2, <2>4, <2>5, <2>6 DEF m, n, e, place
<1>2. AccountingInv => Consistent
  BY DEF AccountingInv
<1>3. QED
  BY <1>1, <1>2, PipelineConsistent, PipelineRunsProducers, NothingInvented, PipelineHistory, PTL

\* An event of the topic comes after what the previous notifications of its partition
\* say, except for what can be explained: this is NoGaps.  And between the first event
\* that a client has received and any other one it has received what it may see of the
\* topic.  So a client that receives an event knows what came before it.
THEOREM GapsAreExplained == PipelineSpec => []NoSilentGap
<1>1. ASSUME Consistent, PublishedFromInput, NoGaps, ServiceProofs!History
      PROVE  NoSilentGap
  <2> SUFFICES ASSUME NEW c \in Clients, NEW i \in DOMAIN received[c],
                      NEW off \in
                        0 .. (output[PartitionZero][Service!Offsets(c)[i] + 1].off - 1),
                      MaySee(c, output[PartitionZero][Service!Offsets(c)[i] + 1].part, off)
               PROVE  LET last == Service!Offsets(c)[i]
                          q == output[PartitionZero][last + 1].part
                      IN  \/ Lost(q, off) \/ InProgress(q, off)
                          \/ PublishedElsewhere(q, off)
                          \/ \E place \in Places(q, off) :
                               \/ Service!HasReceived(c, place)
                               \/ place > last
                               \/ place < Service!Offsets(c)[1]
                               \/ place < first
    BY <1>1 DEF NoSilentGap
  <2> DEFINE last == Service!Offsets(c)[i]
             e == output[PartitionZero][last + 1]
             q == e.part
  <2>1. /\ last \in 0 .. (Len(Topic) - 1) /\ Service!Offsets(c)[1] \in Nat /\ first \in Nat
    BY <1>1, ClientHistory
  <2>2. last + 1 \in DOMAIN output[PartitionZero] /\ e.off \in Nat /\ q \in InPartitions
    BY <1>1, <2>1, MessageOfTopic
  <2>3. Accounted(q, off)
    <3>1. Feed!Accounted(q, off)
      BY <1>1, <2>2, PipelineAssumption DEF NoGaps, Feed!NoGaps
    <3>2. QED
      BY <3>1, SameAccounts
  <2>4. ~Rejected(input[q][off + 1]) /\ c \notin Anonymous
        /\ Service!PermittedBy(grants \ disputed, c, Parsed(Translate(input[q][off + 1])))
    BY DEF MaySee
  <2> HIDE DEF last, e, q
  <2>5. CASE Published(q, off)
    <3>0. PICK o \in OutPartitions :
            \E j \in DOMAIN output[o] : output[o][j].part = q /\ output[o][j].off = off
      BY <2>5 DEF Published
    <3>1. PICK j \in DOMAIN output[o] : output[o][j].part = q /\ output[o][j].off = off
      BY <3>0
    <3>2. CASE o # PartitionZero
      <4>1. <<o, j>> \in Copies(q, off)
        BY <3>1 DEF Copies
      <4>2. PublishedElsewhere(q, off)
        BY <3>2, <4>1 DEF PublishedElsewhere
      <4>3. QED
        BY <4>2 DEF q, e, last
    <3>3. CASE o = PartitionZero
      <4>1. output[PartitionZero] \in Seq(OutputEvent)
        BY <1>1, PipelineAssumption DEF Consistent, TypeOK
      <4>2. /\ Len(output[PartitionZero]) \in Nat
            /\ DOMAIN output[PartitionZero] = 1 .. Len(output[PartitionZero])
        BY <4>1, LenProperties
      <4>3. Len(Topic) = Len(output[PartitionZero])
        BY <1>1, <4>2, TopicType DEF Topic
      <4> DEFINE place == j - 1
      <4>4. place \in 0 .. (Len(Topic) - 1) /\ place + 1 = j
        BY <3>1, <3>3, <4>2, <4>3
      <4>5. place \in Places(q, off)
        BY <3>1, <3>3 DEF Places
      <4>6. Topic[place + 1] = Parsed(Translate(input[q][off + 1]))
        BY <1>1, <3>1, <3>3, <4>4, MessageOfTopic
      <4> HIDE DEF place
      <4>7. place \in Service!Offsets(c)[1] .. last /\ place >= first
              => Service!HasReceived(c, place)
        <5>1. place < Len(Topic)
          BY <4>2, <4>3, <4>4
        <5>2. Service!PermittedBy(grants \ disputed, c, Topic[place + 1])
          BY <2>4, <4>6
        <5>3. \A x \in Service!Offsets(c)[1] .. last :
                (/\ x >= first /\ x < Len(Topic) /\ c \notin Anonymous
                 /\ Service!PermittedBy(grants \ disputed, c, Topic[x + 1]))
                => Service!HasReceived(c, x)
          BY <1>1, ClientHistory DEF last
        <5>4. QED
          BY <2>4, <5>1, <5>2, <5>3
      <4>8. \/ Service!HasReceived(c, place) \/ place > last
            \/ place < Service!Offsets(c)[1] \/ place < first
        <5>1. place \in Int /\ last \in Int /\ Service!Offsets(c)[1] \in Int /\ first \in Int
          BY <2>1, <4>2, <4>3, <4>4
        <5>2. QED
          BY <4>7, <5>1
      <4>9. QED
        BY <4>5, <4>8 DEF q, e, last
    <3>4. QED
      BY <3>2, <3>3
  <2>6. CASE <<q, off>> \in dropped \cup interrupted
    <3>1. Lost(q, off)
      BY <2>6 DEF Lost
    <3>2. QED
      BY <3>1 DEF q, e, last
  <2>7. CASE InProgress(q, off)
    BY <2>7 DEF q, e, last
  <2>8. QED
    BY <2>3, <2>4, <2>5, <2>6, <2>7 DEF Accounted, Settled
<1>2. AccountingInv => Consistent
  BY DEF AccountingInv
<1>3. QED
  BY <1>1, <1>2, PipelineConsistent, PipelineRunsProducers, NothingInvented, GroupHasNoGaps,
     PipelineHistory, PTL

\* With only one process the topic never goes back in time, and neither does a client.
THEOREM ClientsHearInOrder ==
  ASSUME \A p, r \in Producers : p = r
  PROVE  PipelineSpec => []HeardInOrder
<1>1. ASSUME Consistent, PublishedFromInput, OneProducerInOrder, ServiceProofs!History,
             ServiceProofs!ReceivedInOrder
      PROVE  HeardInOrder
  <2> SUFFICES ASSUME NEW c \in Clients, NEW i \in DOMAIN received[c],
                      NEW j \in DOMAIN received[c], i < j,
                      output[PartitionZero][Service!Offsets(c)[i] + 1].part =
                        output[PartitionZero][Service!Offsets(c)[j] + 1].part
               PROVE  output[PartitionZero][Service!Offsets(c)[i] + 1].off <=
                        output[PartitionZero][Service!Offsets(c)[j] + 1].off
    BY DEF HeardInOrder
  <2> DEFINE a == Service!Offsets(c)[i]
             b == Service!Offsets(c)[j]
  <2>1. Service!Offsets(c) = ServiceProofs!Offsets(c)
    BY DEF Service!Offsets, ServiceProofs!Offsets, Service!DecodeOffset,
       ServiceProofs!DecodeOffset
  <2>2. a <= b
    BY <1>1, <2>1 DEF ServiceProofs!ReceivedInOrder
  <2>3. a \in 0 .. (Len(Topic) - 1) /\ b \in 0 .. (Len(Topic) - 1)
    BY <1>1, ClientHistory
  <2> HIDE DEF a, b
  <2>4. /\ a + 1 \in DOMAIN output[PartitionZero] /\ b + 1 \in DOMAIN output[PartitionZero]
        /\ output[PartitionZero][a + 1].off \in Nat
    BY <1>1, <2>3, MessageOfTopic
  <2>5. a \in Int /\ b \in Int
    <3>1. Len(Topic) \in Nat
      BY <1>1, TopicType, LenProperties
    <3>2. QED
      BY <2>3, <3>1
  <2>6. CASE a = b
    BY <2>4, <2>6 DEF a, b
  <2>7. CASE a # b
    <3>1. a + 1 < b + 1
      BY <2>2, <2>5, <2>7
    <3>2. output[PartitionZero][a + 1].part = output[PartitionZero][b + 1].part
      BY DEF a, b
    <3>3. output[PartitionZero][a + 1].off <= output[PartitionZero][b + 1].off
      BY <1>1, <2>4, <3>1, <3>2, PipelineAssumption DEF OneProducerInOrder
    <3>4. QED
      BY <3>3 DEF a, b
  <2>8. QED
    BY <2>6, <2>7
<1>2. AccountingInv => Consistent
  BY DEF AccountingInv
<1>3. ServiceProofs!Spec => []ServiceProofs!ReceivedInOrder
  BY WordsAssumption, CipherAssumption, TextAssumption, ServiceAssumed,
     ServiceProofs!ClientsReceiveInOrder DEF Block, ServiceProofs!Block, ParsedEvents
<1>4. Spec => []OneProducerInOrder
  BY OneProducerKeepsOrder
<1>5. QED
  BY <1>1, <1>2, <1>3, <1>4, PipelineConsistent, PipelineRunsProducers, PipelineRunsService,
     SameService, NothingInvented, PipelineHistory, PTL

\* What a function repeats in a part of its domain whose values aren't found in the
\* rest, it repeats in the whole.
LEMMA RepeatsOfPart ==
  ASSUME NEW S, IsFiniteSet(S), NEW f, NEW T \in SUBSET S,
         \A x \in T, y \in S \ T : f[x] # f[y]
  PROVE  /\ {Cardinality(S), Cardinality(T), Cardinality({f[x] : x \in S}),
             Cardinality({f[x] : x \in T})} \subseteq Nat
         /\ IsFiniteSet({f[x] : x \in T})
         /\ Cardinality(T) - Cardinality({f[x] : x \in T}) <=
              Cardinality(S) - Cardinality({f[x] : x \in S})
<1> DEFINE R == S \ T
           Image(A) == {f[x] : x \in A}
<1>1. ASSUME NEW A, IsFiniteSet(A)
      PROVE  /\ IsFiniteSet(Image(A)) /\ Cardinality(Image(A)) <= Cardinality(A)
             /\ Cardinality(Image(A)) \in Nat /\ Cardinality(A) \in Nat
  <2> DEFINE g == [x \in A |-> f[x]]
  <2>1. g \in Surjection(A, Image(A))
    BY DEF Surjection
  <2> HIDE DEF g, Image
  <2>2. IsFiniteSet(Image(A)) /\ Cardinality(Image(A)) <= Cardinality(A)
    BY <1>1, <2>1, FS_Surjection
  <2>3. QED
    BY <1>1, <2>2, FS_CardinalityType
<1>2. IsFiniteSet(T)
  BY FS_Subset
<1>3. IsFiniteSet(R) /\ Cardinality(R) = Cardinality(S) - Cardinality(T)
  <2>1. S \cap T = T
    OBVIOUS
  <2>2. QED
    BY <2>1, FS_Difference
<1>4. Image(S) = Image(T) \cup Image(R) /\ Image(T) \cap Image(R) = {}
  OBVIOUS
<1> HIDE DEF Image, R
<1>5. /\ IsFiniteSet(Image(T)) /\ IsFiniteSet(Image(R)) /\ Cardinality(Image(R)) <= Cardinality(R)
      /\ {Cardinality(S), Cardinality(T), Cardinality(R), Cardinality(Image(S)),
          Cardinality(Image(T)), Cardinality(Image(R))} \subseteq Nat
  BY <1>1, <1>2, <1>3
<1>6. Cardinality(Image(S)) = Cardinality(Image(T)) + Cardinality(Image(R))
  <2>1. Cardinality(Image(T) \cup Image(R)) =
          Cardinality(Image(T)) + Cardinality(Image(R)) - Cardinality(Image(T) \cap Image(R))
    BY <1>5, FS_Union
  <2>2. Cardinality(Image(T) \cap Image(R)) = 0
    BY <1>4, FS_EmptySet
  <2>3. QED
    BY <1>4, <1>5, <2>1, <2>2
<1>7. Cardinality(T) - Cardinality(Image(T)) <= Cardinality(S) - Cardinality(Image(S))
  BY <1>3, <1>5, <1>6
<1>8. QED
  BY <1>5, <1>7 DEF Image

\* The places of the topic where a client has found a notification are copies of it.
LEMMA HearingsAreCopies ==
  ASSUME Consistent, PublishedFromInput, ServiceProofs!History,
         NEW c \in Clients, NEW q \in InPartitions, NEW off \in Nat,
         IsFiniteSet(Copies(q, off))
  PROVE  Cardinality({Service!Offsets(c)[i] : i \in Hearings(c, q, off)}) <=
           Cardinality(Copies(q, off))
<1> DEFINE places == {Service!Offsets(c)[i] : i \in Hearings(c, q, off)}
           copy == [place \in places |-> <<PartitionZero, place + 1>>]
<1>1. ASSUME NEW place \in places
      PROVE  place \in Int /\ <<PartitionZero, place + 1>> \in Copies(q, off)
  <2>1. PICK i \in DOMAIN received[c] :
          /\ place = Service!Offsets(c)[i]
          /\ output[PartitionZero][place + 1].part = q
          /\ output[PartitionZero][place + 1].off = off
    BY DEF Hearings
  <2>2. place \in 0 .. (Len(Topic) - 1)
    BY <2>1, ClientHistory
  <2>3. place + 1 \in DOMAIN output[PartitionZero]
    BY <2>2, MessageOfTopic
  <2>4. <<PartitionZero, place + 1>> \in Copies(q, off)
    <3> DEFINE j == place + 1
               found == {k \in DOMAIN output[PartitionZero] :
                           output[PartitionZero][k].part = q /\ output[PartitionZero][k].off = off}
    <3>1. j \in found
      BY <2>1, <2>3
    <3> HIDE DEF j
    <3>2. <<PartitionZero, j>> \in {<<PartitionZero, k>> : k \in found}
      BY <3>1
    <3>3. <<PartitionZero, j>> \in Copies(q, off)
      <4>1. PartitionZero \in OutPartitions
        BY PipelineAssumption
      <4>2. \E o \in OutPartitions : <<PartitionZero, j>> \in
              {<<o, m>> : m \in {k \in DOMAIN output[o] :
                 output[o][k].part = q /\ output[o][k].off = off}}
        BY <3>2, <4>1
      <4>3. QED
        BY <4>2 DEF Copies
    <3>4. QED
      BY <3>3 DEF j
  <2>5. QED
    BY <2>2, <2>4, TopicType, LenProperties
<1> HIDE DEF places
<1>2. copy \in Injection(places, Copies(q, off))
  BY <1>1 DEF Injection, IsInjective
<1> HIDE DEF copy
<1>3. QED
  BY <1>2, FS_Injection DEF places

\* The repetitions of the topic and those of the requests, together.
THEOREM ClientsHearRepetitionsPaid ==
  ASSUME NEW p, Producers = {p}
  PROVE  PipelineSpec => []RepetitionsArePaid
<1>1. ASSUME Consistent, CopiesPaid, PublishedFromInput, ServiceProofs!History,
             ServiceProofs!TypeOK, ServiceProofs!ReceivedInOrder
      PROVE  RepetitionsArePaid
  <2> SUFFICES ASSUME NEW c \in Clients, NEW q \in InPartitions,
                      NEW off \in 0 .. (Len(input[q]) - 1)
               PROVE  Cardinality(Hearings(c, q, off)) <= requests[c] + faults
    BY DEF RepetitionsArePaid
  <2> DEFINE all == DOMAIN received[c]
             here == Hearings(c, q, off)
             at == Service!Offsets(c)
  <2>1. /\ off \in Nat /\ faults \in Nat /\ requests[c] \in Nat
        /\ Len(received[c]) \in Nat /\ all = 1 .. Len(received[c])
    <3>1. requests[c] \in Nat /\ received[c] \in Seq(Text)
      BY <1>1 DEF ServiceProofs!TypeOK
    <3>2. QED
      BY <1>1, <3>1, LenProperties DEF Consistent, TypeOK
  <2>2. IsFiniteSet(all) /\ Cardinality(all) = Len(received[c])
    BY <2>1, FS_Interval
  <2>3. here \in SUBSET all /\ \A i \in here, j \in all \ here : at[i] # at[j]
    BY DEF Hearings
  <2>4. CASE received[c] = <<>>
    <3>1. here = {}
      BY <2>4 DEF Hearings
    <3>2. QED
      BY <2>1, <3>1, FS_EmptySet
  <2>5. CASE received[c] # <<>>
    <3>1. at = ServiceProofs!Offsets(c)
      BY DEF Service!Offsets, ServiceProofs!Offsets, Service!DecodeOffset,
         ServiceProofs!DecodeOffset
    <3>2. Len(received[c]) < requests[c] + Cardinality({at[i] : i \in all})
      <4>1. Len(received[c]) < requests[c]
              + Cardinality({ServiceProofs!Offsets(c)[i] : i \in DOMAIN received[c]})
        <5>1. Len(received[c]) < requests[c]
                + ServiceProofs!Cardinality({ServiceProofs!Offsets(c)[i] : i \in DOMAIN received[c]})
          BY <1>1, <2>5 DEF ServiceProofs!ReceivedInOrder
        <5>2. \A S : ServiceProofs!Cardinality(S) = Cardinality(S)
          BY DEF ServiceProofs!Cardinality, Cardinality
        <5>3. QED
          BY <5>1, <5>2
      <4>2. {at[i] : i \in all} = {ServiceProofs!Offsets(c)[i] : i \in DOMAIN received[c]}
        BY <3>1
      <4>3. QED
        BY <4>1, <4>2
    <3>3. /\ IsFiniteSet(Copies(q, off)) /\ Cardinality(Copies(q, off)) \in Nat
          /\ Cardinality(Copies(q, off)) <= 1 + faults
      BY <1>1, <2>1, CopiesBounded
    <3>4. Cardinality({at[i] : i \in here}) <= Cardinality(Copies(q, off))
      BY <1>1, <2>1, <3>3, HearingsAreCopies
    <3> HIDE DEF at, here, all
    <3>5. /\ {Cardinality(all), Cardinality(here), Cardinality({at[i] : i \in all}),
              Cardinality({at[i] : i \in here})} \subseteq Nat
          /\ Cardinality(here) - Cardinality({at[i] : i \in here}) <=
               Cardinality(all) - Cardinality({at[i] : i \in all})
      BY <2>2, <2>3, RepeatsOfPart
    <3>6. Cardinality(here) <= requests[c] + faults
      BY <2>1, <2>2, <3>2, <3>3, <3>4, <3>5
    <3>7. QED
      BY <3>6 DEF here
  <2>6. QED
    BY <2>4, <2>5
<1>2. ServiceProofs!Spec => []ServiceProofs!ReceivedInOrder
  BY WordsAssumption, CipherAssumption, TextAssumption, ServiceAssumed,
     ServiceProofs!ClientsReceiveInOrder DEF Block, ServiceProofs!Block, ParsedEvents
<1>3. ServiceProofs!Spec => []ServiceProofs!TypeOK
  BY WordsAssumption, CipherAssumption, TextAssumption, ServiceAssumed,
     ServiceProofs!TypeCorrect DEF Block, ServiceProofs!Block, ParsedEvents
<1>4. Spec => [](Consistent /\ CopiesPaid)
  BY CopiesInvariant
<1>5. QED
  BY <1>1, <1>2, <1>3, <1>4, PipelineRunsProducers, PipelineRunsService,
     SameService, NothingInvented, PipelineHistory, PTL
=============================================================================

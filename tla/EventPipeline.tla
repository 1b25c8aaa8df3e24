--------------------------- MODULE EventPipeline ---------------------------
(***************************************************************************)
(* The event producers and the event service together: the messages that   *)
(* the producers write to the output topic (pkg/logic/event_producer.go)   *)
(* are those that the service reads (pkg/logic/event_service.go).          *)
(*                                                                         *)
(* The writer of the producers spreads the events over all the partitions  *)
(* of the topic, and the service reads only one of them.  Each step is one *)
(* of the producers or one of the service and its clients.                 *)
(***************************************************************************)
EXTENDS EventProducerProperties, OffsetCodec

CONSTANTS
  PartitionZero,  \* the partition of the output topic that the service reads
  Clients, Anonymous, Garbage, MaxEvents, MaxRequests, MaxChanges, Closed

\* That of EventService, for the events of the producers.
ASSUME PipelineAssumption ==
  /\ PartitionZero \in OutPartitions
  /\ Anonymous \subseteq Clients
  /\ "missing" \notin Ids
  /\ "" \notin Text
  /\ Garbage \subseteq {t \in Text : DecodeOffset(t) = Invalid}
  /\ MaxEvents \in Nat /\ MaxRequests \in Nat /\ MaxChanges \in Nat
  /\ -1 .. MaxEvents \subseteq Words
  /\ Closed \notin Int

VARIABLES first, grants, disputed, request, received, requests, changes

serviceVars == <<first, grants, disputed, request, received, requests, changes>>
pipelineVars == <<vars, serviceVars>>

\* Mistake: every object is taken for a cluster.
ParsedAsCluster(details) ==
  [json |-> "ok", kind |-> details.kind, resource |-> "ClusterLink",
   object |-> details.object.id]

\* What the service finds in an event of the producers: json.Unmarshal and the
\* data digger give back what json.Marshal was given.
Parsed(details) ==
  [json |-> "ok", kind |-> details.kind, resource |-> details.object.kind,
   object |-> details.object.id]

Topic == [i \in DOMAIN output[PartitionZero] |-> Parsed(output[PartitionZero][i].details)]

Service == INSTANCE EventServiceProperties WITH
  topic <- Topic,
  Objects <- Ids,
  Events <- {Parsed(details) : details \in Change}

PipelineInit == Init /\ Service!Init

\* A step of the producers, up to MaxEvents messages in the topic.
Produce == Next /\ Len(Topic') <= MaxEvents /\ UNCHANGED serviceVars

Serve(c) == UNCHANGED vars /\ Service!Serve(c)

\* What happens to the service from outside: of its Environment, the messages that
\* come from nowhere aren't possible here, as every message comes from Produce.
Surroundings == UNCHANGED vars /\ Service!Environment

PipelineNext == Produce \/ Surroundings \/ \E c \in Clients : Serve(c)

\* The fairness of the producers and that of the service.
PipelineSpec ==
  /\ PipelineInit /\ [][PipelineNext]_pipelineVars
  /\ Fairness
  /\ \A c \in Clients : WF_pipelineVars(UNCHANGED vars /\ Service!Proceed(c))

----------------------------------------------------------------------------

\* The offsets, in the partition that the service reads, of the events that come
\* from a notification.
Places(q, off) ==
  {i - 1 : i \in {j \in DOMAIN output[PartitionZero] :
     output[PartitionZero][j].part = q /\ output[PartitionZero][j].off = off}}

Received(c, q, off) == \E place \in Places(q, off) : Service!HasReceived(c, place)

PublishedElsewhere(q, off) ==
  \E copy \in Copies(q, off) : copy[1] # PartitionZero

\* The client may see the object of the notification, and has been able to all
\* the time.
MaySee(c, q, off) ==
  /\ c \notin Anonymous
  /\ off < Len(input[q])
  /\ ~Rejected(input[q][off + 1])
  /\ Service!PermittedBy(grants \ disputed, c, Parsed(Translate(input[q][off + 1])))

Lost(q, off) == <<q, off>> \in dropped \cup interrupted

\* When a client receives an event, it has received what the previous
\* notifications of the same partition of the input say about the objects that
\* it may see, or it can tell why not: they are lost to an identified failure, in
\* progress, in a partition that the service doesn't read, still ahead of it (when
\* they have been published out of order), or from before it began, or retention has
\* removed them.  No combination of rebalances, commits before processing,
\* requests that fail, and identifiers to continue from leaves another gap.
NoSilentGap ==
  \A c \in Clients : \A i \in DOMAIN received[c] :
    LET last == Service!Offsets(c)[i]
        e == output[PartitionZero][last + 1]
    IN  \A off \in 0 .. (e.off - 1) : MaySee(c, e.part, off) =>
          \/ Lost(e.part, off) \/ InProgress(e.part, off)
          \/ PublishedElsewhere(e.part, off)
          \/ \E place \in Places(e.part, off) :
               \/ Service!HasReceived(c, place)
               \/ place > last
               \/ place < Service!Offsets(c)[1]
               \/ place < first

\* A client hears only of changes that have happened to objects that it may see,
\* or may have seen: what it receives is the translation of a notification about
\* one of them, never about an object that it doesn't know of or about a version.
HeardOfIsReal ==
  \A c \in Clients : \A i \in DOMAIN received[c] :
    LET e == output[PartitionZero][Service!Offsets(c)[i] + 1]
        n == input[e.part][e.off + 1]
    IN  /\ ~Rejected(n) /\ n.table = "clusters"
        /\ <<c, "Cluster", ObjectID(n)>> \in grants \cup disputed

\* With only one process, what a client hears of one partition of the input, and so of
\* one object, is in the order in which it happened, however many restarts, rebalances,
\* retries and requests there are in between.
HeardInOrder ==
  \A c \in Clients : \A i, j \in DOMAIN received[c] :
    LET d == output[PartitionZero][Service!Offsets(c)[i] + 1]
        e == output[PartitionZero][Service!Offsets(c)[j] + 1]
    IN  (i < j /\ d.part = e.part) => d.off <= e.off

\* What the client has received of a notification, the same event or copies of it.
Hearings(c, q, off) ==
  {i \in DOMAIN received[c] :
     LET e == output[PartitionZero][Service!Offsets(c)[i] + 1]
     IN  e.part = q /\ e.off = off}

\* With only one process, a client hears of the same notification once, and once more
\* at most for each disturbance of the producer and each request that continues: the
\* repetitions of both sides are added, not multiplied.
RepetitionsArePaid ==
  \A c \in Clients, q \in InPartitions : \A off \in 0 .. (Len(input[q]) - 1) :
    Cardinality(Hearings(c, q, off)) <= requests[c] + faults

\* A client that has a request when something is notified receives the event in the
\* end, unless its request ends, the notification is lost or the process that
\* should read it is stuck, the event goes to a partition that the service doesn't
\* read, retention is faster than the client, or the permission changes.
EventuallyDelivered ==
  \A c \in Clients, q \in InPartitions : \A off \in 0 .. (MaxInput - 1) :
    (/\ MaySee(c, q, off) /\ Copies(q, off) = {}
     /\ request[c].state = "reading" /\ request[c].position <= Len(Topic))
    ~> \/ Received(c, q, off)
       \/ request[c].state = "none"
       \/ Lost(q, off) \/ Stalled(q)
       \/ PublishedElsewhere(q, off)
       \/ \E place \in Places(q, off) : place < first
       \/ ~MaySee(c, q, off)
=============================================================================

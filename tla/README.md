# Formal verification of the events management service

This directory holds the TLA+ model of the program: the *event producer*, that
turns the changes that Debezium sees in the database into events, and the *event
service*, that streams those events to the clients that may see them. It has the
properties that we care about, the TLC runs that check them on small instances,
and the TLAPS proofs of those that we have proved in general.

All paths below are relative to the root of the repository unless they end in
`.tla` or `.cfg`.

## Inventory

| Component | Code | State | Operations | What is hard |
|---|---|---|---|---|
| Event producer | `pkg/logic/event_producer.go` | the goroutine of `loop`, a reader in a consumer group, a writer | `Build`, `loop`, `processMessage`, `Close` | the commit goes before the processing, rebalances, retries, failures that are only logged, `Close` and the loop run at the same time |
| Change translation | `processMessage` of the producer | none | Debezium notification to change | early returns, an identifier overwritten in place |
| Event service | `pkg/logic/event_service.go`, `pkg/servers/api/api_handlers.go` | per request: a reader of partition 0, the message in hand, the verdict | `List`, `processMessage`, `checkPermission`, the callback | retention, permissions that change, clients that continue after failures |
| Event identifiers | `encodeOffset`, `decodeOffset` | none | offset to text and back | any text may come back |
| Commands and HTTP servers | `cmd/events-mgmt/*`, `pkg/servers/*` | main thread, one goroutine per server, listeners, socket files, requests | `run`, `Build`, `Serve`, `Close` | data race on the error of `Build`, files that outlive the container, `Shutdown` against requests and against slow goroutines |
| Topic installation | `createTopics` of both builders | topics of the broker, one request per process | `createTopics` | lost answers, several processes that create the same topics |
| Routing, authentication, middleware | `api_server.go`, `pkg/api` | none | | nothing with state; not modelled |
| API representation | `pkg/mappers`, `pkg/api` | none | `MapEvent` | not modelled |
| Logging | `pkg/logging` | none that the program uses | | not modelled |
| Configuration | `pkg/config`, `*_config.go` | none | | types and defaults; not modelled |
| Deployment | `*-template.yaml` | | restarts, probes, volumes | what the other components need is in their models |

The components interact like this:

    Debezium -> input topic -> producers (one consumer group) -> output topic
                                                                     |
    client <- HTTP stream <- List (one goroutine per request) <------+
                                   |
                                   +-> access review service

The producers never talk to the service: topics are the only thing that they
share. The writer of the producers spreads the events over all the partitions of the
output topic, and the service reads only one of them. A process is a main thread that builds everything in order, waits for a
signal and closes everything in the same order, and the goroutines that the
builders start, which nobody waits for.

For each component, what makes it correct:

* producer: no message is skipped in silence; what failures cost is bounded; the
  order of the input is kept with one producer; each repetition has a cause; nothing
  is written after `Close`; the process ends when told to;
* translation: the early returns amount to a simple table, and changes of rows are
  never rejected;
* service: a client misses nothing and goes back at most to the event that it
  continues from, over all its requests; nothing is delivered without a verdict
  about that event and that user; whoever stays connected makes progress;
* identifiers: they lead back to their offset, and no other text is accepted;
* commands: files left behind never prevent the restart; a closed server is
  drained; shutdown ends; the API always comes back;
* both together: when a client receives an event, it has received whatever it may see
  of what came before, or there is a reason that can be named; with one producer it
  hears in order, and again only when something explains it; and what it is waiting
  for comes;
* installation: nobody works without its topics, and nobody fails for ever because
  of what others have created.

The hazards of the code are listed, each at its line, in `PROJECT.json`.

## Modules

| Module | What it is |
|---|---|
| `ChangeTranslation` | operators: the translation of one notification |
| `ChangeTranslationProperties` | a machine that runs the translation once on every notification, and its properties |
| `EventProducer` | the group of producers; uses `ChangeTranslation` |
| `ChangeFeed` | what a group of producers promises, without offsets, groups, threads or retries |
| `EventProducerProperties` | type invariant, properties, the parts of the inductive invariant, and the mapping to `ChangeFeed` |
| `OffsetCodec`, `OffsetCodecProperties` | identifiers, and a client that receives them or makes them up |
| `EventService` | the service and its clients; uses `OffsetCodec` |
| `Subscription` | what the service promises: a cursor over the events for each client |
| `EventServiceProperties` | type invariant, properties, and the mapping to `Subscription` |
| `EventPipeline` | producers and service over the same topic; uses `EventProducerProperties`, `OffsetCodec` and an instance of `EventServiceProperties` |
| `Command`, `CommandProperties` | the life of a container of either of the two commands |
| `TopicInstallation`, `TopicInstallationProperties` | creation of the topics by several processes |
| `MC*` | instances for TLC |
| `*Lemmas`, `*Proofs` | theorems |

Definitions introduced by a comment that begins with *Mistake* aren't part of the
specifications. They are variants of the definition that follows them, with a
plausible bug, and serve to see that the properties find it (`mutants` in
`PROJECT.json`).

### EventProducer

| State | Code |
|---|---|
| `input`, `output`, `committed`, `owner`, `rebalance` | topics and consumer group, in Kafka |
| `main` | where `run` and `Close` are: `closing` is between closing the reader and the writer, `flushing` inside the `Close` method of the writer, `abandoned` after the early return of `Close` |
| `loop` | where the loop is: `reading`, `fetched` and `committed` are inside `ReadMessage`, `processing` and `writing` inside `processMessage` |
| `joined`, `position` | the reader: whether it knows the current assignment, and the next offset that it delivers |
| `hand` | the local variables of `loop` and `processMessage`, and the attempts of the writer |
| `dropped`, `interrupted`, `faults` | history, only for the properties |

`Fetch`, `Commit` and `CommitReturns` are `ReadMessage`; `ReadError` and `ReadEOF`
the two ways out of the loop; `Reject` the early returns of `processMessage`;
`StartWrite`, `WriteOK`, `WriteRetry`, `WriteGivesUp` and `WriteClosed` the call to
`WriteMessages`; `CloseReader`, `CloseWriter` and `CloseReturns` the `Close`
method; `Exit` the end of `run`, which doesn't wait for the loop. `Start` is
`Build`, that opens the reader and starts the loop.

What is assumed about `kafka-go` (version 0.4.20) and Kafka, which are outside of
the repository:

* with a consumer group `ReadMessage` takes a message and commits its offset before
  it returns; the commit is sent with the generation that is current then, so it
  isn't rejected because the partition has moved in the meantime. Commits can thus
  be late and go backwards;
* when the generation changes the reader discards its queue and goes on from the
  committed offsets, but not what `ReadMessage` has already taken. There is no
  barrier: a member may still work while others have joined, so the model allows
  more than Kafka does;
* messages that are already queued can be read while the reader is being closed;
* the writer makes `MaxAttempts` attempts; each of them takes effect before its
  response (or its timeout), or never. Its `Close` method rejects new messages and
  waits for the one in flight.

Everything that goes wrong (stops, crashes, failed reads and writes, rebalances
without a reason) takes one unit from the budget `MaxFaults`.

### EventService

Each client has at most one request in progress, always with the same user. The
record `request[c]` is the goroutine of the request: `opened` (headers sent, `from`
not looked at), `connecting` (`SetOffset` called), `reading`, `parsing` (in
`processMessage`), `reviewing` (request sent to the access review service) and
`reviewed` (its answer is coming). `begins` and `permitted` are history. A message
is abstracted to what the permission check looks at; `Message` includes messages
that the producer would never write, because the code handles them.

`Open` is `listenEvents` until it calls `List`; `InvalidFrom`, `SetOffset`,
`Connect`, `SkipExpired` and `Read` are `List`; `ParseFails`, `UserMissing`,
`SkipUnknown`, `SendReview`, `Review` and `SkipDenied` are `processMessage` with
the functions that check permissions, in their order: the user name is checked
after the kind of the details and before the object. `Deliver` is the callback;
`DeliveryFails`, `CallFails` and `Disconnect` the errors.

Assumed: an offset that is older than the first one becomes the first one, and one
that doesn't exist yet is waited for; a disconnection cancels the context, and the
call in progress returns. The queue of the reader isn't modelled: it is private to
the request and an offset that retention removes may still be delivered from it,
which makes the properties easier to satisfy, not harder. The branch of
`listEvents` for a writer that isn't a flusher isn't modelled.

### ChangeFeed and Subscription

`ChangeFeed` has workers that take the notifications of each partition, never one
that has something forgotten before it, and turn each of them into at least one
event, or lose it to a disturbance, one loss for each. `EventProducer` implements it:
what a worker has in hand is the message of a loop from the moment its offset is
committed (`InHand`), and what is lost are `dropped` and `interrupted` together. A
loss may come after its disturbance, when somebody has stopped a process and its loop
still has a message; that is why `Lose` looks only at the totals, and why the proof
needs to count those processes (`Owing`).

In `Subscription` each client has a cursor that moves over the events one by one.
The cursor can be lost at any time, and then it goes back to the last event that the
client has seen. `EventService` implements it: the cursor is the message in hand, or
the position of the reader when there is none, of a request whose reader has
connected; the verdict is the answer of the access review service while it is on its
way; and what the client has seen are the identifiers that it has received, decoded.

### EventPipeline

The topic of the service is the partition `PartitionZero` of the output of the
producers, with each event as the service parses it (`Parsed`): the kind and the
identifier of the link that the producer writes are what the permission check looks
at. Each step is one of the producers, one of the service, or one of what surrounds
the service: clients, retention and permissions. No message comes from anywhere else,
so what the service does with messages that aren't events is only in the runs of
`EventService`. `MaxEvents` bounds the topic, as it does in `EventService`, and
`EnoughEvents`, in `MCEventPipeline`, says why the run never notices.

### OffsetCodec

A block is a pair of words. AES is any permutation of the blocks, and base 32 any
encoder with a left inverse; that several texts decode to the same block isn't
excluded, because the decoder of Go ignores line breaks and the last bits.

### Command

The sequence `Servers` distinguishes the two commands. `thread[s]` is the goroutine
of a server: `new` (deleting the old file), `ready` (to call `net.Listen`),
`listening` (to call `Serve`), `serving`, and `finished` or `failed`. `step` and
`at` are the main thread; `err` are the servers whose goroutine has assigned an
error to the variable `err` of `Build`, which happens without synchronization in
the API and health servers: `BuildReturns` or `BuildFails` depending on who is
faster. `tracked` are the requests that `Shutdown` waits for, and `http2` those in
a connection that `h2c.NewHandler` has taken from the server, that it doesn't know
about. Configuration errors are a failure of `BuildComponent`.

### TopicInstallation

`answer[p]` is the answer of the broker to the request of the process, topic by
topic. A process that ends leaves its request to the broker, which may still do it.

## Runs

Times are on two cores.

| Run | Configuration | States | What it shows |
|---|---|---|---|
| `translation` | `Translation.cfg` | 1.7 k | `MeetsReference`, `RowChangesGetThrough` on every notification |
| `link_kind` | `LinkKind.cfg` | | finding: `KindIsLinkKind` is false |
| `producer_group` | `ProducerGroup.cfg` | 704 k, 36 s | two processes: `TypeOK`, the inductive invariant `AccountingInv`, `LossBounded`, `NoGaps`, `ClosedIsQuiet`, and the refinement `ImplementsFeed` |
| `producer_partitions` | `ProducerPartitions.cfg` | 621 k, 32 s | one process, two partitions on each side: `NothingSkipped`, `OneProducerInOrder`, `OneProducerCopies`, `ShutdownCompletes` |
| `producer_liveness` | `ProducerLiveness.cfg` | 210 k, 25 s | two processes: `EventuallySettled` |
| `offset_codec` | `OffsetCodec.cfg` | 6.6 k | `RoundTrip`, `OnlyIdentifiers`, `AllIdentifiers` |
| `service_one` | `ServiceOne.cfg` | 626 k, 105 s | one client: `TypeOK`, `NothingMissed`, `ReceivedInOrder`, `DeliveredPermitted`, `EventuallyReceived`, and the refinement `ImplementsSubscription` |
| `service_two` | `ServiceTwo.cfg` | 4.5 M, 80 s | two users and an anonymous client: `DeliveredPermitted` |
| `pipeline` | `Pipeline.cfg` | 303 k, 70 s | a producer, two output partitions and a client: `NoSilentGap`, `HeardOfIsReal`, `HeardInOrder`, `RepetitionsArePaid`, `EventuallyDelivered` |
| `command_life` | `CommandLife.cfg` | 152 k, 13 s | the server command: `OnlyEnvironmentFails`, `ClosedIsDrained`, the inductive invariant `CommandInv`, `StopsUnlessStreaming`, `ComesBack`, no deadlock |
| `command_close` | `CommandClose.cfg` | | finding: `CloseStopsServer` is false |
| `installation` | `Installation.cfg` | 16 k | `TypeOK`, `RunningHasTopics`, `AllRun`, no deadlock |

### Bounds

* Producer: two notifications per partition, so that there is one before or after
  the one in trouble, and for an offset that goes backwards; of two kinds, one that is
  published and one that is rejected, except in `producer_group`, where all of them are
  published; two disturbances, for a failure during the recovery from another or
  while the process is being stopped; two attempts, so there are attempts that are the
  last one and that are not. Two processes exchange one partition; the second partition
  is only for one process, as partitions interact only through the loop that reads
  them. `producer_liveness` has one disturbance, as with two of them there are too many
  states for a temporal property: most combinations end in one of the exceptions of
  `EventuallySettled` already, and the safety properties are checked with two.
* Service: three messages and two requests, so that there is something before the
  first request, between the requests and after the last one; retention may remove
  any number of messages; one change of permissions can fall between any two steps. `service_two` has a single
  message and a single request of each client, which is what it takes to have two
  reviews in progress at the same time, of two users that may have different
  permissions, about either type of resource; the two users are symmetric.
* Pipeline: one producer, a notification before another one, about a cluster that the
  client may see or not, or about a version, which nobody may see; two output
  partitions, one that the service reads and one that it doesn't; one failure, which
  can be a stop, a crash, a rebalance or a failed write; two attempts to write, so
  that an event can be there twice; one request, as continuing from an event is
  covered by `service_one` and by the proofs. With one process there are no events out
  of order; what two of them do to the order is in `producer_group`.
* Codec: words of two bits and texts of up to three digits, with a padding of two
  bits that are ignored, like those of base 32.
* Commands: the three servers of the server command; two requests per server, to see
  one of them end first; up to four disturbances, so a restart can fail as well. The
  producer command has the same list without the API server, and no probe; it has no
  run of its own, and the proofs cover any list.
* Installation: one process of each class, two topics, three disturbances.

The runs with `CHECK_DEADLOCK FALSE` stop when the bounds are exhausted; the server
command and the installation never stop.

### Fairness

* Producer (`FairSpec`): the Go scheduler runs both threads, the Deployment starts
  the container again, a rebalance that is due takes place. A step of the loop is
  taken (`Proceed`), but nothing says that an attempt to write succeeds, and the
  environment doesn't have to write, fail, crash or stop. In particular a loop that
  waits for a message isn't made to fail: `Proceed` leaves the errors of `ReadMessage`
  out, except for those that closing the reader causes. A loop that ended isn't started
  again: that is why `EventuallySettled` has the exception `Stalled`. The producer
  has no probe (`producer-template.yaml`), so nothing notices.
* Service: every goroutine runs and its calls return, with a result or an error,
  with the exception of `ReadMessage`, that waits for a message: it may fail, but
  nothing makes it do so (`Proceed`). Clients don't have to do anything.
* Pipeline: that of the producers and that of the service together. Retention,
  failures and the balancer of the writer do as they like, and so each of them is a
  way out of `EventuallyDelivered`.
* Command: restarts, the liveness probe of `server-template.yaml`, the main thread
  and the goroutines. Requests to the health and metrics servers end, as their
  handlers return; those to the API server don't have to.
* Installation: restarts, processes and broker.

### Findings

* `link_kind`: the producer publishes the kind `Version` in the link to a version
  (`pkg/logic/event_producer.go:344`), while the comment of the type says that it is
  a kind like `ClusterLink` or `VersionLink` (`pkg/models/link_model.go:21`).
* `command_close`: the comment says that `Close` "stops the server and releases all
  the resources it is using" (`pkg/servers/api/api_server.go:228`), but a request in
  a connection that talks HTTP/2 without TLS survives it. Those that `Shutdown` does
  know about have the opposite problem: it waits for them with no limit, which is
  why `StopsUnlessStreaming` has an exception.

## Proofs

`tlapm` checks all of these, for every value of the constants that satisfies the
assumptions of the modules:

* `EventProducerProofs`:
  * `TypeCorrect` and `NoSilentLoss` (`NothingSkipped`). `NothingSkipped` isn't
    inductive: a commit may come from a process that took the message long ago, when
    the partition was still its own. The inductive invariant `AccountingInv`
    (`AccountingInvariant`) adds that a fetched message has nothing unaccounted
    before it (`FetchedInOrder`), that a reader has gone past nothing except what is
    accounted for, or what its own loop has fetched and not committed yet, or it
    belongs to a loop that has ended (`ReaderSkipsNothing`), and that offsets stay
    within the input. The lemmas say that `Accounted` is preserved by each class of
    steps, and there is one step of the proof for each action.
  * `LossesArePaid` (`LossBounded`). A loss without a new disturbance comes from a
    process that somebody has stopped while its loop had a message in hand, so the
    processes in that situation (`Owing`) are counted as losses from the beginning;
    `LossStep` says what a step can do to the three numbers.
  * `GroupImplementsFeed` (`ImplementsFeed`). Steps that don't change what is in hand,
    published, lost or counted are stutters or `Disturb`; `Commit` is `Take`, whose
    condition is `FetchedInOrder`; the end of a write is `Finish`, `Repeat` or `Lose`,
    and the total of `Lose` is `LossesArePaid`.
  * `GroupHasNoGaps` (`NoGaps`), with two more invariants: what the loop has in hand
    and what has been published came with nothing unaccounted before it.
    The lemma `NothingInvented`, that events are translations of notifications of the
    input, is what this needs to know about them.
  * `ClosedWritesNothing` (`ClosedIsQuiet`), because a closed writer has nothing in
    flight.
  * `OneProducerKeepsOrder` (`OneProducerInOrder`), for groups of one process. It
    isn't inductive: a rebalance during a commit takes the reader back. The invariant
    `ReaderAtCommitted` says that it goes back by one message at most, and
    `WrittenIsCommitted` that nothing is written before it is committed.
  * `OneProducerPaysForCopies` (`OneProducerCopies`), for groups of one process. The
    invariant `CopiesPaid` counts, together with the copies of a message, the chances
    that the process has of publishing it once more: because it has it in hand
    (`MayWrite`), because its reader has yet to deliver it (`InQueue`), or because the
    group would give it to the next reader (`NotTaken`). A step without a disturbance
    moves chances around, or spends one on a copy (`ChancesNext`). The rebalance that
    follows a start isn't a disturbance, and adds no chance because it finds the
    reader without partitions (`NewMemberHasNothing`); that the committed offset never
    goes back is `ReaderAtCommittedNext`.
* `EventServiceProofs`: `TypeCorrect`, `DeliveriesPermitted` (`DeliveredPermitted`),
  `ServiceImplementsSubscription` (`ImplementsSubscription`), `ClientsMissNothing`
  (`NothingMissed`), `ClientsReceiveInOrder` (`ReceivedInOrder`) and `HistoryComplete`,
  for any number of clients, messages and requests, and any cipher. There are five
  inductive invariants, each on top of the previous ones: `Shape`, the types and that
  every identifier that a client has received comes from `EncodeOffset`; `Memory`, that
  a request resumes at the last event of its client (`Resumes`) and that `permitted`
  remembers (`Noted`); `Progress`, that what is behind the reader has been received,
  or can't be; `Order`, that what has been received is behind the reader; and
  `AllGranted`, that what has been received, or is about to be, has been permitted at
  some time. `HistoryComplete` puts them together without mentioning requests, so that
  it holds whatever each client is doing: what the client has received exists, has
  been permitted, and nothing is missing between the first event that it received and
  any other. `ServeEffect` summarises what each step of a request does, and the rest of
  the lemmas use it instead of the actions.
* `EventPipelineProofs`: `PipelineRunsProducers` and `PipelineRunsService`, that what
  the pipeline does is, for each side, what that side does alone: for the service
  the steps of the producers add one message to its topic, or are stutters. So the
  theorems about both sides hold here, provided that the constants of the pipeline
  satisfy what the service assumes (`ServiceAssumed`). From them:
  * `ClientsHearOfRealChanges` (`HeardOfIsReal`): what a client has received was
    permitted (`HistoryComplete`), what is in the topic is the translation of a
    notification (`NothingInvented`), and versions can't be permitted;
  * `GapsAreExplained` (`NoSilentGap`): before an event of the topic everything is
    accounted for (`GroupHasNoGaps`), and of what was published the client has
    received all that it may see (`HistoryComplete`);
  * `ClientsHearInOrder` (`HeardInOrder`), with one process: neither the topic
    (`OneProducerKeepsOrder`) nor the client (`ClientsReceiveInOrder`) goes back;
  * `ClientsHearRepetitionsPaid` (`RepetitionsArePaid`), with one process: what comes
    twice to a client is either a copy, that a disturbance has paid for (`CopiesPaid`),
    or an event that the client continues from (`ClientsReceiveInOrder`). The latter
    counts the repetitions of all the events together; `RepeatsOfPart` is what
    relates them to those of a single notification.
* `TopicInstallationProofs`: `InstallationTypes` and `TopicsBeforeWork`
  (`RunningHasTopics`). The latter needs `AnswersAreTrue`: that a process that waits
  has asked for all its topics, and that the answers that it has don't lie.
* `ChangeTranslationProofs`: `TranslationMeetsReference` and
  `RowChangesAreTranslated`. They rest on `TranslationIsChange`, in
  `ChangeTranslationLemmas`, which says that what isn't rejected translates to a
  change, and is also used by the proofs about the producer.
* `OffsetCodecProofs`: `IdentifiersAreUnique`, `IdentifiersLeadBack`, `NoOtherText`
  and `EveryTextOfAnIdentifier` (`AllIdentifiers`), from the assumption that the cipher is a permutation and that the
  text encoding can be inverted.
* `CommandProofs`: `CommandCorrect` (`Spec => []CommandInv`), and from it
  `RestartIsSafe` and `CloseDrains`, for any list of servers. `OnlyEnvironmentFails`
  alone isn't inductive: a goroutine that is about to listen must have no file
  (`ReadyWithoutFile`). `ClosedIsDrained` needs two more parts: that the servers
  that `Close` has reached are stopping (`ReachedAreStopping`), and that those that
  are stopping don't serve (`StoppingDoNotServe`), so that a goroutine that comes late
  finds the server closed. The actions are grouped in classes with one lemma each:
  moves of the main thread, ends of the process, `StartServer`, `Shutdown`, steps of
  a goroutine and of a client.

Every safety property of the runs that pass is stated by one of these theorems.
Only model-checked is everything about liveness, which is out of reach of the prover:
`EventuallySettled`, `ShutdownCompletes`, `EventuallyReceived`, `EventuallyDelivered`,
`StopsUnlessStreaming`, `ComesBack` and `AllRun`.

## Not modelled

* Routing, authentication (except for its result, the user), compression and CORS:
  library handlers, composed once, with no state of the program. The removal of
  trailing slashes depends on nothing but the path.
* API representation: `MapEvent` copies an event, and the metadata are constants.
* Configuration and the connection to the access review service: loaded by libraries.
* Logging: the wording of messages and the debug output have no influence on the
  rest. The commands build their loggers without fields, so the extraction of fields
  from the context and the clones of the encoder are never reached. Whoever adds
  a field should know that `extractFields` (`pkg/logging/logger.go`) keeps the result
  of a function that returns an error only when there *is* an error; and whoever
  wraps handlers with the wrapper of this package, that its response writer doesn't
  implement `http.Flusher`, which `listEvents` requires.
* The rest of the deployment: database, connector, broker and proxy are the
  environment of the models, in as much as the program can tell.
* A certificate that can't be loaded leaves a listener that accepts connections and
  never serves them; only its socket file is in the model.

## Order of the work

The modules were written in this order, each checked and proved before the next one:
translation, producer, codec, service, commands, installation; then the abstract
specifications, `ChangeFeed` and `Subscription`, with their refinements; the proofs
about the service and the installation; `EventPipeline`, which composes the
producers and the service; and the proofs about it.

What could follow: the properties that `ChangeFeed` and `Subscription` have by
themselves, to derive those of the detailed specifications from them; how long a topic
can get with one producer, to prove that `EnoughEvents` is enough; and a run of the
pipeline with two producers, out of reach of TLC with these bounds.

----------------------- MODULE EventProducerProperties -----------------------
(***************************************************************************)
(* What a group of event producers promises, and does not.                 *)
(***************************************************************************)
EXTENDS EventProducer

OutputEvent == [by: Producers, part: InPartitions, off: Nat, details: Change]

Hand ==
  [part: InPartitions \cup {None}, off: Nat,
   out: OutPartitions \cup {None}, attempts: Nat]

\* Every variable has its type, and the loop has a message in hand exactly
\* while it works on one.
TypeOK ==
  /\ input \in [InPartitions -> Seq(Inputs)]
  /\ output \in [OutPartitions -> Seq(OutputEvent)]
  /\ committed \in [InPartitions -> Nat]
  /\ owner \in [InPartitions -> Producers \cup {None}]
  /\ rebalance \in BOOLEAN
  /\ main \in [Producers ->
       {"down", "running", "closing", "flushing", "closed", "abandoned"}]
  /\ loop \in [Producers ->
       {"idle", "reading", "fetched", "committed", "processing", "writing", "stopped"}]
  /\ joined \in [Producers -> BOOLEAN]
  /\ position \in [Producers -> [InPartitions -> Nat \cup {NotAssigned}]]
  /\ hand \in [Producers -> Hand]
  /\ dropped \subseteq InPartitions \X Nat
  /\ interrupted \subseteq InPartitions \X Nat
  /\ faults \in Nat
  /\ \A p \in Producers :
       /\ main[p] = "down" <=> loop[p] = "idle"
       /\ hand[p].part = None <=> loop[p] \in {"idle", "reading", "stopped"}
       /\ loop[p] = "writing" => hand[p].out \in OutPartitions

Copies(q, off) ==
  UNION {{<<o, i>> : i \in {j \in DOMAIN output[o] :
            output[o][j].part = q /\ output[o][j].off = off}} : o \in OutPartitions}

Published(q, off) ==
  \E o \in OutPartitions : \E i \in DOMAIN output[o] :
    output[o][i].part = q /\ output[o][i].off = off

\* Nothing remains to be done for the message.
Settled(q, off) ==
  \/ Rejected(input[q][off + 1])
  \/ Published(q, off)
  \/ <<q, off>> \in dropped
  \/ <<q, off>> \in interrupted

InProgress(q, off) ==
  \E p \in Producers : loop[p] \in Busy /\ MessageId(p) = <<q, off>>

Accounted(q, off) == Settled(q, off) \/ InProgress(q, off)

\* No rebalance, crash, late commit or rewound offset makes the group move past
\* a message in silence: below the committed offset every message that has a
\* translation is published, in progress, or one of those that an identified
\* failure has cost (ReadMessage commits before processMessage runs).
NothingSkipped ==
  \A q \in InPartitions : \A off \in 0 .. (committed[q] - 1) :
    Accounted(q, off)

\* The parts of the inductive invariant behind NothingSkipped.  Offsets stay
\* within the input; the loop works on a message that exists; the reader of each
\* process has gone past nothing but what is accounted for and what its own loop
\* has fetched; and a fetched message, that the loop may commit long after its
\* partition has gone to another process, has nothing unaccounted before it.
WithinInput ==
  \A q \in InPartitions :
    /\ committed[q] <= Len(input[q])
    /\ \A p \in Producers : position[p][q] <= Len(input[q])

HandOK ==
  \A p \in Producers :
    /\ loop[p] \in Busy \cup {"fetched"} => hand[p].off < Len(input[hand[p].part])
    /\ loop[p] = "writing" => ~Rejected(Message(p))

ReaderSkipsNothing ==
  \A p \in Producers, q \in InPartitions : \A off \in 0 .. (position[p][q] - 1) :
    \/ Accounted(q, off)
    \/ loop[p] = "fetched" /\ MessageId(p) = <<q, off>>
    \/ loop[p] = "stopped"

FetchedInOrder ==
  \A p \in Producers : loop[p] = "fetched" =>
    \A off \in 0 .. (hand[p].off - 1) : Accounted(hand[p].part, off)

Consistent == TypeOK /\ WithinInput /\ HandOK

AccountingInv ==
  Consistent /\ NothingSkipped /\ ReaderSkipsNothing /\ FetchedInOrder

\* Processes that are being stopped with a message in hand.
Owing == {p \in Producers : main[p] \notin {"down", "running"} /\ loop[p] \in Busy}

\* Committing before processing has a limited price: each crash, stop, failed
\* read or failed write costs one message at most, counting those that are about
\* to be lost because nobody waits for the loop of a process that is stopping.
LossBounded ==
  Cardinality(dropped \cup interrupted) + Cardinality(Owing) <= faults

\* With only one process an output partition never goes back in time, whatever
\* restarts, rebalances and retries there are: the events that come from one
\* input partition are in its order, with repetitions.
OneProducerInOrder ==
  \A o \in OutPartitions : \A i, j \in DOMAIN output[o] :
    (i < j /\ output[o][i].part = output[o][j].part)
      => output[o][i].off <= output[o][j].off

\* With only one process, every repetition of an event has its disturbance: a
\* lost acknowledgement, or a rebalance while its offset was being committed.
OneProducerCopies ==
  \A q \in InPartitions : \A off \in 0 .. (Len(input[q]) - 1) :
    Cardinality(Copies(q, off)) <= 1 + faults

\* The group, with its offsets, rebalances, retries and threads, does nothing that
\* ChangeFeed doesn't allow: a message is in hand from the moment its offset is
\* committed until the loop goes on, ends or vanishes.
Feed == INSTANCE ChangeFeed WITH
  Workers <- Producers,
  working <- [p \in Producers |-> InHand(p)],
  lost <- dropped \cup interrupted

ImplementsFeed == Feed!Spec

\* What a reader of the output topic can count on: whatever rebalances, restarts
\* and late commits there are, when it finds an event, no earlier notification of
\* the same partition of the input has been forgotten.
NoGaps == Feed!NoGaps

\* After Close returns without error the process writes nothing, even though
\* the loop that calls the writer may still be running.
ClosedIsQuiet ==
  [][\A o \in OutPartitions :
       Len(output'[o]) > Len(output[o])
         => main[output'[o][Len(output'[o])].by] # "closed"]_vars

\* The group has given the partition to a process whose loop has ended, which
\* keeps the partition as nothing restarts the loop or the process.
Stalled(q) ==
  /\ owner[q] \in Members
  /\ loop[owner[q]] = "stopped"

\* Every notification is eventually dealt with, unless its partition falls into
\* the hands of a process whose loop ended with an error.
EventuallySettled ==
  \A q \in InPartitions : \A off \in 0 .. (MaxInput - 1) :
    off < Len(input[q]) ~>
      Stalled(q) \/ (off < Len(input[q]) /\ Settled(q, off))

\* A process that has received the signal ends, also when closing the reader fails
\* and Close returns early: waiting for the writer is never waiting for ever, whatever
\* the loop is doing and however the broker fails.
ShutdownCompletes ==
  \A p \in Producers : main[p] \in {"closing", "abandoned"} ~> main[p] = "down"
=============================================================================

--------------------------- MODULE EventProducer ---------------------------
(***************************************************************************)
(* A group of event producers (pkg/logic/event_producer.go and the command *)
(* that runs it): every producer reads the raw Debezium notifications of   *)
(* the partitions of the input topic that the consumer group gives to it,  *)
(* translates them, and writes the resulting events to the output topic.   *)
(*                                                                         *)
(* A process has two threads: main, which builds the producer, waits for a *)
(* signal and closes it, and the loop goroutine.  The broker, the consumer *)
(* group and the two objects of the kafka-go library (reader and writer)   *)
(* are modelled from how the code uses them, with every outcome that the   *)
(* code has to live with.                                                  *)
(***************************************************************************)
EXTENDS ChangeTranslation, Integers, Sequences, FiniteSets

CONSTANTS
  Producers,      \* the processes of the Deployment
  InPartitions,   \* partitions of the input topic
  OutPartitions,  \* partitions of the output topic
  Inputs,         \* the notifications that Debezium may write
  None,           \* no process, or no partition
  MaxAttempts,    \* attempts that the Kafka writer makes (10 by default)
  MaxInput,       \* bound: notifications in each input partition
  MaxFaults       \* bound: disturbances, see `faults`

ASSUME ProducerAssumption ==
  /\ Inputs \subseteq Notification
  /\ IsFiniteSet(Producers)
  /\ None \notin Producers \cup InPartitions \cup OutPartitions
  /\ MaxAttempts \in Nat \ {0}
  /\ MaxInput \in Nat
  /\ MaxFaults \in Nat

VARIABLES
  input,        \* the notifications in each input partition
  output,       \* the events in each output partition
  committed,    \* the offset committed by the group in each input partition
  owner,        \* the member that the group has assigned to each partition
  rebalance,    \* whether membership has changed since the last assignment
  main,         \* the state of the main thread of each process
  loop,         \* the state of the loop goroutine of each process
  joined,       \* whether the reader knows the current assignment
  position,     \* next offset that the reader of each process delivers
  hand,         \* the message that the loop of each process is working on
  dropped,      \* messages given up because WriteMessages returned an error
  interrupted,  \* messages being worked on when the loop ended for any reason
  faults        \* disturbances so far: failures, crashes, stops, extra rebalances

groupVars == <<committed, owner, rebalance>>
processVars == <<main, loop, joined, position, hand>>
lossVars == <<dropped, interrupted, faults>>
vars == <<input, output, groupVars, processVars, lossVars>>

NotAssigned == -1
Nothing == [part |-> None, off |-> 0, out |-> None, attempts |-> 0]
NoPosition == [q \in InPartitions |-> NotAssigned]

\* Processes whose reader is open, and are therefore members of the group.
Members == {p \in Producers : main[p] = "running"}

Message(p) == input[hand[p].part][hand[p].off + 1]
MessageId(p) == <<hand[p].part, hand[p].off>>

\* The states in which the loop holds a message that ReadMessage has committed.
Busy == {"committed", "processing", "writing"}

\* What is lost if the loop of p stops now.
InHand(p) == IF loop[p] \in Busy THEN {MessageId(p)} ELSE {}

Init ==
  /\ input = [q \in InPartitions |-> <<>>]
  /\ output = [o \in OutPartitions |-> <<>>]
  /\ committed = [q \in InPartitions |-> 0]
  /\ owner = [q \in InPartitions |-> None]
  /\ rebalance = FALSE
  /\ main = [p \in Producers |-> "down"]
  /\ loop = [p \in Producers |-> "idle"]
  /\ joined = [p \in Producers |-> FALSE]
  /\ position = [p \in Producers |-> NoPosition]
  /\ hand = [p \in Producers |-> Nothing]
  /\ dropped = {}
  /\ interrupted = {}
  /\ faults = 0

Fault == faults < MaxFaults /\ faults' = faults + 1

----------------------------------------------------------------------------
(* The environment: Debezium, and the group coordinator of Kafka.          *)

Debezium(q, n) ==
  /\ Len(input[q]) < MaxInput
  /\ input' = [input EXCEPT ![q] = Append(@, n)]
  /\ UNCHANGED <<output, groupVars, processVars, lossVars>>

\* The coordinator assigns every partition to a member: because members have
\* come or gone or, as a disturbance, because a heartbeat came too late.
Rebalance ==
  /\ \/ rebalance /\ UNCHANGED faults
     \/ ~rebalance /\ Fault
  /\ Members # {}
  /\ owner' \in [InPartitions -> Members]
  /\ rebalance' = FALSE
  /\ joined' = [p \in Producers |-> FALSE]
  /\ UNCHANGED <<input, output, committed, main, loop, position, hand,
                 dropped, interrupted>>

\* The reader finds out, discards what it had queued, and goes on from the
\* committed offsets of its partitions.  What the loop already has in hand is
\* not affected.
Join(p) ==
  /\ main[p] = "running"
  /\ ~joined[p]
  /\ joined' = [joined EXCEPT ![p] = TRUE]
  /\ position' = [position EXCEPT ![p] =
       [q \in InPartitions |-> IF owner[q] = p THEN committed[q] ELSE NotAssigned]]
  /\ UNCHANGED <<input, output, groupVars, main, loop, hand, lossVars>>

----------------------------------------------------------------------------
(* The loop goroutine.                                                     *)

\* Mistake: the position of the reader doesn't advance.
FetchAgain(p, q) ==
  /\ loop[p] = "reading"
  /\ position[p][q] # NotAssigned
  /\ position[p][q] < Len(input[q])
  /\ hand' = [hand EXCEPT ![p] = [Nothing EXCEPT !.part = q, !.off = position[p][q]]]
  /\ loop' = [loop EXCEPT ![p] = "fetched"]
  /\ UNCHANGED <<input, output, groupVars, main, joined, position, lossVars>>

\* First half of ReadMessage: take the next message of the reader's queue.
\* The queue can still be drained while the reader is being closed.
Fetch(p, q) ==
  /\ loop[p] = "reading"
  /\ position[p][q] # NotAssigned
  /\ position[p][q] < Len(input[q])
  /\ hand' = [hand EXCEPT ![p] = [Nothing EXCEPT !.part = q, !.off = position[p][q]]]
  /\ position' = [position EXCEPT ![p][q] = @ + 1]
  /\ loop' = [loop EXCEPT ![p] = "fetched"]
  /\ UNCHANGED <<input, output, groupVars, main, joined, lossVars>>

\* Mistake: commit also while the reader is being closed.
CommitWhileClosing(p) ==
  /\ loop[p] = "fetched"
  /\ committed' = [committed EXCEPT ![hand[p].part] = hand[p].off + 1]
  /\ loop' = [loop EXCEPT ![p] = "committed"]
  /\ UNCHANGED <<input, output, owner, rebalance, main, joined, position, hand, lossVars>>

\* Second half of ReadMessage: the offset is committed, before the message is
\* processed.  The library sends it with whatever generation is current.
Commit(p) ==
  /\ loop[p] = "fetched"
  /\ main[p] = "running"
  /\ committed' = [committed EXCEPT ![hand[p].part] = hand[p].off + 1]
  /\ loop' = [loop EXCEPT ![p] = "committed"]
  /\ UNCHANGED <<input, output, owner, rebalance, main, joined, position, hand, lossVars>>

\* The response arrives: ReadMessage returns and processMessage is called.
CommitReturns(p) ==
  /\ loop[p] = "committed"
  /\ loop' = [loop EXCEPT ![p] = "processing"]
  /\ UNCHANGED <<input, output, groupVars, main, joined, position, hand, lossVars>>

\* Mistake: after an error the loop goes on with the next message.
ReadErrorContinues(p) ==
  /\ loop[p] \in {"reading", "fetched", "committed"}
  /\ \/ Fault
     \/ main[p] # "running" /\ loop[p] # "reading" /\ UNCHANGED faults
  /\ loop' = [loop EXCEPT ![p] = "reading"]
  /\ hand' = [hand EXCEPT ![p] = Nothing]
  /\ interrupted' = interrupted \cup InHand(p)
  /\ UNCHANGED <<input, output, groupVars, main, joined, position, dropped>>

\* ReadMessage returns an error, with the message committed or not: the loop
\* ends for good.  Without a disturbance this happens only to a closed reader.
ReadError(p) ==
  /\ loop[p] \in {"reading", "fetched", "committed"}
  /\ \/ Fault
     \/ main[p] # "running" /\ loop[p] # "reading" /\ UNCHANGED faults
  /\ loop' = [loop EXCEPT ![p] = "stopped"]
  /\ hand' = [hand EXCEPT ![p] = Nothing]
  /\ interrupted' = interrupted \cup InHand(p)
  /\ UNCHANGED <<input, output, groupVars, main, joined, position, dropped>>

\* ReadMessage returns io.EOF because the reader has been closed.
ReadEOF(p) ==
  /\ loop[p] = "reading"
  /\ main[p] # "running"
  /\ loop' = [loop EXCEPT ![p] = "stopped"]
  /\ UNCHANGED <<input, output, groupVars, main, joined, position, hand, lossVars>>

\* Mistake: the previous message is kept.
NextMessageKeeping(p) ==
  /\ loop' = [loop EXCEPT ![p] = "reading"]
  /\ UNCHANGED <<input, groupVars, main, joined, position, hand, interrupted>>

\* The loop asks for the next message.
NextMessage(p) ==
  /\ loop' = [loop EXCEPT ![p] = "reading"]
  /\ hand' = [hand EXCEPT ![p] = Nothing]
  /\ UNCHANGED <<input, groupVars, main, joined, position, interrupted>>

\* processMessage returns an error before writing anything.
Reject(p) ==
  /\ loop[p] = "processing"
  /\ Rejected(Message(p))
  /\ NextMessage(p)
  /\ UNCHANGED <<output, dropped, faults>>

\* Mistake: nobody checks that the writer is still open.
StartWriteAnyway(p, o) ==
  /\ loop[p] = "processing"
  /\ ~Rejected(Message(p))
  /\ loop' = [loop EXCEPT ![p] = "writing"]
  /\ hand' = [hand EXCEPT ![p].out = o]
  /\ UNCHANGED <<input, output, groupVars, main, joined, position, lossVars>>

\* processMessage calls WriteMessages: the balancer of the writer selects the
\* output partition.
StartWrite(p, o) ==
  /\ loop[p] = "processing"
  /\ ~Rejected(Message(p))
  /\ main[p] # "flushing" /\ main[p] # "closed"
  /\ loop' = [loop EXCEPT ![p] = "writing"]
  /\ hand' = [hand EXCEPT ![p].out = o]
  /\ UNCHANGED <<input, output, groupVars, main, joined, position, lossVars>>

\* WriteMessages returns an error at once, because the writer is closed.
WriteClosed(p) ==
  /\ loop[p] = "processing"
  /\ ~Rejected(Message(p))
  /\ main[p] \in {"flushing", "closed"}
  /\ dropped' = dropped \cup {MessageId(p)}
  /\ NextMessage(p)
  /\ UNCHANGED <<output, faults>>

\* The event that p writes; `by`, `part` and `off` say where it comes from,
\* the actual event doesn't contain them.
OutEvent(p) ==
  [by |-> p, part |-> hand[p].part, off |-> hand[p].off, details |-> Translate(Message(p))]

Publish(p) == output' = [output EXCEPT ![hand[p].out] = Append(@, OutEvent(p))]

WriteOK(p) ==
  /\ loop[p] = "writing"
  /\ Publish(p)
  /\ NextMessage(p)
  /\ UNCHANGED <<dropped, faults>>

\* An attempt fails, before or after the broker stores the event, and the
\* writer tries again.
WriteRetry(p) ==
  /\ loop[p] = "writing"
  /\ hand[p].attempts + 1 < MaxAttempts
  /\ Fault
  /\ Publish(p) \/ UNCHANGED output
  /\ hand' = [hand EXCEPT ![p].attempts = @ + 1]
  /\ UNCHANGED <<input, groupVars, main, loop, joined, position, dropped, interrupted>>

\* An attempt fails, and it was the last one or the failure is permanent:
\* WriteMessages returns an error that the loop writes to the log and forgets.
WriteGivesUp(p) ==
  /\ loop[p] = "writing"
  /\ Fault
  /\ Publish(p) \/ UNCHANGED output
  /\ dropped' = dropped \cup {MessageId(p)}
  /\ NextMessage(p)

----------------------------------------------------------------------------
(* The main thread of a process.                                           *)

\* Mistake: each process has a consumer group of its own.
StartInNewGroup(p) ==
  /\ main[p] = "down"
  /\ main' = [main EXCEPT ![p] = "running"]
  /\ loop' = [loop EXCEPT ![p] = "reading"]
  /\ committed' = [q \in InPartitions |-> 0]
  /\ rebalance' = TRUE
  /\ UNCHANGED <<input, output, owner, joined, position, hand, lossVars>>

\* Build opens the reader, as a member of the group, and starts the loop.
Start(p) ==
  /\ main[p] = "down"
  /\ main' = [main EXCEPT ![p] = "running"]
  /\ loop' = [loop EXCEPT ![p] = "reading"]
  /\ rebalance' = TRUE
  /\ UNCHANGED <<input, output, committed, owner, joined, position, hand, lossVars>>

\* The member leaves, and its partitions wait for the next rebalance.
Leave(p) ==
  /\ owner' = [q \in InPartitions |-> IF owner[q] = p THEN None ELSE owner[q]]
  /\ rebalance' = TRUE

\* A signal arrives and Close closes the reader.  If that fails Close returns
\* immediately, without closing the writer.
CloseReader(p) ==
  /\ main[p] = "running"
  /\ Fault
  /\ \E next \in {"closing", "abandoned"} : main' = [main EXCEPT ![p] = next]
  /\ Leave(p)
  /\ UNCHANGED <<input, output, committed, loop, joined, position, hand,
                 dropped, interrupted>>

\* Close calls the Close method of the writer, which from now on rejects new
\* messages, but waits for the one that is being written.
CloseWriter(p) ==
  /\ main[p] = "closing"
  /\ main' = [main EXCEPT ![p] = "flushing"]
  /\ UNCHANGED <<input, output, groupVars, loop, joined, position, hand, lossVars>>

\* Mistake: wait for the loop to ask for the next message, even if it has ended.
CloseReturnsWhenIdle(p) ==
  /\ main[p] = "flushing"
  /\ loop[p] = "reading"
  /\ main' = [main EXCEPT ![p] = "closed"]
  /\ UNCHANGED <<input, output, groupVars, loop, joined, position, hand, lossVars>>

\* The writer has nothing in flight, so Close returns.
CloseReturns(p) ==
  /\ main[p] = "flushing"
  /\ loop[p] # "writing"
  /\ main' = [main EXCEPT ![p] = "closed"]
  /\ UNCHANGED <<input, output, groupVars, loop, joined, position, hand, lossVars>>

\* The process is gone, and with it whatever the loop had in hand.
Die(p) ==
  /\ main' = [main EXCEPT ![p] = "down"]
  /\ loop' = [loop EXCEPT ![p] = "idle"]
  /\ joined' = [joined EXCEPT ![p] = FALSE]
  /\ position' = [position EXCEPT ![p] = NoPosition]
  /\ hand' = [hand EXCEPT ![p] = Nothing]
  /\ interrupted' = interrupted \cup InHand(p)
  /\ UNCHANGED <<input, output, committed, dropped>>

\* The main function returns, without waiting for the loop.
Exit(p) ==
  /\ main[p] \in {"closed", "abandoned"}
  /\ Die(p)
  /\ UNCHANGED <<owner, rebalance, faults>>

Crash(p) ==
  /\ main[p] # "down"
  /\ Fault
  /\ Die(p)
  /\ Leave(p)

----------------------------------------------------------------------------

Write(p) == WriteOK(p) \/ WriteRetry(p) \/ WriteGivesUp(p) \/ WriteClosed(p)

Loop(p) ==
  \/ \E q \in InPartitions : Fetch(p, q)
  \/ Commit(p) \/ CommitReturns(p) \/ ReadError(p) \/ ReadEOF(p)
  \/ Reject(p) \/ \E o \in OutPartitions : StartWrite(p, o)
  \/ Write(p)

Close(p) == CloseWriter(p) \/ CloseReturns(p) \/ Exit(p)

Environment ==
  \/ \E q \in InPartitions, n \in Inputs : Debezium(q, n)
  \/ Rebalance
  \/ \E p \in Producers : CloseReader(p) \/ Crash(p)

Next ==
  \/ Environment
  \/ \E p \in Producers : Start(p) \/ Join(p) \/ Loop(p) \/ Close(p)

\* What the loop does by itself.  An attempt to write ends, well or badly, but nothing
\* makes ReadMessage fail: while there is no message it waits.
Proceed(p) == Loop(p) /\ (loop[p] = "writing" \/ UNCHANGED faults)

\* The Go scheduler runs both threads, the Deployment starts the container
\* again when it ends, and the coordinator completes a rebalance that is due.
\* Nothing makes disturbances, signals or notifications happen, and nothing
\* makes an attempt to write succeed.
Fairness ==
  /\ WF_vars(rebalance /\ Rebalance)
  /\ \A p \in Producers :
       WF_vars(Start(p)) /\ WF_vars(Join(p)) /\ WF_vars(Proceed(p)) /\ WF_vars(Close(p))

Spec == Init /\ [][Next]_vars

FairSpec == Spec /\ Fairness
=============================================================================

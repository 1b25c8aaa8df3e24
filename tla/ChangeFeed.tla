----------------------------- MODULE ChangeFeed -----------------------------
(***************************************************************************)
(* What a group of event producers promises, without offsets, consumer     *)
(* groups, threads or retries: workers that take the notifications of each *)
(* partition in order and turn each of them into at least one event, with  *)
(* at most one exception for each disturbance.  EventProducer implements   *)
(* this.                                                                   *)
(*                                                                         *)
(* A worker that vanishes while it has a message in hand loses it, even if *)
(* nobody notices, because the message has already been marked as read     *)
(* when the worker gets it.                                                *)
(***************************************************************************)
EXTENDS ChangeTranslation, Integers, Sequences, FiniteSets

CONSTANTS
  Workers,        \* the processes that take notifications
  InPartitions,   \* partitions of the input topic
  OutPartitions,  \* partitions of the output topic
  Inputs,         \* the notifications that Debezium may write
  MaxInput,       \* bound: notifications in each input partition
  MaxFaults       \* bound: disturbances

VARIABLES
  input,   \* the notifications in each input partition
  output,  \* the events in each output partition
  working, \* the message that each worker has in hand: a set with one or none
  lost,    \* messages that nobody will turn into events any more
  faults   \* disturbances so far

vars == <<input, output, working, lost, faults>>

Published(q, off) ==
  \E o \in OutPartitions : \E i \in DOMAIN output[o] :
    output[o][i].part = q /\ output[o][i].off = off

Settled(q, off) ==
  \/ Rejected(input[q][off + 1])
  \/ Published(q, off)
  \/ <<q, off>> \in lost

InProgress(q, off) == \E w \in Workers : <<q, off>> \in working[w]

Accounted(q, off) == Settled(q, off) \/ InProgress(q, off)

Init ==
  /\ input = [q \in InPartitions |-> <<>>]
  /\ output = [o \in OutPartitions |-> <<>>]
  /\ working = [w \in Workers |-> {}]
  /\ lost = {}
  /\ faults = 0

Fault == faults < MaxFaults /\ faults' = faults + 1

Notify(q, n) ==
  /\ Len(input[q]) < MaxInput
  /\ input' = [input EXCEPT ![q] = Append(@, n)]
  /\ UNCHANGED <<output, working, lost, faults>>

\* A worker takes a message, that may have been taken before, but never one that
\* has something forgotten before it.
Take(w, q, off) ==
  /\ working[w] = {}
  /\ off < Len(input[q])
  /\ \A earlier \in 0 .. (off - 1) : Accounted(q, earlier)
  /\ working' = [working EXCEPT ![w] = {<<q, off>>}]
  /\ UNCHANGED <<input, output, lost, faults>>

Release(w) == working' = [working EXCEPT ![w] = {}] /\ UNCHANGED input

\* The event for the message goes to some partition.
Publish(w, q, off, o) ==
  /\ <<q, off>> \in working[w]
  /\ ~Rejected(input[q][off + 1])
  /\ output' = [output EXCEPT ![o] = Append(@,
       [by |-> w, part |-> q, off |-> off, details |-> Translate(input[q][off + 1])])]

Finish(w, q, off, o) ==
  /\ Publish(w, q, off, o)
  /\ Release(w)
  /\ UNCHANGED <<lost, faults>>

Reject(w, q, off) ==
  /\ <<q, off>> \in working[w]
  /\ Rejected(input[q][off + 1])
  /\ Release(w)
  /\ UNCHANGED <<output, lost, faults>>

\* The event is published, but the worker doesn't know, and it will try again.
Repeat(w, q, off, o) ==
  /\ Publish(w, q, off, o)
  /\ Fault
  /\ UNCHANGED <<input, working, lost>>

\* The worker will not do the message, or has done it without knowing.  That was
\* caused by a disturbance, now or before, and each disturbance causes one loss.
Lose(w, q, off) ==
  /\ <<q, off>> \in working[w]
  /\ (\E o \in OutPartitions : Publish(w, q, off, o)) \/ UNCHANGED output
  /\ Fault \/ UNCHANGED faults
  /\ lost' = lost \cup {<<q, off>>}
  /\ Cardinality(lost') <= faults'
  /\ Release(w)

\* A disturbance without any effect, for now.
Disturb == Fault /\ UNCHANGED <<input, output, working, lost>>

Work(w, q, off) ==
  \/ Take(w, q, off) \/ Reject(w, q, off) \/ Lose(w, q, off)
  \/ \E o \in OutPartitions : Finish(w, q, off, o) \/ Repeat(w, q, off, o)

Next ==
  \/ \E q \in InPartitions, n \in Inputs : Notify(q, n)
  \/ \E w \in Workers, q \in InPartitions : \E off \in 0 .. (Len(input[q]) - 1) :
       Work(w, q, off)
  \/ Disturb

Spec == Init /\ [][Next]_vars

----------------------------------------------------------------------------

\* An event is never published while an earlier notification of its partition has
\* been forgotten: that one is rejected, published, in progress or one of those
\* lost to a disturbance.
NoGaps ==
  \A o \in OutPartitions : \A i \in DOMAIN output[o] :
    \A earlier \in 0 .. (output[o][i].off - 1) : Accounted(output[o][i].part, earlier)
=============================================================================

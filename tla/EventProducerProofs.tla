------------------------ MODULE EventProducerProofs ------------------------
(***************************************************************************)
(* Proofs about a group of event producers, for any number of processes,   *)
(* partitions, notifications and disturbances.                             *)
(***************************************************************************)
EXTENDS EventProducerProperties, ChangeTranslationLemmas, FiniteSetTheorems, TLAPS

\* The message that the loop has in hand is one of the input.
LEMMA MessageInInput ==
  ASSUME Consistent, NEW p \in Producers, loop[p] \in Busy \cup {"fetched"}
  PROVE  /\ hand[p].part \in InPartitions
         /\ hand[p].off \in Nat
         /\ hand[p].off + 1 \in DOMAIN input[hand[p].part]
         /\ Message(p) \in Notification
<1>1. hand[p] \in Hand /\ hand[p].part # None
  BY DEF Consistent, TypeOK, Busy
<1>2. hand[p].part \in InPartitions /\ hand[p].off \in Nat
  BY <1>1 DEF Hand
<1>3. input[hand[p].part] \in Seq(Inputs) /\ hand[p].off < Len(input[hand[p].part])
  BY <1>2 DEF Consistent, TypeOK, HandOK
<1>4. hand[p].off + 1 \in 1 .. Len(input[hand[p].part])
  BY <1>2, <1>3
<1>5. Message(p) \in Inputs
  BY <1>2, <1>3, <1>4 DEF Message
<1>6. QED
  BY <1>2, <1>3, <1>4, <1>5, ProducerAssumption

\* An event is appended to an output partition, or the output doesn't change.
LEMMA OutputType ==
  ASSUME Consistent, NEW p \in Producers, loop[p] = "writing",
         Publish(p) \/ UNCHANGED output
  PROVE  output' \in [OutPartitions -> Seq(OutputEvent)]
<1>1. Message(p) \in Notification /\ hand[p].part \in InPartitions /\ hand[p].off \in Nat
  BY MessageInInput DEF Busy
<1>2. ~Rejected(Message(p))
  BY DEF Consistent, HandOK
<1>3. OutEvent(p) \in OutputEvent
  BY <1>1, <1>2, TranslationIsChange DEF OutEvent, OutputEvent
<1>4. hand[p].out \in OutPartitions /\ output \in [OutPartitions -> Seq(OutputEvent)]
  BY DEF Consistent, TypeOK
<1>5. output[hand[p].out] \in Seq(OutputEvent)
  BY <1>4
<1>6. Append(output[hand[p].out], OutEvent(p)) \in Seq(OutputEvent)
  BY <1>3, <1>5
<1>7. CASE UNCHANGED output
  BY <1>4, <1>7
<1>8. CASE Publish(p)
  BY <1>4, <1>6, <1>8 DEF Publish
<1>9. QED
  BY <1>7, <1>8

LEMMA InitConsistent == Init => Consistent
<1> SUFFICES ASSUME Init PROVE Consistent
  OBVIOUS
<1>1. Nothing \in Hand
  BY DEF Nothing, Hand
<1>2. \A q \in InPartitions : input[q] = <<>> /\ committed[q] = 0
  BY DEF Init
<1>3. \A p \in Producers : loop[p] = "idle" /\ hand[p].part = None
  BY DEF Init, Nothing
<1>4. \A p \in Producers, q \in InPartitions : position[p][q] = -1
  BY DEF Init, NoPosition, NotAssigned
<1>5. input \in [InPartitions -> Seq(Inputs)] /\ output \in [OutPartitions -> Seq(OutputEvent)]
  BY DEF Init
<1>6. position \in [Producers -> [InPartitions -> Nat \cup {NotAssigned}]]
  BY DEF Init, NoPosition
<1>7. TypeOK
  BY <1>1, <1>3, <1>5, <1>6 DEF Init, TypeOK
<1>8. WithinInput
  BY <1>2, <1>4 DEF WithinInput
<1>9. HandOK
  BY <1>3 DEF HandOK, Busy
<1>10. QED
  BY <1>7, <1>8, <1>9 DEF Consistent

LEMMA ConsistentDebezium ==
  ASSUME Consistent, NEW q \in InPartitions, NEW n \in Inputs, Debezium(q, n)
  PROVE  Consistent'
<1>1. input' = [input EXCEPT ![q] = Append(@, n)]
  BY DEF Debezium
<1>2. input' \in [InPartitions -> Seq(Inputs)]
  BY <1>1 DEF Consistent, TypeOK
<1>3. \A r \in InPartitions :
        /\ Len(input'[r]) \in Nat /\ Len(input[r]) \in Nat /\ Len(input[r]) <= Len(input'[r])
        /\ \A i \in 1 .. Len(input[r]) : input'[r][i] = input[r][i]
  BY <1>1 DEF Consistent, TypeOK
<1>4. TypeOK'
  BY <1>2 DEF Consistent, TypeOK, Debezium, groupVars, processVars, lossVars
<1>5. WithinInput'
  <2>1. committed' = committed /\ position' = position
    BY DEF Debezium, groupVars, processVars
  <2>2. \A r \in InPartitions : committed[r] \in Int
          /\ \A p \in Producers : position[p][r] \in Int
    BY DEF Consistent, TypeOK, NotAssigned
  <2>3. QED
    BY <1>3, <2>1, <2>2 DEF Consistent, WithinInput
<1>6. \A p \in Producers : loop[p] \in Busy \cup {"fetched"} =>
        hand[p].off < Len(input'[hand[p].part]) /\ Message(p)' = Message(p)
  <2> TAKE p \in Producers
  <2> HAVE loop[p] \in Busy \cup {"fetched"}
  <2>1. hand' = hand
    BY DEF Debezium, processVars
  <2>2. hand[p].part \in InPartitions /\ hand[p].off \in Nat
        /\ hand[p].off + 1 \in DOMAIN input[hand[p].part]
    BY MessageInInput
  <2>3. hand[p].off + 1 \in 1 .. Len(input[hand[p].part])
    BY <2>2 DEF Consistent, TypeOK
  <2>4. QED
    BY <1>3, <2>1, <2>2, <2>3 DEF Message
<1>7. HandOK'
  BY <1>6 DEF Consistent, HandOK, Debezium, processVars, Busy
<1>8. QED
  BY <1>4, <1>5, <1>7 DEF Consistent

LEMMA ConsistentGroup ==
  ASSUME Consistent, NEW p \in Producers, Rebalance \/ Join(p)
  PROVE  Consistent'
<1>1. CASE Rebalance
  <2>1. owner' \in [InPartitions -> Producers] /\ faults' \in Nat /\ rebalance' \in BOOLEAN
        /\ joined' \in [Producers -> BOOLEAN]
    <3>1. owner' \in [InPartitions -> Members] /\ Members \subseteq Producers
      BY <1>1 DEF Rebalance, Members
    <3>2. faults' \in Nat
      BY <1>1 DEF Consistent, TypeOK, Rebalance, Fault
    <3>3. QED
      BY <1>1, <3>1, <3>2 DEF Rebalance
  <2>2. UNCHANGED <<input, output, committed, main, loop, position, hand, dropped, interrupted>>
    BY <1>1 DEF Rebalance
  <2>3. TypeOK'
    BY <2>1, <2>2 DEF Consistent, TypeOK
  <2>4. QED
    BY <2>2, <2>3 DEF Consistent, WithinInput, HandOK, Message
<1>2. CASE Join(p)
  <2>1. position' \in [Producers -> [InPartitions -> Nat \cup {NotAssigned}]]
    BY <1>2 DEF Consistent, TypeOK, Join
  <2>2. WithinInput'
    BY <1>2 DEF Consistent, TypeOK, WithinInput, Join, NotAssigned, groupVars, lossVars
  <2>3. QED
    BY <1>2, <2>1, <2>2 DEF Consistent, TypeOK, HandOK, Join, Message, Busy, groupVars, lossVars
<1>3. QED
  BY <1>1, <1>2

LEMMA ConsistentRead ==
  ASSUME Consistent, NEW p \in Producers,
         \/ \E q \in InPartitions : Fetch(p, q)
         \/ Commit(p) \/ CommitReturns(p) \/ ReadError(p) \/ ReadEOF(p)
  PROVE  Consistent'
<1>1. ASSUME NEW q \in InPartitions, Fetch(p, q)
      PROVE  Consistent'
  <2> DEFINE message == [Nothing EXCEPT !.part = q, !.off = position[p][q]]
  <2>1. position[p][q] \in Nat /\ position[p][q] < Len(input[q])
    <3>1. position[p][q] \in Nat \cup {NotAssigned}
      BY DEF Consistent, TypeOK
    <3>2. QED
      BY <1>1, <3>1 DEF Fetch
  <2>2. message \in Hand /\ message.part = q /\ message.off = position[p][q]
    BY <2>1 DEF Nothing, Hand
  <2>3. hand' = [hand EXCEPT ![p] = message] /\ loop' = [loop EXCEPT ![p] = "fetched"]
        /\ position' = [position EXCEPT ![p][q] = @ + 1]
    BY <1>1 DEF Fetch
  <2>4. UNCHANGED <<input, output, committed, owner, rebalance, main, joined,
                    dropped, interrupted, faults>>
    BY <1>1 DEF Fetch, groupVars, lossVars
  <2>5. TypeOK'
    <3>1. position' \in [Producers -> [InPartitions -> Nat \cup {NotAssigned}]]
      BY <2>1, <2>3 DEF Consistent, TypeOK
    <3>2. \A r \in Producers :
            /\ main'[r] = "down" <=> loop'[r] = "idle"
            /\ hand'[r].part = None <=> loop'[r] \in {"idle", "reading", "stopped"}
            /\ loop'[r] = "writing" => hand'[r].out \in OutPartitions
      <4>1. main[p] # "down" /\ q # None
        BY <1>1, ProducerAssumption DEF Consistent, TypeOK, Fetch
      <4>2. hand'[p].part = q /\ loop'[p] = "fetched"
        BY <2>2, <2>3 DEF Consistent, TypeOK
      <4>3. \A r \in Producers \ {p} : hand'[r] = hand[r] /\ loop'[r] = loop[r]
        BY <2>3 DEF Consistent, TypeOK
      <4>4. QED
        BY <2>4, <4>1, <4>2, <4>3 DEF Consistent, TypeOK
    <3>3. QED
      BY <2>2, <2>3, <2>4, <3>1, <3>2 DEF Consistent, TypeOK
  <2>6. WithinInput'
    BY <2>1, <2>3, <2>4 DEF Consistent, TypeOK, WithinInput
  <2>7. HandOK'
    BY <2>1, <2>2, <2>3, <2>4 DEF Consistent, TypeOK, HandOK, Message
  <2>8. QED
    BY <2>5, <2>6, <2>7 DEF Consistent
<1>2. CASE Commit(p)
  <2>1. hand[p].part \in InPartitions /\ hand[p].off \in Nat
        /\ hand[p].off < Len(input[hand[p].part])
    BY <1>2, MessageInInput DEF Commit, Consistent, HandOK
  <2>2. committed' = [committed EXCEPT ![hand[p].part] = hand[p].off + 1]
        /\ loop' = [loop EXCEPT ![p] = "committed"]
    BY <1>2 DEF Commit
  <2>3. UNCHANGED <<input, output, owner, rebalance, main, joined, position, hand,
                    dropped, interrupted, faults>>
    BY <1>2 DEF Commit, lossVars
  <2>4. TypeOK'
    BY <1>2, <2>1, <2>2, <2>3 DEF Consistent, TypeOK, Commit
  <2>5. WithinInput'
    BY <2>1, <2>2, <2>3 DEF Consistent, TypeOK, WithinInput
  <2>6. HandOK'
    BY <1>2, <2>1, <2>2, <2>3 DEF Consistent, TypeOK, HandOK, Message, Busy, Commit
  <2>7. QED
    BY <2>4, <2>5, <2>6 DEF Consistent
<1>3. CASE CommitReturns(p)
  <2>1. TypeOK'
    BY <1>3 DEF Consistent, TypeOK, CommitReturns, groupVars, lossVars
  <2>2. WithinInput'
    BY <1>3 DEF Consistent, WithinInput, CommitReturns, groupVars, lossVars
  <2>3. HandOK'
    BY <1>3 DEF Consistent, TypeOK, HandOK, Message, Busy, CommitReturns, groupVars, lossVars
  <2>4. QED
    BY <2>1, <2>2, <2>3 DEF Consistent
<1>4. CASE ReadError(p)
  <2>1. TypeOK'
    <3>1. Nothing \in Hand /\ Nothing.part = None
      BY DEF Nothing, Hand
    <3>2. InHand(p) \subseteq InPartitions \X Nat
      BY MessageInInput DEF InHand, MessageId
    <3>3. faults' \in Nat
      BY <1>4 DEF Consistent, TypeOK, ReadError, Fault
    <3>4. QED
      BY <1>4, <3>1, <3>2, <3>3 DEF Consistent, TypeOK, ReadError, groupVars
  <2>2. WithinInput'
    BY <1>4 DEF Consistent, WithinInput, ReadError, groupVars
  <2>3. HandOK'
    BY <1>4 DEF Consistent, TypeOK, HandOK, Message, Busy, ReadError, groupVars
  <2>4. QED
    BY <2>1, <2>2, <2>3 DEF Consistent
<1>5. CASE ReadEOF(p)
  <2>1. TypeOK'
    BY <1>5 DEF Consistent, TypeOK, ReadEOF, groupVars, lossVars
  <2>2. WithinInput'
    BY <1>5 DEF Consistent, WithinInput, ReadEOF, groupVars, lossVars
  <2>3. HandOK'
    BY <1>5 DEF Consistent, TypeOK, HandOK, Message, Busy, ReadEOF, groupVars, lossVars
  <2>4. QED
    BY <2>1, <2>2, <2>3 DEF Consistent
<1>6. QED
  BY <1>1, <1>2, <1>3, <1>4, <1>5

LEMMA ConsistentProcess ==
  ASSUME Consistent, NEW p \in Producers,
         \/ Reject(p)
         \/ \E o \in OutPartitions : StartWrite(p, o)
         \/ Write(p)
  PROVE  Consistent'
<1>1. Nothing \in Hand /\ Nothing.part = None
  BY DEF Nothing, Hand
<1>2. loop[p] \in Busy
      => <<hand[p].part, hand[p].off>> \in InPartitions \X Nat
  BY MessageInInput
<1>3. ASSUME NextMessage(p), loop[p] \in Busy,
             output' \in [OutPartitions -> Seq(OutputEvent)], faults' \in Nat,
             dropped' \in {dropped, dropped \cup {MessageId(p)}}
      PROVE  Consistent'
  <2>1. TypeOK'
    BY <1>1, <1>2, <1>3 DEF Consistent, TypeOK, NextMessage, MessageId, Busy, groupVars
  <2>2. WithinInput'
    BY <1>3 DEF Consistent, WithinInput, NextMessage, groupVars
  <2>3. HandOK'
    BY <1>3 DEF Consistent, TypeOK, HandOK, Message, Busy, NextMessage, groupVars
  <2>4. QED
    BY <2>1, <2>2, <2>3 DEF Consistent
<1>4. CASE Reject(p) \/ WriteClosed(p)
  BY <1>3, <1>4 DEF Reject, WriteClosed, Busy, Consistent, TypeOK
<1>5. ASSUME NEW o \in OutPartitions, StartWrite(p, o)
      PROVE  Consistent'
  <2> DEFINE message == [hand[p] EXCEPT !.out = o]
  <2>1. message \in Hand /\ message.part = hand[p].part /\ message.off = hand[p].off
        /\ message.out = o
    BY DEF Consistent, TypeOK, Hand
  <2>2. hand' = [hand EXCEPT ![p] = message] /\ loop' = [loop EXCEPT ![p] = "writing"]
    BY <1>5 DEF StartWrite
  <2>3. UNCHANGED <<input, output, committed, owner, rebalance, main, joined, position,
                    dropped, interrupted, faults>>
    BY <1>5 DEF StartWrite, groupVars, lossVars
  <2>4. loop[p] = "processing" /\ ~Rejected(Message(p))
    BY <1>5 DEF StartWrite
  <2>5. TypeOK'
    BY <2>1, <2>2, <2>3, <2>4 DEF Consistent, TypeOK
  <2>6. WithinInput'
    BY <2>3 DEF Consistent, WithinInput
  <2>7. HandOK'
    BY <2>1, <2>2, <2>3, <2>4 DEF Consistent, TypeOK, HandOK, Message, Busy
  <2>8. QED
    BY <2>5, <2>6, <2>7 DEF Consistent
<1>6. CASE WriteOK(p) \/ WriteGivesUp(p)
  <2>1. output' \in [OutPartitions -> Seq(OutputEvent)]
    BY <1>6, OutputType DEF WriteOK, WriteGivesUp
  <2>2. faults' \in Nat
    BY <1>6 DEF Consistent, TypeOK, WriteOK, WriteGivesUp, Fault
  <2>3. QED
    BY <1>3, <1>6, <2>1, <2>2 DEF WriteOK, WriteGivesUp, Busy
<1>7. CASE WriteRetry(p)
  <2> DEFINE message == [hand[p] EXCEPT !.attempts = @ + 1]
  <2>1. message \in Hand /\ message.part = hand[p].part /\ message.off = hand[p].off
        /\ message.out = hand[p].out
    <3>1. hand[p] \in Hand
      BY DEF Consistent, TypeOK
    <3>2. message = [part |-> hand[p].part, off |-> hand[p].off,
                     out |-> hand[p].out, attempts |-> hand[p].attempts + 1]
      BY <3>1 DEF Hand
    <3>3. QED
      BY <3>1, <3>2 DEF Hand
  <2>2. hand' = [hand EXCEPT ![p] = message] /\ loop[p] = "writing"
    BY <1>7 DEF WriteRetry
  <2>3. UNCHANGED <<input, committed, owner, rebalance, main, loop, joined, position,
                    dropped, interrupted>>
    BY <1>7 DEF WriteRetry, groupVars
  <2>4. output' \in [OutPartitions -> Seq(OutputEvent)]
    BY <1>7, OutputType DEF WriteRetry
  <2>5. faults' \in Nat
    BY <1>7 DEF Consistent, TypeOK, WriteRetry, Fault
  <2>6. TypeOK'
    BY <2>1, <2>2, <2>3, <2>4, <2>5 DEF Consistent, TypeOK
  <2>7. WithinInput'
    BY <2>3 DEF Consistent, WithinInput
  <2>8. HandOK'
    BY <2>1, <2>2, <2>3 DEF Consistent, TypeOK, HandOK, Message
  <2>9. QED
    BY <2>6, <2>7, <2>8 DEF Consistent
<1>8. QED
  BY <1>4, <1>5, <1>6, <1>7 DEF Write

LEMMA ConsistentMain ==
  ASSUME Consistent, NEW p \in Producers,
         Start(p) \/ CloseReader(p) \/ Close(p) \/ Crash(p)
  PROVE  Consistent'
<1>1. ASSUME main' \in [Producers ->
               {"down", "running", "closing", "flushing", "closed", "abandoned"}],
             \A r \in Producers : main'[r] = "down" <=> main[r] = "down",
             owner' \in [InPartitions -> Producers \cup {None}],
             rebalance' \in BOOLEAN, faults' \in Nat,
             UNCHANGED <<input, output, committed, loop, joined, position, hand,
                         dropped, interrupted>>
      PROVE  Consistent'
  <2>1. TypeOK'
    BY <1>1 DEF Consistent, TypeOK
  <2>2. QED
    BY <1>1, <2>1 DEF Consistent, WithinInput, HandOK, Message
<1>2. CASE Start(p)
  <2>1. TypeOK'
    BY <1>2 DEF Consistent, TypeOK, Start, lossVars
  <2>2. WithinInput'
    BY <1>2 DEF Consistent, WithinInput, Start, lossVars
  <2>3. HandOK'
    BY <1>2 DEF Consistent, TypeOK, HandOK, Message, Busy, Start, lossVars
  <2>4. QED
    BY <2>1, <2>2, <2>3 DEF Consistent
<1>3. CASE CloseReader(p)
  <2>1. owner' \in [InPartitions -> Producers \cup {None}] /\ rebalance' \in BOOLEAN
    BY <1>3 DEF Consistent, TypeOK, CloseReader, Leave
  <2>2. faults' \in Nat
    BY <1>3 DEF Consistent, TypeOK, CloseReader, Fault
  <2>3. PICK next \in {"closing", "abandoned"} : main' = [main EXCEPT ![p] = next]
    BY <1>3 DEF CloseReader
  <2>4. QED
    BY <1>1, <1>3, <2>1, <2>2, <2>3 DEF CloseReader, Consistent, TypeOK
<1>4. CASE CloseWriter(p)
  BY <1>1, <1>4 DEF CloseWriter, Consistent, TypeOK, groupVars, lossVars
<1>5. CASE CloseReturns(p)
  BY <1>1, <1>5 DEF CloseReturns, Consistent, TypeOK, groupVars, lossVars
<1>6. ASSUME Die(p), owner' \in [InPartitions -> Producers \cup {None}],
             rebalance' \in BOOLEAN, faults' \in Nat
      PROVE  Consistent'
  <2>1. Nothing \in Hand /\ Nothing.part = None
    BY DEF Nothing, Hand
  <2>2. InHand(p) \subseteq InPartitions \X Nat
    BY MessageInInput DEF InHand, MessageId
  <2>3. position' \in [Producers -> [InPartitions -> Nat \cup {NotAssigned}]]
    BY <1>6 DEF Consistent, TypeOK, Die, NoPosition
  <2>4. TypeOK'
    BY <1>6, <2>1, <2>2, <2>3 DEF Consistent, TypeOK, Die
  <2>5. WithinInput'
    <3>1. input' = input /\ committed' = committed
          /\ position' = [position EXCEPT ![p] = NoPosition]
      BY <1>6 DEF Die
    <3>2. \A q \in InPartitions : Len(input[q]) \in Nat /\ NoPosition[q] = -1
      BY DEF Consistent, TypeOK, NoPosition, NotAssigned
    <3>3. \A r \in Producers : position'[r] = IF r = p THEN NoPosition ELSE position[r]
      BY <3>1 DEF Consistent, TypeOK
    <3>4. QED
      BY <3>1, <3>2, <3>3 DEF Consistent, WithinInput
  <2>6. HandOK'
    BY <1>6 DEF Consistent, TypeOK, HandOK, Message, Busy, Die
  <2>7. QED
    BY <2>4, <2>5, <2>6 DEF Consistent
<1>7. CASE Exit(p)
  BY <1>6, <1>7 DEF Exit, Consistent, TypeOK
<1>8. CASE Crash(p)
  <2>1. owner' \in [InPartitions -> Producers \cup {None}] /\ rebalance' \in BOOLEAN
    BY <1>8 DEF Consistent, TypeOK, Crash, Leave
  <2>2. faults' \in Nat
    BY <1>8 DEF Consistent, TypeOK, Crash, Fault
  <2>3. QED
    BY <1>6, <1>8, <2>1, <2>2 DEF Crash
<1>9. QED
  BY <1>2, <1>3, <1>4, <1>5, <1>7, <1>8 DEF Close

LEMMA ConsistentStutter == Consistent /\ UNCHANGED vars => Consistent'
BY DEF Consistent, TypeOK, WithinInput, HandOK, Message, vars, groupVars, processVars, lossVars

LEMMA ConsistentNext == Consistent /\ [Next]_vars => Consistent'
<1> SUFFICES ASSUME Consistent, [Next]_vars PROVE Consistent'
  OBVIOUS
<1>1. CASE Environment
  <2>1. CASE \E q \in InPartitions, n \in Inputs : Debezium(q, n)
    BY <2>1, ConsistentDebezium
  <2>2. CASE Rebalance
    BY <2>2, ConsistentGroup DEF Rebalance, Members
  <2>3. CASE \E p \in Producers : CloseReader(p) \/ Crash(p)
    BY <2>3, ConsistentMain
  <2>4. QED
    BY <1>1, <2>1, <2>2, <2>3 DEF Environment
<1>2. ASSUME NEW p \in Producers, Start(p) \/ Join(p) \/ Loop(p) \/ Close(p)
      PROVE  Consistent'
  BY <1>2, ConsistentMain, ConsistentGroup, ConsistentRead, ConsistentProcess DEF Loop
<1>3. QED
  BY <1>1, <1>2, ConsistentStutter DEF Next

\* Every variable keeps its type, and every offset stays within the input.
THEOREM TypeCorrect == Spec => []TypeOK
<1>1. Consistent => TypeOK
  BY DEF Consistent
<1>2. QED
  BY <1>1, InitConsistent, ConsistentNext, PTL DEF Spec

----------------------------------------------------------------------------
(* Nothing is skipped.                                                     *)

\* What a step of the system can be for the process r.
LEMMA StepOfProcess ==
  ASSUME Consistent, [Next]_vars, NEW r \in Producers
  PROVE  \/ UNCHANGED <<loop[r], hand[r], position[r]>>
         \/ Start(r) \/ Join(r) \/ Loop(r) \/ Die(r)
<1> DEFINE Same == UNCHANGED <<loop[r], hand[r], position[r]>>
<1>1. CASE UNCHANGED vars
  BY <1>1 DEF vars, processVars
<1>2. CASE Environment
  <2>1. CASE \E q \in InPartitions, n \in Inputs : Debezium(q, n)
    BY <2>1 DEF Debezium, processVars
  <2>2. CASE Rebalance
    BY <2>2 DEF Rebalance
  <2>3. ASSUME NEW p \in Producers, CloseReader(p) PROVE Same
    BY <2>3 DEF CloseReader
  <2>4. ASSUME NEW p \in Producers, Crash(p) PROVE Same \/ Die(r)
    <3>1. CASE p = r
      BY <2>4, <3>1 DEF Crash
    <3>2. CASE p # r
      BY <2>4, <3>2 DEF Crash, Die, Consistent, TypeOK
    <3>3. QED
      BY <3>1, <3>2
  <2>5. QED
    BY <1>2, <2>1, <2>2, <2>3, <2>4 DEF Environment
<1>3. ASSUME NEW p \in Producers, Start(p) \/ Join(p) \/ Loop(p) \/ Close(p)
      PROVE  Same \/ Start(r) \/ Join(r) \/ Loop(r) \/ Die(r)
  <2>1. CASE CloseWriter(p) \/ CloseReturns(p)
    BY <2>1 DEF CloseWriter, CloseReturns
  <2>2. CASE p = r
    BY <1>3, <2>1, <2>2 DEF Close, Exit
  <2>3. CASE p # r /\ (Start(p) \/ Join(p) \/ Exit(p))
    BY <2>3 DEF Start, Join, Exit, Die, Consistent, TypeOK
  <2>4. CASE p # r /\ Loop(p)
    <3>1. ASSUME NEW q \in InPartitions, Fetch(p, q) PROVE Same
      BY <2>4, <3>1 DEF Fetch, Consistent, TypeOK
    <3>2. ASSUME NEW o \in OutPartitions, StartWrite(p, o) PROVE Same
      BY <2>4, <3>2 DEF StartWrite, Consistent, TypeOK
    <3>3. CASE Commit(p) \/ CommitReturns(p) \/ ReadError(p) \/ ReadEOF(p)
      BY <2>4, <3>3 DEF Commit, CommitReturns, ReadError, ReadEOF, Consistent, TypeOK
    <3>4. CASE Reject(p) \/ Write(p)
      BY <2>4, <3>4 DEF Reject, Write, WriteOK, WriteRetry, WriteGivesUp, WriteClosed,
         NextMessage, Consistent, TypeOK
    <3>5. QED
      BY <2>4, <3>1, <3>2, <3>3, <3>4 DEF Loop
  <2>5. QED
    BY <1>3, <2>1, <2>2, <2>3, <2>4 DEF Close
<1>4. QED
  BY <1>1, <1>2, <1>3 DEF Next

\* What has been written to the topics stays there, and so do the records of
\* what has been lost.
LEMMA OnlyGrows ==
  ASSUME Consistent, [Next]_vars
  PROVE  /\ \A q \in InPartitions :
              /\ Len(input[q]) <= Len(input'[q])
              /\ \A i \in 1 .. Len(input[q]) : input'[q][i] = input[q][i]
         /\ \A o \in OutPartitions :
              /\ Len(output[o]) <= Len(output'[o])
              /\ \A i \in 1 .. Len(output[o]) : output'[o][i] = output[o][i]
         /\ dropped \subseteq dropped'
         /\ interrupted \subseteq interrupted'
<1> DEFINE InputGrows == \A q \in InPartitions :
              /\ Len(input[q]) <= Len(input'[q])
              /\ \A i \in 1 .. Len(input[q]) : input'[q][i] = input[q][i]
           OutputGrows == \A o \in OutPartitions :
              /\ Len(output[o]) <= Len(output'[o])
              /\ \A i \in 1 .. Len(output[o]) : output'[o][i] = output[o][i]
           LossGrows == dropped \subseteq dropped' /\ interrupted \subseteq interrupted'
<1>1. (\A q \in InPartitions : Len(input[q]) \in Nat)
      /\ (\A o \in OutPartitions : Len(output[o]) \in Nat)
  BY DEF Consistent, TypeOK
<1>2. CASE UNCHANGED <<input, output>> /\ LossGrows
  BY <1>1, <1>2
<1>3. ASSUME NEW q \in InPartitions, NEW n \in Inputs, Debezium(q, n)
      PROVE  InputGrows /\ OutputGrows /\ LossGrows
  <2>1. input' = [input EXCEPT ![q] = Append(@, n)] /\ output' = output /\ LossGrows
    BY <1>3 DEF Debezium, lossVars
  <2>2. InputGrows
    BY <2>1 DEF Consistent, TypeOK
  <2>3. QED
    BY <1>1, <2>1, <2>2
<1>4. ASSUME NEW p \in Producers, WriteOK(p) \/ WriteRetry(p) \/ WriteGivesUp(p)
      PROVE  InputGrows /\ OutputGrows /\ LossGrows
  <2>1. UNCHANGED input /\ LossGrows /\ (Publish(p) \/ UNCHANGED output)
    BY <1>4 DEF WriteOK, WriteRetry, WriteGivesUp, NextMessage
  <2>2. hand[p].out \in OutPartitions
    BY <1>4 DEF WriteOK, WriteRetry, WriteGivesUp, Consistent, TypeOK
  <2>3. Message(p) \in Notification /\ hand[p].part \in InPartitions /\ hand[p].off \in Nat
        /\ ~Rejected(Message(p))
    BY <1>4, MessageInInput DEF WriteOK, WriteRetry, WriteGivesUp, Busy, Consistent, HandOK
  <2>4. OutEvent(p) \in OutputEvent
    BY <2>3, TranslationIsChange DEF OutEvent, OutputEvent
  <2>5. OutputGrows
    <3>1. output \in [OutPartitions -> Seq(OutputEvent)]
      BY DEF Consistent, TypeOK
    <3>2. CASE Publish(p)
      <4> DEFINE before == output[hand[p].out]
                 after == Append(before, OutEvent(p))
      <4>1. before \in Seq(OutputEvent)
        BY <2>2, <3>1
      <4>2. /\ Len(before) <= Len(after)
            /\ \A i \in 1 .. Len(before) : after[i] = before[i]
        BY <2>4, <4>1
      <4>3. \A o \in OutPartitions : output'[o] = IF o = hand[p].out THEN after ELSE output[o]
        BY <3>1, <3>2 DEF Publish
      <4> HIDE DEF after
      <4> SUFFICES ASSUME NEW o \in OutPartitions
                   PROVE  /\ Len(output[o]) <= Len(output'[o])
                          /\ \A i \in 1 .. Len(output[o]) : output'[o][i] = output[o][i]
        OBVIOUS
      <4>4. CASE o = hand[p].out
        BY <4>2, <4>3, <4>4
      <4>5. CASE o # hand[p].out
        BY <1>1, <4>3, <4>5
      <4>6. QED
        BY <4>4, <4>5
    <3>3. CASE UNCHANGED output
      BY <1>1, <3>3
    <3>4. QED
      BY <2>1, <3>2, <3>3
  <2>6. QED
    BY <1>1, <2>1, <2>5
<1>5. CASE Rebalance \/ \E p \in Producers :
             CloseReader(p) \/ Crash(p) \/ Start(p) \/ Join(p) \/ Close(p)
  <2>1. UNCHANGED <<input, output>> /\ LossGrows
    BY <1>5 DEF Rebalance, CloseReader, Crash, Die, Start, Join, Close, CloseWriter,
       CloseReturns, Exit, lossVars
  <2>2. QED
    BY <1>2, <2>1
<1>6. ASSUME NEW p \in Producers, Loop(p), ~(WriteOK(p) \/ WriteRetry(p) \/ WriteGivesUp(p))
      PROVE  InputGrows /\ OutputGrows /\ LossGrows
  <2>1. UNCHANGED <<input, output>> /\ LossGrows
    BY <1>6 DEF Loop, Fetch, Commit, CommitReturns, ReadError, ReadEOF, Reject, StartWrite,
       Write, WriteClosed, NextMessage, lossVars
  <2>2. QED
    BY <1>2, <2>1
<1>7. CASE UNCHANGED vars
  BY <1>2, <1>7 DEF vars, lossVars
<1>8. QED
  BY <1>3, <1>4, <1>5, <1>6, <1>7 DEF Next, Environment

LEMMA SettledKept ==
  ASSUME Consistent, [Next]_vars, NEW q \in InPartitions, NEW off \in Nat,
         off < Len(input[q]), Settled(q, off)
  PROVE  Settled(q, off)'
<1>1. CASE Rejected(input[q][off + 1])
  <2>1. off + 1 \in 1 .. Len(input[q])
    BY DEF Consistent, TypeOK
  <2>2. input'[q][off + 1] = input[q][off + 1]
    BY <2>1, OnlyGrows
  <2>3. QED
    BY <1>1, <2>2 DEF Settled
<1>2. CASE Published(q, off)
  <2>1. PICK o \in OutPartitions : \E i \in DOMAIN output[o] :
               output[o][i].part = q /\ output[o][i].off = off
    BY <1>2 DEF Published
  <2>2. PICK i \in DOMAIN output[o] : output[o][i].part = q /\ output[o][i].off = off
    BY <2>1
  <2>3. output[o] \in Seq(OutputEvent) /\ i \in 1 .. Len(output[o])
    BY <2>2 DEF Consistent, TypeOK
  <2>4. output'[o] \in Seq(OutputEvent)
    BY ConsistentNext DEF Consistent, TypeOK
  <2>5. output'[o][i] = output[o][i] /\ i \in 1 .. Len(output'[o])
    BY <2>3, <2>4, OnlyGrows
  <2>6. i \in DOMAIN output'[o]
    BY <2>4, <2>5
  <2>7. QED
    BY <2>2, <2>5, <2>6 DEF Settled, Published
<1>3. CASE <<q, off>> \in dropped \/ <<q, off>> \in interrupted
  BY <1>3, OnlyGrows DEF Settled
<1>4. QED
  BY <1>1, <1>2, <1>3 DEF Settled

\* The loop doesn't let go of a committed message until it is settled.
LEMMA BusyKept ==
  ASSUME Consistent, [Next]_vars, NEW r \in Producers, loop[r] \in Busy,
         NEW q, NEW off, q = hand[r].part, off = hand[r].off
  PROVE  \/ loop'[r] \in Busy /\ MessageId(r)' = MessageId(r)
         \/ Settled(q, off)'
<1>1. q \in InPartitions /\ off \in Nat /\ off + 1 \in DOMAIN input[q]
  BY MessageInInput
<1>2. off < Len(input[q]) /\ off + 1 \in 1 .. Len(input[q])
  BY <1>1 DEF Consistent, TypeOK
<1>3. ASSUME <<q, off>> \in dropped' \cup interrupted'
      PROVE  Settled(q, off)'
  BY <1>3 DEF Settled
<1>4. CASE UNCHANGED <<loop[r], hand[r], position[r]>>
  BY <1>4 DEF MessageId
<1>5. CASE Start(r) \/ Join(r)
  BY <1>5 DEF Start, Join, MessageId, Consistent, TypeOK, Busy
<1>6. CASE Die(r)
  BY <1>3, <1>6 DEF Die, InHand, MessageId
<1>7. CASE Loop(r)
  <2>1. CASE \/ \E p \in InPartitions : Fetch(r, p)
             \/ Commit(r) \/ ReadEOF(r)
    BY <2>1 DEF Fetch, Commit, ReadEOF, Busy
  <2>2. CASE CommitReturns(r)
    BY <2>2 DEF CommitReturns, MessageId, Busy, Consistent, TypeOK
  <2>3. CASE ReadError(r)
    BY <1>3, <2>3 DEF ReadError, InHand, MessageId
  <2>4. CASE Reject(r)
    <3>1. Rejected(input[q][off + 1])
      BY <2>4 DEF Reject, Message
    <3>2. Settled(q, off)
      BY <3>1 DEF Settled
    <3>3. QED
      BY <1>1, <1>2, <3>2, SettledKept
  <2>5. ASSUME NEW o \in OutPartitions, StartWrite(r, o)
        PROVE  loop'[r] \in Busy /\ MessageId(r)' = MessageId(r)
    BY <2>5 DEF StartWrite, MessageId, Busy, Consistent, TypeOK, Hand
  <2>6. CASE WriteOK(r)
    <3>1. hand[r].out \in OutPartitions /\ output[hand[r].out] \in Seq(OutputEvent)
          /\ output \in [OutPartitions -> Seq(OutputEvent)]
      BY <2>6 DEF WriteOK, Consistent, TypeOK
    <3>2. output'[hand[r].out] = Append(output[hand[r].out], OutEvent(r))
      BY <2>6, <3>1 DEF WriteOK, Publish
    <3>3. output'[hand[r].out] \in Seq(OutputEvent)
      BY <3>1, ConsistentNext DEF Consistent, TypeOK
    <3>4. OutEvent(r).part = q /\ OutEvent(r).off = off
      BY DEF OutEvent
    <3>5. PICK i \in DOMAIN output'[hand[r].out] : output'[hand[r].out][i] = OutEvent(r)
      <4> DEFINE i == Len(output[hand[r].out]) + 1
      <4> HIDE DEF OutEvent
      <4>1. i \in DOMAIN output'[hand[r].out]
        BY <3>1, <3>2
      <4>2. output'[hand[r].out][i] = OutEvent(r)
        BY <3>1, <3>2
      <4>3. QED
        BY <4>1, <4>2
    <3>6. output'[hand[r].out][i].part = q /\ output'[hand[r].out][i].off = off
      BY <3>4, <3>5
    <3>7. \E o \in OutPartitions : \E j \in DOMAIN output'[o] :
            output'[o][j].part = q /\ output'[o][j].off = off
      BY <3>1, <3>5, <3>6
    <3>8. Settled(q, off)'
      BY <3>7 DEF Settled, Published
    <3>9. QED
      BY <3>8
  <2>7. CASE WriteRetry(r)
    BY <2>7 DEF WriteRetry, MessageId, Busy, Consistent, TypeOK, Hand
  <2>8. CASE WriteGivesUp(r) \/ WriteClosed(r)
    BY <1>3, <2>8 DEF WriteGivesUp, WriteClosed, MessageId
  <2>9. QED
    BY <1>7, <2>1, <2>2, <2>3, <2>4, <2>5, <2>6, <2>7, <2>8 DEF Loop, Write
<1>8. QED
  BY <1>4, <1>5, <1>6, <1>7, StepOfProcess

LEMMA AccountedKept ==
  ASSUME Consistent, [Next]_vars, NEW q \in InPartitions, NEW off \in Nat,
         off < Len(input[q]), Accounted(q, off)
  PROVE  Accounted(q, off)'
<1>1. CASE Settled(q, off)
  BY <1>1, SettledKept DEF Accounted
<1>2. CASE InProgress(q, off)
  <2>1. PICK r \in Producers : loop[r] \in Busy /\ MessageId(r) = <<q, off>>
    BY <1>2 DEF InProgress
  <2>2. hand[r].part = q /\ hand[r].off = off
    BY <2>1 DEF MessageId
  <2>3. QED
    BY <2>1, <2>2, BusyKept DEF Accounted, InProgress
<1>3. QED
  BY <1>1, <1>2 DEF Accounted

LEMMA InitAccounting == Init => AccountingInv
<1> SUFFICES ASSUME Init PROVE AccountingInv
  OBVIOUS
<1>1. \A q \in InPartitions : committed[q] = 0
  BY DEF Init
<1>2. \A p \in Producers, q \in InPartitions : position[p][q] = -1
  BY DEF Init, NoPosition, NotAssigned
<1>3. \A p \in Producers : loop[p] = "idle"
  BY DEF Init
<1>4. NothingSkipped
  BY <1>1 DEF NothingSkipped
<1>5. ReaderSkipsNothing
  BY <1>2 DEF ReaderSkipsNothing
<1>6. FetchedInOrder
  BY <1>3 DEF FetchedInOrder
<1>7. QED
  BY <1>4, <1>5, <1>6, InitConsistent DEF AccountingInv

\* The committed offset moves only over what its reader has been through.
LEMMA NothingSkippedNext ==
  ASSUME AccountingInv, [Next]_vars
  PROVE  NothingSkipped'
<1> SUFFICES ASSUME NEW q \in InPartitions, NEW off \in 0 .. (committed'[q] - 1)
             PROVE  Accounted(q, off)'
  BY DEF NothingSkipped
<1>1. Consistent /\ Consistent'
  BY ConsistentNext DEF AccountingInv
<1>2. committed[q] \in Nat /\ committed'[q] \in Nat /\ off \in Nat /\ committed[q] <= Len(input[q])
      /\ Len(input[q]) \in Nat
  BY <1>1 DEF Consistent, TypeOK, WithinInput
<1>3. CASE committed' = committed
  <2>1. Accounted(q, off)
    BY <1>3 DEF AccountingInv, NothingSkipped
  <2>2. off < Len(input[q])
    BY <1>2, <1>3
  <2>3. QED
    BY <1>1, <1>2, <2>1, <2>2, AccountedKept
<1>4. ASSUME NEW p \in Producers, Commit(p)
      PROVE  Accounted(q, off)'
  <2>1. /\ loop[p] = "fetched" /\ loop' = [loop EXCEPT ![p] = "committed"] /\ hand' = hand
        /\ committed' = [committed EXCEPT ![hand[p].part] = hand[p].off + 1]
    BY <1>4 DEF Commit
  <2>2. hand[p].part \in InPartitions /\ hand[p].off \in Nat
        /\ hand[p].off < Len(input[hand[p].part])
    BY <1>1, <2>1, MessageInInput DEF Consistent, HandOK
  <2>3. CASE q # hand[p].part
    <3>1. committed'[q] = committed[q]
      BY <2>1, <2>3 DEF Consistent, TypeOK
    <3>2. Accounted(q, off) /\ off < Len(input[q])
      BY <1>2, <3>1 DEF AccountingInv, NothingSkipped
    <3>3. QED
      BY <1>1, <1>2, <3>2, AccountedKept
  <2>4. CASE q = hand[p].part /\ off = hand[p].off
    <3>1. loop'[p] \in Busy /\ MessageId(p)' = <<q, off>>
      BY <1>1, <2>1, <2>4 DEF Consistent, TypeOK, Busy, MessageId
    <3>2. QED
      BY <3>1 DEF Accounted, InProgress
  <2>5. CASE q = hand[p].part /\ off # hand[p].off
    <3>1. committed'[q] = hand[p].off + 1
      BY <1>1, <2>1, <2>2, <2>5 DEF Consistent, TypeOK
    <3>2. off \in 0 .. (hand[p].off - 1)
      BY <1>2, <2>2, <2>5, <3>1
    <3>3. Accounted(q, off) /\ off < Len(input[q])
      BY <1>2, <2>1, <2>2, <2>5, <3>2 DEF AccountingInv, FetchedInOrder
    <3>4. QED
      BY <1>1, <1>2, <3>3, AccountedKept
  <2>6. QED
    BY <2>3, <2>4, <2>5
<1>5. committed' = committed \/ \E p \in Producers : Commit(p)
  <2>1. CASE Environment
    BY <2>1 DEF Environment, Debezium, Rebalance, CloseReader, Crash, Die, groupVars
  <2>2. ASSUME NEW p \in Producers, Start(p) \/ Join(p) \/ Close(p)
        PROVE  committed' = committed
    BY <2>2 DEF Start, Join, Close, CloseWriter, CloseReturns, Exit, Die, groupVars
  <2>3. ASSUME NEW p \in Producers, Loop(p)
        PROVE  committed' = committed \/ Commit(p)
    BY <2>3 DEF Loop, Fetch, CommitReturns, ReadError, ReadEOF, Reject, StartWrite, Write,
       WriteOK, WriteRetry, WriteGivesUp, WriteClosed, NextMessage, groupVars
  <2>4. QED
    BY <2>1, <2>2, <2>3 DEF Next, vars, groupVars
<1>6. QED
  BY <1>3, <1>4, <1>5

\* So does the position of a reader, except over the message in the hands of
\* its loop, or when the loop has ended.
LEMMA ReaderSkipsNothingNext ==
  ASSUME AccountingInv, [Next]_vars
  PROVE  ReaderSkipsNothing'
<1> SUFFICES ASSUME NEW p \in Producers, NEW q \in InPartitions,
                    NEW off \in 0 .. (position'[p][q] - 1)
             PROVE  \/ Accounted(q, off)'
                    \/ loop'[p] = "fetched" /\ MessageId(p)' = <<q, off>>
                    \/ loop'[p] = "stopped"
  BY DEF ReaderSkipsNothing
<1>1. Consistent /\ Consistent'
  BY ConsistentNext DEF AccountingInv
<1>2. /\ position[p][q] \in Int /\ position'[p][q] \in Int /\ off \in Nat
      /\ position[p][q] <= Len(input[q]) /\ Len(input[q]) \in Nat
      /\ committed[q] \in Nat /\ committed[q] <= Len(input[q])
  BY <1>1 DEF Consistent, TypeOK, WithinInput, NotAssigned
<1>3. ASSUME off < position[p][q]
      PROVE  \/ Accounted(q, off)'
             \/ loop[p] = "fetched" /\ MessageId(p) = <<q, off>>
             \/ loop[p] = "stopped"
  <2>1. off \in 0 .. (position[p][q] - 1) /\ off < Len(input[q])
    BY <1>2, <1>3
  <2>2. CASE Accounted(q, off)
    BY <1>1, <1>2, <2>1, <2>2, AccountedKept
  <2>3. QED
    BY <2>1, <2>2 DEF AccountingInv, ReaderSkipsNothing
<1>4. CASE UNCHANGED <<loop[p], hand[p], position[p]>>
  BY <1>2, <1>3, <1>4 DEF MessageId
<1>5. CASE Start(p)
  <2>1. loop[p] = "idle" /\ position' = position
    BY <1>1, <1>5 DEF Start, Consistent, TypeOK
  <2>2. QED
    BY <1>2, <1>3, <2>1
<1>6. CASE Join(p)
  <2>1. position'[p][q] \in {committed[q], -1}
    BY <1>1, <1>6 DEF Join, Consistent, TypeOK, NotAssigned
  <2>2. off \in 0 .. (committed[q] - 1) /\ off < Len(input[q])
    BY <1>2, <2>1
  <2>3. Accounted(q, off)
    BY <2>2 DEF AccountingInv, NothingSkipped
  <2>4. QED
    BY <1>1, <1>2, <2>2, <2>3, AccountedKept
<1>7. CASE Die(p)
  <2>1. position'[p][q] = -1
    BY <1>1, <1>7 DEF Die, NoPosition, NotAssigned, Consistent, TypeOK
  <2>2. QED
    BY <1>2, <2>1
<1>8. ASSUME NEW r \in InPartitions, Fetch(p, r)
      PROVE  \/ Accounted(q, off)'
             \/ loop'[p] = "fetched" /\ MessageId(p)' = <<q, off>>
  <2>1. loop[p] = "reading" /\ loop'[p] = "fetched"
    BY <1>1, <1>8 DEF Fetch, Consistent, TypeOK
  <2>2. position'[p][q] = IF q = r THEN position[p][q] + 1 ELSE position[p][q]
    BY <1>1, <1>8 DEF Fetch, Consistent, TypeOK
  <2>3. MessageId(p)' = <<r, position[p][r]>>
    BY <1>1, <1>8 DEF Fetch, MessageId, Consistent, TypeOK, Nothing
  <2>4. CASE off < position[p][q]
    BY <1>3, <2>1, <2>4
  <2>5. CASE ~(off < position[p][q])
    <3>1. q = r /\ off = position[p][q]
      BY <1>2, <2>2, <2>5
    <3>2. QED
      BY <2>1, <2>3, <3>1
  <2>6. QED
    BY <2>4, <2>5
<1>9. CASE Loop(p) /\ ~(\E r \in InPartitions : Fetch(p, r))
  <2>1. position' = position
    BY <1>9 DEF Loop, Commit, CommitReturns, ReadError, ReadEOF, Reject, StartWrite, Write,
       WriteOK, WriteRetry, WriteGivesUp, WriteClosed, NextMessage
  <2>2. off < position[p][q]
    BY <1>2, <2>1
  <2>3. CASE loop[p] = "stopped"
    BY <1>9, <2>3 DEF Loop, Commit, CommitReturns, ReadError, ReadEOF, Reject, StartWrite,
       Write, WriteOK, WriteRetry, WriteGivesUp, WriteClosed
  <2>4. CASE loop[p] = "fetched" /\ MessageId(p) = <<q, off>>
    <3>1. Commit(p) \/ ReadError(p)
      BY <1>9, <2>4 DEF Loop, CommitReturns, ReadEOF, Reject, StartWrite,
         Write, WriteOK, WriteRetry, WriteGivesUp, WriteClosed
    <3>2. CASE Commit(p)
      <4>1. loop'[p] \in Busy /\ MessageId(p)' = <<q, off>>
        BY <1>1, <2>4, <3>2 DEF Commit, Consistent, TypeOK, Busy, MessageId
      <4>2. QED
        BY <4>1 DEF Accounted, InProgress
    <3>3. CASE ReadError(p)
      BY <1>1, <3>3 DEF ReadError, Consistent, TypeOK
    <3>4. QED
      BY <3>1, <3>2, <3>3
  <2>5. QED
    BY <1>3, <2>2, <2>3, <2>4
<1>10. QED
  BY <1>1, <1>4, <1>5, <1>6, <1>7, <1>8, <1>9, StepOfProcess

\* A loop that is about to commit has left nothing behind, and that remains true
\* while other processes take over its partition.
LEMMA FetchedInOrderNext ==
  ASSUME AccountingInv, [Next]_vars
  PROVE  FetchedInOrder'
<1> SUFFICES ASSUME NEW p \in Producers, loop'[p] = "fetched",
                    NEW q, q = hand'[p].part,
                    NEW off \in 0 .. (hand'[p].off - 1)
             PROVE  Accounted(q, off)'
  BY DEF FetchedInOrder
<1>1. Consistent /\ Consistent'
  BY ConsistentNext DEF AccountingInv
<1>2. CASE loop[p] = "fetched" /\ hand'[p] = hand[p]
  <2>1. q \in InPartitions /\ hand[p].off \in Nat /\ hand[p].off < Len(input[q])
    BY <1>1, <1>2, MessageInInput DEF Consistent, HandOK
  <2>2. off \in Nat /\ off < Len(input[q]) /\ Accounted(q, off)
    BY <1>1, <1>2, <2>1 DEF AccountingInv, FetchedInOrder, Consistent, TypeOK
  <2>3. QED
    BY <1>1, <2>1, <2>2, AccountedKept
<1>3. ASSUME NEW r \in InPartitions, Fetch(p, r)
      PROVE  Accounted(q, off)'
  <2>1. loop[p] = "reading" /\ hand'[p].part = r /\ hand'[p].off = position[p][r]
    BY <1>1, <1>3 DEF Fetch, Consistent, TypeOK, Nothing
  <2>2. position[p][r] \in Int /\ position[p][r] <= Len(input[r]) /\ Len(input[r]) \in Nat
    BY <1>1 DEF Consistent, TypeOK, WithinInput, NotAssigned
  <2>3. q = r /\ off \in 0 .. (position[p][r] - 1) /\ off \in Nat /\ off < Len(input[r])
    BY <2>1, <2>2
  <2>4. Accounted(q, off)
    BY <2>1, <2>3 DEF AccountingInv, ReaderSkipsNothing
  <2>5. QED
    BY <1>1, <2>3, <2>4, AccountedKept
<1>4. CASE UNCHANGED <<loop[p], hand[p], position[p]>> \/ Join(p)
  BY <1>2, <1>4 DEF Join
<1>5. CASE Start(p) \/ Die(p)
  BY <1>1, <1>5 DEF Start, Die, Consistent, TypeOK
<1>6. CASE Loop(p) /\ ~(\E r \in InPartitions : Fetch(p, r))
  BY <1>1, <1>6 DEF Loop, Commit, CommitReturns, ReadError, ReadEOF, Reject, StartWrite, Write,
     WriteOK, WriteRetry, WriteGivesUp, WriteClosed, NextMessage, Consistent, TypeOK
<1>7. QED
  BY <1>1, <1>3, <1>4, <1>5, <1>6, StepOfProcess

THEOREM AccountingInvariant == Spec => []AccountingInv
<1>1. AccountingInv /\ [Next]_vars => AccountingInv'
  BY ConsistentNext, NothingSkippedNext, ReaderSkipsNothingNext, FetchedInOrderNext
     DEF AccountingInv
<1>2. QED
  BY <1>1, InitAccounting, PTL DEF Spec

\* However many processes share the input, whatever crashes, rebalances, late
\* commits and failed writes there are, the offset that the group commits never
\* goes past an event that is neither published nor in progress nor one of those
\* that a recorded failure has cost.
THEOREM NoSilentLoss == Spec => []NothingSkipped
<1>1. AccountingInv => NothingSkipped
  BY DEF AccountingInv
<1>2. QED
  BY <1>1, AccountingInvariant, PTL

----------------------------------------------------------------------------
(* Losses.                                                                 *)

\* Everything that has been lost.
AllLost == dropped \cup interrupted

\* What a step can do to the losses and to those that are to be expected.  A
\* message that is lost without a disturbance was in the hands of a process that
\* somebody has stopped.
LossStep(p) ==
  \/ AllLost' = AllLost /\ Owing' \subseteq Owing /\ faults' \in {faults, faults + 1}
  \/ AllLost' = AllLost /\ Owing' \subseteq Owing \cup {p} /\ faults' = faults + 1
  \/ /\ AllLost' = AllLost \cup {MessageId(p)} /\ loop[p] \in Busy
     /\ \/ p \in Owing /\ Owing' \subseteq Owing \ {p} /\ faults' = faults
        \/ Owing' \subseteq Owing /\ faults' = faults + 1

LEMMA LossOfProcess ==
  ASSUME Consistent, NEW p \in Producers, Start(p) \/ Join(p) \/ Loop(p) \/ Close(p)
  PROVE  LossStep(p)
<1>1. ASSUME UNCHANGED <<main, dropped, interrupted>>, faults' \in {faults, faults + 1},
             loop'[p] \in Busy => loop[p] \in Busy \/ main[p] = "running",
             \A r \in Producers \ {p} : loop'[r] = loop[r]
      PROVE  LossStep(p)
  BY <1>1 DEF LossStep, AllLost, Owing
<1>2. CASE Start(p) \/ Join(p)
  BY <1>2 DEF Start, Join, LossStep, AllLost, Owing, Busy, Consistent, TypeOK, groupVars, lossVars
<1>3. CASE \/ \E q \in InPartitions : Fetch(p, q)
           \/ Commit(p) \/ CommitReturns(p) \/ ReadEOF(p)
           \/ \E o \in OutPartitions : StartWrite(p, o)
           \/ Reject(p) \/ WriteOK(p) \/ WriteRetry(p)
  BY <1>1, <1>3 DEF Fetch, Commit, CommitReturns, ReadEOF, StartWrite, Reject, WriteOK,
     WriteRetry, NextMessage, Fault, Busy, Consistent, TypeOK, groupVars, lossVars
<1>4. CASE ReadError(p)
  <2>1. UNCHANGED <<main, dropped>> /\ interrupted' = interrupted \cup InHand(p)
    BY <1>4 DEF ReadError
  <2>2. loop' = [loop EXCEPT ![p] = "stopped"] /\ main[p] # "down"
    BY <1>4 DEF ReadError, Consistent, TypeOK
  <2>3. Owing' \subseteq Owing \ {p}
    BY <2>1, <2>2 DEF Owing, Busy, Consistent, TypeOK
  <2>4. faults' = faults + 1 \/ (main[p] # "running" /\ faults' = faults)
    BY <1>4 DEF ReadError, Fault
  <2>5. CASE loop[p] \in Busy
    <3>1. AllLost' = AllLost \cup {MessageId(p)}
      BY <2>1, <2>5 DEF AllLost, InHand
    <3>2. main[p] # "running" => p \in Owing
      BY <2>2, <2>5 DEF Owing
    <3>3. QED
      BY <2>3, <2>4, <2>5, <3>1, <3>2 DEF LossStep
  <2>6. CASE loop[p] \notin Busy
    BY <2>1, <2>3, <2>4, <2>6 DEF AllLost, InHand, LossStep
  <2>7. QED
    BY <2>5, <2>6
<1>5. CASE WriteClosed(p) \/ WriteGivesUp(p)
  <2>1. UNCHANGED <<main, interrupted>> /\ dropped' = dropped \cup {MessageId(p)}
        /\ loop' = [loop EXCEPT ![p] = "reading"] /\ loop[p] \in Busy
    BY <1>5 DEF WriteClosed, WriteGivesUp, NextMessage, Busy
  <2>2. Owing' \subseteq Owing \ {p}
    BY <2>1 DEF Owing, Busy, Consistent, TypeOK
  <2>3. (faults' = faults /\ p \in Owing) \/ faults' = faults + 1
    BY <1>5 DEF WriteClosed, WriteGivesUp, Fault, Owing, Busy
  <2>4. AllLost' = AllLost \cup {MessageId(p)}
    BY <2>1 DEF AllLost
  <2>5. QED
    BY <2>1, <2>2, <2>3, <2>4 DEF LossStep
<1>6. CASE CloseWriter(p) \/ CloseReturns(p)
  BY <1>6 DEF CloseWriter, CloseReturns, LossStep, AllLost, Owing, Consistent, TypeOK, lossVars
<1>7. CASE Exit(p)
  <2>1. main[p] \in {"closed", "abandoned"} /\ main' = [main EXCEPT ![p] = "down"]
        /\ loop' = [loop EXCEPT ![p] = "idle"] /\ faults' = faults
        /\ dropped' = dropped /\ interrupted' = interrupted \cup InHand(p)
    BY <1>7 DEF Exit, Die
  <2>2. Owing' \subseteq Owing \ {p}
    BY <2>1 DEF Owing, Busy, Consistent, TypeOK
  <2>3. loop[p] \in Busy => p \in Owing
    BY <2>1 DEF Owing
  <2>4. AllLost' = IF loop[p] \in Busy THEN AllLost \cup {MessageId(p)} ELSE AllLost
    BY <2>1 DEF AllLost, InHand
  <2>5. QED
    BY <2>1, <2>2, <2>3, <2>4 DEF LossStep
<1>8. QED
  BY <1>2, <1>3, <1>4, <1>5, <1>6, <1>7 DEF Loop, Write, Close
LEMMA LossNext ==
  ASSUME Consistent, [Next]_vars
  PROVE  \/ AllLost' = AllLost /\ Owing' \subseteq Owing /\ faults' \in {faults, faults + 1}
         \/ \E p \in Producers : LossStep(p)
<1>1. CASE Environment
  <2>1. CASE \E q \in InPartitions, n \in Inputs : Debezium(q, n)
    BY <2>1 DEF Debezium, AllLost, Owing, processVars, lossVars
  <2>2. CASE Rebalance
    BY <2>2 DEF Rebalance, Fault, AllLost, Owing
  <2>3. ASSUME NEW p \in Producers, CloseReader(p)
        PROVE  LossStep(p)
    BY <2>3 DEF CloseReader, Fault, LossStep, AllLost, Owing, Consistent, TypeOK
  <2>4. ASSUME NEW p \in Producers, Crash(p)
        PROVE  LossStep(p)
    <3>1. main' = [main EXCEPT ![p] = "down"] /\ loop' = [loop EXCEPT ![p] = "idle"]
          /\ dropped' = dropped /\ interrupted' = interrupted \cup InHand(p)
          /\ faults' = faults + 1
      BY <2>4 DEF Crash, Die, Fault
    <3>2. Owing' \subseteq Owing
      BY <3>1 DEF Owing, Busy, Consistent, TypeOK
    <3>3. AllLost' = IF loop[p] \in Busy THEN AllLost \cup {MessageId(p)} ELSE AllLost
      BY <3>1 DEF AllLost, InHand
    <3>4. QED
      BY <3>1, <3>2, <3>3 DEF LossStep
  <2>5. QED
    BY <1>1, <2>1, <2>2, <2>3, <2>4 DEF Environment
<1>2. CASE \E p \in Producers : Start(p) \/ Join(p) \/ Loop(p) \/ Close(p)
  BY <1>2, LossOfProcess
<1>3. CASE UNCHANGED vars
  BY <1>3 DEF vars, AllLost, Owing, processVars, lossVars
<1>4. QED
  BY <1>1, <1>2, <1>3 DEF Next

\* LossBounded, with what Cardinality needs.
LossInv == IsFiniteSet(AllLost) /\ LossBounded

LEMMA OwingFinite == IsFiniteSet(Owing) /\ Cardinality(Owing) \in Nat
BY ProducerAssumption, FS_Subset, FS_CardinalityType DEF Owing

LEMMA LossInvNext ==
  ASSUME Consistent, LossInv, [Next]_vars
  PROVE  LossInv'
<1>1. IsFiniteSet(AllLost) /\ Cardinality(AllLost) \in Nat
  BY FS_CardinalityType DEF LossInv
<1>2. IsFiniteSet(Owing) /\ Cardinality(Owing) \in Nat
  BY OwingFinite
<1>3. faults \in Nat /\ Cardinality(AllLost) + Cardinality(Owing) <= faults
  BY DEF LossInv, LossBounded, AllLost, Consistent, TypeOK
<1>4. \A S : S \subseteq Owing => /\ IsFiniteSet(S)
                                   /\ Cardinality(S) \in Nat
                                   /\ Cardinality(S) <= Cardinality(Owing)
  BY <1>2, FS_Subset, FS_CardinalityType
<1>5. \A x : /\ IsFiniteSet(AllLost \cup {x})
             /\ Cardinality(AllLost \cup {x}) \in Nat
             /\ Cardinality(AllLost \cup {x}) <= Cardinality(AllLost) + 1
  BY <1>1, FS_AddElement, FS_CardinalityType
<1>6. SUFFICES /\ IsFiniteSet(AllLost')
               /\ Cardinality(AllLost') + Cardinality(Owing') <= faults'
  BY DEF LossInv, LossBounded, AllLost
<1>7. CASE AllLost' = AllLost /\ Owing' \subseteq Owing /\ faults' \in {faults, faults + 1}
  <2>1. Cardinality(Owing') \in Nat /\ Cardinality(Owing') <= Cardinality(Owing)
    BY <1>4, <1>7
  <2>2. QED
    BY <1>1, <1>2, <1>3, <1>7, <2>1
<1>8. ASSUME NEW p \in Producers, LossStep(p)
      PROVE  /\ IsFiniteSet(AllLost')
             /\ Cardinality(AllLost') + Cardinality(Owing') <= faults'
  <2>1. CASE AllLost' = AllLost /\ Owing' \subseteq Owing \cup {p} /\ faults' = faults + 1
    <3>1. IsFiniteSet(Owing \cup {p}) /\ Cardinality(Owing \cup {p}) <= Cardinality(Owing) + 1
          /\ Cardinality(Owing \cup {p}) \in Nat
      <4>1. IsFiniteSet(Owing \cup {p})
            /\ Cardinality(Owing \cup {p})
                 = IF p \in Owing THEN Cardinality(Owing) ELSE Cardinality(Owing) + 1
        BY <1>2, FS_AddElement
      <4>2. QED
        BY <1>2, <4>1
    <3>2. Cardinality(Owing') <= Cardinality(Owing \cup {p}) /\ Cardinality(Owing') \in Nat
      BY <2>1, <3>1, FS_Subset, FS_CardinalityType
    <3>3. QED
      BY <1>1, <1>2, <1>3, <2>1, <3>1, <3>2
  <2>2. CASE /\ AllLost' = AllLost \cup {MessageId(p)} /\ p \in Owing
             /\ Owing' \subseteq Owing \ {p} /\ faults' = faults
    <3>1. Cardinality(Owing \ {p}) = Cardinality(Owing) - 1 /\ IsFiniteSet(Owing \ {p})
      BY <1>2, <2>2, FS_RemoveElement
    <3>2. Cardinality(Owing') <= Cardinality(Owing \ {p}) /\ Cardinality(Owing') \in Nat
      BY <2>2, <3>1, FS_Subset, FS_CardinalityType
    <3>3. IsFiniteSet(AllLost') /\ Cardinality(AllLost') \in Nat
          /\ Cardinality(AllLost') <= Cardinality(AllLost) + 1
      BY <1>5, <2>2
    <3>4. QED
      BY <1>1, <1>2, <1>3, <2>2, <3>1, <3>2, <3>3
  <2>3. CASE /\ AllLost' = AllLost \cup {MessageId(p)}
             /\ Owing' \subseteq Owing /\ faults' = faults + 1
    <3>1. Cardinality(Owing') \in Nat /\ Cardinality(Owing') <= Cardinality(Owing)
      BY <1>4, <2>3
    <3>2. IsFiniteSet(AllLost') /\ Cardinality(AllLost') \in Nat
          /\ Cardinality(AllLost') <= Cardinality(AllLost) + 1
      BY <1>5, <2>3
    <3>3. QED
      BY <1>1, <1>2, <1>3, <2>3, <3>1, <3>2
  <2>4. QED
    BY <1>7, <1>8, <2>1, <2>2, <2>3 DEF LossStep
<1>9. QED
  BY <1>7, <1>8, LossNext

LEMMA InitLoss == Init => LossInv
<1> SUFFICES ASSUME Init PROVE LossInv
  OBVIOUS
<1>1. dropped \cup interrupted = {} /\ Owing = {} /\ faults = 0
  BY DEF Init, Owing
<1>2. IsFiniteSet({}) /\ Cardinality({}) = 0
  BY FS_EmptySet
<1>3. IsFiniteSet(AllLost)
  BY <1>1, <1>2 DEF AllLost
<1>4. Cardinality(dropped \cup interrupted) = 0 /\ Cardinality(Owing) = 0
  BY <1>1, <1>2
<1>5. LossBounded
  BY <1>1, <1>4 DEF LossBounded
<1>6. QED
  BY <1>3, <1>5 DEF LossInv

\* For any number of processes, with any number of disturbances of any kind: no
\* disturbance costs more than one message.
THEOREM LossesArePaid == Spec => []LossBounded
<1>1. Init => LossInv
  BY InitLoss
<1>2. Consistent /\ LossInv /\ [Next]_vars => LossInv'
  BY LossInvNext
<1>3. LossInv => LossBounded
  BY DEF LossInv
<1>4. QED
  BY <1>1, <1>2, <1>3, InitConsistent, ConsistentNext, PTL DEF Spec
----------------------------------------------------------------------------
(* Every step of the group is a step of ChangeFeed, or none.               *)

\* What the workers of ChangeFeed have in hand.
Hands == [p \in Producers |-> InHand(p)]

LEMMA SameTranslation ==
  \A n : /\ Feed!Rejected(n) <=> Rejected(n)
        /\ Feed!Translate(n) = Translate(n)
BY DEF Feed!Rejected, Rejected, Feed!Translate, Translate, Feed!IsMalformed, IsMalformed,
   Feed!ObjectKind, ObjectKind, Feed!ChangeType, ChangeType, Feed!ObjectID, ObjectID,
   Feed!TakeID, TakeID

LEMMA SameCardinality == \A S : Feed!Cardinality(S) = Cardinality(S)
BY DEF Feed!Cardinality, Cardinality

LEMMA SameAccounts ==
  ASSUME NEW q, NEW off
  PROVE  Feed!Accounted(q, off) <=> Accounted(q, off)
<1>1. Feed!Settled(q, off) <=> Settled(q, off)
  BY SameTranslation DEF Feed!Settled, Settled, Feed!Published, Published
<1>2. Feed!InProgress(q, off) <=> InProgress(q, off)
  BY DEF Feed!InProgress, InProgress, InHand
<1>3. QED
  BY <1>1, <1>2 DEF Feed!Accounted, Accounted

LEMMA HandsStep ==
  ASSUME Consistent, NEW p \in Producers, NEW S,
         \A r \in Producers \ {p} : loop'[r] = loop[r] /\ hand'[r] = hand[r],
         InHand(p)' = S
  PROVE  Hands' = [Hands EXCEPT ![p] = S]
<1>1. \A r \in Producers \ {p} : InHand(r)' = InHand(r)
  BY DEF InHand, MessageId
<1>2. QED
  BY <1>1 DEF Hands

LEMMA HandsSame ==
  ASSUME UNCHANGED <<input, output, AllLost>>,
         \A p \in Producers : InHand(p)' = InHand(p)
  PROVE  /\ UNCHANGED faults => UNCHANGED Feed!vars
         /\ Fault => Feed!Disturb
<1>1. Hands' = Hands
  BY DEF Hands
<1>2. QED
  BY <1>1 DEF Feed!vars, Feed!Disturb, Feed!Fault, Fault, AllLost, Hands

\* Steps that ChangeFeed doesn't see, except perhaps as a disturbance.
LEMMA HiddenStep ==
  ASSUME Consistent, NEW p \in Producers,
         \/ Rebalance \/ Start(p) \/ Join(p) \/ CloseReader(p) \/ CloseWriter(p) \/ CloseReturns(p)
         \/ \E q \in InPartitions : Fetch(p, q)
         \/ CommitReturns(p) \/ ReadEOF(p)
         \/ \E o \in OutPartitions : StartWrite(p, o)
         \/ WriteRetry(p) /\ UNCHANGED output
         \/ (ReadError(p) \/ Exit(p) \/ Crash(p)) /\ loop[p] \notin Busy
  PROVE  UNCHANGED Feed!vars \/ Feed!Disturb
<1>1. UNCHANGED <<input, output, AllLost>> /\ (UNCHANGED faults \/ Fault)
  BY DEF Rebalance, Start, Join, CloseReader, CloseWriter, CloseReturns, Fetch, CommitReturns,
     ReadEOF, StartWrite, WriteRetry, ReadError, Exit, Crash, Die, InHand, AllLost, lossVars
<1>2. \A r \in Producers : InHand(r)' = InHand(r)
  <2>1. CASE \/ Rebalance \/ Start(p) \/ Join(p) \/ CloseReader(p)
             \/ CloseWriter(p) \/ CloseReturns(p)
             \/ CommitReturns(p) \/ ReadEOF(p)
    BY <2>1 DEF Rebalance, Start, Join, CloseReader, CloseWriter, CloseReturns, CommitReturns,
       ReadEOF, InHand, MessageId, Busy, Consistent, TypeOK
  <2>2. ASSUME NEW q \in InPartitions, Fetch(p, q)
        PROVE  \A r \in Producers : InHand(r)' = InHand(r)
    BY <2>2 DEF Fetch, InHand, MessageId, Busy, Consistent, TypeOK
  <2>3. ASSUME NEW m \in Hand, hand' = [hand EXCEPT ![p] = m],
               m.part = hand[p].part, m.off = hand[p].off,
               loop[p] \in Busy, loop' = [loop EXCEPT ![p] = "writing"]
        PROVE  \A r \in Producers : InHand(r)' = InHand(r)
    BY <2>3 DEF InHand, MessageId, Busy, Consistent, TypeOK
  <2>4. ASSUME NEW o \in OutPartitions, StartWrite(p, o)
        PROVE  \A r \in Producers : InHand(r)' = InHand(r)
    <3> DEFINE m == [hand[p] EXCEPT !.out = o]
    <3>1. m \in Hand /\ m.part = hand[p].part /\ m.off = hand[p].off
      BY DEF Consistent, TypeOK, Hand
    <3>2. hand' = [hand EXCEPT ![p] = m] /\ loop' = [loop EXCEPT ![p] = "writing"]
          /\ loop[p] \in Busy
      BY <2>4 DEF StartWrite, Busy
    <3> HIDE DEF m
    <3>3. QED
      BY <2>3, <3>1, <3>2
  <2>5. CASE WriteRetry(p)
    <3> DEFINE m == [hand[p] EXCEPT !.attempts = @ + 1]
    <3>1. hand[p] \in Hand
      BY DEF Consistent, TypeOK
    <3>2. m = [part |-> hand[p].part, off |-> hand[p].off,
               out |-> hand[p].out, attempts |-> hand[p].attempts + 1]
      BY <3>1 DEF Hand
    <3>3. m \in Hand /\ m.part = hand[p].part /\ m.off = hand[p].off
      BY <3>1, <3>2 DEF Hand
    <3>4. hand' = [hand EXCEPT ![p] = m] /\ loop' = [loop EXCEPT ![p] = "writing"]
          /\ loop[p] \in Busy
      BY <2>5 DEF WriteRetry, Busy, Consistent, TypeOK
    <3> HIDE DEF m
    <3>5. QED
      BY <2>3, <3>3, <3>4
  <2>6. CASE (ReadError(p) \/ Exit(p) \/ Crash(p)) /\ loop[p] \notin Busy
    BY <2>6 DEF ReadError, Exit, Crash, Die, InHand, MessageId, Busy, Consistent, TypeOK
  <2>7. QED
    BY <2>1, <2>2, <2>4, <2>5, <2>6
<1>3. QED
  BY <1>1, <1>2, HandsSame
\* A worker of ChangeFeed that does something to its message.
LEMMA WorkIsStep ==
  ASSUME Consistent, NEW p \in Producers, loop[p] \in Busy \cup {"fetched"},
         Feed!Work(p, hand[p].part, hand[p].off)
  PROVE  Feed!Next
<1>1. /\ hand[p].part \in InPartitions /\ hand[p].off \in Nat
      /\ hand[p].off < Len(input[hand[p].part])
  BY MessageInInput DEF Consistent, HandOK
<1>2. Len(input[hand[p].part]) \in Nat
  BY <1>1 DEF Consistent, TypeOK
<1>3. hand[p].off \in 0 .. (Len(input[hand[p].part]) - 1)
  BY <1>1, <1>2
<1>4. QED
  BY <1>1, <1>3 DEF Feed!Next

\* The commit of an offset is the moment when the message is taken.
LEMMA CommitTakes ==
  ASSUME AccountingInv, NEW p \in Producers, Commit(p)
  PROVE  Feed!Next
<1> DEFINE q == hand[p].part
           off == hand[p].off
<1>1. Consistent /\ loop[p] = "fetched" /\ InHand(p) = {}
  BY DEF AccountingInv, Commit, InHand, Busy
<1>2. off \in Nat /\ off < Len(input[q])
  BY <1>1, MessageInInput DEF Consistent, HandOK
<1>3. \A earlier \in 0 .. (off - 1) : Feed!Accounted(q, earlier)
  BY <1>1, SameAccounts DEF AccountingInv, FetchedInOrder
<1>4. Hands' = [Hands EXCEPT ![p] = {<<q, off>>}]
  <2>1. \A r \in Producers \ {p} : loop'[r] = loop[r] /\ hand'[r] = hand[r]
    BY <1>1 DEF Commit, Consistent, TypeOK
  <2>2. InHand(p)' = {<<q, off>>}
    BY <1>1 DEF Commit, InHand, MessageId, Busy, Consistent, TypeOK
  <2>3. QED
    BY <1>1, <2>1, <2>2, HandsStep
<1>5. Hands[p] = {} /\ UNCHANGED <<input, output, dropped, interrupted, faults>>
  BY <1>1 DEF Hands, Commit, lossVars
<1>6. Feed!Take(p, q, off)
  BY <1>2, <1>3, <1>4, <1>5 DEF Feed!Take, Hands
<1>7. QED
  BY <1>1, <1>6, WorkIsStep DEF Feed!Work

\* When the loop goes on or ends, the worker has nothing in hand any more.
LEMMA LetGo ==
  ASSUME Consistent, NEW p \in Producers, loop[p] \in Busy, UNCHANGED input,
         \E s \in {"reading", "stopped", "idle"} : loop' = [loop EXCEPT ![p] = s],
         hand' = [hand EXCEPT ![p] = Nothing]
  PROVE  /\ Feed!Release(p)
         /\ MessageId(p) \in Hands[p]
         /\ Feed!Rejected(input[hand[p].part][hand[p].off + 1]) <=> Rejected(Message(p))
<1>1. \A r \in Producers \ {p} : loop'[r] = loop[r] /\ hand'[r] = hand[r]
  BY DEF Consistent, TypeOK
<1>2. InHand(p)' = {}
  BY DEF InHand, Busy, Consistent, TypeOK
<1>3. Hands' = [Hands EXCEPT ![p] = {}]
  BY <1>1, <1>2, HandsStep
<1>4. QED
  BY <1>3, SameTranslation DEF Feed!Release, Hands, InHand, Message

\* What is published is the event that ChangeFeed wants.
LEMMA SamePublish ==
  ASSUME Consistent, NEW p \in Producers, loop[p] = "writing", Publish(p)
  PROVE  hand[p].out \in OutPartitions
         /\ Feed!Publish(p, hand[p].part, hand[p].off, hand[p].out)
<1>1. ~Rejected(Message(p)) /\ hand[p].out \in OutPartitions
  BY DEF Consistent, HandOK, TypeOK
<1>2. <<hand[p].part, hand[p].off>> \in Hands[p]
  BY DEF Hands, InHand, MessageId, Busy
<1>3. QED
  BY <1>1, <1>2, SameTranslation DEF Publish, Feed!Publish, OutEvent, Message, Hands

LEMMA VisibleStep ==
  ASSUME AccountingInv, LossInv', NEW p \in Producers,
         \/ Commit(p) \/ Reject(p) \/ WriteOK(p) \/ WriteClosed(p) \/ WriteGivesUp(p)
         \/ WriteRetry(p) /\ Publish(p)
         \/ (ReadError(p) \/ Exit(p) \/ Crash(p)) /\ loop[p] \in Busy
  PROVE  Feed!Next
<1> DEFINE q == hand[p].part
           off == hand[p].off
<1>1. Consistent
  BY DEF AccountingInv
<1>2. Cardinality(AllLost') <= faults'
  <2>1. Cardinality(AllLost') \in Nat
    BY FS_CardinalityType DEF LossInv
  <2>2. Cardinality(Owing') \in Nat
    BY ProducerAssumption, FS_Subset, FS_CardinalityType DEF Owing
  <2>3. faults' \in Int
    BY <1>1 DEF Consistent, TypeOK, Commit, Reject, WriteOK, WriteClosed, WriteGivesUp,
       WriteRetry, ReadError, Exit, Crash, Fault, lossVars
  <2>4. QED
    BY <2>1, <2>2, <2>3 DEF LossInv, LossBounded, AllLost
<1>3. ASSUME Feed!Release(p), MessageId(p) \in Hands[p], loop[p] \in Busy,
             AllLost' = AllLost \cup {MessageId(p)}, Fault \/ UNCHANGED faults,
             UNCHANGED output \/ (Publish(p) /\ loop[p] = "writing")
      PROVE  Feed!Next
  <2>1. UNCHANGED output \/ \E o \in OutPartitions : Feed!Publish(p, q, off, o)
    BY <1>1, <1>3, SamePublish
  <2>2. Feed!Lose(p, q, off)
    <3>1. <<q, off>> \in Hands[p] /\ AllLost' = AllLost \cup {<<q, off>>}
      BY <1>3 DEF MessageId
    <3>2. Feed!Fault \/ UNCHANGED faults
      BY <1>3 DEF Feed!Fault, Fault
    <3>3. Feed!Cardinality(dropped' \cup interrupted') <= faults'
      BY <1>2, SameCardinality DEF AllLost
    <3>4. QED
      BY <1>3, <2>1, <3>1, <3>2, <3>3 DEF Feed!Lose, AllLost, Hands
  <2>3. QED
    BY <1>1, <1>3, <2>2, WorkIsStep DEF Feed!Work
<1>4. CASE Commit(p)
  BY <1>4, CommitTakes
<1>5. CASE Reject(p)
  <2>1. loop[p] \in Busy /\ Feed!Release(p) /\ MessageId(p) \in Hands[p]
        /\ Feed!Rejected(input[q][off + 1])
    BY <1>1, <1>5, LetGo DEF Reject, NextMessage, Busy
  <2>2. UNCHANGED <<output, dropped, interrupted, faults>>
    BY <1>5 DEF Reject, NextMessage
  <2>3. Feed!Reject(p, q, off)
    BY <2>1, <2>2 DEF Feed!Reject, MessageId, Hands
  <2>4. QED
    BY <1>1, <2>1, <2>3, WorkIsStep DEF Feed!Work
<1>6. CASE WriteOK(p)
  <2>1. loop[p] \in Busy /\ Feed!Release(p)
    BY <1>1, <1>6, LetGo DEF WriteOK, NextMessage, Busy
  <2>2. hand[p].out \in OutPartitions /\ Feed!Publish(p, q, off, hand[p].out)
    BY <1>1, <1>6, SamePublish DEF WriteOK
  <2>3. UNCHANGED <<dropped, interrupted, faults>>
    BY <1>6 DEF WriteOK, NextMessage
  <2>4. Feed!Finish(p, q, off, hand[p].out)
    BY <2>1, <2>2, <2>3 DEF Feed!Finish
  <2>5. QED
    BY <1>1, <2>1, <2>2, <2>4, WorkIsStep DEF Feed!Work
<1>7. CASE WriteClosed(p) \/ WriteGivesUp(p)
  <2>1. loop[p] \in Busy /\ Feed!Release(p) /\ MessageId(p) \in Hands[p]
    BY <1>1, <1>7, LetGo DEF WriteClosed, WriteGivesUp, NextMessage, Busy
  <2>2. /\ AllLost' = AllLost \cup {MessageId(p)}
        /\ Fault \/ UNCHANGED faults
        /\ UNCHANGED output \/ (Publish(p) /\ loop[p] = "writing")
    BY <1>7 DEF WriteClosed, WriteGivesUp, NextMessage, AllLost
  <2>3. QED
    BY <1>3, <2>1, <2>2
<1>8. CASE WriteRetry(p) /\ Publish(p)
  <2>1. loop[p] = "writing" /\ Fault /\ UNCHANGED <<input, dropped, interrupted>>
    BY <1>8 DEF WriteRetry
  <2>2. hand[p].out \in OutPartitions /\ Feed!Publish(p, q, off, hand[p].out)
    BY <1>1, <1>8, <2>1, SamePublish
  <2>3. \A r \in Producers : InHand(r)' = InHand(r)
    <3>1. hand[p] \in Hand
      BY <1>1 DEF Consistent, TypeOK
    <3>2. hand' = [hand EXCEPT ![p].attempts = @ + 1] /\ loop' = loop
      BY <1>8 DEF WriteRetry
    <3>3. \A r \in Producers : MessageId(r)' = MessageId(r)
      BY <1>1, <3>1, <3>2 DEF MessageId, Hand, Consistent, TypeOK
    <3>4. QED
      BY <3>2, <3>3 DEF InHand
  <2>4. Feed!Repeat(p, q, off, hand[p].out)
    BY <2>1, <2>2, <2>3 DEF Feed!Repeat, Feed!Fault, Fault
  <2>5. QED
    BY <1>1, <2>1, <2>2, <2>4, WorkIsStep DEF Feed!Work, Busy
<1>9. CASE (ReadError(p) \/ Exit(p) \/ Crash(p)) /\ loop[p] \in Busy
  <2>1. loop[p] \in Busy /\ Feed!Release(p) /\ MessageId(p) \in Hands[p]
    BY <1>1, <1>9, LetGo DEF ReadError, Exit, Crash, Die
  <2>2. /\ AllLost' = AllLost \cup {MessageId(p)}
        /\ Fault \/ UNCHANGED faults
        /\ UNCHANGED output
    BY <1>9 DEF ReadError, Exit, Crash, Die, InHand, AllLost
  <2>3. QED
    BY <1>3, <2>1, <2>2
<1>10. QED
  BY <1>4, <1>5, <1>6, <1>7, <1>8, <1>9

LEMMA StepImplements ==
  ASSUME AccountingInv, LossInv', [Next]_vars
  PROVE  [Feed!Next]_(Feed!vars)
<1>1. Consistent
  BY DEF AccountingInv
<1>2. ASSUME NEW q \in InPartitions, NEW n \in Inputs, Debezium(q, n)
      PROVE  Feed!Next
  <2>1. Hands' = Hands
    BY <1>2 DEF Debezium, Hands, InHand, MessageId, processVars
  <2>2. Feed!Notify(q, n)
    BY <1>2, <2>1 DEF Debezium, Feed!Notify, Hands, lossVars
  <2>3. QED
    BY <2>2 DEF Feed!Next
<1>3. CASE Rebalance
  <2>1. PICK p \in Producers : TRUE
    BY <1>3 DEF Rebalance, Members
  <2>2. QED
    BY <1>1, <1>3, HiddenStep DEF Feed!Next
<1>4. ASSUME NEW p \in Producers,
             CloseReader(p) \/ Crash(p) \/ Start(p) \/ Join(p) \/ Loop(p) \/ Close(p)
      PROVE  [Feed!Next]_(Feed!vars)
  <2>1. WriteRetry(p) => UNCHANGED output \/ Publish(p)
    BY DEF WriteRetry
  <2>2. (UNCHANGED Feed!vars \/ Feed!Disturb) \/ Feed!Next
    BY <1>1, <1>4, <2>1, HiddenStep, VisibleStep DEF Loop, Write, Close
  <2>3. QED
    BY <2>2 DEF Feed!Next
<1>5. CASE UNCHANGED vars
  <2>1. Hands' = Hands
    BY <1>5 DEF vars, Hands, InHand, MessageId, processVars
  <2>2. UNCHANGED Feed!vars
    BY <1>5, <2>1 DEF vars, lossVars, Feed!vars, Hands
  <2>3. QED
    BY <2>2
<1>6. QED
  BY <1>2, <1>3, <1>4, <1>5 DEF Next, Environment

\* The group of producers implements ChangeFeed.
THEOREM GroupImplementsFeed == Spec => ImplementsFeed
<1>1. Init => Feed!Init
  BY DEF Init, Feed!Init, InHand, Busy
<1>2. AccountingInv /\ LossInv' /\ [Next]_vars => [Feed!Next]_(Feed!vars)
  BY StepImplements
<1>3. Init => LossInv
  BY InitLoss
<1>4. Consistent /\ LossInv /\ [Next]_vars => LossInv'
  BY LossInvNext
<1>5. AccountingInv => Consistent
  BY DEF AccountingInv
<1>6. QED
  BY <1>1, <1>2, <1>3, <1>4, <1>5, AccountingInvariant, PTL DEF Spec, ImplementsFeed, Feed!Spec
----------------------------------------------------------------------------
(* What is in the output.                                                  *)

LEMMA OutputChanges ==
  ASSUME [Next]_vars
  PROVE  \/ UNCHANGED output
         \/ \E p \in Producers : loop[p] = "writing" /\ Publish(p) /\ UNCHANGED input
<1>1. ASSUME NEW p \in Producers, Loop(p)
      PROVE  \/ UNCHANGED output
             \/ loop[p] = "writing" /\ Publish(p) /\ UNCHANGED input
  BY <1>1 DEF Loop, Fetch, Commit, CommitReturns, ReadError, ReadEOF, Reject, StartWrite,
     Write, WriteOK, WriteRetry, WriteGivesUp, WriteClosed, NextMessage, lossVars
<1>2. QED
  BY <1>1 DEF Next, Environment, Debezium, Rebalance, CloseReader, Crash, Exit, Die, Start,
     Join, Close, CloseWriter, CloseReturns, lossVars, vars

\* Only a loop that is writing adds to the output, one event each time.
LEMMA OutputStep ==
  ASSUME Consistent, [Next]_vars, NEW o \in OutPartitions, NEW i \in DOMAIN output'[o]
  PROVE  \/ i \in DOMAIN output[o] /\ output'[o][i] = output[o][i]
         \/ \E p \in Producers : /\ loop[p] = "writing" /\ UNCHANGED input
                                /\ output'[o][i] = OutEvent(p)
<1>1. ASSUME NEW p \in Producers, Publish(p), loop[p] = "writing"
      PROVE  \/ i \in DOMAIN output[o] /\ output'[o][i] = output[o][i]
             \/ output'[o][i] = OutEvent(p)
  <2>1. hand[p].out \in OutPartitions /\ output \in [OutPartitions -> Seq(OutputEvent)]
    BY <1>1 DEF Consistent, TypeOK
  <2>2. output'[o] = IF o = hand[p].out THEN Append(output[o], OutEvent(p)) ELSE output[o]
    BY <1>1, <2>1 DEF Publish
  <2>3. output[o] \in Seq(OutputEvent)
    BY <2>1
  <2> HIDE DEF OutEvent
  <2>4. CASE o = hand[p].out
    <3>1. output'[o] = Append(output[o], OutEvent(p))
      BY <2>2, <2>4
    <3>2. i \in 1 .. (Len(output[o]) + 1)
      BY <2>3, <3>1
    <3>3. QED
      BY <2>3, <3>1, <3>2
  <2>5. QED
    BY <2>2, <2>4
<1>2. QED
  BY <1>1, OutputChanges

\* An event is the translation of the message that it comes from, which is one that
\* processMessage doesn't reject.
PublishedFromInput ==
  \A o \in OutPartitions : \A i \in DOMAIN output[o] :
    LET e == output[o][i] IN
      /\ e.off < Len(input[e.part])
      /\ ~Rejected(input[e.part][e.off + 1])
      /\ e.details = Translate(input[e.part][e.off + 1])

LEMMA FromInputNext ==
  ASSUME Consistent, PublishedFromInput, [Next]_vars
  PROVE  PublishedFromInput'
<1> DEFINE FromInput(e) == /\ e.off < Len(input[e.part])
                           /\ ~Rejected(input[e.part][e.off + 1])
                           /\ e.details = Translate(input[e.part][e.off + 1])
<1>1. ASSUME NEW e \in OutputEvent, FromInput(e)
      PROVE  FromInput(e)'
  <2>1. e.part \in InPartitions /\ e.off \in Nat
    BY DEF OutputEvent
  <2>2. Len(input[e.part]) \in Nat /\ Len(input'[e.part]) \in Nat
    BY <2>1, ConsistentNext DEF Consistent, TypeOK
  <2>3. e.off + 1 \in 1 .. Len(input[e.part]) /\ Len(input[e.part]) <= Len(input'[e.part])
    BY <1>1, <2>1, <2>2, OnlyGrows
  <2>4. input'[e.part][e.off + 1] = input[e.part][e.off + 1]
    BY <2>1, <2>3, OnlyGrows
  <2>5. QED
    BY <1>1, <2>1, <2>2, <2>3, <2>4
<1>2. ASSUME NEW o \in OutPartitions, NEW i \in DOMAIN output'[o]
      PROVE  FromInput(output[o][i])'
  <2>1. CASE i \in DOMAIN output[o] /\ output'[o][i] = output[o][i]
    <3>1. output[o][i] \in OutputEvent /\ FromInput(output[o][i])
      BY <2>1 DEF Consistent, TypeOK, PublishedFromInput
    <3>2. QED
      BY <1>1, <2>1, <3>1
  <2>2. ASSUME NEW p \in Producers, loop[p] = "writing", UNCHANGED input,
               output'[o][i] = OutEvent(p)
        PROVE  FromInput(output[o][i])'
    <3>1. ~Rejected(Message(p)) /\ hand[p].off < Len(input[hand[p].part])
      BY <2>2 DEF Consistent, HandOK, Busy
    <3>2. OutEvent(p).part = hand[p].part /\ OutEvent(p).off = hand[p].off
          /\ OutEvent(p).details = Translate(Message(p))
      BY DEF OutEvent
    <3>3. QED
      BY <2>2, <3>1, <3>2 DEF Message
  <2>3. QED
    BY <1>2, <2>1, <2>2, OutputStep
<1>3. QED
  BY <1>2 DEF PublishedFromInput

\* That is so in every state: what GroupHasNoGaps and the proofs of the pipeline need to
\* know about the events of the output.
LEMMA NothingInvented == Spec => []PublishedFromInput
<1>1. Init => PublishedFromInput
  BY DEF Init, PublishedFromInput
<1>2. QED
  BY <1>1, InitConsistent, ConsistentNext, FromInputNext, PTL DEF Spec

\* Why there are no gaps: what the loop has in hand, and what it has published,
\* came to it with nothing unaccounted before it.
BusyInOrder ==
  \A p \in Producers : loop[p] \in Busy =>
    \A off \in 0 .. (hand[p].off - 1) : Accounted(hand[p].part, off)

OutputInOrder ==
  \A o \in OutPartitions : \A i \in DOMAIN output[o] :
    \A off \in 0 .. (output[o][i].off - 1) : Accounted(output[o][i].part, off)

\* Everything before a message of the input remains accounted for.
LEMMA EarlierKept ==
  ASSUME Consistent, [Next]_vars, NEW q \in InPartitions, NEW n \in Nat,
         n < Len(input[q]), \A off \in 0 .. (n - 1) : Accounted(q, off)
  PROVE  \A off \in 0 .. (n - 1) : Accounted(q, off)'
<1>1. Len(input[q]) \in Nat
  BY DEF Consistent, TypeOK
<1>2. ASSUME NEW off \in 0 .. (n - 1)
      PROVE  Accounted(q, off)'
  <2>1. off \in Nat /\ off < Len(input[q]) /\ Accounted(q, off)
    BY <1>1
  <2>2. QED
    BY <2>1, AccountedKept
<1>3. QED
  BY <1>2

LEMMA BusyInOrderNext ==
  ASSUME AccountingInv, BusyInOrder, [Next]_vars
  PROVE  BusyInOrder'
<1> SUFFICES ASSUME NEW p \in Producers, loop'[p] \in Busy
             PROVE  \A off \in 0 .. (hand'[p].off - 1) : Accounted(hand[p].part, off)'
  BY DEF BusyInOrder
<1>1. Consistent /\ Consistent'
  BY ConsistentNext DEF AccountingInv
<1>2. loop[p] \in Busy \cup {"fetched"} /\ MessageId(p)' = MessageId(p)
  <2>1. CASE UNCHANGED <<loop[p], hand[p], position[p]>>
    BY <2>1 DEF MessageId
  <2>2. CASE Start(p) \/ Join(p) \/ Die(p)
    BY <1>1, <2>2 DEF Start, Join, Die, MessageId, Busy, Consistent, TypeOK
  <2>3. CASE Loop(p)
    <3>1. ~(\E q \in InPartitions : Fetch(p, q)) /\ ~ReadError(p) /\ ~ReadEOF(p)
      BY <1>1 DEF Fetch, ReadError, ReadEOF, Busy, Consistent, TypeOK
    <3>2. ~Reject(p) /\ ~WriteOK(p) /\ ~WriteGivesUp(p) /\ ~WriteClosed(p)
      BY <1>1 DEF Reject, WriteOK, WriteGivesUp, WriteClosed, NextMessage, Busy, Consistent,
         TypeOK
    <3>3. CASE Commit(p) \/ CommitReturns(p)
      BY <3>3 DEF Commit, CommitReturns, MessageId, Busy
    <3>4. ASSUME NEW o \in OutPartitions, StartWrite(p, o)
          PROVE  loop[p] \in Busy /\ MessageId(p)' = MessageId(p)
      BY <1>1, <3>4 DEF StartWrite, MessageId, Busy, Consistent, TypeOK, Hand
    <3>5. CASE WriteRetry(p)
      BY <1>1, <3>5 DEF WriteRetry, MessageId, Busy, Consistent, TypeOK, Hand
    <3>6. QED
      BY <2>3, <3>1, <3>2, <3>3, <3>4, <3>5 DEF Loop, Write
  <2>4. QED
    BY <1>1, <2>1, <2>2, <2>3, StepOfProcess
<1>3. hand'[p].part = hand[p].part /\ hand'[p].off = hand[p].off
  BY <1>2 DEF MessageId
<1>4. /\ hand[p].part \in InPartitions /\ hand[p].off \in Nat
      /\ hand[p].off < Len(input[hand[p].part])
  BY <1>1, <1>2, MessageInInput DEF Consistent, HandOK
<1>5. \A off \in 0 .. (hand[p].off - 1) : Accounted(hand[p].part, off)
  BY <1>2 DEF BusyInOrder, AccountingInv, FetchedInOrder
<1>6. PICK q \in InPartitions, n \in Nat : q = hand[p].part /\ n = hand[p].off
  BY <1>4
<1>7. \A off \in 0 .. (n - 1) : Accounted(q, off)'
  BY <1>1, <1>4, <1>5, <1>6, EarlierKept
<1>8. hand'[p].part = q /\ hand'[p].off = n
  BY <1>3, <1>6
<1>9. QED
  BY <1>7, <1>8 DEF Accounted, Settled, Published, InProgress

LEMMA OutputInOrderNext ==
  ASSUME Consistent, PublishedFromInput, BusyInOrder, OutputInOrder, [Next]_vars
  PROVE  OutputInOrder'
<1> SUFFICES ASSUME NEW o \in OutPartitions, NEW i \in DOMAIN output'[o]
             PROVE  \A off \in 0 .. (output'[o][i].off - 1) : Accounted(output[o][i].part, off)'
  BY DEF OutputInOrder
<1>1. CASE i \in DOMAIN output[o] /\ output'[o][i] = output[o][i]
  <2>1. output[o][i] \in OutputEvent
    BY <1>1 DEF Consistent, TypeOK
  <2>2. /\ output[o][i].part \in InPartitions /\ output[o][i].off \in Nat
        /\ output[o][i].off < Len(input[output[o][i].part])
    BY <1>1, <2>1 DEF OutputEvent, PublishedFromInput
  <2>3. \A off \in 0 .. (output[o][i].off - 1) : Accounted(output[o][i].part, off)
    BY <1>1 DEF OutputInOrder
  <2>4. QED
    BY <1>1, <2>2, <2>3, EarlierKept
<1>2. ASSUME NEW p \in Producers, loop[p] = "writing", output'[o][i] = OutEvent(p)
      PROVE  \A off \in 0 .. (output'[o][i].off - 1) : Accounted(output[o][i].part, off)'
  <2>1. output'[o][i].part = hand[p].part /\ output'[o][i].off = hand[p].off
    BY <1>2 DEF OutEvent
  <2>2. /\ hand[p].part \in InPartitions /\ hand[p].off \in Nat
        /\ hand[p].off < Len(input[hand[p].part])
    BY <1>2, MessageInInput DEF Consistent, HandOK, Busy
  <2>3. \A off \in 0 .. (hand[p].off - 1) : Accounted(hand[p].part, off)
    BY <1>2 DEF BusyInOrder, Busy
  <2>4. PICK q \in InPartitions, n \in Nat : q = hand[p].part /\ n = hand[p].off
    BY <2>2
  <2>5. \A off \in 0 .. (n - 1) : Accounted(q, off)'
    BY <2>2, <2>3, <2>4, EarlierKept
  <2>6. output'[o][i].part = q /\ output'[o][i].off = n
    BY <2>1, <2>4
  <2>7. QED
    BY <2>5, <2>6 DEF Accounted, Settled, Published, InProgress
<1>3. QED
  BY <1>1, <1>2, OutputStep

\* Whoever finds an event in the output knows that no earlier notification of the
\* same partition has been forgotten.
THEOREM GroupHasNoGaps == Spec => []NoGaps
<1>1. Init => BusyInOrder /\ OutputInOrder /\ PublishedFromInput
  BY DEF Init, BusyInOrder, OutputInOrder, PublishedFromInput, Busy
<1>2. OutputInOrder => NoGaps
  BY SameAccounts DEF OutputInOrder, NoGaps, Feed!NoGaps
<1>3. AccountingInv => Consistent
  BY DEF AccountingInv
<1>4. QED
  BY <1>1, <1>2, <1>3, AccountingInvariant, FromInputNext, BusyInOrderNext, OutputInOrderNext,
     PTL DEF Spec

\* The Close method of the writer returns only when nothing is in flight, and
\* from then on nothing gets there.
NothingInFlight == \A p \in Producers : main[p] = "closed" => loop[p] # "writing"

LEMMA NothingInFlightNext ==
  ASSUME Consistent, NothingInFlight, [Next]_vars
  PROVE  NothingInFlight'
<1> SUFFICES ASSUME NEW p \in Producers, main'[p] = "closed"
             PROVE  loop'[p] # "writing"
  BY DEF NothingInFlight
<1>1. ASSUME main'[p] = main[p], ~\E o \in OutPartitions : StartWrite(p, o)
      PROVE  loop'[p] # "writing"
  <2>1. loop[p] # "writing"
    BY <1>1 DEF NothingInFlight
  <2>2. CASE Loop(p)
    BY <1>1, <2>1, <2>2 DEF Loop, Fetch, Commit, CommitReturns, ReadError, ReadEOF, Reject, Write,
       WriteOK, WriteRetry, WriteGivesUp, WriteClosed, NextMessage, Consistent, TypeOK
  <2>3. CASE Start(p) \/ Join(p) \/ Die(p)
    BY <2>1, <2>3 DEF Start, Join, Die, Consistent, TypeOK
  <2>4. QED
    BY <2>1, <2>2, <2>3, StepOfProcess
<1>2. ASSUME NEW o \in OutPartitions, StartWrite(p, o) PROVE FALSE
  BY <1>2 DEF StartWrite, processVars, Consistent, TypeOK
<1>3. CASE CloseReturns(p)
  BY <1>3 DEF CloseReturns
<1>4. main'[p] = main[p] \/ CloseReturns(p)
  <2>1. CASE Environment
    BY <2>1 DEF Environment, Debezium, Rebalance, CloseReader, Crash, Die, processVars,
       Consistent, TypeOK
  <2>2. ASSUME NEW r \in Producers, Start(r) \/ Join(r) \/ Close(r)
        PROVE  main'[p] = main[p] \/ CloseReturns(p)
    BY <2>2 DEF Start, Join, Close, CloseWriter, CloseReturns, Exit, Die, Consistent, TypeOK
  <2>3. ASSUME NEW r \in Producers, Loop(r)
        PROVE  main' = main
    BY <2>3 DEF Loop, Fetch, Commit, CommitReturns, ReadError, ReadEOF, Reject, StartWrite, Write,
       WriteOK, WriteRetry, WriteGivesUp, WriteClosed, NextMessage
  <2>4. QED
    BY <2>1, <2>2, <2>3 DEF Next, vars, processVars
<1>5. QED
  BY <1>1, <1>2, <1>3, <1>4

\* After Close returns without error the process writes nothing more, ever.
THEOREM ClosedWritesNothing == Spec => ClosedIsQuiet
<1>1. Init => NothingInFlight
  BY DEF Init, NothingInFlight
<1>2. ASSUME Consistent, NothingInFlight, [Next]_vars, NEW o \in OutPartitions,
             Len(output'[o]) > Len(output[o])
      PROVE  main[output'[o][Len(output'[o])].by] # "closed"
  <2> DEFINE last == Len(output'[o])
  <2>1. /\ output[o] \in Seq(OutputEvent) /\ output'[o] \in Seq(OutputEvent)
    BY <1>2, ConsistentNext DEF Consistent, TypeOK
  <2>2. last \in DOMAIN output'[o] /\ last \notin DOMAIN output[o]
    BY <1>2, <2>1
  <2>3. PICK p \in Producers : loop[p] = "writing" /\ output'[o][last] = OutEvent(p)
    BY <1>2, <2>2, OutputStep
  <2>4. output'[o][last].by = p
    BY <2>3 DEF OutEvent
  <2>5. QED
    BY <1>2, <2>3, <2>4 DEF NothingInFlight
<1>3. Consistent /\ NothingInFlight /\ [Next]_vars =>
        [\A o \in OutPartitions :
           Len(output'[o]) > Len(output[o])
             => main[output'[o][Len(output'[o])].by] # "closed"]_vars
  BY <1>2
<1>4. QED
  BY <1>1, <1>3, InitConsistent, ConsistentNext, NothingInFlightNext, PTL
     DEF Spec, ClosedIsQuiet
----------------------------------------------------------------------------
(* The order of the output when there is only one process.                 *)

\* The reader is at the committed offset or, after a rebalance during a commit,
\* one before it; the loop works on the message that was committed last.
ReaderAtCommitted ==
  \A p \in Producers :
    /\ loop[p] # "stopped" => \A q \in InPartitions :
         position[p][q] \in
           IF loop[p] = "fetched" /\ hand[p].part = q
           THEN {NotAssigned, committed[q], hand[p].off + 1}
           ELSE {NotAssigned, committed[q] - 1, committed[q]}
    /\ loop[p] = "fetched" =>
         hand[p].off \in {committed[hand[p].part] - 1, committed[hand[p].part]}
    /\ loop[p] \in Busy => hand[p].off = committed[hand[p].part] - 1

WrittenIsCommitted ==
  \A o \in OutPartitions : \A i \in DOMAIN output[o] :
    output[o][i].off < committed[output[o][i].part]

LEMMA ReaderAtCommittedNext ==
  ASSUME Consistent, [Next]_vars, ReaderAtCommitted, \A p, r \in Producers : p = r
  PROVE  /\ ReaderAtCommitted'
         /\ \A q \in InPartitions : committed'[q] >= committed[q]
<1> DEFINE Grows == \A q \in InPartitions : committed'[q] >= committed[q]
<1>1. /\ committed \in [InPartitions -> Nat] /\ hand \in [Producers -> Hand]
      /\ position \in [Producers -> [InPartitions -> Nat \cup {NotAssigned}]]
  BY DEF Consistent, TypeOK
<1>2. CASE UNCHANGED <<committed, loop, hand, position>>
  <2>1. Grows
    BY <1>1, <1>2
  <2>2. committed' = committed /\ loop' = loop /\ hand' = hand /\ position' = position
    BY <1>2
  <2>3. QED
    BY <2>1, <2>2 DEF ReaderAtCommitted
<1>3. ASSUME NEW p \in Producers, Start(p) \/ Join(p) \/ Die(p)
      PROVE  ReaderAtCommitted' /\ Grows
  <2>1. UNCHANGED committed /\ Grows
    BY <1>1, <1>3 DEF Start, Join, Die, groupVars
  <2>2. CASE Start(p)
    BY <1>1, <2>1, <2>2 DEF Start, ReaderAtCommitted, Busy, Consistent, TypeOK
  <2>3. CASE Join(p)
    <3>1. UNCHANGED <<loop, hand>>
      BY <2>3 DEF Join
    <3>2. \A q \in InPartitions : position'[p][q] \in {NotAssigned, committed[q]}
      BY <1>1, <2>3 DEF Join
    <3>3. QED
      BY <2>1, <3>1, <3>2 DEF ReaderAtCommitted
  <2>4. CASE Die(p)
    BY <1>1, <2>1, <2>4 DEF Die, NoPosition, ReaderAtCommitted, Busy, Consistent, TypeOK
  <2>5. QED
    BY <1>3, <2>1, <2>2, <2>3, <2>4
<1>4. ASSUME NEW p \in Producers, NEW q \in InPartitions, Fetch(p, q)
      PROVE  ReaderAtCommitted' /\ Grows
  <2>1. UNCHANGED committed /\ Grows
    BY <1>1, <1>4 DEF Fetch, groupVars
  <2>2. /\ loop[p] = "reading" /\ loop'[p] = "fetched"
        /\ hand'[p].part = q /\ hand'[p].off = position[p][q]
    BY <1>1, <1>4 DEF Fetch, Nothing, Consistent, TypeOK
  <2>3. /\ position[p][q] # NotAssigned
        /\ \A t \in InPartitions :
             position'[p][t] = IF t = q THEN position[p][q] + 1 ELSE position[p][t]
    BY <1>1, <1>4 DEF Fetch
  <2>4. \A t \in InPartitions :
          position[p][t] \in {NotAssigned, committed[t] - 1, committed[t]}
    BY <2>2 DEF ReaderAtCommitted
  <2>5. QED
    BY <1>1, <2>1, <2>2, <2>3, <2>4 DEF ReaderAtCommitted, Busy
<1>5. ASSUME NEW p \in Producers, Commit(p)
      PROVE  ReaderAtCommitted' /\ Grows
  <2>1. UNCHANGED <<hand, position>> /\ loop[p] = "fetched" /\ loop'[p] = "committed"
    BY <1>5 DEF Commit, Consistent, TypeOK
  <2>2. hand[p].part \in InPartitions /\ hand[p].off \in Nat
    BY <2>1, MessageInInput
  <2>3. \A q \in InPartitions :
          committed'[q] = IF q = hand[p].part THEN hand[p].off + 1 ELSE committed[q]
    BY <1>1, <1>5, <2>2 DEF Commit
  <2>4. hand[p].off \in {committed[hand[p].part] - 1, committed[hand[p].part]}
    BY <2>1 DEF ReaderAtCommitted
  <2>5. \A q \in InPartitions :
          position[p][q] \in
            IF hand[p].part = q THEN {NotAssigned, committed[q], hand[p].off + 1}
            ELSE {NotAssigned, committed[q] - 1, committed[q]}
    BY <2>1 DEF ReaderAtCommitted
  <2>6. ASSUME NEW q \in InPartitions
        PROVE  /\ committed'[q] >= committed[q]
               /\ position[p][q] \in {NotAssigned, committed'[q] - 1, committed'[q]}
    <3>1. CASE q = hand[p].part
      <4>1. /\ committed[q] \in Nat /\ committed'[q] = hand[p].off + 1
            /\ hand[p].off \in {committed[q] - 1, committed[q]}
            /\ position[p][q] \in {NotAssigned, committed[q], hand[p].off + 1}
        BY <1>1, <2>3, <2>4, <2>5, <3>1
      <4>2. QED
        BY <2>2, <4>1
    <3>2. CASE q # hand[p].part
      <4>1. /\ committed[q] \in Nat /\ committed'[q] = committed[q]
            /\ position[p][q] \in {NotAssigned, committed[q] - 1, committed[q]}
        BY <1>1, <2>3, <2>5, <3>2
      <4>2. QED
        BY <4>1
    <3>3. QED
      BY <3>1, <3>2
  <2>7. hand[p].off = committed'[hand[p].part] - 1
    BY <2>2, <2>3
  <2>8. QED
    BY <2>1, <2>6, <2>7 DEF ReaderAtCommitted, Busy
<1>6. ASSUME NEW p \in Producers, Loop(p), ~Commit(p), ~\E q \in InPartitions : Fetch(p, q)
      PROVE  ReaderAtCommitted' /\ Grows
  <2>1. UNCHANGED <<committed, position>> /\ Grows
    BY <1>1, <1>6 DEF Loop, CommitReturns, ReadError, ReadEOF, Reject, StartWrite, Write,
       WriteOK, WriteRetry, WriteGivesUp, WriteClosed, NextMessage, groupVars
  <2>2. CASE loop'[p] = "stopped"
    BY <2>1, <2>2 DEF ReaderAtCommitted, Busy
  <2>3. CASE loop[p] \in Busy /\ loop'[p] = "reading"
    BY <2>1, <2>3 DEF ReaderAtCommitted, Busy
  <2>4. CASE /\ loop[p] \in Busy /\ loop'[p] \in Busy
             /\ hand'[p].part = hand[p].part /\ hand'[p].off = hand[p].off
    BY <2>1, <2>4 DEF ReaderAtCommitted, Busy
  <2>5. loop'[p] = "stopped" \/ loop[p] \in Busy
    BY <1>6 DEF Loop, CommitReturns, ReadError, ReadEOF, Reject, StartWrite, Write,
       WriteOK, WriteRetry, WriteGivesUp, WriteClosed, NextMessage, Busy, Consistent, TypeOK
  <2>6. CASE CommitReturns(p)
    BY <2>4, <2>6 DEF CommitReturns, Busy, Consistent, TypeOK
  <2>7. ASSUME NEW o \in OutPartitions, StartWrite(p, o)
        PROVE  ReaderAtCommitted'
    BY <1>1, <2>4, <2>7 DEF StartWrite, Hand, Busy, Consistent, TypeOK
  <2>8. CASE WriteRetry(p)
    BY <1>1, <2>4, <2>8 DEF WriteRetry, Hand, Busy
  <2>9. CASE ReadError(p) \/ ReadEOF(p)
    BY <2>2, <2>9 DEF ReadError, ReadEOF, Consistent, TypeOK
  <2>10. CASE Reject(p) \/ WriteOK(p) \/ WriteGivesUp(p) \/ WriteClosed(p)
    BY <2>3, <2>10 DEF Reject, WriteOK, WriteGivesUp, WriteClosed, NextMessage, Busy,
       Consistent, TypeOK
  <2>11. QED
    BY <1>6, <2>1, <2>6, <2>7, <2>8, <2>9, <2>10 DEF Loop, Write
<1>7. UNCHANGED <<committed, loop, hand, position>>
      \/ \E p \in Producers : Start(p) \/ Join(p) \/ Die(p) \/ Loop(p)
  BY DEF Next, Environment, Debezium, Rebalance, CloseReader, Crash, Close, CloseWriter,
     CloseReturns, Exit, vars, groupVars, processVars
<1>8. QED
  BY <1>1, <1>2, <1>3, <1>4, <1>5, <1>6, <1>7

LEMMA InOrderNext ==
  ASSUME Consistent, [Next]_vars, ReaderAtCommitted, WrittenIsCommitted, OneProducerInOrder,
         \A p, r \in Producers : p = r
  PROVE  WrittenIsCommitted' /\ OneProducerInOrder'
<1>1. Consistent'
  BY ConsistentNext
<1>2. /\ committed \in [InPartitions -> Nat] /\ committed' \in [InPartitions -> Nat]
      /\ \A q \in InPartitions : committed'[q] >= committed[q]
  BY <1>1, ReaderAtCommittedNext DEF Consistent, TypeOK
<1>3. ASSUME NEW o \in OutPartitions
      PROVE  /\ output[o] \in Seq(OutputEvent) /\ output'[o] \in Seq(OutputEvent)
             /\ Len(output[o]) <= Len(output'[o])
             /\ \A i \in DOMAIN output[o] : output'[o][i] = output[o][i]
  <2>1. output[o] \in Seq(OutputEvent) /\ output'[o] \in Seq(OutputEvent)
    BY <1>1 DEF Consistent, TypeOK
  <2>2. /\ Len(output[o]) <= Len(output'[o])
        /\ \A i \in 1 .. Len(output[o]) : output'[o][i] = output[o][i]
    BY OnlyGrows
  <2>3. QED
    BY <2>1, <2>2
\* What a step adds comes from the message that was committed last.
<1>4. ASSUME NEW o \in OutPartitions, NEW i \in DOMAIN output'[o],
             ~(i \in DOMAIN output[o] /\ output'[o][i] = output[o][i])
      PROVE  output'[o][i].off = committed[output'[o][i].part] - 1
  <2>1. PICK p \in Producers : loop[p] = "writing" /\ output'[o][i] = OutEvent(p)
    BY <1>4, OutputStep
  <2>2. output'[o][i].part = hand[p].part /\ output'[o][i].off = hand[p].off
    BY <2>1 DEF OutEvent
  <2>3. QED
    BY <2>1, <2>2 DEF ReaderAtCommitted, Busy
<1>5. ASSUME NEW o \in OutPartitions, NEW i \in DOMAIN output'[o]
      PROVE  output'[o][i].off < committed[output'[o][i].part]
  <2>1. output'[o][i] \in OutputEvent
    BY <1>3
  <2>2. output'[o][i].off \in Nat /\ committed[output'[o][i].part] \in Nat
    BY <1>2, <2>1 DEF OutputEvent
  <2>3. QED
    BY <1>4, <2>2 DEF WrittenIsCommitted
<1>6. WrittenIsCommitted'
  <2> SUFFICES ASSUME NEW o \in OutPartitions, NEW i \in DOMAIN output'[o]
               PROVE  output'[o][i].off < committed'[output'[o][i].part]
    BY DEF WrittenIsCommitted
  <2>1. output'[o][i].off \in Nat /\ output'[o][i].part \in InPartitions
    <3>1. output'[o][i] \in OutputEvent
      BY <1>3
    <3>2. QED
      BY <3>1 DEF OutputEvent
  <2>2. QED
    BY <1>2, <1>5, <2>1
<1>7. ASSUME NEW o \in OutPartitions, NEW i \in DOMAIN output'[o], NEW j \in DOMAIN output'[o],
             i < j, output'[o][i].part = output'[o][j].part
      PROVE  output'[o][i].off <= output'[o][j].off
  <2>1. /\ output'[o][i].off \in Nat /\ output'[o][j].off \in Nat
        /\ committed[output'[o][i].part] \in Nat
    <3>1. output'[o][i] \in OutputEvent /\ output'[o][j] \in OutputEvent
      BY <1>3
    <3>2. QED
      BY <1>2, <3>1 DEF OutputEvent
  <2>2. CASE j \in DOMAIN output[o]
    <3>1. i \in DOMAIN output[o]
      BY <1>3, <1>7, <2>2
    <3>2. QED
      BY <1>3, <1>7, <2>2, <3>1 DEF OneProducerInOrder
  <2>3. CASE j \notin DOMAIN output[o]
    BY <1>4, <1>5, <1>7, <2>1, <2>3
  <2>4. QED
    BY <2>2, <2>3
<1>8. QED
  BY <1>6, <1>7 DEF OneProducerInOrder

\* With only one process the output never goes back in time, however many
\* partitions, restarts, rebalances and retries there are.
THEOREM OneProducerKeepsOrder ==
  ASSUME \A p, r \in Producers : p = r
  PROVE  Spec => []OneProducerInOrder
<1> DEFINE Inv == ReaderAtCommitted /\ WrittenIsCommitted /\ OneProducerInOrder
<1>1. Init => Inv
  BY DEF Init, NoPosition, ReaderAtCommitted, WrittenIsCommitted, OneProducerInOrder, Busy
<1>2. Consistent /\ Inv /\ [Next]_vars => Inv'
  BY ReaderAtCommittedNext, InOrderNext
<1>3. QED
  BY <1>1, <1>2, InitConsistent, ConsistentNext, PTL DEF Spec
----------------------------------------------------------------------------
(* The copies of an event when there is only one process.                  *)

One(b) == IF b THEN 1 ELSE 0

\* What the process p can still do that would publish the message: write it,
\* find it in the queue of its reader, or be given it by the group.
MayWrite(p, q, off) ==
  /\ MessageId(p) = <<q, off>>
  /\ \/ loop[p] \in Busy
     \/ main[p] = "running" /\ loop[p] = "fetched"

InQueue(p, q, off) == main[p] = "running" /\ position[p][q] \in 0 .. off

NotTaken(p, q, off) ==
  /\ committed[q] <= off
  /\ (main[p] = "running" /\ joined[p]) => position[p][q] = NotAssigned

Chances(p, q, off) ==
  One(MayWrite(p, q, off)) + One(InQueue(p, q, off)) + One(NotTaken(p, q, off))

\* Only disturbances give a message another chance of being published.
CopiesPaid ==
  \A p \in Producers, q \in InPartitions, off \in Nat :
    /\ IsFiniteSet(Copies(q, off))
    /\ Cardinality(Copies(q, off)) + Chances(p, q, off) <= 1 + faults

\* The rebalance that follows a start, a stop or a crash, the only one that isn't
\* a disturbance, finds the reader without partitions.
NewMemberHasNothing ==
  \A p \in Producers, q \in InPartitions :
    /\ main[p] = "down" => position[p][q] = NotAssigned
    /\ (main[p] # "running" \/ rebalance) => owner[q] # p
    /\ (main[p] = "running" /\ rebalance) => position[p][q] = NotAssigned

LEMMA NewMemberHasNothingNext ==
  ASSUME Consistent, [Next]_vars, NewMemberHasNothing, NEW p, Producers = {p}
  PROVE  NewMemberHasNothing'
<1> SUFFICES ASSUME NEW q \in InPartitions
             PROVE  /\ main'[p] = "down" => position'[p][q] = NotAssigned
                    /\ (main'[p] # "running" \/ rebalance') => owner'[q] # p
                    /\ (main'[p] = "running" /\ rebalance') => position'[p][q] = NotAssigned
  BY DEF NewMemberHasNothing
<1>1. /\ p \in Producers /\ p # None
      /\ main \in [{p} -> {"down", "running", "closing", "flushing", "closed", "abandoned"}]
      /\ position \in [{p} -> [InPartitions -> Nat \cup {NotAssigned}]]
  BY ProducerAssumption DEF Consistent, TypeOK
<1>2. /\ main[p] = "down" => position[p][q] = NotAssigned
      /\ (main[p] # "running" \/ rebalance) => owner[q] # p
      /\ (main[p] = "running" /\ rebalance) => position[p][q] = NotAssigned
  BY <1>1 DEF NewMemberHasNothing
<1>3. CASE UNCHANGED <<main, position, rebalance, owner>>
  BY <1>2, <1>3
<1>4. CASE Rebalance
  BY <1>1, <1>2, <1>4 DEF Rebalance, Members
<1>5. CASE Start(p)
  BY <1>1, <1>2, <1>5 DEF Start
<1>6. CASE Join(p)
  BY <1>1, <1>2, <1>6 DEF Join, groupVars
<1>7. CASE CloseReader(p) \/ Crash(p)
  BY <1>1, <1>2, <1>7 DEF CloseReader, Crash, Die, Leave, NoPosition
<1>8. CASE CloseWriter(p) \/ CloseReturns(p) \/ Exit(p)
  BY <1>1, <1>2, <1>8 DEF CloseWriter, CloseReturns, Exit, Die, NoPosition, groupVars
<1>9. CASE Loop(p)
  <2>1. ASSUME NEW t \in InPartitions, Fetch(p, t)
        PROVE  /\ UNCHANGED <<main, rebalance, owner>>
               /\ position[p][q] = NotAssigned => position'[p][q] = NotAssigned
    BY <1>1, <2>1 DEF Fetch, groupVars
  <2>2. \/ UNCHANGED <<main, rebalance, owner, position>>
        \/ \E t \in InPartitions : Fetch(p, t)
    BY <1>9 DEF Loop, Commit, CommitReturns, ReadError, ReadEOF, Reject, StartWrite, Write,
       WriteOK, WriteRetry, WriteGivesUp, WriteClosed, NextMessage, groupVars
  <2>3. QED
    BY <1>2, <2>1, <2>2
<1>10. QED
  BY <1>1, <1>3, <1>4, <1>5, <1>6, <1>7, <1>8, <1>9
     DEF Next, Environment, Debezium, Close, vars, groupVars, processVars

\* An event that is published is a copy of one message only.
LEMMA CopiesStep ==
  ASSUME Consistent, NEW p \in Producers, loop[p] = "writing", Publish(p),
         NEW q \in InPartitions, NEW off \in Nat, IsFiniteSet(Copies(q, off))
  PROVE  /\ IsFiniteSet(Copies(q, off)')
         /\ Cardinality(Copies(q, off)') <=
              Cardinality(Copies(q, off)) + One(MessageId(p) = <<q, off>>)
<1> DEFINE out == hand[p].out
           new == <<out, Len(output[out]) + 1>>
<1>1. out \in OutPartitions /\ output \in [OutPartitions -> Seq(OutputEvent)]
  BY DEF Consistent, TypeOK
<1>2. ASSUME NEW o \in OutPartitions
      PROVE  /\ output[o] \in Seq(OutputEvent)
             /\ output'[o] = IF o = out THEN Append(output[o], OutEvent(p)) ELSE output[o]
  BY <1>1 DEF Publish
<1> HIDE DEF out
<1>3. ASSUME NEW c \in Copies(q, off)'
      PROVE  c \in Copies(q, off) \/ (c = new /\ MessageId(p) = <<q, off>>)
  <2>0. PICK o \in OutPartitions : \E i \in DOMAIN output'[o] :
          c = <<o, i>> /\ output'[o][i].part = q /\ output'[o][i].off = off
    BY <1>3 DEF Copies
  <2>1. PICK i \in DOMAIN output'[o] :
          c = <<o, i>> /\ output'[o][i].part = q /\ output'[o][i].off = off
    BY <2>0
  <2>2. ASSUME i \in DOMAIN output[o], output'[o][i] = output[o][i]
        PROVE  c \in Copies(q, off)
    BY <2>1, <2>2 DEF Copies
  <2>3. CASE o # out
    BY <1>2, <2>1, <2>2, <2>3
  <2>4. CASE o = out
    <3>1. output[o] \in Seq(OutputEvent) /\ output'[o] = Append(output[o], OutEvent(p))
      BY <1>2, <2>4
    <3>2. \/ i \in DOMAIN output[o] /\ output'[o][i] = output[o][i]
          \/ i = Len(output[o]) + 1 /\ output'[o][i] = OutEvent(p)
      <4> HIDE DEF OutEvent
      <4>1. i \in 1 .. (Len(output[o]) + 1)
        BY <2>1, <3>1
      <4>2. QED
        BY <3>1, <4>1
    <3>3. CASE i = Len(output[o]) + 1 /\ output'[o][i] = OutEvent(p)
      BY <2>1, <2>4, <3>3 DEF OutEvent, MessageId
    <3>4. QED
      BY <2>2, <3>2, <3>3
  <2>5. QED
    BY <2>3, <2>4
<1>4. CASE MessageId(p) = <<q, off>>
  <2>1. Copies(q, off)' \subseteq Copies(q, off) \cup {new}
    BY <1>3
  <2>2. /\ IsFiniteSet(Copies(q, off) \cup {new})
        /\ Cardinality(Copies(q, off) \cup {new}) <= Cardinality(Copies(q, off)) + 1
        /\ Cardinality(Copies(q, off)) \in Nat
    <3>1. Cardinality(Copies(q, off)) \in Nat
      BY FS_CardinalityType
    <3> HIDE DEF new
    <3>2. /\ IsFiniteSet(Copies(q, off) \cup {new})
          /\ Cardinality(Copies(q, off) \cup {new}) =
               IF new \in Copies(q, off) THEN Cardinality(Copies(q, off))
               ELSE Cardinality(Copies(q, off)) + 1
      BY FS_AddElement
    <3>3. QED
      BY <3>1, <3>2
  <2>3. /\ IsFiniteSet(Copies(q, off)')
        /\ Cardinality(Copies(q, off)') <= Cardinality(Copies(q, off) \cup {new})
    BY <2>1, <2>2, FS_Subset
  <2>4. /\ Cardinality(Copies(q, off)') \in Nat
        /\ Cardinality(Copies(q, off) \cup {new}) \in Nat
    BY <2>2, <2>3, FS_CardinalityType
  <2>5. QED
    BY <1>4, <2>2, <2>3, <2>4 DEF One
<1>5. CASE MessageId(p) # <<q, off>>
  <2>1. Copies(q, off)' \subseteq Copies(q, off)
    BY <1>3, <1>5
  <2>2. /\ IsFiniteSet(Copies(q, off)')
        /\ Cardinality(Copies(q, off)') <= Cardinality(Copies(q, off))
    BY <2>1, FS_Subset
  <2>3. Cardinality(Copies(q, off)') \in Nat /\ Cardinality(Copies(q, off)) \in Nat
    BY <2>2, FS_CardinalityType
  <2>4. QED
    BY <1>5, <2>2, <2>3 DEF One
<1>6. QED
  BY <1>4, <1>5

\* A step that isn't a disturbance gives no chance that wasn't there, and the one
\* that publishes an event takes one away.
LEMMA ChancesNext ==
  ASSUME Consistent, [Next]_vars, NewMemberHasNothing, ReaderAtCommitted,
         NEW p, Producers = {p}, NEW q \in InPartitions, NEW off \in Nat
  PROVE  /\ faults' >= faults
         /\ \/ /\ UNCHANGED output
               /\ Chances(p, q, off)' <= Chances(p, q, off) + (faults' - faults)
            \/ /\ loop[p] = "writing" /\ Publish(p)
               /\ Chances(p, q, off)' + One(MessageId(p) = <<q, off>>)
                    <= Chances(p, q, off) + (faults' - faults)
<1> DEFINE M == MayWrite(p, q, off)
           Q == InQueue(p, q, off)
           N == NotTaken(p, q, off)
<1>1. /\ p \in Producers /\ faults \in Nat /\ faults' \in Nat
      /\ \A r, s \in Producers : r = s
      /\ main \in [{p} -> {"down", "running", "closing", "flushing", "closed", "abandoned"}]
      /\ loop \in [{p} -> {"idle", "reading", "fetched", "committed", "processing", "writing",
                           "stopped"}]
      /\ joined \in [{p} -> BOOLEAN]
      /\ position \in [{p} -> [InPartitions -> Nat \cup {NotAssigned}]]
      /\ hand \in [{p} -> Hand]
      /\ committed \in [InPartitions -> Nat]
      /\ hand[p].part = None <=> loop[p] \in {"idle", "reading", "stopped"}
      /\ main[p] = "down" <=> loop[p] = "idle"
  <2>1. Consistent'
    BY ConsistentNext
  <2>2. QED
    BY <2>1 DEF Consistent, TypeOK
\* The cost of a step that doesn't publish.
<1>2. ASSUME UNCHANGED output, M' => M, Q' => Q, N' => N, faults' >= faults
      PROVE  /\ UNCHANGED output
             /\ Chances(p, q, off)' <= Chances(p, q, off) + (faults' - faults)
  <2> HIDE DEF M, Q, N
  <2>1. One(M)' <= One(M) /\ One(Q)' <= One(Q) /\ One(N)' <= One(N)
    BY <1>2 DEF One
  <2>2. /\ One(M) \in Int /\ One(Q) \in Int /\ One(N) \in Int
        /\ One(M)' \in Int /\ One(Q)' \in Int /\ One(N)' \in Int
    BY DEF One
  <2>3. One(M)' + One(Q)' + One(N)' <= One(M) + One(Q) + One(N) + (faults' - faults)
    BY <1>1, <1>2, <2>1, <2>2
  <2>4. QED
    BY <1>2, <2>3 DEF M, Q, N, Chances
\* The cost of a disturbance that doesn't publish.
<1>3. ASSUME UNCHANGED output, M' => M, Q' => Q, faults' = faults + 1
      PROVE  /\ UNCHANGED output
             /\ Chances(p, q, off)' <= Chances(p, q, off) + (faults' - faults)
  <2> HIDE DEF M, Q, N
  <2>1. One(M)' <= One(M) /\ One(Q)' <= One(Q) /\ One(N)' <= One(N) + 1
    BY <1>3 DEF One
  <2>2. /\ One(M) \in Int /\ One(Q) \in Int /\ One(N) \in Int
        /\ One(M)' \in Int /\ One(Q)' \in Int /\ One(N)' \in Int
    BY DEF One
  <2>3. One(M)' + One(Q)' + One(N)' <= One(M) + One(Q) + One(N) + (faults' - faults)
    BY <1>1, <1>3, <2>1, <2>2
  <2>4. QED
    BY <1>3, <2>3 DEF M, Q, N, Chances
<1>4. CASE UNCHANGED <<output, main, loop, joined, position, hand, committed, faults>>
  <2>1. /\ main' = main /\ loop' = loop /\ joined' = joined /\ position' = position
        /\ hand' = hand /\ committed' = committed /\ faults' = faults
    BY <1>4
  <2>2. (M' => M) /\ (Q' => Q) /\ (N' => N)
    BY <2>1 DEF MayWrite, InQueue, NotTaken, MessageId
  <2>3. QED
    BY <1>1, <1>2, <1>4, <2>1, <2>2
<1>5. CASE Rebalance
  <2>1. UNCHANGED <<output, main, loop, position, hand, committed>> /\ joined'[p] = FALSE
    BY <1>1, <1>5 DEF Rebalance
  <2>2. (M' => M) /\ (Q' => Q)
    BY <2>1 DEF MayWrite, InQueue, MessageId
  <2>3. CASE rebalance /\ UNCHANGED faults
    <3>1. main[p] = "running" => position[p][q] = NotAssigned
      BY <1>1, <2>3 DEF NewMemberHasNothing
    <3>2. N' => N
      BY <2>1, <3>1 DEF NotTaken
    <3>3. QED
      BY <1>1, <1>2, <2>1, <2>2, <2>3, <3>2
  <2>4. CASE Fault
    BY <1>1, <1>3, <2>1, <2>2, <2>4 DEF Fault
  <2>5. QED
    BY <1>5, <2>3, <2>4 DEF Rebalance
<1>6. CASE CloseReader(p) \/ Crash(p)
  <2>1. UNCHANGED output /\ faults' = faults + 1 /\ main'[p] # "running"
    BY <1>1, <1>6 DEF CloseReader, Crash, Die, Fault
  <2>2. loop'[p] \in Busy => loop[p] \in Busy /\ hand'[p] = hand[p]
    BY <1>1, <1>6 DEF CloseReader, Crash, Die, Busy
  <2>3. (M' => M) /\ (Q' => Q)
    BY <2>1, <2>2 DEF MayWrite, InQueue, MessageId
  <2>4. QED
    BY <1>1, <1>3, <2>1, <2>3
<1>7. CASE CloseWriter(p) \/ CloseReturns(p) \/ Exit(p)
  <2>1. /\ UNCHANGED <<output, committed, faults>>
        /\ main[p] # "running" /\ main'[p] # "running"
    BY <1>1, <1>7 DEF CloseWriter, CloseReturns, Exit, Die, groupVars, lossVars
  <2>2. loop'[p] \in Busy => loop[p] \in Busy /\ hand'[p] = hand[p]
    BY <1>1, <1>7 DEF CloseWriter, CloseReturns, Exit, Die, Busy
  <2>3. (M' => M) /\ (Q' => Q) /\ (N' => N)
    BY <2>1, <2>2 DEF MayWrite, InQueue, NotTaken, MessageId
  <2>4. QED
    BY <1>1, <1>2, <2>1, <2>3
<1>8. CASE Start(p)
  <2>1. /\ UNCHANGED <<output, committed, faults, position>>
        /\ main[p] = "down" /\ loop'[p] = "reading" /\ position[p][q] = NotAssigned
    BY <1>1, <1>8 DEF Start, lossVars, NewMemberHasNothing
  <2>2. ~M' /\ ~Q' /\ (N' => N)
    BY <2>1 DEF MayWrite, InQueue, NotTaken, Busy, NotAssigned
  <2>3. QED
    BY <1>1, <1>2, <2>1, <2>2
<1>9. CASE Join(p)
  <2>1. /\ UNCHANGED <<output, main, loop, hand, committed, faults>>
        /\ main[p] = "running" /\ joined[p] = FALSE /\ joined'[p] = TRUE
    BY <1>1, <1>9 DEF Join, groupVars, lossVars
  <2>2. position'[p][q] \in {committed[q], NotAssigned}
    BY <1>1, <1>9 DEF Join
  <2>3. /\ M' => M
        /\ Q' => N
        /\ N' => N
        /\ ~(Q' /\ N')
    BY <1>1, <2>1, <2>2 DEF MayWrite, InQueue, NotTaken, MessageId, NotAssigned
  <2> HIDE DEF M, Q, N
  <2>4. One(M)' <= One(M) /\ One(Q)' + One(N)' <= One(N) /\ One(Q) >= 0
    BY <2>3 DEF One
  <2>5. /\ One(M) \in Int /\ One(Q) \in Int /\ One(N) \in Int
        /\ One(M)' \in Int /\ One(Q)' \in Int /\ One(N)' \in Int
    BY DEF One
  <2>6. One(M)' + One(Q)' + One(N)' <= One(M) + One(Q) + One(N) + (faults' - faults)
    BY <1>1, <2>1, <2>4, <2>5
  <2>7. faults' >= faults
    BY <1>1, <2>1
  <2>8. QED
    BY <2>1, <2>6, <2>7 DEF M, Q, N, Chances
<1>10. ASSUME NEW t \in InPartitions, Fetch(p, t)
       PROVE  /\ UNCHANGED output
              /\ Chances(p, q, off)' <= Chances(p, q, off) + (faults' - faults)
  <2>1. /\ UNCHANGED <<output, main, joined, committed, faults>>
        /\ loop[p] = "reading" /\ loop'[p] = "fetched"
        /\ hand'[p].part = t /\ hand'[p].off = position[p][t]
    BY <1>1, <1>10 DEF Fetch, groupVars, lossVars, Nothing
  <2>2. /\ position[p][t] \in Nat
        /\ position'[p][q] = IF q = t THEN position[p][t] + 1 ELSE position[p][q]
    BY <1>1, <1>10 DEF Fetch
  <2>3. /\ ~M
        /\ M' => Q /\ ~Q'
        /\ Q' => Q
        /\ N' => N
    <3>1. ~M
      BY <2>1 DEF MayWrite, Busy
    <3>2. CASE q = t
      <4>1. M' => main[p] = "running" /\ position[p][q] = off
        BY <2>1, <3>2 DEF MayWrite, MessageId, Busy
      <4>2. (M' => Q /\ ~Q') /\ (Q' => Q)
        BY <2>1, <2>2, <3>2, <4>1 DEF InQueue
      <4>3. N' => N
        BY <2>1, <2>2, <3>2 DEF NotTaken, NotAssigned
      <4>4. QED
        BY <3>1, <4>2, <4>3
    <3>3. CASE q # t
      BY <2>1, <2>2, <3>1, <3>3 DEF MayWrite, MessageId, InQueue, NotTaken
    <3>4. QED
      BY <3>2, <3>3
  <2> HIDE DEF M, Q, N
  <2>4. One(M)' + One(Q)' <= One(M) + One(Q) /\ One(N)' <= One(N)
    BY <2>3 DEF One
  <2>5. /\ One(M) \in Int /\ One(Q) \in Int /\ One(N) \in Int
        /\ One(M)' \in Int /\ One(Q)' \in Int /\ One(N)' \in Int
    BY DEF One
  <2>6. One(M)' + One(Q)' + One(N)' <= One(M) + One(Q) + One(N) + (faults' - faults)
    BY <1>1, <2>1, <2>4, <2>5
  <2>7. QED
    BY <2>1, <2>6 DEF M, Q, N, Chances
<1>11. CASE Commit(p)
  <2>1. /\ UNCHANGED <<output, main, joined, position, hand, faults>>
        /\ loop[p] = "fetched" /\ main[p] = "running"
    BY <1>11 DEF Commit, lossVars
  <2>2. committed'[q] >= committed[q] /\ committed[q] \in Nat /\ committed'[q] \in Nat
    <3>1. committed' \in [InPartitions -> Nat]
      BY ConsistentNext DEF Consistent, TypeOK
    <3>2. QED
      BY <1>1, <3>1, ReaderAtCommittedNext
  <2>3. (M' => M) /\ (Q' => Q) /\ (N' => N)
    BY <2>1, <2>2 DEF MayWrite, InQueue, NotTaken, MessageId
  <2>4. QED
    BY <1>1, <1>2, <2>1, <2>3
<1>12. ASSUME Loop(p), ~Commit(p), ~\E t \in InPartitions : Fetch(p, t)
       PROVE  UNCHANGED <<main, joined, committed, position>>
  BY <1>12 DEF Loop, CommitReturns, ReadError, ReadEOF, Reject, StartWrite, Write,
     WriteOK, WriteRetry, WriteGivesUp, WriteClosed, NextMessage, groupVars
\* The rest of what the loop does without writing.
<1>13. ASSUME Loop(p), ~Commit(p), ~\E t \in InPartitions : Fetch(p, t), UNCHANGED output
       PROVE  Chances(p, q, off)' <= Chances(p, q, off) + (faults' - faults) /\ faults' >= faults
  <2>1. main' = main /\ joined' = joined /\ committed' = committed /\ position' = position
    BY <1>12, <1>13
  <2>2. faults' >= faults
    <3>1. UNCHANGED faults \/ Fault
      BY <1>13 DEF Loop, CommitReturns, ReadError, ReadEOF, Reject, StartWrite, Write,
         WriteOK, WriteRetry, WriteGivesUp, WriteClosed, NextMessage, lossVars
    <3>2. QED
      BY <1>1, <3>1 DEF Fault
  <2>3. /\ loop'[p] # "fetched"
        /\ loop'[p] \in Busy =>
             loop[p] \in Busy /\ hand'[p].part = hand[p].part /\ hand'[p].off = hand[p].off
    <3>1. CASE CommitReturns(p) \/ ReadError(p) \/ ReadEOF(p)
      BY <1>1, <3>1 DEF CommitReturns, ReadError, ReadEOF, Busy
    <3>2. CASE Reject(p) \/ WriteOK(p) \/ WriteGivesUp(p) \/ WriteClosed(p)
      BY <1>1, <3>2 DEF Reject, WriteOK, WriteGivesUp, WriteClosed, NextMessage, Busy
    <3>3. CASE WriteRetry(p) \/ \E o \in OutPartitions : StartWrite(p, o)
      BY <1>1, <3>3 DEF WriteRetry, StartWrite, Busy, Hand
    <3>4. QED
      BY <1>13, <3>1, <3>2, <3>3 DEF Loop, Write
  <2>4. (M' => M) /\ (Q' => Q) /\ (N' => N)
    BY <2>1, <2>3 DEF MayWrite, InQueue, NotTaken, MessageId
  <2>5. QED
    BY <1>2, <1>13, <2>2, <2>4
<1>14. ASSUME Publish(p), WriteOK(p) \/ WriteRetry(p) \/ WriteGivesUp(p)
       PROVE  /\ faults' >= faults /\ loop[p] = "writing"
              /\ Chances(p, q, off)' + One(MessageId(p) = <<q, off>>)
                    <= Chances(p, q, off) + (faults' - faults)
  <2>1. main' = main /\ joined' = joined /\ committed' = committed /\ position' = position
        /\ loop[p] = "writing"
    BY <1>14 DEF WriteOK, WriteRetry, WriteGivesUp, NextMessage, groupVars
  <2>2. /\ M <=> MessageId(p) = <<q, off>>
        /\ Q' => Q
        /\ N' => N
    BY <2>1 DEF MayWrite, InQueue, NotTaken, Busy
  <2>3. \/ faults' = faults + 1
        \/ faults' = faults /\ ~M'
    BY <1>1, <1>14 DEF WriteOK, WriteRetry, WriteGivesUp, NextMessage, Fault, MayWrite, Busy
  <2> HIDE DEF M, Q, N
  <2>4. /\ One(MessageId(p) = <<q, off>>) = One(M)
        /\ One(Q)' <= One(Q) /\ One(N)' <= One(N)
        /\ One(M)' + One(M) <= One(M) + (faults' - faults)
    <3>1. One(MessageId(p) = <<q, off>>) = One(M)
      BY <2>2 DEF One
    <3>2. One(Q)' <= One(Q) /\ One(N)' <= One(N)
      BY <2>2 DEF One
    <3>3. One(M)' + One(M) <= One(M) + (faults' - faults)
      <4>1. One(M) \in Int /\ One(M)' \in {0, 1} /\ (~M' => One(M)' = 0)
        BY DEF One
      <4>2. QED
        BY <1>1, <2>3, <4>1
    <3>4. QED
      BY <3>1, <3>2, <3>3
  <2>5. /\ One(M) \in Int /\ One(Q) \in Int /\ One(N) \in Int
        /\ One(M)' \in Int /\ One(Q)' \in Int /\ One(N)' \in Int
    BY DEF One
  <2>6. One(M)' + One(Q)' + One(N)' + One(MessageId(p) = <<q, off>>)
          <= One(M) + One(Q) + One(N) + (faults' - faults)
    BY <1>1, <2>4, <2>5
  <2>7. faults' >= faults
    BY <1>1, <2>3
  <2>8. QED
    BY <2>1, <2>6, <2>7 DEF M, Q, N, Chances
<1>15. CASE Loop(p)
  <2>1. ASSUME ~Commit(p), ~\E t \in InPartitions : Fetch(p, t)
        PROVE  \/ UNCHANGED output
               \/ Publish(p) /\ (WriteOK(p) \/ WriteRetry(p) \/ WriteGivesUp(p))
    BY <1>15, <2>1 DEF Loop, CommitReturns, ReadError, ReadEOF, Reject, StartWrite, Write,
       WriteOK, WriteRetry, WriteGivesUp, WriteClosed
  <2>2. ASSUME Commit(p) \/ \E t \in InPartitions : Fetch(p, t)
        PROVE  UNCHANGED faults
    BY <2>2 DEF Commit, Fetch, lossVars
  <2>3. QED
    BY <1>1, <1>10, <1>11, <1>13, <1>14, <1>15, <2>1, <2>2
<1>16. UNCHANGED faults \/ faults' >= faults
  BY <1>1, <1>15 DEF Next, Environment, Debezium, Rebalance, CloseReader, Crash, Close, Die,
     CloseWriter, CloseReturns, Exit, Start, Join, Fault, vars, lossVars
<1>17. QED
  <2>1. faults' >= faults
    BY <1>1, <1>16
  <2>2. CASE UNCHANGED vars \/ \E t \in InPartitions, n \in Inputs : Debezium(t, n)
    BY <1>4, <2>1, <2>2 DEF Debezium, vars, groupVars, processVars, lossVars
  <2>3. QED
    BY <1>1, <1>5, <1>6, <1>7, <1>8, <1>9, <1>15, <2>1, <2>2 DEF Next, Environment, Close

LEMMA CopiesPaidNext ==
  ASSUME Consistent, [Next]_vars, NewMemberHasNothing, ReaderAtCommitted, CopiesPaid,
         NEW p, Producers = {p}
  PROVE  CopiesPaid'
<1> SUFFICES ASSUME NEW q \in InPartitions, NEW off \in Nat
             PROVE  /\ IsFiniteSet(Copies(q, off)')
                    /\ Cardinality(Copies(q, off)') + Chances(p, q, off)' <= 1 + faults'
  BY DEF CopiesPaid
<1>1. /\ p \in Producers /\ faults \in Nat /\ faults' \in Nat
  BY ConsistentNext DEF Consistent, TypeOK
<1>2. /\ IsFiniteSet(Copies(q, off))
      /\ Cardinality(Copies(q, off)) + Chances(p, q, off) <= 1 + faults
  BY <1>1 DEF CopiesPaid
<1>3. /\ Cardinality(Copies(q, off)) \in Nat
      /\ Chances(p, q, off) \in Int /\ Chances(p, q, off)' \in Int
      /\ One(MessageId(p) = <<q, off>>) \in Int
  <2>1. Cardinality(Copies(q, off)) \in Nat
    BY <1>2, FS_CardinalityType
  <2>2. Chances(p, q, off) \in Int /\ Chances(p, q, off)' \in Int
    BY DEF Chances, One
  <2>3. One(MessageId(p) = <<q, off>>) \in Int
    BY DEF One
  <2>4. QED
    BY <2>1, <2>2, <2>3
<1>4. CASE /\ UNCHANGED output
           /\ Chances(p, q, off)' <= Chances(p, q, off) + (faults' - faults)
  <2>1. Copies(q, off)' = Copies(q, off)
    BY <1>4 DEF Copies
  <2>2. QED
    BY <1>1, <1>2, <1>3, <1>4, <2>1
<1>5. CASE /\ loop[p] = "writing" /\ Publish(p)
           /\ Chances(p, q, off)' + One(MessageId(p) = <<q, off>>)
                <= Chances(p, q, off) + (faults' - faults)
  <2>1. /\ IsFiniteSet(Copies(q, off)')
        /\ Cardinality(Copies(q, off)') <=
             Cardinality(Copies(q, off)) + One(MessageId(p) = <<q, off>>)
    BY <1>1, <1>2, <1>5, CopiesStep
  <2>2. Cardinality(Copies(q, off)') \in Nat
    BY <2>1, FS_CardinalityType
  <2>3. QED
    BY <1>1, <1>2, <1>3, <1>5, <2>1, <2>2
<1>6. QED
  BY <1>4, <1>5, ChancesNext

LEMMA InitCopies == Init => NewMemberHasNothing /\ CopiesPaid
<1> SUFFICES ASSUME Init PROVE NewMemberHasNothing /\ CopiesPaid
  OBVIOUS
<1>1. NewMemberHasNothing
  BY ProducerAssumption DEF Init, NewMemberHasNothing, NoPosition
<1>2. ASSUME NEW p \in Producers, NEW q \in InPartitions, NEW off \in Nat
      PROVE  /\ IsFiniteSet(Copies(q, off))
             /\ Cardinality(Copies(q, off)) + Chances(p, q, off) <= 1 + faults
  <2>1. \A o \in OutPartitions : output[o] = <<>>
    BY <1>2 DEF Init
  <2>2. Copies(q, off) = {}
    BY <2>1 DEF Copies
  <2>3. IsFiniteSet(Copies(q, off)) /\ Cardinality(Copies(q, off)) = 0
    BY <2>2, FS_EmptySet
  <2>4. ~MayWrite(p, q, off) /\ ~InQueue(p, q, off) /\ faults = 0
    BY DEF Init, MayWrite, InQueue, Busy
  <2>5. Chances(p, q, off) <= 1 /\ Chances(p, q, off) \in Int
    BY <2>4 DEF Chances, One
  <2>6. QED
    BY <2>3, <2>4, <2>5
<1>3. QED
  BY <1>1, <1>2 DEF CopiesPaid

LEMMA CopiesInvariant ==
  ASSUME NEW p, Producers = {p}
  PROVE  Spec => [](Consistent /\ CopiesPaid)
<1> DEFINE Inv == ReaderAtCommitted /\ NewMemberHasNothing /\ CopiesPaid
<1>1. Init => Inv
  <2>1. Init => ReaderAtCommitted
    BY DEF Init, NoPosition, ReaderAtCommitted, Busy
  <2>2. QED
    BY <2>1, InitCopies
<1>2. Consistent /\ Inv /\ [Next]_vars => Inv'
  BY ReaderAtCommittedNext, NewMemberHasNothingNext, CopiesPaidNext
<1>3. QED
  BY <1>1, <1>2, InitConsistent, ConsistentNext, PTL DEF Spec

\* What a message has been given is never more than what has been paid for.
LEMMA CopiesBounded ==
  ASSUME Consistent, CopiesPaid, NEW p, Producers = {p},
         NEW q \in InPartitions, NEW off \in Nat
  PROVE  /\ IsFiniteSet(Copies(q, off)) /\ Cardinality(Copies(q, off)) \in Nat
         /\ Cardinality(Copies(q, off)) <= 1 + faults
<1>1. faults \in Nat
  BY DEF Consistent, TypeOK
<1>2. /\ IsFiniteSet(Copies(q, off))
      /\ Cardinality(Copies(q, off)) + Chances(p, q, off) <= 1 + faults
  BY DEF CopiesPaid
<1>3. Cardinality(Copies(q, off)) \in Nat
  BY <1>2, FS_CardinalityType
<1>4. Chances(p, q, off) >= 0 /\ Chances(p, q, off) \in Int
  BY DEF Chances, One
<1>5. QED
  BY <1>1, <1>2, <1>3, <1>4

\* With only one process every repetition of an event has its disturbance, however
\* many messages, partitions, restarts and rebalances there are.
THEOREM OneProducerPaysForCopies ==
  ASSUME NEW p, Producers = {p}
  PROVE  Spec => []OneProducerCopies
<1>1. Consistent /\ CopiesPaid => OneProducerCopies
  <2> SUFFICES ASSUME Consistent, CopiesPaid, NEW q \in InPartitions,
                      NEW off \in 0 .. (Len(input[q]) - 1)
               PROVE  Cardinality(Copies(q, off)) <= 1 + faults
    BY DEF OneProducerCopies
  <2>1. off \in Nat
    OBVIOUS
  <2>2. QED
    BY <2>1, CopiesBounded
<1>2. QED
  BY <1>1, CopiesInvariant, PTL
=============================================================================

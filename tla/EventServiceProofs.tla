------------------------- MODULE EventServiceProofs -------------------------
(***************************************************************************)
(* Proofs about the event service, for any number of clients, events and   *)
(* requests, and every cipher and text encoding that can be undone.        *)
(***************************************************************************)
EXTENDS EventServiceProperties, FiniteSetTheorems, SequenceTheorems, TLAPS

\* The identifiers of the events that there may be.
Issued == {EncodeOffset(off) : off \in 0 .. (MaxEvents - 1)}

\* A stronger type, that of the topic first.
TopicShape ==
  /\ topic \in Seq(Events)
  /\ Len(topic) <= MaxEvents
  /\ first \in 0 .. Len(topic)

\* Offsets are those of the topic, and only a message with a subject is reviewed.
ClientShape(c) ==
  /\ \A i \in DOMAIN received[c] : Offsets(c)[i] < Len(topic)
  /\ request[c].state = "opened" => request[c].from \in Garbage \cup {""} \cup Issued
  /\ request[c].position \in LastOffset .. MaxEvents
  /\ request[c].begins \in LastOffset .. MaxEvents
  /\ request[c].current \in LastOffset .. MaxEvents
  /\ request[c].state \in {"reading"} \cup Busy =>
       request[c].position >= 0 /\ request[c].begins >= 0
  /\ request[c].state \in Busy =>
       /\ request[c].current \in 0 .. (Len(topic) - 1)
       /\ request[c].position = request[c].current + 1
  /\ request[c].state \in {"reviewing", "reviewed"} => Reviewable(Current(c))

Shape ==
  /\ TopicShape
  /\ grants \subseteq Clients \X Types \X Objects
  /\ disputed \subseteq Clients \X Types \X Objects
  /\ request \in [Clients -> Request]
  /\ received \in [Clients -> Seq(Issued)]
  /\ requests \in [Clients -> Nat]
  /\ changes \in Nat
  /\ \A c \in Clients : ClientShape(c)

\* A client that has received events asks for the last one of them, or for
\* something that isn't an identifier.
Resumes(c) ==
  /\ request[c].state = "opened" =>
       request[c].from \in Garbage \cup
         IF received[c] = <<>> THEN {""} \cup Issued ELSE {received[c][Len(received[c])]}
  /\ request[c].state = "connecting" /\ received[c] # <<>> =>
       request[c].position = Offsets(c)[Len(received[c])]

----------------------------------------------------------------------------

LEMMA DecodeEncode ==
  ASSUME NEW o \in Words
  PROVE  DecodeOffset(EncodeOffset(o)) = o /\ EncodeOffset(o) \in Text
<1> DEFINE block == <<Magic, o>>
<1>1. block \in Block /\ block[1] = Magic /\ block[2] = o
  BY WordsAssumption DEF Block
<1>2. Encrypt(block) \in Block /\ Decrypt(Encrypt(block)) = block
  BY <1>1, CipherAssumption
<1>3. FromText(EncodeOffset(o)) = Encrypt(block) /\ EncodeOffset(o) \in Text
  BY <1>2, TextAssumption DEF EncodeOffset
<1>4. FromText(EncodeOffset(o)) \notin {NotBase32, WrongSize}
  BY <1>2, <1>3, TextAssumption
<1> HIDE DEF block
<1>5. QED
  BY <1>1, <1>2, <1>3, <1>4 DEF DecodeOffset

LEMMA OffsetsAreWords == \A off \in LastOffset .. MaxEvents : off \in Words
BY ServiceAssumption

LEMMA SmallOffsets ==
  /\ LastOffset \in LastOffset .. MaxEvents
  /\ \A off \in 0 .. (MaxEvents - 1) : off \in LastOffset .. MaxEvents
<1>1. MaxEvents \in Nat
  BY ServiceAssumption
<1>2. QED
  BY <1>1 DEF LastOffset

\* Identifiers lead back to the offsets of the topic.
LEMMA IssuedDecodes ==
  ASSUME NEW t \in Issued
  PROVE  /\ t \in Text
         /\ DecodeOffset(t) \in 0 .. (MaxEvents - 1)
         /\ DecodeOffset(t) # Invalid
         /\ t # ""
<1>1. PICK off \in 0 .. (MaxEvents - 1) : t = EncodeOffset(off)
  BY DEF Issued
<1>2. off \in Words
  BY <1>1, SmallOffsets, OffsetsAreWords
<1>3. QED
  BY <1>1, <1>2, DecodeEncode, WordsAssumption, ServiceAssumption

\* The request of c changes, and these are its fields.
Becomes(c, state, from, position, current, allowed, begins, permitted) ==
  /\ request' = [request EXCEPT ![c] = request'[c]]
  /\ request'[c] \in Request
  /\ request'[c].state = state /\ request'[c].from = from
  /\ request'[c].position = position /\ request'[c].current = current
  /\ request'[c].allowed = allowed
  /\ request'[c].begins = begins /\ request'[c].permitted = permitted
  /\ UNCHANGED <<topic, first, grants, disputed, changes, requests>>

Ended(c) == Becomes(c, "none", "", LastOffset, LastOffset, FALSE, LastOffset, FALSE)

\* The kinds of steps of a request, each with its effect.
SetOffsetStep(c, r) ==
  /\ r.state = "opened" /\ UNCHANGED received
  /\ \E offset \in Words :
       /\ IF r.from = "" THEN offset = LastOffset
          ELSE DecodeOffset(r.from) # Invalid /\ offset = DecodeOffset(r.from)
       /\ Becomes(c, "connecting", r.from, offset, r.current, r.allowed, r.begins, r.permitted)

ConnectStep(c, r) ==
  /\ r.state = "connecting" /\ UNCHANGED received
  /\ \E start \in Nat :
       /\ start = IF r.position = LastOffset THEN Len(topic)
                  ELSE IF r.position < first THEN first ELSE r.position
       /\ Becomes(c, "reading", r.from, start, r.current, r.allowed, start, r.permitted)

ReadingStep(c, r) ==
  /\ r.state = "reading" /\ UNCHANGED received
  /\ \/ /\ r.position < first
        /\ Becomes(c, "reading", r.from, first, r.current, r.allowed, r.begins, r.permitted)
     \/ /\ first <= r.position /\ r.position < Len(topic)
        /\ Becomes(c, "parsing", r.from, r.position + 1, r.position, r.allowed, r.begins,
                   PermittedBy(grants, c, topic[r.position + 1]))

ReviewStep(c, r) ==
  /\ UNCHANGED received
  /\ \/ /\ r.state = "parsing" /\ Reviewable(Current(c))
        /\ Becomes(c, "reviewing", r.from, r.position, r.current, r.allowed, r.begins,
                   r.permitted)
     \/ /\ r.state = "reviewing"
        /\ Becomes(c, "reviewed", r.from, r.position, r.current,
                   Subject(c, Current(c)) \in grants, r.begins, r.permitted)

\* The request is done with the message, without an error.
DoneStep(c, r) ==
  /\ Becomes(c, "reading", r.from, r.position, LastOffset, FALSE, r.begins, FALSE)
  /\ \/ r.state = "parsing" /\ ~Reviewable(Current(c)) /\ UNCHANGED received
     \/ r.state = "reviewed" /\ ~r.allowed /\ UNCHANGED received
     \/ /\ r.state = "reviewed" /\ r.allowed
        /\ received' = [received EXCEPT ![c] = Append(@, EncodeOffset(r.current))]

ServeStep(c, r) ==
  \/ Ended(c) /\ UNCHANGED received
  \/ SetOffsetStep(c, r) \/ ConnectStep(c, r) \/ ReadingStep(c, r)
  \/ ReviewStep(c, r) \/ DoneStep(c, r)

LEMMA RequestWritten ==
  ASSUME NEW c \in Clients, request \in [Clients -> Request], NEW r \in Request,
         request' = [request EXCEPT ![c] = r]
  PROVE  request'[c] = r /\ request' = [request EXCEPT ![c] = request'[c]]
OBVIOUS

LEMMA ServeEffect ==
  ASSUME Shape, NEW c \in Clients, Serve(c) \/ Disconnect(c)
  PROVE  ServeStep(c, request[c])
<1> DEFINE r == request[c]
<1>1. /\ request \in [Clients -> Request] /\ r \in Request
      /\ r.from \in Text \cup {""} /\ r.position \in Words /\ r.current \in Words
      /\ r.allowed \in BOOLEAN /\ r.begins \in Words /\ r.permitted \in BOOLEAN
  BY DEF Shape, ClientShape, Request
<1>2. LastOffset \in Words /\ (r.state = "reading" => r.position \in LastOffset .. MaxEvents)
  BY SmallOffsets, OffsetsAreWords DEF Shape, ClientShape
<1>0. /\ MaxEvents \in Nat /\ Len(topic) \in Nat /\ Len(topic) <= MaxEvents
      /\ first \in 0 .. Len(topic)
      /\ r.position \in LastOffset .. MaxEvents
  <2>1. Len(topic) \in Nat
    BY LenProperties DEF Shape, TopicShape
  <2>2. QED
    BY <2>1, ServiceAssumption DEF Shape, TopicShape, ClientShape
<1> HIDE DEF r
<1>3. CASE InvalidFrom(c) \/ CallFails(c) \/ ParseFails(c) \/ UserMissing(c)
           \/ DeliveryFails(c) \/ Disconnect(c)
  <2>1. request' = [request EXCEPT ![c] = NoRequest]
        /\ UNCHANGED <<kafkaVars, grantVars, clientVars>>
    BY <1>3 DEF InvalidFrom, CallFails, ParseFails, UserMissing, DeliveryFails, Disconnect, End
  <2>2. NoRequest \in Request
    BY <1>2 DEF NoRequest, Request
  <2>3. request'[c] = NoRequest /\ request' = [request EXCEPT ![c] = request'[c]]
    BY <1>1, <2>1, <2>2, RequestWritten
  <2>4. /\ NoRequest.state = "none" /\ NoRequest.from = "" /\ NoRequest.begins = LastOffset
        /\ NoRequest.position = LastOffset /\ NoRequest.current = LastOffset
    BY DEF NoRequest
  <2>5. NoRequest.allowed = FALSE /\ NoRequest.permitted = FALSE
    BY DEF NoRequest
  <2>6. Ended(c)
    BY <2>1, <2>2, <2>3, <2>4, <2>5 DEF Ended, Becomes, kafkaVars, grantVars, clientVars
  <2>7. QED
    BY <2>1, <2>6 DEF ServeStep, clientVars
<1>4. CASE SetOffset(c)
  <2> DEFINE offset == IF r.from = "" THEN LastOffset ELSE DecodeOffset(r.from)
             q == [r EXCEPT !.state = "connecting", !.position = offset]
  <2>1. r.state = "opened" /\ offset # Invalid /\ Step(c, q)
    BY <1>4 DEF SetOffset, r
  <2>2. offset \in Words
    <3>1. CASE r.from = ""
      BY <1>2, <3>1
    <3>2. CASE r.from # ""
      <4>1. r.from \in Text /\ FromText(r.from) \in Block
        BY <1>1, <2>1, <3>2, TextAssumption DEF DecodeOffset
      <4>2. Decrypt(FromText(r.from)) \in Block
        BY <4>1, CipherAssumption
      <4>3. QED
        BY <2>1, <3>2, <4>1, <4>2 DEF DecodeOffset, Block
    <3>3. QED
      BY <3>1, <3>2
  <2>3. (r.from # "" => DecodeOffset(r.from) # Invalid /\ offset = DecodeOffset(r.from))
        /\ (r.from = "" => offset = LastOffset)
    BY <2>1
  <2> HIDE DEF offset
  <2>4. q \in Request
    BY <1>1, <2>2 DEF Request
  <2>5. request'[c] = q /\ request' = [request EXCEPT ![c] = request'[c]]
    BY <1>1, <2>1, <2>4, RequestWritten DEF Step
  <2>6. Becomes(c, "connecting", r.from, offset, r.current, r.allowed, r.begins, r.permitted)
        /\ UNCHANGED received
    BY <1>1, <2>1, <2>4, <2>5 DEF Request, Step, Becomes, kafkaVars, grantVars, clientVars
  <2>7. SetOffsetStep(c, r)
    BY <2>1, <2>2, <2>3, <2>6 DEF SetOffsetStep
  <2>8. QED
    BY <2>7 DEF ServeStep, r
<1>5. CASE Connect(c)
  <2> DEFINE start == IF r.position = LastOffset THEN Len(topic)
                      ELSE IF r.position < first THEN first ELSE r.position
             q == [r EXCEPT !.state = "reading", !.position = start, !.begins = start]
  <2>1. start \in Nat /\ start \in LastOffset .. MaxEvents
    BY <1>0 DEF LastOffset
  <2>2. start \in Words
    BY <2>1, OffsetsAreWords
  <2>3. r.state = "connecting" /\ Step(c, q)
    BY <1>5 DEF Connect, r
  <2>4. q \in Request
    <3> HIDE DEF start
    <3>1. QED
      BY <1>1, <2>2 DEF Request
  <2>5. request'[c] = q /\ request' = [request EXCEPT ![c] = request'[c]]
    BY <1>1, <2>3, <2>4, RequestWritten DEF Step
  <2>6. Becomes(c, "reading", r.from, start, r.current, r.allowed, start, r.permitted)
        /\ UNCHANGED received
    <3> HIDE DEF start
    <3>1. QED
      BY <1>1, <2>3, <2>4, <2>5 DEF Request, Step, Becomes, kafkaVars, grantVars, clientVars
  <2>7. ConnectStep(c, r)
    BY <2>1, <2>3, <2>6 DEF ConnectStep
  <2>8. QED
    BY <2>7 DEF ServeStep, r
<1>6. CASE SkipExpired(c)
  <2> DEFINE q == [r EXCEPT !.position = first]
  <2>1. first \in Words
    BY <1>0, OffsetsAreWords DEF LastOffset
  <2>2. r.state = "reading" /\ r.position < first /\ Step(c, q)
    BY <1>6 DEF SkipExpired, r
  <2>3. q \in Request
    BY <1>1, <2>1 DEF Request
  <2>4. request'[c] = q /\ request' = [request EXCEPT ![c] = request'[c]]
    BY <1>1, <2>2, <2>3, RequestWritten DEF Step
  <2>5. ReadingStep(c, r)
    BY <1>1, <2>2, <2>3, <2>4
    DEF Request, Step, Becomes, kafkaVars, grantVars, clientVars, ReadingStep
  <2>6. QED
    BY <2>5 DEF ServeStep, r
<1>7. CASE Read(c)
  <2> DEFINE permitted == PermittedBy(grants, c, topic[r.position + 1])
             next == r.position + 1
             q == [r EXCEPT !.state = "parsing", !.position = next, !.current = r.position,
                            !.permitted = permitted]
  <2>1. r.state = "reading" /\ first <= r.position /\ r.position < Len(topic) /\ Step(c, q)
    BY <1>7 DEF Read, r
  <2>2. next \in LastOffset .. MaxEvents
    BY <1>0, <2>1 DEF LastOffset
  <2>3. next \in Words /\ permitted \in BOOLEAN
    BY <2>2, OffsetsAreWords DEF PermittedBy, Reviewable
  <2>4. q \in Request
    <3> HIDE DEF next, permitted
    <3>1. QED
      BY <1>1, <2>3 DEF Request
  <2>5. request'[c] = q /\ request' = [request EXCEPT ![c] = request'[c]]
    BY <1>1, <2>1, <2>4, RequestWritten DEF Step
  <2>6. Becomes(c, "parsing", r.from, next, r.position, r.allowed, r.begins, permitted)
        /\ UNCHANGED received
    <3> HIDE DEF next, permitted
    <3>1. QED
      BY <1>1, <2>1, <2>4, <2>5 DEF Request, Step, Becomes, kafkaVars, grantVars, clientVars
  <2>7. ReadingStep(c, r)
    BY <2>1, <2>6 DEF ReadingStep
  <2>8. QED
    BY <2>7 DEF ServeStep, r
<1>8. CASE SendReview(c)
  <2> DEFINE q == [r EXCEPT !.state = "reviewing"]
  <2>1. r.state = "parsing" /\ Reviewable(Current(c)) /\ Step(c, q)
    BY <1>8 DEF SendReview, r
  <2>2. q \in Request
    BY <1>1 DEF Request
  <2>3. request'[c] = q /\ request' = [request EXCEPT ![c] = request'[c]]
    BY <1>1, <2>1, <2>2, RequestWritten DEF Step
  <2>4. Becomes(c, "reviewing", r.from, r.position, r.current, r.allowed, r.begins, r.permitted)
        /\ UNCHANGED received
    BY <1>1, <2>1, <2>2, <2>3 DEF Request, Step, Becomes, kafkaVars, grantVars, clientVars
  <2>5. QED
    BY <2>1, <2>4 DEF ReviewStep, ServeStep, r
<1>9. CASE Review(c)
  <2> DEFINE allowed == Subject(c, Current(c)) \in grants
             q == [r EXCEPT !.state = "reviewed", !.allowed = allowed]
  <2>1. r.state = "reviewing" /\ Step(c, q)
    BY <1>9 DEF Review, r
  <2>2. allowed \in BOOLEAN
    OBVIOUS
  <2> HIDE DEF allowed
  <2>3. q \in Request
    BY <1>1, <2>2 DEF Request
  <2>4. request'[c] = q /\ request' = [request EXCEPT ![c] = request'[c]]
    BY <1>1, <2>1, <2>3, RequestWritten DEF Step
  <2>5. Becomes(c, "reviewed", r.from, r.position, r.current, allowed, r.begins, r.permitted)
        /\ UNCHANGED received
    BY <1>1, <2>1, <2>3, <2>4 DEF Request, Step, Becomes, kafkaVars, grantVars, clientVars
  <2>6. QED
    BY <2>1, <2>5 DEF allowed, ReviewStep, ServeStep, r
<1>10. CASE SkipUnknown(c) \/ SkipDenied(c) \/ Deliver(c)
  <2> DEFINE q == [r EXCEPT !.state = "reading", !.current = LastOffset, !.allowed = FALSE,
                            !.permitted = FALSE]
  <2>1. request' = [request EXCEPT ![c] = q] /\ UNCHANGED <<kafkaVars, grantVars, requests>>
    BY <1>10, <1>1 DEF SkipUnknown, SkipDenied, Deliver, NextMessage, Step, clientVars, r
  <2>2. q \in Request
    BY <1>1, <1>2 DEF Request
  <2>3. request'[c] = q /\ request' = [request EXCEPT ![c] = request'[c]]
    BY <1>1, <2>1, <2>2, RequestWritten
  <2>4. Becomes(c, "reading", r.from, r.position, LastOffset, FALSE, r.begins, FALSE)
    BY <1>1, <2>1, <2>2, <2>3 DEF Request, Becomes, kafkaVars, grantVars
  <2>5. \/ r.state = "parsing" /\ ~Reviewable(Current(c)) /\ UNCHANGED received
        \/ r.state = "reviewed" /\ ~r.allowed /\ UNCHANGED received
        \/ /\ r.state = "reviewed" /\ r.allowed
           /\ received' = [received EXCEPT ![c] = Append(@, EncodeOffset(r.current))]
    BY <1>10 DEF SkipUnknown, SkipDenied, Deliver, NextMessage, Step, clientVars, r
  <2>6. QED
    BY <2>4, <2>5 DEF DoneStep, ServeStep, r
<1>11. QED
  BY <1>3, <1>4, <1>5, <1>6, <1>7, <1>8, <1>9, <1>10 DEF Serve

----------------------------------------------------------------------------

\* What is true of a client remains true while the topic grows.
TopicGrows ==
  /\ topic' \in Seq(Events) /\ Len(topic) <= Len(topic')
  /\ \A i \in 1 .. Len(topic) : topic'[i] = topic[i]

LEMMA ClientKept ==
  ASSUME Shape, TopicGrows, NEW d \in Clients, request'[d] = request[d],
         received'[d] = received[d]
  PROVE  ClientShape(d)'
<1>1. ClientShape(d) /\ Len(topic) \in Nat /\ Len(topic') \in Nat
  BY LenProperties DEF Shape, TopicShape, TopicGrows
<1>2. /\ \A i \in DOMAIN received[d] : Offsets(d)[i] < Len(topic)
      /\ request[d].state \in Busy => request[d].current \in 0 .. (Len(topic) - 1)
  BY <1>1 DEF ClientShape
<1>3. Offsets(d)' = Offsets(d) /\ DOMAIN received'[d] = DOMAIN received[d]
  BY DEF Offsets
<1>4. \A i \in DOMAIN received[d] : Offsets(d)[i] \in 0 .. (MaxEvents - 1)
  <2> TAKE i \in DOMAIN received[d]
  <2>1. received[d] \in Seq(Issued)
    BY DEF Shape
  <2>2. received[d][i] \in Issued
    BY <2>1, ElementOfSeq
  <2>3. QED
    BY <2>2, IssuedDecodes DEF Offsets
<1>5. \A i \in DOMAIN received'[d] : Offsets(d)'[i] < Len(topic')
  BY <1>1, <1>2, <1>3, <1>4, TopicGrows DEF TopicGrows
<1>6. request[d].state \in Busy => request[d].current \in 0 .. (Len(topic') - 1)
  BY <1>1, <1>2 DEF TopicGrows
<1>7. request[d].state \in Busy => Current(d)' = Current(d)
  BY <1>1, <1>2 DEF TopicGrows, Current
<1>8. (request[d].state \in {"reviewing", "reviewed"} => Reviewable(Current(d)))'
  BY <1>1, <1>7 DEF ClientShape, Busy, Reviewable
<1>9. QED
  BY <1>1, <1>5, <1>6, <1>8 DEF ClientShape

LEMMA SameTopic ==
  ASSUME Shape, topic' = topic
  PROVE  TopicGrows
<1>1. Len(topic) \in Nat
  BY LenProperties DEF Shape, TopicShape
<1>2. QED
  BY <1>1 DEF TopicGrows, Shape, TopicShape

LEMMA OthersKept ==
  ASSUME Shape, NEW c \in Clients, ServeStep(c, request[c]), NEW d \in Clients, d # c
  PROVE  request'[d] = request[d] /\ received'[d] = received[d]
<1>1. request' = [request EXCEPT ![c] = request'[c]]
  BY DEF ServeStep, Ended, SetOffsetStep, ConnectStep, ReadingStep, ReviewStep, DoneStep, Becomes
<1>2. received' = received
      \/ received' = [received EXCEPT ![c] = Append(@, EncodeOffset(request[c].current))]
  BY DEF ServeStep, SetOffsetStep, ConnectStep, ReadingStep, ReviewStep, DoneStep
<1>3. QED
  BY <1>1, <1>2 DEF Shape

\* What is delivered is the identifier of the message.
LEMMA DeliveredIsIssued ==
  ASSUME Shape, NEW c \in Clients, request[c].state \in Busy
  PROVE  /\ EncodeOffset(request[c].current) \in Issued
         /\ DecodeOffset(EncodeOffset(request[c].current)) = request[c].current
         /\ request[c].current \in 0 .. (Len(topic) - 1)
<1>1. /\ request[c].current \in 0 .. (Len(topic) - 1)
      /\ Len(topic) <= MaxEvents
  BY DEF Shape, TopicShape, ClientShape
<1>2. Len(topic) \in Nat /\ MaxEvents \in Nat
  BY LenProperties, ServiceAssumption DEF Shape, TopicShape
<1>3. request[c].current \in 0 .. (MaxEvents - 1) /\ request[c].current \in LastOffset .. MaxEvents
  BY <1>1, <1>2 DEF LastOffset
<1>4. QED
  BY <1>1, <1>3, OffsetsAreWords, DecodeEncode DEF Issued

\* One delivery adds the offset of the message at the end.
LEMMA DeliveryAppends ==
  ASSUME Shape, NEW c \in Clients, request[c].state \in Busy,
         received' = [received EXCEPT ![c] = Append(@, EncodeOffset(request[c].current))]
  PROVE  /\ received' \in [Clients -> Seq(Issued)]
         /\ Len(received'[c]) = Len(received[c]) + 1
         /\ Offsets(c)'[Len(received[c]) + 1] = request[c].current
         /\ \A i \in 1 .. Len(received[c]) : Offsets(c)'[i] = Offsets(c)[i]
<1> DEFINE t == EncodeOffset(request[c].current)
<1>1. t \in Issued /\ DecodeOffset(t) = request[c].current
  BY DeliveredIsIssued
<1> HIDE DEF t
<1>2. received[c] \in Seq(Issued) /\ received'[c] = Append(received[c], t)
  BY DEF Shape, t
<1>3. received' \in [Clients -> Seq(Issued)]
  BY <1>1, <1>2, AppendProperties DEF Shape, t
<1>4. /\ Len(received'[c]) = Len(received[c]) + 1
      /\ received'[c][Len(received[c]) + 1] = t
      /\ \A i \in 1 .. Len(received[c]) : received'[c][i] = received[c][i]
      /\ Len(received[c]) \in Nat
  BY <1>1, <1>2, AppendProperties, LenProperties
<1>5. DOMAIN received[c] = 1 .. Len(received[c]) /\ DOMAIN received'[c] = 1 .. Len(received'[c])
  BY <1>2, <1>3, LenProperties
<1>6. QED
  BY <1>1, <1>3, <1>4, <1>5 DEF Offsets

LEMMA ServeShape ==
  ASSUME Shape, NEW c \in Clients, ServeStep(c, request[c])
  PROVE  Shape'
<1> DEFINE r == request[c]
<1>1. /\ MaxEvents \in Nat /\ Len(topic) \in Nat /\ Len(topic) <= MaxEvents
      /\ first \in 0 .. Len(topic)
  BY LenProperties, ServiceAssumption DEF Shape, TopicShape
<1>2. /\ topic' = topic /\ first' = first /\ grants' = grants /\ disputed' = disputed
      /\ changes' = changes /\ requests' = requests
      /\ request' = [request EXCEPT ![c] = request'[c]] /\ request'[c] \in Request
  BY DEF ServeStep, Ended, SetOffsetStep, ConnectStep, ReadingStep, ReviewStep, DoneStep, Becomes
<1>3. request' \in [Clients -> Request]
  BY <1>2 DEF Shape
<1>4. TopicShape'
  BY <1>2 DEF Shape, TopicShape
<1>5. \A d \in Clients \ {c} : ClientShape(d)'
  BY <1>2, OthersKept, SameTopic, ClientKept
<1>6. /\ ClientShape(c) /\ r.current \in LastOffset .. MaxEvents
      /\ r.position \in LastOffset .. MaxEvents /\ r.begins \in LastOffset .. MaxEvents
      /\ r.state \in {"reading"} \cup Busy => r.position >= 0 /\ r.begins >= 0
      /\ r.state \in Busy => r.current \in 0 .. (Len(topic) - 1) /\ r.position = r.current + 1
      /\ r.state \in {"reviewing", "reviewed"} => Reviewable(Current(c))
  BY DEF Shape, ClientShape
<1>7. received' \in [Clients -> Seq(Issued)]
  <2>1. CASE received' = received
    BY <2>1 DEF Shape
  <2>2. CASE received' # received
    BY <2>2, DeliveryAppends
    DEF ServeStep, SetOffsetStep, ConnectStep, ReadingStep, ReviewStep, DoneStep, Busy
  <2>3. QED
    BY <2>1, <2>2
<1>8. \A i \in DOMAIN received'[c] : Offsets(c)'[i] < Len(topic')
  <2>1. CASE received' = received
    <3>1. Offsets(c)' = Offsets(c)
      BY <2>1 DEF Offsets
    <3>2. QED
      BY <1>2, <1>6, <2>1, <3>1 DEF ClientShape
  <2>2. CASE received' # received
    <3>1. /\ r.state \in Busy
          /\ received' = [received EXCEPT ![c] = Append(@, EncodeOffset(r.current))]
      BY <2>2 DEF ServeStep, SetOffsetStep, ConnectStep, ReadingStep, ReviewStep, DoneStep, Busy
    <3>2. DOMAIN received'[c] = 1 .. (Len(received[c]) + 1)
          /\ DOMAIN received[c] = 1 .. Len(received[c]) /\ Len(received[c]) \in Nat
      BY <1>7, <3>1, DeliveryAppends, LenProperties DEF Shape
    <3>3. Offsets(c)'[Len(received[c]) + 1] < Len(topic')
      <4>1. Offsets(c)'[Len(received[c]) + 1] = r.current
        BY <3>1, DeliveryAppends
      <4>2. r.current \in 0 .. (Len(topic) - 1)
        BY <3>1, DeliveredIsIssued
      <4>3. QED
        BY <1>1, <1>2, <4>1, <4>2
    <3>4. \A i \in 1 .. Len(received[c]) : Offsets(c)'[i] < Len(topic')
      BY <1>2, <1>6, <3>1, <3>2, DeliveryAppends DEF ClientShape
    <3>5. QED
      BY <3>2, <3>3, <3>4
  <2>3. QED
    BY <2>1, <2>2
<1>9. /\ request'[c].position \in LastOffset .. MaxEvents
      /\ request'[c].begins \in LastOffset .. MaxEvents
      /\ request'[c].current \in LastOffset .. MaxEvents
      /\ request'[c].state # "opened"
      /\ request'[c].state \in {"reading"} \cup Busy =>
           request'[c].position >= 0 /\ request'[c].begins >= 0
      /\ request'[c].state \in Busy =>
           /\ request'[c].current \in 0 .. (Len(topic) - 1)
           /\ request'[c].position = request'[c].current + 1
      /\ request'[c].state \in {"reviewing", "reviewed"} =>
           Reviewable(Current(c)) /\ request'[c].current = r.current
  <2>1. CASE Ended(c)
    BY <2>1, SmallOffsets DEF Ended, Becomes, Busy
  <2>2. CASE SetOffsetStep(c, r)
    <3>1. PICK offset \in Words :
            /\ IF r.from = "" THEN offset = LastOffset
               ELSE DecodeOffset(r.from) # Invalid /\ offset = DecodeOffset(r.from)
            /\ r.state = "opened"
            /\ Becomes(c, "connecting", r.from, offset, r.current, r.allowed, r.begins,
                       r.permitted)
      BY <2>2 DEF SetOffsetStep
    <3>2. offset \in LastOffset .. MaxEvents
      <4>1. r.from # "" => DecodeOffset(r.from) \in 0 .. (MaxEvents - 1)
        BY <3>1, IssuedDecodes, ServiceAssumption DEF Shape, ClientShape
      <4>2. QED
        BY <3>1, <4>1, SmallOffsets
    <3>3. QED
      BY <1>1, <1>6, <3>1, <3>2 DEF Becomes, Busy
  <2>3. CASE ConnectStep(c, r)
    <3>1. PICK start \in Nat :
            /\ start = IF r.position = LastOffset THEN Len(topic)
                       ELSE IF r.position < first THEN first ELSE r.position
            /\ Becomes(c, "reading", r.from, start, r.current, r.allowed, start, r.permitted)
      BY <2>3 DEF ConnectStep
    <3>2. start \in LastOffset .. MaxEvents
      BY <1>1, <1>6, <3>1 DEF LastOffset
    <3>3. QED
      BY <1>1, <1>6, <3>1, <3>2 DEF Becomes, Busy
  <2>4. CASE ReadingStep(c, r)
    BY <1>1, <1>6, <2>4 DEF ReadingStep, Becomes, LastOffset, Busy
  <2>5. CASE ReviewStep(c, r)
    BY <1>1, <1>6, <2>5 DEF ReviewStep, Becomes, Busy
  <2>6. CASE DoneStep(c, r)
    BY <1>1, <1>6, <2>6, SmallOffsets DEF DoneStep, Becomes, Busy
  <2>7. QED
    BY <2>1, <2>2, <2>3, <2>4, <2>5, <2>6 DEF ServeStep
<1>10. ClientShape(c)'
  <2>1. (request[c].state \in {"reviewing", "reviewed"} => Reviewable(Current(c)))'
    BY <1>2, <1>9 DEF Current, Reviewable
  <2>2. QED
    BY <1>2, <1>8, <1>9, <2>1 DEF ClientShape
<1>11. QED
  BY <1>2, <1>3, <1>4, <1>5, <1>7, <1>10 DEF Shape

\* How clients and the rest of the world change the state.
OpenStep(c) ==
  /\ request[c].state = "none"
  /\ \E t \in Text \cup {""} :
       /\ t \in FromValues(c)
       /\ request' = [request EXCEPT ![c] = request'[c]]
       /\ request'[c] \in Request
       /\ request'[c].state = "opened" /\ request'[c].from = t
       /\ request'[c].position = LastOffset /\ request'[c].current = LastOffset
       /\ request'[c].begins = LastOffset
       /\ request'[c].allowed = FALSE /\ request'[c].permitted = FALSE
  /\ requests' = [requests EXCEPT ![c] = @ + 1]
  /\ UNCHANGED <<topic, first, grants, disputed, changes, received>>

LEMMA OpenEffect ==
  ASSUME Shape, NEW c \in Clients, Open(c)
  PROVE  OpenStep(c)
<1>1. PICK t \in FromValues(c) :
        request' = [request EXCEPT ![c] = [NoRequest EXCEPT !.state = "opened", !.from = t]]
  BY DEF Open
<1>2. t \in Text \cup {""}
  <2>1. Issued \subseteq Text /\ Garbage \subseteq Text
    BY IssuedDecodes, ServiceAssumption
  <2>2. received[c] \in Seq(Issued)
    BY DEF Shape
  <2>3. CASE received[c] = <<>>
    BY <1>1, <2>1, <2>3 DEF FromValues, Issued
  <2>4. CASE received[c] # <<>>
    <3>1. Len(received[c]) \in 1 .. Len(received[c])
      BY <2>2, <2>4, EmptySeq
    <3>2. received[c][Len(received[c])] \in Issued
      BY <2>2, <3>1, ElementOfSeq
    <3>3. QED
      BY <1>1, <2>1, <2>4, <3>2 DEF FromValues
  <2>5. QED
    BY <2>3, <2>4
<1> DEFINE q == [NoRequest EXCEPT !.state = "opened", !.from = t]
<1>3. q \in Request
  BY <1>2, SmallOffsets, OffsetsAreWords DEF NoRequest, Request
<1>4. request'[c] = q /\ request' = [request EXCEPT ![c] = request'[c]]
  BY <1>1, <1>3, RequestWritten DEF Shape
<1>5. /\ q.state = "opened" /\ q.from = t /\ q.position = LastOffset /\ q.current = LastOffset
      /\ q.begins = LastOffset
  BY DEF NoRequest
<1>6. q.allowed = FALSE /\ q.permitted = FALSE
  BY DEF NoRequest
<1>7. QED
  BY <1>1, <1>2, <1>3, <1>4, <1>5, <1>6 DEF OpenStep, Open, kafkaVars, grantVars

\* Permissions change: nothing of a request changes but the note about them.
GrantStep(g) ==
  /\ grants' = IF g \in grants THEN grants \ {g} ELSE grants \cup {g}
  /\ disputed' = disputed \cup {g}
  /\ request' \in [Clients -> Request]
  /\ \A c \in Clients :
       /\ request'[c].state = request[c].state /\ request'[c].from = request[c].from
       /\ request'[c].position = request[c].position
       /\ request'[c].current = request[c].current
       /\ request'[c].allowed = request[c].allowed
       /\ request'[c].begins = request[c].begins
       /\ request[c].permitted => request'[c].permitted
       /\ request[c].state \in Busy /\ PermittedBy(grants', c, Current(c)) =>
            request'[c].permitted
  /\ changes' = changes + 1
  /\ UNCHANGED <<topic, first, received, requests>>

LEMMA GrantEffect ==
  ASSUME Shape, NEW g \in Clients \X Types \X Objects, ChangeGrant(g)
  PROVE  GrantStep(g)
<1>1. ASSUME NEW c \in Clients
      PROVE  /\ request'[c] \in Request
             /\ request'[c].state = request[c].state /\ request'[c].from = request[c].from
             /\ request'[c].position = request[c].position
             /\ request'[c].current = request[c].current
             /\ request'[c].allowed = request[c].allowed
             /\ request'[c].begins = request[c].begins
             /\ request[c].permitted => request'[c].permitted
             /\ request[c].state \in Busy /\ PermittedBy(grants', c, Current(c)) =>
                  request'[c].permitted
  <2> DEFINE permitted == request[c].permitted \/ PermittedBy(grants', c, Current(c))
  <2>1. request[c] \in Request
    BY DEF Shape
  <2>2. permitted \in BOOLEAN
    OBVIOUS
  <2>3. request'[c] = IF request[c].state \in Busy
                      THEN [request[c] EXCEPT !.permitted = permitted] ELSE request[c]
    BY DEF ChangeGrant, Busy
  <2> HIDE DEF permitted
  <2>4. /\ request'[c] \in Request
        /\ request'[c].state = request[c].state /\ request'[c].from = request[c].from
        /\ request'[c].position = request[c].position
        /\ request'[c].current = request[c].current
        /\ request'[c].allowed = request[c].allowed
        /\ request'[c].begins = request[c].begins
    BY <2>1, <2>2, <2>3 DEF Request
  <2>5. request[c].state \in Busy => request'[c].permitted = permitted
    BY <2>1, <2>3 DEF Request
  <2>6. request[c].state \notin Busy => request'[c] = request[c]
    BY <2>3
  <2>7. QED
    BY <2>4, <2>5, <2>6 DEF permitted
<1>2. request' \in [Clients -> Request]
  <2>1. DOMAIN request' = Clients
    BY DEF ChangeGrant
  <2>2. request' = [c \in Clients |-> request'[c]]
    BY DEF ChangeGrant
  <2>3. QED
    BY <1>1, <2>2
<1>3. QED
  BY <1>1, <1>2 DEF GrantStep, ChangeGrant, kafkaVars, clientVars

----------------------------------------------------------------------------

LEMMA ShapeInit == Init => Shape
<1> SUFFICES ASSUME Init PROVE Shape
  OBVIOUS
<1>1. TopicShape
  <2>1. topic = <<>> /\ first = 0 /\ MaxEvents \in Nat
    BY ServiceAssumption DEF Init
  <2>2. topic \in Seq(Events) /\ Len(topic) = 0
    BY <2>1, EmptySeq
  <2>3. QED
    BY <2>1, <2>2 DEF TopicShape
<1>2. NoRequest \in Request
  BY SmallOffsets, OffsetsAreWords DEF NoRequest, Request
<1>3. request \in [Clients -> Request] /\ received \in [Clients -> Seq(Issued)]
  BY <1>2, EmptySeq DEF Init
<1>4. ASSUME NEW c \in Clients PROVE ClientShape(c)
  <2>1. request[c] = NoRequest /\ DOMAIN received[c] = {}
    BY <1>4 DEF Init
  <2>2. NoRequest.state = "none" /\ NoRequest.position = LastOffset
        /\ NoRequest.begins = LastOffset /\ NoRequest.current = LastOffset
    BY DEF NoRequest
  <2>3. QED
    BY <2>1, <2>2, SmallOffsets DEF ClientShape, Busy
<1>5. QED
  BY <1>1, <1>3, <1>4 DEF Init, Shape

LEMMA PublishGrows ==
  ASSUME Shape, NEW m \in Events, Publish(m)
  PROVE  TopicGrows /\ TopicShape' /\ UNCHANGED <<first, grantVars, request, clientVars>>
<1>1. /\ topic \in Seq(Events) /\ topic' = Append(topic, m) /\ Len(topic) < MaxEvents
      /\ first' = first /\ first \in 0 .. Len(topic) /\ MaxEvents \in Nat
  BY ServiceAssumption DEF Shape, TopicShape, Publish
<1>2. /\ topic' \in Seq(Events) /\ Len(topic') = Len(topic) + 1 /\ Len(topic) \in Nat
      /\ \A i \in 1 .. Len(topic) : topic'[i] = topic[i]
  BY <1>1, AppendProperties, LenProperties
<1>3. QED
  BY <1>1, <1>2 DEF TopicGrows, TopicShape, Publish

LEMMA ShapeStep ==
  ASSUME Shape, [Next]_vars
  PROVE  Shape'
<1>1. CASE \E m \in Events : Publish(m)
  <2>1. TopicGrows /\ TopicShape' /\ UNCHANGED <<first, grantVars, request, clientVars>>
    BY <1>1, PublishGrows
  <2>2. \A c \in Clients : ClientShape(c)'
    BY <2>1, ClientKept DEF clientVars
  <2>3. QED
    BY <2>1, <2>2 DEF Shape, grantVars, clientVars
<1>2. CASE Expire
  <2>1. TopicShape' /\ UNCHANGED <<topic, grantVars, request, clientVars>>
    <3>1. Len(topic) \in Nat
      BY LenProperties DEF Shape, TopicShape
    <3>2. QED
      BY <1>2, <3>1 DEF Expire, Shape, TopicShape
  <2>2. \A c \in Clients : ClientShape(c)'
    BY <2>1, SameTopic, ClientKept DEF clientVars
  <2>3. QED
    BY <2>1, <2>2 DEF Shape, grantVars, clientVars
<1>3. ASSUME NEW g \in Clients \X Types \X Objects, ChangeGrant(g)
      PROVE  Shape'
  <2>1. GrantStep(g)
    BY <1>3, GrantEffect
  <2>2. ASSUME NEW c \in Clients
        PROVE  ClientShape(c)'
    <3>1. ClientShape(c) /\ Offsets(c)' = Offsets(c)
      BY <2>1 DEF Shape, GrantStep, Offsets
    <3>2. (request[c].state \in {"reviewing", "reviewed"} => Reviewable(Current(c)))'
      BY <2>1, <3>1 DEF ClientShape, GrantStep, Current, Reviewable
    <3>3. /\ \A i \in DOMAIN received'[c] : Offsets(c)'[i] < Len(topic')
          /\ request'[c].state = "opened" => request'[c].from \in Garbage \cup {""} \cup Issued
      BY <2>1, <3>1 DEF ClientShape, GrantStep
    <3>4. QED
      BY <2>1, <3>1, <3>2, <3>3 DEF ClientShape, GrantStep
  <2>3. TopicShape'
    BY <2>1 DEF Shape, TopicShape, GrantStep
  <2>4. grants' \subseteq Clients \X Types \X Objects
        /\ disputed' \subseteq Clients \X Types \X Objects
    BY <1>3, <2>1 DEF Shape, GrantStep
  <2>5. QED
    BY <2>1, <2>2, <2>3, <2>4 DEF Shape, GrantStep
<1>4. ASSUME NEW c \in Clients, Open(c)
      PROVE  Shape'
  <2>1. OpenStep(c)
    BY <1>4, OpenEffect
  <2>2. ASSUME NEW d \in Clients \ {c}
        PROVE  ClientShape(d)'
    BY <2>1, <2>2, SameTopic, ClientKept DEF OpenStep, Shape
  <2>3. ClientShape(c)'
    <3>1. request'[c].from \in Garbage \cup {""} \cup Issued
      <4>1. received[c] \in Seq(Issued)
        BY DEF Shape
      <4>2. received[c] # <<>> => received[c][Len(received[c])] \in Issued
        BY <4>1, EmptySeq, ElementOfSeq
      <4>3. QED
        BY <2>1, <4>2 DEF OpenStep, FromValues, Issued
    <3>2. \A i \in DOMAIN received'[c] : Offsets(c)'[i] < Len(topic')
      <4>1. Offsets(c)' = Offsets(c) /\ topic' = topic /\ received' = received
        BY <2>1 DEF OpenStep, Offsets
      <4>2. QED
        BY <4>1 DEF Shape, ClientShape
    <3>3. QED
      BY <2>1, <3>1, <3>2, SmallOffsets DEF OpenStep, ClientShape, Busy
  <2>4. TopicShape'
    BY <2>1 DEF OpenStep, Shape, TopicShape
  <2>5. request' \in [Clients -> Request] /\ requests' \in [Clients -> Nat]
    <3>1. /\ request' = [request EXCEPT ![c] = request'[c]] /\ request'[c] \in Request
          /\ requests' = [requests EXCEPT ![c] = @ + 1]
      BY <2>1 DEF OpenStep
    <3>2. request \in [Clients -> Request] /\ requests \in [Clients -> Nat]
      BY DEF Shape
    <3>3. requests' \in [Clients -> Nat]
      BY <3>1, <3>2
    <3>4. QED
      BY <3>1, <3>2, <3>3
  <2>6. QED
    BY <2>1, <2>2, <2>3, <2>4, <2>5 DEF OpenStep, Shape
<1>5. ASSUME NEW c \in Clients, Serve(c) \/ Disconnect(c)
      PROVE  Shape'
  BY <1>5, ServeEffect, ServeShape
<1>6. CASE UNCHANGED vars
  <2>1. UNCHANGED <<topic, first, grants, disputed, changes, request, received, requests>>
    BY <1>6 DEF vars, kafkaVars, grantVars, clientVars
  <2>2. \A c \in Clients : ClientShape(c)'
    BY <2>1, SameTopic, ClientKept
  <2>3. QED
    BY <2>1, <2>2 DEF Shape, TopicShape
<1>7. QED
  BY <1>1, <1>2, <1>3, <1>4, <1>5, <1>6 DEF Next, Environment

LEMMA ShapeInvariant == Spec => []Shape
<1>1. QED
  BY ShapeInit, ShapeStep, PTL DEF Spec

\* In every state, for any number of clients and events, the message that a request
\* works on exists and is the one before the position of its reader (TypeOK).
THEOREM TypeCorrect == Spec => []TypeOK
<1>1. Shape => TypeOK
  <2> SUFFICES ASSUME Shape PROVE TypeOK
    OBVIOUS
  <2>1. received \in [Clients -> Seq(Text)]
    <3>1. Issued \subseteq Text
      BY IssuedDecodes
    <3>2. Seq(Issued) \subseteq Seq(Text)
      BY <3>1
    <3>3. QED
      BY <3>2 DEF Shape
  <2>2. \A c \in Clients : request[c].state \in Busy =>
          /\ request[c].current \in 0 .. (Len(topic) - 1)
          /\ request[c].position = request[c].current + 1
    BY DEF Shape, ClientShape
  <2>3. QED
    BY <2>1, <2>2 DEF Shape, TopicShape, TypeOK
<1>2. QED
  BY <1>1, ShapeInvariant, PTL

----------------------------------------------------------------------------

\* What is noted about the permissions of a request.
Noted(c) ==
  /\ request[c].state \in Busy /\ PermittedBy(grants, c, Current(c)) => request[c].permitted
  /\ request[c].state = "reviewed" /\ request[c].allowed => request[c].permitted

Memory == \A c \in Clients : Resumes(c) /\ Noted(c)

LEMMA ResumesStep ==
  ASSUME Shape, NEW c \in Clients, Resumes(c), ServeStep(c, request[c])
  PROVE  Resumes(c)'
<1> DEFINE r == request[c]
<1>1. CASE SetOffsetStep(c, r)
  <2>1. PICK offset \in Words :
          /\ IF r.from = "" THEN offset = LastOffset
             ELSE DecodeOffset(r.from) # Invalid /\ offset = DecodeOffset(r.from)
          /\ r.state = "opened" /\ received' = received
          /\ request'[c].state = "connecting" /\ request'[c].position = offset
    BY <1>1 DEF SetOffsetStep, Becomes
  <2>2. ASSUME received[c] # <<>>
        PROVE  offset = Offsets(c)[Len(received[c])]
    <3>1. received[c] \in Seq(Issued) /\ r.from \in Garbage \cup {received[c][Len(received[c])]}
      BY <2>1, <2>2 DEF Shape, Resumes
    <3>2. Len(received[c]) \in DOMAIN received[c] /\ Len(received[c]) \in 1 .. Len(received[c])
      BY <2>2, <3>1, EmptySeq, LenProperties
    <3>3. received[c][Len(received[c])] \in Issued
      BY <3>1, <3>2, ElementOfSeq
    <3>4. r.from \notin Garbage
      BY <2>1, ServiceAssumption
    <3>5. r.from = received[c][Len(received[c])] /\ r.from # ""
      BY <3>1, <3>3, <3>4, IssuedDecodes
    <3>6. QED
      BY <2>1, <3>2, <3>5 DEF Offsets
  <2>3. Offsets(c)' = Offsets(c)
    BY <2>1 DEF Offsets
  <2>4. QED
    BY <2>1, <2>2, <2>3 DEF Resumes
<1>2. CASE ~SetOffsetStep(c, r)
  <2>1. request'[c].state \notin {"opened", "connecting"}
    BY <1>2 DEF ServeStep, Ended, ConnectStep, ReadingStep, ReviewStep, DoneStep, Becomes
  <2>2. QED
    BY <2>1 DEF Resumes
<1>3. QED
  BY <1>1, <1>2

LEMMA NotedStep ==
  ASSUME Shape, NEW c \in Clients, Noted(c), ServeStep(c, request[c])
  PROVE  Noted(c)'
<1> DEFINE r == request[c]
<1>1. CASE ReadingStep(c, r)
  <2>1. CASE request'[c].state = "reading"
    BY <2>1 DEF Noted, Busy
  <2>2. CASE request'[c].state # "reading"
    <3>1. /\ request'[c].state = "parsing" /\ request'[c].current = r.position
          /\ request'[c].permitted = PermittedBy(grants, c, topic[r.position + 1])
          /\ grants' = grants /\ topic' = topic
      BY <1>1, <2>2 DEF ReadingStep, Becomes
    <3>2. PermittedBy(grants, c, Current(c))' = PermittedBy(grants, c, topic[r.position + 1])
      BY <3>1 DEF PermittedBy, Current, Reviewable, Subject
    <3>3. QED
      BY <3>1, <3>2 DEF Noted
  <2>3. QED
    BY <2>1, <2>2
<1>2. CASE ReviewStep(c, r)
  <2>1. /\ request'[c].current = r.current /\ request'[c].permitted = r.permitted
        /\ grants' = grants /\ topic' = topic /\ r.state \in Busy
    BY <1>2 DEF ReviewStep, Becomes, Busy
  <2>2. PermittedBy(grants, c, Current(c))' = PermittedBy(grants, c, Current(c))
    BY <2>1 DEF PermittedBy, Current, Reviewable, Subject
  <2>3. request'[c].state = "reviewed" /\ request'[c].allowed =>
          PermittedBy(grants, c, Current(c))
    <3>1. request'[c].state = "reviewed" =>
            /\ r.state = "reviewing"
            /\ request'[c].allowed = (Subject(c, Current(c)) \in grants)
      BY <1>2 DEF ReviewStep, Becomes
    <3>2. r.state = "reviewing" => Reviewable(Current(c))
      BY DEF Shape, ClientShape
    <3>3. QED
      BY <3>1, <3>2 DEF PermittedBy
  <2>4. QED
    BY <2>1, <2>2, <2>3 DEF Noted
<1>3. CASE ~ReadingStep(c, r) /\ ~ReviewStep(c, r)
  <2>1. request'[c].state \notin Busy
    BY <1>3 DEF ServeStep, Ended, SetOffsetStep, ConnectStep, DoneStep, Becomes, Busy
  <2>2. QED
    BY <2>1 DEF Noted, Busy
<1>4. QED
  BY <1>1, <1>2, <1>3

LEMMA MemoryStep ==
  ASSUME Shape, Memory, [Next]_vars
  PROVE  Memory'
<1>1. ASSUME NEW d \in Clients, TopicGrows, grants' = grants, request'[d] = request[d],
             received'[d] = received[d]
      PROVE  Resumes(d)' /\ Noted(d)'
  <2>1. Resumes(d) /\ Noted(d) /\ Offsets(d)' = Offsets(d)
    BY <1>1 DEF Memory, Offsets
  <2>2. request[d].state \in Busy => Current(d)' = Current(d)
    <3>1. request[d].state \in Busy => request[d].current \in 0 .. (Len(topic) - 1)
      BY DEF Shape, ClientShape
    <3>2. Len(topic) \in Nat
      BY LenProperties DEF Shape, TopicShape
    <3>3. QED
      BY <1>1, <3>1, <3>2 DEF TopicGrows, Current
  <2>3. request[d].state \in Busy =>
          PermittedBy(grants, d, Current(d))' = PermittedBy(grants, d, Current(d))
    BY <1>1, <2>2 DEF PermittedBy, Reviewable, Subject
  <2>4. QED
    BY <1>1, <2>1, <2>3 DEF Resumes, Noted
<1>2. CASE \E m \in Events : Publish(m)
  <2>1. TopicGrows /\ grants' = grants /\ request' = request /\ received' = received
    BY <1>2, PublishGrows DEF grantVars, clientVars
  <2>2. QED
    BY <1>1, <2>1 DEF Memory
<1>3. CASE Expire \/ UNCHANGED vars
  <2>1. topic' = topic /\ grants' = grants /\ request' = request /\ received' = received
    BY <1>3 DEF Expire, vars, kafkaVars, grantVars, clientVars
  <2>2. QED
    BY <1>1, <2>1, SameTopic DEF Memory
<1>4. ASSUME NEW g \in Clients \X Types \X Objects, ChangeGrant(g)
      PROVE  Memory'
  <2>1. GrantStep(g)
    BY <1>4, GrantEffect
  <2>2. ASSUME NEW c \in Clients
        PROVE  Resumes(c)' /\ Noted(c)'
    <3>1. /\ request'[c].state = request[c].state /\ request'[c].from = request[c].from
          /\ request'[c].position = request[c].position
          /\ request'[c].current = request[c].current
          /\ request'[c].allowed = request[c].allowed
          /\ request[c].permitted => request'[c].permitted
          /\ request[c].state \in Busy /\ PermittedBy(grants', c, Current(c)) =>
               request'[c].permitted
          /\ topic' = topic /\ received' = received
      BY <2>1 DEF GrantStep
    <3>2. Offsets(c)' = Offsets(c) /\ Resumes(c) /\ Noted(c)
      BY <3>1 DEF Offsets, Memory
    <3>3. PermittedBy(grants, c, Current(c))' = PermittedBy(grants', c, Current(c))
      BY <3>1 DEF PermittedBy, Current, Reviewable, Subject
    <3>4. QED
      BY <3>1, <3>2, <3>3 DEF Resumes, Noted
  <2>3. QED
    BY <2>2 DEF Memory
<1>5. ASSUME NEW c \in Clients, Open(c)
      PROVE  Memory'
  <2>1. OpenStep(c)
    BY <1>5, OpenEffect
  <2>2. ASSUME NEW d \in Clients \ {c}
        PROVE  Resumes(d)' /\ Noted(d)'
    <3>1. request'[d] = request[d] /\ received'[d] = received[d] /\ topic' = topic
          /\ grants' = grants
      BY <2>1 DEF OpenStep, Shape
    <3>2. QED
      BY <1>1, <3>1, SameTopic
  <2>3. request'[c].state = "opened" /\ request'[c].from \in FromValues(c)
        /\ received' = received
    BY <2>1 DEF OpenStep
  <2>4. Resumes(c)' /\ Noted(c)'
    BY <2>3 DEF Resumes, Noted, FromValues, Issued, Busy
  <2>5. QED
    BY <2>2, <2>4 DEF Memory
<1>6. ASSUME NEW c \in Clients, Serve(c) \/ Disconnect(c)
      PROVE  Memory'
  <2>1. ServeStep(c, request[c])
    BY <1>6, ServeEffect
  <2>2. topic' = topic /\ grants' = grants
    BY <2>1
    DEF ServeStep, Ended, SetOffsetStep, ConnectStep, ReadingStep, ReviewStep, DoneStep, Becomes
  <2>3. ASSUME NEW d \in Clients \ {c}
        PROVE  Resumes(d)' /\ Noted(d)'
    BY <1>1, <2>1, <2>2, OthersKept, SameTopic
  <2>4. Resumes(c)' /\ Noted(c)'
    BY <2>1, ResumesStep, NotedStep DEF Memory
  <2>5. QED
    BY <2>3, <2>4 DEF Memory
<1>7. QED
  BY <1>2, <1>3, <1>4, <1>5, <1>6 DEF Next, Environment

LEMMA MemoryInit == Init => Memory
<1> SUFFICES ASSUME Init, NEW c \in Clients PROVE Resumes(c) /\ Noted(c)
  BY DEF Memory
<1>1. request[c].state = "none"
  BY DEF Init, NoRequest
<1>2. QED
  BY <1>1 DEF Resumes, Noted, Busy

LEMMA MemoryInvariant == Spec => []Memory
<1>1. QED
  BY ShapeInvariant, MemoryInit, MemoryStep, PTL DEF Spec

\* Whatever permissions change in the meantime, an event is delivered only to a
\* client that has been allowed to see it since the service read it
\* (checkPermission, then the callback).
THEOREM DeliveriesPermitted == Spec => DeliveredPermitted
<1>1. ASSUME Shape, Memory, [Next]_vars
      PROVE  [\A c \in Clients : received'[c] # received[c] => request[c].permitted]_vars
  <2> SUFFICES ASSUME NEW c \in Clients, received'[c] # received[c]
               PROVE  request[c].permitted
    OBVIOUS
  <2>1. CASE \E d \in Clients : Serve(d) \/ Disconnect(d)
    <3>1. PICK d \in Clients : ServeStep(d, request[d])
      BY <1>1, <2>1, ServeEffect
    <3>2. ServeStep(c, request[c])
      BY <1>1, <3>1, OthersKept
    <3>3. request[c].state = "reviewed" /\ request[c].allowed
      BY <3>2 DEF ServeStep, SetOffsetStep, ConnectStep, ReadingStep, ReviewStep, DoneStep
    <3>4. QED
      BY <1>1, <3>3 DEF Memory, Noted
  <2>2. CASE ~\E d \in Clients : Serve(d) \/ Disconnect(d)
    <3>1. received' = received
      BY <1>1, <2>2 DEF Next, Environment, Publish, Expire, ChangeGrant, Open, vars, clientVars
    <3>2. QED
      BY <3>1
  <2>3. QED
    BY <2>1, <2>2
<1>2. QED
  BY <1>1, ShapeInvariant, MemoryInvariant, PTL DEF Spec, DeliveredPermitted

----------------------------------------------------------------------------

LEMMA OffsetsShape ==
  ASSUME Shape, NEW c \in Clients
  PROVE  /\ Offsets(c) \in Seq(0 .. (MaxEvents - 1))
         /\ Len(Offsets(c)) = Len(received[c])
         /\ Len(received[c]) \in Nat
         /\ DOMAIN received[c] = 1 .. Len(received[c])
         /\ received[c] = <<>> <=> Offsets(c) = <<>>
         /\ received[c] # <<>> =>
              Len(received[c]) > 0 /\ Offsets(c)[Len(received[c])] \in 0 .. (MaxEvents - 1)
<1> DEFINE n == Len(received[c])
<1>1. received[c] \in Seq(Issued) /\ n \in Nat /\ DOMAIN received[c] = 1 .. n
  BY LenProperties DEF Shape
<1>2. \A i \in 1 .. n : DecodeOffset(received[c][i]) \in 0 .. (MaxEvents - 1)
  BY <1>1, ElementOfSeq, IssuedDecodes
<1>3. Offsets(c) = [i \in 1 .. n |-> DecodeOffset(received[c][i])]
  BY <1>1 DEF Offsets
<1>4. Offsets(c) \in Seq(0 .. (MaxEvents - 1)) /\ Len(Offsets(c)) = n
  BY <1>1, <1>2, <1>3
<1>5. received[c] = <<>> <=> n = 0
  BY <1>1, EmptySeq
<1>6. Offsets(c) = <<>> <=> n = 0
  BY <1>4, EmptySeq
<1>7. received[c] # <<>> => n > 0 /\ Offsets(c)[n] \in 0 .. (MaxEvents - 1)
  BY <1>1, <1>2, <1>3, <1>5
<1>8. QED
  BY <1>1, <1>4, <1>5, <1>6, <1>7

LEMMA OffsetsAppend ==
  ASSUME Shape, NEW c \in Clients, request[c].state \in Busy,
         received' = [received EXCEPT ![c] = Append(@, EncodeOffset(request[c].current))]
  PROVE  Offsets(c)' = Append(Offsets(c), request[c].current)
<1> DEFINE n == Len(received[c])
           after == Append(Offsets(c), request[c].current)
<1>1. /\ Offsets(c) \in Seq(Int) /\ Len(Offsets(c)) = n /\ n \in Nat
      /\ request[c].current \in Int
  <2>1. Offsets(c) \in Seq(0 .. (MaxEvents - 1)) /\ Len(Offsets(c)) = n /\ n \in Nat
    BY OffsetsShape
  <2>2. Offsets(c) \in Seq(Int)
    <3>1. 0 .. (MaxEvents - 1) \subseteq Int
      OBVIOUS
    <3>2. QED
      BY <2>1, <3>1, SeqMonotonic
  <2>3. request[c].current \in Int
    BY DeliveredIsIssued
  <2>4. QED
    BY <2>1, <2>2, <2>3
<1>2. /\ after \in Seq(Int) /\ Len(after) = n + 1 /\ after[n + 1] = request[c].current
      /\ \A i \in 1 .. n : after[i] = Offsets(c)[i]
  BY <1>1, AppendProperties
<1>3. DOMAIN received'[c] = 1 .. (n + 1)
  <2>1. received'[c] \in Seq(Issued) /\ Len(received'[c]) = n + 1
    BY DeliveryAppends
  <2>2. QED
    BY <2>1, LenProperties
<1>4. Offsets(c)' = [i \in 1 .. (n + 1) |-> Offsets(c)'[i]]
  BY <1>3 DEF Offsets
<1>5. after = [i \in 1 .. (n + 1) |-> after[i]]
  BY <1>2, LenProperties
<1> HIDE DEF after
<1>6. \A i \in 1 .. (n + 1) : Offsets(c)'[i] = after[i]
  <2>1. \A i \in 1 .. n : Offsets(c)'[i] = after[i]
    BY <1>2, DeliveryAppends
  <2>2. Offsets(c)'[n + 1] = after[n + 1]
    BY <1>2, DeliveryAppends
  <2>3. QED
    BY <1>1, <2>1, <2>2
<1>7. Offsets(c)' = after
  BY <1>4, <1>5, <1>6
<1>8. QED
  BY <1>7 DEF after

\* The cursors of the other clients stay where they are.
LEMMA CursorsChange ==
  ASSUME Shape, NEW c \in Clients, ServeStep(c, request[c])
  PROVE  /\ [d \in Clients |-> Cursor(d)]' =
              [[d \in Clients |-> Cursor(d)] EXCEPT ![c] = Cursor(c)']
         /\ [d \in Clients |-> Verdict(d)]' =
              [[d \in Clients |-> Verdict(d)] EXCEPT ![c] = Verdict(c)']
         /\ [d \in Clients |-> Offsets(d)]' =
              [[d \in Clients |-> Offsets(d)] EXCEPT ![c] = Offsets(c)']
         /\ topic' = topic /\ first' = first /\ grants' = grants
<1>1. \A d \in Clients \ {c} : request'[d] = request[d] /\ received'[d] = received[d]
  BY OthersKept
<1>2. \A d \in Clients \ {c} : Cursor(d)' = Cursor(d) /\ Verdict(d)' = Verdict(d)
  BY <1>1 DEF Cursor, Verdict, Frontier
<1>3. \A d \in Clients \ {c} : Offsets(d)' = Offsets(d)
  BY <1>1 DEF Offsets
<1>4. topic' = topic /\ first' = first /\ grants' = grants
  BY DEF ServeStep, Ended, SetOffsetStep, ConnectStep, ReadingStep, ReviewStep, DoneStep, Becomes
<1>5. QED
  BY <1>2, <1>3, <1>4

LEMMA ServeImplements ==
  ASSUME Shape, NEW c \in Clients, Resumes(c), ServeStep(c, request[c])
  PROVE  Service!Next \/ UNCHANGED Service!vars
<1> DEFINE r == request[c]
           cursor == [d \in Clients |-> Cursor(d)]
           verdict == [d \in Clients |-> Verdict(d)]
           seen == [d \in Clients |-> Offsets(d)]
<1>1. /\ cursor' = [cursor EXCEPT ![c] = Cursor(c)']
      /\ verdict' = [verdict EXCEPT ![c] = Verdict(c)']
      /\ seen' = [seen EXCEPT ![c] = Offsets(c)']
      /\ topic' = topic /\ first' = first /\ grants' = grants
  BY CursorsChange
<1>2. cursor[c] = Cursor(c) /\ verdict[c] = Verdict(c) /\ seen[c] = Offsets(c)
  OBVIOUS
<1>3. /\ Len(topic) \in Nat /\ MaxEvents \in Nat /\ Len(topic) <= MaxEvents
      /\ first \in 0 .. Len(topic)
  BY LenProperties, ServiceAssumption DEF Shape, TopicShape
<1>4. /\ r.position \in Int /\ r.current \in Int
      /\ r.state \in {"reading"} \cup Busy => r.position >= 0
      /\ r.state \in Busy => r.current \in 0 .. (Len(topic) - 1) /\ r.position = r.current + 1
      /\ r.state \in {"reviewing", "reviewed"} => Reviewable(Current(c))
  <2>1. r \in Request
    BY DEF Shape
  <2>2. r.position \in Int /\ r.current \in Int
    BY <2>1, WordsAssumption DEF Request
  <2>3. QED
    BY <2>2 DEF Shape, ClientShape
<1>5. received' = received => Offsets(c)' = Offsets(c)
  BY DEF Offsets
<1>6. (Offsets(c)' = Offsets(c) => seen' = seen) /\ (Cursor(c)' = Cursor(c) => cursor' = cursor)
      /\ (Verdict(c)' = Verdict(c) => verdict' = verdict)
  BY <1>1
<1>7. CASE Ended(c) /\ UNCHANGED received
  <2>1. Cursor(c)' = Closed /\ Verdict(c)' = "none"
    BY <1>7 DEF Ended, Becomes, Cursor, Verdict, Busy
  <2>2. Service!Disconnect(c)
    BY <1>1, <1>5, <1>6, <1>7, <2>1 DEF Service!Disconnect
  <2>3. QED
    BY <2>2 DEF Service!Next
<1>8. CASE SetOffsetStep(c, r)
  <2>1. Cursor(c)' = Cursor(c) /\ Verdict(c)' = Verdict(c)
    BY <1>8 DEF SetOffsetStep, Becomes, Cursor, Verdict, Busy
  <2>2. received' = received
    BY <1>8 DEF SetOffsetStep
  <2>3. QED
    BY <1>1, <1>5, <1>6, <2>1, <2>2 DEF Service!vars
<1>9. CASE ConnectStep(c, r)
  <2>1. PICK start \in Nat :
          /\ start = IF r.position = LastOffset THEN Len(topic)
                     ELSE IF r.position < first THEN first ELSE r.position
          /\ r.state = "connecting" /\ received' = received
          /\ request'[c].state = "reading" /\ request'[c].position = start
    BY <1>9 DEF ConnectStep, Becomes
  <2>2. Cursor(c) = Closed /\ Cursor(c)' = start /\ Verdict(c)' = Verdict(c)
    BY <2>1 DEF Cursor, Frontier, Verdict, Busy
  <2>3. start \in Service!StartingPoints(c)
    <3>1. CASE received[c] = <<>>
      <4>1. seen[c] = <<>>
        BY <1>2, <3>1, OffsetsShape
      <4>2. r.position \in LastOffset .. MaxEvents
        BY DEF Shape, ClientShape
      <4>3. start \in first .. MaxEvents
        BY <1>3, <2>1, <4>2 DEF LastOffset
      <4>4. QED
        BY <4>1, <4>3 DEF Service!StartingPoints
    <3>2. CASE received[c] # <<>>
      <4>1. seen[c] # <<>> /\ Len(seen[c]) = Len(received[c])
            /\ seen[c][Len(seen[c])] \in 0 .. (MaxEvents - 1)
        BY <1>2, <3>2, OffsetsShape
      <4>2. r.position = seen[c][Len(seen[c])]
        BY <1>2, <2>1, <3>2, <4>1 DEF Resumes
      <4>3. r.position # LastOffset
        BY <1>3, <4>1, <4>2 DEF LastOffset
      <4>4. QED
        BY <2>1, <4>1, <4>2, <4>3 DEF Service!StartingPoints
    <3>3. QED
      BY <3>1, <3>2
  <2>4. Service!Connect(c)
    BY <1>1, <1>2, <1>5, <1>6, <2>1, <2>2, <2>3 DEF Service!Connect
  <2>5. QED
    BY <2>4 DEF Service!Next
<1>10. CASE ReadingStep(c, r)
  <2>1. received' = received /\ r.state = "reading" /\ Verdict(c) = "none" /\ Cursor(c) = r.position
    BY <1>10 DEF ReadingStep, Verdict, Cursor, Frontier, Busy
  <2>2. CASE request'[c].state = "reading"
    <3>1. Cursor(c)' = first /\ Verdict(c)' = "none" /\ r.position < first
      BY <1>10, <2>2 DEF ReadingStep, Becomes, Cursor, Frontier, Verdict, Busy
    <3>2. r.position # Closed
      BY <1>4, ClosedAssumption
    <3>3. Service!Lag(c)
      BY <1>1, <1>2, <1>5, <1>6, <2>1, <3>1, <3>2 DEF Service!Lag
    <3>4. QED
      BY <3>3 DEF Service!Next
  <2>3. CASE request'[c].state # "reading"
    <3>1. Cursor(c)' = r.position /\ Verdict(c)' = "none"
      BY <1>10, <2>3 DEF ReadingStep, Becomes, Cursor, Frontier, Verdict, Busy
    <3>2. QED
      BY <1>1, <1>5, <1>6, <2>1, <3>1 DEF Service!vars
  <2>4. QED
    BY <2>2, <2>3
<1>11. ASSUME r.state \in Busy
       PROVE  /\ Cursor(c) = r.current /\ Service!HasEvent(c)
              /\ Service!Permitted(c) <=> PermittedBy(grants, c, Current(c))
              /\ r.state # "reviewed" => Verdict(c) = "none"
  <2>1. Cursor(c) = r.current /\ r.current # Closed
    BY <1>4, <1>11, ClosedAssumption DEF Cursor, Frontier
  <2>2. QED
    BY <1>2, <1>3, <1>4, <1>11, <2>1
    DEF Service!HasEvent, Service!Permitted, Current, Verdict
<1>12. CASE ReviewStep(c, r)
  <2>1. received' = received /\ r.state \in {"parsing", "reviewing"}
    BY <1>12 DEF ReviewStep
  <2>2. Cursor(c)' = Cursor(c)
    BY <1>12, <2>1 DEF ReviewStep, Becomes, Cursor, Frontier, Busy
  <2>3. CASE r.state = "parsing"
    <3>1. Verdict(c)' = Verdict(c)
      BY <1>12, <2>3 DEF ReviewStep, Becomes, Verdict
    <3>2. QED
      BY <1>1, <1>5, <1>6, <2>1, <2>2, <3>1 DEF Service!vars
  <2>4. CASE r.state = "reviewing"
    <3>1. Verdict(c)' = IF PermittedBy(grants, c, Current(c)) THEN "yes" ELSE "no"
      BY <1>4, <1>12, <2>4 DEF ReviewStep, Becomes, Verdict, PermittedBy
    <3>2. Service!Judge(c)
      BY <1>1, <1>2, <1>5, <1>6, <1>11, <2>1, <2>2, <2>4, <3>1 DEF Service!Judge, Busy
    <3>3. QED
      BY <3>2 DEF Service!Next
  <2>5. QED
    BY <2>1, <2>3, <2>4
<1>13. CASE DoneStep(c, r)
  <2>1. r.state \in {"parsing", "reviewed"} /\ r.state \in Busy
    BY <1>13 DEF DoneStep, Busy
  <2>2. Cursor(c)' = Cursor(c) + 1 /\ Verdict(c)' = "none"
    BY <1>4, <1>11, <1>13, <2>1 DEF DoneStep, Becomes, Cursor, Frontier, Verdict, Busy
  <2>3. Service!Advance(c)
    BY <1>1, <1>2, <2>2 DEF Service!Advance
  <2>4. CASE \/ r.state = "parsing" /\ ~Reviewable(Current(c)) /\ UNCHANGED received
             \/ r.state = "reviewed" /\ ~r.allowed /\ UNCHANGED received
    <3>1. Service!Skip(c)
      BY <1>1, <1>2, <1>5, <1>6, <1>11, <2>1, <2>3, <2>4 DEF Service!Skip, Verdict, PermittedBy
    <3>2. QED
      BY <3>1 DEF Service!Next
  <2>5. CASE /\ r.state = "reviewed" /\ r.allowed
             /\ received' = [received EXCEPT ![c] = Append(@, EncodeOffset(r.current))]
    <3>1. Offsets(c)' = Append(Offsets(c), r.current)
      BY <2>1, <2>5, OffsetsAppend
    <3>2. Service!Deliver(c)
      BY <1>1, <1>2, <1>11, <2>1, <2>3, <2>5, <3>1 DEF Service!Deliver, Verdict
    <3>3. QED
      BY <3>2 DEF Service!Next
  <2>6. QED
    BY <1>13, <2>4, <2>5 DEF DoneStep
<1>14. QED
  BY <1>7, <1>8, <1>9, <1>10, <1>12, <1>13 DEF ServeStep

LEMMA EnvironmentImplements ==
  ASSUME Shape, Environment \/ UNCHANGED vars, ~\E c \in Clients : Disconnect(c)
  PROVE  Service!Next \/ UNCHANGED Service!vars
<1>1. /\ UNCHANGED received
      /\ \/ (\E m \in Events : topic' = Append(topic, m)) /\ UNCHANGED <<first, grants>>
         \/ first < Len(topic) /\ first' = first + 1 /\ UNCHANGED <<topic, grants>>
         \/ UNCHANGED <<topic, first>>
  BY DEF Environment, Publish, Expire, ChangeGrant, Open, vars, kafkaVars, grantVars, clientVars
<1>2. \A c \in Clients : Offsets(c)' = Offsets(c)
  BY <1>1 DEF Offsets
<1>3. \A c \in Clients : Cursor(c)' = Cursor(c) /\ Verdict(c)' = Verdict(c)
  <2>1. CASE request' = request
    BY <2>1 DEF Cursor, Verdict, Frontier
  <2>2. CASE \E g \in Clients \X Types \X Objects : ChangeGrant(g)
    <3>1. \A c \in Clients :
            /\ request'[c].state = request[c].state
            /\ request'[c].position = request[c].position
            /\ request'[c].current = request[c].current
            /\ request'[c].allowed = request[c].allowed
      BY <2>2, GrantEffect DEF GrantStep
    <3>2. QED
      BY <3>1 DEF Cursor, Verdict, Frontier
  <2>3. CASE \E c \in Clients : Open(c)
    <3>1. PICK c \in Clients : OpenStep(c)
      BY <2>3, OpenEffect
    <3>2. \A d \in Clients \ {c} : request'[d] = request[d]
      BY <3>1 DEF OpenStep, Shape
    <3>3. request[c].state = "none" /\ request'[c].state = "opened"
      BY <3>1 DEF OpenStep
    <3>4. QED
      BY <3>2, <3>3 DEF Cursor, Verdict, Frontier, Busy
  <2>4. QED
    BY <2>1, <2>2, <2>3 DEF Environment, Publish, Expire, vars, kafkaVars, grantVars, clientVars
<1>4. /\ [c \in Clients |-> Cursor(c)]' = [c \in Clients |-> Cursor(c)]
      /\ [c \in Clients |-> Verdict(c)]' = [c \in Clients |-> Verdict(c)]
      /\ [c \in Clients |-> Offsets(c)]' = [c \in Clients |-> Offsets(c)]
  BY <1>2, <1>3
<1>5. Service!Environment
  BY <1>1, <1>4 DEF Service!Environment
<1>6. QED
  BY <1>5 DEF Service!Next

\* The service implements the cursor over the events: requests that end and start
\* again, identifiers, readers that connect late and verdicts that are on their way
\* do nothing else (List and processMessage).
THEOREM ServiceImplementsSubscription == Spec => ImplementsSubscription
<1>1. Init => Service!Init
  <2> SUFFICES ASSUME Init PROVE Service!Init
    OBVIOUS
  <2>1. \A c \in Clients : Cursor(c) = Closed /\ Verdict(c) = "none" /\ Offsets(c) = <<>>
    <3> TAKE c \in Clients
    <3>1. request[c].state = "none" /\ received[c] = <<>>
      BY DEF Init, NoRequest
    <3>2. Shape
      BY ShapeInit
    <3>3. QED
      BY <3>1, <3>2, OffsetsShape DEF Cursor, Verdict, Busy
  <2>2. QED
    BY <2>1 DEF Init, Service!Init
<1>2. ASSUME Shape, Memory, [Next]_vars
      PROVE  [Service!Next]_(Service!vars)
  <2>1. CASE \E c \in Clients : Serve(c) \/ Disconnect(c)
    <3>1. PICK c \in Clients : ServeStep(c, request[c])
      BY <1>2, <2>1, ServeEffect
    <3>2. QED
      BY <1>2, <3>1, ServeImplements DEF Memory
  <2>2. CASE ~\E c \in Clients : Serve(c) \/ Disconnect(c)
    BY <1>2, <2>2, EnvironmentImplements DEF Next
  <2>3. QED
    BY <2>1, <2>2
<1>3. QED
  BY <1>1, <1>2, ShapeInvariant, MemoryInvariant, PTL DEF Spec, ImplementsSubscription, Service!Spec

----------------------------------------------------------------------------

Reads(c) == request[c].state \in {"reading"} \cup Busy

Start(c) == IF received[c] = <<>> THEN request[c].begins ELSE Offsets(c)[1]

Last(c) == Offsets(c)[Len(received[c])]

\* The client hasn't missed this event.
NotMissed(c, off) == (off >= first /\ AlwaysPermitted(c, off)) => HasReceived(c, off)

\* Nothing has been missed up to the last event received, in case the next request
\* continues there, and nothing up to the frontier of the request.  The frontier is
\* beyond the end of the topic only if the request started there.  And a verdict
\* says no only if the permission isn't a constant one.
Progress(c) ==
  /\ received[c] # <<>> => \A off \in Offsets(c)[1] .. Last(c) : NotMissed(c, off)
  /\ Reads(c) => \A off \in Start(c) .. (Frontier(c) - 1) : NotMissed(c, off)
  /\ Reads(c) => Frontier(c) <= Len(topic)
                 \/ (received[c] = <<>> /\ Frontier(c) = request[c].begins)
  /\ request[c].state = "reviewed" /\ ~request[c].allowed =>
       Subject(c, Current(c)) \notin grants \ disputed

\* Time goes on: events arrive and go, and permissions are disputed.
Later ==
  /\ TopicGrows
  /\ first \in Nat /\ first' \in Nat /\ first <= first'
  /\ grants' \ disputed' \subseteq grants \ disputed

LEMMA NotMissedKept ==
  ASSUME Shape, Later, NEW c \in Clients, NEW off \in 0 .. (Len(topic) - 1), NotMissed(c, off),
         HasReceived(c, off) => HasReceived(c, off)'
  PROVE  NotMissed(c, off)'
<1> SUFFICES ASSUME off >= first', AlwaysPermitted(c, off)' PROVE HasReceived(c, off)'
  BY DEF NotMissed
<1>1. Len(topic) \in Nat
  BY LenProperties DEF Shape, TopicShape
<1>2. topic'[off + 1] = topic[off + 1] /\ off < Len(topic)
  BY <1>1 DEF Later, TopicGrows
<1>3. AlwaysPermitted(c, off)
  BY <1>2 DEF AlwaysPermitted, PermittedBy, Reviewable, Subject, Later
<1>4. off >= first
  BY DEF Later
<1>5. QED
  BY <1>3, <1>4 DEF NotMissed

\* Numbers of a client.
LEMMA Numbers ==
  ASSUME Shape, NEW c \in Clients
  PROVE  /\ Len(topic) \in Nat /\ first \in 0 .. Len(topic)
         /\ request[c].position \in Int /\ request[c].current \in Int
         /\ request[c].begins \in Int
         /\ Reads(c) => Frontier(c) \in Nat /\ request[c].begins \in Nat
         /\ request[c].state \in Busy =>
              request[c].current \in 0 .. (Len(topic) - 1)
              /\ request[c].position = request[c].current + 1
         /\ received[c] # <<>> =>
              /\ Len(received[c]) \in Nat \ {0}
              /\ Last(c) \in 0 .. (Len(topic) - 1)
              /\ Offsets(c)[1] \in 0 .. (Len(topic) - 1)
<1>1. Len(topic) \in Nat /\ first \in 0 .. Len(topic)
  BY LenProperties DEF Shape, TopicShape
<1>2. request[c].position \in Int /\ request[c].current \in Int /\ request[c].begins \in Int
  <2>1. request[c] \in Request
    BY DEF Shape
  <2>2. QED
    BY <2>1, WordsAssumption DEF Request
<1>3. /\ Reads(c) => request[c].position >= 0 /\ request[c].begins >= 0
      /\ request[c].state \in Busy =>
           request[c].current \in 0 .. (Len(topic) - 1)
           /\ request[c].position = request[c].current + 1
      /\ \A i \in DOMAIN received[c] : Offsets(c)[i] < Len(topic)
  BY DEF Shape, ClientShape, Reads
<1>4. Reads(c) => Frontier(c) \in Nat /\ request[c].begins \in Nat
  BY <1>1, <1>2, <1>3 DEF Reads, Frontier
<1>5. ASSUME received[c] # <<>>
      PROVE  /\ Len(received[c]) \in Nat \ {0}
             /\ Last(c) \in 0 .. (Len(topic) - 1)
             /\ Offsets(c)[1] \in 0 .. (Len(topic) - 1)
  <2>1. /\ Offsets(c) \in Seq(0 .. (MaxEvents - 1)) /\ Len(Offsets(c)) = Len(received[c])
        /\ Len(received[c]) \in Nat /\ Len(received[c]) > 0
        /\ DOMAIN received[c] = 1 .. Len(received[c])
    BY <1>5, OffsetsShape
  <2>2. Offsets(c)[1] \in 0 .. (MaxEvents - 1)
        /\ Offsets(c)[Len(received[c])] \in 0 .. (MaxEvents - 1)
    <3>1. 1 \in 1 .. Len(Offsets(c)) /\ Len(received[c]) \in 1 .. Len(Offsets(c))
      BY <2>1
    <3>2. QED
      BY <2>1, <3>1, ElementOfSeq
  <2>3. Offsets(c)[1] < Len(topic) /\ Offsets(c)[Len(received[c])] < Len(topic)
    BY <1>3, <2>1
  <2>4. QED
    BY <1>1, <2>1, <2>2, <2>3 DEF Last
<1>6. QED
  BY <1>1, <1>2, <1>3, <1>4, <1>5

\* While the request of a client stays where it is, it misses nothing.
LEMMA ProgressKept ==
  ASSUME Shape, Later, NEW c \in Clients, Progress(c),
         received'[c] = received[c],
         request'[c].state = request[c].state, request'[c].position = request[c].position,
         request'[c].current = request[c].current, request'[c].begins = request[c].begins,
         request'[c].allowed = request[c].allowed
  PROVE  Progress(c)'
<1>1. Offsets(c)' = Offsets(c)
  BY DEF Offsets
<1>2. /\ Last(c)' = Last(c) /\ Start(c)' = Start(c) /\ Frontier(c)' = Frontier(c)
      /\ Reads(c)' = Reads(c)
  BY <1>1 DEF Last, Start, Frontier, Reads
<1>3. \A off \in 0 .. (Len(topic) - 1) : NotMissed(c, off) => NotMissed(c, off)'
  <2>1. \A off : HasReceived(c, off)' = HasReceived(c, off)
    BY <1>1 DEF HasReceived
  <2>2. QED
    BY <2>1, NotMissedKept
<1>4. Len(topic) \in Nat /\ Len(topic') \in Nat /\ Len(topic) <= Len(topic')
  BY LenProperties DEF Shape, TopicShape, Later, TopicGrows
<1>5. received[c] # <<>> => \A off \in Offsets(c)[1] .. Last(c) : NotMissed(c, off)'
  BY <1>3, <1>4, Numbers DEF Progress
<1>6. Reads(c) => \A off \in Start(c) .. (Frontier(c) - 1) : NotMissed(c, off)'
  <2> SUFFICES ASSUME Reads(c), NEW off \in Start(c) .. (Frontier(c) - 1)
               PROVE  NotMissed(c, off)'
    OBVIOUS
  <2>1. Frontier(c) <= Len(topic) \/ (received[c] = <<>> /\ Frontier(c) = request[c].begins)
    BY DEF Progress
  <2>2. Start(c) \in Nat /\ Frontier(c) \in Nat
    BY Numbers DEF Start
  <2>3. Frontier(c) <= Len(topic)
    BY <2>1, <2>2 DEF Start
  <2>4. off \in 0 .. (Len(topic) - 1) /\ NotMissed(c, off)
    BY <1>4, <2>2, <2>3 DEF Progress
  <2>5. QED
    BY <1>3, <2>4
<1>7. Reads(c) => Frontier(c) <= Len(topic')
                  \/ (received[c] = <<>> /\ Frontier(c) = request[c].begins)
  BY <1>4, Numbers DEF Progress
<1>8. (request[c].state = "reviewed" /\ ~request[c].allowed =>
         Subject(c, Current(c)) \notin grants \ disputed)'
  <2> SUFFICES ASSUME request[c].state = "reviewed", ~request[c].allowed
               PROVE  (Subject(c, Current(c)) \notin grants \ disputed)'
    OBVIOUS
  <2>1. Current(c)' = Current(c)
    BY <1>4, Numbers DEF Busy, Current, Later, TopicGrows
  <2>2. Subject(c, Current(c)) \notin grants \ disputed
    BY DEF Progress
  <2>3. QED
    BY <2>1, <2>2 DEF Subject, Later
<1>9. QED
  BY <1>1, <1>2, <1>5, <1>6, <1>7, <1>8 DEF Progress

\* The steps of its own request, other than deliveries.
LEMMA ProgressQuiet ==
  ASSUME Shape, NEW c \in Clients, Progress(c), received' = received, topic' = topic,
         first' = first, grants' = grants, disputed' = disputed,
         Reads(c)' =>
           /\ Frontier(c)' <= Len(topic)
              \/ (received[c] = <<>> /\ Frontier(c)' = request'[c].begins)
           /\ \A off \in Start(c)' .. (Frontier(c)' - 1) : NotMissed(c, off),
         (request[c].state = "reviewed" /\ ~request[c].allowed =>
            Subject(c, Current(c)) \notin grants \ disputed)'
  PROVE  Progress(c)'
<1>1. Offsets(c)' = Offsets(c)
  BY DEF Offsets
<1>2. \A off : NotMissed(c, off)' = NotMissed(c, off)
  BY <1>1 DEF NotMissed, AlwaysPermitted, PermittedBy, Reviewable, Subject, HasReceived
<1>3. Last(c)' = Last(c)
  BY <1>1 DEF Last
<1>4. QED
  BY <1>1, <1>2, <1>3 DEF Progress

LEMMA ProgressDelivery ==
  ASSUME Shape, NEW c \in Clients, Progress(c), request[c].state = "reviewed",
         received' = [received EXCEPT ![c] = Append(@, EncodeOffset(request[c].current))],
         Becomes(c, "reading", request[c].from, request[c].position, LastOffset, FALSE,
                 request[c].begins, FALSE)
  PROVE  Progress(c)'
<1> DEFINE n == Len(received[c])
<1>0. PICK q : q = request[c].current
  OBVIOUS
<1>1. /\ topic' = topic /\ first' = first /\ grants' = grants /\ disputed' = disputed
      /\ request'[c].state = "reading" /\ request'[c].position = q + 1
      /\ request'[c].begins = request[c].begins /\ request[c].state \in Busy
  BY <1>0, Numbers DEF Becomes, Busy
<1>2. /\ Frontier(c) = q /\ Frontier(c)' = q + 1 /\ Reads(c) /\ Reads(c)'
      /\ q \in 0 .. (Len(topic) - 1) /\ Len(topic) \in Nat
  BY <1>0, <1>1, Numbers DEF Frontier, Reads, Busy
<1>3. Offsets(c)' = Append(Offsets(c), q)
  BY <1>0, <1>1, OffsetsAppend
<1>4. /\ Offsets(c) \in Seq(Int) /\ Len(Offsets(c)) = n /\ n \in Nat
      /\ DOMAIN received[c] = 1 .. n
  <2>1. Offsets(c) \in Seq(0 .. (MaxEvents - 1)) /\ 0 .. (MaxEvents - 1) \subseteq Int
    BY OffsetsShape
  <2>2. Offsets(c) \in Seq(Int)
    BY <2>1, SeqMonotonic
  <2>3. QED
    BY <2>2, OffsetsShape
<1>5. /\ Offsets(c)'[n + 1] = q
      /\ \A i \in 1 .. n : Offsets(c)'[i] = Offsets(c)[i]
  <2>1. q \in Int
    BY <1>2
  <2>2. QED
    BY <1>3, <1>4, <2>1, AppendProperties
<1>6. DOMAIN received'[c] = 1 .. (n + 1) /\ Len(received'[c]) = n + 1 /\ received'[c] # <<>>
  <2>1. received'[c] \in Seq(Issued) /\ Len(received'[c]) = n + 1
    BY <1>1, DeliveryAppends
  <2>2. QED
    BY <1>4, <2>1, LenProperties, EmptySeq
<1>7. HasReceived(c, q)' /\ \A off : HasReceived(c, off) => HasReceived(c, off)'
  <2>1. HasReceived(c, q)'
    BY <1>4, <1>5, <1>6 DEF HasReceived
  <2>2. ASSUME NEW off, HasReceived(c, off)
        PROVE  HasReceived(c, off)'
    <3>1. PICK i \in 1 .. n : Offsets(c)[i] = off
      BY <1>4, <2>2 DEF HasReceived
    <3>2. i \in DOMAIN received'[c] /\ Offsets(c)'[i] = off
      BY <1>4, <1>5, <1>6, <3>1
    <3>3. QED
      BY <3>2 DEF HasReceived
  <2>3. QED
    BY <2>1, <2>2
<1>8. NotMissed(c, q)' /\ \A off : NotMissed(c, off) => NotMissed(c, off)'
  BY <1>1, <1>7 DEF NotMissed, AlwaysPermitted, PermittedBy, Reviewable, Subject
<1>9. Last(c)' = q
  BY <1>5, <1>6 DEF Last
<1>10. \A off \in Start(c)' .. q : NotMissed(c, off)'
  <2>1. CASE received[c] = <<>>
    <3>1. n = 0
      BY <1>4, <2>1, EmptySeq
    <3>2. Start(c)' = q
      BY <1>5, <1>6, <3>1 DEF Start
    <3>3. QED
      BY <1>2, <1>8, <3>2
  <2>2. CASE received[c] # <<>>
    <3>1. n > 0
      BY <2>2, OffsetsShape
    <3>2. Start(c)' = Start(c) /\ Start(c) \in Int
      BY <1>4, <1>5, <1>6, <2>2, <3>1, Numbers DEF Start
    <3>3. \A off \in Start(c) .. (q - 1) : NotMissed(c, off)
      BY <1>2 DEF Progress
    <3>4. QED
      BY <1>2, <1>8, <3>2, <3>3
  <2>3. QED
    BY <2>1, <2>2
<1>11. Start(c)' = Offsets(c)'[1]
  BY <1>6 DEF Start
<1>12. QED
  BY <1>1, <1>2, <1>6, <1>9, <1>10, <1>11 DEF Progress

LEMMA ProgressServe ==
  ASSUME Shape, NEW c \in Clients, Resumes(c), Progress(c), ServeStep(c, request[c])
  PROVE  Progress(c)'
<1> DEFINE r == request[c]
           Denied == request[c].state = "reviewed" /\ ~request[c].allowed =>
                       Subject(c, Current(c)) \notin grants \ disputed
<1>1. topic' = topic /\ first' = first /\ grants' = grants /\ disputed' = disputed
  BY DEF ServeStep, Ended, SetOffsetStep, ConnectStep, ReadingStep, ReviewStep, DoneStep, Becomes
<1>2. CASE (Ended(c) /\ UNCHANGED received) \/ SetOffsetStep(c, r)
  <2>1. ~Reads(c)' /\ Denied' /\ received' = received
    BY <1>2 DEF Ended, SetOffsetStep, Becomes, Reads, Busy
  <2>2. QED
    BY <1>1, <2>1, ProgressQuiet
<1>3. CASE ConnectStep(c, r)
  <2>1. PICK start \in Nat :
          /\ start = IF r.position = LastOffset THEN Len(topic)
                     ELSE IF r.position < first THEN first ELSE r.position
          /\ r.state = "connecting" /\ received' = received
          /\ request'[c].state = "reading" /\ request'[c].position = start
          /\ request'[c].begins = start
    BY <1>3 DEF ConnectStep, Becomes
  <2>2. Frontier(c)' = start /\ Reads(c)' /\ Denied'
    BY <2>1 DEF Frontier, Reads, Busy
  <2>3. CASE received[c] = <<>>
    <3>1. Start(c)' = start
      BY <2>1, <2>3 DEF Start
    <3>2. \A off \in Start(c)' .. (Frontier(c)' - 1) : NotMissed(c, off)
      BY <2>2, <3>1
    <3>3. QED
      BY <1>1, <2>1, <2>2, <2>3, <3>2, ProgressQuiet
  <2>4. CASE received[c] # <<>>
    <3>1. r.position = Last(c)
      BY <2>1, <2>4 DEF Resumes, Last
    <3>2. /\ Last(c) \in 0 .. (Len(topic) - 1) /\ Len(topic) \in Nat /\ first \in 0 .. Len(topic)
          /\ Offsets(c)[1] \in Int
      BY <2>4, Numbers
    <3>3. start <= Len(topic) /\ (start = Last(c) \/ (Last(c) < first /\ start = first))
      BY <2>1, <3>1, <3>2 DEF LastOffset
    <3>4. Start(c)' = Offsets(c)[1]
      BY <2>1, <2>4 DEF Start, Offsets
    <3>5. ASSUME NEW off \in Start(c)' .. (Frontier(c)' - 1)
          PROVE  NotMissed(c, off)
      <4>1. CASE off <= Last(c)
        BY <2>2, <2>4, <3>2, <3>3, <3>4, <4>1 DEF Progress
      <4>2. CASE off > Last(c)
        BY <2>2, <3>2, <3>3, <3>4, <4>2 DEF NotMissed
      <4>3. QED
        BY <2>2, <3>2, <3>4, <4>1, <4>2
    <3>6. QED
      BY <1>1, <2>1, <2>2, <3>3, <3>5, ProgressQuiet
  <2>5. QED
    BY <2>3, <2>4
<1>4. CASE ReadingStep(c, r)
  <2>1. /\ received' = received /\ r.state = "reading" /\ Reads(c) /\ Frontier(c) = r.position
        /\ request'[c].begins = r.begins
    BY <1>4 DEF ReadingStep, Becomes, Reads, Frontier, Busy
  <2>2. Start(c)' = Start(c) /\ Start(c) \in Int
    BY <2>1, Numbers DEF Start, Offsets
  <2>3. CASE request'[c].state = "reading"
    <3>1. Frontier(c)' = first /\ Reads(c)' /\ Denied' /\ r.position < first
      BY <1>4, <2>3 DEF ReadingStep, Becomes, Frontier, Reads, Busy
    <3>2. first \in 0 .. Len(topic) /\ r.position \in Nat /\ Len(topic) \in Nat
      BY <2>1, Numbers
    <3>3. ASSUME NEW off \in Start(c)' .. (Frontier(c)' - 1)
          PROVE  NotMissed(c, off)
      BY <2>2, <3>1, <3>2 DEF NotMissed
    <3>4. QED
      BY <1>1, <2>1, <3>1, <3>2, <3>3, ProgressQuiet
  <2>4. CASE request'[c].state # "reading"
    <3>1. Frontier(c)' = r.position /\ Reads(c)' /\ Denied'
      BY <1>4, <2>4 DEF ReadingStep, Becomes, Frontier, Reads, Busy
    <3>2. QED
      BY <1>1, <2>1, <2>2, <3>1, ProgressQuiet DEF Progress
  <2>5. QED
    BY <2>3, <2>4
<1>5. CASE ReviewStep(c, r)
  <2>1. /\ received' = received /\ r.state \in Busy /\ request'[c].state \in Busy
        /\ request'[c].current = r.current /\ request'[c].begins = r.begins
        /\ request'[c].state = "reviewed" =>
             request'[c].allowed = (Subject(c, Current(c)) \in grants)
    BY <1>5 DEF ReviewStep, Becomes, Busy
  <2>2. /\ Reads(c) /\ Frontier(c)' = Frontier(c) /\ Start(c)' = Start(c)
        /\ Current(c)' = Current(c)
    BY <1>1, <2>1 DEF Reads, Frontier, Start, Offsets, Current
  <2>3. Denied'
    BY <1>1, <2>1, <2>2 DEF Subject
  <2>4. QED
    BY <1>1, <2>1, <2>2, <2>3, ProgressQuiet DEF Progress
<1>6. CASE DoneStep(c, r)
  <2>1. CASE /\ r.state = "reviewed" /\ r.allowed
             /\ received' = [received EXCEPT ![c] = Append(@, EncodeOffset(r.current))]
    BY <1>6, <2>1, ProgressDelivery DEF DoneStep
  <2>2. CASE \/ r.state = "parsing" /\ ~Reviewable(Current(c)) /\ UNCHANGED received
             \/ r.state = "reviewed" /\ ~r.allowed /\ UNCHANGED received
    <3>1. /\ r.state \in Busy /\ received' = received /\ request'[c].state = "reading"
          /\ request'[c].position = r.position /\ request'[c].begins = r.begins
      BY <1>6, <2>2 DEF DoneStep, Becomes, Busy
    <3>2. /\ Reads(c) /\ Reads(c)' /\ Denied' /\ Start(c)' = Start(c)
          /\ Frontier(c) = r.current /\ Frontier(c)' = r.current + 1
          /\ r.current \in 0 .. (Len(topic) - 1) /\ Len(topic) \in Nat /\ Start(c) \in Int
      BY <3>1, Numbers DEF Reads, Frontier, Start, Offsets, Busy
    <3>3. NotMissed(c, r.current)
      <4>1. ~PermittedBy(grants \ disputed, c, Current(c))
        BY <2>2 DEF Progress, PermittedBy
      <4>2. QED
        BY <4>1 DEF NotMissed, AlwaysPermitted, Current
    <3>4. ASSUME NEW off \in Start(c)' .. (Frontier(c)' - 1)
          PROVE  NotMissed(c, off)
      <4>1. off = r.current \/ off \in Start(c) .. (Frontier(c) - 1)
        BY <3>2
      <4>2. QED
        BY <3>2, <3>3, <4>1 DEF Progress
    <3>5. QED
      BY <1>1, <3>1, <3>2, <3>4, ProgressQuiet
  <2>3. QED
    BY <1>6, <2>1, <2>2 DEF DoneStep
<1>7. QED
  BY <1>2, <1>3, <1>4, <1>5, <1>6 DEF ServeStep

AllProgress == \A c \in Clients : Progress(c)

LEMMA ProgressInit == Init => AllProgress
<1> SUFFICES ASSUME Init, NEW c \in Clients PROVE Progress(c)
  BY DEF AllProgress
<1>1. request[c].state = "none" /\ received[c] = <<>>
  BY DEF Init, NoRequest
<1>2. QED
  BY <1>1 DEF Progress, Reads, Busy

LEMMA ProgressStep ==
  ASSUME Shape, Memory, AllProgress, [Next]_vars
  PROVE  AllProgress'
<1>1. first \in Nat
  BY LenProperties DEF Shape, TopicShape
<1>2. CASE \E m \in Events : Publish(m)
  <2>1. Later /\ request' = request /\ received' = received
    BY <1>1, <1>2, PublishGrows DEF Later, grantVars, clientVars
  <2>2. QED
    BY <2>1, ProgressKept DEF AllProgress
<1>3. CASE Expire \/ UNCHANGED vars
  <2>1. /\ topic' = topic /\ grants' = grants /\ disputed' = disputed /\ request' = request
        /\ received' = received /\ (first' = first + 1 \/ first' = first)
    BY <1>3 DEF Expire, vars, kafkaVars, grantVars, clientVars
  <2>2. Later
    BY <1>1, <2>1, SameTopic DEF Later
  <2>3. QED
    BY <2>1, <2>2, ProgressKept DEF AllProgress
<1>4. ASSUME NEW g \in Clients \X Types \X Objects, ChangeGrant(g)
      PROVE  AllProgress'
  <2>1. GrantStep(g)
    BY <1>4, GrantEffect
  <2>2. Later
    BY <1>1, <2>1, SameTopic DEF Later, GrantStep
  <2>3. ASSUME NEW c \in Clients
        PROVE  Progress(c)'
    <3>1. /\ received' = received
          /\ request'[c].state = request[c].state
          /\ request'[c].position = request[c].position
          /\ request'[c].current = request[c].current
          /\ request'[c].begins = request[c].begins
          /\ request'[c].allowed = request[c].allowed
      BY <2>1 DEF GrantStep
    <3>2. QED
      BY <2>2, <3>1, ProgressKept DEF AllProgress
  <2>4. QED
    BY <2>3 DEF AllProgress
<1>5. ASSUME NEW c \in Clients, Open(c)
      PROVE  AllProgress'
  <2>1. OpenStep(c)
    BY <1>5, OpenEffect
  <2>2. /\ topic' = topic /\ first' = first /\ grants' = grants /\ disputed' = disputed
        /\ received' = received /\ request'[c].state = "opened"
    BY <2>1 DEF OpenStep
  <2>3. Later
    BY <1>1, <2>2, SameTopic DEF Later
  <2>4. ASSUME NEW d \in Clients \ {c}
        PROVE  Progress(d)'
    <3>1. request'[d] = request[d]
      BY <2>1 DEF OpenStep, Shape
    <3>2. QED
      BY <2>2, <2>3, <3>1, ProgressKept DEF AllProgress
  <2>5. Progress(c)'
    <3>1. ~Reads(c)' /\ request'[c].state # "reviewed"
      BY <2>2 DEF Reads, Busy
    <3>2. QED
      BY <2>2, <3>1, ProgressQuiet DEF AllProgress
  <2>6. QED
    BY <2>4, <2>5 DEF AllProgress
<1>6. ASSUME NEW c \in Clients, Serve(c) \/ Disconnect(c)
      PROVE  AllProgress'
  <2>1. ServeStep(c, request[c])
    BY <1>6, ServeEffect
  <2>2. topic' = topic /\ first' = first /\ grants' = grants /\ disputed' = disputed
    BY <2>1
    DEF ServeStep, Ended, SetOffsetStep, ConnectStep, ReadingStep, ReviewStep, DoneStep, Becomes
  <2>3. Later
    BY <1>1, <2>2, SameTopic DEF Later
  <2>4. ASSUME NEW d \in Clients \ {c}
        PROVE  Progress(d)'
    BY <2>1, <2>3, OthersKept, ProgressKept DEF AllProgress
  <2>5. Progress(c)'
    BY <2>1, ProgressServe DEF AllProgress, Memory
  <2>6. QED
    BY <2>4, <2>5 DEF AllProgress
<1>7. QED
  BY <1>2, <1>3, <1>4, <1>5, <1>6 DEF Next, Environment

LEMMA ProgressInvariant == Spec => []AllProgress
<1>1. QED
  BY ShapeInvariant, MemoryInvariant, ProgressInit, ProgressStep, PTL DEF Spec

\* However its requests fail and resume, a client that continues from the last event
\* that it received misses none of the permitted ones (List, processMessage).
THEOREM ClientsMissNothing == Spec => []NothingMissed
<1>1. Shape /\ AllProgress => NothingMissed
  <2> SUFFICES ASSUME Shape, AllProgress, NEW c \in Clients,
                      request[c].state \in {"reading"} \cup Busy,
                      NEW off \in Start(c) .. (Frontier(c) - 1), off >= first,
                      AlwaysPermitted(c, off)
               PROVE  HasReceived(c, off)
    BY DEF NothingMissed, Start
  <2>1. QED
    BY DEF AllProgress, Progress, Reads, NotMissed
<1>2. QED
  BY <1>1, ShapeInvariant, ProgressInvariant, PTL

----------------------------------------------------------------------------

Distinct(c) == {Offsets(c)[i] : i \in DOMAIN received[c]}

\* The request may still deliver again the last event that the client received.
MayRepeat(c) ==
  \/ request[c].state \in {"opened", "connecting"}
  \/ Reads(c) /\ Frontier(c) <= Last(c)

\* A client never goes back in time, and each of its requests pays for at most one
\* event that comes again.
Order(c) ==
  /\ \A i, j \in DOMAIN received[c] : i < j => Offsets(c)[i] <= Offsets(c)[j]
  /\ request[c].state # "none" => requests[c] >= 1
  /\ Reads(c) /\ received[c] # <<>> => Last(c) <= Frontier(c)
  /\ received[c] # <<>> =>
       /\ Len(received[c]) < requests[c] + Cardinality(Distinct(c))
       /\ MayRepeat(c) => Len(received[c]) + 1 < requests[c] + Cardinality(Distinct(c))

LEMMA DistinctFinite ==
  ASSUME Shape, NEW c \in Clients
  PROVE  IsFiniteSet(Distinct(c)) /\ Cardinality(Distinct(c)) \in Nat
<1>1. DOMAIN received[c] = 1 .. Len(received[c]) /\ Len(received[c]) \in Nat
  BY OffsetsShape
<1>2. Distinct(c) \subseteq 0 .. (MaxEvents - 1)
  <2>1. Offsets(c) \in Seq(0 .. (MaxEvents - 1)) /\ Len(Offsets(c)) = Len(received[c])
    BY OffsetsShape
  <2>2. QED
    BY <1>1, <2>1, ElementOfSeq DEF Distinct
<1>3. IsFiniteSet(0 .. (MaxEvents - 1))
  <2>1. MaxEvents \in Nat
    BY ServiceAssumption
  <2>2. 0 \in Int /\ MaxEvents - 1 \in Int
    BY <2>1
  <2>3. QED
    BY <2>2, FS_Interval
<1>4. QED
  BY <1>2, <1>3, FS_Subset, FS_CardinalityType

LEMMA OrderQuiet ==
  ASSUME Shape, NEW c \in Clients, Order(c), received'[c] = received[c],
         requests'[c] \in Nat, requests[c] \in Nat, requests[c] <= requests'[c],
         request'[c].state # "none" => requests'[c] >= 1,
         Reads(c)' /\ received[c] # <<>> => Last(c) <= Frontier(c)',
         MayRepeat(c)' /\ received[c] # <<>> => MayRepeat(c) \/ requests[c] < requests'[c]
  PROVE  Order(c)'
<1>1. Offsets(c)' = Offsets(c)
  BY DEF Offsets
<1>2. Last(c)' = Last(c) /\ Distinct(c)' = Distinct(c)
  BY <1>1 DEF Last, Distinct
<1>3. Cardinality(Distinct(c)) \in Nat /\ Len(received[c]) \in Nat
  BY DistinctFinite, OffsetsShape
<1>4. received[c] # <<>> =>
        Len(received[c]) < requests'[c] + Cardinality(Distinct(c))
  BY <1>3 DEF Order
<1>5. received[c] # <<>> /\ MayRepeat(c)' =>
        Len(received[c]) + 1 < requests'[c] + Cardinality(Distinct(c))
  BY <1>3 DEF Order
<1>6. QED
  BY <1>1, <1>2, <1>4, <1>5 DEF Order

LEMMA OrderDelivery ==
  ASSUME Shape, NEW c \in Clients, Order(c), request[c].state = "reviewed",
         received' = [received EXCEPT ![c] = Append(@, EncodeOffset(request[c].current))],
         Becomes(c, "reading", request[c].from, request[c].position, LastOffset, FALSE,
                 request[c].begins, FALSE)
  PROVE  Order(c)'
<1> DEFINE n == Len(received[c])
<1>0. PICK q : q = request[c].current
  OBVIOUS
<1>1. /\ request'[c].state = "reading" /\ request'[c].position = q + 1
      /\ requests'[c] = requests[c] /\ requests[c] \in Nat /\ request[c].state \in Busy
      /\ q \in Nat
  BY <1>0, Numbers DEF Becomes, Busy, Shape
<1>2. Frontier(c) = q /\ Frontier(c)' = q + 1 /\ Reads(c) /\ Reads(c)'
  BY <1>0, <1>1 DEF Frontier, Reads, Busy
<1>3. /\ Offsets(c)'[n + 1] = q /\ \A i \in 1 .. n : Offsets(c)'[i] = Offsets(c)[i]
      /\ Len(received'[c]) = n + 1
  BY <1>0, <1>1, DeliveryAppends
<1>4. /\ n \in Nat /\ DOMAIN received[c] = 1 .. n /\ (received[c] = <<>> <=> n = 0)
      /\ \A i \in 1 .. n : Offsets(c)[i] \in Nat
  <2>1. /\ Offsets(c) \in Seq(0 .. (MaxEvents - 1)) /\ Len(Offsets(c)) = n /\ n \in Nat
        /\ DOMAIN received[c] = 1 .. n
    BY OffsetsShape
  <2>2. \A i \in 1 .. n : Offsets(c)[i] \in 0 .. (MaxEvents - 1)
    BY <2>1, ElementOfSeq
  <2>3. received[c] = <<>> <=> n = 0
    BY EmptySeq DEF Shape
  <2>4. QED
    BY <2>1, <2>2, <2>3
<1>5. DOMAIN received'[c] = 1 .. (n + 1) /\ received'[c] # <<>>
  <2>1. received'[c] \in Seq(Issued)
    BY <1>0, <1>1, DeliveryAppends
  <2>2. QED
    BY <1>3, <1>4, <2>1, LenProperties, EmptySeq
<1>6. \A i \in 1 .. n : Offsets(c)[i] <= q
  <2> SUFFICES ASSUME NEW i \in 1 .. n PROVE Offsets(c)[i] <= q
    OBVIOUS
  <2>1. Last(c) = Offsets(c)[n] /\ Last(c) <= q /\ n \in 1 .. n
    BY <1>2, <1>4 DEF Order, Last
  <2>2. Offsets(c)[i] <= Offsets(c)[n]
    BY <1>4, <2>1 DEF Order
  <2>3. QED
    BY <1>1, <1>4, <2>1, <2>2
<1>7. \A i, j \in DOMAIN received'[c] : i < j => Offsets(c)'[i] <= Offsets(c)'[j]
  <2> SUFFICES ASSUME NEW i \in 1 .. (n + 1), NEW j \in 1 .. (n + 1), i < j
               PROVE  Offsets(c)'[i] <= Offsets(c)'[j]
    BY <1>5
  <2>1. i \in 1 .. n
    BY <1>4
  <2>2. CASE j = n + 1
    BY <1>3, <1>6, <2>1, <2>2
  <2>3. CASE j # n + 1
    <3>1. j \in 1 .. n
      BY <1>4, <2>3
    <3>2. QED
      BY <1>3, <1>4, <2>1, <3>1 DEF Order
  <2>4. QED
    BY <2>2, <2>3
<1>8. Last(c)' = q
  BY <1>3, <1>5 DEF Last
<1>9. Distinct(c)' = Distinct(c) \cup {q}
  <2>1. Distinct(c) = {Offsets(c)[i] : i \in 1 .. n}
    BY <1>4 DEF Distinct
  <2>2. Distinct(c)' = {Offsets(c)'[i] : i \in 1 .. (n + 1)}
    BY <1>5 DEF Distinct
  <2>3. ASSUME NEW x
        PROVE  x \in Distinct(c)' <=> x \in Distinct(c) \/ x = q
    <3>1. ASSUME x \in Distinct(c) PROVE x \in Distinct(c)'
      BY <1>3, <1>4, <2>1, <2>2, <3>1
    <3>2. ASSUME x = q PROVE x \in Distinct(c)'
      BY <1>3, <1>4, <2>2, <3>2
    <3>3. ASSUME x \in Distinct(c)' PROVE x \in Distinct(c) \/ x = q
      <4>1. PICK i \in 1 .. (n + 1) : x = Offsets(c)'[i]
        BY <2>2, <3>3
      <4>2. i \in 1 .. n \/ i = n + 1
        BY <1>4
      <4>3. QED
        BY <1>3, <2>1, <4>1, <4>2
    <3>4. QED
      BY <3>1, <3>2, <3>3
  <2>4. QED
    BY <2>3
<1>10. ~MayRepeat(c)'
  BY <1>1, <1>2, <1>8 DEF MayRepeat
<1>11. n + 1 < requests[c] + Cardinality(Distinct(c) \cup {q})
  <2>1. IsFiniteSet(Distinct(c)) /\ Cardinality(Distinct(c)) \in Nat
    BY DistinctFinite
  <2>2. Cardinality(Distinct(c) \cup {q}) =
          IF q \in Distinct(c) THEN Cardinality(Distinct(c)) ELSE Cardinality(Distinct(c)) + 1
    BY <2>1, FS_AddElement
  <2>3. CASE received[c] = <<>>
    <3>1. n = 0 /\ requests[c] >= 1 /\ q \notin Distinct(c)
      BY <1>1, <1>4, <2>3 DEF Order, Distinct, Busy
    <3>2. QED
      BY <1>1, <2>1, <2>2, <3>1
  <2>4. CASE received[c] # <<>> /\ Last(c) = q
    <3>1. MayRepeat(c)
      BY <1>1, <1>2, <2>4 DEF MayRepeat
    <3>2. n + 1 < requests[c] + Cardinality(Distinct(c))
      BY <2>4, <3>1 DEF Order
    <3>3. QED
      BY <1>1, <1>4, <2>1, <2>2, <3>2
  <2>5. CASE received[c] # <<>> /\ Last(c) # q
    <3>1. n \in 1 .. n /\ Last(c) = Offsets(c)[n] /\ Last(c) < q
      BY <1>1, <1>2, <1>4, <1>6, <2>5 DEF Last
    <3>2. \A i \in 1 .. n : Offsets(c)[i] # q
      BY <1>1, <1>4, <3>1 DEF Order
    <3>3. q \notin Distinct(c)
      BY <1>4, <3>2 DEF Distinct
    <3>4. n < requests[c] + Cardinality(Distinct(c))
      BY <2>5 DEF Order
    <3>5. QED
      BY <1>1, <1>4, <2>1, <2>2, <3>3, <3>4
  <2>6. QED
    BY <2>3, <2>4, <2>5
<1>12. requests'[c] >= 1
  BY <1>1 DEF Order, Busy
<1>13. Len(received'[c]) < requests'[c] + Cardinality(Distinct(c)')
  <2>1. Cardinality(Distinct(c) \cup {q}) \in Nat
    <3>1. IsFiniteSet(Distinct(c)) /\ Cardinality(Distinct(c)) \in Nat
      BY DistinctFinite
    <3>2. Cardinality(Distinct(c) \cup {q}) =
            IF q \in Distinct(c) THEN Cardinality(Distinct(c)) ELSE Cardinality(Distinct(c)) + 1
      BY <3>1, FS_AddElement
    <3>3. QED
      BY <3>1, <3>2
  <2>2. QED
    BY <1>1, <1>3, <1>4, <1>9, <1>11, <2>1
<1>14. Last(c)' <= Frontier(c)'
  BY <1>1, <1>2, <1>8
<1>15. QED
  BY <1>5, <1>7, <1>10, <1>12, <1>13, <1>14 DEF Order

LEMMA OrderServe ==
  ASSUME Shape, NEW c \in Clients, Resumes(c), Order(c), ServeStep(c, request[c])
  PROVE  Order(c)'
<1> DEFINE r == request[c]
<1>1. requests'[c] = requests[c] /\ requests[c] \in Nat
  BY DEF ServeStep, Ended, SetOffsetStep, ConnectStep, ReadingStep, ReviewStep, DoneStep, Becomes,
     Shape
<1>2. CASE (Ended(c) /\ UNCHANGED received) \/ SetOffsetStep(c, r)
  <2>1. received' = received /\ ~Reads(c)' /\ (request'[c].state # "none" => r.state = "opened")
    BY <1>2 DEF Ended, SetOffsetStep, Becomes, Reads, Busy
  <2>2. MayRepeat(c)' => MayRepeat(c)
    <3>1. MayRepeat(c)' => request'[c].state \in {"opened", "connecting"}
      BY <2>1 DEF MayRepeat
    <3>2. QED
      BY <2>1, <3>1 DEF MayRepeat
  <2>3. request'[c].state # "none" => requests[c] >= 1
    BY <2>1 DEF Order
  <2>4. QED
    BY <1>1, <2>1, <2>2, <2>3, OrderQuiet
<1>3. CASE ConnectStep(c, r)
  <2>1. PICK start \in Nat :
          /\ start = IF r.position = LastOffset THEN Len(topic)
                     ELSE IF r.position < first THEN first ELSE r.position
          /\ r.state = "connecting" /\ received' = received
          /\ request'[c].state = "reading" /\ request'[c].position = start
    BY <1>3 DEF ConnectStep, Becomes
  <2>2. Frontier(c)' = start /\ MayRepeat(c)
    BY <2>1 DEF Frontier, MayRepeat, Busy
  <2>3. received[c] # <<>> => Last(c) <= start
    <3>1. received[c] # <<>> => r.position = Last(c) /\ Last(c) \in Nat
      BY <2>1, Numbers DEF Resumes, Last
    <3>2. QED
      BY <2>1, <3>1, Numbers DEF LastOffset
  <2>4. QED
    BY <1>1, <2>1, <2>2, <2>3, OrderQuiet DEF Order
<1>4. CASE ReadingStep(c, r) \/ ReviewStep(c, r)
            \/ (DoneStep(c, r) /\ UNCHANGED received)
  <2>1. /\ received' = received /\ r.state \in {"reading"} \cup Busy /\ Reads(c) /\ Reads(c)'
    BY <1>4 DEF ReadingStep, ReviewStep, DoneStep, Becomes, Reads, Busy
  <2>2. Frontier(c) <= Frontier(c)' /\ Frontier(c)' \in Int
    <3>1. CASE ReadingStep(c, r)
      BY <2>1, <3>1, Numbers DEF ReadingStep, Becomes, Frontier, Busy
    <3>2. CASE ReviewStep(c, r)
      BY <2>1, <3>2, Numbers DEF ReviewStep, Becomes, Frontier, Busy
    <3>3. CASE DoneStep(c, r)
      BY <2>1, <3>3, Numbers DEF DoneStep, Becomes, Frontier, Busy
    <3>4. QED
      BY <1>4, <3>1, <3>2, <3>3
  <2>3. Frontier(c) \in Nat /\ (received[c] # <<>> => Last(c) \in Nat)
    BY <2>1, Numbers
  <2>4. Last(c)' = Last(c)
    BY <2>1 DEF Last, Offsets
  <2>5. MayRepeat(c)' /\ received[c] # <<>> => MayRepeat(c)
    BY <2>1, <2>2, <2>3, <2>4 DEF MayRepeat, Reads, Busy
  <2>6. received[c] # <<>> => Last(c) <= Frontier(c)'
    BY <2>1, <2>2, <2>3 DEF Order
  <2>7. requests[c] >= 1
    BY <2>1 DEF Order, Busy
  <2>8. QED
    BY <1>1, <2>1, <2>5, <2>6, <2>7, OrderQuiet
<1>5. CASE DoneStep(c, r) /\ ~UNCHANGED received
  BY <1>5, OrderDelivery DEF DoneStep
<1>6. QED
  BY <1>2, <1>3, <1>4, <1>5 DEF ServeStep

AllOrder == \A c \in Clients : Order(c)

LEMMA OrderInit == Init => AllOrder
<1> SUFFICES ASSUME Init, NEW c \in Clients PROVE Order(c)
  BY DEF AllOrder
<1>1. request[c].state = "none" /\ received[c] = <<>>
  BY DEF Init, NoRequest
<1>2. QED
  BY <1>1 DEF Order, Reads, Busy

LEMMA OrderStep ==
  ASSUME Shape, Memory, AllOrder, [Next]_vars
  PROVE  AllOrder'
<1>1. ASSUME NEW c \in Clients, received'[c] = received[c], requests'[c] = requests[c],
             request'[c].state = request[c].state,
             request'[c].position = request[c].position,
             request'[c].current = request[c].current
      PROVE  Order(c)'
  <2>1. Frontier(c)' = Frontier(c) /\ Last(c)' = Last(c) /\ Reads(c)' = Reads(c)
    BY <1>1 DEF Frontier, Last, Offsets, Reads
  <2>2. MayRepeat(c)' = MayRepeat(c)
    BY <1>1, <2>1 DEF MayRepeat
  <2>3. requests[c] \in Nat /\ Order(c)
    BY <1>1 DEF AllOrder, Shape
  <2>4. QED
    BY <1>1, <2>1, <2>2, <2>3, OrderQuiet DEF Order
<1>2. CASE (\E m \in Events : Publish(m)) \/ Expire \/ UNCHANGED vars
  <2>1. UNCHANGED <<request, received, requests>>
    BY <1>2 DEF Publish, Expire, vars, clientVars
  <2>2. QED
    BY <1>1, <2>1 DEF AllOrder
<1>3. ASSUME NEW g \in Clients \X Types \X Objects, ChangeGrant(g)
      PROVE  AllOrder'
  <2>1. GrantStep(g)
    BY <1>3, GrantEffect
  <2>2. ASSUME NEW c \in Clients
        PROVE  Order(c)'
    <3>1. /\ received' = received /\ requests' = requests
          /\ request'[c].state = request[c].state
          /\ request'[c].position = request[c].position
          /\ request'[c].current = request[c].current
      BY <2>1 DEF GrantStep
    <3>2. QED
      BY <1>1, <3>1
  <2>3. QED
    BY <2>2 DEF AllOrder
<1>4. ASSUME NEW c \in Clients, Open(c)
      PROVE  AllOrder'
  <2>1. OpenStep(c)
    BY <1>4, OpenEffect
  <2>2. /\ received' = received /\ request'[c].state = "opened"
        /\ requests' = [requests EXCEPT ![c] = @ + 1]
    BY <2>1 DEF OpenStep
  <2>3. ASSUME NEW d \in Clients \ {c}
        PROVE  Order(d)'
    <3>1. request'[d] = request[d] /\ requests'[d] = requests[d]
      BY <2>1 DEF OpenStep, Shape
    <3>2. QED
      BY <1>1, <2>2, <3>1
  <2>4. Order(c)'
    <3>1. requests[c] \in Nat /\ requests'[c] = requests[c] + 1
      BY <2>2 DEF Shape
    <3>2. ~Reads(c)'
      BY <2>2 DEF Reads, Busy
    <3>3. QED
      BY <2>2, <3>1, <3>2, OrderQuiet DEF AllOrder
  <2>5. QED
    BY <2>3, <2>4 DEF AllOrder
<1>5. ASSUME NEW c \in Clients, Serve(c) \/ Disconnect(c)
      PROVE  AllOrder'
  <2>1. ServeStep(c, request[c])
    BY <1>5, ServeEffect
  <2>2. requests' = requests
    BY <2>1
    DEF ServeStep, Ended, SetOffsetStep, ConnectStep, ReadingStep, ReviewStep, DoneStep, Becomes
  <2>3. ASSUME NEW d \in Clients \ {c}
        PROVE  Order(d)'
    BY <1>1, <2>1, <2>2, OthersKept
  <2>4. Order(c)'
    BY <2>1, OrderServe DEF AllOrder, Memory
  <2>5. QED
    BY <2>3, <2>4 DEF AllOrder
<1>6. QED
  BY <1>2, <1>3, <1>4, <1>5 DEF Next, Environment

LEMMA OrderInvariant == Spec => []AllOrder
<1>1. QED
  BY ShapeInvariant, MemoryInvariant, OrderInit, OrderStep, PTL DEF Spec

\* Over all its requests a client never goes back in time, and an event comes again
\* at most once for each request (EncodeOffset, SetOffset, List).
THEOREM ClientsReceiveInOrder == Spec => []ReceivedInOrder
<1>1. AllOrder => ReceivedInOrder
  <2> SUFFICES ASSUME AllOrder, NEW c \in Clients
               PROVE  /\ \A i, j \in DOMAIN received[c] :
                           i < j => Offsets(c)[i] <= Offsets(c)[j]
                      /\ received[c] # <<>> =>
                           Len(received[c]) <
                             requests[c] + Cardinality({Offsets(c)[i] : i \in DOMAIN received[c]})
    BY DEF ReceivedInOrder
  <2>1. QED
    BY DEF AllOrder, Order, Distinct
<1>2. QED
  BY <1>1, OrderInvariant, PTL

----------------------------------------------------------------------------
(* What can be said of the events that a client has received, whatever its *)
(* request is doing now.                                                   *)

\* The client has been allowed to see the message at some time.
EverPermitted(c, m) == PermittedBy(grants \cup disputed, c, m)

OnlyGranted(c) ==
  /\ \A i \in DOMAIN received[c] : EverPermitted(c, topic[Offsets(c)[i] + 1])
  /\ request[c].state = "reviewed" /\ request[c].allowed => EverPermitted(c, Current(c))

AllGranted == \A c \in Clients : OnlyGranted(c)

LEMMA EverPermittedKept ==
  ASSUME grants \cup disputed \subseteq grants' \cup disputed', NEW c \in Clients, NEW m,
         EverPermitted(c, m)
  PROVE  PermittedBy(grants' \cup disputed', c, m)
BY DEF EverPermitted, PermittedBy

LEMMA GrantedKept ==
  ASSUME Shape, TopicGrows, grants \cup disputed \subseteq grants' \cup disputed',
         NEW c \in Clients, OnlyGranted(c), received'[c] = received[c],
         \/ request'[c].state # "reviewed"
         \/ /\ request'[c].state = request[c].state
            /\ request'[c].current = request[c].current
            /\ request'[c].allowed = request[c].allowed
  PROVE  OnlyGranted(c)'
<1>1. Len(topic) \in Nat
  BY LenProperties DEF Shape, TopicShape
<1>2. ASSUME NEW i \in DOMAIN received[c]
      PROVE  PermittedBy(grants' \cup disputed', c, topic'[Offsets(c)[i] + 1])
  <2>1. Offsets(c)[i] \in 0 .. (Len(topic) - 1)
    <3>1. received[c] \in Seq(Issued) /\ Offsets(c)[i] < Len(topic)
      BY DEF Shape, ClientShape
    <3>2. received[c][i] \in Issued
      BY <3>1, ElementOfSeq
    <3>3. DecodeOffset(received[c][i]) \in 0 .. (MaxEvents - 1)
      BY <3>2, IssuedDecodes
    <3>4. QED
      BY <1>1, <3>1, <3>3 DEF Offsets
  <2>2. topic'[Offsets(c)[i] + 1] = topic[Offsets(c)[i] + 1]
    BY <1>1, <2>1 DEF TopicGrows
  <2>3. QED
    BY <2>2, EverPermittedKept DEF OnlyGranted
<1>3. ASSUME request'[c].state = "reviewed", request'[c].allowed
      PROVE  PermittedBy(grants' \cup disputed', c, Current(c)')
  <2>1. /\ request[c].state = "reviewed" /\ request[c].allowed
        /\ request'[c].current = request[c].current
    BY <1>3
  <2>2. request[c].current \in 0 .. (Len(topic) - 1)
    BY <2>1 DEF Shape, ClientShape, Busy
  <2>3. Current(c)' = Current(c)
    BY <1>1, <2>1, <2>2 DEF TopicGrows, Current
  <2>4. QED
    BY <2>1, <2>3, EverPermittedKept DEF OnlyGranted
<1>4. Offsets(c)' = Offsets(c) /\ DOMAIN received'[c] = DOMAIN received[c]
  BY DEF Offsets
<1>5. QED
  BY <1>2, <1>3, <1>4 DEF OnlyGranted, EverPermitted, PermittedBy, Reviewable, Subject

LEMMA GrantedServe ==
  ASSUME Shape, NEW c \in Clients, OnlyGranted(c), ServeStep(c, request[c])
  PROVE  OnlyGranted(c)'
<1> DEFINE r == request[c]
<1>1. topic' = topic /\ grants' = grants /\ disputed' = disputed
  BY DEF ServeStep, Ended, SetOffsetStep, ConnectStep, ReadingStep, ReviewStep, DoneStep, Becomes
<1>2. \A m : EverPermitted(c, m)' = PermittedBy(grants \cup disputed, c, m)
  BY <1>1 DEF EverPermitted, PermittedBy, Reviewable, Subject
<1>3. CASE received'[c] = received[c] /\ request'[c].state = "reviewed"
  <2>1. /\ r.state = "reviewing" /\ request'[c].current = r.current
        /\ request'[c].allowed = (Subject(c, Current(c)) \in grants)
    BY <1>3
    DEF ServeStep, Ended, SetOffsetStep, ConnectStep, ReadingStep, ReviewStep, DoneStep, Becomes
  <2>2. Current(c)' = Current(c) /\ Reviewable(Current(c))
    BY <1>1, <2>1 DEF Current, Shape, ClientShape
  <2>3. request'[c].allowed => EverPermitted(c, Current(c))
    BY <2>1, <2>2 DEF EverPermitted, PermittedBy
  <2>4. Offsets(c)' = Offsets(c) /\ DOMAIN received'[c] = DOMAIN received[c]
    BY <1>3 DEF Offsets
  <2>5. QED
    BY <1>1, <1>2, <2>2, <2>3, <2>4 DEF OnlyGranted, EverPermitted
<1>4. CASE received'[c] = received[c] /\ request'[c].state # "reviewed"
  BY <1>1, <1>4, SameTopic, GrantedKept
<1>5. CASE received'[c] # received[c]
  <2>1. /\ r.state = "reviewed" /\ r.allowed /\ request'[c].state = "reading"
        /\ received' = [received EXCEPT ![c] = Append(@, EncodeOffset(r.current))]
    BY <1>5
    DEF ServeStep, Ended, SetOffsetStep, ConnectStep, ReadingStep, ReviewStep, DoneStep, Becomes
  <2>2. EverPermitted(c, topic[r.current + 1])
    BY <2>1 DEF OnlyGranted, Current
  <2>3. /\ received' \in [Clients -> Seq(Issued)]
        /\ Len(received'[c]) = Len(received[c]) + 1
        /\ Offsets(c)'[Len(received[c]) + 1] = r.current
        /\ \A i \in 1 .. Len(received[c]) : Offsets(c)'[i] = Offsets(c)[i]
    BY <2>1, DeliveryAppends DEF Busy
  <2>4. /\ Len(received[c]) \in Nat /\ DOMAIN received[c] = 1 .. Len(received[c])
        /\ DOMAIN received'[c] = 1 .. (Len(received[c]) + 1)
    BY <2>3, LenProperties DEF Shape
  <2>5. \A i \in DOMAIN received'[c] : EverPermitted(c, topic[Offsets(c)'[i] + 1])
    <3>1. \A i \in 1 .. Len(received[c]) : EverPermitted(c, topic[Offsets(c)'[i] + 1])
      BY <2>3, <2>4 DEF OnlyGranted
    <3>2. EverPermitted(c, topic[Offsets(c)'[Len(received[c]) + 1] + 1])
      BY <2>2, <2>3
    <3>3. QED
      BY <2>4, <3>1, <3>2
  <2>6. QED
    BY <1>1, <2>1, <2>5 DEF OnlyGranted, EverPermitted, PermittedBy, Reviewable, Subject
<1>6. QED
  BY <1>3, <1>4, <1>5

LEMMA GrantedStep ==
  ASSUME Shape, AllGranted, [Next]_vars
  PROVE  AllGranted'
<1>1. CASE (\E m \in Events : Publish(m)) \/ Expire \/ UNCHANGED vars
  <2>1. TopicGrows /\ UNCHANGED <<grants, disputed, request, received>>
    <3>1. CASE \E m \in Events : Publish(m)
      BY <3>1, PublishGrows DEF grantVars, clientVars
    <3>2. CASE Expire \/ UNCHANGED vars
      <4>1. UNCHANGED <<topic, grants, disputed, request, received>>
        BY <3>2 DEF Expire, vars, kafkaVars, grantVars, clientVars
      <4>2. QED
        BY <4>1, SameTopic
    <3>3. QED
      BY <1>1, <3>1, <3>2
  <2>2. QED
    BY <2>1, GrantedKept DEF AllGranted
<1>2. ASSUME NEW g \in Clients \X Types \X Objects, ChangeGrant(g)
      PROVE  AllGranted'
  <2>1. GrantStep(g)
    BY <1>2, GrantEffect
  <2>2. grants \cup disputed \subseteq grants' \cup disputed' /\ TopicGrows
        /\ received' = received
    BY <2>1, SameTopic DEF GrantStep
  <2>3. QED
    BY <2>1, <2>2, GrantedKept DEF AllGranted, GrantStep
<1>3. ASSUME NEW c \in Clients, Open(c)
      PROVE  AllGranted'
  <2>1. OpenStep(c)
    BY <1>3, OpenEffect
  <2>2. /\ TopicGrows /\ UNCHANGED <<grants, disputed, received>>
        /\ request'[c].state = "opened"
        /\ \A d \in Clients \ {c} : request'[d] = request[d]
    BY <2>1, SameTopic DEF OpenStep, Shape
  <2>3. ASSUME NEW d \in Clients
        PROVE  OnlyGranted(d)'
    <3>1. CASE d = c
      BY <2>2, <3>1, GrantedKept DEF AllGranted
    <3>2. CASE d # c
      BY <2>2, <3>2, GrantedKept DEF AllGranted
    <3>3. QED
      BY <3>1, <3>2
  <2>4. QED
    BY <2>3 DEF AllGranted
<1>4. ASSUME NEW c \in Clients, Serve(c) \/ Disconnect(c)
      PROVE  AllGranted'
  <2>1. ServeStep(c, request[c])
    BY <1>4, ServeEffect
  <2>2. topic' = topic /\ grants' = grants /\ disputed' = disputed
    BY <2>1
    DEF ServeStep, Ended, SetOffsetStep, ConnectStep, ReadingStep, ReviewStep, DoneStep, Becomes
  <2>3. ASSUME NEW d \in Clients \ {c}
        PROVE  OnlyGranted(d)'
    BY <2>1, <2>2, SameTopic, OthersKept, GrantedKept DEF AllGranted
  <2>4. OnlyGranted(c)'
    BY <2>1, GrantedServe DEF AllGranted
  <2>5. QED
    BY <2>3, <2>4 DEF AllGranted
<1>5. QED
  BY <1>1, <1>2, <1>3, <1>4 DEF Next, Environment

LEMMA GrantedInvariant == Spec => []AllGranted
<1>1. Init => AllGranted
  <2> SUFFICES ASSUME Init, NEW c \in Clients PROVE OnlyGranted(c)
    BY DEF AllGranted
  <2>1. request[c].state = "none" /\ received[c] = <<>>
    BY DEF Init, NoRequest
  <2>2. QED
    BY <2>1 DEF OnlyGranted
<1>2. QED
  BY <1>1, ShapeInvariant, GrantedStep, PTL DEF Spec

\* Every event that a client has received exists, and it has been allowed to see it;
\* and between the first one that it received and that one it misses nothing.
History ==
  \A c \in Clients : \A i \in DOMAIN received[c] :
    /\ first \in Nat
    /\ Offsets(c)[i] \in 0 .. (Len(topic) - 1)
    /\ EverPermitted(c, topic[Offsets(c)[i] + 1])
    /\ Offsets(c)[1] \in Nat
    /\ \A off \in Offsets(c)[1] .. Offsets(c)[i] : NotMissed(c, off)

THEOREM HistoryComplete == Spec => []History
<1>1. Shape /\ AllProgress /\ AllOrder /\ AllGranted => History
  <2> SUFFICES ASSUME Shape, AllProgress, AllOrder, AllGranted,
                      NEW c \in Clients, NEW i \in DOMAIN received[c]
               PROVE  /\ first \in Nat
                      /\ Offsets(c)[i] \in 0 .. (Len(topic) - 1)
                      /\ EverPermitted(c, topic[Offsets(c)[i] + 1])
                      /\ Offsets(c)[1] \in Nat
                      /\ \A off \in Offsets(c)[1] .. Offsets(c)[i] : NotMissed(c, off)
    BY DEF History
  <2>1. /\ received[c] \in Seq(Issued) /\ Len(received[c]) \in Nat
        /\ DOMAIN received[c] = 1 .. Len(received[c]) /\ received[c] # <<>>
    BY LenProperties, EmptySeq DEF Shape
  <2>2. /\ Len(topic) \in Nat /\ Last(c) \in 0 .. (Len(topic) - 1)
        /\ Offsets(c)[1] \in 0 .. (Len(topic) - 1) /\ first \in Nat
    BY <2>1, Numbers
  <2>3. Offsets(c)[i] \in 0 .. (Len(topic) - 1)
    <3>1. Offsets(c)[i] < Len(topic)
      BY DEF Shape, ClientShape
    <3>2. DecodeOffset(received[c][i]) \in 0 .. (MaxEvents - 1)
      BY <2>1, ElementOfSeq, IssuedDecodes
    <3>3. QED
      BY <2>2, <3>1, <3>2 DEF Offsets
  <2>4. Offsets(c)[i] <= Last(c)
    <3>1. CASE i = Len(received[c])
      BY <2>2, <3>1 DEF Last
    <3>2. CASE i # Len(received[c])
      <4>1. i < Len(received[c]) /\ Len(received[c]) \in DOMAIN received[c]
        BY <2>1, <3>2
      <4>2. QED
        BY <4>1 DEF AllOrder, Order, Last
    <3>3. QED
      BY <3>1, <3>2
  <2>5. \A off \in Offsets(c)[1] .. Last(c) : NotMissed(c, off)
    BY <2>1 DEF AllProgress, Progress
  <2>6. EverPermitted(c, topic[Offsets(c)[i] + 1])
    BY DEF AllGranted, OnlyGranted
  <2>7. QED
    BY <2>2, <2>3, <2>4, <2>5, <2>6
<1>2. QED
  BY <1>1, ShapeInvariant, ProgressInvariant, OrderInvariant, GrantedInvariant, PTL
=============================================================================

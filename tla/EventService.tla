---------------------------- MODULE EventService ----------------------------
(***************************************************************************)
(* The event service (pkg/logic/event_service.go) and the listEvents       *)
(* handler that serves it (pkg/servers/api/api_handlers.go): each request  *)
(* of a client is served by its own goroutine, which reads one partition   *)
(* of the topic from the requested event on, asks the access review        *)
(* service about each event, and streams the permitted ones.               *)
(*                                                                         *)
(* A client has at most one request at a time and identifies always the    *)
(* same user; when a request ends it may send another one that continues   *)
(* from the last event that it received.  The topic, with its retention,   *)
(* and the permissions change at any time.                                 *)
(***************************************************************************)
EXTENDS OffsetCodec, FiniteSets

CONSTANTS
  Clients,         \* each with its user
  Anonymous,       \* the clients whose token has no usable `username` claim
  Objects,         \* identifiers of clusters and subscriptions
  Events,          \* the messages that may be written to the topic
  Garbage,         \* strings that clients send that aren't identifiers
  MaxEvents,       \* bound: messages written to the topic
  MaxRequests,     \* bound: requests of each client
  MaxChanges       \* bound: changes of permissions

\* What the service looks at in a message: `json` is whether models.Event can be
\* parsed, and the other fields are "missing" when they are absent or aren't
\* strings.
Message ==
  [json: {"ok", "bad"}, kind: {"Change", "Other", "missing"},
   resource: {"Cluster", "ClusterLink", "Subscription", "SubscriptionLink", "Version", "missing"},
   object: Objects \cup {"missing"}]

\* For kafka.Reader.SetOffset: start after the last message that exists when the
\* reader connects.
LastOffset == -1

ASSUME ServiceAssumption ==
  /\ Anonymous \subseteq Clients
  /\ Events \subseteq Message
  /\ "missing" \notin Objects
  /\ "" \notin Text
  /\ Garbage \subseteq {t \in Text : DecodeOffset(t) = Invalid}
  /\ MaxEvents \in Nat /\ MaxRequests \in Nat /\ MaxChanges \in Nat
  /\ LastOffset .. MaxEvents \subseteq Words

VARIABLES
  topic,       \* the messages of partition 0 of the topic
  first,       \* the first offset that retention hasn't removed
  grants,      \* <<client, resource type, object>> that access review allows now
  disputed,    \* those that have ever changed
  request,     \* the request of each client
  received,    \* identifiers of the events that each client has received
  requests,    \* requests of each client so far
  changes      \* changes of permissions so far

kafkaVars == <<topic, first>>
grantVars == <<grants, disputed, changes>>
clientVars == <<received, requests>>
vars == <<kafkaVars, grantVars, request, clientVars>>

Types == {"Cluster", "Subscription"}

\* The resource type of the access review for each kind of object or link.
ReviewType ==
  [Cluster |-> "Cluster", ClusterLink |-> "Cluster",
   Subscription |-> "Subscription", SubscriptionLink |-> "Subscription"]

\* The message leads to an access review, rather than to being skipped because
\* something in it is missing or unknown.
Reviewable(m) ==
  /\ m.json = "ok"
  /\ m.kind = "Change"
  /\ m.resource \in DOMAIN ReviewType
  /\ m.object # "missing"

\* What an access review is about.
Subject(c, m) == <<c, ReviewType[m.resource], m.object>>

Current(c) == topic[request[c].current + 1]

\* The message in hand is about something that the user of c could see under g.
PermittedBy(g, c, m) == Reviewable(m) /\ Subject(c, m) \in g

\* `begins` is the offset where the reader started, and `permitted` whether the
\* current message has been permitted at any time since it was read: the program
\* has neither of them.
NoRequest ==
  [state |-> "none", from |-> "", position |-> LastOffset, current |-> LastOffset,
   allowed |-> FALSE, begins |-> LastOffset, permitted |-> FALSE]

Init ==
  /\ topic = <<>>
  /\ first = 0
  /\ grants \in SUBSET (Clients \X Types \X Objects)
  /\ disputed = {}
  /\ request = [c \in Clients |-> NoRequest]
  /\ received = [c \in Clients |-> <<>>]
  /\ requests = [c \in Clients |-> 0]
  /\ changes = 0

----------------------------------------------------------------------------
(* The environment: producers, retention, permissions, and the clients.    *)

Publish(m) ==
  /\ Len(topic) < MaxEvents
  /\ topic' = Append(topic, m)
  /\ UNCHANGED <<first, grantVars, request, clientVars>>

Expire ==
  /\ first < Len(topic)
  /\ first' = first + 1
  /\ UNCHANGED <<topic, grantVars, request, clientVars>>

\* Somebody gives or takes a permission.
ChangeGrant(g) ==
  /\ changes < MaxChanges
  /\ grants' = IF g \in grants THEN grants \ {g} ELSE grants \cup {g}
  /\ disputed' = disputed \cup {g}
  /\ changes' = changes + 1
  /\ request' = [c \in Clients |->
       IF request[c].state \in {"parsing", "reviewing", "reviewed"}
       THEN [request[c] EXCEPT !.permitted = @ \/ PermittedBy(grants', c, Current(c))]
       ELSE request[c]]
  /\ UNCHANGED <<kafkaVars, clientVars>>

\* The values of `from` that a client has a use for: the identifier of the last
\* event that it received or, if it has received none, of any event that it knows
\* about, or nothing.  Or a string that isn't an identifier.
FromValues(c) ==
  Garbage \cup
  IF received[c] = <<>>
  THEN {""} \cup {EncodeOffset(off) : off \in 0 .. (MaxEvents - 1)}
  ELSE {received[c][Len(received[c])]}

\* GET /events: the handler answers 200 before it looks at `from`.
Open(c) ==
  /\ request[c].state = "none"
  /\ requests[c] < MaxRequests
  /\ requests' = [requests EXCEPT ![c] = @ + 1]
  /\ \E t \in FromValues(c) :
       request' = [request EXCEPT ![c] = [NoRequest EXCEPT !.state = "opened", !.from = t]]
  /\ UNCHANGED <<kafkaVars, grantVars, received>>

\* The request ends: List returns, with an error that is only written to the log.
End(c) ==
  /\ request' = [request EXCEPT ![c] = NoRequest]
  /\ UNCHANGED <<kafkaVars, grantVars, clientVars>>

\* The client goes away, which cancels the context: ReadMessage, SendContext or
\* Encode return an error.
Disconnect(c) == request[c].state # "none" /\ End(c)

----------------------------------------------------------------------------
(* List and processMessage.                                                *)

\* A step of the request that changes nothing but its own progress.
Step(c, r) ==
  /\ request' = [request EXCEPT ![c] = r]
  /\ UNCHANGED <<kafkaVars, grantVars, clientVars>>

InvalidFrom(c) ==
  /\ request[c].state = "opened"
  /\ request[c].from # "" /\ DecodeOffset(request[c].from) = Invalid
  /\ End(c)

\* Mistake: `from` is checked, but not used.
SetOffsetLast(c) ==
  /\ request[c].state = "opened"
  /\ request[c].from # "" => DecodeOffset(request[c].from) # Invalid
  /\ Step(c, [request[c] EXCEPT !.state = "connecting", !.position = LastOffset])

\* Mistake: the offset that SetOffset takes is that of the first event.
SetOffsetFirst(c) ==
  /\ request[c].state = "opened"
  /\ request[c].from # "" => DecodeOffset(request[c].from) # Invalid
  /\ Step(c, [request[c] EXCEPT !.state = "connecting",
                 !.position = IF request[c].from = "" THEN LastOffset ELSE 0])

\* SetOffset: the reader isn't connected yet.
SetOffset(c) ==
  /\ request[c].state = "opened"
  /\ LET offset == IF request[c].from = "" THEN LastOffset ELSE DecodeOffset(request[c].from)
     IN  /\ offset # Invalid
         /\ Step(c, [request[c] EXCEPT !.state = "connecting", !.position = offset])

\* The reader connects and finds out where to start.
Connect(c) ==
  /\ request[c].state = "connecting"
  /\ LET start == IF request[c].position = LastOffset THEN Len(topic)
                  ELSE IF request[c].position < first THEN first
                  ELSE request[c].position
     IN  Step(c, [request[c] EXCEPT !.state = "reading", !.position = start, !.begins = start])

\* The reader moves past what has been removed in the meantime.
SkipExpired(c) ==
  /\ request[c].state = "reading"
  /\ request[c].position < first
  /\ Step(c, [request[c] EXCEPT !.position = first])

\* Mistake: the position of the reader doesn't advance.
ReadAgain(c) ==
  LET offset == request[c].position IN
    /\ request[c].state = "reading"
    /\ first <= offset /\ offset < Len(topic)
    /\ Step(c, [request[c] EXCEPT
         !.state = "parsing", !.current = offset,
         !.permitted = PermittedBy(grants, c, topic[offset + 1])])

\* ReadMessage returns the next message.
Read(c) ==
  LET offset == request[c].position IN
    /\ request[c].state = "reading"
    /\ first <= offset /\ offset < Len(topic)
    /\ Step(c, [request[c] EXCEPT
         !.state = "parsing", !.position = offset + 1, !.current = offset,
         !.permitted = PermittedBy(grants, c, topic[offset + 1])])

\* ReadMessage fails, or the call to the access review service does.
CallFails(c) ==
  /\ request[c].state \in {"opened", "connecting", "reading", "reviewing"}
  /\ End(c)

\* The message isn't an event, which ends the request.
ParseFails(c) ==
  /\ request[c].state = "parsing"
  /\ Current(c).json = "bad"
  /\ End(c)

\* The details are of a known kind, but there is no user name in the token.
UserMissing(c) ==
  /\ request[c].state = "parsing"
  /\ Current(c).json = "ok" /\ Current(c).kind = "Change"
  /\ c \in Anonymous
  /\ End(c)

\* Mistake: go back to the message that isn't delivered.
NextMessageAgain(c) ==
  Step(c, [request[c] EXCEPT !.state = "reading", !.position = request[c].current,
                             !.current = LastOffset, !.allowed = FALSE, !.permitted = FALSE])

\* processMessage returns without delivering the event.
NextMessage(c) ==
  Step(c, [request[c] EXCEPT !.state = "reading", !.current = LastOffset,
                             !.allowed = FALSE, !.permitted = FALSE])

\* There is no way to know who may see the event, so nobody may.
SkipUnknown(c) ==
  /\ request[c].state = "parsing"
  /\ Current(c).json = "ok"
  /\ Current(c).kind = "Change" => c \notin Anonymous
  /\ ~Reviewable(Current(c))
  /\ NextMessage(c)

SendReview(c) ==
  /\ request[c].state = "parsing"
  /\ Reviewable(Current(c))
  /\ c \notin Anonymous
  /\ Step(c, [request[c] EXCEPT !.state = "reviewing"])

\* Mistake: the verdict is that of any of the reviews in progress.
ReviewCrossed(c) ==
  /\ request[c].state = "reviewing"
  /\ \E d \in Clients :
       /\ request[d].state = "reviewing"
       /\ Step(c, [request[c] EXCEPT
            !.state = "reviewed", !.allowed = Subject(d, Current(d)) \in grants])

\* The access review service decides; the response is on its way.
Review(c) ==
  /\ request[c].state = "reviewing"
  /\ Step(c, [request[c] EXCEPT
       !.state = "reviewed", !.allowed = Subject(c, Current(c)) \in grants])

SkipDenied(c) ==
  /\ request[c].state = "reviewed"
  /\ ~request[c].allowed
  /\ NextMessage(c)

\* Mistake: the verdict is ignored.
DeliverAnyway(c) ==
  /\ request[c].state = "reviewed"
  /\ received' = [received EXCEPT ![c] = Append(@, EncodeOffset(request[c].current))]
  /\ request' = [request EXCEPT ![c] =
       [@ EXCEPT !.state = "reading", !.current = LastOffset, !.allowed = FALSE,
                 !.permitted = FALSE]]
  /\ UNCHANGED <<kafkaVars, grantVars, requests>>

\* Mistake: the identifier is that of the next event, to continue after this one.
DeliverNextIdentifier(c) ==
  /\ request[c].state = "reviewed"
  /\ request[c].allowed
  /\ received' = [received EXCEPT ![c] = Append(@, EncodeOffset(request[c].position))]
  /\ request' = [request EXCEPT ![c] =
       [@ EXCEPT !.state = "reading", !.current = LastOffset, !.allowed = FALSE,
                 !.permitted = FALSE]]
  /\ UNCHANGED <<kafkaVars, grantVars, requests>>

\* The callback writes the event, with its identifier, and flushes the response.
Deliver(c) ==
  /\ request[c].state = "reviewed"
  /\ request[c].allowed
  /\ received' = [received EXCEPT ![c] = Append(@, EncodeOffset(request[c].current))]
  /\ request' = [request EXCEPT ![c] =
       [@ EXCEPT !.state = "reading", !.current = LastOffset, !.allowed = FALSE,
                 !.permitted = FALSE]]
  /\ UNCHANGED <<kafkaVars, grantVars, requests>>

\* Encode fails.
DeliveryFails(c) ==
  /\ request[c].state = "reviewed"
  /\ request[c].allowed
  /\ End(c)

Serve(c) ==
  \/ InvalidFrom(c) \/ SetOffset(c) \/ Connect(c) \/ SkipExpired(c) \/ Read(c)
  \/ CallFails(c) \/ ParseFails(c) \/ UserMissing(c) \/ SkipUnknown(c) \/ SendReview(c)
  \/ Review(c) \/ SkipDenied(c) \/ Deliver(c) \/ DeliveryFails(c)

Environment ==
  \/ \E m \in Events : Publish(m)
  \/ Expire
  \/ \E g \in Clients \X Types \X Objects : ChangeGrant(g)
  \/ \E c \in Clients : Open(c) \/ Disconnect(c)

Next == Environment \/ \E c \in Clients : Serve(c)

Spec == Init /\ [][Next]_vars

\* What the goroutine does by itself: every call that it makes returns, with a result
\* or with an error, except ReadMessage.  While there is no message it waits, and
\* nothing makes it fail.
Proceed(c) == Serve(c) /\ ~(request[c].state = "reading" /\ CallFails(c))

\* Each goroutine runs; nothing makes the environment or the clients do anything.
FairSpec == Spec /\ \A c \in Clients : WF_vars(Proceed(c))
=============================================================================

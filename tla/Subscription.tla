---------------------------- MODULE Subscription ----------------------------
(***************************************************************************)
(* What the event service promises to its clients, without requests,       *)
(* identifiers, readers or errors: each client has a cursor that moves     *)
(* over the events one by one and delivers those that it may see.  The     *)
(* client may lose its cursor at any time, and when it gets it back it     *)
(* continues from the last event that it has seen.  EventService           *)
(* implements this.                                                        *)
(***************************************************************************)
EXTENDS Integers, Sequences

CONSTANTS
  Clients,
  Events,           \* what may be in the topic
  Permits(_, _, _), \* whether a set of grants lets a client see an event
  Closed,           \* the cursor of a client that isn't connected
  MaxEvents         \* bound: events written to the topic

VARIABLES
  topic,    \* the events
  first,    \* the first one that hasn't been removed
  grants,   \* what clients may see now
  cursor,   \* the next event of each client, or Closed
  verdict,  \* whether that event will be delivered: "none", "yes" or "no"
  seen      \* the events that each client has received

vars == <<topic, first, grants, cursor, verdict, seen>>

Init ==
  /\ topic = <<>>
  /\ first = 0
  /\ cursor = [c \in Clients |-> Closed]
  /\ verdict = [c \in Clients |-> "none"]
  /\ seen = [c \in Clients |-> <<>>]

\* Events arrive, old ones are removed, and permissions change.
Environment ==
  /\ \/ (\E m \in Events : topic' = Append(topic, m)) /\ UNCHANGED <<first, grants>>
     \/ first < Len(topic) /\ first' = first + 1 /\ UNCHANGED <<topic, grants>>
     \/ UNCHANGED <<topic, first>>
  /\ UNCHANGED <<cursor, verdict, seen>>

\* Where a client may start: the first time, wherever it wants; afterwards, at the
\* last event that it has seen or, if that has been removed, at the first one.
StartingPoints(c) ==
  IF seen[c] = <<>> THEN first .. MaxEvents
  ELSE LET last == seen[c][Len(seen[c])]
       IN  {IF last < first THEN first ELSE last}

Connect(c) ==
  /\ cursor[c] = Closed
  /\ \E off \in StartingPoints(c) : cursor' = [cursor EXCEPT ![c] = off]
  /\ UNCHANGED <<topic, first, grants, verdict, seen>>

Disconnect(c) ==
  /\ cursor' = [cursor EXCEPT ![c] = Closed]
  /\ verdict' = [verdict EXCEPT ![c] = "none"]
  /\ UNCHANGED <<topic, first, grants, seen>>

\* The event isn't there any more.
Lag(c) ==
  /\ cursor[c] # Closed /\ cursor[c] < first
  /\ verdict[c] = "none"
  /\ cursor' = [cursor EXCEPT ![c] = first]
  /\ UNCHANGED <<topic, first, grants, verdict, seen>>

HasEvent(c) == cursor[c] # Closed /\ cursor[c] < Len(topic)

Permitted(c) == Permits(grants, c, topic[cursor[c] + 1])

Judge(c) ==
  /\ HasEvent(c)
  /\ verdict[c] = "none"
  /\ verdict' = [verdict EXCEPT ![c] = IF Permitted(c) THEN "yes" ELSE "no"]
  /\ UNCHANGED <<topic, first, grants, cursor, seen>>

Advance(c) ==
  /\ cursor' = [cursor EXCEPT ![c] = @ + 1]
  /\ verdict' = [verdict EXCEPT ![c] = "none"]
  /\ UNCHANGED <<topic, first, grants>>

Deliver(c) ==
  /\ HasEvent(c)
  /\ verdict[c] = "yes"
  /\ seen' = [seen EXCEPT ![c] = Append(@, cursor[c])]
  /\ Advance(c)

\* The client can't see the event now, or couldn't when that was decided.
Skip(c) ==
  /\ HasEvent(c)
  /\ verdict[c] = "no" \/ (verdict[c] = "none" /\ ~Permitted(c))
  /\ Advance(c)
  /\ UNCHANGED seen

Next ==
  \/ Environment
  \/ \E c \in Clients :
       Connect(c) \/ Disconnect(c) \/ Lag(c) \/ Judge(c) \/ Deliver(c) \/ Skip(c)

Spec == Init /\ [][Next]_vars
=============================================================================

----------------------- MODULE EventServiceProperties -----------------------
(***************************************************************************)
(* What a client of the event service can count on.                        *)
(***************************************************************************)
EXTENDS EventService

CONSTANT Closed  \* no cursor, for Subscription

ASSUME ClosedAssumption == Closed \notin Int

Request ==
  [state: {"none", "opened", "connecting", "reading", "parsing", "reviewing", "reviewed"},
   from: Text \cup {""}, position: Words, current: Words,
   allowed: BOOLEAN, begins: Words, permitted: BOOLEAN]

Busy == {"parsing", "reviewing", "reviewed"}

\* Every variable has its type, and the message that a request works on exists
\* and is the one before the position of its reader.
TypeOK ==
  /\ topic \in Seq(Events)
  /\ first \in 0 .. Len(topic)
  /\ grants \subseteq Clients \X Types \X Objects
  /\ disputed \subseteq Clients \X Types \X Objects
  /\ request \in [Clients -> Request]
  /\ received \in [Clients -> Seq(Text)]
  /\ requests \in [Clients -> Nat]
  /\ changes \in Nat
  /\ \A c \in Clients : request[c].state \in Busy =>
       /\ request[c].current \in 0 .. (Len(topic) - 1)
       /\ request[c].position = request[c].current + 1

\* The offsets that the client has received, in the order it received them.
Offsets(c) == [i \in DOMAIN received[c] |-> DecodeOffset(received[c][i])]

HasReceived(c, off) == \E i \in DOMAIN received[c] : Offsets(c)[i] = off

\* The client may see the event, and that hasn't changed for a moment.
AlwaysPermitted(c, off) ==
  /\ off < Len(topic)
  /\ c \notin Anonymous
  /\ PermittedBy(grants \ disputed, c, topic[off + 1])

\* The request has done with all the messages before this one.
Frontier(c) ==
  IF request[c].state \in Busy THEN request[c].current ELSE request[c].position

\* A request that reads from an offset misses no event that is permitted and that
\* retention keeps, and neither does a sequence of requests each of which
\* continues from the last event received by the previous ones, no matter where
\* the failures and disconnections fall (List, processMessage).
NothingMissed ==
  \A c \in Clients :
    LET start == IF received[c] = <<>> THEN request[c].begins ELSE Offsets(c)[1] IN
      request[c].state \in {"reading"} \cup Busy =>
        \A off \in start .. (Frontier(c) - 1) :
          (off >= first /\ AlwaysPermitted(c, off)) => HasReceived(c, off)

\* Over all its requests a client never goes back in time, and an event comes
\* again at most once for each request that continues from it.
ReceivedInOrder ==
  \A c \in Clients :
    /\ \A i, j \in DOMAIN received[c] : i < j => Offsets(c)[i] <= Offsets(c)[j]
    /\ received[c] # <<>> =>
         Len(received[c]) < requests[c] + Cardinality({Offsets(c)[i] : i \in DOMAIN received[c]})

\* The verdict that allows a delivery may be stale by then, but it isn't older
\* than the message: the user has been allowed to see the event at some time since
\* the service read it, so there is no verdict of another event, of another user
\* or of another time (checkPermission, then the callback).
DeliveredPermitted ==
  [][\A c \in Clients : received'[c] # received[c] => request[c].permitted]_vars

\* The cursor of the abstract service: where the reader is, without the message in
\* hand, once it has connected.
Cursor(c) == IF request[c].state \in {"reading"} \cup Busy THEN Frontier(c) ELSE Closed

Verdict(c) ==
  IF request[c].state # "reviewed" THEN "none"
  ELSE IF request[c].allowed THEN "yes" ELSE "no"

Service == INSTANCE Subscription WITH
  Permits <- PermittedBy,
  cursor <- [c \in Clients |-> Cursor(c)],
  verdict <- [c \in Clients |-> Verdict(c)],
  seen <- [c \in Clients |-> Offsets(c)]

\* Requests that end and start again, identifiers that are encoded and decoded,
\* readers that connect late and verdicts that take time do nothing that a cursor
\* over the events couldn't do (List and processMessage).
ImplementsSubscription == Service!Spec

\* A client that stays connected receives every permitted event that is ahead of
\* its reader, unless retention removes it first: a request never stops reading
\* without ending.
EventuallyReceived ==
  \A c \in Clients : \A off \in 0 .. (MaxEvents - 1) :
    (/\ request[c].state = "reading"
     /\ request[c].position <= off
     /\ AlwaysPermitted(c, off))
    ~> \/ HasReceived(c, off)
       \/ request[c].state = "none"
       \/ off < first
       \/ ~AlwaysPermitted(c, off)
=============================================================================

----------------------- MODULE OffsetCodecProperties -----------------------
(***************************************************************************)
(* A client that is given the identifier of an event, or makes one up, and *)
(* then requests the events from that identifier.                          *)
(***************************************************************************)
EXTENDS OffsetCodec

VARIABLES
  offset,   \* the offset of the event that the service delivers
  id,       \* the string that the client has
  issued,   \* whether it is the identifier of that event
  asked,    \* whether the client has sent it
  decoded   \* the result of decodeOffset

vars == <<offset, id, issued, asked, decoded>>

Init ==
  /\ offset \in Words
  /\ id \in Text
  /\ issued = FALSE
  /\ asked = FALSE
  /\ decoded = Invalid

Receive ==
  /\ ~asked
  /\ id' = EncodeOffset(offset)
  /\ issued' = TRUE
  /\ UNCHANGED <<offset, asked, decoded>>

Request ==
  /\ ~asked
  /\ asked' = TRUE
  /\ decoded' = DecodeOffset(id)
  /\ UNCHANGED <<offset, id, issued>>

Next == Receive \/ Request

Spec == Init /\ [][Next]_vars

----------------------------------------------------------------------------

\* The identifier that a client received is valid and leads back to the event it
\* came with.  In particular no two events have the same identifier, and no
\* identifier is taken for one of the negative offsets that have a special
\* meaning for the Kafka reader (encodeOffset, decodeOffset).
RoundTrip == (asked /\ issued) => decoded = offset

\* A string is accepted only if its bytes are those of the identifier of the very
\* offset that it is taken for: the magic number leaves no other string through,
\* even though several strings may have those bytes (decodeOffset).
OnlyIdentifiers ==
  (asked /\ decoded # Invalid) => FromText(id) = FromText(EncodeOffset(decoded))

\* Nothing that has those bytes is refused.
AllIdentifiers ==
  asked => ((\E o \in Words : FromText(id) = Encrypt(<<Magic, o>>)) => decoded # Invalid)
=============================================================================

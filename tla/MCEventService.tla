--------------------------- MODULE MCEventService ---------------------------
(***************************************************************************)
(* Small instances of EventService for TLC.  Offsets fit in small words,   *)
(* the cipher swaps the two words, and the text is a printed block.        *)
(***************************************************************************)
EXTENDS EventServiceProperties, TLC

CONSTANT o1

MCWords == -1 .. MaxEvents
MCMagic == 0
MCEncrypt(b) == <<b[2], b[1]>>
MCDecrypt(b) == <<b[2], b[1]>>
MCToText(b) == ToString(b)
MCText == {"xyz"} \cup {ToString(b) : b \in MCWords \X MCWords}
MCFromText(t) ==
  IF t = "xyz" THEN NotBase32 ELSE CHOOSE b \in MCWords \X MCWords : ToString(b) = t

\* Not base 32, and an identifier with another magic number.
MCGarbage == {"xyz", MCToText(<<1, 1>>)}

ClusterChange == [json |-> "ok", kind |-> "Change", resource |-> "ClusterLink", object |-> o1]
SubscriptionChange ==
  [json |-> "ok", kind |-> "Change", resource |-> "Subscription", object |-> o1]
NoKind == [json |-> "ok", kind |-> "missing", resource |-> "missing", object |-> "missing"]
NotAnEvent == [json |-> "bad", kind |-> "missing", resource |-> "missing", object |-> "missing"]

MCObjects == {o1}
ClusterOrSubscription == {ClusterChange, SubscriptionChange}
AnyEvent == {ClusterChange, SubscriptionChange, NoKind, NotAnEvent}

Symmetry == Permutations(Clients \ Anonymous)
=============================================================================

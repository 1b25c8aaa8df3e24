---------------------------- MODULE OffsetCodec ----------------------------
(***************************************************************************)
(* How the event service turns Kafka offsets into event identifiers and    *)
(* back (encodeOffset and decodeOffset of pkg/logic/event_service.go).     *)
(*                                                                         *)
(* A block of the cipher is two 64 bit words, first the magic number and   *)
(* then the offset, so it is represented by a pair of words.  The cipher   *)
(* (AES) and the text encoding (unpadded base 32) are constants, of which  *)
(* only what the service relies on is assumed.                             *)
(***************************************************************************)
EXTENDS Integers, Sequences

CONSTANTS
  Words,        \* the signed integers of 64 bits
  Magic,        \* offsetEncodingMagic
  Text,         \* the strings that a client may send
  Encrypt(_),   \* cipher, one block to one block
  Decrypt(_),
  ToText(_),    \* base 32 encoder, from blocks to strings
  FromText(_),  \* base 32 decoder, from any string
  NotBase32,    \* FromText fails: a character isn't in the alphabet
  WrongSize,    \* FromText returns something that isn't one block
  Invalid       \* decodeOffset returns an error

Block == Words \X Words

ASSUME WordsAssumption == Words \subseteq Int /\ Magic \in Words /\ Invalid \notin Words

ASSUME CipherAssumption ==
  \A b \in Block :
    /\ Encrypt(b) \in Block /\ Decrypt(Encrypt(b)) = b
    /\ Decrypt(b) \in Block /\ Encrypt(Decrypt(b)) = b

\* Nothing says that different strings decode to different blocks: the decoder
\* ignores line breaks and the bits that don't fill a byte.
ASSUME TextAssumption ==
  /\ {NotBase32, WrongSize} \cap Block = {}
  /\ \A b \in Block : ToText(b) \in Text /\ FromText(ToText(b)) = b
  /\ \A t \in Text : FromText(t) \in Block \cup {NotBase32, WrongSize}

\* Mistake: the magic number goes after the offset.
EncodeOffsetSwapped(offset) == ToText(Encrypt(<<offset, Magic>>))

EncodeOffset(offset) == ToText(Encrypt(<<Magic, offset>>))

\* Mistake: the magic number isn't checked.
DecodeOffsetUnchecked(id) ==
  IF FromText(id) \in {NotBase32, WrongSize} THEN Invalid ELSE Decrypt(FromText(id))[2]

\* Mistake: the first offset isn't valid.
DecodeOffsetPositive(id) ==
  IF FromText(id) \in {NotBase32, WrongSize} THEN Invalid
  ELSE LET plaintext == Decrypt(FromText(id))
       IN  IF plaintext[1] # Magic \/ plaintext[2] = 0 THEN Invalid ELSE plaintext[2]

DecodeOffset(id) ==
  IF FromText(id) \in {NotBase32, WrongSize} THEN Invalid
  ELSE LET plaintext == Decrypt(FromText(id))
       IN  IF plaintext[1] # Magic THEN Invalid ELSE plaintext[2]
=============================================================================

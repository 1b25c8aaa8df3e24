------------------------- MODULE OffsetCodecProofs -------------------------
(***************************************************************************)
(* Proofs about event identifiers, for every cipher and every text         *)
(* encoding that can be undone.                                            *)
(***************************************************************************)
EXTENDS OffsetCodecProperties, TLAPS

LEMMA DecodeEncode ==
  ASSUME NEW o \in Words
  PROVE  DecodeOffset(EncodeOffset(o)) = o
<1> DEFINE block == <<Magic, o>>
<1>1. block \in Block /\ block[1] = Magic /\ block[2] = o
  BY WordsAssumption DEF Block
<1>2. Encrypt(block) \in Block /\ Decrypt(Encrypt(block)) = block
  BY <1>1, CipherAssumption
<1>3. FromText(EncodeOffset(o)) = Encrypt(block)
  BY <1>2, TextAssumption DEF EncodeOffset
<1>4. FromText(EncodeOffset(o)) \notin {NotBase32, WrongSize}
  BY <1>2, <1>3, TextAssumption
<1> HIDE DEF block
<1>5. QED
  BY <1>1, <1>2, <1>3, <1>4 DEF DecodeOffset

\* Different events have different identifiers.
THEOREM IdentifiersAreUnique ==
  ASSUME NEW a \in Words, NEW b \in Words, EncodeOffset(a) = EncodeOffset(b)
  PROVE  a = b
BY DecodeEncode

LEMMA AcceptedText ==
  ASSUME NEW t \in Text, DecodeOffset(t) # Invalid
  PROVE  /\ DecodeOffset(t) \in Words
         /\ FromText(t) = Encrypt(<<Magic, DecodeOffset(t)>>)
<1> DEFINE plaintext == Decrypt(FromText(t))
<1>1. FromText(t) \in Block
  BY TextAssumption DEF DecodeOffset
<1>2. plaintext \in Block /\ Encrypt(plaintext) = FromText(t)
  BY <1>1, CipherAssumption
<1>3. FromText(t) \notin {NotBase32, WrongSize}
  BY <1>1, TextAssumption
<1>4. plaintext[1] = Magic /\ DecodeOffset(t) = plaintext[2]
  BY <1>3 DEF DecodeOffset
<1> HIDE DEF plaintext
<1>5. plaintext = <<Magic, DecodeOffset(t)>> /\ DecodeOffset(t) \in Words
  BY <1>2, <1>4 DEF Block
<1>6. QED
  BY <1>2, <1>5

AnswerOK ==
  /\ offset \in Words
  /\ id \in Text
  /\ issued => id = EncodeOffset(offset)
  /\ asked => decoded = DecodeOffset(id)

LEMMA AnswerCorrect == Spec => []AnswerOK
<1>1. Init => AnswerOK
  BY DEF Init, AnswerOK
<1>2. AnswerOK /\ [Next]_vars => AnswerOK'
  <2> SUFFICES ASSUME AnswerOK, [Next]_vars PROVE AnswerOK'
    OBVIOUS
  <2>1. CASE Receive
    <3>1. Encrypt(<<Magic, offset>>) \in Block
      BY WordsAssumption, CipherAssumption DEF AnswerOK, Block
    <3>2. EncodeOffset(offset) \in Text
      BY <3>1, TextAssumption DEF EncodeOffset
    <3>3. QED
      BY <2>1, <3>2 DEF AnswerOK, Receive
  <2>2. CASE Request
    BY <2>2 DEF AnswerOK, Request
  <2>3. CASE UNCHANGED vars
    BY <2>3 DEF AnswerOK, vars
  <2>4. QED
    BY <2>1, <2>2, <2>3 DEF Next
<1>3. QED
  BY <1>1, <1>2, PTL DEF Spec

\* For every width of the words, magic number, invertible cipher and decodable
\* text encoding: the identifier of an event leads back to the event.
THEOREM IdentifiersLeadBack == Spec => []RoundTrip
<1>1. AnswerOK => RoundTrip
  BY DecodeEncode DEF AnswerOK, RoundTrip
<1>2. QED
  BY <1>1, AnswerCorrect, PTL

\* And no other string is accepted.
THEOREM NoOtherText == Spec => []OnlyIdentifiers
<1>1. AnswerOK => OnlyIdentifiers
  <2> SUFFICES ASSUME AnswerOK, asked, decoded # Invalid
               PROVE  FromText(id) = FromText(EncodeOffset(decoded))
    BY DEF OnlyIdentifiers
  <2>1. decoded \in Words /\ FromText(id) = Encrypt(<<Magic, decoded>>)
    BY AcceptedText DEF AnswerOK
  <2>2. Encrypt(<<Magic, decoded>>) \in Block
    BY <2>1, WordsAssumption, CipherAssumption DEF Block
  <2>3. FromText(EncodeOffset(decoded)) = Encrypt(<<Magic, decoded>>)
    BY <2>2, TextAssumption DEF EncodeOffset
  <2>4. QED
    BY <2>1, <2>3
<1>2. QED
  BY <1>1, AnswerCorrect, PTL

\* And every string with the bytes of an identifier is, however it is written.
THEOREM EveryTextOfAnIdentifier == Spec => []AllIdentifiers
<1>1. AnswerOK => AllIdentifiers
  <2> SUFFICES ASSUME AnswerOK, asked, NEW o \in Words, FromText(id) = Encrypt(<<Magic, o>>)
               PROVE  decoded # Invalid
    BY DEF AllIdentifiers
  <2> DEFINE block == <<Magic, o>>
  <2>1. block \in Block /\ block[1] = Magic /\ block[2] = o
    BY WordsAssumption DEF Block
  <2>2. Decrypt(FromText(id)) = block /\ FromText(id) \notin {NotBase32, WrongSize}
    BY <2>1, CipherAssumption, TextAssumption
  <2> HIDE DEF block
  <2>3. decoded = o
    BY <2>1, <2>2 DEF AnswerOK, DecodeOffset
  <2>4. QED
    BY <2>3, WordsAssumption
<1>2. QED
  BY <1>1, AnswerCorrect, PTL
=============================================================================

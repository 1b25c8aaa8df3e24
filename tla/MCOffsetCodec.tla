--------------------------- MODULE MCOffsetCodec ---------------------------
(***************************************************************************)
(* The codec in miniature: words of 2 bits in two's complement, so blocks  *)
(* of 4 bits, a cipher that is a permutation of the 16 blocks, and texts   *)
(* of octal digits.  Like the 26 characters of base 32 for 128 bits, the 2 *)
(* digits of a block have 6 bits, of which the decoder ignores the last 2. *)
(* The digit 8 stands for a character that isn't in the alphabet.          *)
(***************************************************************************)
EXTENDS OffsetCodecProperties

MCWords == -2 .. 1
MCMagic == 1
MCText == UNION {[1 .. n -> 0 .. 8] : n \in 0 .. 3}

\* The block as a number of 4 bits, high word first.
ToBits(b) == (b[1] % 4) * 4 + (b[2] % 4)
FromBits(n) == LET Signed(w) == IF w < 2 THEN w ELSE w - 4
               IN  <<Signed(n \div 4), Signed(n % 4)>>

MCEncrypt(b) == FromBits((7 * ToBits(b) + 3) % 16)
MCDecrypt(b) == FromBits((7 * (ToBits(b) - 3)) % 16)

MCToText(b) == <<(ToBits(b) * 4) \div 8, (ToBits(b) * 4) % 8>>
MCFromText(t) ==
  IF 8 \in {t[i] : i \in DOMAIN t} THEN NotBase32
  ELSE IF Len(t) # 2 THEN WrongSize
  ELSE FromBits((t[1] * 8 + t[2]) \div 4)
=============================================================================

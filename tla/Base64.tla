------------------------------- MODULE Base64 -------------------------------
(***************************************************************************)
(* il_encodeBase64 and il_decodeBase64 of base64.c.  Binary data is a      *)
(* sequence of bytes 0..255, a text a sequence of ASCII codes.             *)
(***************************************************************************)
EXTENDS Integers, Sequences, SequencesExt

base64_pad == 61                  \* =

(* base64_table of the encoder: A-Z a-z 0-9 + / *)
EncodeTable == [s \in 0..63 |->
  IF s < 26 THEN 65 + s ELSE IF s < 52 THEN 97 + s - 26
  ELSE IF s < 62 THEN 48 + s - 52 ELSE IF s = 62 THEN 43 ELSE 47]

(* base64_table of the decoder, row by row; 255 is no character of it. *)
DecodeTable == [c \in 0..127 |->
  IF c = 43 THEN 62 ELSE IF c = 47 THEN 63
  ELSE IF c \in 48..57 THEN c - 48 + 52
  ELSE IF c \in 65..90 THEN c - 65
  ELSE IF c \in 97..122 THEN c - 97 + 26 ELSE 255]

(* Three bytes become four characters; in the tail pads stand for the rest. *)
il_encodeBase64(input) ==
  LET byte(k) == IF k \in DOMAIN input THEN input[k] ELSE 0
      Four(k) == <<byte(k) \div 4,
                   (byte(k) % 4) * 16 + byte(k + 1) \div 16,
                   (byte(k + 1) % 16) * 4 + byte(k + 2) \div 64,
                   byte(k + 2) % 64>>
      Char(k) == [n \in 1..4 |-> IF k + n - 2 <= Len(input)
                                 THEN EncodeTable[Four(k)[n]] ELSE base64_pad]
  IN FlattenSeq([q \in 1..((Len(input) + 2) \div 3) |-> Char(3 * q - 2)])

(* The values of the characters up to the first pad; those outside of the *)
(* table are passed over.                                                  *)
Sextets(input) ==
  LET from[i \in 1..(Len(input) + 1)] ==
        IF i > Len(input) \/ input[i] = base64_pad THEN <<>>
        ELSE IF input[i] \in DOMAIN DecodeTable /\ DecodeTable[input[i]] # 255
             THEN <<DecodeTable[input[i]]>> \o from[i + 1]
             ELSE from[i + 1]
  IN from[1]

(* Four values are three bytes.  When one character is left over, its bits *)
(* are a byte only with a pad.                                             *)
il_decodeBase64(input) ==
  LET ch   == Sextets(input)
      rest == IF Contains(input, base64_pad) /\ Len(ch) % 4 = 1
              THEN <<ch[Len(ch)] * 4>> ELSE <<>>
  IN [j \in 1..((3 * Len(ch)) \div 4) |->
        LET q == 4 * ((j - 1) \div 3) IN
        CASE j % 3 = 1 -> ch[q + 1] * 4 + ch[q + 2] \div 16
          [] j % 3 = 2 -> (ch[q + 2] % 16) * 16 + ch[q + 3] \div 4
          [] j % 3 = 0 -> (ch[q + 3] % 4) * 64 + ch[q + 4]] \o rest
=============================================================================

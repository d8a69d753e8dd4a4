-------------------------------- MODULE Text --------------------------------
(***************************************************************************)
(* Strings of bytes, and the routines of strUtil.c, varchar.c, api.c and   *)
(* ileastic.c that work on them.  A string is a sequence of tokens.  A     *)
(* byte the code looks for (CR LF SP ? & = : / % { } NUL, a digit) is a    *)
(* token; a run of bytes it treats alike, as a method or a name, is one    *)
(* token too.  A run is never the beginning of another one.                *)
(***************************************************************************)
EXTENDS Integers, Sequences, SequencesExt

Eol    == <<"CR", "LF">>
NULL   == <<"null">>          \* a pointer to no string
Wild   == <<"wild">>          \* a string whose length is negative, or huge
Digits == <<"0", "1", "2", "3", "4", "5", "6", "7", "8", "9">>

(* The same names in upper and in lower case, for memicmp and stricmp. *)
Lower == [Host |-> "host", HOST |-> "host", ID |-> "id", Id |-> "id", X |-> "x",
          Close |-> "close"]
Upper == [Host |-> "HOST", host |-> "HOST", id |-> "ID", Id |-> "ID", x |-> "X"]
LowerCase(s) == [i \in DOMAIN s |-> IF s[i] \in DOMAIN Lower THEN Lower[s[i]]
                                    ELSE s[i]]
UpperCase(s) == [i \in DOMAIN s |-> IF s[i] \in DOMAIN Upper THEN Upper[s[i]]
                                    ELSE s[i]]
EqualIgnoringCase(s, t) == LowerCase(s) = LowerCase(t)

-----------------------------------------------------------------------------
(* Searches in a memory m from one position up to, not including, another: *)
(* the position found, or 0.                                               *)

memchr(m, c, from, to) ==
  SelectInSubSeq(m, from, IF to > Len(m) THEN Len(m) ELSE to - 1, LAMBDA b : b = c)

Occurs(m, needle, p) == /\ p + Len(needle) - 1 <= Len(m)
                        /\ SubSeq(m, p, p + Len(needle) - 1) = needle

(* Mutant: only what lies in the haystack as a whole, less one. *)
memmemTooShort(m, needle, from, to) ==
  LET found == {p \in from..(to - Len(needle) - 1) : Occurs(m, needle, p)}
  IN IF found = {} THEN 0 ELSE Min(found)

(* Mutant: the length of the needle is not looked at. *)
memmemTwoBytes(m, needle, from, to) ==
  LET found == {p \in from..(to - 1) : Occurs(m, SubSeq(needle, 1, 2), p)}
  IN IF found = {} THEN 0 ELSE Min(found)

(* A find begins in the haystack, and may end behind it. *)
memmem(m, needle, from, to) ==
  LET found == {p \in from..(to - 1) : Occurs(m, needle, p)}
  IN IF found = {} THEN 0 ELSE Min(found)

(* for (; *p == ...; p++): the first position with another byte. *)
Skip(m, from, bytes) ==
  LET others == {p \in from..Len(m) : m[p] \notin bytes}
  IN IF others = {} THEN Len(m) + 1 ELSE Min(others)

(* The String with Length = to - from; the Length is unsigned. *)
String(m, from, to) == IF to < from THEN Wild ELSE SubSeq(m, from, to - 1)

-----------------------------------------------------------------------------
(* a2i passes over what is no digit. *)
a2i(s) ==
  LET num[i \in 0..Len(s)] ==
        IF i = 0 THEN 0
        ELSE LET digit == SelectInSeq(Digits, LAMBDA d : d = s[i])
             IN IF digit = 0 THEN num[i - 1] ELSE 10 * num[i - 1] + digit - 1
  IN num[Len(s)]

(* External: how a client writes the bytes that need an escape. *)
Escaped == [c \in {"SP", "%", "&", "/", "="} |->
              CASE c = "SP" -> <<"%", "2", "0">> [] c = "%" -> <<"%", "2", "5">>
                [] c = "&"  -> <<"%", "2", "6">> [] c = "/" -> <<"%", "2", "F">>
                [] c = "="  -> <<"%", "3", "d">>]

(* A digit in upper or lower case; any other byte counts as 0. *)
HexDigits == {Digits \o <<"A", "B", "C", "D", "E", "F">>,
              Digits \o <<"a", "b", "c", "d", "e", "f">>}
hex2bin(b) == LET value == {i \in 1..16 : \E h \in HexDigits : h[i] = b}
              IN IF value = {} THEN 0 ELSE Min(value) - 1

Ascii == [c \in {32, 37, 38, 47, 61} |->
            CASE c = 32 -> "SP" [] c = 37 -> "%" [] c = 38 -> "&"
              [] c = 47 -> "/" [] c = 61 -> "="]

(* The escapes of s have their two digits, and stand for one of Ascii. *)
urldecodeBuf(s) ==
  LET out[i \in 1..(Len(s) + 3)] ==
        IF i > Len(s) THEN <<>>
        ELSE IF s[i] = "%"
             THEN <<Ascii[16 * hex2bin(s[i + 1]) + hex2bin(s[i + 2])]>> \o out[i + 3]
             ELSE <<s[i]>> \o out[i + 1]
  IN out[1]
=============================================================================

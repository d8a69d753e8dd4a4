--------------------------- MODULE ParsingProofs ---------------------------
(***************************************************************************)
(* Proofs about the parse functions of Request: what the searches of Text  *)
(* find in a memory that holds a string, where the parts of a composed     *)
(* string lie, and that lookForHeaders, parseHeaders, parseParms,          *)
(* parseResource, urldecodeBuf and a2i return the parts a client has       *)
(* composed, wherever in a memory they lie and whatever lies behind them.  *)
(* Then the getters: il_decodeBase64 undoes il_encodeBase64, and a header, *)
(* a parameter and the extension of a file are the first or last that fits.*)
(*                                                                         *)
(* The loops of the code are recursive functions on the places of the      *)
(* memory, which take the value at a place from the one at a later place.  *)
(* What holds of them is proved without an induction theorem: the first    *)
(* section finds a least counterexample, and ListComputed and Listed give  *)
(* the list of the items met from a place on.  Each parse function then    *)
(* has a lemma on one turn of its loop, a lemma on k turns, and a theorem  *)
(* on what the client composed.                                            *)
(***************************************************************************)
EXTENDS Request, SequenceTheorems, WellFoundedInduction, TLAPS

-----------------------------------------------------------------------------
(* Numbers.  A least counterexample takes the place of an induction.       *)

(* A set of numbers that is not empty has a least one. *)
LEMMA LeastNumber ==
  ASSUME NEW T, T \subseteq Nat, T # {}
  PROVE  Min(T) \in T /\ \A y \in T : Min(T) <= y
<1>. DEFINE Less == {ss \in Nat \X Nat : ss[1] < ss[2]}
<1>1. IsWellFoundedOn(Less, Nat)
  BY NatLessThanWellFounded DEF OpToRel
<1>2. PICK x \in T : \A y \in T : ~(<<y, x>> \in Less)
  BY <1>1, WFMin
<1>3. \A m, n \in Nat : m < n => <<m, n>> \in Less
  OBVIOUS
<1>4. \A y \in T : ~(y < x)
  BY <1>2, <1>3
<1>5. \A y \in T : x <= y
  BY <1>4
<1>6. Min(T) \in T /\ \A y \in T : Min(T) <= y
  BY <1>5 DEF Min
<1>. QED
  BY <1>6

-----------------------------------------------------------------------------
(* Functions that are computed from the end of a string to its beginning:  *)
(* the value at i is made from the one at next[i], which lies behind.      *)

(* What holds at the end, and at i when it holds at next[i], holds         *)
(* everywhere.                                                             *)
LEMMA FromTheEnd ==
  ASSUME NEW n \in Nat, NEW next \in [1..n -> 1..(n + 1)], \A i \in 1..n : i < next[i],
         NEW Good, n + 1 \in Good, \A i \in 1..n : next[i] \in Good => i \in Good
  PROVE  \A i \in 1..(n + 1) : i \in Good
<1>. DEFINE Bad == {k \in 0..n : n + 1 - k \notin Good}
<1>. SUFFICES ASSUME NEW j \in 1..(n + 1), j \notin Good PROVE FALSE
  OBVIOUS
<1>1. n + 1 - j \in 0..n /\ n + 1 - (n + 1 - j) = j
  OBVIOUS
<1>2. \A k \in 0..n : k \in Bad <=> n + 1 - k \notin Good
  OBVIOUS
<1>3. \A k \in Bad : k \in 0..n
  OBVIOUS
<1>. HIDE DEF Bad
<1>4. Bad \subseteq Nat /\ Bad # {}
  BY <1>1, <1>2, <1>3
<1>5. PICK k \in Bad : \A y \in Bad : k <= y
  BY <1>4, LeastNumber
<1>. DEFINE i == n + 1 - k
<1>6. k \in 0..n /\ i \notin Good /\ i \in 1..(n + 1)
  BY <1>2, <1>3, <1>5
<1>7. i # n + 1 /\ i \in 1..n
  BY <1>6
<1>8. next[i] \notin Good /\ i < next[i] /\ next[i] \in 1..(n + 1)
  BY <1>6, <1>7
<1>. DEFINE y == n + 1 - next[i]
<1>9. y \in 0..n /\ n + 1 - y = next[i] /\ y < k
  BY <1>6, <1>8
<1>10. y \in Bad
  BY <1>2, <1>8, <1>9
<1>. QED
  BY <1>5, <1>6, <1>9, <1>10

ComputedFromTheEnd(f, n, next, base, step) ==
  /\ f[n + 1] = base
  /\ \A i \in 1..n : f[i] = step[i][f[next[i]]]

(* There is such a function. *)
LEMMA FunctionFromTheEnd ==
  ASSUME NEW n \in Nat, NEW next \in [1..n -> 1..(n + 1)], \A i \in 1..n : i < next[i],
         NEW S, NEW base \in S, NEW step \in [1..n -> [S -> S]]
  PROVE  \E f \in [1..(n + 1) -> S] : ComputedFromTheEnd(f, n, next, base, step)
<1>. DEFINE Made(j, f) == /\ f[n + 1] = base
                          /\ \A i \in j..n : f[i] = step[i][f[next[i]]]
            Exists(j) == \E f \in [1..(n + 1) -> S] : Made(j, f)
            down == [i \in 1..n |-> i + 1]
            Good == {j \in 1..(n + 1) : Exists(j)}
<1>1. Exists(n + 1)
  <2>1. [i \in 1..(n + 1) |-> base] \in [1..(n + 1) -> S]
    OBVIOUS
  <2>2. Made(n + 1, [i \in 1..(n + 1) |-> base])
    OBVIOUS
  <2>. QED
    BY <2>1, <2>2
<1>2. ASSUME NEW j \in 1..n, Exists(j + 1) PROVE Exists(j)
  <2>1. PICK f \in [1..(n + 1) -> S] : Made(j + 1, f)
    BY <1>2
  <2>. DEFINE v == step[j][f[next[j]]]
              g == [f EXCEPT ![j] = v]
  <2>2. next[j] \in 1..(n + 1) /\ f[next[j]] \in S /\ step[j] \in [S -> S]
    OBVIOUS
  <2>3. v \in S
    BY <2>2
  <2>. HIDE DEF v
  <2>4. g \in [1..(n + 1) -> S] /\ g[j] = v /\ \A i \in 1..(n + 1) : i # j => g[i] = f[i]
    BY <2>3
  <2>. HIDE DEF g
  <2>5. ASSUME NEW i \in j..n PROVE g[i] = step[i][g[next[i]]]
    <3>1. i \in 1..n /\ next[i] \in 1..(n + 1) /\ next[i] # j
      OBVIOUS
    <3>2. g[next[i]] = f[next[i]]
      BY <2>4, <3>1
    <3>3. CASE i = j
      BY <2>4, <3>2, <3>3 DEF v
    <3>4. CASE i # j
      <4>1. i \in (j + 1)..n
        BY <3>4
      <4>2. g[i] = f[i] /\ f[i] = step[i][f[next[i]]]
        BY <2>1, <2>4, <3>1, <3>4, <4>1
      <4>. QED
        BY <3>2, <4>2
    <3>. QED
      BY <3>3, <3>4
  <2>6. g[n + 1] = base
    BY <2>1, <2>4
  <2>. QED
    BY <2>4, <2>5, <2>6
<1>. HIDE DEF Exists
<1>3. n + 1 \in Good /\ \A i \in 1..n : down[i] \in Good => i \in Good
  BY <1>1, <1>2
<1>4. down \in [1..n -> 1..(n + 1)] /\ \A i \in 1..n : i < down[i]
  OBVIOUS
<1>5. \A j \in Good : Exists(j)
  OBVIOUS
<1>. HIDE DEF Good, down
<1>6. \A i \in 1..(n + 1) : i \in Good
  BY <1>3, <1>4, FromTheEnd
<1>7. Exists(1)
  BY <1>5, <1>6
<1>. QED
  BY <1>7 DEF Exists, ComputedFromTheEnd

-----------------------------------------------------------------------------
(* What the searches find.                                                 *)

(* A find of memmem lies in the haystack, has the needle at it, and is the *)
(* first place that has; without a find there is no such place.            *)
LEMMA MemmemFinds ==
  ASSUME NEW m, NEW needle, NEW from \in Nat \ {0}, NEW to \in Int
  PROVE  LET found == memmem(m, needle, from, to) IN
         /\ found \in {0} \cup (from..(to - 1))
         /\ found # 0 => /\ Occurs(m, needle, found)
                         /\ \A p \in from..(to - 1) : Occurs(m, needle, p) => found <= p
         /\ found = 0 => \A p \in from..(to - 1) : ~Occurs(m, needle, p)
<1>. DEFINE places == {p \in from..(to - 1) : Occurs(m, needle, p)}
<1>1. memmem(m, needle, from, to) = IF places = {} THEN 0 ELSE Min(places)
  BY DEF memmem
<1>2. places \subseteq Nat /\ \A p \in places : p # 0 /\ p \in from..(to - 1)
  OBVIOUS
<1>3. \A p \in from..(to - 1) : Occurs(m, needle, p) <=> p \in places
  OBVIOUS
<1>4. \A p \in places : Occurs(m, needle, p)
  OBVIOUS
<1>. HIDE DEF places
<1>5. places # {} => Min(places) \in places /\ \A p \in places : Min(places) <= p
  BY <1>2, LeastNumber
<1>. QED
  BY <1>1, <1>2, <1>3, <1>4, <1>5

(* What memchr finds up to the end of the memory: the first place with the *)
(* byte, if there is one.                                                  *)
LEMMA MemchrFinds ==
  ASSUME NEW S, NEW m \in Seq(S), NEW c, NEW from \in Nat \ {0}, NEW to \in Int
  PROVE  LET found == memchr(m, c, from, to)
             last  == IF to > Len(m) THEN Len(m) ELSE to - 1
         IN /\ found \in {0} \cup (from..last)
            /\ found # 0 => m[found] = c /\ \A p \in from..last : m[p] = c => found <= p
            /\ found = 0 => \A p \in from..last : m[p] # c
<1>. DEFINE last == IF to > Len(m) THEN Len(m) ELSE to - 1
            places == {p \in from..last : m[p] = c}
<1>1. memchr(m, c, from, to) = IF places # {} THEN Min(places) ELSE 0
  BY DEF memchr, SelectInSubSeq
<1>2. last \in Int
  BY LenProperties
<1>. HIDE DEF last
<1>3. \A p \in from..last : p \in Nat /\ p # 0
  BY <1>2
<1>4. \A p : p \in places <=> p \in from..last /\ m[p] = c
  OBVIOUS
<1>. HIDE DEF places
<1>5. places \subseteq Nat
  BY <1>3, <1>4
<1>6. places # {} => Min(places) \in places /\ \A p \in places : Min(places) <= p
  BY <1>5, LeastNumber
<1>. QED
  BY <1>1, <1>3, <1>4, <1>6 DEF last

-----------------------------------------------------------------------------
(* Strings, and memories that hold them.                                   *)

Tokens == STRING \cup {"CR", "LF", "SP", "NUL", "?", "&", "=", ":", "/", "%"}
            \cup {"HTTP/1.1", "content-length", "wild", "F", "d"} \cup {Digits[i] : i \in 1..10}
            \cup 0..255
Strings == Seq(Tokens)

(* s lies in m from p on. *)
Holds(m, p, s) == /\ p + Len(s) <= Len(m) + 1
                  /\ \A i \in 1..Len(s) : m[p + i - 1] = s[i]

(* Two strings, one after the other. *)
LEMMA HoldsParts ==
  ASSUME NEW m \in Strings, NEW p \in Nat \ {0}, NEW s \in Strings, NEW t \in Strings
  PROVE  /\ s \o t \in Strings /\ Len(s \o t) = Len(s) + Len(t)
         /\ Len(s) \in Nat /\ Len(t) \in Nat /\ Len(m) \in Nat
         /\ Holds(m, p, s \o t) <=> Holds(m, p, s) /\ Holds(m, p + Len(s), t)
<1>. DEFINE u == s \o t
<1>1. Len(s) \in Nat /\ Len(t) \in Nat /\ Len(m) \in Nat
  BY LenProperties DEF Strings
<1>2. /\ u \in Strings /\ Len(u) = Len(s) + Len(t)
      /\ \A i \in 1..(Len(s) + Len(t)) : u[i] = IF i <= Len(s) THEN s[i] ELSE t[i - Len(s)]
  BY ConcatProperties DEF Strings
<1>. HIDE DEF u
<1>3. ASSUME Holds(m, p, u)
      PROVE  Holds(m, p, s) /\ Holds(m, p + Len(s), t)
  <2>1. \A i \in 1..Len(s) : i \in 1..Len(u) /\ u[i] = s[i]
    BY <1>1, <1>2
  <2>2. \A i \in 1..Len(t) : Len(s) + i \in 1..Len(u) /\ u[Len(s) + i] = t[i]
    BY <1>1, <1>2
  <2>3. \A i \in 1..Len(t) : m[p + (Len(s) + i) - 1] = t[i]
    BY <1>3, <2>2 DEF Holds
  <2>4. \A i \in 1..Len(t) : p + (Len(s) + i) - 1 = (p + Len(s)) + i - 1
    BY <1>1
  <2>. QED
    BY <1>1, <1>2, <1>3, <2>1, <2>3, <2>4 DEF Holds
<1>4. ASSUME Holds(m, p, s), Holds(m, p + Len(s), t)
      PROVE  Holds(m, p, u)
  <2>1. ASSUME NEW i \in 1..Len(u) PROVE m[p + i - 1] = u[i]
    <3>1. CASE i <= Len(s)
      BY <1>1, <1>2, <1>4, <2>1, <3>1 DEF Holds
    <3>2. CASE ~(i <= Len(s))
      <4>1. i - Len(s) \in 1..Len(t) /\ p + i - 1 = (p + Len(s)) + (i - Len(s)) - 1
        BY <1>1, <1>2, <3>2
      <4>2. m[(p + Len(s)) + (i - Len(s)) - 1] = t[i - Len(s)]
        BY <1>4, <4>1 DEF Holds
      <4>. QED
        BY <1>1, <1>2, <3>2, <4>1, <4>2
    <3>. QED
      BY <3>1, <3>2
  <2>. QED
    BY <1>1, <1>2, <1>4, <2>1 DEF Holds
<1>. QED
  BY <1>1, <1>2, <1>3, <1>4 DEF u

(* The String that lies there. *)
LEMMA StringHeld ==
  ASSUME NEW m \in Strings, NEW p \in Nat \ {0}, NEW s \in Strings, Holds(m, p, s)
  PROVE  String(m, p, p + Len(s)) = s
<1>1. Len(s) \in Nat /\ Len(m) \in Nat
  BY LenProperties DEF Strings
<1>2. ~(p + Len(s) < p)
  BY <1>1
<1>. DEFINE sub == SubSeq(m, p, p + Len(s) - 1)
<1>3. \A i \in p..(p + Len(s) - 1) : m[i] \in Tokens
  BY <1>1, ElementOfSeq DEF Holds, Strings
<1>4. /\ sub \in Seq(Tokens) /\ Len(sub) = Len(s)
      /\ \A i \in 1..Len(s) : sub[i] = m[p + i - 1]
  <2>1. p \in Int /\ p + Len(s) - 1 \in Int
    BY <1>1
  <2>2. /\ sub \in Seq(Tokens)
        /\ Len(sub) = IF p <= p + Len(s) - 1 THEN (p + Len(s) - 1) - p + 1 ELSE 0
        /\ \A i \in 1..((p + Len(s) - 1) - p + 1) : sub[i] = m[p + i - 1]
    BY <1>3, <2>1, SubSeqProperties
  <2>3. (p + Len(s) - 1) - p + 1 = Len(s)
    BY <1>1
  <2>. QED
    BY <1>1, <2>2, <2>3
<1>. HIDE DEF sub
<1>5. sub = s
  BY <1>4, SeqEqual DEF Holds, Strings
<1>. QED
  BY <1>2, <1>5 DEF String, sub

(* memchr stops at the first of the bytes, if that lies in front of the    *)
(* end.                                                                    *)
LEMMA MemchrAt ==
  ASSUME NEW m \in Strings, NEW c, NEW p \in Nat \ {0}, NEW q \in p..Len(m), NEW to \in Int,
         q < to, m[q] = c, \A i \in p..(q - 1) : m[i] # c
  PROVE  memchr(m, c, p, to) = q
<1>. DEFINE found == memchr(m, c, p, to)
            last  == IF to > Len(m) THEN Len(m) ELSE to - 1
<1>1. Len(m) \in Nat /\ m \in Seq(Tokens)
  BY LenProperties DEF Strings
<1>2. /\ found \in {0} \cup (p..last)
      /\ found # 0 => m[found] = c /\ \A i \in p..last : m[i] = c => found <= i
      /\ found = 0 => \A i \in p..last : m[i] # c
  BY <1>1, MemchrFinds
<1>3. q \in p..last /\ last \in Int
  BY <1>1
<1>. HIDE DEF found, last
<1>4. found # 0 /\ found \in p..last /\ found <= q
  BY <1>2, <1>3
<1>5. ~(found < q)
  <2>. SUFFICES ASSUME found < q PROVE FALSE
    OBVIOUS
  <2>1. found \in p..(q - 1)
    BY <1>3, <1>4
  <2>. QED
    BY <1>2, <1>4, <2>1
<1>6. found = q
  BY <1>3, <1>4, <1>5
<1>. QED
  BY <1>6 DEF found

LEMMA MemchrNone ==
  ASSUME NEW m \in Strings, NEW c, NEW p \in Nat \ {0}, NEW to \in Int,
         to <= Len(m) + 1, \A i \in p..(to - 1) : m[i] # c
  PROVE  memchr(m, c, p, to) = 0
<1>. DEFINE found == memchr(m, c, p, to)
            last  == IF to > Len(m) THEN Len(m) ELSE to - 1
<1>1. Len(m) \in Nat /\ m \in Seq(Tokens)
  BY LenProperties DEF Strings
<1>2. found \in {0} \cup (p..last) /\ (found # 0 => m[found] = c)
  BY <1>1, MemchrFinds
<1>3. last = to - 1
  BY <1>1
<1>. HIDE DEF found, last
<1>4. found = 0
  BY <1>2, <1>3
<1>. QED
  BY <1>4 DEF found

(* Skip stops at the first byte that is another. *)
LEMMA SkipAt ==
  ASSUME NEW m \in Strings, NEW bytes, NEW p \in Nat \ {0}, NEW q \in p..Len(m),
         m[q] \notin bytes, \A i \in p..(q - 1) : m[i] \in bytes
  PROVE  Skip(m, p, bytes) = q
<1>. DEFINE others == {i \in p..Len(m) : m[i] \notin bytes}
<1>1. Len(m) \in Nat
  BY LenProperties DEF Strings
<1>2. Skip(m, p, bytes) = IF others = {} THEN Len(m) + 1 ELSE Min(others)
  BY DEF Skip
<1>3. \A i : i \in others <=> i \in p..Len(m) /\ m[i] \notin bytes
  OBVIOUS
<1>. HIDE DEF others
<1>4. others \subseteq Nat /\ q \in others
  BY <1>1, <1>3
<1>5. Min(others) \in others /\ Min(others) <= q
  BY <1>4, LeastNumber
<1>6. Min(others) \notin p..(q - 1)
  BY <1>3, <1>5
<1>7. Min(others) = q
  BY <1>1, <1>3, <1>5, <1>6
<1>. QED
  BY <1>2, <1>4, <1>7

(* Where it may stop at all. *)
LEMMA SkipRange ==
  ASSUME NEW m \in Strings, NEW bytes, NEW p \in Nat \ {0}, p <= Len(m) + 1
  PROVE  Skip(m, p, bytes) \in p..(Len(m) + 1)
<1>. DEFINE others == {i \in p..Len(m) : m[i] \notin bytes}
<1>1. Len(m) \in Nat
  BY LenProperties DEF Strings
<1>2. Skip(m, p, bytes) = IF others = {} THEN Len(m) + 1 ELSE Min(others)
  BY DEF Skip
<1>3. \A i : i \in others => i \in p..Len(m)
  OBVIOUS
<1>. HIDE DEF others
<1>4. others # {} => Min(others) \in others
  BY <1>1, <1>3, LeastNumber
<1>. QED
  BY <1>1, <1>2, <1>3, <1>4

(* A line end. *)
LEMMA OccursEol ==
  ASSUME NEW m \in Strings, NEW p \in Nat \ {0}
  PROVE  Occurs(m, Eol, p) <=> p + 1 <= Len(m) /\ m[p] = "CR" /\ m[p + 1] = "LF"
<1>1. Len(m) \in Nat /\ Len(Eol) = 2
  BY LenProperties DEF Strings, Eol
<1>2. CASE p + 1 <= Len(m)
  <2>. DEFINE two == SubSeq(m, p, p + 2 - 1)
  <2>1. \A i \in p..(p + 2 - 1) : m[i] \in Tokens
    BY <1>1, <1>2, ElementOfSeq DEF Strings
  <2>2. /\ two \in Seq(Tokens)
        /\ Len(two) = IF p <= p + 2 - 1 THEN (p + 2 - 1) - p + 1 ELSE 0
        /\ \A i \in 1..((p + 2 - 1) - p + 1) : two[i] = m[p + i - 1]
    BY <1>1, <2>1, SubSeqProperties
  <2>. HIDE DEF two
  <2>3. Len(two) = 2 /\ two[1] = m[p] /\ two[2] = m[p + 1]
    BY <1>1, <2>2
  <2>4. two = <<two[1], two[2]>>
    <3>1. two = [i \in 1..2 |-> two[i]]
      BY <2>2, <2>3, LenProperties
    <3>. QED
      BY <3>1
  <2>5. Occurs(m, Eol, p) <=> two = <<"CR", "LF">>
    BY <1>1, <1>2 DEF Occurs, two, Eol
  <2>. QED
    BY <1>2, <2>3, <2>4, <2>5
<1>3. CASE ~(p + 1 <= Len(m))
  BY <1>1, <1>3 DEF Occurs
<1>. QED
  BY <1>2, <1>3

(* memmem finds the first line end, if it begins in the haystack. *)
LEMMA MemmemEol ==
  ASSUME NEW m \in Strings, NEW p \in Nat \ {0}, NEW q \in Nat, p <= q, NEW to \in Int,
         Holds(m, q, Eol), \A i \in p..(q - 1) : m[i] # "CR"
  PROVE  memmem(m, Eol, p, to) = IF q < to THEN q ELSE 0
<1>. DEFINE found == memmem(m, Eol, p, to)
<1>1. /\ found \in {0} \cup (p..(to - 1))
      /\ found # 0 => /\ Occurs(m, Eol, found)
                      /\ \A i \in p..(to - 1) : Occurs(m, Eol, i) => found <= i
      /\ found = 0 => \A i \in p..(to - 1) : ~Occurs(m, Eol, i)
  BY MemmemFinds
<1>2. Len(m) \in Nat /\ Len(Eol) = 2
  BY LenProperties DEF Strings, Eol
<1>3. q + 1 <= Len(m) /\ m[q] = "CR" /\ m[q + 1] = "LF"
  <2>1. m[q + 1 - 1] = Eol[1] /\ m[q + 2 - 1] = Eol[2] /\ q + 2 <= Len(m) + 1
    BY <1>2 DEF Holds
  <2>2. q + 1 - 1 = q /\ q + 2 - 1 = q + 1 /\ Eol[1] = "CR" /\ Eol[2] = "LF"
    BY DEF Eol
  <2>. QED
    BY <1>2, <2>1, <2>2
<1>4. Occurs(m, Eol, q)
  BY <1>3, OccursEol
<1>5. \A i \in p..(q - 1) : ~Occurs(m, Eol, i)
  BY OccursEol
<1>. HIDE DEF found
<1>6. CASE q < to
  <2>1. q \in p..(to - 1)
    BY <1>6
  <2>2. found # 0 /\ found \in p..(to - 1) /\ found <= q
    BY <1>1, <1>4, <2>1
  <2>3. found \notin p..(q - 1)
    BY <1>1, <1>5, <2>2
  <2>4. found = q
    BY <2>1, <2>2, <2>3
  <2>. QED
    BY <1>6, <2>4 DEF found
<1>7. CASE ~(q < to)
  <2>1. \A i \in p..(to - 1) : i \in p..(q - 1)
    BY <1>7
  <2>2. found = 0
    BY <1>1, <1>5, <2>1
  <2>. QED
    BY <1>7, <2>2 DEF found
<1>. QED
  BY <1>6, <1>7

-----------------------------------------------------------------------------
(* Lists that are computed from the end.  The parse functions of Request   *)
(* go from item to item: at i, unless they stop there, they append rec[i]  *)
(* and go on at next[i].                                                   *)

Lists(f, n, stop, rec, next) ==
  f = [i \in 1..(n + 1) |-> IF i = n + 1 \/ i \in stop THEN <<>>
                            ELSE <<rec[i]>> \o f[next[i]]]

Onward(n, stop, next) ==
  /\ next \in [1..n -> 1..(n + 1)]
  /\ \A i \in 1..n : i \notin stop => i < next[i]

(* There is such a function. *)
LEMMA ListComputed ==
  ASSUME NEW n \in Nat, NEW stop, NEW rec, NEW next, Onward(n, stop, next)
  PROVE  \E f : Lists(f, n, stop, rec, next)
<1>. DEFINE T == {rec[i] : i \in 1..n}
            S == Seq(T)
            to == [i \in 1..n |-> IF i \in stop THEN n + 1 ELSE next[i]]
            put(i, v) == IF i \in stop THEN <<>> ELSE <<rec[i]>> \o v
            step == [i \in 1..n |-> [v \in S |-> put(i, v)]]
            base == <<>>
<1>1. base \in S
  BY EmptySeq
<1>2. ASSUME NEW i \in 1..n, NEW v \in S PROVE put(i, v) \in S
  <2>1. rec[i] \in T
    OBVIOUS
  <2>. HIDE DEF T
  <2>2. <<rec[i]>> \in Seq(T)
    BY <2>1
  <2>3. <<rec[i]>> \o v \in Seq(T)
    BY <2>2, ConcatProperties
  <2>4. <<>> \in Seq(T)
    BY EmptySeq
  <2>. QED
    BY <2>3, <2>4
<1>. HIDE DEF S, put
<1>3. step \in [1..n -> [S -> S]]
  BY <1>2
<1>4. \A i \in 1..n : \A v \in S : step[i][v] = put(i, v)
  OBVIOUS
<1>5. to \in [1..n -> 1..(n + 1)] /\ \A i \in 1..n : i < to[i]
  BY DEF Onward
<1>6. \A i \in 1..n : to[i] = IF i \in stop THEN n + 1 ELSE next[i]
  OBVIOUS
<1>. HIDE DEF step, to, base
<1>7. PICK f \in [1..(n + 1) -> S] : ComputedFromTheEnd(f, n, to, base, step)
  BY <1>1, <1>3, <1>5, FunctionFromTheEnd
<1>8. f[n + 1] = base /\ \A i \in 1..n : f[i] = step[i][f[to[i]]]
  BY <1>7 DEF ComputedFromTheEnd
<1>. DEFINE value(i) == IF i = n + 1 \/ i \in stop THEN <<>> ELSE <<rec[i]>> \o f[next[i]]
<1>9. ASSUME NEW i \in 1..(n + 1) PROVE f[i] = value(i)
  <2>1. CASE i = n + 1
    BY <1>8, <2>1 DEF base
  <2>2. CASE i # n + 1
    <3>1. i \in 1..n
      BY <2>2
    <3>2. to[i] \in 1..(n + 1) /\ f[to[i]] \in S
      BY <1>5, <1>7, <3>1
    <3>3. f[i] = put(i, f[to[i]])
      BY <1>4, <1>8, <3>1, <3>2
    <3>4. i \notin stop => to[i] = next[i]
      BY <1>6, <3>1
    <3>. QED
      BY <2>2, <3>3, <3>4 DEF put
  <2>. QED
    BY <2>1, <2>2
<1>. HIDE DEF value
<1>10. f = [i \in 1..(n + 1) |-> value(i)]
  BY <1>7, <1>9
<1>11. Lists(f, n, stop, rec, next)
  BY <1>10 DEF Lists, value
<1>. QED
  BY <1>11

(* The items that are met lie at at[1], at[2] up to at[k].                 *)
Meets(at, k, n, stop, next) ==
  /\ at \in [1..(k + 1) -> 1..(n + 1)]
  /\ \A i \in 1..k : at[i] # n + 1 /\ at[i] \notin stop /\ next[at[i]] = at[i + 1]
  /\ at[k + 1] = n + 1 \/ at[k + 1] \in stop

Items(at, k, rec) == [i \in 1..k |-> rec[at[i]]]
ListIs(f, at, k, rec) == f[at[1]] = Items(at, k, rec)

(* The list is what is appended at these. *)
LEMMA Listed ==
  ASSUME NEW f, NEW n \in Nat, NEW stop, NEW rec, NEW next, Lists(f, n, stop, rec, next),
         NEW k \in Nat, NEW at, Meets(at, k, n, stop, next)
  PROVE  ListIs(f, at, k, rec)
<1>. USE DEF Meets, Items, ListIs
<1>. DEFINE item(i) == rec[at[i]]
            T == {item(i) : i \in 1..k}
            from(j) == [i \in 1..(k + 1 - j) |-> item(j + i - 1)]
            Good == {j \in 1..(k + 1) : f[at[j]] = from(j)}
            down == [i \in 1..k |-> i + 1]
<1>1. \A i \in 1..(n + 1) : f[i] = IF i = n + 1 \/ i \in stop THEN <<>>
                                   ELSE <<rec[i]>> \o f[next[i]]
  BY DEF Lists
<1>2. f[at[k + 1]] = <<>>
  <2>1. k + 1 \in 1..(k + 1)
    OBVIOUS
  <2>2. at[k + 1] \in 1..(n + 1)
    BY <2>1
  <2>. QED
    BY <1>1, <2>2
<1>3. from(k + 1) = <<>>
  <2>1. k + 1 - (k + 1) = 0
    OBVIOUS
  <2>. HIDE DEF item
  <2>2. DOMAIN from(k + 1) = {}
    BY <2>1
  <2>. QED
    BY <2>1
<1>4. ASSUME NEW j \in 1..k PROVE f[at[j]] = <<item(j)>> \o f[at[j + 1]]
  <2>1. at[j] \in 1..(n + 1) /\ at[j] # n + 1 /\ at[j] \notin stop /\ next[at[j]] = at[j + 1]
    OBVIOUS
  <2>. QED
    BY <1>1, <2>1
<1>5. ASSUME NEW j \in 1..k PROVE <<item(j)>> \o from(j + 1) = from(j)
  <2>. DEFINE rest == from(j + 1)
              all  == from(j)
              one  == <<item(j)>>
  <2>1. \A i \in 1..k : item(i) \in T
    OBVIOUS
  <2>. HIDE DEF item, T
  <2>2. /\ rest \in Seq(T) /\ Len(rest) = k - j
        /\ \A i \in 1..(k - j) : rest[i] = item(j + i)
    <3>1. k + 1 - (j + 1) = k - j /\ k - j \in Nat
      OBVIOUS
    <3>2. \A i \in 1..(k - j) : (j + 1) + i - 1 = j + i /\ j + i \in 1..k
      OBVIOUS
    <3>3. rest = [i \in 1..(k - j) |-> item((j + 1) + i - 1)]
      BY <3>1
    <3>4. rest = [i \in 1..(k - j) |-> item(j + i)]
      BY <3>2, <3>3
    <3>5. [i \in 1..(k - j) |-> item(j + i)] \in Seq(T)
      BY <2>1, <3>1, <3>2
    <3>6. Len([i \in 1..(k - j) |-> item(j + i)]) = k - j
      BY <3>1
    <3>. HIDE DEF rest
    <3>. QED
      BY <3>4, <3>5, <3>6
  <2>3. /\ all \in Seq(T) /\ Len(all) = k + 1 - j
        /\ \A i \in 1..(k + 1 - j) : all[i] = item(j + i - 1)
    <3>1. k + 1 - j \in Nat
      OBVIOUS
    <3>2. \A i \in 1..(k + 1 - j) : j + i - 1 \in 1..k
      OBVIOUS
    <3>3. [i \in 1..(k + 1 - j) |-> item(j + i - 1)] \in Seq(T)
      BY <2>1, <3>1, <3>2
    <3>4. Len([i \in 1..(k + 1 - j) |-> item(j + i - 1)]) = k + 1 - j
      BY <3>1
    <3>. QED
      BY <3>3, <3>4
  <2>4. one \in Seq(T) /\ Len(one) = 1 /\ one[1] = item(j)
    BY <2>1
  <2>. HIDE DEF rest, all, one
  <2>5. /\ one \o rest \in Seq(T) /\ Len(one \o rest) = Len(one) + Len(rest)
        /\ \A i \in 1..(Len(one) + Len(rest)) :
             (one \o rest)[i] = IF i <= Len(one) THEN one[i] ELSE rest[i - Len(one)]
    <3>1. one \in Seq(T) /\ rest \in Seq(T)
      BY <2>2, <2>4
    <3>. QED
      BY <3>1, ConcatProperties
  <2>6. Len(one \o rest) = Len(all)
    BY <2>2, <2>3, <2>4, <2>5
  <2>7. ASSUME NEW i \in 1..Len(all) PROVE (one \o rest)[i] = all[i]
    <3>1. i \in 1..(k + 1 - j)
      BY <2>3
    <3>2. CASE i = 1
      <4>1. j + i - 1 = j
        BY <3>2
      <4>. QED
        BY <2>3, <2>4, <2>5, <2>2, <3>1, <3>2, <4>1
    <3>3. CASE i # 1
      <4>1. i - 1 \in 1..(k - j) /\ j + (i - 1) = j + i - 1
        BY <3>1, <3>3
      <4>2. rest[i - 1] = item(j + i - 1)
        BY <2>2, <4>1
      <4>3. i \in 1..(Len(one) + Len(rest)) /\ ~(i <= Len(one))
        <5>1. Len(one) = 1 /\ Len(rest) = k - j
          BY <2>2, <2>4
        <5>2. i \in 1..(1 + (k - j)) /\ ~(i <= 1)
          BY <3>1, <3>3
        <5>. QED
          BY <5>1, <5>2
      <4>4. (one \o rest)[i] = rest[i - 1]
        BY <2>4, <2>5, <4>3
      <4>. QED
        BY <2>3, <3>1, <4>2, <4>4
    <3>. QED
      BY <3>2, <3>3
  <2>8. one \o rest = all
    BY <2>3, <2>5, <2>6, <2>7, SeqEqual
  <2>. QED
    BY <2>8 DEF one, rest, all
<1>. HIDE DEF item, T
<1>6. k + 1 \in Good
  BY <1>2, <1>3
<1>. HIDE DEF from
<1>7. ASSUME NEW j \in 1..k, j + 1 \in Good PROVE j \in Good
  <2>1. f[at[j + 1]] = from(j + 1)
    BY <1>7
  <2>2. f[at[j]] = from(j)
    BY <1>4, <1>5, <2>1
  <2>. QED
    BY <2>2
<1>8. \A j \in Good : f[at[j]] = from(j)
  OBVIOUS
<1>. HIDE DEF Good
<1>9. /\ down \in [1..k -> 1..(k + 1)] /\ \A i \in 1..k : i < down[i]
      /\ \A i \in 1..k : down[i] \in Good => i \in Good
  BY <1>7
<1>. HIDE DEF down
<1>10. \A j \in 1..(k + 1) : j \in Good
  BY <1>6, <1>9, FromTheEnd
<1>11. f[at[1]] = from(1)
  <2>1. 1 \in 1..(k + 1)
    OBVIOUS
  <2>. QED
    BY <1>8, <1>10, <2>1
<1>12. from(1) = [i \in 1..k |-> item(i)]
  <2>1. k + 1 - 1 = k /\ \A i \in 1..k : 1 + i - 1 = i
    OBVIOUS
  <2>. QED
    BY <2>1 DEF from
<1>. QED
  BY <1>11, <1>12 DEF item

-----------------------------------------------------------------------------
(* Strings that are put together.                                          *)

(* What holds of 0, and of i when it holds of i - 1, holds up to n. *)
LEMMA UpFromZero ==
  ASSUME NEW n \in Nat, NEW Good, 0 \in Good, \A i \in 1..n : i - 1 \in Good => i \in Good
  PROVE  \A i \in 0..n : i \in Good
<1>. DEFINE Mirror == {i \in 1..(n + 1) : n + 1 - i \in Good}
            up == [i \in 1..n |-> i + 1]
<1>1. n + 1 \in Mirror
  BY n + 1 - (n + 1) = 0
<1>2. up \in [1..n -> 1..(n + 1)] /\ \A i \in 1..n : i < up[i] /\ up[i] = i + 1
  OBVIOUS
<1>3. ASSUME NEW i \in 1..n, up[i] \in Mirror PROVE i \in Mirror
  <2>1. n + 1 - (i + 1) \in Good
    BY <1>2, <1>3
  <2>2. n + 1 - i \in 1..n /\ (n + 1 - i) - 1 = n + 1 - (i + 1)
    OBVIOUS
  <2>. QED
    BY <2>1, <2>2
<1>4. \A i \in Mirror : n + 1 - i \in Good
  OBVIOUS
<1>. HIDE DEF Mirror, up
<1>5. \A i \in 1..(n + 1) : i \in Mirror
  BY <1>1, <1>2, <1>3, FromTheEnd
<1>6. \A i \in 0..n : n + 1 - i \in 1..(n + 1) /\ n + 1 - (n + 1 - i) = i
  OBVIOUS
<1>. QED
  BY <1>4, <1>5, <1>6

(* f[i] is what the first i strings of seqs are, one after the other. *)
Flattens(f, seqs) ==
  /\ f \in [0..Len(seqs) -> Strings]
  /\ f[0] = <<>>
  /\ \A i \in 1..Len(seqs) : f[i] = f[i - 1] \o seqs[i]
  /\ FlattenSeq(seqs) = f[Len(seqs)]

(* FlattenSeq computes this. *)
LEMMA FlattenComputed ==
  ASSUME NEW seqs \in Seq(Strings)
  PROVE  \E f : Flattens(f, seqs)
<1>. DEFINE n == Len(seqs)
<1>1. n \in Nat /\ \A i \in 1..n : seqs[i] \in Strings
  BY LenProperties, ElementOfSeq
<1>2. <<>> \in Strings
  BY EmptySeq DEF Strings
<1>3. \A s \in Strings, t \in Strings : s \o t \in Strings
  BY ConcatProperties DEF Strings
<1>4. CASE n = 0
  <2>1. seqs = <<>>
    BY <1>4, EmptySeq
  <2>2. FlattenSeq(seqs) = <<>>
    BY <1>4, <2>1 DEF FlattenSeq
  <2>. DEFINE f == [i \in 0..0 |-> <<>>]
  <2>3. f \in [0..n -> Strings] /\ f[0] = <<>>
    BY <1>2, <1>4
  <2>4. Flattens(f, seqs)
    BY <1>4, <2>2, <2>3 DEF Flattens
  <2>. QED
    BY <2>4
<1>5. CASE n # 0
  <2>. DEFINE entry(f, i) == IF i = 1 THEN seqs[i] ELSE f[i - 1] \o seqs[i]
              From(f) == f = [i \in 1..n |-> entry(f, i)]
              k == n - 1
              next == [i \in 1..k |-> i + 1]
              put(i, v) == v \o seqs[n + 1 - i]
              step == [i \in 1..k |-> [v \in Strings |-> put(i, v)]]
              base == seqs[1]
  <2>1. k \in Nat /\ k + 1 = n
    BY <1>1, <1>5
  <2>2. base \in Strings
    BY <1>1, <1>5
  <2>3. next \in [1..k -> 1..(k + 1)] /\ \A i \in 1..k : i < next[i] /\ next[i] = i + 1
    BY <2>1
  <2>4. ASSUME NEW i \in 1..k, NEW v \in Strings PROVE put(i, v) \in Strings
    <3>1. n + 1 - i \in 1..n
      BY <1>1
    <3>. QED
      BY <1>1, <1>3, <3>1
  <2>. HIDE DEF put
  <2>5. step \in [1..k -> [Strings -> Strings]]
    BY <2>4
  <2>6. \A i \in 1..k : \A v \in Strings : step[i][v] = put(i, v)
    OBVIOUS
  <2>. HIDE DEF step, next, k
  <2>7. PICK g \in [1..(k + 1) -> Strings] : ComputedFromTheEnd(g, k, next, base, step)
    <3>. HIDE DEF base
    <3>. QED
      BY <2>1, <2>2, <2>3, <2>5, FunctionFromTheEnd
  <2>. DEFINE f == [i \in 1..n |-> g[n + 1 - i]]
  <2>8. ASSUME NEW i \in 1..n PROVE f[i] = entry(f, i)
    <3>1. f[i] = g[n + 1 - i]
      OBVIOUS
    <3>2. CASE i = 1
      <4>1. n + 1 - i = k + 1
        BY <1>1, <2>1, <3>2
      <4>2. g[k + 1] = seqs[1]
        BY <2>7 DEF ComputedFromTheEnd
      <4>. QED
        BY <3>1, <3>2, <4>1, <4>2
    <3>3. CASE i # 1
      <4>. DEFINE j == n + 1 - i
      <4>1. j \in 1..k /\ j + 1 = n + 1 - (i - 1) /\ n + 1 - j = i /\ i - 1 \in 1..n
        BY <1>1, <2>1, <3>3
      <4>2. g[j] = step[j][g[next[j]]] /\ next[j] = j + 1 /\ g[j + 1] \in Strings
        BY <2>1, <2>3, <2>7, <4>1 DEF ComputedFromTheEnd
      <4>3. g[j] = put(j, g[j + 1])
        BY <2>6, <4>1, <4>2
      <4>4. f[i - 1] = g[j + 1]
        BY <4>1
      <4>5. put(j, g[j + 1]) = g[j + 1] \o seqs[i]
        BY <4>1 DEF put
      <4>. HIDE DEF f
      <4>. QED
        BY <3>1, <3>3, <4>3, <4>4, <4>5
    <3>. QED
      BY <3>2, <3>3
  <2>9. From(f)
    <3>1. f = [i \in 1..n |-> f[i]]
      OBVIOUS
    <3>. HIDE DEF f
    <3>. QED
      BY <2>8, <3>1
  <2>10. FlattenSeq(seqs) = (CHOOSE h : From(h))[n]
    BY <1>5 DEF FlattenSeq
  <2>. DEFINE h == CHOOSE x : From(x)
  <2>11. From(h)
    <3>. HIDE DEF From, f
    <3>. QED
      BY <2>9
  <2>12. FlattenSeq(seqs) = h[n]
    BY <2>10
  <2>. HIDE DEF h
  <2>13. \A i \in 1..n : h[i] = IF i = 1 THEN seqs[i] ELSE h[i - 1] \o seqs[i]
    BY <2>11
  <2>. HIDE DEF n, From, entry, base, f
  <2>. DEFINE Good == {i \in 0..n : i = 0 \/ h[i] \in Strings}
  <2>14. 0 \in Good
    BY <1>1
  <2>15. ASSUME NEW i \in 1..n, i - 1 \in Good PROVE i \in Good
    <3>1. CASE i = 1
      BY <1>1, <2>13, <3>1
    <3>2. CASE i # 1
      <4>1. h[i - 1] \in Strings
        BY <2>15, <3>2
      <4>. QED
        BY <1>1, <1>3, <2>13, <3>2, <4>1
    <3>. QED
      BY <3>1, <3>2
  <2>16. \A i \in Good : i = 0 \/ h[i] \in Strings
    OBVIOUS
  <2>. HIDE DEF Good
  <2>17. \A i \in 0..n : i \in Good
    BY <1>1, <2>14, <2>15, UpFromZero
  <2>18. \A i \in 1..n : h[i] \in Strings
    BY <2>16, <2>17
  <2>. DEFINE F == [i \in 0..n |-> IF i = 0 THEN <<>> ELSE h[i]]
  <2>19. F \in [0..n -> Strings] /\ F[0] = <<>> /\ F[n] = h[n] /\ \A i \in 1..n : F[i] = h[i]
    BY <1>1, <1>2, <1>5, <2>18
  <2>. HIDE DEF F
  <2>20. ASSUME NEW i \in 1..n PROVE F[i] = F[i - 1] \o seqs[i]
    <3>1. CASE i = 1
      <4>1. <<>> \o seqs[1] = seqs[1]
        <5>1. seqs[1] \in Seq(Tokens)
          BY <1>1, <3>1 DEF Strings
        <5>. QED
          BY <5>1, ConcatEmptySeq
      <4>2. F[i] = seqs[1] /\ F[i - 1] = <<>>
        BY <2>13, <2>19, <3>1
      <4>. QED
        BY <3>1, <4>1, <4>2
    <3>2. CASE i # 1
      <4>1. i - 1 \in 1..n
        BY <1>1, <3>2
      <4>. QED
        BY <2>13, <2>19, <3>2, <4>1
    <3>. QED
      BY <3>1, <3>2
  <2>21. Flattens(F, seqs)
    BY <2>12, <2>19, <2>20 DEF Flattens, n
  <2>. QED
    BY <2>21
<1>. QED
  BY <1>4, <1>5

(* What FlattenSeq returns is a string. *)
LEMMA FlattenTyped ==
  ASSUME NEW seqs \in Seq(Strings)
  PROVE  FlattenSeq(seqs) \in Strings
<1>1. PICK f : Flattens(f, seqs)
  BY FlattenComputed
<1>2. Len(seqs) \in 0..Len(seqs)
  BY LenProperties
<1>. QED
  BY <1>1, <1>2 DEF Flattens

(* The parts of a string that lies in m from p on lie there one after the  *)
(* other: the i-th at off[i].                                              *)
Laid(m, p, seqs, off) ==
  /\ off \in [1..(Len(seqs) + 1) -> Nat \ {0}]
  /\ off[1] = p
  /\ off[Len(seqs) + 1] = p + Len(FlattenSeq(seqs))
  /\ \A i \in 1..Len(seqs) : Holds(m, off[i], seqs[i])
  /\ \A i \in 1..Len(seqs) : off[i + 1] = off[i] + Len(seqs[i])

LEMMA FlattenParts ==
  ASSUME NEW m \in Strings, NEW p \in Nat \ {0}, NEW seqs \in Seq(Strings),
         Holds(m, p, FlattenSeq(seqs))
  PROVE  \E off : Laid(m, p, seqs, off)
<1>. DEFINE n == Len(seqs)
<1>1. n \in Nat /\ \A i \in 1..n : seqs[i] \in Strings
  BY LenProperties, ElementOfSeq
<1>2. PICK f : Flattens(f, seqs)
  BY FlattenComputed
<1>3. /\ f \in [0..n -> Strings] /\ f[0] = <<>> /\ FlattenSeq(seqs) = f[n]
      /\ \A i \in 1..n : f[i] = f[i - 1] \o seqs[i]
  BY <1>2 DEF Flattens
<1>. HIDE DEF n
<1>4. ASSUME NEW i \in 1..n
      PROVE  /\ f[i - 1] \in Strings /\ seqs[i] \in Strings
             /\ Len(f[i]) = Len(f[i - 1]) + Len(seqs[i])
             /\ Holds(m, p, f[i]) => /\ Holds(m, p, f[i - 1])
                                     /\ Holds(m, p + Len(f[i - 1]), seqs[i])
  <2>1. i - 1 \in 0..n
    BY <1>1
  <2>2. f[i - 1] \in Strings /\ seqs[i] \in Strings /\ f[i] = f[i - 1] \o seqs[i]
    BY <1>1, <1>3, <2>1
  <2>3. ASSUME NEW s \in Strings, NEW t \in Strings
        PROVE  /\ Len(s \o t) = Len(s) + Len(t)
               /\ Holds(m, p, s \o t) => Holds(m, p, s) /\ Holds(m, p + Len(s), t)
    BY HoldsParts
  <2>4. /\ Len(f[i - 1] \o seqs[i]) = Len(f[i - 1]) + Len(seqs[i])
        /\ Holds(m, p, f[i - 1] \o seqs[i])
             => Holds(m, p, f[i - 1]) /\ Holds(m, p + Len(f[i - 1]), seqs[i])
    BY <2>2, <2>3, ZenonT(30)
  <2>. QED
    BY <2>2, <2>4, ZenonT(30)
<1>. DEFINE Good == {j \in 0..n : Holds(m, p, f[n - j])}
<1>5. 0 \in Good
  BY <1>1, <1>3, n - 0 = n
<1>6. ASSUME NEW j \in 1..n, j - 1 \in Good PROVE j \in Good
  <2>1. n - (j - 1) \in 1..n /\ (n - (j - 1)) - 1 = n - j
    BY <1>1
  <2>2. Holds(m, p, f[n - (j - 1)])
    BY <1>6
  <2>3. Holds(m, p, f[(n - (j - 1)) - 1])
    BY <1>4, <2>1, <2>2
  <2>. QED
    BY <2>1, <2>3
<1>7. \A j \in Good : Holds(m, p, f[n - j])
  OBVIOUS
<1>. HIDE DEF Good
<1>8. \A j \in 0..n : j \in Good
  BY <1>1, <1>5, <1>6, UpFromZero
<1>9. ASSUME NEW i \in 0..n PROVE Holds(m, p, f[i])
  <2>1. n - i \in 0..n /\ n - (n - i) = i
    BY <1>1
  <2>2. Holds(m, p, f[n - (n - i)])
    BY <1>7, <1>8, <2>1
  <2>. QED
    BY <2>1, <2>2
<1>. DEFINE at(i) == p + Len(f[i - 1])
            off == [i \in 1..(n + 1) |-> at(i)]
<1>10. ASSUME NEW i \in 1..(n + 1) PROVE at(i) \in Nat \ {0}
  <2>1. i - 1 \in 0..n
    BY <1>1
  <2>2. Len(f[i - 1]) \in Nat
    BY <1>3, <2>1, LenProperties DEF Strings
  <2>. QED
    BY <2>2
<1>11. at(1) = p
  <2>1. Len(<<>>) = 0 /\ 1 - 1 = 0
    OBVIOUS
  <2>. QED
    BY <1>3, <2>1
<1>12. at(n + 1) = p + Len(f[n])
  BY <1>1, n + 1 - 1 = n
<1>13. ASSUME NEW i \in 1..n
       PROVE  Holds(m, at(i), seqs[i]) /\ at(i + 1) = at(i) + Len(seqs[i])
  <2>1. i + 1 - 1 = i /\ i \in 0..n /\ i - 1 \in 0..n
    BY <1>1
  <2>2. Holds(m, p, f[i])
    BY <1>9, <2>1
  <2>3. Len(f[i - 1]) \in Nat /\ Len(seqs[i]) \in Nat
    BY <1>1, <1>3, <2>1, LenProperties DEF Strings
  <2>4. at(i + 1) = p + Len(f[i])
    BY <2>1
  <2>5. Holds(m, p + Len(f[i - 1]), seqs[i]) /\ Len(f[i]) = Len(f[i - 1]) + Len(seqs[i])
    BY <1>4, <2>2
  <2>6. at(i) = p + Len(f[i - 1])
    OBVIOUS
  <2>. HIDE DEF at
  <2>7. Holds(m, at(i), seqs[i])
    BY <2>5, <2>6
  <2>8. at(i + 1) = at(i) + Len(seqs[i])
    <3>1. ASSUME NEW a \in Nat, NEW b \in Nat PROVE p + (a + b) = p + a + b
      OBVIOUS
    <3>2. p + (Len(f[i - 1]) + Len(seqs[i])) = p + Len(f[i - 1]) + Len(seqs[i])
      BY <2>3, <3>1
    <3>3. Len(f[i]) = Len(f[i - 1]) + Len(seqs[i])
      BY <2>5
    <3>. QED
      BY <2>4, <2>6, <3>2, <3>3
  <2>. QED
    BY <2>7, <2>8
<1>. HIDE DEF at
<1>14. /\ off \in [1..(n + 1) -> Nat \ {0}]
       /\ \A i \in 1..(n + 1) : off[i] = at(i)
  BY <1>10
<1>. HIDE DEF off
<1>15. \A i \in 1..n : i \in 1..(n + 1) /\ i + 1 \in 1..(n + 1)
  BY <1>1
<1>16. 1 \in 1..(n + 1) /\ n + 1 \in 1..(n + 1)
  BY <1>1
<1>17. Laid(m, p, seqs, off)
  BY <1>3, <1>11, <1>12, <1>13, <1>14, <1>15, <1>16 DEF Laid, n
<1>. QED
  BY <1>17

(* Parts with something between them. *)
Joined(m, p, parts, between, at) ==
  /\ at \in [1..(Len(parts) + 1) -> Nat \ {0}]
  /\ at[1] = p
  /\ \A i \in 1..Len(parts) :
       /\ Holds(m, at[i], parts[i])
       /\ at[i + 1] = at[i] + Len(parts[i]) + Len(between)
       /\ i < Len(parts) => Holds(m, at[i] + Len(parts[i]), between)
  /\ parts # <<>> => at[Len(parts) + 1] = p + Len(Join(parts, between)) + Len(between)

LEMMA JoinTyped ==
  ASSUME NEW parts \in Seq(Strings), NEW between \in Strings
  PROVE  /\ Join(parts, between) \in Strings
         /\ [i \in DOMAIN parts |-> IF i = 1 THEN parts[i] ELSE between \o parts[i]]
              \in Seq(Strings)
         /\ parts = <<>> => Join(parts, between) = <<>>
<1>. DEFINE n == Len(parts)
            part(i) == IF i = 1 THEN parts[i] ELSE between \o parts[i]
<1>1. n \in Nat /\ DOMAIN parts = 1..n /\ \A i \in 1..n : parts[i] \in Strings
  BY LenProperties, ElementOfSeq
<1>2. \A i \in 1..n : part(i) \in Strings
  BY <1>1, ConcatProperties DEF Strings
<1>. HIDE DEF part, n
<1>3. [i \in 1..n |-> part(i)] \in Seq(Strings)
  BY <1>1, <1>2
<1>4. [i \in DOMAIN parts |-> part(i)] \in Seq(Strings)
  BY <1>1, <1>3
<1>5. FlattenSeq([i \in DOMAIN parts |-> part(i)]) \in Strings
  BY <1>4, FlattenTyped
<1>6. ASSUME parts = <<>> PROVE FlattenSeq([i \in DOMAIN parts |-> part(i)]) = <<>>
  <2>1. n = 0
    BY <1>6 DEF n
  <2>2. [i \in DOMAIN parts |-> part(i)] = <<>>
    BY <1>1, <2>1
  <2>. QED
    BY <2>2 DEF FlattenSeq
<1>. QED
  BY <1>4, <1>5, <1>6 DEF Join, part

LEMMA JoinParts ==
  ASSUME NEW m \in Strings, NEW p \in Nat \ {0}, NEW parts \in Seq(Strings),
         NEW between \in Strings, Holds(m, p, Join(parts, between))
  PROVE  \E at : Joined(m, p, parts, between, at)
<1>. DEFINE n == Len(parts)
            seqs == [i \in DOMAIN parts |-> IF i = 1 THEN parts[i] ELSE between \o parts[i]]
<1>1. n \in Nat /\ DOMAIN parts = 1..n /\ \A i \in 1..n : parts[i] \in Strings
  BY LenProperties, ElementOfSeq
<1>2. seqs \in Seq(Strings)
  BY JoinTyped
<1>3. Join(parts, between) = FlattenSeq(seqs)
  BY DEF Join
<1>4. Len(seqs) = n /\ \A i \in 1..n : seqs[i] = IF i = 1 THEN parts[i] ELSE between \o parts[i]
  <2>1. DOMAIN seqs = 1..n
    BY <1>1
  <2>2. DOMAIN seqs = 1..Len(seqs) /\ Len(seqs) \in Nat
    BY <1>2, LenProperties
  <2>3. Len(seqs) = n
    <3>. HIDE DEF n, seqs
    <3>. QED
      BY <1>1, <2>1, <2>2
  <2>. QED
    BY <1>1, <2>3
<1>. HIDE DEF n, seqs
<1>5. PICK off : Laid(m, p, seqs, off)
  BY <1>2, <1>3, FlattenParts
<1>6. /\ off \in [1..(n + 1) -> Nat \ {0}] /\ off[1] = p
      /\ off[n + 1] = p + Len(Join(parts, between))
      /\ \A i \in 1..n : Holds(m, off[i], seqs[i]) /\ off[i + 1] = off[i] + Len(seqs[i])
  BY <1>3, <1>4, <1>5 DEF Laid
<1>7. Len(between) \in Nat /\ \A i \in 1..n : Len(parts[i]) \in Nat
  BY <1>1, LenProperties DEF Strings
<1>8. \A i \in 1..(n + 1) : off[i] \in Nat \ {0}
  BY <1>6
<1>. DEFINE at == [i \in 1..(n + 1) |-> IF i = 1 THEN p ELSE off[i] + Len(between)]
<1>9. at \in [1..(n + 1) -> Nat \ {0}]
  BY <1>7, <1>8
<1>10. \A i \in 1..(n + 1) : at[i] = IF i = 1 THEN p ELSE off[i] + Len(between)
  OBVIOUS
<1>11. at[1] = p
  BY <1>1
<1>. HIDE DEF at
<1>12. ASSUME NEW i \in 1..n, i # 1
       PROVE  /\ Holds(m, off[i], between) /\ Holds(m, at[i], parts[i])
              /\ off[i + 1] = at[i] + Len(parts[i])
  <2>1. seqs[i] = between \o parts[i] /\ i \in 1..(n + 1)
    BY <1>1, <1>4, <1>12
  <2>2. /\ Holds(m, off[i], between) /\ Holds(m, off[i] + Len(between), parts[i])
        /\ Len(seqs[i]) = Len(between) + Len(parts[i])
    <3>1. off[i] \in Nat \ {0} /\ Holds(m, off[i], between \o parts[i])
      BY <1>6, <1>8, <2>1
    <3>. QED
      BY <1>1, <2>1, <3>1, HoldsParts
  <2>3. at[i] = off[i] + Len(between)
    BY <1>10, <1>12, <2>1
  <2>4. off[i + 1] = off[i] + Len(seqs[i]) /\ off[i] \in Nat
    BY <1>6, <1>8, <2>1
  <2>. QED
    BY <1>7, <2>2, <2>3, <2>4
<1>13. ASSUME NEW i \in 1..n, i = 1
       PROVE  Holds(m, at[i], parts[i]) /\ off[i + 1] = at[i] + Len(parts[i])
  BY <1>4, <1>6, <1>11, <1>13
<1>14. ASSUME NEW i \in 1..n
       PROVE  /\ Holds(m, at[i], parts[i])
              /\ at[i + 1] = at[i] + Len(parts[i]) + Len(between)
              /\ i < n => Holds(m, at[i] + Len(parts[i]), between)
  <2>1. Holds(m, at[i], parts[i]) /\ off[i + 1] = at[i] + Len(parts[i])
    BY <1>12, <1>13
  <2>2. i + 1 \in 1..(n + 1) /\ i + 1 # 1
    BY <1>1
  <2>3. at[i + 1] = off[i + 1] + Len(between)
    BY <1>10, <2>2
  <2>4. i < n => i + 1 \in 1..n
    BY <1>1
  <2>5. i < n => Holds(m, off[i + 1], between)
    BY <1>12, <2>2, <2>4
  <2>. QED
    BY <2>1, <2>3, <2>5
<1>15. ASSUME parts # <<>>
       PROVE  at[n + 1] = p + Len(Join(parts, between)) + Len(between)
  <2>1. n # 0
    <3>. SUFFICES ASSUME n = 0 PROVE FALSE
      OBVIOUS
    <3>1. parts = <<>>
      BY EmptySeq DEF n
    <3>. QED
      BY <1>15, <3>1
  <2>2. n + 1 \in 1..(n + 1) /\ n + 1 # 1
    BY <1>1, <2>1
  <2>. QED
    BY <1>6, <1>10, <2>2
<1>16. Joined(m, p, parts, between, at)
  BY <1>9, <1>11, <1>14, <1>15 DEF Joined, n
<1>. QED
  BY <1>16

-----------------------------------------------------------------------------
(* parseHeaders.                                                           *)

(* A line with a name and a value, and one without a colon, from p on; the *)
(* line end behind it lies at q.                                           *)
LineEnds(m, p, q) ==
  /\ p < q /\ Holds(m, q, Eol)
  /\ \A i \in p..(q - 1) : m[i] # "CR"
  /\ m[p] # "SP"

PairLies(m, p, name, value, q) ==
  \E v \in Nat :
    LET split == p + Len(name) IN
    /\ LineEnds(m, p, q)
    /\ Holds(m, p, name) /\ \A i \in p..(split - 1) : m[i] # ":"
    /\ m[split] = ":" /\ split < v
    /\ \A i \in (split + 1)..(v - 1) : m[i] = "SP"
    /\ m[v] # "SP" /\ Holds(m, v, value) /\ v + Len(value) = q

OddLies(m, p, q) == LineEnds(m, p, q) /\ \A i \in p..(q - 1) : m[i] # ":"

(* One turn of the loop of parseHeaders: where it finds the parts of the   *)
(* line at p, and where it goes on.                                        *)
LineEnd(m, p, headend) ==
  LET found == memmem(m, Eol, Skip(m, p, {"SP"}), headend)
  IN IF found = 0 THEN headend ELSE found
Colon(m, p, headend) ==
  memchr(m, ":", Skip(m, p, {"SP"}), LineEnd(m, p, headend))
HeaderAt(m, p, headend) ==
  [key   |-> String(m, Skip(m, p, {"SP"}), Colon(m, p, headend)),
   value |-> String(m, Skip(m, Colon(m, p, headend) + 1, {"SP"}), LineEnd(m, p, headend))]

(* What a turn does with a line. *)
LEMMA LineTurn ==
  ASSUME NEW m \in Strings, NEW headend \in Nat, NEW p \in Nat \ {0}, NEW q \in Nat,
         q <= headend, LineEnds(m, p, q)
  PROVE  /\ Skip(m, p, {"SP"}) = p /\ LineEnd(m, p, headend) = q
         /\ p < headend /\ q + 1 <= Len(m) /\ Len(m) \in Nat /\ m[q] = "CR"
<1>1. Len(m) \in Nat /\ Len(Eol) = 2
  BY LenProperties DEF Strings, Eol
<1>2. q + 1 <= Len(m) /\ p < q /\ m[p] # "SP" /\ Holds(m, q, Eol)
  BY <1>1 DEF LineEnds, Holds
<1>3. Skip(m, p, {"SP"}) = p
  BY <1>1, <1>2, SkipAt
<1>4. \A i \in p..(q - 1) : m[i] # "CR"
  BY DEF LineEnds
<1>5. memmem(m, Eol, p, headend) = IF q < headend THEN q ELSE 0
  BY <1>2, <1>4, MemmemEol
<1>6. m[q] = "CR"
  <2>1. Eol[1] = "CR" /\ q + 1 - 1 = q
    BY DEF Eol
  <2>2. m[q + 1 - 1] = Eol[1]
    BY <1>1, <1>2 DEF Holds
  <2>. QED
    BY <2>1, <2>2
<1>. QED
  BY <1>1, <1>2, <1>3, <1>5, <1>6 DEF LineEnd

LEMMA PairTurn ==
  ASSUME NEW m \in Strings, NEW headend \in Nat, NEW p \in Nat \ {0}, NEW q \in Nat,
         NEW name \in Strings, NEW value \in Strings,
         q <= headend, PairLies(m, p, name, value, q)
  PROVE  /\ p < headend /\ Colon(m, p, headend) # 0 /\ LineEnd(m, p, headend) = q
         /\ HeaderAt(m, p, headend) = [key |-> name, value |-> value]
<1>. DEFINE split == p + Len(name)
<1>1. Len(name) \in Nat /\ Len(value) \in Nat
  BY LenProperties DEF Strings
<1>2. PICK v \in Nat : /\ LineEnds(m, p, q)
                       /\ Holds(m, p, name) /\ \A i \in p..(split - 1) : m[i] # ":"
                       /\ m[split] = ":" /\ split < v
                       /\ \A i \in (split + 1)..(v - 1) : m[i] = "SP"
                       /\ m[v] # "SP" /\ Holds(m, v, value) /\ v + Len(value) = q
  BY DEF PairLies
<1>3. /\ Skip(m, p, {"SP"}) = p /\ LineEnd(m, p, headend) = q
      /\ p < headend /\ q + 1 <= Len(m) /\ Len(m) \in Nat /\ m[q] = "CR"
  BY <1>2, LineTurn
<1>4. /\ split \in p..Len(m) /\ split < q /\ split \in Nat
      /\ v \in (split + 1)..Len(m) /\ split + 1 \in Nat \ {0} /\ v \in Nat \ {0}
  BY <1>1, <1>2, <1>3, SMTT(30)
<1>5. Colon(m, p, headend) = split
  <2>1. memchr(m, ":", p, q) = split
    <3>. HIDE DEF split
    <3>. QED
      BY <1>2, <1>4, MemchrAt
  <2>. QED
    BY <1>3, <2>1 DEF Colon
<1>6. Skip(m, split + 1, {"SP"}) = v
  <2>. DEFINE bytes == {"SP"}
  <2>1. m[v] \notin bytes /\ \A i \in (split + 1)..(v - 1) : m[i] \in bytes
    BY <1>2
  <2>. HIDE DEF split, bytes
  <2>2. Skip(m, split + 1, bytes) = v
    BY <1>4, <2>1, SkipAt
  <2>. QED
    BY <2>2 DEF bytes
<1>7. String(m, p, split) = name /\ String(m, v, q) = value
  <2>1. String(m, p, p + Len(name)) = name
    BY <1>2, StringHeld
  <2>2. String(m, v, v + Len(value)) = value
    BY <1>2, <1>4, StringHeld
  <2>. QED
    BY <1>2, <2>1, <2>2
<1>. HIDE DEF split
<1>. QED
  BY <1>3, <1>4, <1>5, <1>6, <1>7 DEF HeaderAt

LEMMA OddTurn ==
  ASSUME NEW m \in Strings, NEW headend \in Nat, NEW p \in Nat \ {0}, NEW q \in Nat,
         q <= headend, OddLies(m, p, q)
  PROVE  p < headend /\ Colon(m, p, headend) = 0
<1>1. LineEnds(m, p, q) /\ \A i \in p..(q - 1) : m[i] # ":"
  BY DEF OddLies
<1>2. /\ Skip(m, p, {"SP"}) = p /\ LineEnd(m, p, headend) = q
      /\ p < headend /\ q + 1 <= Len(m) /\ Len(m) \in Nat
  BY <1>1, LineTurn
<1>3. memchr(m, ":", p, q) = 0
  BY <1>1, <1>2, MemchrNone
<1>. QED
  BY <1>2, <1>3 DEF Colon

(* k lines of a name and a value lie one behind the other, and then the    *)
(* headers end or a line without a colon follows; what is read of them.    *)
PairsLie(m, at, headend, k, name, value) ==
  /\ at \in [1..(k + 1) -> Nat \ {0}]
  /\ name \in [1..k -> Strings] /\ value \in [1..k -> Strings]
  /\ \A i \in 1..k : /\ at[i + 1] - 2 <= headend
                     /\ PairLies(m, at[i], name[i], value[i], at[i + 1] - 2)
  /\ \/ at[k + 1] = headend + 2
     \/ \E q \in Nat : q <= headend /\ OddLies(m, at[k + 1], q)
Pairs(k, name, value) == [i \in 1..k |-> [key |-> name[i], value |-> value[i]]]
PairsRead(m, at, headend, k, name, value) ==
  parseHeaders(m, at[1], headend) = Pairs(k, name, value)

(* A head whose lines with a colon lie at at[1], at[2] and so on; behind   *)
(* these lines is the end or a line without one.                           *)
LEMMA HeadersParsed ==
  ASSUME NEW m \in Strings, NEW headend \in Nat, headend <= Len(m), NEW k \in Nat,
         NEW at, NEW name, NEW value, PairsLie(m, at, headend, k, name, value)
  PROVE  PairsRead(m, at, headend, k, name, value)
<1>. DEFINE n == headend + 1
            Stops(p) == p >= headend \/ Colon(m, p, headend) = 0
            go(p) == LineEnd(m, p, headend) + 2
            item(p) == HeaderAt(m, p, headend)
            entry(f, line) ==
              LET begin == Skip(m, line, {"SP"})
                  found == memmem(m, Eol, begin, headend)
                  end   == IF found = 0 THEN headend ELSE found
                  split == memchr(m, ":", begin, end)
              IN IF line >= headend \/ split = 0 THEN <<>>
                 ELSE <<[key |-> String(m, begin, split),
                         value |-> String(m, Skip(m, split + 1, {"SP"}), end)]>> \o f[end + 2]
            From(f) == f = [line \in 1..(headend + 2) |-> entry(f, line)]
            list == CHOOSE f : From(f)
<1>1. parseHeaders(m, at[1], headend) = list[at[1]]
  BY DEF parseHeaders
<1>2. \A f, p : entry(f, p) = IF Stops(p) THEN <<>> ELSE <<item(p)>> \o f[go(p)]
  BY DEF Colon, LineEnd, HeaderAt
<1>3. ASSUME NEW p \in 1..n, ~Stops(p) PROVE go(p) \in (p + 1)..(n + 1)
  <2>. DEFINE b == Skip(m, p, {"SP"})
              found == memmem(m, Eol, b, headend)
  <2>1. p < headend /\ Len(m) \in Nat
    BY <1>3, LenProperties DEF Strings
  <2>2. b \in p..(Len(m) + 1)
    <3>. DEFINE bytes == {"SP"}
    <3>1. p \in Nat \ {0} /\ p <= Len(m) + 1
      BY <2>1
    <3>. HIDE DEF bytes
    <3>2. Skip(m, p, bytes) \in p..(Len(m) + 1)
      BY <3>1, SkipRange
    <3>. QED
      BY <3>2 DEF bytes
  <2>3. LineEnd(m, p, headend) = IF found = 0 THEN headend ELSE found
    BY DEF LineEnd
  <2>. HIDE DEF b
  <2>4. b \in Nat \ {0}
    BY <2>2
  <2>5. found \in {0} \cup (b..(headend - 1))
    <3>. DEFINE needle == Eol
    <3>1. headend \in Int
      OBVIOUS
    <3>. HIDE DEF needle
    <3>2. memmem(m, needle, b, headend) \in {0} \cup (b..(headend - 1))
      BY <2>4, <3>1, MemmemFinds
    <3>. QED
      BY <3>2 DEF needle
  <2>. HIDE DEF found
  <2>. QED
    BY <2>1, <2>2, <2>3, <2>5
<1>. HIDE DEF entry, Stops, item, go
<1>. DEFINE stop == {p \in 1..n : Stops(p)}
            rec  == [p \in 1..n |-> item(p)]
            next == [p \in 1..n |-> IF Stops(p) THEN n + 1 ELSE go(p)]
<1>4. Onward(n, stop, next)
  BY <1>3 DEF Onward
<1>5. /\ \A p \in 1..n : p \in stop <=> Stops(p)
      /\ \A p \in 1..n : rec[p] = item(p)
      /\ \A p \in 1..n : ~Stops(p) => next[p] = go(p)
      /\ \A p \in stop : p \in 1..n
  OBVIOUS
<1>6. Stops(n + 1) /\ n + 1 = headend + 2 /\ n \in Nat
  BY DEF Stops
<1>. HIDE DEF stop, rec, next, n
<1>7. ASSUME NEW f, NEW p \in 1..(n + 1)
      PROVE  entry(f, p) = IF p = n + 1 \/ p \in stop THEN <<>> ELSE <<rec[p]>> \o f[next[p]]
  <2>1. CASE p = n + 1
    BY <1>2, <1>6, <2>1
  <2>2. CASE p # n + 1
    <3>1. p \in 1..n
      BY <1>6, <2>2
    <3>. QED
      BY <1>2, <1>5, <2>2, <3>1
  <2>. QED
    BY <2>1, <2>2
<1>8. \A f : From(f) <=> Lists(f, n, stop, rec, next)
  <2>. SUFFICES ASSUME NEW f PROVE From(f) <=> Lists(f, n, stop, rec, next)
    OBVIOUS
  <2>1. From(f) <=> f = [p \in 1..(n + 1) |-> entry(f, p)]
    BY <1>6
  <2>2. [p \in 1..(n + 1) |-> entry(f, p)] =
          [p \in 1..(n + 1) |-> IF p = n + 1 \/ p \in stop THEN <<>>
                                ELSE <<rec[p]>> \o f[next[p]]]
    BY <1>7
  <2>. QED
    BY <2>1, <2>2 DEF Lists
<1>. HIDE DEF From
<1>9. \E f : From(f)
  BY <1>4, <1>6, <1>8, ListComputed
<1>10. Lists(list, n, stop, rec, next)
  BY <1>8, <1>9
<1>. HIDE DEF list
<1>0. /\ at \in [1..(k + 1) -> Nat \ {0}]
      /\ name \in [1..k -> Strings] /\ value \in [1..k -> Strings]
      /\ \A i \in 1..k : /\ at[i + 1] - 2 <= headend
                          /\ PairLies(m, at[i], name[i], value[i], at[i + 1] - 2)
      /\ \/ at[k + 1] = headend + 2
         \/ \E q \in Nat : q <= headend /\ OddLies(m, at[k + 1], q)
  BY DEF PairsLie
<1>11. ASSUME NEW i \in 1..k
       PROVE  /\ at[i] \in 1..n /\ ~Stops(at[i]) /\ go(at[i]) = at[i + 1]
              /\ item(at[i]) = [key |-> name[i], value |-> value[i]]
  <2>. DEFINE q == at[i + 1] - 2
              p == at[i]
  <2>1. i \in 1..(k + 1) /\ i + 1 \in 1..(k + 1)
    OBVIOUS
  <2>2. p \in Nat \ {0} /\ at[i + 1] \in Nat /\ name[i] \in Strings /\ value[i] \in Strings
    BY <1>0, <2>1
  <2>3. q <= headend /\ PairLies(m, p, name[i], value[i], q) /\ q \in Int
    BY <1>0, <2>2
  <2>4. q \in Nat
    <3>1. p < q
      BY <2>3 DEF PairLies, LineEnds
    <3>. HIDE DEF q, p
    <3>. QED
      BY <2>2, <2>3, <3>1
  <2>5. q + 2 = at[i + 1]
    BY <2>2
  <2>. HIDE DEF q, p
  <2>6. /\ p < headend /\ Colon(m, p, headend) # 0 /\ LineEnd(m, p, headend) = q
        /\ HeaderAt(m, p, headend) = [key |-> name[i], value |-> value[i]]
    BY <2>2, <2>3, <2>4, PairTurn
  <2>7. p \in 1..n
    BY <1>6, <2>2, <2>6 DEF n
  <2>. QED
    BY <2>2, <2>5, <2>6, <2>7 DEF Stops, item, go, p
<1>12. at[k + 1] \in 1..(n + 1) /\ (at[k + 1] = n + 1 \/ at[k + 1] \in stop)
  <2>1. at[k + 1] \in Nat \ {0}
    BY <1>0
  <2>2. CASE at[k + 1] = headend + 2
    BY <1>6, <2>2
  <2>3. CASE \E q \in Nat : q <= headend /\ OddLies(m, at[k + 1], q)
    <3>1. at[k + 1] < headend /\ Colon(m, at[k + 1], headend) = 0
      BY <2>1, <2>3, OddTurn
    <3>2. at[k + 1] \in 1..n
      BY <1>6, <2>1, <3>1
    <3>3. Stops(at[k + 1])
      BY <3>1 DEF Stops
    <3>. QED
      BY <1>5, <1>6, <3>2, <3>3
  <2>. QED
    BY <1>0, <2>2, <2>3
<1>13. \A i \in 1..k : at[i] # n + 1 /\ at[i] \notin stop /\ next[at[i]] = at[i + 1]
  BY <1>5, <1>6, <1>11
<1>14. at \in [1..(k + 1) -> 1..(n + 1)]
  <2>1. \A i \in 1..(k + 1) : i = k + 1 \/ i \in 1..k
    OBVIOUS
  <2>2. ASSUME NEW i \in 1..(k + 1) PROVE at[i] \in 1..(n + 1)
    <3>1. CASE i = k + 1
      BY <1>12, <3>1
    <3>2. CASE i \in 1..k
      <4>1. at[i] \in 1..n
        BY <1>11, <3>2
      <4>. QED
        BY <1>6, <4>1
    <3>. QED
      BY <2>1, <3>1, <3>2
  <2>. QED
    BY <1>0, <2>2
<1>15. list[at[1]] = Items(at, k, rec)
  <2>. DEFINE place == at
  <2>1. n \in Nat /\ Meets(place, k, n, stop, next)
    BY <1>6, <1>12, <1>13, <1>14 DEF Meets
  <2>. HIDE DEF place
  <2>2. ListIs(list, place, k, rec)
    BY <1>10, <2>1, Listed
  <2>. QED
    BY <2>2 DEF place, ListIs
<1>16. \A i \in 1..k : rec[at[i]] = [key |-> name[i], value |-> value[i]]
  BY <1>5, <1>11
<1>. QED
  BY <1>1, <1>15, <1>16 DEF Items, Pairs, PairsRead

-----------------------------------------------------------------------------
(* What a client sends.                                                    *)

(* Strings without some bytes, and such as do not begin with one of some.  *)
Text(bytes) == {s \in Strings : \A i \in 1..Len(s) : s[i] \notin bytes}
TextBegun(bytes) == {s \in Text({"CR", "LF"}) : s # <<>> => s[1] \notin bytes}

LineName == {s \in Text({"CR", "LF", ":"}) : s # <<>> /\ s[1] # "SP"}
SentLines == [name : LineName, blanks : Nat, value : TextBegun({"SP"})] \cup [name : LineName]
SentParms == LET text == Text({"CR", "LF", "NUL"})
             IN [name : text, value : text] \cup [name : text]

LEMMA WithoutIsText ==
  ASSUME NEW bytes
  PROVE  /\ Without(bytes) \subseteq Text(bytes)
         /\ Begun(bytes) \subseteq TextBegun(bytes)
<1>1. Seq(STRING) \subseteq Strings
  BY SeqMonotonic DEF Strings, Tokens
<1>2. ASSUME NEW b, NEW s \in Without(b) PROVE s \in Text(b)
  <2>1. s \in Seq(STRING) /\ \A i \in DOMAIN s : s[i] \notin b
    BY DEF Without
  <2>2. s \in Strings /\ DOMAIN s = 1..Len(s)
    BY <1>1, <2>1, LenProperties
  <2>. QED
    BY <2>1, <2>2 DEF Text
<1>3. Without(bytes) \subseteq Text(bytes)
  BY <1>2
<1>4. ASSUME NEW s \in Begun(bytes) PROVE s \in TextBegun(bytes)
  <2>. DEFINE eol == {"CR", "LF"}
  <2>1. s \in Without(eol) /\ (s # <<>> => s[1] \notin bytes)
    BY DEF Begun
  <2>. HIDE DEF eol
  <2>2. s \in Text(eol)
    BY <1>2, <2>1
  <2>. QED
    BY <2>1, <2>2 DEF TextBegun, eol
<1>. QED
  BY <1>3, <1>4

LEMMA LinesTyped == HeaderLines \subseteq SentLines
<1>. DEFINE name == (Without({"CR", "LF", ":"}) \cap Begun({"SP"})) \ {<<>>}
<1>1. Without({"CR", "LF", ":"}) \subseteq Text({"CR", "LF", ":"})
  BY WithoutIsText
<1>2. Begun({"SP"}) \subseteq TextBegun({"SP"})
  BY WithoutIsText
<1>3. ASSUME NEW s \in name PROVE s \in LineName
  <2>1. s \in Text({"CR", "LF", ":"}) /\ s # <<>> /\ s \in TextBegun({"SP"})
    BY <1>1, <1>2
  <2>2. s[1] # "SP"
    BY <2>1 DEF TextBegun
  <2>. QED
    BY <2>1, <2>2 DEF LineName
<1>4. HeaderLines = [name : name, blanks : Nat, value : Begun({"SP"})] \cup [name : name]
  BY DEF HeaderLines
<1>. DEFINE valued == Begun({"SP"})
<1>. HIDE DEF name, valued
<1>5. [name : name, blanks : Nat, value : valued] \subseteq
         [name : LineName, blanks : Nat, value : TextBegun({"SP"})]
  BY <1>2, <1>3 DEF valued
<1>6. [name : name] \subseteq [name : LineName]
  BY <1>3
<1>. QED
  BY <1>4, <1>5, <1>6 DEF SentLines, valued

(* Bytes and short strings. *)
LEMMA Literals ==
  /\ <<>> \in Strings /\ Eol \in Strings /\ Len(Eol) = 2
  /\ \A c \in Tokens : <<c>> \in Strings /\ Len(<<c>>) = 1 /\ <<c>>[1] = c
  /\ {"CR", "LF", "SP", "?", "&", "=", ":", "/", "%", "HTTP/1.1", "content-length"} \subseteq Tokens
  /\ \A i \in 1..10 : Digits[i] \in Tokens
<1>1. {"CR", "LF", "SP", "?", "&", "=", ":", "/", "%", "HTTP/1.1", "content-length"} \subseteq Tokens
  BY DEF Tokens
<1>2. \A i \in 1..10 : Digits[i] \in Tokens
  BY DEF Tokens
<1>. HIDE DEF Tokens
<1>3. <<>> \in Strings
  BY EmptySeq DEF Strings
<1>4. Eol \in Strings /\ Len(Eol) = 2
  BY <1>1 DEF Eol, Strings
<1>5. \A c \in Tokens : <<c>> \in Strings /\ Len(<<c>>) = 1 /\ <<c>>[1] = c
  BY DEF Strings
<1>. QED
  BY <1>1, <1>2, <1>3, <1>4, <1>5

(* What the elements of a string have lies where the string lies. *)
LEMMA HeldBytes ==
  ASSUME NEW m \in Strings, NEW p \in Nat \ {0}, NEW s \in Strings, Holds(m, p, s),
         NEW bytes, \A i \in 1..Len(s) : s[i] \notin bytes
  PROVE  \A j \in p..(p + Len(s) - 1) : m[j] \notin bytes
<1>1. Len(s) \in Nat
  BY LenProperties DEF Strings
<1>. SUFFICES ASSUME NEW j \in p..(p + Len(s) - 1) PROVE m[j] \notin bytes
  OBVIOUS
<1>2. j - p + 1 \in 1..Len(s) /\ p + (j - p + 1) - 1 = j
  BY <1>1
<1>3. m[p + (j - p + 1) - 1] = s[j - p + 1]
  BY <1>2 DEF Holds
<1>. QED
  BY <1>2, <1>3

LEMMA BlanksTyped ==
  ASSUME NEW n \in Nat
  PROVE  Blanks(n) \in Strings /\ Len(Blanks(n)) = n /\ \A i \in 1..n : Blanks(n)[i] = "SP"
<1>1. "SP" \in Tokens
  BY Literals
<1>2. [i \in 1..n |-> "SP"] \in Strings
  BY <1>1 DEF Strings
<1>3. Len([i \in 1..n |-> "SP"]) = n
  OBVIOUS
<1>. QED
  BY <1>2, <1>3 DEF Blanks

LEMMA LineKinds ==
  ASSUME NEW line \in SentLines
  PROVE  /\ line.name \in LineName
         /\ IsPair(line) => line.blanks \in Nat /\ line.value \in TextBegun({"SP"})
<1>. DEFINE valued == TextBegun({"SP"})
            pairs == [name : LineName, blanks : Nat, value : valued]
            odd   == [name : LineName]
<1>1. line \in pairs \/ line \in odd
  BY DEF SentLines
<1>. HIDE DEF valued
<1>2. CASE line \in pairs
  <2>1. line.name \in LineName /\ line.blanks \in Nat /\ line.value \in valued
    BY <1>2
  <2>. QED
    BY <2>1 DEF valued
<1>3. CASE line \in odd
  <2>1. DOMAIN line = {"name"} /\ line.name \in LineName
    BY <1>3
  <2>2. ~IsPair(line)
    BY <2>1 DEF IsPair
  <2>. QED
    BY <2>1, <2>2
<1>. QED
  BY <1>1, <1>2, <1>3

(* The bytes of a line. *)
LineText(line) ==
  IF IsPair(line) THEN line.name \o <<":">> \o Blanks(line.blanks) \o line.value
  ELSE line.name

(* A line and the line end behind it, as parseHeaders finds them. *)
LEMMA LineLies ==
  ASSUME NEW m \in Strings, NEW p \in Nat \ {0}, NEW line \in SentLines
  PROVE  /\ LineText(line) \in Strings
         /\ LET q == p + Len(LineText(line)) IN
            Holds(m, p, LineText(line)) /\ Holds(m, q, Eol) =>
              IF IsPair(line) THEN PairLies(m, p, line.name, line.value, q)
              ELSE OddLies(m, p, q)
<1>. DEFINE name == line.name
            text == LineText(line)
            q == p + Len(text)
<1>1. /\ name \in Strings /\ Len(name) \in Nat /\ Len(name) > 0 /\ name[1] # "SP"
      /\ \A i \in 1..Len(name) : name[i] \notin {"CR", "LF", ":"}
  <2>1. name \in LineName
    BY LineKinds
  <2>. HIDE DEF name
  <2>2. /\ name \in Strings /\ name # <<>> /\ name[1] # "SP"
        /\ \A i \in 1..Len(name) : name[i] \notin {"CR", "LF", ":"}
    BY <2>1 DEF LineName, Text
  <2>3. Len(name) \in Nat /\ Len(name) # 0
    BY <2>2, LenProperties, EmptySeq DEF Strings
  <2>. QED
    BY <2>2, <2>3
<1>. HIDE DEF name
<1>2. ASSUME Holds(m, p, name)
      PROVE  /\ m[p] # "SP"
             /\ \A j \in p..(p + Len(name) - 1) : m[j] # "CR" /\ m[j] # ":"
  <2>1. m[p + 1 - 1] = name[1] /\ p + 1 - 1 = p
    BY <1>1, <1>2 DEF Holds
  <2>. DEFINE bytes == {"CR", "LF", ":"}
  <2>2. \A i \in 1..Len(name) : name[i] \notin bytes
    BY <1>1
  <2>. HIDE DEF bytes
  <2>3. \A j \in p..(p + Len(name) - 1) : m[j] \notin bytes
    BY <1>1, <1>2, <2>2, HeldBytes
  <2>. QED
    BY <1>1, <2>1, <2>3 DEF bytes
<1>3. CASE ~IsPair(line)
  <2>1. text = name
    BY <1>3 DEF LineText, name
  <2>2. ASSUME Holds(m, p, text), Holds(m, q, Eol) PROVE OddLies(m, p, q)
    <3>1. p < q
      BY <1>1, <2>1
    <3>2. \A j \in p..(q - 1) : m[j] # "CR" /\ m[j] # ":"
      BY <1>2, <2>1, <2>2
    <3>3. m[p] # "SP"
      BY <1>2, <2>1, <2>2
    <3>. HIDE DEF q
    <3>. QED
      BY <2>2, <3>1, <3>2, <3>3 DEF OddLies, LineEnds
  <2>. QED
    BY <1>1, <1>3, <2>1, <2>2
<1>4. CASE IsPair(line)
  <2>. DEFINE blanks == Blanks(line.blanks)
              value == line.value
              split == p + Len(name)
              v == split + 1 + Len(blanks)
  <2>1. line.blanks \in Nat /\ value \in TextBegun({"SP"})
    BY <1>4, LineKinds
  <2>2. /\ blanks \in Strings /\ Len(blanks) \in Nat
        /\ \A i \in 1..Len(blanks) : blanks[i] = "SP"
    BY <2>1, BlanksTyped
  <2>3. /\ value \in Strings /\ Len(value) \in Nat /\ (value # <<>> => value[1] # "SP")
        /\ \A i \in 1..Len(value) : value[i] \notin {"CR", "LF"}
    BY <2>1, LenProperties DEF TextBegun, Text, Strings
  <2>4. <<":">> \in Strings /\ Len(<<":">>) = 1 /\ <<":">>[1] = ":"
    BY Literals
  <2>5. text = name \o <<":">> \o blanks \o value
    BY <1>4 DEF LineText, name
  <2>. DEFINE colon == <<":">>
              a == name \o colon
              b == a \o blanks
  <2>. HIDE DEF blanks, value, colon
  <2>6. a \in Strings /\ Len(a) = Len(name) + 1
    BY <1>1, <2>4, HoldsParts DEF colon
  <2>7. b \in Strings /\ Len(b) = Len(name) + 1 + Len(blanks)
    <3>. HIDE DEF a
    <3>1. b \in Strings /\ Len(b) = Len(a) + Len(blanks)
      BY <2>2, <2>6, HoldsParts
    <3>. QED
      BY <2>6, <3>1
  <2>8. text \in Strings /\ Len(text) = Len(b) + Len(value)
    <3>. HIDE DEF b
    <3>1. text = b \o value
      BY <2>5 DEF b, colon
    <3>2. b \in Strings /\ value \in Strings
      BY <2>3, <2>7
    <3>. HIDE DEF text
    <3>3. b \o value \in Strings /\ Len(b \o value) = Len(b) + Len(value)
      BY <3>2, HoldsParts
    <3>. QED
      BY <3>1, <3>3
  <2>9. ASSUME Holds(m, p, text), Holds(m, q, Eol)
        PROVE  PairLies(m, p, name, value, q)
    <3>1. Holds(m, p, b) /\ Holds(m, p + Len(b), value)
      <4>1. text = b \o value
        BY <2>5 DEF b, colon
      <4>. HIDE DEF b, text
      <4>. QED
        BY <2>3, <2>7, <2>9, <4>1, HoldsParts
    <3>2. Holds(m, p, a) /\ Holds(m, p + Len(a), blanks)
      <4>. HIDE DEF a
      <4>. QED
        BY <2>2, <2>6, <3>1, HoldsParts
    <3>3. Holds(m, p, name) /\ Holds(m, p + Len(name), colon)
      BY <1>1, <2>4, <3>2, HoldsParts DEF colon
    <3>. HIDE DEF a, b, text
    <3>4. /\ split \in Nat \ {0} /\ v \in Nat \ {0} /\ split < v
          /\ p + Len(a) = split + 1 /\ p + Len(b) = v /\ q = v + Len(value)
      BY <1>1, <2>2, <2>3, <2>6, <2>7, <2>8
    <3>. HIDE DEF q
    <3>5. m[split] = ":"
      <4>1. m[split + 1 - 1] = colon[1] /\ split + 1 - 1 = split
        BY <2>4, <3>3, <3>4 DEF Holds, colon
      <4>. QED
        BY <2>4, <4>1 DEF colon
    <3>. HIDE DEF split
    <3>6. \A j \in (split + 1)..(v - 1) : m[j] = "SP"
      <4>1. ASSUME NEW j \in (split + 1)..(v - 1) PROVE m[j] = "SP"
        <5>1. j - split \in 1..Len(blanks) /\ (split + 1) + (j - split) - 1 = j
          BY <2>2, <3>4
        <5>2. m[(split + 1) + (j - split) - 1] = blanks[j - split]
          BY <3>2, <3>4, <5>1 DEF Holds
        <5>. QED
          BY <2>2, <5>1, <5>2
      <4>. QED
        BY <4>1
    <3>. HIDE DEF v
    <3>7. Holds(m, v, value)
      BY <3>1, <3>4
    <3>8. Len(m) \in Nat /\ q + 1 <= Len(m) /\ m[q] = "CR"
      <4>1. Len(m) \in Nat /\ Len(Eol) = 2 /\ Eol[1] = "CR"
        BY LenProperties DEF Strings, Eol
      <4>2. q + 2 <= Len(m) + 1 /\ m[q + 1 - 1] = Eol[1]
        BY <2>9, <4>1 DEF Holds
      <4>3. q + 1 - 1 = q
        BY <2>3, <3>4
      <4>. QED
        BY <2>3, <3>4, <4>1, <4>2, <4>3
    <3>9. m[v] # "SP"
      <4>1. CASE Len(value) = 0
        <5>1. q = v
          BY <3>4, <4>1
        <5>. QED
          BY <3>8, <5>1
      <4>2. CASE Len(value) # 0
        <5>1. 1 \in 1..Len(value) /\ v + 1 - 1 = v
          BY <2>3, <3>4, <4>2
        <5>2. m[v + 1 - 1] = value[1]
          BY <3>7, <5>1 DEF Holds
        <5>3. value # <<>>
          BY <4>2
        <5>. QED
          BY <2>3, <5>1, <5>2, <5>3
      <4>. QED
        BY <4>1, <4>2
    <3>10. \A j \in v..(q - 1) : m[j] # "CR"
      <4>. DEFINE bytes == {"CR", "LF"}
      <4>1. \A i \in 1..Len(value) : value[i] \notin bytes
        BY <2>3
      <4>. HIDE DEF bytes
      <4>2. \A j \in v..(v + Len(value) - 1) : m[j] \notin bytes
        BY <2>3, <3>4, <3>7, <4>1, HeldBytes
      <4>. QED
        BY <3>4, <4>2 DEF bytes
    <3>11. \A j \in p..(split - 1) : m[j] # "CR" /\ m[j] # ":"
      BY <1>2, <3>3 DEF split
    <3>12. m[p] # "SP"
      BY <1>2, <3>3
    <3>13. \A j \in p..(q - 1) : m[j] # "CR"
      <4>1. ASSUME NEW j \in p..(q - 1) PROVE m[j] # "CR"
        <5>1. \/ j \in p..(split - 1) \/ j = split
              \/ j \in (split + 1)..(v - 1) \/ j \in v..(q - 1)
          BY <3>4
        <5>. QED
          BY <3>5, <3>6, <3>10, <3>11, <5>1
      <4>. QED
        BY <4>1
    <3>14. p < q
      BY <1>1, <2>3, <3>4 DEF split
    <3>15. LineEnds(m, p, q)
      BY <2>9, <3>12, <3>13, <3>14 DEF LineEnds
    <3>. QED
      BY <3>3, <3>4, <3>5, <3>6, <3>7, <3>9, <3>11, <3>15 DEF PairLies, split
  <2>10. text \in Strings /\ (Holds(m, p, text) /\ Holds(m, q, Eol)
            => PairLies(m, p, name, line.value, q))
    BY <2>8, <2>9 DEF value
  <2>. QED
    BY <1>4, <2>10 DEF name
<1>. QED
  BY <1>3, <1>4 DEF name

(* The first k elements of a list are pairs, and behind them is none. *)
Leading(list, k) ==
  /\ k \in 0..Len(list)
  /\ \A i \in 1..k : IsPair(list[i])
  /\ k < Len(list) => ~IsPair(list[k + 1])

LEMMA PrefixedLeads ==
  ASSUME NEW S, NEW list \in Seq(S)
  PROVE  \E k : /\ Leading(list, k)
                /\ Prefixed(list) \in Seq(S) /\ Len(Prefixed(list)) = k
                /\ \A i \in 1..k : Prefixed(list)[i] = list[i]
<1>. DEFINE n == Len(list)
            I == {i \in 1..n : ~IsPair(list[i])}
            odd == SelectInSeq(list, LAMBDA x : ~IsPair(x))
<1>1. n \in Nat /\ \A i \in 1..n : list[i] \in S
  BY LenProperties, ElementOfSeq
<1>2. odd = IF I # {} THEN Min(I) ELSE 0
  BY DEF SelectInSeq
<1>3. Prefixed(list) = IF odd = 0 THEN list ELSE SubSeq(list, 1, odd - 1)
  BY DEF Prefixed
<1>4. \A i : i \in I <=> i \in 1..n /\ ~IsPair(list[i])
  OBVIOUS
<1>. HIDE DEF I, odd
<1>5. CASE I = {}
  <2>1. odd = 0
    BY <1>2, <1>5
  <2>2. Leading(list, n)
    BY <1>1, <1>4, <1>5 DEF Leading
  <2>. QED
    BY <1>3, <2>1, <2>2
<1>6. CASE I # {}
  <2>1. I \subseteq Nat
    BY <1>1, <1>4
  <2>2. odd \in I /\ \A i \in I : odd <= i
    BY <1>2, <1>6, <2>1, LeastNumber
  <2>. DEFINE k == odd - 1
  <2>3. odd \in 1..n /\ ~IsPair(list[odd])
    BY <1>4, <2>2
  <2>4. k \in 0..n /\ k \in Nat /\ k + 1 = odd /\ odd # 0
    BY <1>1, <2>3
  <2>5. Leading(list, k)
    <3>1. \A i \in 1..k : i \in 1..n /\ ~(odd <= i)
      BY <1>1, <2>3, <2>4
    <3>2. \A i \in 1..k : IsPair(list[i])
      BY <1>4, <2>2, <3>1
    <3>. HIDE DEF k
    <3>. QED
      BY <2>3, <2>4, <3>2 DEF Leading
  <2>6. Prefixed(list) = SubSeq(list, 1, k)
    BY <1>3, <2>4
  <2>. HIDE DEF k
  <2>7. \A i \in 1..k : list[i] \in S
    BY <1>1, <2>4
  <2>8. /\ SubSeq(list, 1, k) \in Seq(S)
        /\ Len(SubSeq(list, 1, k)) = IF 1 <= k THEN k - 1 + 1 ELSE 0
        /\ \A i \in 1..(k - 1 + 1) : SubSeq(list, 1, k)[i] = list[1 + i - 1]
    BY <2>4, <2>7, SubSeqProperties
  <2>9. Len(SubSeq(list, 1, k)) = k /\ \A i \in 1..k : SubSeq(list, 1, k)[i] = list[i]
    BY <2>4, <2>8
  <2>. QED
    BY <2>5, <2>6, <2>8, <2>9
<1>. QED
  BY <1>5, <1>6

KeysAndValues(list) ==
  [i \in DOMAIN list |-> [key |-> list[i].name, value |-> list[i].value]]

(* parseHeaders returns the names and values of the lines that a client    *)
(* composed, in order, up to the first line without a colon, which ends    *)
(* the loop.                                                               *)
THEOREM LinesParsed ==
  ASSUME NEW m \in Strings, NEW p \in Nat \ {0}, NEW lines \in Seq(SentLines),
         NEW headend \in Nat, headend <= Len(m),
         Holds(m, p, Join([i \in DOMAIN lines |-> LineText(lines[i])], Eol)),
         lines = <<>> => headend + 2 = p,
         lines # <<>> =>
           /\ headend = p + Len(Join([i \in DOMAIN lines |-> LineText(lines[i])], Eol))
           /\ Holds(m, headend, Eol)
  PROVE  parseHeaders(m, p, headend) = KeysAndValues(Prefixed(lines))
<1>. DEFINE n == Len(lines)
            parts == [i \in DOMAIN lines |-> LineText(lines[i])]
<1>1. n \in Nat /\ DOMAIN lines = 1..n /\ \A i \in 1..n : lines[i] \in SentLines
  BY LenProperties, ElementOfSeq
<1>2. \A i \in 1..n : LineText(lines[i]) \in Strings
  <2>1. ASSUME NEW line \in SentLines PROVE LineText(line) \in Strings
    BY LineLies
  <2>. QED
    BY <1>1, <2>1
<1>3. /\ parts \in Seq(Strings) /\ Len(parts) = n
      /\ \A i \in 1..n : parts[i] = LineText(lines[i])
  <2>. HIDE DEF n
  <2>1. parts = [i \in 1..n |-> LineText(lines[i])]
    BY <1>1
  <2>. HIDE DEF parts
  <2>2. [i \in 1..n |-> LineText(lines[i])] \in Seq(Strings)
    BY <1>1, <1>2
  <2>3. Len([i \in 1..n |-> LineText(lines[i])]) = n
    BY <1>1
  <2>. QED
    BY <2>1, <2>2, <2>3
<1>4. lines = <<>> <=> n = 0
  BY EmptySeq
<1>. HIDE DEF n, parts
<1>5. Eol \in Strings /\ Len(Eol) = 2
  BY Literals
<1>6. PICK at : Joined(m, p, parts, Eol, at)
  <2>1. Holds(m, p, Join(parts, Eol))
    BY DEF parts
  <2>. QED
    BY <1>3, <1>5, <2>1, JoinParts
<1>7. /\ at \in [1..(n + 1) -> Nat \ {0}] /\ at[1] = p
      /\ \A i \in 1..n :
           /\ Holds(m, at[i], LineText(lines[i]))
           /\ at[i + 1] = at[i] + Len(LineText(lines[i])) + 2
           /\ i < n => Holds(m, at[i] + Len(LineText(lines[i])), Eol)
  BY <1>3, <1>5, <1>6 DEF Joined
<1>8. at[n + 1] = headend + 2
  <2>1. CASE n = 0
    BY <1>4, <1>7, <2>1
  <2>2. CASE n # 0
    <3>1. parts # <<>>
      BY <1>3, <2>2, EmptySeq
    <3>2. at[n + 1] = p + Len(Join(parts, Eol)) + 2
      BY <1>3, <1>5, <1>6, <3>1 DEF Joined
    <3>3. headend = p + Len(Join(parts, Eol))
      BY <1>4, <2>2 DEF parts
    <3>. QED
      BY <3>2, <3>3
  <2>. QED
    BY <2>1, <2>2
<1>9. ASSUME NEW i \in 1..n
      PROVE  /\ at[i] \in Nat \ {0} /\ at[i + 1] \in Nat \ {0}
             /\ at[i] + Len(LineText(lines[i])) = at[i + 1] - 2
             /\ Holds(m, at[i + 1] - 2, Eol)
             /\ Len(LineText(lines[i])) \in Nat
             /\ at[i] <= at[i + 1]
  <2>1. i \in 1..(n + 1) /\ i + 1 \in 1..(n + 1)
    BY <1>1
  <2>2. at[i] \in Nat \ {0} /\ at[i + 1] \in Nat \ {0}
    BY <1>7, <2>1
  <2>3. Len(LineText(lines[i])) \in Nat
    BY <1>2, LenProperties DEF Strings
  <2>4. at[i] + Len(LineText(lines[i])) = at[i + 1] - 2
    <3>. DEFINE a == at[i]
                b == at[i + 1]
                l == Len(LineText(lines[i]))
    <3>1. b = a + l + 2
      BY <1>7
    <3>2. a \in Nat /\ b \in Nat /\ l \in Nat
      BY <2>2, <2>3
    <3>. HIDE DEF a, b, l
    <3>3. a + l = b - 2
      BY <3>1, <3>2
    <3>. QED
      BY <3>3 DEF a, b, l
  <2>5. Holds(m, at[i + 1] - 2, Eol)
    <3>1. CASE i < n
      BY <1>7, <2>4, <3>1
    <3>2. CASE ~(i < n)
      <4>1. i = n /\ n # 0
        BY <1>1, <3>2
      <4>2. at[i + 1] - 2 = headend
        BY <1>8, <4>1
      <4>. QED
        BY <1>4, <4>1, <4>2
    <3>. QED
      BY <3>1, <3>2
  <2>6. at[i] <= at[i + 1]
    <3>. DEFINE a == at[i]
                b == at[i + 1]
                l == Len(LineText(lines[i]))
    <3>1. a + l = b - 2 /\ a \in Nat /\ b \in Nat /\ l \in Nat
      BY <2>2, <2>3, <2>4
    <3>. HIDE DEF a, b, l
    <3>2. a <= b
      BY <3>1
    <3>. QED
      BY <3>2 DEF a, b
  <2>. QED
    BY <2>2, <2>3, <2>4, <2>5, <2>6
<1>10. ASSUME NEW i \in 1..n
       PROVE  /\ IsPair(lines[i]) => PairLies(m, at[i], lines[i].name, lines[i].value, at[i + 1] - 2)
              /\ ~IsPair(lines[i]) => OddLies(m, at[i], at[i + 1] - 2)
  <2>. DEFINE line == lines[i]
  <2>1. line \in SentLines /\ at[i] \in Nat \ {0} /\ Holds(m, at[i], LineText(line))
    BY <1>1, <1>7, <1>9
  <2>2. at[i] + Len(LineText(line)) = at[i + 1] - 2 /\ Holds(m, at[i + 1] - 2, Eol)
    BY <1>9
  <2>. DEFINE a == at[i]
              b == at[i + 1] - 2
  <2>. HIDE DEF line, a, b
  <2>3. line \in SentLines /\ a \in Nat \ {0} /\ Holds(m, a, LineText(line))
    BY <2>1 DEF a
  <2>4. a + Len(LineText(line)) = b /\ Holds(m, a + Len(LineText(line)), Eol)
    BY <2>2 DEF a, b
  <2>5. IF IsPair(line) THEN PairLies(m, a, line.name, line.value, b) ELSE OddLies(m, a, b)
    BY <2>3, <2>4, LineLies
  <2>. QED
    BY <2>5 DEF line, a, b
<1>11. ASSUME NEW i \in 1..n PROVE at[i + 1] - 2 <= headend
  <2>. DEFINE Good == {j \in 0..n : at[n + 1 - j] <= headend + 2}
  <2>1. 0 \in Good
    BY <1>1, <1>8, n + 1 - 0 = n + 1
  <2>2. ASSUME NEW j \in 1..n, j - 1 \in Good PROVE j \in Good
    <3>. DEFINE c == n + 1 - j
    <3>1. c \in 1..n /\ n + 1 - (j - 1) = c + 1
      BY <1>1
    <3>2. at[c + 1] <= headend + 2
      BY <2>2, <3>1
    <3>3. at[c] \in Nat /\ at[c + 1] \in Nat /\ at[c] <= at[c + 1]
      BY <1>9, <3>1
    <3>4. at[c] <= headend + 2
      BY <3>2, <3>3
    <3>. QED
      BY <3>4
  <2>3. \A j \in Good : at[n + 1 - j] <= headend + 2
    OBVIOUS
  <2>. HIDE DEF Good
  <2>4. \A j \in 0..n : j \in Good
    BY <1>1, <2>1, <2>2, UpFromZero
  <2>5. n - i \in 0..n /\ n + 1 - (n - i) = i + 1
    BY <1>1
  <2>6. at[i + 1] <= headend + 2
    BY <2>3, <2>4, <2>5
  <2>. QED
    BY <1>9, <2>6
<1>12. PICK k : /\ Leading(lines, k)
                /\ Prefixed(lines) \in Seq(SentLines) /\ Len(Prefixed(lines)) = k
                /\ \A i \in 1..k : Prefixed(lines)[i] = lines[i]
  BY PrefixedLeads
<1>13. /\ k \in Nat /\ k <= n /\ \A i \in 1..k : i \in 1..n /\ IsPair(lines[i])
       /\ k < n => ~IsPair(lines[k + 1])
  BY <1>1, <1>12 DEF Leading, n
<1>. DEFINE place == [i \in 1..(k + 1) |-> at[i]]
            name  == [i \in 1..k |-> lines[i].name]
            value == [i \in 1..k |-> lines[i].value]
<1>14. /\ place \in [1..(k + 1) -> Nat \ {0}] /\ place[1] = p
       /\ \A i \in 1..(k + 1) : place[i] = at[i]
  <2>1. \A i \in 1..(k + 1) : i \in 1..(n + 1)
    BY <1>1, <1>13
  <2>2. \A i \in 1..(k + 1) : at[i] \in Nat \ {0}
    BY <1>7, <2>1
  <2>3. 1 \in 1..(k + 1)
    BY <1>13
  <2>4. \A i \in 1..(k + 1) : place[i] = at[i]
    OBVIOUS
  <2>5. place \in [1..(k + 1) -> Nat \ {0}]
    BY <2>2
  <2>. HIDE DEF place
  <2>. QED
    BY <1>7, <2>3, <2>4, <2>5
<1>15. /\ name \in [1..k -> Strings] /\ value \in [1..k -> Strings]
       /\ \A i \in 1..k : name[i] = lines[i].name /\ value[i] = lines[i].value
  <2>1. ASSUME NEW line \in SentLines, IsPair(line)
        PROVE  line.name \in Strings /\ line.value \in Strings
    BY <2>1, LineKinds DEF LineName, TextBegun, Text
  <2>2. \A i \in 1..k : lines[i].name \in Strings /\ lines[i].value \in Strings
    BY <1>1, <1>13, <2>1
  <2>. QED
    BY <2>2
<1>. HIDE DEF place, name, value
<1>16. ASSUME NEW i \in 1..k
       PROVE  /\ place[i + 1] - 2 <= headend
              /\ PairLies(m, place[i], name[i], value[i], place[i + 1] - 2)
  <2>1. i \in 1..n /\ i \in 1..(k + 1) /\ i + 1 \in 1..(k + 1)
    BY <1>13
  <2>2. place[i] = at[i] /\ place[i + 1] = at[i + 1]
    BY <1>14, <2>1
  <2>3. name[i] = lines[i].name /\ value[i] = lines[i].value
    BY <1>15
  <2>4. PairLies(m, at[i], lines[i].name, lines[i].value, at[i + 1] - 2)
    BY <1>10, <1>13, <2>1
  <2>5. at[i + 1] - 2 <= headend
    BY <1>11, <2>1
  <2>. QED
    BY <2>2, <2>3, <2>4, <2>5
<1>17. \/ place[k + 1] = headend + 2
       \/ \E q \in Nat : q <= headend /\ OddLies(m, place[k + 1], q)
  <2>1. place[k + 1] = at[k + 1]
    BY <1>13, <1>14
  <2>2. CASE k = n
    BY <1>8, <2>1, <2>2
  <2>3. CASE k # n
    <3>1. k + 1 \in 1..n /\ ~IsPair(lines[k + 1])
      BY <1>1, <1>13, <2>3
    <3>. DEFINE q == at[(k + 1) + 1] - 2
    <3>2. OddLies(m, at[k + 1], q) /\ q <= headend
      BY <1>10, <1>11, <3>1
    <3>3. q \in Nat
      <4>1. q \in Int
        BY <1>9, <3>1
      <4>2. at[k + 1] < q /\ at[k + 1] \in Nat
        BY <1>9, <3>1, <3>2 DEF OddLies, LineEnds
      <4>. HIDE DEF q
      <4>. QED
        BY <4>1, <4>2
    <3>. QED
      BY <2>1, <3>2, <3>3
  <2>. QED
    BY <2>2, <2>3
<1>18. parseHeaders(m, place[1], headend) = Pairs(k, name, value)
  <2>1. PairsLie(m, place, headend, k, name, value)
    BY <1>14, <1>15, <1>16, <1>17 DEF PairsLie
  <2>2. k \in Nat
    BY <1>13
  <2>3. PairsRead(m, place, headend, k, name, value)
    BY <2>1, <2>2, HeadersParsed
  <2>. QED
    BY <2>3 DEF PairsRead
<1>19. DOMAIN Prefixed(lines) = 1..k
  BY <1>12, LenProperties
<1>. QED
  BY <1>12, <1>14, <1>15, <1>18, <1>19, SMTT(30) DEF KeysAndValues, Pairs

-----------------------------------------------------------------------------
(* Strings without some bytes, put together from such.                     *)

LineEndBytes == {"CR", "LF"}
UrlEnds      == {"CR", "LF", "SP"}
PathEnds     == {"CR", "LF", "SP", "?"}
SegmentEnds  == {"CR", "LF", "SP", "?", "/"}
QueryEnds    == {"CR", "LF", "SP", "NUL"}
ParmEnds     == {"CR", "LF", "SP", "NUL", "&", "="}

LEMMA TextLess ==
  ASSUME NEW bytes, NEW more, bytes \subseteq more
  PROVE  Text(more) \subseteq Text(bytes)
BY DEF Text

LEMMA TextConcat ==
  ASSUME NEW bytes, NEW s \in Text(bytes), NEW t \in Text(bytes)
  PROVE  s \o t \in Text(bytes) /\ Len(s \o t) = Len(s) + Len(t)
<1>1. s \in Seq(Tokens) /\ t \in Seq(Tokens) /\ Len(s) \in Nat /\ Len(t) \in Nat
  BY LenProperties DEF Text, Strings
<1>2. /\ s \o t \in Seq(Tokens) /\ Len(s \o t) = Len(s) + Len(t)
      /\ \A i \in 1..(Len(s) + Len(t)) :
           (s \o t)[i] = IF i <= Len(s) THEN s[i] ELSE t[i - Len(s)]
  BY <1>1, ConcatProperties
<1>3. (\A i \in 1..Len(s) : s[i] \notin bytes) /\ (\A i \in 1..Len(t) : t[i] \notin bytes)
  BY DEF Text
<1>4. ASSUME NEW i \in 1..(Len(s) + Len(t)) PROVE (s \o t)[i] \notin bytes
  <2>1. CASE i <= Len(s)
    BY <1>1, <1>2, <1>3, <2>1
  <2>2. CASE ~(i <= Len(s))
    <3>1. i - Len(s) \in 1..Len(t)
      BY <1>1, <2>2
    <3>. QED
      BY <1>2, <1>3, <2>2, <3>1
  <2>. QED
    BY <2>1, <2>2
<1>. QED
  BY <1>2, <1>4 DEF Text, Strings

LEMMA TextEmpty ==
  ASSUME NEW bytes
  PROVE  <<>> \in Text(bytes)
BY EmptySeq DEF Text, Strings

LEMMA TextOfByte ==
  ASSUME NEW bytes, NEW c \in Tokens, c \notin bytes
  PROVE  <<c>> \in Text(bytes)
<1>1. <<c>> \in Strings /\ Len(<<c>>) = 1 /\ <<c>>[1] = c
  BY Literals
<1>. QED
  BY <1>1 DEF Text

LEMMA TextFlatten ==
  ASSUME NEW bytes, NEW seqs \in Seq(Text(bytes))
  PROVE  FlattenSeq(seqs) \in Text(bytes)
<1>. DEFINE n == Len(seqs)
<1>1. Text(bytes) \subseteq Strings
  BY DEF Text
<1>2. seqs \in Seq(Strings) /\ n \in Nat /\ \A i \in 1..n : seqs[i] \in Text(bytes)
  BY <1>1, SeqMonotonic, LenProperties, ElementOfSeq
<1>3. PICK f : Flattens(f, seqs)
  BY <1>2, FlattenComputed
<1>. DEFINE Good == {i \in 0..n : f[i] \in Text(bytes)}
<1>4. /\ f[0] = <<>> /\ FlattenSeq(seqs) = f[n]
      /\ \A i \in 1..n : f[i] = f[i - 1] \o seqs[i]
  BY <1>3 DEF Flattens
<1>5. 0 \in Good
  BY <1>2, <1>4, TextEmpty
<1>6. ASSUME NEW i \in 1..n, i - 1 \in Good PROVE i \in Good
  <2>1. f[i - 1] \in Text(bytes) /\ seqs[i] \in Text(bytes) /\ i \in 0..n
    BY <1>2, <1>6
  <2>2. f[i - 1] \o seqs[i] \in Text(bytes)
    BY <2>1, TextConcat
  <2>. QED
    BY <1>4, <2>1, <2>2
<1>7. \A i \in Good : f[i] \in Text(bytes)
  OBVIOUS
<1>. HIDE DEF Good, n
<1>8. \A i \in 0..n : i \in Good
  BY <1>2, <1>5, <1>6, UpFromZero
<1>9. n \in 0..n
  BY <1>2
<1>. QED
  BY <1>4, <1>7, <1>8, <1>9

LEMMA TextJoin ==
  ASSUME NEW bytes, NEW parts \in Seq(Text(bytes)), NEW between \in Text(bytes)
  PROVE  Join(parts, between) \in Text(bytes)
<1>. DEFINE n == Len(parts)
            part(i) == IF i = 1 THEN parts[i] ELSE between \o parts[i]
<1>1. n \in Nat /\ DOMAIN parts = 1..n /\ \A i \in 1..n : parts[i] \in Text(bytes)
  BY LenProperties, ElementOfSeq
<1>2. \A i \in 1..n : part(i) \in Text(bytes)
  BY <1>1, TextConcat
<1>. HIDE DEF part, n
<1>3. [i \in 1..n |-> part(i)] \in Seq(Text(bytes))
  BY <1>1, <1>2
<1>4. [i \in DOMAIN parts |-> part(i)] \in Seq(Text(bytes))
  BY <1>1, <1>3
<1>5. FlattenSeq([i \in DOMAIN parts |-> part(i)]) \in Text(bytes)
  BY <1>4, TextFlatten
<1>. QED
  BY <1>5 DEF Join, part

-----------------------------------------------------------------------------
(* What a client writes, in terms of strings of tokens.                    *)

ValueEnds == {"CR", "LF", "NUL"}

Composed(msg) ==
  /\ msg.lead \in Seq(LineEndBytes)
  /\ msg.method \in Text(UrlEnds) /\ msg.method # <<>>
  /\ msg.segments \in Seq(Text(SegmentEnds)) /\ msg.segments # <<>>
  /\ msg.parms \in Seq(SentParms)
  /\ msg.lines \in Seq(SentLines)
  /\ \A i \in 1..Len(msg.lines) :
       ~EqualIgnoringCase(msg.lines[i].name, <<"content-length">>)
  /\ msg.body \in Seq(STRING) /\ Len(msg.body) <= 9

LEMMA ParmsTyped == Parameters \subseteq SentParms
<1>. DEFINE plain == Without({"CR", "LF", "NUL"})
            text  == Text({"CR", "LF", "NUL"})
<1>1. plain \subseteq text
  BY WithoutIsText
<1>2. Parameters = [name : plain, value : plain] \cup [name : plain]
  BY DEF Parameters
<1>3. SentParms = [name : text, value : text] \cup [name : text]
  BY DEF SentParms
<1>. HIDE DEF plain, text
<1>4. [name : plain, value : plain] \subseteq [name : text, value : text]
  BY <1>1
<1>5. [name : plain] \subseteq [name : text]
  BY <1>1
<1>. QED
  BY <1>2, <1>3, <1>4, <1>5

LEMMA ScenariosCompose ==
  ASSUME NEW s \in Scenarios
  PROVE  Composed(s.message)
<1>. DEFINE msg == s.message
<1>1. /\ msg.lead \in Seq({"CR", "LF"})
      /\ msg.method \in Without({"CR", "LF", "SP"}) /\ msg.method # <<>>
      /\ msg.segments \in Seq(Without({"CR", "LF", "SP", "/", "?"})) /\ msg.segments # <<>>
      /\ msg.parms \in Seq(Parameters)
      /\ msg.lines \in Seq(HeaderLines)
      /\ \A i \in DOMAIN msg.lines :
           ~EqualIgnoringCase(msg.lines[i].name, <<"content-length">>)
      /\ msg.body \in Seq(STRING) /\ Len(msg.body) <= 9
  BY MessagesAssumption
<1>. HIDE DEF msg
<1>2. {"CR", "LF"} = LineEndBytes /\ {"CR", "LF", "SP"} = UrlEnds
      /\ {"CR", "LF", "SP", "/", "?"} = SegmentEnds
  BY DEF LineEndBytes, UrlEnds, SegmentEnds
<1>3. Without(UrlEnds) \subseteq Text(UrlEnds) /\ Without(SegmentEnds) \subseteq Text(SegmentEnds)
  BY WithoutIsText
<1>4. msg.segments \in Seq(Text(SegmentEnds))
  BY <1>1, <1>2, <1>3, SeqMonotonic
<1>5. msg.parms \in Seq(SentParms) /\ msg.lines \in Seq(SentLines)
  BY <1>1, ParmsTyped, LinesTyped, SeqMonotonic
<1>6. DOMAIN msg.lines = 1..Len(msg.lines)
  BY <1>5, LenProperties
<1>7. Composed(msg)
  BY <1>1, <1>2, <1>3, <1>4, <1>5, <1>6 DEF Composed
<1>. QED
  BY <1>7 DEF msg

LEMMA ParmKinds ==
  ASSUME NEW p \in SentParms
  PROVE  /\ p.name \in Text(ValueEnds)
         /\ IsPair(p) => p.value \in Text(ValueEnds)
<1>. DEFINE text == Text({"CR", "LF", "NUL"})
            pairs == [name : text, value : text]
            odd   == [name : text]
<1>1. p \in pairs \/ p \in odd
  BY DEF SentParms
<1>2. text = Text(ValueEnds)
  BY DEF ValueEnds
<1>. HIDE DEF text
<1>3. CASE p \in pairs
  BY <1>2, <1>3
<1>4. CASE p \in odd
  <2>1. DOMAIN p = {"name"} /\ p.name \in text
    BY <1>4
  <2>. QED
    BY <1>2, <2>1 DEF IsPair
<1>. QED
  BY <1>1, <1>3, <1>4

(* The escape of a byte, and a byte without one, in a parameter. *)
EncodedByte(c) == IF c \in DOMAIN Escaped THEN Escaped[c] ELSE <<c>>

LEMMA Escapes ==
  /\ DOMAIN Escaped = {"SP", "%", "&", "/", "="}
  /\ Escaped["SP"] = <<"%", "2", "0">> /\ Escaped["%"] = <<"%", "2", "5">>
  /\ Escaped["&"] = <<"%", "2", "6">> /\ Escaped["/"] = <<"%", "2", "F">>
  /\ Escaped["="] = <<"%", "3", "d">>
BY DEF Escaped

LEMMA EncodedByteText ==
  ASSUME NEW c \in Tokens, c \notin ValueEnds
  PROVE  EncodedByte(c) \in Text(ParmEnds)
<1>1. CASE c \in DOMAIN Escaped
  <2>1. /\ "%" \in Tokens /\ "%" \notin ParmEnds
        /\ \A d \in {"0", "2", "3", "5", "6", "F", "d"} : d \in Tokens /\ d \notin ParmEnds
    <3>1. "%" \in Tokens /\ "F" \in Tokens /\ "d" \in Tokens
      BY DEF Tokens
    <3>2. {Digits[1], Digits[3], Digits[4], Digits[6], Digits[7]} \subseteq Tokens
      BY Literals
    <3>3. /\ Digits[1] = "0" /\ Digits[3] = "2" /\ Digits[4] = "3" /\ Digits[6] = "5"
          /\ Digits[7] = "6"
      BY DEF Digits
    <3>. HIDE DEF Tokens
    <3>. QED
      BY <3>1, <3>2, <3>3 DEF ParmEnds
  <2>2. ASSUME NEW d \in {"0", "2", "3", "5", "6", "F", "d"},
               NEW e \in {"0", "2", "3", "5", "6", "F", "d"}
        PROVE  <<"%", d, e>> \in Text(ParmEnds)
    <3>. DEFINE t == <<"%", d, e>>
    <3>1. t \in Strings /\ Len(t) = 3 /\ t[1] = "%" /\ t[2] = d /\ t[3] = e
      <4>. HIDE DEF Tokens
      <4>. QED
        BY <2>1 DEF Strings
    <3>. HIDE DEF t
    <3>2. \A i \in 1..3 : t[i] \notin ParmEnds
      BY <2>1, <3>1
    <3>3. t \in Text(ParmEnds)
      BY <3>1, <3>2 DEF Text
    <3>. QED
      BY <3>3 DEF t
  <2>3. \E d, e \in {"0", "2", "3", "5", "6", "F", "d"} : Escaped[c] = <<"%", d, e>>
    <3>1. c \in {"SP", "%", "&", "/", "="}
      BY <1>1, Escapes
    <3>. QED
      BY <3>1, Escapes
  <2>. QED
    BY <1>1, <2>2, <2>3, ZenonT(60) DEF EncodedByte
<1>2. CASE c \notin DOMAIN Escaped
  <2>1. c \notin ParmEnds
    BY <1>2, Escapes DEF ValueEnds, ParmEnds
  <2>2. <<c>> \in Text(ParmEnds)
    BY <2>1, TextOfByte
  <2>. QED
    BY <1>2, <2>2 DEF EncodedByte
<1>. QED
  BY <1>1, <1>2

LEMMA EncodedText ==
  ASSUME NEW s \in Text(ValueEnds)
  PROVE  Encoded(s) \in Text(ParmEnds)
<1>1. s \in Strings /\ Len(s) \in Nat /\ DOMAIN s = 1..Len(s)
      /\ \A i \in 1..Len(s) : s[i] \in Tokens /\ s[i] \notin ValueEnds
  BY LenProperties, ElementOfSeq DEF Text, Strings
<1>2. \A i \in 1..Len(s) : EncodedByte(s[i]) \in Text(ParmEnds)
  BY <1>1, EncodedByteText
<1>3. [i \in 1..Len(s) |-> EncodedByte(s[i])] \in Seq(Text(ParmEnds))
  BY <1>1, <1>2
<1>4. [i \in DOMAIN s |-> EncodedByte(s[i])] \in Seq(Text(ParmEnds))
  BY <1>1, <1>3
<1>5. FlattenSeq([i \in DOMAIN s |-> EncodedByte(s[i])]) \in Text(ParmEnds)
  BY <1>4, TextFlatten
<1>. QED
  BY <1>5 DEF Encoded, EncodedByte

(* A parameter as it is written. *)
ParmText(p) == IF IsPair(p) THEN Encoded(p.name) \o <<"=">> \o Encoded(p.value)
               ELSE Encoded(p.name)

LEMMA ParmTextTyped ==
  ASSUME NEW p \in SentParms
  PROVE  ParmText(p) \in Text(QueryEnds)
<1>1. ParmEnds \subseteq ParmEnds /\ QueryEnds \subseteq ParmEnds
  BY DEF ParmEnds, QueryEnds
<1>2. Text(ParmEnds) \subseteq Text(QueryEnds)
  BY <1>1, TextLess
<1>3. "=" \in Tokens /\ "=" \notin QueryEnds
  BY DEF Tokens, QueryEnds
<1>4. <<"=">> \in Text(QueryEnds)
  BY <1>3, TextOfByte
<1>5. Encoded(p.name) \in Text(QueryEnds) /\ (IsPair(p) => Encoded(p.value) \in Text(QueryEnds))
  BY <1>2, ParmKinds, EncodedText
<1>6. IsPair(p) => Encoded(p.name) \o <<"=">> \in Text(QueryEnds)
  BY <1>4, <1>5, TextConcat
<1>7. IsPair(p) => (Encoded(p.name) \o <<"=">>) \o Encoded(p.value) \in Text(QueryEnds)
  BY <1>5, <1>6, TextConcat
<1>. QED
  BY <1>5, <1>7 DEF ParmText

(* The parts of a url. *)
LEMMA UrlText ==
  ASSUME NEW msg, Composed(msg)
  PROVE  /\ ResourceSent(msg) \in Text(PathEnds) /\ Len(ResourceSent(msg)) \in Nat
         /\ QuerySent(msg) \in Text(QueryEnds) /\ Len(QuerySent(msg)) \in Nat
         /\ UrlSent(msg) \in Text(UrlEnds) /\ Len(UrlSent(msg)) \in Nat
<1>1. UrlEnds \subseteq PathEnds /\ UrlEnds \subseteq QueryEnds /\ PathEnds \subseteq SegmentEnds
  BY DEF UrlEnds, PathEnds, QueryEnds, SegmentEnds
<1>2. /\ Text(PathEnds) \subseteq Text(UrlEnds) /\ Text(QueryEnds) \subseteq Text(UrlEnds)
      /\ Text(SegmentEnds) \subseteq Text(PathEnds)
  BY <1>1, TextLess
<1>3. /\ "/" \in Tokens /\ "/" \notin PathEnds /\ "?" \in Tokens /\ "?" \notin UrlEnds
      /\ "&" \in Tokens /\ "&" \notin QueryEnds
  BY DEF Tokens, PathEnds, UrlEnds, QueryEnds
<1>4. <<"/">> \in Text(PathEnds) /\ <<"?">> \in Text(UrlEnds) /\ <<"&">> \in Text(QueryEnds)
  BY <1>3, TextOfByte
<1>5. ResourceSent(msg) \in Text(PathEnds)
  <2>. DEFINE segments == msg.segments
              part(i) == <<"/">> \o segments[i]
  <2>1. segments \in Seq(Text(SegmentEnds))
    BY DEF Composed
  <2>. HIDE DEF segments
  <2>2. Len(segments) \in Nat /\ DOMAIN segments = 1..Len(segments)
        /\ \A i \in 1..Len(segments) : segments[i] \in Text(PathEnds)
    BY <1>2, <2>1, LenProperties, ElementOfSeq
  <2>3. \A i \in 1..Len(segments) : part(i) \in Text(PathEnds)
    BY <1>4, <2>2, TextConcat
  <2>. HIDE DEF part
  <2>4. [i \in 1..Len(segments) |-> part(i)] \in Seq(Text(PathEnds))
    BY <2>2, <2>3
  <2>5. FlattenSeq([i \in DOMAIN segments |-> part(i)]) \in Text(PathEnds)
    BY <2>2, <2>4, TextFlatten
  <2>. QED
    BY <2>5 DEF ResourceSent, segments, part
<1>6. QuerySent(msg) \in Text(QueryEnds)
  <2>. DEFINE parms == msg.parms
  <2>1. parms \in Seq(SentParms)
    BY DEF Composed
  <2>. HIDE DEF parms
  <2>2. Len(parms) \in Nat /\ DOMAIN parms = 1..Len(parms)
        /\ \A i \in 1..Len(parms) : ParmText(parms[i]) \in Text(QueryEnds)
    BY <2>1, LenProperties, ElementOfSeq, ParmTextTyped
  <2>3. [i \in 1..Len(parms) |-> ParmText(parms[i])] \in Seq(Text(QueryEnds))
    BY <2>2
  <2>4. Join([i \in DOMAIN parms |-> ParmText(parms[i])], <<"&">>) \in Text(QueryEnds)
    BY <1>4, <2>2, <2>3, TextJoin
  <2>. QED
    BY <2>4 DEF QuerySent, parms, ParmText
<1>7. UrlSent(msg) \in Text(UrlEnds)
  <2>1. <<"?">> \o QuerySent(msg) \in Text(UrlEnds) /\ <<>> \in Text(UrlEnds)
    BY <1>2, <1>4, <1>6, TextConcat, TextEmpty
  <2>2. (IF msg.parms = <<>> THEN <<>> ELSE <<"?">> \o QuerySent(msg)) \in Text(UrlEnds)
    BY <2>1
  <2>. QED
    BY <1>2, <1>5, <2>2, TextConcat DEF UrlSent
<1>8. ASSUME NEW bytes, NEW s \in Text(bytes) PROVE Len(s) \in Nat
  BY LenProperties DEF Text, Strings
<1>. QED
  BY <1>5, <1>6, <1>7, <1>8

-----------------------------------------------------------------------------
(* The announced length.                                                   *)

LEMMA DigitsDiffer ==
  /\ Len(Digits) = 10
  /\ \A i, j \in 1..10 : Digits[i] = Digits[j] => i = j
BY DEF Digits

(* a2i of nothing, and of one digit. *)
LEMMA OneDigit ==
  /\ a2i(<<>>) = 0
  /\ \A k \in 0..9 : a2i(<<Digits[k + 1]>>) = k
<1>. DEFINE digit(s, i) == SelectInSeq(Digits, LAMBDA d : d = s[i])
            entry(s, g, i) ==
              IF i = 0 THEN 0
              ELSE LET x == SelectInSeq(Digits, LAMBDA d : d = s[i])
                   IN IF x = 0 THEN g[i - 1] ELSE 10 * g[i - 1] + x - 1
            From(s, g) == g = [i \in 0..Len(s) |-> entry(s, g, i)]
<1>1. \A s : a2i(s) = (CHOOSE g : From(s, g))[Len(s)]
  BY DEF a2i
<1>2. \A s, g, i : entry(s, g, i) = IF i = 0 THEN 0
                                    ELSE IF digit(s, i) = 0 THEN g[i - 1]
                                    ELSE 10 * g[i - 1] + digit(s, i) - 1
  OBVIOUS
<1>. HIDE DEF entry, digit
<1>3. a2i(<<>>) = 0
  <2>. DEFINE s == <<>>
              f == [i \in 0..Len(s) |-> 0]
  <2>1. Len(s) = 0
    OBVIOUS
  <2>. HIDE DEF s
  <2>2. From(s, f)
    BY <1>2, <2>1
  <2>3. \A g : From(s, g) => g[0] = 0
    BY <1>2, <2>1
  <2>. HIDE DEF From
  <2>4. From(s, CHOOSE g : From(s, g))
    BY <2>2
  <2>. QED
    BY <1>1, <2>1, <2>3, <2>4 DEF s
<1>4. ASSUME NEW k \in 0..9 PROVE a2i(<<Digits[k + 1]>>) = k
  <2>. DEFINE s == <<Digits[k + 1]>>
              f == [i \in 0..Len(s) |-> IF i = 0 THEN 0 ELSE k]
  <2>1. Len(s) = 1 /\ s[1] = Digits[k + 1]
    OBVIOUS
  <2>. HIDE DEF s
  <2>2. digit(s, 1) = k + 1
    <3>. DEFINE I == {i \in 1..Len(Digits) : Digits[i] = s[1]}
    <3>1. digit(s, 1) = IF I # {} THEN Min(I) ELSE 0
      BY DEF digit, SelectInSeq
    <3>2. \A i : i \in I <=> i \in 1..10 /\ Digits[i] = Digits[k + 1]
      BY <2>1, DigitsDiffer
    <3>. HIDE DEF I
    <3>3. I \subseteq Nat /\ k + 1 \in I /\ \A i \in I : i = k + 1
      BY <3>2, DigitsDiffer
    <3>4. Min(I) = k + 1
      BY <3>3, LeastNumber
    <3>. QED
      BY <3>1, <3>3, <3>4
  <2>3. From(s, f)
    <3>1. \A i \in 0..1 : i = 0 \/ i = 1
      OBVIOUS
    <3>2. f = [i \in 0..1 |-> IF i = 0 THEN 0 ELSE k]
      BY <2>1
    <3>3. entry(s, f, 0) = 0 /\ f[0] = 0
      BY <1>2, <3>2
    <3>. HIDE DEF f
    <3>4. entry(s, f, 1) = IF digit(s, 1) = 0 THEN f[1 - 1] ELSE 10 * f[1 - 1] + digit(s, 1) - 1
      BY <1>2
    <3>5. digit(s, 1) # 0 /\ f[1 - 1] = 0
      BY <2>2, <3>3
    <3>6. entry(s, f, 1) = k
      BY <2>2, <3>4, <3>5
    <3>. QED
      BY <2>1, <3>1, <3>2, <3>3, <3>6
  <2>4. ASSUME NEW g, From(s, g) PROVE g[1] = k
    <3>1. g[0] = entry(s, g, 0) /\ g[1] = entry(s, g, 1)
      BY <2>1, <2>4
    <3>2. g[0] = 0 /\ g[1] = 10 * g[1 - 1] + (k + 1) - 1
      BY <1>2, <2>2, <3>1
    <3>. QED
      BY <3>2
  <2>. HIDE DEF From
  <2>5. From(s, CHOOSE g : From(s, g))
    BY <2>3
  <2>. QED
    BY <1>1, <2>1, <2>4, <2>5 DEF s
<1>. QED
  BY <1>3, <1>4

(* The lines of the header, and the one with the length, if there is one:  *)
(* the last.                                                               *)
LEMMA LinesSentTyped ==
  ASSUME NEW msg, Composed(msg)
  PROVE  LET n == Len(msg.lines)
             lines == LinesSent(msg)
         IN /\ n \in Nat /\ lines \in Seq(SentLines)
            /\ \A i \in 1..n : lines[i] = msg.lines[i]
            /\ msg.body = <<>> => Len(lines) = n
            /\ msg.body # <<>> =>
                 /\ Len(lines) = n + 1
                 /\ lines[n + 1].name = <<"content-length">>
                 /\ lines[n + 1].value = <<Digits[Len(msg.body) + 1]>>
            /\ Len(msg.body) \in 0..9 /\ (msg.body = <<>> <=> Len(msg.body) = 0)
<1>. DEFINE n == Len(msg.lines)
            d == Digits[Len(msg.body) + 1]
            line == [name |-> <<"content-length">>, blanks |-> 1, value |-> <<d>>]
<1>1. /\ msg.lines \in Seq(SentLines) /\ msg.body \in Seq(STRING) /\ Len(msg.body) <= 9
  BY DEF Composed
<1>2. n \in Nat /\ Len(msg.body) \in 0..9 /\ (msg.body = <<>> <=> Len(msg.body) = 0)
  <2>. DEFINE body == msg.body
  <2>1. body \in Seq(STRING) /\ Len(body) <= 9 /\ msg.lines \in Seq(SentLines)
    BY <1>1
  <2>2. n \in Nat
    BY <2>1, LenProperties
  <2>. HIDE DEF body
  <2>3. Len(body) \in Nat /\ (body = <<>> <=> Len(body) = 0)
    BY <2>1, LenProperties, EmptySeq
  <2>4. Len(body) \in 0..9
    <3>. DEFINE l == Len(body)
    <3>1. l \in Nat /\ l <= 9
      BY <2>1, <2>3
    <3>. HIDE DEF l
    <3>2. l \in 0..9
      BY <3>1
    <3>. QED
      BY <3>2 DEF l
  <2>. QED
    BY <2>2, <2>3, <2>4 DEF body
<1>3. d \in Tokens /\ d # "CR" /\ d # "LF" /\ d # "SP"
  <2>. DEFINE l == Len(msg.body)
  <2>1. l + 1 \in 1..10
    <3>1. l \in 0..9
      BY <1>2
    <3>. HIDE DEF l
    <3>. QED
      BY <3>1
  <2>2. \A i \in 1..10 : Digits[i] # "CR" /\ Digits[i] # "LF" /\ Digits[i] # "SP"
    BY DEF Digits
  <2>. QED
    BY <2>1, <2>2, Literals
<1>4. line \in SentLines
  <2>. DEFINE valued == TextBegun({"SP"})
              v == <<d>>
              key == <<"content-length">>
  <2>1. v \in valued
    <3>. HIDE DEF d
    <3>1. v \in Strings /\ Len(v) = 1 /\ v[1] = d
      BY <1>3, Literals
    <3>. DEFINE eol == {"CR", "LF"}
    <3>2. d \notin eol /\ v[1] \notin {"SP"}
      BY <1>3, <3>1
    <3>. HIDE DEF eol
    <3>3. v \in Text(eol)
      BY <1>3, <3>2, TextOfByte
    <3>. HIDE DEF v
    <3>. QED
      BY <3>2, <3>3 DEF TextBegun, eol
  <2>2. key \in LineName
    <3>1. key \in Strings /\ Len(key) = 1 /\ key[1] = "content-length"
      BY Literals
    <3>2. key # <<>>
      OBVIOUS
    <3>. HIDE DEF key
    <3>. QED
      BY <3>1, <3>2 DEF LineName, Text
  <2>. HIDE DEF valued, v, key
  <2>3. [name |-> key, blanks |-> 1, value |-> v] \in [name : LineName, blanks : Nat, value : valued]
    BY <2>1, <2>2
  <2>. QED
    BY <2>3 DEF SentLines, valued, v, key
<1>. HIDE DEF d
<1>5. CASE msg.body = <<>>
  <2>1. LinesSent(msg) = msg.lines
    BY <1>1, <1>5, ConcatEmptySeq DEF LinesSent, LengthLine
  <2>. QED
    BY <1>1, <1>2, <1>5, <2>1
<1>6. CASE msg.body # <<>>
  <2>1. LinesSent(msg) = msg.lines \o <<line>>
    BY <1>6 DEF LinesSent, LengthLine, d
  <2>. DEFINE last == line
  <2>2. last.name = <<"content-length">> /\ last.value = <<d>> /\ last \in SentLines
    BY <1>4
  <2>3. LinesSent(msg) = msg.lines \o <<last>>
    BY <2>1
  <2>. HIDE DEF last
  <2>. HIDE DEF line
  <2>4. <<last>> \in Seq(SentLines) /\ Len(<<last>>) = 1 /\ <<last>>[1] = last
    BY <2>2
  <2>5. /\ LinesSent(msg) \in Seq(SentLines) /\ Len(LinesSent(msg)) = n + 1
        /\ \A i \in 1..(n + 1) : LinesSent(msg)[i] = IF i <= n THEN msg.lines[i]
                                                     ELSE <<last>>[i - n]
    BY <1>1, <2>3, <2>4, ConcatProperties
  <2>6. \A i \in 1..n : i \in 1..(n + 1) /\ i <= n
    BY <1>2
  <2>7. n + 1 \in 1..(n + 1) /\ ~(n + 1 <= n) /\ n + 1 - n = 1
    BY <1>2
  <2>8. LinesSent(msg)[n + 1] = last
    BY <2>4, <2>5, <2>7
  <2>. QED
    BY <1>2, <1>6, <2>2, <2>5, <2>6, <2>8 DEF d
<1>. QED
  BY <1>5, <1>6

(* The length that lookForHeaders reads: that of the body, if no line in   *)
(* front of it lacks a colon; else none.                                   *)
LEMMA LengthParsed ==
  ASSUME NEW msg, Composed(msg)
  PROVE  a2i(getHeaderValue(KeysAndValues(Prefixed(LinesSent(msg))), <<"content-length">>))
           = IF msg.body # <<>> /\ Prefixed(LinesSent(msg)) = LinesSent(msg)
             THEN Len(msg.body) ELSE 0
<1>. DEFINE n == Len(msg.lines)
            lines == LinesSent(msg)
            key == <<"content-length">>
            list == KeysAndValues(Prefixed(lines))
            Named1(i) == EqualIgnoringCase(list[i].key, key)
            I == {i \in 1..Len(list) : Named1(i)}
<1>1. /\ n \in Nat /\ lines \in Seq(SentLines)
      /\ \A i \in 1..n : lines[i] = msg.lines[i]
      /\ msg.body = <<>> => Len(lines) = n
      /\ msg.body # <<>> =>
           /\ Len(lines) = n + 1
           /\ lines[n + 1].name = key
           /\ lines[n + 1].value = <<Digits[Len(msg.body) + 1]>>
      /\ Len(msg.body) \in 0..9
  BY LinesSentTyped
<1>2. \A i \in 1..n : ~EqualIgnoringCase(msg.lines[i].name, key)
  BY DEF Composed
<1>. HIDE DEF lines, n
<1>3. PICK k : /\ Leading(lines, k)
               /\ Prefixed(lines) \in Seq(SentLines) /\ Len(Prefixed(lines)) = k
               /\ \A i \in 1..k : Prefixed(lines)[i] = lines[i]
  BY <1>1, PrefixedLeads
<1>4. k \in Nat /\ k <= Len(lines)
  BY <1>1, <1>3, LenProperties DEF Leading
<1>5. Len(list) = k /\ \A i \in 1..k : /\ list[i].key = lines[i].name
                                       /\ list[i].value = lines[i].value
  <2>1. DOMAIN Prefixed(lines) = 1..k
    BY <1>3, LenProperties
  <2>2. list = [i \in 1..k |-> [key |-> Prefixed(lines)[i].name, value |-> Prefixed(lines)[i].value]]
    BY <2>1 DEF KeysAndValues
  <2>3. Len(list) = k
    BY <1>4, <2>2
  <2>4. \A i \in 1..k : list[i] = [key |-> Prefixed(lines)[i].name, value |-> Prefixed(lines)[i].value]
    BY <2>2
  <2>. QED
    BY <1>3, <2>3, <2>4
<1>. DEFINE h == SelectInSeq(list, LAMBDA x : EqualIgnoringCase(x.key, key))
<1>6. getHeaderValue(list, key) = IF h = 0 THEN <<>> ELSE list[h].value
  BY DEF getHeaderValue
<1>7. h = IF I # {} THEN Min(I) ELSE 0
  BY DEF SelectInSeq
<1>8. \A i : i \in I <=> i \in 1..k /\ Named1(i)
  BY <1>5
<1>. HIDE DEF list, I, h
<1>9. \A i \in 1..k : i \in 1..n => ~Named1(i)
  BY <1>1, <1>2, <1>5
<1>10. k = Len(lines) <=> Prefixed(lines) = lines
  <2>1. ASSUME k = Len(lines) PROVE Prefixed(lines) = lines
    BY <1>1, <1>3, <2>1, SeqEqual
  <2>. QED
    BY <1>3, <2>1
<1>11. CASE msg.body # <<>> /\ k = Len(lines)
  <2>1. k = n + 1 /\ k \in 1..k
    BY <1>1, <1>4, <1>11
  <2>2. Named1(k)
    <3>1. list[k].key = key
      BY <1>1, <1>5, <1>11, <2>1
    <3>. QED
      BY <3>1 DEF EqualIgnoringCase
  <2>. HIDE DEF Named1
  <2>3. I \subseteq Nat /\ k \in I /\ \A i \in I : i = k
    BY <1>1, <1>4, <1>8, <1>9, <2>1, <2>2
  <2>4. h = k
    BY <1>7, <2>3, LeastNumber
  <2>5. getHeaderValue(list, key) = <<Digits[Len(msg.body) + 1]>>
    BY <1>1, <1>5, <1>6, <1>11, <2>1, <2>4
  <2>6. a2i(getHeaderValue(list, key)) = Len(msg.body)
    BY <1>1, <2>5, OneDigit
  <2>. QED
    BY <1>10, <1>11, <2>6 DEF list, lines
<1>12. CASE ~(msg.body # <<>> /\ k = Len(lines))
  <2>1. k <= n
    BY <1>1, <1>4, <1>12
  <2>2. \A i \in 1..k : i \in 1..n
    BY <1>1, <1>4, <2>1
  <2>. HIDE DEF Named1
  <2>3. I = {}
    BY <1>8, <1>9, <2>2
  <2>4. h = 0
    BY <1>7, <2>3
  <2>5. getHeaderValue(list, key) = <<>>
    BY <1>6, <2>4
  <2>6. a2i(getHeaderValue(list, key)) = 0
    BY <2>5, OneDigit
  <2>. QED
    BY <1>10, <1>12, <2>6 DEF list, lines
<1>. QED
  BY <1>11, <1>12

-----------------------------------------------------------------------------
(* The head of a message, in a memory that holds it.                       *)

(* Where its parts begin: the method, the url, the protocol, the lines of  *)
(* the header, and the empty line with the line end in front of it.        *)
MethodAt(msg)   == 1 + Len(msg.lead)
UrlAt(msg)      == MethodAt(msg) + Len(msg.method) + 1
ProtocolAt(msg) == UrlAt(msg) + Len(UrlSent(msg)) + 1
LinesAt(msg)    == ProtocolAt(msg) + 3
EmptyAt(msg)    == IF LinesSent(msg) = <<>> THEN LinesAt(msg) - 2
                   ELSE LinesAt(msg) + Len(HeadersSent(msg))

HeadHeld(m, msg) ==
  /\ Holds(m, 1, msg.lead)
  /\ Holds(m, MethodAt(msg), msg.method)
  /\ Holds(m, UrlAt(msg) - 1, <<"SP">>)
  /\ Holds(m, UrlAt(msg), UrlSent(msg))
  /\ Holds(m, ProtocolAt(msg) - 1, <<"SP">>)
  /\ Holds(m, ProtocolAt(msg), <<"HTTP/1.1">>)
  /\ Holds(m, ProtocolAt(msg) + 1, Eol)
  /\ Holds(m, LinesAt(msg), HeadersSent(msg))
  /\ Holds(m, EmptyAt(msg), Eol)

LEMMA HeadTyped ==
  ASSUME NEW msg, Composed(msg)
  PROVE  /\ msg.lead \in Strings /\ Len(msg.lead) \in Nat
         /\ msg.method \in Strings /\ Len(msg.method) \in Nat /\ Len(msg.method) > 0
         /\ UrlSent(msg) \in Strings /\ Len(UrlSent(msg)) \in Nat
         /\ HeadersSent(msg) \in Strings /\ Len(HeadersSent(msg)) \in Nat
         /\ HeadersSent(msg) = Join([i \in DOMAIN LinesSent(msg) |-> LineText(LinesSent(msg)[i])], Eol)
         /\ LinesSent(msg) = <<>> => HeadersSent(msg) = <<>>
<1>1. msg.lead \in Strings
  <2>1. LineEndBytes \subseteq Tokens /\ msg.lead \in Seq(LineEndBytes)
    BY DEF LineEndBytes, Tokens, Composed
  <2>. QED
    BY <2>1, SeqMonotonic DEF Strings
<1>2. msg.method \in Strings /\ msg.method # <<>> /\ UrlSent(msg) \in Strings
  BY UrlText DEF Composed, Text
<1>3. HeadersSent(msg) = Join([i \in DOMAIN LinesSent(msg) |-> LineText(LinesSent(msg)[i])], Eol)
  BY DEF HeadersSent, LineText
<1>4. HeadersSent(msg) \in Strings /\ (LinesSent(msg) = <<>> => HeadersSent(msg) = <<>>)
  <2>. DEFINE lines == LinesSent(msg)
              texts == [i \in DOMAIN lines |-> LineText(lines[i])]
  <2>1. lines \in Seq(SentLines)
    BY LinesSentTyped
  <2>. HIDE DEF lines
  <2>2. Len(lines) \in Nat /\ DOMAIN lines = 1..Len(lines)
        /\ \A i \in 1..Len(lines) : LineText(lines[i]) \in Strings
    <3>1. ASSUME NEW line \in SentLines PROVE LineText(line) \in Strings
      <4>1. <<>> \in Strings /\ 1 \in Nat \ {0}
        BY Literals
      <4>. QED
        BY <4>1, LineLies
    <3>. QED
      BY <2>1, <3>1, LenProperties, ElementOfSeq
  <2>3. [i \in 1..Len(lines) |-> LineText(lines[i])] \in Seq(Strings)
    BY <2>2
  <2>4. texts \in Seq(Strings) /\ (lines = <<>> => texts = <<>>)
    BY <2>2, <2>3
  <2>5. Eol \in Strings
    BY Literals
  <2>. HIDE DEF texts
  <2>6. Join(texts, Eol) \in Strings /\ (texts = <<>> => Join(texts, Eol) = <<>>)
    BY <2>4, <2>5, JoinTyped
  <2>. QED
    BY <1>3, <2>4, <2>6 DEF lines, texts
<1>5. \A s \in Strings : Len(s) \in Nat /\ (s # <<>> => Len(s) > 0)
  BY LenProperties, EmptySeq DEF Strings
<1>. QED
  BY <1>1, <1>2, <1>3, <1>4, <1>5

LEMMA HeadLies ==
  ASSUME NEW msg, Composed(msg), NEW m \in Strings, Holds(m, 1, HeadSent(msg))
  PROVE  /\ HeadHeld(m, msg)
         /\ EmptyAt(msg) = Len(HeadSent(msg)) - 3
         /\ Len(HeadSent(msg)) <= Len(m) /\ Len(m) \in Nat
<1>. DEFINE blank == <<"SP">>
            protocol == <<"SP", "HTTP/1.1">>
            none == LinesSent(msg) = <<>>
            last == IF none THEN <<>> ELSE Eol
            url == UrlSent(msg)
            headers == HeadersSent(msg)
            lead == msg.lead
            method == msg.method
            h2 == lead \o method
            h3 == h2 \o blank
            h4 == h3 \o url
            h5 == h4 \o protocol
            h6 == h5 \o Eol
            h7 == h6 \o headers
            h8 == h7 \o last
            h9 == h8 \o Eol
<1>1. HeadSent(msg) = h9
  BY DEF HeadSent
<1>2. /\ lead \in Strings /\ method \in Strings /\ url \in Strings /\ headers \in Strings
      /\ Len(lead) \in Nat /\ Len(method) \in Nat /\ Len(url) \in Nat /\ Len(headers) \in Nat
      /\ none => headers = <<>>
  BY HeadTyped
<1>3. blank \in Strings /\ Len(blank) = 1 /\ <<"HTTP/1.1">> \in Strings /\ Len(<<"HTTP/1.1">>) = 1
      /\ Eol \in Strings /\ Len(Eol) = 2 /\ <<>> \in Strings /\ Len(<<>>) = 0
  BY Literals
<1>. HIDE DEF h2, h3, h4, h5, h6, h7, h8, h9
<1>. HIDE DEF url, headers, lead, method
<1>4. Len(m) \in Nat /\ 1 \in Nat \ {0}
  BY LenProperties DEF Strings
<1>5. ASSUME NEW s \in Strings, NEW t \in Strings
      PROVE  /\ s \o t \in Strings /\ Len(s \o t) = Len(s) + Len(t)
             /\ Len(s) \in Nat /\ Len(t) \in Nat
             /\ Holds(m, 1, s \o t) <=> Holds(m, 1, s) /\ Holds(m, 1 + Len(s), t)
  BY <1>4, HoldsParts
<1>6. protocol \in Strings /\ Len(protocol) = 2 /\ protocol = blank \o <<"HTTP/1.1">>
  <2>1. protocol = blank \o <<"HTTP/1.1">>
    OBVIOUS
  <2>. DEFINE rest == <<"HTTP/1.1">>
  <2>2. rest \in Strings /\ Len(rest) = 1 /\ protocol = blank \o rest
    BY <1>3, <2>1
  <2>. HIDE DEF protocol, blank, rest
  <2>3. blank \in Strings /\ rest \in Strings
    BY <1>3, <2>2
  <2>4. blank \o rest \in Strings /\ Len(blank \o rest) = Len(blank) + Len(rest)
    BY <1>5, <2>3
  <2>5. protocol \in Strings /\ Len(protocol) = Len(blank) + Len(rest)
    BY <2>2, <2>4
  <2>6. Len(protocol) = 2
    BY <1>3, <2>2, <2>5
  <2>. QED
    BY <2>1, <2>5, <2>6
<1>. DEFINE tail == IF none THEN 0 ELSE 2
<1>7. last \in Strings /\ Len(last) = tail /\ tail \in Nat
  <2>1. CASE none
    BY <1>3, <2>1
  <2>2. CASE ~none
    BY <1>3, <2>2
  <2>. QED
    BY <2>1, <2>2
<1>8. /\ MethodAt(msg) = 1 + Len(lead) /\ UrlAt(msg) = MethodAt(msg) + Len(method) + 1
      /\ ProtocolAt(msg) = UrlAt(msg) + Len(url) + 1
      /\ LinesAt(msg) = ProtocolAt(msg) + 3
      /\ EmptyAt(msg) = IF none THEN LinesAt(msg) - 2 ELSE LinesAt(msg) + Len(headers)
  BY DEF MethodAt, UrlAt, ProtocolAt, LinesAt, EmptyAt, lead, method, url, headers
<1>9. HeadHeld(m, msg) <=>
        /\ Holds(m, 1, lead) /\ Holds(m, MethodAt(msg), method)
        /\ Holds(m, UrlAt(msg) - 1, blank) /\ Holds(m, UrlAt(msg), url)
        /\ Holds(m, ProtocolAt(msg) - 1, blank) /\ Holds(m, ProtocolAt(msg), <<"HTTP/1.1">>)
        /\ Holds(m, ProtocolAt(msg) + 1, Eol) /\ Holds(m, LinesAt(msg), headers)
        /\ Holds(m, EmptyAt(msg), Eol)
  BY DEF HeadHeld, lead, method, url, headers
<1>10. none => Len(headers) = 0
  BY <1>2, <1>3
<1>11. Len(url) \in Nat /\ Len(lead) \in Nat /\ Len(method) \in Nat /\ Len(headers) \in Nat
  BY <1>2
<1>. HIDE DEF blank, protocol, last, none, tail
<1>12. /\ h2 \in Strings /\ Len(h2) = Len(lead) + Len(method) /\ Len(lead) \in Nat /\ Len(method) \in Nat
       /\ Holds(m, 1, h2) <=> Holds(m, 1, lead) /\ Holds(m, 1 + Len(lead), method)
  <2>1. lead \in Strings /\ method \in Strings
    BY <1>2, <1>3, <1>6, <1>7
  <2>. QED
    BY <1>5, <2>1 DEF h2
<1>13. /\ h3 \in Strings /\ Len(h3) = Len(h2) + Len(blank) /\ Len(h2) \in Nat /\ Len(blank) \in Nat
       /\ Holds(m, 1, h3) <=> Holds(m, 1, h2) /\ Holds(m, 1 + Len(h2), blank)
  <2>1. h2 \in Strings /\ blank \in Strings
    BY <1>2, <1>3, <1>6, <1>7, <1>12
  <2>. QED
    BY <1>5, <2>1 DEF h3
<1>14. /\ h4 \in Strings /\ Len(h4) = Len(h3) + Len(url) /\ Len(h3) \in Nat /\ Len(url) \in Nat
       /\ Holds(m, 1, h4) <=> Holds(m, 1, h3) /\ Holds(m, 1 + Len(h3), url)
  <2>1. h3 \in Strings /\ url \in Strings
    BY <1>2, <1>3, <1>6, <1>7, <1>13
  <2>. QED
    BY <1>5, <2>1 DEF h4
<1>15. /\ h5 \in Strings /\ Len(h5) = Len(h4) + Len(protocol) /\ Len(h4) \in Nat /\ Len(protocol) \in Nat
       /\ Holds(m, 1, h5) <=> Holds(m, 1, h4) /\ Holds(m, 1 + Len(h4), protocol)
  <2>1. h4 \in Strings /\ protocol \in Strings
    BY <1>2, <1>3, <1>6, <1>7, <1>14
  <2>. QED
    BY <1>5, <2>1 DEF h5
<1>16. /\ h6 \in Strings /\ Len(h6) = Len(h5) + Len(Eol) /\ Len(h5) \in Nat /\ Len(Eol) \in Nat
       /\ Holds(m, 1, h6) <=> Holds(m, 1, h5) /\ Holds(m, 1 + Len(h5), Eol)
  <2>1. h5 \in Strings /\ Eol \in Strings
    BY <1>2, <1>3, <1>6, <1>7, <1>15
  <2>. QED
    BY <1>5, <2>1 DEF h6
<1>17. /\ h7 \in Strings /\ Len(h7) = Len(h6) + Len(headers) /\ Len(h6) \in Nat /\ Len(headers) \in Nat
       /\ Holds(m, 1, h7) <=> Holds(m, 1, h6) /\ Holds(m, 1 + Len(h6), headers)
  <2>1. h6 \in Strings /\ headers \in Strings
    BY <1>2, <1>3, <1>6, <1>7, <1>16
  <2>. QED
    BY <1>5, <2>1 DEF h7
<1>18. /\ h8 \in Strings /\ Len(h8) = Len(h7) + Len(last) /\ Len(h7) \in Nat /\ Len(last) \in Nat
       /\ Holds(m, 1, h8) <=> Holds(m, 1, h7) /\ Holds(m, 1 + Len(h7), last)
  <2>1. h7 \in Strings /\ last \in Strings
    BY <1>2, <1>3, <1>6, <1>7, <1>17
  <2>. QED
    BY <1>5, <2>1 DEF h8
<1>19. /\ h9 \in Strings /\ Len(h9) = Len(h8) + Len(Eol) /\ Len(h8) \in Nat /\ Len(Eol) \in Nat
       /\ Holds(m, 1, h9) <=> Holds(m, 1, h8) /\ Holds(m, 1 + Len(h8), Eol)
  <2>1. h8 \in Strings /\ Eol \in Strings
    BY <1>2, <1>3, <1>6, <1>7, <1>18
  <2>. QED
    BY <1>5, <2>1 DEF h9
<1>20. Len(blank) = 1 /\ Len(protocol) = 2 /\ Len(Eol) = 2 /\ Len(last) = tail
  BY <1>3, <1>6, <1>7
<1>21. /\ 1 + Len(lead) = MethodAt(msg)
       /\ 1 + Len(h2) = UrlAt(msg) - 1
       /\ 1 + Len(h3) = UrlAt(msg)
       /\ 1 + Len(h4) = ProtocolAt(msg) - 1
       /\ 1 + Len(h5) = ProtocolAt(msg) + 1
       /\ 1 + Len(h6) = LinesAt(msg)
       /\ Len(h8) = Len(h6) + Len(headers) + tail
  BY <1>8, <1>11, <1>12, <1>13, <1>14, <1>15, <1>16, <1>17, <1>18, <1>20
<1>22. /\ EmptyAt(msg) = Len(h8) - 1
       /\ none => EmptyAt(msg) = ProtocolAt(msg) + 1 /\ EmptyAt(msg) = 1 + Len(h5)
       /\ ~none => EmptyAt(msg) = 1 + Len(h7)
  <2>1. LinesAt(msg) = 1 + Len(h6) /\ Len(h6) \in Nat /\ Len(h7) = Len(h6) + Len(headers)
        /\ Len(h8) = Len(h6) + Len(headers) + tail
    BY <1>17, <1>21
  <2>2. CASE none
    <3>1. tail = 0
      BY <2>2 DEF tail
    <3>2. EmptyAt(msg) = LinesAt(msg) - 2 /\ Len(headers) = 0
      BY <1>8, <1>10, <2>2
    <3>3. LinesAt(msg) - 2 = ProtocolAt(msg) + 1
      BY <1>8, <1>15, <1>21
    <3>. QED
      BY <1>21, <2>1, <2>2, <3>1, <3>2, <3>3
  <2>3. CASE ~none
    <3>1. tail = 2
      BY <2>3 DEF tail
    <3>2. EmptyAt(msg) = LinesAt(msg) + Len(headers)
      BY <1>8, <2>3
    <3>. QED
      BY <1>11, <2>1, <2>3, <3>1, <3>2
  <2>. QED
    BY <2>2, <2>3
<1>23. Holds(m, 1, h9)
  BY <1>1
<1>24. /\ Holds(m, 1, h8) /\ Holds(m, 1, h7) /\ Holds(m, 1, h6) /\ Holds(m, 1, h5)
       /\ Holds(m, 1, h4) /\ Holds(m, 1, h3) /\ Holds(m, 1, h2)
       /\ Holds(m, 1, lead) /\ Holds(m, MethodAt(msg), method)
       /\ Holds(m, UrlAt(msg) - 1, blank) /\ Holds(m, UrlAt(msg), url)
       /\ Holds(m, ProtocolAt(msg) - 1, protocol) /\ Holds(m, ProtocolAt(msg) + 1, Eol)
       /\ Holds(m, LinesAt(msg), headers)
       /\ Holds(m, 1 + Len(h7), last) /\ Holds(m, 1 + Len(h8), Eol)
  BY <1>12, <1>13, <1>14, <1>15, <1>16, <1>17, <1>18, <1>19, <1>21, <1>23
<1>25. Holds(m, ProtocolAt(msg) - 1, blank) /\ Holds(m, ProtocolAt(msg), <<"HTTP/1.1">>)
  <2>. DEFINE p == ProtocolAt(msg) - 1
              rest == <<"HTTP/1.1">>
  <2>1. p \in Nat \ {0} /\ p + 1 = ProtocolAt(msg)
    <3>1. MethodAt(msg) \in Nat
      BY <1>8, <1>11
    <3>2. UrlAt(msg) \in Nat
      BY <1>8, <1>11, <3>1
    <3>3. ProtocolAt(msg) \in Nat
      BY <1>8, <1>11, <3>2
    <3>4. ProtocolAt(msg) - 1 = 1 + Len(h4) /\ Len(h4) \in Nat
      BY <1>15, <1>21
    <3>. QED
      BY <3>3, <3>4
  <2>2. rest \in Strings /\ protocol = blank \o rest /\ blank \in Strings
    BY <1>3, <1>6
  <2>3. Holds(m, p, protocol)
    BY <1>24
  <2>. HIDE DEF p, rest
  <2>4. Holds(m, p, blank) /\ Holds(m, p + Len(blank), rest)
    BY <2>1, <2>2, <2>3, HoldsParts
  <2>. QED
    BY <1>20, <2>1, <2>4 DEF p, rest
<1>26. Holds(m, EmptyAt(msg), Eol)
  <2>1. CASE none
    <3>1. EmptyAt(msg) = ProtocolAt(msg) + 1
      BY <1>22, <2>1
    <3>. QED
      BY <1>24, <3>1
  <2>2. CASE ~none
    <3>1. last = Eol
      BY <2>2 DEF last
    <3>2. EmptyAt(msg) = 1 + Len(h7)
      BY <1>22, <2>2
    <3>. QED
      BY <1>24, <3>1, <3>2
  <2>. QED
    BY <2>1, <2>2
<1>27. EmptyAt(msg) = Len(h9) - 3
  <2>1. EmptyAt(msg) = Len(h8) - 1
    BY <1>22
  <2>2. Len(h9) = Len(h8) + 2 /\ Len(h8) \in Nat
    BY <1>19, <1>20
  <2>. QED
    BY <2>1, <2>2
<1>28. Len(h9) <= Len(m)
  <2>1. 1 + Len(h9) <= Len(m) + 1
    BY <1>23 DEF Holds
  <2>. QED
    BY <1>4, <1>19, <1>20, <2>1
<1>. QED
  BY <1>1, <1>4, <1>9, <1>24, <1>25, <1>26, <1>27, <1>28

(* A byte that lies in m. *)
LEMMA HeldByte ==
  ASSUME NEW m \in Strings, NEW p \in Nat \ {0}, NEW c \in Tokens, Holds(m, p, <<c>>)
  PROVE  m[p] = c /\ p \in 1..Len(m) /\ Len(m) \in Nat
<1>1. Len(<<c>>) = 1 /\ <<c>>[1] = c /\ Len(m) \in Nat
  BY LenProperties DEF Strings
<1>2. 1 \in 1..1 /\ p + 1 - 1 = p
  OBVIOUS
<1>3. p + 1 <= Len(m) + 1 /\ m[p + 1 - 1] = c
  BY <1>1, <1>2 DEF Holds
<1>. QED
  BY <1>1, <1>2, <1>3

(* A resource begins with a slash. *)
LEMMA ResourceNotEmpty ==
  ASSUME NEW msg, Composed(msg)
  PROVE  Len(ResourceSent(msg)) > 0
<1>. DEFINE segments == msg.segments
            n == Len(segments)
            part(i) == <<"/">> \o segments[i]
            parts == [i \in DOMAIN segments |-> part(i)]
<1>1. segments \in Seq(Text(SegmentEnds)) /\ segments # <<>>
  BY DEF Composed
<1>. HIDE DEF segments
<1>2. n \in Nat /\ n > 0 /\ DOMAIN segments = 1..n /\ \A i \in 1..n : segments[i] \in Strings
  BY <1>1, LenProperties, ElementOfSeq, EmptySeq DEF Text
<1>3. <<"/">> \in Strings /\ Len(<<"/">>) = 1
  BY Literals
<1>4. ASSUME NEW i \in 1..n PROVE part(i) \in Strings /\ Len(part(i)) \in Nat /\ Len(part(i)) > 0
  <2>1. segments[i] \in Seq(Tokens) /\ <<"/">> \in Seq(Tokens) /\ Len(segments[i]) \in Nat
    BY <1>2, <1>3, LenProperties DEF Strings
  <2>2. part(i) \in Seq(Tokens) /\ Len(part(i)) = Len(<<"/">>) + Len(segments[i])
    BY <2>1, ConcatProperties
  <2>. QED
    BY <1>3, <2>1, <2>2 DEF Strings
<1>. HIDE DEF n, part
<1>5. [i \in 1..n |-> part(i)] \in Seq(Strings) /\ Len([i \in 1..n |-> part(i)]) = n
  BY <1>2, <1>4
<1>6. parts \in Seq(Strings) /\ Len(parts) = n /\ \A i \in 1..n : parts[i] = part(i)
  BY <1>2, <1>5
<1>7. ResourceSent(msg) = FlattenSeq(parts)
  BY DEF ResourceSent, segments, part
<1>. HIDE DEF parts
<1>8. PICK f : Flattens(f, parts)
  BY <1>6, FlattenComputed
<1>9. n \in 1..n /\ n - 1 \in 0..n
  BY <1>2
<1>10. FlattenSeq(parts) = f[n - 1] \o part(n) /\ f[n - 1] \in Strings
  BY <1>6, <1>8, <1>9 DEF Flattens
<1>. DEFINE s == f[n - 1]
            t == part(n)
<1>11. s \in Seq(Tokens) /\ t \in Seq(Tokens) /\ Len(s) \in Nat /\ Len(t) \in Nat /\ Len(t) > 0
  BY <1>4, <1>9, <1>10, LenProperties DEF Strings
<1>12. FlattenSeq(parts) = s \o t
  BY <1>10
<1>. HIDE DEF s, t
<1>13. Len(s \o t) = Len(s) + Len(t)
  BY <1>11, ConcatProperties
<1>. QED
  BY <1>7, <1>11, <1>12, <1>13

(* Where the parts of the first line lie, and what bytes they have.        *)
LEMMA RequestLine ==
  ASSUME NEW msg, Composed(msg), NEW m \in Strings, Holds(m, 1, HeadSent(msg))
  PROVE  LET a == MethodAt(msg)
             u == UrlAt(msg)
             t == ProtocolAt(msg)
             e == EmptyAt(msg)
         IN /\ a \in Nat \ {0} /\ u \in Nat /\ t \in Nat /\ e \in Nat /\ Len(m) \in Nat
            /\ a + Len(msg.method) = u - 1 /\ u + Len(UrlSent(msg)) = t - 1
            /\ a < u - 1 /\ u < t - 1 /\ t + 1 <= e /\ e + 1 <= Len(m)
            /\ \A j \in 1..(a - 1) : m[j] \in {"CR", "LF"}
            /\ \A j \in a..(u - 2) : m[j] # "CR" /\ m[j] # "LF" /\ m[j] # "SP"
            /\ \A j \in u..(t - 2) : m[j] # "CR" /\ m[j] # "LF" /\ m[j] # "SP"
            /\ m[u - 1] = "SP" /\ m[t - 1] = "SP" /\ m[t] = "HTTP/1.1"
            /\ Holds(m, a, msg.method) /\ Holds(m, u, UrlSent(msg))
            /\ Holds(m, t, <<"HTTP/1.1">>) /\ Holds(m, t + 1, Eol)
<1>. DEFINE a == MethodAt(msg)
            u == UrlAt(msg)
            t == ProtocolAt(msg)
            e == EmptyAt(msg)
            lead == msg.lead
            method == msg.method
            url == UrlSent(msg)
<1>1. /\ lead \in Strings /\ Len(lead) \in Nat
      /\ method \in Strings /\ Len(method) \in Nat /\ Len(method) > 0
      /\ url \in Strings /\ Len(url) \in Nat
      /\ Len(HeadersSent(msg)) \in Nat
  BY HeadTyped
<1>2. /\ Holds(m, 1, lead) /\ Holds(m, a, method) /\ Holds(m, u - 1, <<"SP">>) /\ Holds(m, u, url)
      /\ Holds(m, t - 1, <<"SP">>) /\ Holds(m, t, <<"HTTP/1.1">>) /\ Holds(m, t + 1, Eol)
      /\ e = Len(HeadSent(msg)) - 3 /\ Len(HeadSent(msg)) <= Len(m) /\ Len(m) \in Nat
      /\ Holds(m, e, Eol)
  BY HeadLies DEF HeadHeld
<1>3. Len(url) > 0
  <2>1. /\ ResourceSent(msg) \in Strings /\ Len(ResourceSent(msg)) \in Nat
        /\ QuerySent(msg) \in Strings
    BY UrlText DEF Text
  <2>. DEFINE rest == IF msg.parms = <<>> THEN <<>> ELSE <<"?">> \o QuerySent(msg)
  <2>2. <<"?">> \in Strings /\ <<>> \in Strings
    BY Literals
  <2>3. rest \in Strings
    BY <2>1, <2>2, ConcatProperties DEF Strings
  <2>4. url = ResourceSent(msg) \o rest
    BY DEF UrlSent
  <2>. HIDE DEF rest, url
  <2>5. Len(url) = Len(ResourceSent(msg)) + Len(rest) /\ Len(rest) \in Nat
    BY <2>1, <2>3, <2>4, ConcatProperties, LenProperties DEF Strings
  <2>. QED
    BY <2>1, <2>5, ResourceNotEmpty
<1>4. /\ a = 1 + Len(lead) /\ u = a + Len(method) + 1 /\ t = u + Len(url) + 1
      /\ e = IF LinesSent(msg) = <<>> THEN t + 3 - 2 ELSE t + 3 + Len(HeadersSent(msg))
  BY DEF MethodAt, UrlAt, ProtocolAt, LinesAt, EmptyAt
<1>5. \A j \in 1..Len(lead) : lead[j] \in {"CR", "LF"}
  BY ElementOfSeq DEF Composed, LineEndBytes
<1>6. /\ \A j \in 1..Len(method) : method[j] \notin UrlEnds
      /\ \A j \in 1..Len(url) : url[j] \notin UrlEnds
  BY UrlText DEF Composed, Text
<1>. HIDE DEF a, u, t, e, lead, method, url
<1>7. a \in Nat \ {0}
  BY <1>1, <1>4
<1>8. u \in Nat \ {0} /\ u - 1 \in Nat \ {0} /\ a + Len(method) = u - 1 /\ a < u - 1
  BY <1>1, <1>4, <1>7
<1>9. t \in Nat \ {0} /\ t - 1 \in Nat \ {0} /\ u + Len(url) = t - 1 /\ u < t - 1
  BY <1>1, <1>3, <1>4, <1>8
<1>10. e \in Nat /\ t + 1 <= e
  <2>1. CASE LinesSent(msg) = <<>>
    BY <1>4, <1>9, <2>1
  <2>2. CASE LinesSent(msg) # <<>>
    BY <1>1, <1>4, <1>9, <2>2
  <2>. QED
    BY <2>1, <2>2
<1>11. "SP" \in Tokens /\ "HTTP/1.1" \in Tokens
  BY Literals
<1>12. m[u - 1] = "SP" /\ m[t - 1] = "SP" /\ m[t] = "HTTP/1.1"
  BY <1>2, <1>8, <1>9, <1>11, HeldByte
<1>13. \A j \in 1..(a - 1) : m[j] \in {"CR", "LF"}
  <2>1. \A i \in 1..Len(lead) : m[1 + i - 1] = lead[i]
    BY <1>2 DEF Holds
  <2>. QED
    BY <1>1, <1>4, <1>5, <2>1
<1>14. /\ \A j \in a..(a + Len(method) - 1) : m[j] \notin UrlEnds
       /\ \A j \in u..(u + Len(url) - 1) : m[j] \notin UrlEnds
  BY <1>1, <1>2, <1>6, <1>7, <1>8, HeldBytes
<1>15. /\ \A j \in a..(u - 2) : m[j] # "CR" /\ m[j] # "LF" /\ m[j] # "SP"
       /\ \A j \in u..(t - 2) : m[j] # "CR" /\ m[j] # "LF" /\ m[j] # "SP"
  <2>1. a + Len(method) - 1 = u - 2 /\ u + Len(url) - 1 = t - 2
    BY <1>1, <1>7, <1>8, <1>9
  <2>2. \A c : c \notin UrlEnds => c # "CR" /\ c # "LF" /\ c # "SP"
    BY DEF UrlEnds
  <2>. QED
    BY <1>14, <2>1, <2>2
<1>16. e + 1 <= Len(m)
  <2>1. e + 2 <= Len(m) + 1
    BY <1>2, Literals DEF Holds
  <2>. QED
    BY <1>2, <1>10, <2>1
<1>. QED
  BY <1>2, <1>7, <1>8, <1>9, <1>10, <1>12, <1>13, <1>15, <1>16 DEF a, u, t, e, method, url

(* The places lookForHeaders finds.                                        *)
LEMMA PlacesFound ==
  ASSUME NEW msg, Composed(msg), NEW m \in Strings, Holds(m, 1, HeadSent(msg)),
         NEW n \in Nat, EmptyAt(msg) <= n
  PROVE  LET a == MethodAt(msg)
             u == UrlAt(msg)
             t == ProtocolAt(msg)
             e == EmptyAt(msg)
         IN /\ Skip(m, 1, {"CR", "LF"}) = a
            /\ memmem(m, Eol, a, n + 1) = t + 1
            /\ Skip(m, a, {"SP"}) = a
            /\ memchr(m, "SP", a, a + (e - a)) = u - 1
            /\ Skip(m, u - 1, {"SP"}) = u
            /\ memchr(m, "SP", u, u + (e - a)) = t - 1
            /\ Skip(m, t - 1, {"SP"}) = t
            /\ memmem(m, Eol, t, t + (e - a)) = t + 1
<1>. DEFINE a == MethodAt(msg)
            u == UrlAt(msg)
            t == ProtocolAt(msg)
            e == EmptyAt(msg)
            eol == {"CR", "LF"}
            blank == {"SP"}
<1>1. /\ a \in Nat \ {0} /\ u \in Nat /\ t \in Nat /\ e \in Nat /\ Len(m) \in Nat
      /\ a < u - 1 /\ u < t - 1 /\ t + 1 <= e /\ e + 1 <= Len(m)
      /\ \A j \in 1..(a - 1) : m[j] \in eol
      /\ \A j \in a..(u - 2) : m[j] # "CR" /\ m[j] # "LF" /\ m[j] # "SP"
      /\ \A j \in u..(t - 2) : m[j] # "CR" /\ m[j] # "LF" /\ m[j] # "SP"
      /\ m[u - 1] = "SP" /\ m[t - 1] = "SP" /\ m[t] = "HTTP/1.1"
      /\ Holds(m, t + 1, Eol)
  BY RequestLine
<1>2. e <= n
  OBVIOUS
<1>3. \A c : (c \in eol <=> c = "CR" \/ c = "LF") /\ (c \in blank <=> c = "SP")
  OBVIOUS
<1>. HIDE DEF a, u, t, e, eol, blank
<1>4. a \in a..(u - 2) /\ u \in u..(t - 2)
  BY <1>1
<1>5. Skip(m, 1, eol) = a
  <2>1. a \in 1..Len(m) /\ 1 \in Nat \ {0}
    BY <1>1
  <2>2. m[a] \notin eol
    BY <1>1, <1>3, <1>4
  <2>. QED
    BY <1>1, <2>1, <2>2, SkipAt
<1>6. \A j \in a..t : m[j] # "CR"
  <2>1. \A j \in a..t : j \in a..(u - 2) \/ j = u - 1 \/ j \in u..(t - 2) \/ j = t - 1 \/ j = t
    BY <1>1
  <2>. QED
    BY <1>1, <2>1
<1>7. memmem(m, Eol, a, n + 1) = t + 1
  <2>. DEFINE q == t + 1
              to == n + 1
  <2>1. q \in Nat /\ a <= q /\ to \in Int /\ q < to /\ q - 1 = t
    BY <1>1, <1>2
  <2>2. Holds(m, q, Eol)
    BY <1>1
  <2>. HIDE DEF q, to
  <2>3. memmem(m, Eol, a, to) = q
    BY <1>1, <1>6, <2>1, <2>2, MemmemEol
  <2>. QED
    BY <2>3 DEF q, to
<1>8. Skip(m, a, blank) = a
  <2>1. a \in a..Len(m) /\ m[a] \notin blank /\ \A i \in a..(a - 1) : m[i] \in blank
    BY <1>1, <1>3, <1>4
  <2>. QED
    BY <1>1, <2>1, SkipAt
<1>9. ASSUME NEW p \in Nat \ {0}, NEW q \in Nat, p < q, q <= Len(m), NEW to \in Int, q < to,
             m[q] = "SP", \A i \in p..(q - 1) : m[i] # "SP"
      PROVE  memchr(m, "SP", p, to) = q
  <2>. DEFINE c == "SP"
  <2>1. q \in p..Len(m) /\ m[q] = c /\ \A i \in p..(q - 1) : m[i] # c
    BY <1>1, <1>9
  <2>. HIDE DEF c
  <2>2. memchr(m, c, p, to) = q
    BY <1>9, <2>1, MemchrAt
  <2>. QED
    BY <2>2 DEF c
<1>10. memchr(m, "SP", a, a + (e - a)) = u - 1
  <2>. DEFINE q == u - 1
              to == a + (e - a)
  <2>1. q \in Nat /\ a < q /\ q <= Len(m) /\ to \in Int /\ q < to /\ q - 1 = u - 2
    BY <1>1
  <2>2. m[q] = "SP" /\ \A i \in a..(q - 1) : m[i] # "SP"
    BY <1>1, <2>1
  <2>. HIDE DEF q, to
  <2>3. memchr(m, "SP", a, to) = q
    BY <1>1, <1>9, <2>1, <2>2
  <2>. QED
    BY <2>3 DEF q, to
<1>11. Skip(m, u - 1, blank) = u
  <2>. DEFINE p == u - 1
  <2>1. p \in Nat \ {0} /\ u \in p..Len(m) /\ p..(u - 1) = {p}
    BY <1>1
  <2>2. m[u] \notin blank /\ m[p] \in blank
    BY <1>1, <1>3, <1>4
  <2>. HIDE DEF p
  <2>3. Skip(m, p, blank) = u
    BY <2>1, <2>2, SkipAt
  <2>. QED
    BY <2>3 DEF p
<1>12. memchr(m, "SP", u, u + (e - a)) = t - 1
  <2>. DEFINE q == t - 1
              to == u + (e - a)
  <2>1. q \in Nat /\ u < q /\ q <= Len(m) /\ to \in Int /\ q < to /\ q - 1 = t - 2 /\ u \in Nat \ {0}
    BY <1>1
  <2>2. m[q] = "SP" /\ \A i \in u..(q - 1) : m[i] # "SP"
    BY <1>1, <2>1
  <2>. HIDE DEF q, to
  <2>3. memchr(m, "SP", u, to) = q
    BY <1>1, <1>9, <2>1, <2>2
  <2>. QED
    BY <2>3 DEF q, to
<1>13. Skip(m, t - 1, blank) = t
  <2>. DEFINE p == t - 1
  <2>1. p \in Nat \ {0} /\ t \in p..Len(m) /\ p..(t - 1) = {p}
    BY <1>1
  <2>2. m[t] \notin blank /\ m[p] \in blank
    BY <1>1, <1>3
  <2>. HIDE DEF p
  <2>3. Skip(m, p, blank) = t
    BY <2>1, <2>2, SkipAt
  <2>. QED
    BY <2>3 DEF p
<1>14. memmem(m, Eol, t, t + (e - a)) = t + 1
  <2>. DEFINE q == t + 1
              to == t + (e - a)
  <2>1. t \in Nat \ {0} /\ q \in Nat /\ t <= q /\ to \in Int /\ q < to /\ q - 1 = t /\ t \in a..t
    BY <1>1
  <2>2. Holds(m, q, Eol) /\ \A j \in t..(q - 1) : m[j] # "CR"
    BY <1>1, <1>6, <2>1
  <2>. HIDE DEF q, to
  <2>3. memmem(m, Eol, t, to) = q
    BY <2>1, <2>2, MemmemEol
  <2>. QED
    BY <2>3 DEF q, to
<1>. QED
  BY <1>5, <1>7, <1>8, <1>10, <1>11, <1>12, <1>13, <1>14 DEF a, u, t, e, eol, blank

(* The part of the url in front of the parameters, and the parameters. *)
LEMMA QueryFound ==
  ASSUME NEW msg, Composed(msg), NEW m \in Strings, Holds(m, 1, HeadSent(msg))
  PROVE  LET u == UrlAt(msg)
             t == ProtocolAt(msg)
             r == u + Len(ResourceSent(msg))
         IN /\ Holds(m, u, ResourceSent(msg)) /\ Len(ResourceSent(msg)) \in Nat
            /\ msg.parms = <<>> => memchr(m, "?", u, t - 1) = 0 /\ t - 1 = r
            /\ msg.parms # <<>> => /\ memchr(m, "?", u, t - 1) = r
                                   /\ Holds(m, r + 1, QuerySent(msg))
                                   /\ t = r + 1 + Len(QuerySent(msg)) + 1
<1>. DEFINE u == UrlAt(msg)
            t == ProtocolAt(msg)
            resource == ResourceSent(msg)
            query == QuerySent(msg)
            r == u + Len(resource)
            url == UrlSent(msg)
            none == msg.parms = <<>>
<1>1. /\ u \in Nat \ {0} /\ t \in Nat /\ Len(m) \in Nat
      /\ u + Len(url) = t - 1 /\ t + 2 <= Len(m)
      /\ Holds(m, u, url)
  BY RequestLine
<1>2. /\ resource \in Strings /\ Len(resource) \in Nat
      /\ \A i \in 1..Len(resource) : resource[i] \notin PathEnds
      /\ query \in Strings /\ Len(query) \in Nat
  BY UrlText DEF Text
<1>3. url = resource \o IF none THEN <<>> ELSE <<"?">> \o query
  BY DEF UrlSent
<1>4. "?" \in PathEnds /\ "?" \in Tokens
  BY DEF PathEnds, Tokens
<1>5. <<>> \in Strings /\ <<"?">> \in Strings /\ Len(<<"?">>) = 1
  BY Literals
<1>. HIDE DEF u, t, resource, query, url
<1>6. ASSUME none
      PROVE  Holds(m, u, resource) /\ memchr(m, "?", u, t - 1) = 0 /\ t - 1 = r
  <2>1. url = resource
    BY <1>2, <1>3, <1>6, ConcatEmptySeq DEF Strings
  <2>2. Holds(m, u, resource) /\ u + Len(resource) = t - 1
    BY <1>1, <2>1
  <2>3. \A j \in u..(u + Len(resource) - 1) : m[j] \notin PathEnds
    BY <1>1, <1>2, <2>2, HeldBytes
  <2>. DEFINE c == "?"
              to == t - 1
  <2>4. to \in Int /\ to <= Len(m) + 1 /\ \A j \in u..(to - 1) : m[j] # c
    BY <1>1, <1>4, <2>2, <2>3
  <2>. HIDE DEF c, to
  <2>5. memchr(m, c, u, to) = 0
    BY <1>1, <2>4, MemchrNone
  <2>. QED
    BY <2>2, <2>5 DEF c, to, r
<1>7. ASSUME ~none
      PROVE  /\ Holds(m, u, resource) /\ memchr(m, "?", u, t - 1) = r
             /\ Holds(m, r + 1, query) /\ t = r + 1 + Len(query) + 1
  <2>. DEFINE mark == <<"?">>
              rest == mark \o query
  <2>1. url = resource \o rest
    BY <1>3, <1>7
  <2>2. mark \in Strings /\ Len(mark) = 1
    BY <1>5
  <2>. HIDE DEF mark
  <2>3. /\ rest \in Strings /\ Len(rest) = Len(mark) + Len(query)
        /\ Holds(m, u + Len(resource), rest) <=>
             Holds(m, u + Len(resource), mark) /\ Holds(m, u + Len(resource) + Len(mark), query)
    <3>. DEFINE p == u + Len(resource)
    <3>1. p \in Nat \ {0}
      BY <1>1, <1>2
    <3>. HIDE DEF p
    <3>2. /\ mark \o query \in Strings /\ Len(mark \o query) = Len(mark) + Len(query)
          /\ Holds(m, p, mark \o query) <=> Holds(m, p, mark) /\ Holds(m, p + Len(mark), query)
      BY <1>2, <2>2, <3>1, HoldsParts
    <3>. QED
      BY <3>2 DEF p
  <2>. HIDE DEF rest
  <2>4. /\ Len(url) = Len(resource) + Len(rest)
        /\ Holds(m, u, resource) /\ Holds(m, u + Len(resource), rest)
    <3>1. /\ Len(resource \o rest) = Len(resource) + Len(rest)
          /\ Holds(m, u, resource \o rest) <=> Holds(m, u, resource) /\ Holds(m, u + Len(resource), rest)
      <4>1. u \in Nat \ {0} /\ resource \in Strings /\ rest \in Strings
        BY <1>1, <1>2, <2>3
      <4>. QED
        BY <4>1, HoldsParts
    <3>. QED
      BY <1>1, <2>1, <3>1
  <2>5. Holds(m, r, mark) /\ Holds(m, r + 1, query) /\ r \in Nat \ {0}
    BY <1>1, <1>2, <2>2, <2>3, <2>4
  <2>6. t = r + 1 + Len(query) + 1
    BY <1>1, <1>2, <2>2, <2>3, <2>4
  <2>7. m[r] = "?" /\ r \in 1..Len(m)
    <3>. DEFINE p == r
    <3>1. p \in Nat \ {0} /\ Holds(m, p, <<"?">>)
      BY <2>5 DEF mark
    <3>. HIDE DEF p
    <3>2. m[p] = "?" /\ p \in 1..Len(m)
      BY <1>4, <3>1, HeldByte
    <3>. QED
      BY <3>2 DEF p
  <2>8. \A j \in u..(u + Len(resource) - 1) : m[j] \notin PathEnds
    BY <1>1, <1>2, <2>4, HeldBytes
  <2>. DEFINE c == "?"
              to == t - 1
  <2>9. to \in Int /\ r < to /\ r \in u..Len(m) /\ m[r] = c /\ \A j \in u..(r - 1) : m[j] # c
    BY <1>1, <1>2, <1>4, <2>5, <2>6, <2>7, <2>8
  <2>. HIDE DEF c, to, r
  <2>10. memchr(m, c, u, to) = r
    BY <1>1, <2>9, MemchrAt
  <2>. QED
    BY <2>4, <2>5, <2>6, <2>10 DEF c, to
<1>. QED
  BY <1>2, <1>6, <1>7 DEF u, t, resource, query, r

(* What lookForHeaders makes of a head that has come as a whole, whatever  *)
(* lies behind it in the memory: the method, url, resource, protocol and   *)
(* lines the client composed, and the length of its content, unless a line *)
(* without a colon hides the one that announces it.                        *)
THEOREM HeadParsed ==
  ASSUME NEW msg, Composed(msg), NEW m \in Strings, Holds(m, 1, HeadSent(msg)),
         NEW n \in Nat, EmptyAt(msg) <= n
  PROVE  LET r == Parsed(m, n, EmptyAt(msg)) IN
         /\ r.method = msg.method
         /\ r.url = UrlSent(msg)
         /\ r.protocol = <<"HTTP/1.1">>
         /\ r.resource = ResourceSent(msg)
         /\ r.segments = parseResource(ResourceSent(msg))
         /\ LinesSent(msg) # <<>> => r.headers = HeadersSent(msg)
         /\ r.headerList = KeysAndValues(Prefixed(LinesSent(msg)))
         /\ r.contentLength = IF msg.body # <<>> /\ Prefixed(LinesSent(msg)) = LinesSent(msg)
                              THEN Len(msg.body) ELSE 0
         /\ r.parmList = IF msg.parms = <<>> THEN <<>>
                         ELSE parseParms(m, UrlAt(msg) + Len(ResourceSent(msg)) + 1, ProtocolAt(msg))
<1>. DEFINE a == MethodAt(msg)
            u == UrlAt(msg)
            t == ProtocolAt(msg)
            e == EmptyAt(msg)
            mark == memchr(m, "?", u, t - 1)
            resource == ResourceSent(msg)
            lines == LinesSent(msg)
            headers == HeadersSent(msg)
            r == Parsed(m, n, e)
<1>1. /\ Skip(m, 1, {"CR", "LF"}) = a /\ memmem(m, Eol, a, n + 1) = t + 1
      /\ Skip(m, a, {"SP"}) = a /\ memchr(m, "SP", a, a + (e - a)) = u - 1
      /\ Skip(m, u - 1, {"SP"}) = u /\ memchr(m, "SP", u, u + (e - a)) = t - 1
      /\ Skip(m, t - 1, {"SP"}) = t /\ memmem(m, Eol, t, t + (e - a)) = t + 1
  BY PlacesFound
<1>2. /\ r.method = String(m, a, u - 1) /\ r.url = String(m, u, t - 1)
      /\ r.protocol = String(m, t, t + 1)
      /\ r.resource = String(m, u, IF mark = 0 THEN t - 1 ELSE mark)
      /\ r.segments = parseResource(r.resource)
      /\ r.headers = String(m, t + 1 + 2, e)
      /\ r.headerList = parseHeaders(m, t + 1 + 2, e)
      /\ r.contentLength = a2i(getHeaderValue(r.headerList, <<"content-length">>))
      /\ r.parmList = IF mark = 0 THEN <<>> ELSE parseParms(m, mark + 1, t)
  BY <1>1 DEF Parsed
<1>3. /\ a \in Nat \ {0} /\ u \in Nat \ {0} /\ t \in Nat \ {0} /\ e \in Nat /\ Len(m) \in Nat
      /\ a + Len(msg.method) = u - 1 /\ u + Len(UrlSent(msg)) = t - 1
      /\ t + 1 <= e /\ e + 1 <= Len(m)
      /\ Holds(m, a, msg.method) /\ Holds(m, u, UrlSent(msg)) /\ Holds(m, t, <<"HTTP/1.1">>)
  BY RequestLine
<1>4. /\ Holds(m, u, resource) /\ Len(resource) \in Nat
      /\ msg.parms = <<>> => mark = 0 /\ t - 1 = u + Len(resource)
      /\ msg.parms # <<>> => mark = u + Len(resource)
  BY QueryFound
<1>5. /\ Holds(m, t + 3, headers) /\ Holds(m, e, Eol)
  BY HeadLies DEF HeadHeld, LinesAt
<1>6. e = IF lines = <<>> THEN t + 3 - 2 ELSE t + 3 + Len(headers)
  <2>1. e = IF lines = <<>> THEN LinesAt(msg) - 2 ELSE LinesAt(msg) + Len(headers)
    BY DEF EmptyAt
  <2>2. LinesAt(msg) = t + 3
    BY DEF LinesAt
  <2>. HIDE DEF e, t, lines, headers
  <2>. QED
    BY <1>3, <2>1, <2>2
<1>7. /\ msg.method \in Strings /\ UrlSent(msg) \in Strings /\ headers \in Strings
      /\ headers = Join([i \in DOMAIN lines |-> LineText(lines[i])], Eol)
  BY HeadTyped
<1>8. resource \in Strings
  BY UrlText DEF Text
<1>9. lines \in Seq(SentLines)
  BY LinesSentTyped
<1>. HIDE DEF a, u, t, e, mark, resource, lines, headers, r
<1>10. r.method = msg.method /\ r.url = UrlSent(msg)
  BY <1>2, <1>3, <1>7, StringHeld, SMTT(30)
<1>11. r.protocol = <<"HTTP/1.1">>
  <2>. DEFINE s == <<"HTTP/1.1">>
  <2>1. s \in Strings /\ Len(s) = 1 /\ Holds(m, t, s)
    BY <1>3, Literals
  <2>. HIDE DEF s
  <2>2. String(m, t, t + Len(s)) = s
    BY <1>3, <2>1, StringHeld
  <2>. QED
    BY <1>2, <2>1, <2>2 DEF s
<1>12. r.resource = resource
  <2>1. (IF mark = 0 THEN t - 1 ELSE mark) = u + Len(resource)
    <3>1. CASE msg.parms = <<>>
      BY <1>4, <3>1
    <3>2. CASE msg.parms # <<>>
      BY <1>3, <1>4, <3>2
    <3>. QED
      BY <3>1, <3>2
  <2>2. String(m, u, u + Len(resource)) = resource
    BY <1>3, <1>4, <1>8, StringHeld
  <2>. QED
    BY <1>2, <2>1, <2>2
<1>13. t + 1 + 2 = t + 3 /\ t + 3 \in Nat \ {0}
  BY <1>3
<1>14. lines # <<>> => r.headers = headers
  <2>. DEFINE p == t + 3
  <2>1. p \in Nat \ {0} /\ Holds(m, p, headers) /\ r.headers = String(m, p, e)
    BY <1>2, <1>5, <1>13
  <2>2. lines # <<>> => e = p + Len(headers)
    BY <1>6
  <2>. HIDE DEF p
  <2>3. String(m, p, p + Len(headers)) = headers
    BY <1>7, <2>1, StringHeld
  <2>. QED
    BY <2>1, <2>2, <2>3
<1>15. r.headerList = KeysAndValues(Prefixed(lines))
  <2>. DEFINE p == t + 3
  <2>1. p \in Nat \ {0} /\ r.headerList = parseHeaders(m, p, e)
    BY <1>2, <1>13
  <2>2. e <= Len(m)
    BY <1>3
  <2>3. Holds(m, p, Join([i \in DOMAIN lines |-> LineText(lines[i])], Eol))
    BY <1>5, <1>7
  <2>4. lines = <<>> => e + 2 = p
    BY <1>3, <1>6
  <2>5. lines # <<>> => /\ e = p + Len(Join([i \in DOMAIN lines |-> LineText(lines[i])], Eol))
                        /\ Holds(m, e, Eol)
    BY <1>5, <1>6, <1>7
  <2>. HIDE DEF p
  <2>6. parseHeaders(m, p, e) = KeysAndValues(Prefixed(lines))
    BY <1>3, <1>9, <2>1, <2>2, <2>3, <2>4, <2>5, LinesParsed
  <2>. QED
    BY <2>1, <2>6
<1>16. r.contentLength = IF msg.body # <<>> /\ Prefixed(lines) = lines THEN Len(msg.body) ELSE 0
  BY <1>2, <1>15, LengthParsed DEF lines
<1>17. r.parmList = IF msg.parms = <<>> THEN <<>> ELSE parseParms(m, u + Len(resource) + 1, t)
  <2>1. CASE msg.parms = <<>>
    BY <1>2, <1>4, <2>1
  <2>2. CASE msg.parms # <<>>
    <3>1. mark = u + Len(resource) /\ mark # 0
      BY <1>3, <1>4, <2>2
    <3>. QED
      BY <1>2, <2>2, <3>1
  <2>. QED
    BY <2>1, <2>2
<1>. QED
  BY <1>2, <1>10, <1>11, <1>12, <1>14, <1>15, <1>16, <1>17
     DEF e, u, t, resource, lines, headers, r

-----------------------------------------------------------------------------
(* The segments of a resource.                                             *)

(* A segment and the slash in front of it, in a memory. *)
LEMMA SegmentLies ==
  ASSUME NEW m \in Strings, NEW p \in Nat \ {0}, NEW s \in Text(SegmentEnds),
         Holds(m, p, <<"/">> \o s)
  PROVE  /\ m[p] = "/" /\ p \in 1..Len(m) /\ Len(m) \in Nat /\ Len(s) \in Nat
         /\ Len(<<"/">> \o s) = 1 + Len(s) /\ p + 1 + Len(s) <= Len(m) + 1
         /\ Holds(m, p + 1, s)
         /\ \A j \in (p + 1)..(p + Len(s)) : m[j] # "/"
<1>. DEFINE slash == <<"/">>
<1>1. slash \in Strings /\ Len(slash) = 1 /\ "/" \in Tokens
  BY Literals
<1>2. s \in Strings /\ \A i \in 1..Len(s) : s[i] \notin SegmentEnds
  BY DEF Text
<1>3. Holds(m, p, slash \o s)
  OBVIOUS
<1>. HIDE DEF slash
<1>4. /\ Len(slash \o s) = Len(slash) + Len(s) /\ Len(s) \in Nat /\ Len(m) \in Nat
      /\ Holds(m, p, slash) /\ Holds(m, p + Len(slash), s)
  BY <1>1, <1>2, <1>3, HoldsParts
<1>5. m[p] = "/" /\ p \in 1..Len(m)
  <2>1. Holds(m, p, <<"/">>)
    BY <1>4 DEF slash
  <2>. QED
    BY <1>1, <2>1, HeldByte
<1>. DEFINE q == p + 1
<1>6. q \in Nat \ {0} /\ Holds(m, q, s) /\ q + Len(s) - 1 = p + Len(s)
  BY <1>1, <1>4
<1>. HIDE DEF q
<1>7. \A j \in q..(q + Len(s) - 1) : m[j] \notin SegmentEnds
  BY <1>2, <1>6, HeldBytes
<1>8. "/" \in SegmentEnds
  BY DEF SegmentEnds
<1>9. q + Len(s) <= Len(m) + 1
  BY <1>6 DEF Holds
<1>. QED
  BY <1>1, <1>4, <1>5, <1>6, <1>7, <1>8, <1>9 DEF q, slash

(* parseResource, on the resource of a message, returns its segments.      *)
THEOREM SegmentsParsed ==
  ASSUME NEW msg, Composed(msg)
  PROVE  parseResource(ResourceSent(msg)) = msg.segments
<1>. DEFINE segments == msg.segments
            part(i) == <<"/">> \o segments[i]
            parts == [i \in DOMAIN segments |-> part(i)]
            k == Len(segments)
            m == ResourceSent(msg)
            n == Len(m)
<1>1. segments \in Seq(Text(SegmentEnds)) /\ segments # <<>>
  BY DEF Composed
<1>2. m \in Strings /\ n \in Nat /\ n > 0
  BY UrlText, ResourceNotEmpty DEF Text
<1>3. m = FlattenSeq(parts)
  BY DEF ResourceSent
<1>. HIDE DEF segments, m
<1>4. /\ k \in Nat /\ k > 0 /\ DOMAIN segments = 1..k
      /\ \A i \in 1..k : segments[i] \in Text(SegmentEnds)
  BY <1>1, LenProperties, ElementOfSeq, EmptySeq
<1>5. parts \in Seq(Strings) /\ Len(parts) = k /\ \A i \in 1..k : parts[i] = part(i)
  <2>1. <<"/">> \in Strings
    BY Literals
  <2>2. \A i \in 1..k : part(i) \in Strings
    BY <1>4, <2>1, ConcatProperties DEF Text, Strings
  <2>. HIDE DEF k, part
  <2>3. [i \in 1..k |-> part(i)] \in Seq(Strings) /\ Len([i \in 1..k |-> part(i)]) = k
    BY <1>4, <2>2
  <2>. QED
    BY <1>4, <2>3
<1>6. Holds(m, 1, m)
  BY <1>2 DEF Holds
<1>. HIDE DEF parts, k, n
<1>7. PICK off : Laid(m, 1, parts, off)
  <2>. DEFINE p == 1
  <2>1. p \in Nat \ {0} /\ Holds(m, p, FlattenSeq(parts))
    BY <1>3, <1>6
  <2>. HIDE DEF p
  <2>2. \E off : Laid(m, p, parts, off)
    BY <1>2, <1>5, <2>1, FlattenParts
  <2>. QED
    BY <2>2 DEF p
<1>8. /\ off \in [1..(k + 1) -> Nat \ {0}] /\ off[1] = 1 /\ off[k + 1] = 1 + n
      /\ \A i \in 1..k : Holds(m, off[i], part(i)) /\ off[i + 1] = off[i] + Len(part(i))
  BY <1>3, <1>5, <1>7 DEF Laid, n
<1>9. ASSUME NEW i \in 1..k
      PROVE  /\ off[i] \in 1..n /\ m[off[i]] = "/" /\ Len(segments[i]) \in Nat
             /\ off[i + 1] = off[i] + 1 + Len(segments[i]) /\ off[i + 1] \in 1..(n + 1)
             /\ Holds(m, off[i] + 1, segments[i])
             /\ \A j \in (off[i] + 1)..(off[i + 1] - 1) : m[j] # "/"
  <2>. DEFINE p == off[i]
              s == segments[i]
  <2>1. i \in 1..(k + 1)
    BY <1>4
  <2>2. p \in Nat \ {0} /\ s \in Text(SegmentEnds) /\ Holds(m, p, <<"/">> \o s)
        /\ off[i + 1] = p + Len(<<"/">> \o s)
    BY <1>4, <1>8, <2>1
  <2>. HIDE DEF p, s
  <2>3. /\ m[p] = "/" /\ p \in 1..n /\ Len(s) \in Nat
        /\ Len(<<"/">> \o s) = 1 + Len(s) /\ p + 1 + Len(s) <= n + 1
        /\ Holds(m, p + 1, s)
        /\ \A j \in (p + 1)..(p + Len(s)) : m[j] # "/"
    BY <1>2, <2>2, SegmentLies DEF n
  <2>4. off[i + 1] = p + 1 + Len(s) /\ off[i + 1] - 1 = p + Len(s) /\ off[i + 1] \in 1..(n + 1)
    BY <1>2, <2>2, <2>3
  <2>. QED
    BY <2>3, <2>4 DEF p, s
<1>. HIDE DEF part
<1>. DEFINE end == n + 1
            go(p) == LET slash == memchr(m, "/", p + 1, end)
                     IN IF slash = 0 THEN end ELSE slash
            item(p) == SubSeq(m, p + 1, go(p) - 1)
            entry(f, p) == LET slash == memchr(m, "/", p + 1, end)
                               i     == IF slash = 0 THEN end ELSE slash
                           IN IF p = end THEN <<>>
                              ELSE <<SubSeq(m, p + 1, i - 1)>> \o f[i]
            From(f) == f = [p \in 1..end |-> entry(f, p)]
            list == CHOOSE f : From(f)
            first == memchr(m, "/", 1, end)
<1>10. parseResource(m) = IF first = 0 THEN <<>> ELSE list[first]
  BY DEF parseResource, n
<1>11. \A f, p : entry(f, p) = IF p = end THEN <<>> ELSE <<item(p)>> \o f[go(p)]
  OBVIOUS
<1>12. ASSUME NEW p \in 1..n PROVE go(p) \in (p + 1)..(n + 1)
  <2>. DEFINE from == p + 1
              c == "/"
              found == memchr(m, c, from, end)
  <2>1. from \in Nat \ {0} /\ end \in Int /\ end > Len(m) /\ Len(m) = n /\ m \in Seq(Tokens)
    BY <1>2 DEF n, Strings
  <2>2. go(p) = IF found = 0 THEN end ELSE found
    OBVIOUS
  <2>. HIDE DEF from, c, end
  <2>3. found \in {0} \cup (from..Len(m))
    BY <2>1, MemchrFinds
  <2>. HIDE DEF found, go
  <2>. QED
    BY <1>2, <2>1, <2>2, <2>3 DEF from, end
<1>13. ASSUME NEW i \in 1..k PROVE go(off[i]) = off[i + 1]
  <2>. DEFINE from == off[i] + 1
              c == "/"
              found == memchr(m, c, from, end)
              q == off[i + 1]
  <2>1. from \in Nat \ {0} /\ end \in Int /\ end = n + 1 /\ n = Len(m) /\ q \in 1..(n + 1) /\ from <= q
        /\ \A j \in from..(q - 1) : m[j] # c
    BY <1>2, <1>9 DEF n
  <2>2. go(off[i]) = IF found = 0 THEN end ELSE found
    OBVIOUS
  <2>3. i < k => q \in 1..n /\ m[q] = c
    <3>1. i < k => i + 1 \in 1..k
      BY <1>4
    <3>. QED
      BY <1>9, <3>1
  <2>4. ~(i < k) => q = n + 1
    <3>1. ~(i < k) => i = k
      BY <1>4
    <3>. QED
      BY <1>2, <1>8, <3>1
  <2>. HIDE DEF from, c, end, q
  <2>5. CASE i < k
    <3>1. q \in from..Len(m) /\ q < end /\ m[q] = c /\ q # 0
      BY <2>1, <2>3, <2>5
    <3>2. found = q
      BY <1>2, <2>1, <3>1, MemchrAt
    <3>. QED
      BY <2>2, <3>1, <3>2 DEF q
  <2>6. CASE ~(i < k)
    <3>1. q = end /\ end <= Len(m) + 1
      BY <2>1, <2>4, <2>6
    <3>2. \A j \in from..(end - 1) : m[j] # c
      BY <2>1, <3>1
    <3>3. found = 0
      BY <1>2, <2>1, <3>1, <3>2, MemchrNone
    <3>. QED
      BY <2>2, <3>1, <3>3 DEF q
  <2>. QED
    BY <2>5, <2>6
<1>14. ASSUME NEW i \in 1..k PROVE item(off[i]) = segments[i]
  <2>. DEFINE p == off[i] + 1
              s == segments[i]
              q == off[i + 1]
  <2>1. p \in Nat \ {0} /\ q = p + Len(s) /\ Holds(m, p, s) /\ Len(s) \in Nat
    BY <1>9
  <2>2. s \in Strings
    BY <1>4 DEF Text
  <2>3. item(off[i]) = SubSeq(m, p, q - 1)
    BY <1>13
  <2>. HIDE DEF p, s, q
  <2>. HIDE DEF item, go, entry, From, list, first
  <2>4. String(m, p, p + Len(s)) = s
    BY <1>2, <2>1, <2>2, StringHeld
  <2>5. String(m, p, q) = s /\ ~(q < p)
    BY <2>1, <2>4
  <2>6. SubSeq(m, p, q - 1) = s
    BY <2>5 DEF String
  <2>. QED
    BY <2>3, <2>6 DEF s
<1>15. first = 1
  <2>. DEFINE from == 1
              c == "/"
  <2>1. 1 \in 1..k
    BY <1>4
  <2>2. from \in Nat \ {0} /\ from \in from..Len(m) /\ end \in Int /\ from < end /\ m[from] = c
        /\ \A j \in from..(from - 1) : m[j] # c
    BY <1>2, <1>8, <1>9, <2>1 DEF n
  <2>. HIDE DEF from, c, end
  <2>3. memchr(m, c, from, end) = from
    BY <1>2, <2>2, MemchrAt
  <2>. QED
    BY <2>3 DEF from, c
<1>. HIDE DEF entry, item, go, first
<1>. DEFINE stop == {}
            rec  == [p \in 1..n |-> item(p)]
            next == [p \in 1..n |-> go(p)]
<1>16. Onward(n, stop, next)
  <2>1. \A p \in 1..n : go(p) \in 1..(n + 1) /\ p < go(p)
    BY <1>12
  <2>. QED
    BY <2>1 DEF Onward
<1>17. /\ \A p \in 1..n : rec[p] = item(p) /\ next[p] = go(p)
       /\ \A p : p \notin stop
  OBVIOUS
<1>. HIDE DEF stop, rec, next
<1>18. ASSUME NEW f, NEW p \in 1..(n + 1)
       PROVE  entry(f, p) = IF p = n + 1 \/ p \in stop THEN <<>> ELSE <<rec[p]>> \o f[next[p]]
  <2>1. CASE p = n + 1
    BY <1>11, <2>1
  <2>2. CASE p # n + 1
    <3>1. p \in 1..n
      BY <1>2, <2>2
    <3>. QED
      BY <1>11, <1>17, <2>2, <3>1
  <2>. QED
    BY <2>1, <2>2
<1>19. \A f : From(f) <=> Lists(f, n, stop, rec, next)
  <2>. SUFFICES ASSUME NEW f PROVE From(f) <=> Lists(f, n, stop, rec, next)
    OBVIOUS
  <2>1. From(f) <=> f = [p \in 1..(n + 1) |-> entry(f, p)]
    OBVIOUS
  <2>2. [p \in 1..(n + 1) |-> entry(f, p)] =
          [p \in 1..(n + 1) |-> IF p = n + 1 \/ p \in stop THEN <<>>
                                ELSE <<rec[p]>> \o f[next[p]]]
    BY <1>18
  <2>. QED
    BY <2>1, <2>2 DEF Lists
<1>. HIDE DEF From, end
<1>20. \E f : From(f)
  BY <1>2, <1>16, <1>19, ListComputed
<1>21. Lists(list, n, stop, rec, next)
  BY <1>19, <1>20
<1>. HIDE DEF list
<1>22. ListIs(list, off, k, rec)
  <2>. DEFINE place == off
  <2>1. \A i \in 1..k : off[i] # n + 1 /\ off[i] \notin stop /\ next[off[i]] = off[i + 1]
    BY <1>2, <1>9, <1>13, <1>17
  <2>2. \A i \in 1..(k + 1) : off[i] \in 1..(n + 1)
    <3>1. \A i \in 1..(k + 1) : i = k + 1 \/ i \in 1..k
      BY <1>4
    <3>2. off[k + 1] \in 1..(n + 1)
      BY <1>2, <1>8
    <3>3. \A i \in 1..k : off[i] \in 1..(n + 1)
      BY <1>2, <1>9
    <3>. QED
      BY <3>1, <3>2, <3>3
  <2>3. place \in [1..(k + 1) -> 1..(n + 1)]
    BY <1>8, <2>2
  <2>4. off[k + 1] = n + 1
    BY <1>2, <1>8
  <2>5. Meets(place, k, n, stop, next)
    BY <2>1, <2>3, <2>4 DEF Meets
  <2>. HIDE DEF place
  <2>6. ListIs(list, place, k, rec)
    BY <1>2, <1>4, <1>21, <2>5, Listed
  <2>. QED
    BY <2>6 DEF place
<1>23. list[1] = [i \in 1..k |-> segments[i]]
  <2>1. \A i \in 1..k : rec[off[i]] = segments[i]
    BY <1>9, <1>14, <1>17
  <2>2. list[off[1]] = [i \in 1..k |-> rec[off[i]]]
    BY <1>22 DEF ListIs, Items
  <2>. QED
    BY <1>8, <2>1, <2>2
<1>24. segments = [i \in 1..k |-> segments[i]]
  BY <1>1, <1>4, LenProperties
<1>. QED
  BY <1>10, <1>15, <1>23, <1>24 DEF segments, m

-----------------------------------------------------------------------------
(* The parameters.                                                         *)

(* The value of the digits that a client writes. *)
LEMMA HexValues ==
  /\ hex2bin("0") = 0 /\ hex2bin("2") = 2 /\ hex2bin("3") = 3 /\ hex2bin("5") = 5
  /\ hex2bin("6") = 6 /\ hex2bin("F") = 15 /\ hex2bin("d") = 13
<1>. DEFINE upper == Digits \o <<"A", "B", "C", "D", "E", "F">>
            lower == Digits \o <<"a", "b", "c", "d", "e", "f">>
            value(b) == {i \in 1..16 : \E h \in HexDigits : h[i] = b}
<1>1. /\ \A i \in 1..10 : upper[i] = Digits[i] /\ lower[i] = Digits[i]
      /\ upper[11] = "A" /\ upper[12] = "B" /\ upper[13] = "C"
      /\ upper[14] = "D" /\ upper[15] = "E" /\ upper[16] = "F"
      /\ lower[11] = "a" /\ lower[12] = "b" /\ lower[13] = "c"
      /\ lower[14] = "d" /\ lower[15] = "e" /\ lower[16] = "f"
  <2>. DEFINE big   == <<"A", "B", "C", "D", "E", "F">>
              small == <<"a", "b", "c", "d", "e", "f">>
              S == {Digits[i] : i \in 1..10} \cup {"A", "B", "C", "D", "E", "F"}
                     \cup {"a", "b", "c", "d", "e", "f"}
  <2>1. /\ big \in Seq(S) /\ Len(big) = 6 /\ small \in Seq(S) /\ Len(small) = 6
        /\ big[1] = "A" /\ big[2] = "B" /\ big[3] = "C"
        /\ big[4] = "D" /\ big[5] = "E" /\ big[6] = "F"
        /\ small[1] = "a" /\ small[2] = "b" /\ small[3] = "c"
        /\ small[4] = "d" /\ small[5] = "e" /\ small[6] = "f"
    OBVIOUS
  <2>2. Digits \in Seq(S) /\ Len(Digits) = 10
    <3>1. \A i \in 1..10 : Digits[i] \in S
      OBVIOUS
    <3>. HIDE DEF S
    <3>2. [i \in 1..10 |-> Digits[i]] \in Seq(S)
      BY <3>1
    <3>3. Digits = [i \in 1..10 |-> Digits[i]] /\ Len(Digits) = 10
      BY DEF Digits
    <3>. QED
      BY <3>2, <3>3
  <2>. HIDE DEF big, small, S
  <2>3. /\ \A i \in 1..(Len(Digits) + Len(big)) :
             (Digits \o big)[i] = IF i <= Len(Digits) THEN Digits[i] ELSE big[i - Len(Digits)]
        /\ \A i \in 1..(Len(Digits) + Len(small)) :
             (Digits \o small)[i] = IF i <= Len(Digits) THEN Digits[i] ELSE small[i - Len(Digits)]
    <3>1. Digits \in Seq(S) /\ big \in Seq(S) /\ small \in Seq(S)
      BY <2>1, <2>2
    <3>2. \A i \in 1..(Len(Digits) + Len(big)) :
            (Digits \o big)[i] = IF i <= Len(Digits) THEN Digits[i] ELSE big[i - Len(Digits)]
      BY <3>1, ConcatProperties
    <3>3. \A i \in 1..(Len(Digits) + Len(small)) :
            (Digits \o small)[i] = IF i <= Len(Digits) THEN Digits[i] ELSE small[i - Len(Digits)]
      BY <3>1, ConcatProperties
    <3>. QED
      BY <3>2, <3>3
  <2>4. upper = Digits \o big /\ lower = Digits \o small
    BY DEF big, small
  <2>. DEFINE ten == Len(Digits)
              six == Len(big)
  <2>41. ten = 10 /\ six = 6 /\ Len(small) = six
    BY <2>1, <2>2
  <2>. HIDE DEF upper, lower
  <2>42. /\ \A i \in 1..(ten + six) : upper[i] = IF i <= ten THEN Digits[i] ELSE big[i - ten]
         /\ \A i \in 1..(ten + six) : lower[i] = IF i <= ten THEN Digits[i] ELSE small[i - ten]
    BY <2>3, <2>4, <2>41
  <2>. HIDE DEF ten, six
  <2>5. \A i \in 1..10 : upper[i] = Digits[i] /\ lower[i] = Digits[i]
    <3>1. \A i \in 1..10 : i \in 1..(ten + six) /\ i <= ten
      BY <2>41
    <3>. QED
      BY <2>42, <3>1
  <2>6. ASSUME NEW i \in 1..6 PROVE upper[10 + i] = big[i] /\ lower[10 + i] = small[i]
    <3>. DEFINE j == 10 + i
    <3>1. j \in 1..(ten + six) /\ ~(j <= ten) /\ j - ten = i
      BY <2>41
    <3>. HIDE DEF j
    <3>2. upper[j] = big[j - ten] /\ lower[j] = small[j - ten]
      BY <2>42, <3>1
    <3>. QED
      BY <3>1, <3>2 DEF j
  <2>7. /\ upper[11] = big[1] /\ upper[12] = big[2] /\ upper[13] = big[3]
        /\ upper[14] = big[4] /\ upper[15] = big[5] /\ upper[16] = big[6]
        /\ lower[11] = small[1] /\ lower[12] = small[2] /\ lower[13] = small[3]
        /\ lower[14] = small[4] /\ lower[15] = small[5] /\ lower[16] = small[6]
    BY <2>6
  <2>. QED
    BY <2>1, <2>5, <2>7
<1>2. \A b : value(b) = {i \in 1..16 : upper[i] = b \/ lower[i] = b}
  BY DEF HexDigits
<1>3. \A b : hex2bin(b) = IF value(b) = {} THEN 0 ELSE Min(value(b)) - 1
  BY DEF hex2bin
<1>. HIDE DEF value, upper, lower
<1>4. ASSUME NEW b, NEW v \in 0..15, value(b) = {v + 1} PROVE hex2bin(b) = v
  <2>1. value(b) \subseteq Nat /\ value(b) # {}
    BY <1>4
  <2>2. Min(value(b)) \in value(b)
    BY <2>1, LeastNumber
  <2>3. Min(value(b)) = v + 1
    BY <1>4, <2>2
  <2>. QED
    BY <1>3, <2>1, <2>3
<1>5. /\ upper[1] = "0" /\ upper[2] = "1" /\ upper[3] = "2" /\ upper[4] = "3" /\ upper[5] = "4"
      /\ upper[6] = "5" /\ upper[7] = "6" /\ upper[8] = "7" /\ upper[9] = "8" /\ upper[10] = "9"
      /\ lower[1] = "0" /\ lower[2] = "1" /\ lower[3] = "2" /\ lower[4] = "3" /\ lower[5] = "4"
      /\ lower[6] = "5" /\ lower[7] = "6" /\ lower[8] = "7" /\ lower[9] = "8" /\ lower[10] = "9"
  BY <1>1 DEF Digits
<1>6. \A i \in 1..16 : \/ i = 1 \/ i = 2 \/ i = 3 \/ i = 4 \/ i = 5 \/ i = 6 \/ i = 7 \/ i = 8
                       \/ i = 9 \/ i = 10 \/ i = 11 \/ i = 12 \/ i = 13 \/ i = 14 \/ i = 15
                       \/ i = 16
  OBVIOUS
<1>7. \A i \in 1..16 : (upper[i] = "0" \/ lower[i] = "0") <=> i = 1
  BY <1>1, <1>5, <1>6
<1>8. \A i \in 1..16 : (upper[i] = "2" \/ lower[i] = "2") <=> i = 3
  BY <1>1, <1>5, <1>6
<1>9. \A i \in 1..16 : (upper[i] = "3" \/ lower[i] = "3") <=> i = 4
  BY <1>1, <1>5, <1>6
<1>10. \A i \in 1..16 : (upper[i] = "5" \/ lower[i] = "5") <=> i = 6
  BY <1>1, <1>5, <1>6
<1>11. \A i \in 1..16 : (upper[i] = "6" \/ lower[i] = "6") <=> i = 7
  BY <1>1, <1>5, <1>6
<1>12. \A i \in 1..16 : (upper[i] = "F" \/ lower[i] = "F") <=> i = 16
  BY <1>1, <1>5, <1>6
<1>13. \A i \in 1..16 : (upper[i] = "d" \/ lower[i] = "d") <=> i = 14
  BY <1>1, <1>5, <1>6
<1>14. ASSUME NEW b, NEW v \in 0..15,
              \A i \in 1..16 : (upper[i] = b \/ lower[i] = b) <=> i = v + 1
       PROVE  hex2bin(b) = v
  <2>1. value(b) = {v + 1}
    <3>1. v + 1 \in 1..16
      OBVIOUS
    <3>. QED
      BY <1>2, <1>14, <3>1
  <2>. QED
    BY <1>4, <2>1
<1>15. hex2bin("0") = 0
  <2>1. \A i \in 1..16 : (upper[i] = "0" \/ lower[i] = "0") <=> i = 0 + 1
    BY <1>7
  <2>. QED
    BY <1>14, <2>1
<1>16. hex2bin("2") = 2
  <2>1. \A i \in 1..16 : (upper[i] = "2" \/ lower[i] = "2") <=> i = 2 + 1
    BY <1>8
  <2>. QED
    BY <1>14, <2>1
<1>17. hex2bin("3") = 3
  <2>1. \A i \in 1..16 : (upper[i] = "3" \/ lower[i] = "3") <=> i = 3 + 1
    BY <1>9
  <2>. QED
    BY <1>14, <2>1
<1>18. hex2bin("5") = 5
  <2>1. \A i \in 1..16 : (upper[i] = "5" \/ lower[i] = "5") <=> i = 5 + 1
    BY <1>10
  <2>. QED
    BY <1>14, <2>1
<1>19. hex2bin("6") = 6
  <2>1. \A i \in 1..16 : (upper[i] = "6" \/ lower[i] = "6") <=> i = 6 + 1
    BY <1>11
  <2>. QED
    BY <1>14, <2>1
<1>20. hex2bin("F") = 15
  <2>1. \A i \in 1..16 : (upper[i] = "F" \/ lower[i] = "F") <=> i = 15 + 1
    BY <1>12
  <2>. QED
    BY <1>14, <2>1
<1>21. hex2bin("d") = 13
  <2>1. \A i \in 1..16 : (upper[i] = "d" \/ lower[i] = "d") <=> i = 13 + 1
    BY <1>13
  <2>. QED
    BY <1>14, <2>1
<1>. QED
  BY <1>15, <1>16, <1>17, <1>18, <1>19, <1>20, <1>21

(* What urldecodeBuf appends at a place, and where it goes on. *)
DecodedAt(s, i) == IF s[i] = "%" THEN Ascii[16 * hex2bin(s[i + 1]) + hex2bin(s[i + 2])] ELSE s[i]
DecodedTo(s, i) == IF s[i] = "%" THEN i + 3 ELSE i + 1

LEMMA ByteDecoded ==
  ASSUME NEW m \in Strings, NEW p \in Nat \ {0}, NEW c \in Tokens, c \notin ValueEnds,
         Holds(m, p, EncodedByte(c))
  PROVE  /\ p \in 1..Len(m)
         /\ DecodedAt(m, p) = c
         /\ DecodedTo(m, p) = p + Len(EncodedByte(c))
<1>1. Len(m) \in Nat
  BY LenProperties DEF Strings
<1>2. ASSUME NEW d, NEW e, EncodedByte(c) = <<"%", d, e>>
      PROVE  /\ p \in 1..Len(m) /\ m[p] = "%" /\ m[p + 1] = d /\ m[p + 2] = e
             /\ Len(EncodedByte(c)) = 3
  <2>. DEFINE t == <<"%", d, e>>
  <2>1. Len(t) = 3 /\ t[1] = "%" /\ t[2] = d /\ t[3] = e /\ Holds(m, p, t)
    BY <1>2
  <2>. HIDE DEF t
  <2>2. p + 3 <= Len(m) + 1 /\ \A i \in 1..3 : m[p + i - 1] = t[i]
    BY <2>1 DEF Holds
  <2>3. p + 1 - 1 = p /\ p + 2 - 1 = p + 1 /\ p + 3 - 1 = p + 2
    OBVIOUS
  <2>4. 1 \in 1..3 /\ 2 \in 1..3 /\ 3 \in 1..3
    OBVIOUS
  <2>5. m[p] = t[1] /\ m[p + 1] = t[2] /\ m[p + 2] = t[3]
    BY <2>2, <2>3, <2>4
  <2>. QED
    BY <1>1, <1>2, <2>1, <2>2, <2>5 DEF t
<1>3. CASE c \in DOMAIN Escaped
  <2>1. EncodedByte(c) = Escaped[c] /\ c \in {"SP", "%", "&", "/", "="}
    BY <1>3, Escapes DEF EncodedByte
  <2>2. PICK d, e : /\ EncodedByte(c) = <<"%", d, e>>
                    /\ Ascii[16 * hex2bin(d) + hex2bin(e)] = c
    <3>1. /\ Ascii[32] = "SP" /\ Ascii[37] = "%" /\ Ascii[38] = "&" /\ Ascii[47] = "/"
          /\ Ascii[61] = "="
      BY DEF Ascii
    <3>2. /\ 16 * hex2bin("2") + hex2bin("0") = 32
          /\ 16 * hex2bin("2") + hex2bin("5") = 37
          /\ 16 * hex2bin("2") + hex2bin("6") = 38
          /\ 16 * hex2bin("2") + hex2bin("F") = 47
          /\ 16 * hex2bin("3") + hex2bin("d") = 61
      BY HexValues
    <3>3. CASE c = "SP"
      BY <2>1, <3>1, <3>2, <3>3, Escapes
    <3>4. CASE c = "%"
      BY <2>1, <3>1, <3>2, <3>4, Escapes
    <3>5. CASE c = "&"
      BY <2>1, <3>1, <3>2, <3>5, Escapes
    <3>6. CASE c = "/"
      BY <2>1, <3>1, <3>2, <3>6, Escapes
    <3>7. CASE c = "="
      BY <2>1, <3>1, <3>2, <3>7, Escapes
    <3>. QED
      BY <2>1, <3>3, <3>4, <3>5, <3>6, <3>7
  <2>3. /\ p \in 1..Len(m) /\ m[p] = "%" /\ m[p + 1] = d /\ m[p + 2] = e
        /\ Len(EncodedByte(c)) = 3
    BY <1>2, <2>2
  <2>. QED
    BY <2>2, <2>3 DEF DecodedAt, DecodedTo
<1>4. CASE c \notin DOMAIN Escaped
  <2>1. EncodedByte(c) = <<c>> /\ c # "%"
    BY <1>4, Escapes DEF EncodedByte
  <2>2. Len(<<c>>) = 1 /\ m[p] = c /\ p \in 1..Len(m)
    BY <2>1, HeldByte
  <2>. QED
    BY <2>1, <2>2 DEF DecodedAt, DecodedTo
<1>. QED
  BY <1>3, <1>4

(* urldecodeBuf undoes the encoding of a client: a percent sign with two   *)
(* digits is the byte they stand for, any other byte is itself.            *)
THEOREM DecodesEncoded ==
  ASSUME NEW s \in Text(ValueEnds)
  PROVE  urldecodeBuf(Encoded(s)) = s
<1>. DEFINE m == Encoded(s)
            k == Len(s)
            l == Len(m)
            n == l + 2
            parts == [i \in DOMAIN s |-> EncodedByte(s[i])]
<1>1. /\ s \in Strings /\ k \in Nat /\ DOMAIN s = 1..k
      /\ \A i \in 1..k : s[i] \in Tokens /\ s[i] \notin ValueEnds
  BY LenProperties, ElementOfSeq DEF Text, Strings
<1>2. m = FlattenSeq(parts)
  BY DEF Encoded, EncodedByte
<1>3. m \in Strings /\ l \in Nat
  BY EncodedText, LenProperties DEF Text, Strings
<1>. HIDE DEF m, k
<1>4. parts \in Seq(Strings) /\ Len(parts) = k /\ \A i \in 1..k : parts[i] = EncodedByte(s[i])
  <2>1. \A i \in 1..k : EncodedByte(s[i]) \in Strings
    BY <1>1, EncodedByteText DEF Text
  <2>2. [i \in 1..k |-> EncodedByte(s[i])] \in Seq(Strings)
        /\ Len([i \in 1..k |-> EncodedByte(s[i])]) = k
    BY <1>1, <2>1
  <2>. QED
    BY <1>1, <2>2
<1>5. Holds(m, 1, m)
  BY <1>3 DEF Holds
<1>. HIDE DEF parts
<1>6. PICK off : Laid(m, 1, parts, off)
  <2>. DEFINE p == 1
  <2>1. p \in Nat \ {0} /\ Holds(m, p, FlattenSeq(parts))
    BY <1>2, <1>5
  <2>. HIDE DEF p
  <2>2. \E off : Laid(m, p, parts, off)
    BY <1>3, <1>4, <2>1, FlattenParts
  <2>. QED
    BY <2>2 DEF p
<1>7. /\ off \in [1..(k + 1) -> Nat \ {0}] /\ off[1] = 1 /\ off[k + 1] = 1 + l
      /\ \A i \in 1..k : Holds(m, off[i], EncodedByte(s[i]))
                         /\ off[i + 1] = off[i] + Len(EncodedByte(s[i]))
  BY <1>2, <1>4, <1>6 DEF Laid, l
<1>8. ASSUME NEW i \in 1..k
      PROVE  off[i] \in 1..l /\ DecodedAt(m, off[i]) = s[i] /\ DecodedTo(m, off[i]) = off[i + 1]
  <2>. DEFINE p == off[i]
              c == s[i]
  <2>1. i \in 1..(k + 1)
    BY <1>1
  <2>2. /\ p \in Nat \ {0} /\ c \in Tokens /\ c \notin ValueEnds
        /\ Holds(m, p, EncodedByte(c)) /\ off[i + 1] = p + Len(EncodedByte(c))
    BY <1>1, <1>7, <2>1
  <2>. HIDE DEF p, c
  <2>3. /\ p \in 1..Len(m) /\ DecodedAt(m, p) = c
        /\ DecodedTo(m, p) = p + Len(EncodedByte(c))
    BY <1>3, <2>2, ByteDecoded
  <2>. QED
    BY <2>2, <2>3 DEF p, c, l
<1>. DEFINE entry(f, i) ==
              IF i > Len(m) THEN <<>>
              ELSE IF m[i] = "%"
                   THEN <<Ascii[16 * hex2bin(m[i + 1]) + hex2bin(m[i + 2])]>> \o f[i + 3]
                   ELSE <<m[i]>> \o f[i + 1]
            From(f) == f = [i \in 1..(Len(m) + 3) |-> entry(f, i)]
            out == CHOOSE f : From(f)
<1>9. urldecodeBuf(m) = out[1]
  BY DEF urldecodeBuf
<1>10. \A f, i : entry(f, i) = IF i > l THEN <<>> ELSE <<DecodedAt(m, i)>> \o f[DecodedTo(m, i)]
  BY DEF DecodedAt, DecodedTo
<1>11. \A f : From(f) <=> f = [i \in 1..(n + 1) |-> entry(f, i)]
  <2>1. Len(m) + 3 = n + 1
    BY <1>3
  <2>. QED
    BY <2>1
<1>12. \A i \in 1..l : DecodedTo(m, i) \in (i + 1)..(i + 3)
  BY <1>3 DEF DecodedTo
<1>. HIDE DEF entry, From, l
<1>. DEFINE stop == {l + 1, l + 2}
            rec  == [i \in 1..n |-> DecodedAt(m, i)]
            next == [i \in 1..n |-> IF i > l THEN n + 1 ELSE DecodedTo(m, i)]
<1>13. Onward(n, stop, next)
  <2>1. ASSUME NEW i \in 1..n
        PROVE  /\ (IF i > l THEN n + 1 ELSE DecodedTo(m, i)) \in 1..(n + 1)
               /\ i < IF i > l THEN n + 1 ELSE DecodedTo(m, i)
    <3>1. CASE i > l
      BY <1>3, <3>1
    <3>2. CASE ~(i > l)
      <4>1. i \in 1..l
        BY <1>3, <3>2
      <4>2. DecodedTo(m, i) \in (i + 1)..(i + 3)
        BY <1>12, <4>1
      <4>. QED
        BY <1>3, <3>2, <4>1, <4>2
    <3>. QED
      BY <3>1, <3>2
  <2>. QED
    BY <2>1 DEF Onward
<1>14. /\ \A i \in 1..n : rec[i] = DecodedAt(m, i)
       /\ \A i \in 1..l : next[i] = DecodedTo(m, i) /\ i \notin stop /\ i \in 1..n /\ i # n + 1
       /\ \A i \in 1..(n + 1) : i = n + 1 \/ i \in stop <=> i > l
       /\ l + 1 \in stop /\ n \in Nat
  BY <1>3
<1>. HIDE DEF stop, rec, next
<1>15. ASSUME NEW f, NEW i \in 1..(n + 1)
       PROVE  entry(f, i) = IF i = n + 1 \/ i \in stop THEN <<>> ELSE <<rec[i]>> \o f[next[i]]
  <2>1. CASE i > l
    BY <1>10, <1>14, <2>1
  <2>2. CASE ~(i > l)
    <3>1. i \in 1..l
      BY <1>3, <2>2
    <3>. QED
      BY <1>10, <1>14, <2>2, <3>1
  <2>. QED
    BY <2>1, <2>2
<1>16. \A f : From(f) <=> Lists(f, n, stop, rec, next)
  <2>. SUFFICES ASSUME NEW f PROVE From(f) <=> Lists(f, n, stop, rec, next)
    OBVIOUS
  <2>1. From(f) <=> f = [i \in 1..(n + 1) |-> entry(f, i)]
    BY <1>11
  <2>2. [i \in 1..(n + 1) |-> entry(f, i)] =
          [i \in 1..(n + 1) |-> IF i = n + 1 \/ i \in stop THEN <<>>
                                ELSE <<rec[i]>> \o f[next[i]]]
    BY <1>15
  <2>. QED
    BY <2>1, <2>2 DEF Lists
<1>. HIDE DEF n
<1>17. \E f : From(f)
  BY <1>13, <1>14, <1>16, ListComputed
<1>18. Lists(out, n, stop, rec, next)
  BY <1>16, <1>17
<1>. HIDE DEF out
<1>19. ListIs(out, off, k, rec)
  <2>. DEFINE place == off
  <2>1. \A i \in 1..k : off[i] # n + 1 /\ off[i] \notin stop /\ next[off[i]] = off[i + 1]
    BY <1>8, <1>14
  <2>2. \A i \in 1..(k + 1) : off[i] \in 1..(n + 1)
    <3>1. \A i \in 1..(k + 1) : i = k + 1 \/ i \in 1..k
      BY <1>1
    <3>2. l + 1 \in 1..(n + 1) /\ 1 + l = l + 1
      BY <1>3 DEF n
    <3>3. \A i \in 1..l : i \in 1..(n + 1)
      BY <1>3 DEF n
    <3>. QED
      BY <1>7, <1>8, <3>1, <3>2, <3>3
  <2>3. place \in [1..(k + 1) -> 1..(n + 1)]
    BY <1>7, <2>2
  <2>4. off[k + 1] \in stop
    <3>1. 1 + l = l + 1
      BY <1>3
    <3>. QED
      BY <1>7, <1>14, <3>1
  <2>5. Meets(place, k, n, stop, next)
    BY <2>1, <2>3, <2>4 DEF Meets
  <2>. HIDE DEF place
  <2>6. ListIs(out, place, k, rec)
    BY <1>1, <1>14, <1>18, <2>5, Listed
  <2>. QED
    BY <2>6 DEF place
<1>20. out[1] = [i \in 1..k |-> s[i]]
  <2>1. \A i \in 1..k : rec[off[i]] = s[i]
    BY <1>8, <1>14
  <2>2. out[off[1]] = [i \in 1..k |-> rec[off[i]]]
    BY <1>19 DEF ListIs, Items
  <2>. QED
    BY <1>7, <2>1, <2>2
<1>21. s = [i \in 1..k |-> s[i]]
  BY <1>1, LenProperties DEF Strings
<1>. QED
  BY <1>9, <1>20, <1>21 DEF m

-----------------------------------------------------------------------------
(* parseParms.                                                             *)

(* A parameter with a value, and one without, from p up to q; and what     *)
(* lies at q, when the string of the parameters ends at to.                *)
ParmLies(m, p, name, value, q) ==
  LET split == p + Len(name) IN
  /\ \A i \in p..(q - 1) : m[i] # "&"
  /\ Holds(m, p, name) /\ \A i \in p..(split - 1) : m[i] # "="
  /\ m[split] = "=" /\ split \in p..Len(m)
  /\ Holds(m, split + 1, value) /\ split + 1 + Len(value) = q

BareLies(m, p, q) == p <= q /\ \A i \in p..(q - 1) : m[i] # "&" /\ m[i] # "="

PartEnds(m, q, to) ==
  \/ q < to /\ m[q] = "&"
  \/ m[to] = "NUL" /\ q = to
  \/ m[to] # "NUL" /\ q = to - 1 /\ m[q] # "&"

(* One turn of the loop of parseParms. *)
ParmEnd(m, p, to) ==
  LET amp == memchr(m, "&", p, to)
  IN IF amp # 0 THEN amp ELSE IF m[to] = "NUL" THEN to ELSE to - 1
Equals(m, p, to) == memchr(m, "=", p, ParmEnd(m, p, to))
ParmAt(m, p, to) == [key   |-> String(m, p, Equals(m, p, to)),
                     value |-> String(m, Equals(m, p, to) + 1, ParmEnd(m, p, to))]

(* How a parameter lies in a memory. *)
LEMMA ParmTextLies ==
  ASSUME NEW m \in Strings, NEW p \in Nat \ {0}, NEW parm \in SentParms,
         Holds(m, p, ParmText(parm))
  PROVE  LET q == p + Len(ParmText(parm)) IN
         /\ Len(ParmText(parm)) \in Nat
         /\ IsPair(parm) => ParmLies(m, p, Encoded(parm.name), Encoded(parm.value), q)
         /\ ~IsPair(parm) => BareLies(m, p, q)
<1>. DEFINE s == ParmText(parm)
            name == Encoded(parm.name)
            value == Encoded(parm.value)
            q == p + Len(s)
<1>1. Len(m) \in Nat /\ s \in Strings /\ Len(s) \in Nat
  BY ParmTextTyped, LenProperties DEF Text, Strings
<1>2. /\ name \in Strings /\ Len(name) \in Nat /\ \A i \in 1..Len(name) : name[i] \notin ParmEnds
      /\ IsPair(parm) => /\ value \in Strings /\ Len(value) \in Nat
                         /\ \A i \in 1..Len(value) : value[i] \notin ParmEnds
  <2>1. ASSUME NEW t \in Text(ParmEnds)
        PROVE  t \in Strings /\ Len(t) \in Nat /\ \A i \in 1..Len(t) : t[i] \notin ParmEnds
    BY LenProperties DEF Text, Strings
  <2>2. name \in Text(ParmEnds) /\ (IsPair(parm) => value \in Text(ParmEnds))
    BY ParmKinds, EncodedText
  <2>. HIDE DEF name, value
  <2>. QED
    BY <2>1, <2>2
<1>3. "&" \in ParmEnds /\ "=" \in ParmEnds
  BY DEF ParmEnds
<1>4. ASSUME ~IsPair(parm) PROVE BareLies(m, p, q)
  <2>1. s = name
    BY <1>4 DEF ParmText
  <2>2. Holds(m, p, name)
    BY <2>1
  <2>. HIDE DEF s, name
  <2>3. \A j \in p..(p + Len(name) - 1) : m[j] \notin ParmEnds
    BY <1>2, <2>2, HeldBytes
  <2>4. q = p + Len(name) /\ p <= q
    BY <1>2, <2>1
  <2>. QED
    BY <1>3, <2>3, <2>4 DEF BareLies
<1>5. ASSUME IsPair(parm) PROVE ParmLies(m, p, name, value, q)
  <2>. DEFINE eq == <<"=">>
              front == name \o eq
              split == p + Len(name)
  <2>1. s = front \o value
    BY <1>5 DEF ParmText
  <2>2. Holds(m, p, front \o value)
    BY <2>1
  <2>3. eq \in Strings /\ Len(eq) = 1 /\ "=" \in Tokens
    BY Literals
  <2>. HIDE DEF s, name, value, eq
  <2>4. front \in Strings /\ Len(front) = Len(name) + Len(eq)
        /\ (Holds(m, p, front) <=> Holds(m, p, name) /\ Holds(m, p + Len(name), eq))
    <3>1. name \in Strings /\ eq \in Strings
      BY <1>2, <2>3
    <3>. QED
      BY <3>1, HoldsParts
  <2>. HIDE DEF front
  <2>5. Len(s) = Len(front) + Len(value)
        /\ Holds(m, p, front) /\ Holds(m, p + Len(front), value)
    <3>1. value \in Strings /\ front \in Strings
      BY <1>2, <1>5, <2>4
    <3>2. /\ Len(front \o value) = Len(front) + Len(value)
          /\ Holds(m, p, front \o value) <=> Holds(m, p, front) /\ Holds(m, p + Len(front), value)
      BY <3>1, HoldsParts
    <3>. QED
      BY <2>1, <2>2, <3>2
  <2>6. Holds(m, p, name) /\ Holds(m, split, eq) /\ Holds(m, split + 1, value)
        /\ split \in Nat \ {0} /\ q = split + 1 + Len(value)
    BY <1>2, <1>5, <2>3, <2>4, <2>5
  <2>7. m[split] = "=" /\ split \in p..Len(m)
    <3>1. split >= p
      BY <1>2
    <3>. HIDE DEF split
    <3>2. Holds(m, split, <<"=">>)
      BY <2>6 DEF eq
    <3>3. m[split] = "=" /\ split \in 1..Len(m)
      BY <2>3, <2>6, <3>2, HeldByte
    <3>. QED
      BY <1>1, <3>1, <3>3
  <2>8. \A j \in p..(split - 1) : m[j] \notin ParmEnds
    BY <1>2, <2>6, HeldBytes
  <2>9. \A j \in (split + 1)..(split + 1 + Len(value) - 1) : m[j] \notin ParmEnds
    <3>. DEFINE v == split + 1
    <3>1. v \in Nat \ {0} /\ Holds(m, v, value)
      BY <2>6
    <3>. HIDE DEF v
    <3>2. \A j \in v..(v + Len(value) - 1) : m[j] \notin ParmEnds
      BY <1>2, <1>5, <3>1, HeldBytes
    <3>. QED
      BY <3>2 DEF v
  <2>10. \A j \in p..(q - 1) : m[j] # "&"
    <3>1. \A j \in p..(q - 1) : \/ j \in p..(split - 1) \/ j = split
                                \/ j \in (split + 1)..(split + 1 + Len(value) - 1)
      BY <1>2, <1>5, <2>6
    <3>. HIDE DEF q, split
    <3>. QED
      BY <1>3, <2>7, <2>8, <2>9, <3>1
  <2>11. \A j \in p..(split - 1) : m[j] # "="
    BY <1>3, <2>8
  <2>. QED
    BY <2>6, <2>7, <2>10, <2>11 DEF ParmLies
<1>. QED
  BY <1>1, <1>4, <1>5

(* What a turn does with a part. *)
LEMMA PartTurn ==
  ASSUME NEW m \in Strings, NEW to \in Nat, to <= Len(m), NEW p \in Nat \ {0},
         NEW q \in Nat, p <= q, PartEnds(m, q, to), \A i \in p..(q - 1) : m[i] # "&"
  PROVE  ParmEnd(m, p, to) = q /\ q <= to
<1>1. Len(m) \in Nat
  BY LenProperties DEF Strings
<1>2. q <= to
  BY DEF PartEnds
<1>. DEFINE c == "&"
            amp == memchr(m, c, p, to)
<1>3. ParmEnd(m, p, to) = IF amp # 0 THEN amp ELSE IF m[to] = "NUL" THEN to ELSE to - 1
  BY DEF ParmEnd
<1>4. (q < to /\ m[q] = c) \/ (m[to] = "NUL" /\ q = to) \/ (m[to] # "NUL" /\ q = to - 1 /\ m[q] # c)
  BY DEF PartEnds
<1>5. \A i \in p..(q - 1) : m[i] # c
  OBVIOUS
<1>. HIDE DEF c
<1>6. CASE q < to /\ m[q] = c
  <2>1. q \in p..Len(m) /\ q # 0
    BY <1>1, <1>6
  <2>2. amp = q
    BY <1>5, <1>6, <2>1, MemchrAt
  <2>. QED
    BY <1>2, <1>3, <2>1, <2>2
<1>7. CASE m[to] = "NUL" /\ q = to
  <2>1. to <= Len(m) + 1
    BY <1>1
  <2>2. amp = 0
    BY <1>5, <1>7, <2>1, MemchrNone
  <2>. QED
    BY <1>2, <1>3, <1>7, <2>2
<1>8. CASE m[to] # "NUL" /\ q = to - 1 /\ m[q] # c
  <2>1. to <= Len(m) + 1
    BY <1>1
  <2>2. \A i \in p..(to - 1) : i \in p..(q - 1) \/ i = q
    BY <1>8
  <2>3. \A i \in p..(to - 1) : m[i] # c
    BY <1>5, <1>8, <2>2
  <2>4. amp = 0
    BY <2>1, <2>3, MemchrNone
  <2>. QED
    BY <1>2, <1>3, <1>8, <2>4
<1>. QED
  BY <1>4, <1>6, <1>7, <1>8

LEMMA ParmTurn ==
  ASSUME NEW m \in Strings, NEW to \in Nat, to <= Len(m), NEW p \in Nat \ {0},
         NEW q \in Nat, PartEnds(m, q, to), NEW name \in Strings, NEW value \in Strings,
         ParmLies(m, p, name, value, q)
  PROVE  /\ p < to /\ Equals(m, p, to) # 0 /\ ParmEnd(m, p, to) = q
         /\ ParmAt(m, p, to) = [key |-> name, value |-> value]
<1>. DEFINE split == p + Len(name)
<1>1. Len(name) \in Nat /\ Len(value) \in Nat /\ Len(m) \in Nat
  BY LenProperties DEF Strings
<1>2. /\ \A i \in p..(q - 1) : m[i] # "&"
      /\ Holds(m, p, name) /\ \A i \in p..(split - 1) : m[i] # "="
      /\ m[split] = "=" /\ split \in p..Len(m)
      /\ Holds(m, split + 1, value) /\ split + 1 + Len(value) = q
  BY DEF ParmLies
<1>3. split \in Nat \ {0} /\ split < q /\ p <= q /\ p < q /\ split + 1 \in Nat \ {0}
  BY <1>1, <1>2
<1>4. ParmEnd(m, p, to) = q /\ q <= to
  BY <1>2, <1>3, PartTurn
<1>5. String(m, p, split) = name
  BY <1>2, StringHeld
<1>. DEFINE v == split + 1
<1>6. v \in Nat \ {0} /\ Holds(m, v, value) /\ q = v + Len(value)
  BY <1>2, <1>3
<1>. HIDE DEF v
<1>7. String(m, v, q) = value
  BY <1>6, StringHeld
<1>8. Equals(m, p, to) = split
  <2>. DEFINE c == "="
  <2>1. \A i \in p..(split - 1) : m[i] # c
    BY <1>2
  <2>2. m[split] = c
    BY <1>2
  <2>. HIDE DEF c, split
  <2>3. memchr(m, c, p, q) = split
    BY <1>2, <1>3, <2>1, <2>2, MemchrAt
  <2>. QED
    BY <1>4, <2>3 DEF Equals, c
<1>. HIDE DEF split
<1>. QED
  BY <1>3, <1>4, <1>5, <1>7, <1>8 DEF ParmAt, v

LEMMA BareTurn ==
  ASSUME NEW m \in Strings, NEW to \in Nat, to <= Len(m), NEW p \in Nat \ {0},
         NEW q \in Nat, PartEnds(m, q, to), BareLies(m, p, q)
  PROVE  Equals(m, p, to) = 0 /\ p <= to
<1>1. Len(m) \in Nat
  BY LenProperties DEF Strings
<1>2. p <= q /\ \A i \in p..(q - 1) : m[i] # "&" /\ m[i] # "="
  BY DEF BareLies
<1>3. ParmEnd(m, p, to) = q /\ q <= to
  BY <1>2, PartTurn
<1>4. memchr(m, "=", p, q) = 0
  <2>. DEFINE c == "="
  <2>1. q <= Len(m) + 1 /\ \A i \in p..(q - 1) : m[i] # c
    BY <1>1, <1>2, <1>3
  <2>. HIDE DEF c
  <2>2. memchr(m, c, p, q) = 0
    BY <2>1, MemchrNone
  <2>. QED
    BY <2>2 DEF c
<1>. QED
  BY <1>2, <1>3, <1>4 DEF Equals

(* k parameters with values lie one behind the other, and then the string  *)
(* ends or one without a value follows; what is read of them.              *)
ParmsLie(m, at, to, k, name, value) ==
  /\ at \in [1..(k + 1) -> Nat \ {0}]
  /\ name \in [1..k -> Strings] /\ value \in [1..k -> Strings]
  /\ \A i \in 1..k : /\ PartEnds(m, at[i + 1] - 1, to)
                     /\ ParmLies(m, at[i], name[i], value[i], at[i + 1] - 1)
  /\ \/ at[k + 1] \in {to, to + 1}
     \/ \E q \in Nat : PartEnds(m, q, to) /\ BareLies(m, at[k + 1], q)
ParmsRead(m, at, to, k, name, value) ==
  parseParms(m, at[1], to) = Pairs(k, name, value)

LEMMA ParmsListed ==
  ASSUME NEW m \in Strings, NEW to \in Nat, to <= Len(m), NEW k \in Nat,
         NEW at, NEW name, NEW value, ParmsLie(m, at, to, k, name, value)
  PROVE  ParmsRead(m, at, to, k, name, value)
<1>. DEFINE Stops(p) == p >= to \/ Equals(m, p, to) = 0
            go(p) == ParmEnd(m, p, to) + 1
            item(p) == ParmAt(m, p, to)
            entry(f, begin) ==
              LET amp     == memchr(m, "&", begin, to)
                  parmEnd == IF amp # 0 THEN amp ELSE IF m[to] = "NUL" THEN to ELSE to - 1
                  split   == memchr(m, "=", begin, parmEnd)
              IN IF begin >= to \/ split = 0 THEN <<>>
                 ELSE <<[key |-> String(m, begin, split), value |-> String(m, split + 1, parmEnd)]>>
                        \o f[parmEnd + 1]
            From(f) == f = [begin \in 1..(to + 1) |-> entry(f, begin)]
            list == CHOOSE f : From(f)
<1>1. parseParms(m, at[1], to) = list[at[1]]
  BY DEF parseParms
<1>2. \A f, p : entry(f, p) = IF Stops(p) THEN <<>> ELSE <<item(p)>> \o f[go(p)]
  BY DEF Equals, ParmEnd, ParmAt
<1>3. ASSUME NEW p \in 1..to, ~Stops(p) PROVE go(p) \in (p + 1)..(to + 1)
  <2>. DEFINE c == "&"
              amp == memchr(m, c, p, to)
  <2>1. p < to /\ Len(m) \in Nat /\ p \in Nat \ {0} /\ to \in Int /\ m \in Seq(Tokens)
    BY <1>3, LenProperties DEF Strings
  <2>2. ParmEnd(m, p, to) = IF amp # 0 THEN amp ELSE IF m[to] = "NUL" THEN to ELSE to - 1
    BY DEF ParmEnd
  <2>. HIDE DEF c
  <2>3. amp \in {0} \cup (p..(to - 1))
    BY <2>1, MemchrFinds
  <2>. HIDE DEF amp
  <2>4. CASE amp # 0
    BY <2>1, <2>2, <2>3, <2>4
  <2>5. CASE amp = 0
    <3>1. CASE m[to] = "NUL"
      BY <2>1, <2>2, <2>5, <3>1
    <3>2. CASE m[to] # "NUL"
      BY <2>1, <2>2, <2>5, <3>2
    <3>. QED
      BY <3>1, <3>2
  <2>. QED
    BY <2>4, <2>5
<1>. HIDE DEF entry, Stops, item, go
<1>. DEFINE stop == {p \in 1..(to + 1) : p = to + 1 \/ Stops(p)}
            rec  == [p \in 1..to |-> item(p)]
            next == [p \in 1..to |-> IF Stops(p) THEN to + 1 ELSE go(p)]
<1>4. Onward(to, stop, next)
  BY <1>3 DEF Onward
<1>5. /\ \A p \in 1..to : p \in stop <=> Stops(p)
      /\ \A p \in 1..to : rec[p] = item(p)
      /\ \A p \in 1..to : ~Stops(p) => next[p] = go(p)
      /\ to + 1 \in stop
  OBVIOUS
<1>6. Stops(to + 1) /\ Stops(to)
  BY DEF Stops
<1>. HIDE DEF stop, rec, next
<1>7. ASSUME NEW f, NEW p \in 1..(to + 1)
      PROVE  entry(f, p) = IF p = to + 1 \/ p \in stop THEN <<>> ELSE <<rec[p]>> \o f[next[p]]
  <2>1. CASE p = to + 1
    BY <1>2, <1>6, <2>1
  <2>2. CASE p # to + 1
    <3>1. p \in 1..to
      BY <2>2
    <3>. QED
      BY <1>2, <1>5, <2>2, <3>1
  <2>. QED
    BY <2>1, <2>2
<1>8. \A f : From(f) <=> Lists(f, to, stop, rec, next)
  <2>. SUFFICES ASSUME NEW f PROVE From(f) <=> Lists(f, to, stop, rec, next)
    OBVIOUS
  <2>1. From(f) <=> f = [p \in 1..(to + 1) |-> entry(f, p)]
    OBVIOUS
  <2>2. [p \in 1..(to + 1) |-> entry(f, p)] =
          [p \in 1..(to + 1) |-> IF p = to + 1 \/ p \in stop THEN <<>>
                                 ELSE <<rec[p]>> \o f[next[p]]]
    BY <1>7
  <2>. QED
    BY <2>1, <2>2 DEF Lists
<1>. HIDE DEF From
<1>9. \E f : From(f)
  BY <1>4, <1>8, ListComputed
<1>10. Lists(list, to, stop, rec, next)
  BY <1>8, <1>9
<1>. HIDE DEF list
<1>0. /\ at \in [1..(k + 1) -> Nat \ {0}]
      /\ name \in [1..k -> Strings] /\ value \in [1..k -> Strings]
      /\ \A i \in 1..k : /\ PartEnds(m, at[i + 1] - 1, to)
                         /\ ParmLies(m, at[i], name[i], value[i], at[i + 1] - 1)
      /\ \/ at[k + 1] \in {to, to + 1}
         \/ \E q \in Nat : PartEnds(m, q, to) /\ BareLies(m, at[k + 1], q)
  BY DEF ParmsLie
<1>11. ASSUME NEW i \in 1..k
       PROVE  /\ at[i] \in 1..to /\ ~Stops(at[i]) /\ go(at[i]) = at[i + 1]
              /\ item(at[i]) = [key |-> name[i], value |-> value[i]]
  <2>. DEFINE q == at[i + 1] - 1
              p == at[i]
  <2>1. i \in 1..(k + 1) /\ i + 1 \in 1..(k + 1)
    OBVIOUS
  <2>2. /\ p \in Nat \ {0} /\ at[i + 1] \in Nat \ {0} /\ name[i] \in Strings
        /\ value[i] \in Strings /\ q \in Nat /\ q + 1 = at[i + 1]
    BY <1>0, <2>1, SMTT(30)
  <2>3. PartEnds(m, q, to) /\ ParmLies(m, p, name[i], value[i], q)
    BY <1>0
  <2>. HIDE DEF q, p
  <2>4. /\ p < to /\ Equals(m, p, to) # 0 /\ ParmEnd(m, p, to) = q
        /\ ParmAt(m, p, to) = [key |-> name[i], value |-> value[i]]
    BY <2>2, <2>3, ParmTurn
  <2>5. p \in 1..to
    BY <2>2, <2>4
  <2>. QED
    BY <2>2, <2>4, <2>5 DEF Stops, item, go, p
<1>12. at[k + 1] \in 1..(to + 1) /\ at[k + 1] \in stop
  <2>1. at[k + 1] \in Nat \ {0}
    BY <1>0
  <2>2. CASE at[k + 1] = to + 1
    BY <1>5, <2>2
  <2>3. CASE at[k + 1] = to
    <3>1. to \in 1..to
      BY <2>1, <2>3
    <3>. QED
      BY <1>5, <1>6, <2>3, <3>1
  <2>4. CASE \E q \in Nat : PartEnds(m, q, to) /\ BareLies(m, at[k + 1], q)
    <3>1. Equals(m, at[k + 1], to) = 0 /\ at[k + 1] <= to
      BY <2>1, <2>4, BareTurn
    <3>2. at[k + 1] \in 1..to
      BY <2>1, <3>1
    <3>3. Stops(at[k + 1])
      BY <3>1 DEF Stops
    <3>. QED
      BY <1>5, <3>2, <3>3
  <2>. QED
    BY <1>0, <2>2, <2>3, <2>4
<1>13. \A i \in 1..k : at[i] # to + 1 /\ at[i] \notin stop /\ next[at[i]] = at[i + 1]
  BY <1>5, <1>11
<1>14. at \in [1..(k + 1) -> 1..(to + 1)]
  <2>1. \A i \in 1..(k + 1) : i = k + 1 \/ i \in 1..k
    OBVIOUS
  <2>2. ASSUME NEW i \in 1..(k + 1) PROVE at[i] \in 1..(to + 1)
    <3>1. CASE i = k + 1
      BY <1>12, <3>1
    <3>2. CASE i \in 1..k
      <4>1. at[i] \in 1..to
        BY <1>11, <3>2
      <4>. QED
        BY <4>1
    <3>. QED
      BY <2>1, <3>1, <3>2
  <2>. QED
    BY <1>0, <2>2
<1>15. list[at[1]] = Items(at, k, rec)
  <2>. DEFINE place == at
  <2>1. Meets(place, k, to, stop, next)
    BY <1>12, <1>13, <1>14 DEF Meets
  <2>. HIDE DEF place
  <2>2. ListIs(list, place, k, rec)
    BY <1>10, <2>1, Listed
  <2>. QED
    BY <2>2 DEF place, ListIs
<1>16. \A i \in 1..k : rec[at[i]] = [key |-> name[i], value |-> value[i]]
  BY <1>5, <1>11
<1>. QED
  BY <1>1, <1>15, <1>16 DEF Items, Pairs, ParmsRead

EncodedPairs(parms) ==
  [i \in DOMAIN parms |-> [key |-> Encoded(parms[i].name), value |-> Encoded(parms[i].value)]]

(* Where the string of the parameters from p on ends: with a NUL, or with  *)
(* the blank before the protocol.                                          *)
QueryStops(m, p, msg, to) ==
  LET e == p + Len(QuerySent(msg)) IN
  \/ m[to] = "NUL" /\ to = e
  \/ m[to] # "NUL" /\ to = e + 1 /\ m[e] = "SP" /\ msg.parms # <<>>

(* parseParms returns the parameters as a client encoded them, in order,   *)
(* up to the first without a value, whether a NUL ends their string or the *)
(* blank before the protocol.                                              *)
THEOREM ParmsParsed ==
  ASSUME NEW msg, Composed(msg), NEW m \in Strings, NEW p \in Nat \ {0}, NEW to \in Nat,
         to <= Len(m), Holds(m, p, QuerySent(msg)), QueryStops(m, p, msg, to)
  PROVE  parseParms(m, p, to) = EncodedPairs(Prefixed(msg.parms))
<1>. DEFINE parms == msg.parms
            n == Len(parms)
            parts == [i \in DOMAIN parms |-> ParmText(parms[i])]
            amp == <<"&">>
            e == p + Len(QuerySent(msg))
<1>0. parms \in Seq(SentParms) /\ Len(QuerySent(msg)) \in Nat
  BY UrlText DEF Composed
<1>00. QuerySent(msg) = Join(parts, amp)
  BY DEF QuerySent, ParmText
<1>01. \/ m[to] = "NUL" /\ to = e
       \/ m[to] # "NUL" /\ to = e + 1 /\ m[e] = "SP" /\ parms # <<>>
  BY DEF QueryStops
<1>. HIDE DEF parms
<1>1. n \in Nat /\ DOMAIN parms = 1..n /\ \A i \in 1..n : parms[i] \in SentParms
  BY <1>0, LenProperties, ElementOfSeq
<1>2. \A i \in 1..n : ParmText(parms[i]) \in Strings
  <2>1. ASSUME NEW parm \in SentParms PROVE ParmText(parm) \in Strings
    BY ParmTextTyped DEF Text
  <2>. QED
    BY <1>1, <2>1
<1>3. /\ parts \in Seq(Strings) /\ Len(parts) = n
      /\ \A i \in 1..n : parts[i] = ParmText(parms[i])
  <2>. HIDE DEF n
  <2>1. parts = [i \in 1..n |-> ParmText(parms[i])]
    BY <1>1
  <2>. HIDE DEF parts
  <2>2. [i \in 1..n |-> ParmText(parms[i])] \in Seq(Strings)
    BY <1>1, <1>2
  <2>3. Len([i \in 1..n |-> ParmText(parms[i])]) = n
    BY <1>1
  <2>. QED
    BY <2>1, <2>2, <2>3
<1>4. parms = <<>> <=> n = 0
  BY <1>0, EmptySeq
<1>5. amp \in Strings /\ Len(amp) = 1 /\ "&" \in Tokens
  BY Literals
<1>. HIDE DEF n, parts, amp
<1>6. PICK at : Joined(m, p, parts, amp, at)
  <2>1. Holds(m, p, Join(parts, amp))
    BY <1>00
  <2>. QED
    BY <1>3, <1>5, <2>1, JoinParts
<1>7. /\ at \in [1..(n + 1) -> Nat \ {0}] /\ at[1] = p
      /\ \A i \in 1..n :
           /\ Holds(m, at[i], ParmText(parms[i]))
           /\ at[i + 1] = at[i] + Len(ParmText(parms[i])) + 1
           /\ i < n => Holds(m, at[i] + Len(ParmText(parms[i])), amp)
  BY <1>3, <1>5, <1>6 DEF Joined
<1>8. at[n + 1] = IF n = 0 THEN p ELSE e + 1
  <2>1. CASE n = 0
    BY <1>7, <2>1
  <2>2. CASE n # 0
    <3>1. parts # <<>>
      BY <1>3, <2>2, EmptySeq
    <3>2. at[n + 1] = p + Len(Join(parts, amp)) + 1
      BY <1>3, <1>5, <1>6, <3>1 DEF Joined
    <3>. QED
      BY <1>00, <2>2, <3>2
  <2>. QED
    BY <2>1, <2>2
<1>9. n = 0 => e = p
  <2>1. n = 0 => QuerySent(msg) = <<>>
    <3>1. n = 0 => parts = <<>>
      BY <1>3, EmptySeq
    <3>. QED
      BY <1>00, <1>3, <1>5, <3>1, JoinTyped
  <2>2. Len(<<>>) = 0
    OBVIOUS
  <2>. QED
    BY <2>1, <2>2
<1>10. e \in Nat
  BY <1>0
<1>. HIDE DEF e
<1>11. at[n + 1] \in {to, to + 1}
  <2>1. CASE n = 0
    BY <1>01, <1>4, <1>8, <1>9, <2>1
  <2>2. CASE n # 0
    BY <1>01, <1>8, <1>10, <2>2
  <2>. QED
    BY <2>1, <2>2
<1>12. ASSUME NEW i \in 1..n
       PROVE  /\ at[i] \in Nat \ {0} /\ at[i + 1] \in Nat \ {0} /\ at[i + 1] - 1 \in Nat
              /\ at[i] + Len(ParmText(parms[i])) = at[i + 1] - 1
              /\ Len(ParmText(parms[i])) \in Nat
              /\ at[i] < at[i + 1] /\ at[i + 1] - 1 \in Nat \ {0}
              /\ i < n => Holds(m, at[i + 1] - 1, amp)
  <2>1. i \in 1..(n + 1) /\ i + 1 \in 1..(n + 1)
    BY <1>1
  <2>2. at[i] \in Nat \ {0} /\ at[i + 1] \in Nat \ {0}
    BY <1>7, <2>1
  <2>3. Len(ParmText(parms[i])) \in Nat
    BY <1>2, LenProperties DEF Strings
  <2>4. at[i] + Len(ParmText(parms[i])) = at[i + 1] - 1 /\ at[i] < at[i + 1] /\ at[i + 1] - 1 \in Nat \ {0}
    <3>. DEFINE a == at[i]
                b == at[i + 1]
                l == Len(ParmText(parms[i]))
    <3>1. b = a + l + 1
      BY <1>7
    <3>2. a \in Nat \ {0} /\ b \in Nat \ {0} /\ l \in Nat
      BY <2>2, <2>3
    <3>. HIDE DEF a, b, l
    <3>3. a + l = b - 1 /\ a < b /\ b - 1 \in Nat \ {0}
      BY <3>1, <3>2
    <3>. QED
      BY <3>3 DEF a, b, l
  <2>5. i < n => Holds(m, at[i + 1] - 1, amp)
    BY <1>7, <2>4
  <2>. QED
    BY <2>2, <2>3, <2>4, <2>5
<1>13. ASSUME NEW i \in 1..n PROVE at[i + 1] <= e + 1
  <2>. DEFINE Good == {j \in 0..(n - 1) : at[n + 1 - j] <= e + 1}
              last == n - 1
  <2>1. last \in Nat /\ n # 0
    BY <1>1
  <2>2. 0 \in Good
    <3>1. n + 1 - 0 = n + 1 /\ 0 \in 0..(n - 1)
      BY <1>1
    <3>. QED
      BY <1>8, <1>10, <2>1, <3>1
  <2>3. ASSUME NEW j \in 1..last, j - 1 \in Good PROVE j \in Good
    <3>. DEFINE c == n + 1 - j
    <3>1. c \in 1..n /\ n + 1 - (j - 1) = c + 1 /\ j \in 0..(n - 1)
      BY <1>1
    <3>2. at[c + 1] <= e + 1
      BY <2>3, <3>1
    <3>3. at[c] \in Nat /\ at[c + 1] \in Nat /\ at[c] < at[c + 1]
      BY <1>12, <3>1
    <3>4. at[c] <= e + 1
      BY <1>10, <3>2, <3>3
    <3>. QED
      BY <3>1, <3>4
  <2>4. \A j \in Good : at[n + 1 - j] <= e + 1
    OBVIOUS
  <2>. HIDE DEF Good
  <2>5. \A j \in 0..last : j \in Good
    <3>. HIDE DEF last
    <3>. QED
      BY <2>1, <2>2, <2>3, UpFromZero
  <2>6. n - i \in 0..last /\ n + 1 - (n - i) = i + 1
    BY <1>1
  <2>. QED
    BY <2>4, <2>5, <2>6
<1>14. ASSUME NEW i \in 1..n PROVE PartEnds(m, at[i + 1] - 1, to)
  <2>. DEFINE q == at[i + 1] - 1
  <2>1. q \in Nat /\ q + 1 = at[i + 1]
    BY <1>12
  <2>2. CASE i < n
    <3>1. i + 1 \in 1..n
      BY <1>1, <2>2
    <3>2. at[i + 1] < at[(i + 1) + 1] /\ at[(i + 1) + 1] <= e + 1 /\ at[(i + 1) + 1] \in Nat
      BY <1>12, <1>13, <3>1
    <3>3. q < e
      BY <1>10, <2>1, <3>2
    <3>4. q \in Nat \ {0} /\ Holds(m, q, amp)
      BY <1>12, <2>1, <2>2
    <3>. HIDE DEF q
    <3>5. m[q] = "&"
      <4>1. Holds(m, q, <<"&">>)
        BY <3>4 DEF amp
      <4>. QED
        BY <1>5, <3>4, <4>1, HeldByte
    <3>6. q < to
      BY <1>01, <1>10, <2>1, <3>3
    <3>7. PartEnds(m, q, to)
      BY <3>5, <3>6 DEF PartEnds
    <3>. QED
      BY <3>7 DEF q
  <2>3. CASE ~(i < n)
    <3>1. i = n /\ n # 0
      BY <1>1, <2>3
    <3>2. q = e
      BY <1>8, <1>10, <3>1
    <3>. HIDE DEF q
    <3>3. PartEnds(m, q, to)
      <4>1. CASE m[to] = "NUL" /\ to = e
        BY <3>2, <4>1 DEF PartEnds
      <4>2. CASE m[to] # "NUL" /\ to = e + 1 /\ m[e] = "SP"
        <5>1. q = to - 1 /\ m[q] # "&"
          BY <1>10, <3>2, <4>2
        <5>. QED
          BY <4>2, <5>1 DEF PartEnds
      <4>. QED
        BY <1>01, <4>1, <4>2
    <3>. QED
      BY <3>3 DEF q
  <2>. QED
    BY <2>2, <2>3
<1>15. ASSUME NEW i \in 1..n
       PROVE  /\ IsPair(parms[i]) => ParmLies(m, at[i], Encoded(parms[i].name),
                                              Encoded(parms[i].value), at[i + 1] - 1)
              /\ ~IsPair(parms[i]) => BareLies(m, at[i], at[i + 1] - 1)
  <2>. DEFINE parm == parms[i]
              a == at[i]
              b == at[i + 1] - 1
  <2>1. parm \in SentParms /\ a \in Nat \ {0} /\ Holds(m, a, ParmText(parm))
        /\ a + Len(ParmText(parm)) = b
    BY <1>1, <1>7, <1>12
  <2>. HIDE DEF parm, a, b
  <2>2. /\ IsPair(parm) => ParmLies(m, a, Encoded(parm.name), Encoded(parm.value), b)
        /\ ~IsPair(parm) => BareLies(m, a, b)
    BY <2>1, ParmTextLies
  <2>. QED
    BY <2>2 DEF parm, a, b
<1>16. PICK k : /\ Leading(parms, k)
                /\ Prefixed(parms) \in Seq(SentParms) /\ Len(Prefixed(parms)) = k
                /\ \A i \in 1..k : Prefixed(parms)[i] = parms[i]
  BY <1>0, PrefixedLeads
<1>17. /\ k \in Nat /\ k <= n /\ \A i \in 1..k : i \in 1..n /\ IsPair(parms[i])
       /\ k < n => ~IsPair(parms[k + 1])
  BY <1>1, <1>16 DEF Leading, n
<1>. DEFINE place == [i \in 1..(k + 1) |-> at[i]]
            name  == [i \in 1..k |-> Encoded(parms[i].name)]
            value == [i \in 1..k |-> Encoded(parms[i].value)]
<1>18. /\ place \in [1..(k + 1) -> Nat \ {0}] /\ place[1] = p
       /\ \A i \in 1..(k + 1) : place[i] = at[i]
  <2>1. \A i \in 1..(k + 1) : i \in 1..(n + 1)
    BY <1>1, <1>17
  <2>2. \A i \in 1..(k + 1) : at[i] \in Nat \ {0}
    BY <1>7, <2>1
  <2>3. 1 \in 1..(k + 1)
    BY <1>17
  <2>4. \A i \in 1..(k + 1) : place[i] = at[i]
    OBVIOUS
  <2>5. place \in [1..(k + 1) -> Nat \ {0}]
    BY <2>2
  <2>. HIDE DEF place
  <2>. QED
    BY <1>7, <2>3, <2>4, <2>5
<1>19. /\ name \in [1..k -> Strings] /\ value \in [1..k -> Strings]
       /\ \A i \in 1..k : /\ name[i] = Encoded(parms[i].name)
                          /\ value[i] = Encoded(parms[i].value)
  <2>1. ASSUME NEW parm \in SentParms, IsPair(parm)
        PROVE  Encoded(parm.name) \in Strings /\ Encoded(parm.value) \in Strings
    <3>1. parm.name \in Text(ValueEnds) /\ parm.value \in Text(ValueEnds)
      BY <2>1, ParmKinds
    <3>2. Encoded(parm.name) \in Text(ParmEnds) /\ Encoded(parm.value) \in Text(ParmEnds)
      BY <3>1, EncodedText
    <3>. QED
      BY <3>2 DEF Text
  <2>2. \A i \in 1..k : Encoded(parms[i].name) \in Strings /\ Encoded(parms[i].value) \in Strings
    BY <1>1, <1>17, <2>1
  <2>. QED
    BY <2>2
<1>. HIDE DEF place, name, value
<1>20. ASSUME NEW i \in 1..k
       PROVE  /\ PartEnds(m, place[i + 1] - 1, to)
              /\ ParmLies(m, place[i], name[i], value[i], place[i + 1] - 1)
  <2>1. i \in 1..n /\ i \in 1..(k + 1) /\ i + 1 \in 1..(k + 1)
    BY <1>17
  <2>2. place[i] = at[i] /\ place[i + 1] = at[i + 1]
    BY <1>18, <2>1
  <2>3. name[i] = Encoded(parms[i].name) /\ value[i] = Encoded(parms[i].value)
    BY <1>19
  <2>4. ParmLies(m, at[i], Encoded(parms[i].name), Encoded(parms[i].value), at[i + 1] - 1)
    BY <1>15, <1>17, <2>1
  <2>5. PartEnds(m, at[i + 1] - 1, to)
    BY <1>14, <2>1
  <2>. QED
    BY <2>2, <2>3, <2>4, <2>5
<1>21. \/ place[k + 1] \in {to, to + 1}
       \/ \E q \in Nat : PartEnds(m, q, to) /\ BareLies(m, place[k + 1], q)
  <2>1. place[k + 1] = at[k + 1]
    BY <1>17, <1>18
  <2>2. CASE k = n
    BY <1>11, <2>1, <2>2
  <2>3. CASE k # n
    <3>1. k + 1 \in 1..n /\ ~IsPair(parms[k + 1])
      BY <1>1, <1>17, <2>3
    <3>. DEFINE q == at[(k + 1) + 1] - 1
    <3>2. BareLies(m, at[k + 1], q) /\ PartEnds(m, q, to) /\ q \in Nat
      BY <1>12, <1>14, <1>15, <3>1
    <3>. QED
      BY <2>1, <3>2
  <2>. QED
    BY <2>2, <2>3
<1>22. parseParms(m, place[1], to) = Pairs(k, name, value)
  <2>1. ParmsLie(m, place, to, k, name, value)
    BY <1>18, <1>19, <1>20, <1>21 DEF ParmsLie
  <2>2. k \in Nat
    BY <1>17
  <2>3. ParmsRead(m, place, to, k, name, value)
    BY <2>1, <2>2, ParmsListed
  <2>. QED
    BY <2>3 DEF ParmsRead
<1>23. DOMAIN Prefixed(parms) = 1..k
  BY <1>16, LenProperties
<1>24. EncodedPairs(Prefixed(parms)) =
         [i \in 1..k |-> [key |-> Encoded(Prefixed(parms)[i].name),
                          value |-> Encoded(Prefixed(parms)[i].value)]]
  BY <1>23 DEF EncodedPairs
<1>25. [i \in 1..k |-> [key |-> Encoded(Prefixed(parms)[i].name),
                        value |-> Encoded(Prefixed(parms)[i].value)]] = Pairs(k, name, value)
  <2>1. \A i \in 1..k : /\ Encoded(Prefixed(parms)[i].name) = name[i]
                        /\ Encoded(Prefixed(parms)[i].value) = value[i]
    BY <1>16, <1>19
  <2>. QED
    BY <2>1 DEF Pairs
<1>26. EncodedPairs(Prefixed(parms)) = parseParms(m, p, to)
  BY <1>18, <1>22, <1>24, <1>25
<1>. QED
  BY <1>26 DEF parms

(* The parameters decode to what was sent. *)
DecodedPairs(list) ==
  [i \in DOMAIN list |-> [name |-> urldecodeBuf(list[i].key),
                          value |-> urldecodeBuf(list[i].value)]]

LEMMA PairsDecoded ==
  ASSUME NEW parms \in Seq(SentParms)
  PROVE  DecodedPairs(EncodedPairs(Prefixed(parms))) = Prefixed(parms)
<1>1. PICK k : /\ Leading(parms, k)
               /\ Prefixed(parms) \in Seq(SentParms) /\ Len(Prefixed(parms)) = k
               /\ \A i \in 1..k : Prefixed(parms)[i] = parms[i]
  BY PrefixedLeads
<1>. DEFINE list == Prefixed(parms)
<1>2. k \in Nat /\ list \in Seq(SentParms) /\ DOMAIN list = 1..k
      /\ \A i \in 1..k : list[i] \in SentParms /\ IsPair(list[i])
  <2>1. k \in Nat /\ \A i \in 1..k : IsPair(parms[i])
    BY <1>1, LenProperties DEF Leading
  <2>2. DOMAIN list = 1..k
    BY <1>1, LenProperties
  <2>3. \A i \in 1..k : list[i] \in SentParms
    BY <1>1, ElementOfSeq
  <2>. QED
    BY <1>1, <2>1, <2>2, <2>3
<1>. HIDE DEF list
<1>3. ASSUME NEW parm \in SentParms, IsPair(parm)
      PROVE  [name |-> urldecodeBuf(Encoded(parm.name)),
              value |-> urldecodeBuf(Encoded(parm.value))] = parm
  <2>1. urldecodeBuf(Encoded(parm.name)) = parm.name
        /\ urldecodeBuf(Encoded(parm.value)) = parm.value
    BY <1>3, ParmKinds, DecodesEncoded
  <2>2. parm = [name |-> parm.name, value |-> parm.value]
    <3>. DEFINE text == Text({"CR", "LF", "NUL"})
    <3>1. parm \in [name : text, value : text] \/ parm \in [name : text]
      BY DEF SentParms
    <3>. HIDE DEF text
    <3>2. CASE parm \in [name : text, value : text]
      BY <3>2
    <3>3. CASE parm \in [name : text]
      <4>1. DOMAIN parm = {"name"}
        BY <3>3
      <4>. QED
        BY <1>3, <4>1 DEF IsPair
    <3>. QED
      BY <3>1, <3>2, <3>3
  <2>. QED
    BY <2>1, <2>2
<1>4. EncodedPairs(list) = [i \in 1..k |-> [key |-> Encoded(list[i].name),
                                            value |-> Encoded(list[i].value)]]
  BY <1>2 DEF EncodedPairs
<1>5. DecodedPairs(EncodedPairs(list)) =
        [i \in 1..k |-> [name |-> urldecodeBuf(Encoded(list[i].name)),
                         value |-> urldecodeBuf(Encoded(list[i].value))]]
  BY <1>4 DEF DecodedPairs
<1>6. [i \in 1..k |-> [name |-> urldecodeBuf(Encoded(list[i].name)),
                       value |-> urldecodeBuf(Encoded(list[i].value))]] = [i \in 1..k |-> list[i]]
  BY <1>2, <1>3
<1>7. list = [i \in 1..k |-> list[i]]
  BY <1>2, LenProperties
<1>. QED
  BY <1>5, <1>6, <1>7 DEF list

LEMMA PrefixedEmpty == Prefixed(<<>>) = <<>>
<1>. DEFINE list == <<>>
<1>1. list \in Seq({}) /\ Len(list) = 0
  BY EmptySeq
<1>. HIDE DEF list
<1>2. PICK k : Leading(list, k) /\ Prefixed(list) \in Seq({}) /\ Len(Prefixed(list)) = k
  BY <1>1, PrefixedLeads
<1>3. k = 0
  BY <1>1, <1>2 DEF Leading
<1>4. Prefixed(list) = <<>>
  BY <1>2, <1>3, EmptySeq
<1>. QED
  BY <1>4 DEF list

(* The parameters that lookForHeaders finds in a head that has come as a   *)
(* whole, and those that fcgiReceiveHeader finds.                          *)
LEMMA HeadParms ==
  ASSUME NEW msg, Composed(msg), NEW m \in Strings, Holds(m, 1, HeadSent(msg)),
         NEW n \in Nat, EmptyAt(msg) <= n
  PROVE  Parsed(m, n, EmptyAt(msg)).parmList = EncodedPairs(Prefixed(msg.parms))
<1>. DEFINE list == Parsed(m, n, EmptyAt(msg)).parmList
            t == ProtocolAt(msg)
            p == UrlAt(msg) + Len(ResourceSent(msg)) + 1
<1>1. list = IF msg.parms = <<>> THEN <<>> ELSE parseParms(m, p, t)
  BY HeadParsed
<1>. HIDE DEF list
<1>3. CASE msg.parms = <<>>
  <2>1. EncodedPairs(<<>>) = <<>>
    BY DEF EncodedPairs
  <2>. QED
    BY <1>1, <1>3, <2>1, PrefixedEmpty DEF list
<1>4. CASE msg.parms # <<>>
  <2>1. /\ UrlAt(msg) \in Nat /\ t \in Nat /\ EmptyAt(msg) \in Nat /\ Len(m) \in Nat
        /\ t + 1 <= EmptyAt(msg) /\ EmptyAt(msg) + 1 <= Len(m)
        /\ m[t - 1] = "SP" /\ m[t] = "HTTP/1.1"
    BY RequestLine
  <2>2. /\ Len(ResourceSent(msg)) \in Nat /\ Holds(m, p, QuerySent(msg))
        /\ t = p + Len(QuerySent(msg)) + 1
    BY <1>4, QueryFound
  <2>3. Len(QuerySent(msg)) \in Nat
    BY UrlText
  <2>4. t <= Len(m) /\ p \in Nat \ {0} /\ t - 1 = p + Len(QuerySent(msg))
    <3>. DEFINE u == UrlAt(msg)
                r == Len(ResourceSent(msg))
                q == Len(QuerySent(msg))
                e == EmptyAt(msg)
                l == Len(m)
    <3>1. /\ u \in Nat /\ t \in Nat /\ e \in Nat /\ l \in Nat /\ r \in Nat /\ q \in Nat
          /\ t + 1 <= e /\ e + 1 <= l /\ t = u + r + 1 + q + 1
      BY <2>1, <2>2, <2>3
    <3>. HIDE DEF u, r, q, e, l, t
    <3>2. t <= l /\ u + r + 1 \in Nat \ {0} /\ t - 1 = u + r + 1 + q
      BY <3>1
    <3>. QED
      BY <3>2 DEF u, r, q, l
  <2>5. QueryStops(m, p, msg, t)
    BY <1>4, <2>1, <2>2, <2>4 DEF QueryStops
  <2>. HIDE DEF p, t
  <2>6. parseParms(m, p, t) = EncodedPairs(Prefixed(msg.parms))
    BY <2>1, <2>2, <2>4, <2>5, ParmsParsed
  <2>. QED
    BY <1>1, <1>4, <2>6 DEF list
<1>. QED
  BY <1>3, <1>4

LEMMA QueryParms ==
  ASSUME NEW msg, Composed(msg)
  PROVE  LET query == QuerySent(msg) IN
         parseParms(query \o <<"NUL">>, 1, Len(query) + 1) = EncodedPairs(Prefixed(msg.parms))
<1>. DEFINE query == QuerySent(msg)
            nul == <<"NUL">>
            m == query \o nul
            p == 1
            to == Len(query) + 1
<1>1. query \in Strings /\ Len(query) \in Nat
  BY UrlText DEF Text
<1>2. nul \in Strings /\ Len(nul) = 1 /\ nul[1] = "NUL"
  <2>1. "NUL" \in Tokens
    BY DEF Tokens
  <2>. QED
    BY <2>1, Literals
<1>. HIDE DEF query, nul
<1>3. /\ m \in Strings /\ Len(m) = Len(query) + Len(nul)
      /\ \A i \in 1..(Len(query) + Len(nul)) :
           m[i] = IF i <= Len(query) THEN query[i] ELSE nul[i - Len(query)]
  BY <1>1, <1>2, ConcatProperties DEF Strings
<1>. HIDE DEF m
<1>4. to \in Nat /\ to <= Len(m) /\ p \in Nat \ {0} /\ to = p + Len(query)
  BY <1>1, <1>2, <1>3
<1>5. m[to] = "NUL"
  <2>1. to \in 1..(Len(query) + Len(nul)) /\ ~(to <= Len(query)) /\ to - Len(query) = 1
    BY <1>1, <1>2
  <2>. QED
    BY <1>2, <1>3, <2>1
<1>6. Holds(m, p, query)
  <2>1. \A i \in 1..Len(query) : i \in 1..(Len(query) + Len(nul)) /\ p + i - 1 = i
    BY <1>1, <1>2
  <2>2. \A i \in 1..Len(query) : m[p + i - 1] = query[i]
    BY <1>3, <2>1
  <2>3. p + Len(query) <= Len(m) + 1
    BY <1>1, <1>2, <1>3
  <2>. QED
    BY <2>2, <2>3 DEF Holds
<1>7. QueryStops(m, p, msg, to)
  BY <1>4, <1>5 DEF QueryStops, query
<1>. HIDE DEF p, to
<1>8. parseParms(m, p, to) = EncodedPairs(Prefixed(msg.parms))
  BY <1>3, <1>4, <1>6, <1>7, ParmsParsed DEF query
<1>. QED
  BY <1>8 DEF m, p, to, query, nul

-----------------------------------------------------------------------------
(* Lists that leave some items out.  At i, unless it stops there, a loop   *)
(* appends rec[i] or passes over the item, and goes on at i + 1.           *)

Sieves(f, n, stop, skip, rec) ==
  f = [i \in 1..(n + 1) |-> IF i = n + 1 \/ i \in stop THEN <<>>
                            ELSE IF i \in skip THEN f[i + 1] ELSE <<rec[i]>> \o f[i + 1]]

(* There is such a function. *)
LEMMA SieveComputed ==
  ASSUME NEW n \in Nat, NEW stop, NEW skip, NEW rec
  PROVE  \E f : Sieves(f, n, stop, skip, rec)
<1>. DEFINE T == {rec[i] : i \in 1..n}
            S == Seq(T)
            to == [i \in 1..n |-> i + 1]
            put(i, v) == IF i \in stop THEN <<>> ELSE IF i \in skip THEN v ELSE <<rec[i]>> \o v
            step == [i \in 1..n |-> [v \in S |-> put(i, v)]]
            base == <<>>
<1>1. base \in S
  BY EmptySeq
<1>2. ASSUME NEW i \in 1..n, NEW v \in S PROVE put(i, v) \in S
  <2>1. rec[i] \in T
    OBVIOUS
  <2>. HIDE DEF T
  <2>2. <<rec[i]>> \in Seq(T)
    BY <2>1
  <2>3. <<rec[i]>> \o v \in Seq(T)
    BY <2>2, ConcatProperties
  <2>4. <<>> \in Seq(T)
    BY EmptySeq
  <2>. QED
    BY <2>3, <2>4
<1>. HIDE DEF S, put
<1>3. step \in [1..n -> [S -> S]]
  BY <1>2
<1>4. \A i \in 1..n : \A v \in S : step[i][v] = put(i, v)
  OBVIOUS
<1>5. to \in [1..n -> 1..(n + 1)] /\ \A i \in 1..n : i < to[i] /\ to[i] = i + 1
  OBVIOUS
<1>. HIDE DEF step, to, base
<1>6. PICK f \in [1..(n + 1) -> S] : ComputedFromTheEnd(f, n, to, base, step)
  BY <1>1, <1>3, <1>5, FunctionFromTheEnd
<1>7. f[n + 1] = base /\ \A i \in 1..n : f[i] = step[i][f[to[i]]]
  BY <1>6 DEF ComputedFromTheEnd
<1>. DEFINE value(i) == IF i = n + 1 \/ i \in stop THEN <<>>
                        ELSE IF i \in skip THEN f[i + 1] ELSE <<rec[i]>> \o f[i + 1]
<1>8. ASSUME NEW i \in 1..(n + 1) PROVE f[i] = value(i)
  <2>1. CASE i = n + 1
    BY <1>7, <2>1 DEF base
  <2>2. CASE i # n + 1
    <3>1. i \in 1..n
      BY <2>2
    <3>2. to[i] = i + 1 /\ f[to[i]] \in S
      BY <1>5, <1>6, <3>1
    <3>3. f[i] = put(i, f[to[i]])
      BY <1>4, <1>7, <3>1, <3>2
    <3>. QED
      BY <2>2, <3>2, <3>3 DEF put
  <2>. QED
    BY <2>1, <2>2
<1>. HIDE DEF value
<1>9. f = [i \in 1..(n + 1) |-> value(i)]
  BY <1>6, <1>8
<1>10. Sieves(f, n, stop, skip, rec)
  BY <1>9 DEF Sieves, value
<1>. QED
  BY <1>10

(* Of the elements of s in M, v is the first; and none is in M. *)
FirstIn(s, M, v) == \E k \in 1..Len(s) : /\ s[k] = v /\ v \in M
                                         /\ \A l \in 1..(k - 1) : s[l] \notin M
NoneIn(s, M) == \A k \in 1..Len(s) : s[k] \notin M

(* An element in front of the others. *)
LEMMA Prepended ==
  ASSUME NEW T, NEW s \in Seq(T), NEW v \in T, NEW M
  PROVE  /\ <<v>> \o s \in Seq(T)
         /\ v \in M => FirstIn(<<v>> \o s, M, v)
         /\ v \notin M => /\ \A w : FirstIn(s, M, w) => FirstIn(<<v>> \o s, M, w)
                          /\ NoneIn(s, M) => NoneIn(<<v>> \o s, M)
<1>. DEFINE e == <<v>>
            t == e \o s
<1>1. e \in Seq(T) /\ Len(e) = 1 /\ e[1] = v
  OBVIOUS
<1>. HIDE DEF e
<1>2. /\ t \in Seq(T) /\ Len(t) = Len(e) + Len(s)
      /\ \A i \in 1..(Len(e) + Len(s)) : t[i] = IF i <= Len(e) THEN e[i] ELSE s[i - Len(e)]
  BY <1>1, ConcatProperties
<1>3. Len(s) \in Nat
  BY LenProperties
<1>. HIDE DEF t
<1>4. Len(t) = Len(s) + 1
  BY <1>1, <1>2, <1>3
<1>5. t[1] = v
  BY <1>1, <1>2, <1>3
<1>6. ASSUME NEW k \in 1..Len(s) PROVE t[k + 1] = s[k] /\ k + 1 \in 1..Len(t)
  <2>1. k + 1 \in 1..(Len(e) + Len(s)) /\ ~(k + 1 <= Len(e)) /\ k + 1 - Len(e) = k
    BY <1>1, <1>3
  <2>. QED
    BY <1>2, <2>1
<1>7. ASSUME NEW k \in 1..Len(t), k # 1 PROVE k - 1 \in 1..Len(s) /\ (k - 1) + 1 = k
  BY <1>3, <1>4, <1>7
<1>8. v \in M => FirstIn(t, M, v)
  <2>1. 1 \in 1..Len(t) /\ \A l \in 1..(1 - 1) : t[l] \notin M
    BY <1>3, <1>4
  <2>. QED
    BY <1>5, <2>1 DEF FirstIn
<1>9. ASSUME v \notin M, NEW w, FirstIn(s, M, w) PROVE FirstIn(t, M, w)
  <2>1. PICK k \in 1..Len(s) : s[k] = w /\ w \in M /\ \A l \in 1..(k - 1) : s[l] \notin M
    BY <1>9 DEF FirstIn
  <2>2. t[k + 1] = w /\ k + 1 \in 1..Len(t)
    BY <1>6, <2>1
  <2>3. ASSUME NEW l \in 1..((k + 1) - 1) PROVE t[l] \notin M
    <3>1. CASE l = 1
      BY <1>5, <1>9, <3>1
    <3>2. CASE l # 1
      <4>1. l - 1 \in 1..(k - 1) /\ l - 1 \in 1..Len(s) /\ (l - 1) + 1 = l
        BY <1>3, <3>2
      <4>2. t[(l - 1) + 1] = s[l - 1]
        BY <1>6, <4>1
      <4>. QED
        BY <2>1, <4>1, <4>2
    <3>. QED
      BY <3>1, <3>2
  <2>. QED
    BY <2>1, <2>2, <2>3 DEF FirstIn
<1>10. ASSUME v \notin M, NoneIn(s, M) PROVE NoneIn(t, M)
  <2>1. ASSUME NEW k \in 1..Len(t) PROVE t[k] \notin M
    <3>1. CASE k = 1
      BY <1>5, <1>10, <3>1
    <3>2. CASE k # 1
      <4>1. t[(k - 1) + 1] = s[k - 1] /\ k - 1 \in 1..Len(s) /\ (k - 1) + 1 = k
        BY <1>6, <1>7, <3>2
      <4>. QED
        BY <1>10, <4>1 DEF NoneIn
    <3>. QED
      BY <3>1, <3>2
  <2>. QED
    BY <2>1 DEF NoneIn
<1>. QED
  BY <1>2, <1>8, <1>9, <1>10 DEF t, e

(* The items that are kept and in M. *)
KeptIn(M, n, skip, rec) == {i \in 1..n : i \notin skip /\ rec[i] \in M}

(* The list has the kept items, and the first of them in M is its first. *)
SievedWell(list, kept, rec, M) ==
  /\ kept = {} => NoneIn(list, M)
  /\ \A i \in kept : (\A l \in 1..(i - 1) : l \notin kept) => FirstIn(list, M, rec[i])

(* Of the items that fit, the first that is kept is the first in the list. *)
LEMMA SieveFirst ==
  ASSUME NEW n \in Nat, NEW skip, NEW rec, NEW f, Sieves(f, n, {}, skip, rec),
         NEW T, \A i \in 1..n : i \notin skip => rec[i] \in T, NEW M
  PROVE  f[1] \in Seq(T) /\ SievedWell(f[1], KeptIn(M, n, skip, rec), rec, M)
<1>. DEFINE kept == KeptIn(M, n, skip, rec)
<1>8. \A i : i \in kept <=> i \in 1..n /\ i \notin skip /\ rec[i] \in M
  BY DEF KeptIn
<1>. HIDE DEF kept
<1>1. \A i \in 1..(n + 1) :
        f[i] = IF i = n + 1 THEN <<>> ELSE IF i \in skip THEN f[i + 1] ELSE <<rec[i]>> \o f[i + 1]
  BY DEF Sieves
<1>. DEFINE Fine(j) == /\ f[j] \in Seq(T)
                       /\ (\A i \in j..n : i \notin kept) => NoneIn(f[j], M)
                       /\ \A i \in j..n : i \in kept /\ (\A l \in j..(i - 1) : l \notin kept)
                                            => FirstIn(f[j], M, rec[i])
            Good == {j \in 1..(n + 1) : Fine(j)}
            next == [i \in 1..n |-> i + 1]
<1>2. n + 1 \in Good
  <2>0. n + 1 \in 1..(n + 1)
    OBVIOUS
  <2>1. f[n + 1] = <<>> /\ n + 1 \in 1..(n + 1)
    <3>. HIDE DEF Fine
    <3>. QED
      BY <1>1, <2>0
  <2>2. <<>> \in Seq(T) /\ Len(<<>>) = 0
    BY EmptySeq
  <2>3. NoneIn(<<>>, M)
    BY <2>2 DEF NoneIn
  <2>4. (n + 1)..n = {}
    OBVIOUS
  <2>5. Fine(n + 1)
    BY <2>1, <2>2, <2>3, <2>4
  <2>. QED
    BY <2>1, <2>5
<1>3. ASSUME NEW j \in 1..n, j + 1 \in Good PROVE j \in Good
  <2>1. j \in 1..(n + 1) /\ j # n + 1 /\ j + 1 \in 1..(n + 1)
    OBVIOUS
  <2>2. f[j] = IF j \in skip THEN f[j + 1] ELSE <<rec[j]>> \o f[j + 1]
    BY <1>1, <2>1
  <2>3. Fine(j + 1)
    BY <1>3
  <2>4. \A i \in j..n : i = j \/ i \in (j + 1)..n
    OBVIOUS
  <2>5. \A i \in (j + 1)..n : i \in j..n
    OBVIOUS
  <2>6. j \in j..n
    OBVIOUS
  <2>7. \A i \in (j + 1)..n : j \in j..(i - 1) /\ \A l \in (j + 1)..(i - 1) : l \in j..(i - 1)
    OBVIOUS
  <2>8. CASE j \in skip
    <3>1. j \notin kept /\ f[j] = f[j + 1]
      BY <1>8, <2>2, <2>8
    <3>2. Fine(j)
      BY <2>3, <2>4, <2>5, <2>7, <3>1
    <3>. QED
      BY <2>1, <3>2
  <2>9. CASE j \notin skip
    <3>. DEFINE v == rec[j]
                s == f[j + 1]
    <3>1. f[j] = <<v>> \o s /\ v \in T /\ s \in Seq(T) /\ (j \in kept <=> v \in M)
      BY <1>8, <2>2, <2>3, <2>9
    <3>. HIDE DEF v, s
    <3>2. /\ <<v>> \o s \in Seq(T)
          /\ v \in M => FirstIn(<<v>> \o s, M, v)
          /\ v \notin M => /\ \A w : FirstIn(s, M, w) => FirstIn(<<v>> \o s, M, w)
                           /\ NoneIn(s, M) => NoneIn(<<v>> \o s, M)
      BY <3>1, Prepended
    <3>3. (\A i \in j..n : i \notin kept) => NoneIn(f[j], M)
      BY <2>3, <2>5, <2>6, <3>1, <3>2 DEF s
    <3>4. ASSUME NEW i \in j..n, i \in kept, \A l \in j..(i - 1) : l \notin kept
          PROVE  FirstIn(f[j], M, rec[i])
      <4>1. CASE i = j
        BY <3>1, <3>2, <3>4, <4>1 DEF v
      <4>2. CASE i \in (j + 1)..n
        <5>1. v \notin M /\ \A l \in (j + 1)..(i - 1) : l \notin kept
          BY <2>7, <3>1, <3>4, <4>2
        <5>2. FirstIn(s, M, rec[i])
          BY <2>3, <3>4, <4>2, <5>1 DEF s
        <5>. QED
          BY <3>1, <3>2, <5>1, <5>2
      <4>. QED
        BY <2>4, <4>1, <4>2
    <3>5. Fine(j)
      BY <3>1, <3>2, <3>3, <3>4
    <3>. QED
      BY <2>1, <3>5
  <2>. QED
    BY <2>8, <2>9
<1>4. next \in [1..n -> 1..(n + 1)] /\ \A i \in 1..n : i < next[i] /\ next[i] = i + 1
  OBVIOUS
<1>5. \A j \in Good : Fine(j)
  OBVIOUS
<1>. HIDE DEF Good, next
<1>6. \A j \in 1..(n + 1) : j \in Good
  BY <1>2, <1>3, <1>4, FromTheEnd
<1>7. Fine(1)
  <2>1. 1 \in 1..(n + 1)
    OBVIOUS
  <2>. QED
    BY <1>5, <1>6, <2>1
<1>9. \A i \in kept : i \in 1..n
  BY <1>8
<1>. QED
  BY <1>7, <1>9 DEF SievedWell, kept

-----------------------------------------------------------------------------
(* Base 64.                                                                *)

(* The tables are each other's inverse; no line end is in the decoder's.   *)
LEMMA TablesInverse ==
  /\ \A s \in 0..63 : /\ EncodeTable[s] \in 0..127 /\ EncodeTable[s] # base64_pad
                      /\ DecodeTable[EncodeTable[s]] = s
  /\ DOMAIN DecodeTable = 0..127
  /\ DecodeTable[13] = 255 /\ DecodeTable[10] = 255
<1>1. ASSUME NEW s \in 0..63
      PROVE  /\ EncodeTable[s] \in 0..127 /\ EncodeTable[s] # base64_pad
             /\ DecodeTable[EncodeTable[s]] = s
  <2>1. CASE s < 26
    BY <2>1, SMTT(30) DEF EncodeTable, DecodeTable, base64_pad
  <2>2. CASE s >= 26 /\ s < 52
    BY <2>2, SMTT(30) DEF EncodeTable, DecodeTable, base64_pad
  <2>3. CASE s >= 52 /\ s < 62
    BY <2>3, SMTT(30) DEF EncodeTable, DecodeTable, base64_pad
  <2>4. CASE s >= 62
    BY <2>4, SMTT(30) DEF EncodeTable, DecodeTable, base64_pad
  <2>. QED
    BY <2>1, <2>2, <2>3, <2>4
<1>2. DOMAIN DecodeTable = 0..127
  BY DEF DecodeTable
<1>3. DecodeTable[13] = 255 /\ DecodeTable[10] = 255
  BY DEF DecodeTable
<1>. QED
  BY <1>1, <1>2, <1>3

(* The sextets of the bytes b: the n-th of the four that begin at byte k,  *)
(* and the i-th of all.                                                    *)
ByteAt(b, k) == IF k \in DOMAIN b THEN b[k] ELSE 0
Four(b, k) == <<ByteAt(b, k) \div 4,
                (ByteAt(b, k) % 4) * 16 + ByteAt(b, k + 1) \div 16,
                (ByteAt(b, k + 1) % 16) * 4 + ByteAt(b, k + 2) \div 64,
                ByteAt(b, k + 2) % 64>>
FirstByte(i) == 3 * ((i - 1) \div 4) + 1
Sextet(b, i) == Four(b, FirstByte(i))[((i - 1) % 4) + 1]
SextetCount(b) == (4 * Len(b) + 2) \div 3
FoursOf(b) == [q \in 1..((Len(b) + 2) \div 3) |->
                 [n \in 1..4 |-> IF (3 * q - 2) + n - 2 <= Len(b)
                                 THEN EncodeTable[Four(b, 3 * q - 2)[n]] ELSE base64_pad]]

Binary == Seq(0..255)

(* A character of the encoding stands for six bits.                        *)
LEMMA SextetTyped ==
  ASSUME NEW b \in Binary, NEW k \in Int, NEW n \in 1..4
  PROVE  ByteAt(b, k) \in 0..255 /\ Four(b, k)[n] \in 0..63
<1>1. \A j \in Int : ByteAt(b, j) \in 0..255
  <2>1. Len(b) \in Nat /\ DOMAIN b = 1..Len(b) /\ \A j \in 1..Len(b) : b[j] \in 0..255
    BY LenProperties, ElementOfSeq DEF Binary
  <2>. QED
    BY <2>1 DEF ByteAt
<1>. DEFINE x == ByteAt(b, k)
            y == ByteAt(b, k + 1)
            z == ByteAt(b, k + 2)
<1>2. x \in 0..255 /\ y \in 0..255 /\ z \in 0..255
  BY <1>1
<1>3. Four(b, k) = <<x \div 4, (x % 4) * 16 + y \div 16, (y % 16) * 4 + z \div 64, z % 64>>
  BY DEF Four
<1>. HIDE DEF x, y, z
<1>4. /\ x \div 4 \in 0..63 /\ (x % 4) * 16 + y \div 16 \in 0..63
      /\ (y % 16) * 4 + z \div 64 \in 0..63 /\ z % 64 \in 0..63
  BY <1>2
<1>5. Four(b, k)[n] \in 0..63
  BY <1>3, <1>4
<1>. QED
  BY <1>1, <1>5

(* The encoder writes four characters for each three bytes begun.          *)
LEMMA EncodedFours ==
  ASSUME NEW b
  PROVE  il_encodeBase64(b) = FlattenSeq(FoursOf(b))
BY DEF il_encodeBase64, FoursOf, Four, ByteAt

(* What of the fours is no pad. *)
LEMMA PadsBehind ==
  ASSUME NEW N \in Nat, NEW q \in 1..((N + 2) \div 3), NEW n \in 1..4
  PROVE  /\ (3 * q - 2) + n - 2 <= N <=> 4 * (q - 1) + n <= (4 * N + 2) \div 3
         /\ 4 * (q - 1) + n \in 1..(4 * ((N + 2) \div 3))
         /\ FirstByte(4 * (q - 1) + n) = 3 * q - 2
         /\ ((4 * (q - 1) + n - 1) % 4) + 1 = n
<1>1. 3 * q <= N + 2
  OBVIOUS
<1>2. (3 * q - 2) + n - 2 <= N <=> 4 * (q - 1) + n <= (4 * N + 2) \div 3
  <2>1. 4 * (q - 1) + n <= (4 * N + 2) \div 3 <=> 3 * (4 * (q - 1) + n) <= 4 * N + 2
    OBVIOUS
  <2>2. n = 1 \/ n = 2 \/ n = 3 \/ n = 4
    OBVIOUS
  <2>. QED
    BY <1>1, <2>1, <2>2
<1>3. (4 * (q - 1) + n - 1) \div 4 = q - 1
  OBVIOUS
<1>. QED
  BY <1>2, <1>3 DEF FirstByte

(* The text: its characters are those of the sextets, and behind them pads. *)
LEMMA EncodedLetters ==
  ASSUME NEW b \in Binary
  PROVE  LET text == il_encodeBase64(b) IN
         /\ text \in Strings
         /\ Len(text) = 4 * ((Len(b) + 2) \div 3)
         /\ \A i \in 1..Len(text) :
              text[i] = IF i <= SextetCount(b) THEN EncodeTable[Sextet(b, i)] ELSE base64_pad
<1>. DEFINE text == il_encodeBase64(b)
            N == Len(b)
            Q == (N + 2) \div 3
            seqs == FoursOf(b)
<1>1. N \in Nat
  BY LenProperties DEF Binary
<1>2. Q \in Nat
  BY <1>1
<1>3. text = FlattenSeq(seqs)
  BY EncodedFours
<1>4. ASSUME NEW q \in 1..Q
      PROVE  /\ seqs[q] \in Strings /\ Len(seqs[q]) = 4
             /\ \A n \in 1..4 : seqs[q][n] = IF (3 * q - 2) + n - 2 <= N
                                             THEN EncodeTable[Four(b, 3 * q - 2)[n]] ELSE base64_pad
  <2>. DEFINE char(n) == IF (3 * q - 2) + n - 2 <= N
                         THEN EncodeTable[Four(b, 3 * q - 2)[n]] ELSE base64_pad
  <2>1. seqs[q] = [n \in 1..4 |-> char(n)]
    BY DEF FoursOf
  <2>2. ASSUME NEW n \in 1..4 PROVE char(n) \in Tokens
    <3>0. 3 * q - 2 \in Int
      BY <1>2
    <3>1. Four(b, 3 * q - 2)[n] \in 0..63
      BY <3>0, SextetTyped
    <3>2. EncodeTable[Four(b, 3 * q - 2)[n]] \in 0..127
      BY <3>1, TablesInverse
    <3>. QED
      BY <3>2 DEF Tokens, base64_pad
  <2>. HIDE DEF char
  <2>3. seqs[q] \in Seq(Tokens) /\ Len(seqs[q]) = 4
    BY <2>1, <2>2
  <2>. QED
    BY <2>1, <2>3 DEF char, Strings
<1>5. Len(seqs) = Q /\ seqs \in Seq(Strings)
  <2>1. seqs = [q \in 1..Q |-> seqs[q]]
    BY DEF FoursOf
  <2>. HIDE DEF seqs, Q
  <2>. QED
    BY <1>2, <1>4, <2>1
<1>. HIDE DEF seqs, text
<1>6. text \in Strings
  BY <1>3, <1>5, FlattenTyped
<1>7. Holds(text, 1, FlattenSeq(seqs))
  BY <1>3, <1>6 DEF Holds, Strings
<1>8. PICK off : Laid(text, 1, seqs, off)
  BY <1>5, <1>6, <1>7, FlattenParts
<1>9. /\ off \in [1..(Q + 1) -> Nat \ {0}] /\ off[1] = 1 /\ off[Q + 1] = 1 + Len(text)
      /\ \A q \in 1..Q : Holds(text, off[q], seqs[q]) /\ off[q + 1] = off[q] + 4
  BY <1>3, <1>4, <1>5, <1>8 DEF Laid
<1>10. \A q \in 1..(Q + 1) : off[q] = 4 * (q - 1) + 1
  <2>. DEFINE Good == {q \in 0..Q : off[q + 1] = 4 * q + 1}
  <2>1. 0 \in Good
    BY <1>2, <1>9
  <2>2. ASSUME NEW q \in 1..Q, q - 1 \in Good PROVE q \in Good
    <3>1. off[q] = 4 * (q - 1) + 1
      BY <2>2
    <3>2. off[q + 1] = off[q] + 4
      BY <1>9
    <3>. QED
      BY <3>1, <3>2
  <2>. HIDE DEF Q
  <2>3. \A q \in Good : off[q + 1] = 4 * q + 1
    OBVIOUS
  <2>. HIDE DEF Good
  <2>4. \A q \in 0..Q : q \in Good
    BY <1>2, <2>1, <2>2, UpFromZero
  <2>5. ASSUME NEW q \in 1..(Q + 1) PROVE off[q] = 4 * (q - 1) + 1
    <3>1. q - 1 \in 0..Q /\ (q - 1) + 1 = q
      BY <1>2
    <3>. QED
      BY <2>3, <2>4, <3>1
  <2>. QED
    BY <2>5
<1>11. Len(text) = 4 * Q
  <2>1. off[Q + 1] = 4 * Q + 1
    BY <1>2, <1>10
  <2>2. Len(text) \in Nat
    BY <1>6, LenProperties DEF Strings
  <2>. QED
    BY <1>2, <1>9, <2>1, <2>2
<1>12. ASSUME NEW i \in 1..Len(text)
       PROVE  text[i] = IF i <= SextetCount(b) THEN EncodeTable[Sextet(b, i)] ELSE base64_pad
  <2>. DEFINE q == (i - 1) \div 4 + 1
              n == ((i - 1) % 4) + 1
  <2>1. i \in 1..(4 * Q)
    BY <1>11
  <2>2. q \in 1..Q /\ n \in 1..4 /\ i = 4 * (q - 1) + n
    BY <1>2, <2>1
  <2>. HIDE DEF q, n
  <2>3. /\ (3 * q - 2) + n - 2 <= N <=> i <= SextetCount(b)
        /\ FirstByte(i) = 3 * q - 2 /\ ((i - 1) % 4) + 1 = n
    <3>1. q \in 1..((N + 2) \div 3)
      BY <2>2
    <3>2. /\ (3 * q - 2) + n - 2 <= N <=> 4 * (q - 1) + n <= (4 * N + 2) \div 3
          /\ FirstByte(4 * (q - 1) + n) = 3 * q - 2
          /\ ((4 * (q - 1) + n - 1) % 4) + 1 = n
      BY <1>1, <2>2, <3>1, PadsBehind
    <3>. QED
      BY <2>2, <3>2 DEF SextetCount
  <2>4. Holds(text, 4 * (q - 1) + 1, seqs[q]) /\ Len(seqs[q]) = 4
    BY <1>4, <1>9, <1>10, <2>2, SMTT(30)
  <2>5. text[4 * (q - 1) + 1 + n - 1] = seqs[q][n]
    BY <2>2, <2>4 DEF Holds
  <2>6. text[i] = seqs[q][n]
    BY <2>2, <2>5
  <2>7. seqs[q][n] = IF (3 * q - 2) + n - 2 <= N
                     THEN EncodeTable[Four(b, 3 * q - 2)[n]] ELSE base64_pad
    BY <1>4, <2>2
  <2>. QED
    BY <2>3, <2>6, <2>7 DEF Sextet
<1>. QED
  BY <1>6, <1>11, <1>12 DEF text

(* Where the characters of a text lie when it is broken into lines: the    *)
(* next one follows at once, or behind a line end.                         *)
BreaksAt(W, off, text) ==
  /\ off \in [1..(Len(text) + 1) -> 1..(Len(W) + 1)]
  /\ off[1] = 1 /\ off[Len(text) + 1] = Len(W) + 1
  /\ \A i \in 1..Len(text) :
       /\ off[i] <= Len(W) /\ W[off[i]] = text[i]
       /\ \/ off[i + 1] = off[i] + 1
          \/ /\ off[i + 1] = off[i] + 3 /\ off[i] + 2 <= Len(W)
             /\ W[off[i] + 1] = 13 /\ W[off[i] + 2] = 10

(* The lines of a broken text hold its characters in their order, with     *)
(* nothing but line ends in between.                                       *)
LEMMA BrokenLies ==
  ASSUME NEW text \in Strings, NEW width \in Nat \ {0}
  PROVE  /\ Broken(text, width) \in Strings
         /\ \E off : BreaksAt(Broken(text, width), off, text)
<1>. DEFINE W == Broken(text, width)
            n == Len(text)
            part(i) == IF i % width = 0 THEN <<text[i], 13, 10>> ELSE <<text[i]>>
            seqs == [i \in 1..n |-> part(i)]
<1>1. n \in Nat /\ DOMAIN text = 1..n /\ \A i \in 1..n : text[i] \in Tokens
  BY LenProperties, ElementOfSeq DEF Strings
<1>2. W = FlattenSeq(seqs)
  BY <1>1 DEF Broken
<1>3. ASSUME NEW i \in 1..n
      PROVE  /\ part(i) \in Strings /\ part(i)[1] = text[i]
             /\ \/ Len(part(i)) = 1
                \/ Len(part(i)) = 3 /\ part(i)[2] = 13 /\ part(i)[3] = 10
  <2>1. text[i] \in Tokens /\ 13 \in Tokens /\ 10 \in Tokens
    BY <1>1 DEF Tokens
  <2>2. CASE i % width = 0
    <3>. DEFINE t == <<text[i], 13, 10>>
    <3>1. t \in Strings /\ Len(t) = 3 /\ t[1] = text[i] /\ t[2] = 13 /\ t[3] = 10
      BY <2>1 DEF Strings
    <3>2. part(i) = t
      BY <2>2
    <3>. QED
      BY <3>1, <3>2
  <2>3. CASE i % width # 0
    <3>. DEFINE t == <<text[i]>>
    <3>1. t \in Strings /\ Len(t) = 1 /\ t[1] = text[i]
      BY <2>1 DEF Strings
    <3>2. part(i) = t
      BY <2>3
    <3>. QED
      BY <3>1, <3>2
  <2>. QED
    BY <2>2, <2>3
<1>. HIDE DEF part
<1>4. seqs \in Seq(Strings) /\ Len(seqs) = n /\ \A i \in 1..n : seqs[i] = part(i)
  <2>. HIDE DEF n
  <2>. QED
    BY <1>1, <1>3
<1>. HIDE DEF seqs, W
<1>5. W \in Strings
  BY <1>2, <1>4, FlattenTyped
<1>6. Len(W) \in Nat
  BY <1>5, LenProperties DEF Strings
<1>7. Holds(W, 1, FlattenSeq(seqs))
  BY <1>2, <1>6 DEF Holds
<1>8. PICK off : Laid(W, 1, seqs, off)
  BY <1>4, <1>5, <1>7, FlattenParts
<1>9. /\ off \in [1..(n + 1) -> Nat \ {0}] /\ off[1] = 1 /\ off[n + 1] = 1 + Len(W)
      /\ \A i \in 1..n : Holds(W, off[i], part(i)) /\ off[i + 1] = off[i] + Len(part(i))
  BY <1>2, <1>4, <1>8 DEF Laid
<1>10. ASSUME NEW i \in 1..n
       PROVE  /\ off[i] <= Len(W) /\ W[off[i]] = text[i]
              /\ \/ off[i + 1] = off[i] + 1
                 \/ /\ off[i + 1] = off[i] + 3 /\ off[i] + 2 <= Len(W)
                    /\ W[off[i] + 1] = 13 /\ W[off[i] + 2] = 10
  <2>. DEFINE t == part(i)
              o == off[i]
  <2>1. /\ t[1] = text[i]
        /\ Len(t) = 1 \/ (Len(t) = 3 /\ t[2] = 13 /\ t[3] = 10)
    BY <1>3
  <2>2. o \in Nat \ {0} /\ off[i + 1] = o + Len(t)
    BY <1>1, <1>9
  <2>3. o + Len(t) <= Len(W) + 1 /\ \A k \in 1..Len(t) : W[o + k - 1] = t[k]
    BY <1>9 DEF Holds
  <2>. HIDE DEF t, o
  <2>4. CASE Len(t) = 1
    <3>1. W[o + 1 - 1] = t[1] /\ o + 1 - 1 = o
      BY <2>2, <2>3, <2>4
    <3>. QED
      BY <1>6, <2>1, <2>2, <2>3, <2>4, <3>1 DEF o
  <2>5. CASE Len(t) = 3 /\ t[2] = 13 /\ t[3] = 10
    <3>1. /\ W[o + 1 - 1] = t[1] /\ o + 1 - 1 = o
          /\ W[o + 2 - 1] = t[2] /\ o + 2 - 1 = o + 1
          /\ W[o + 3 - 1] = t[3] /\ o + 3 - 1 = o + 2
      BY <2>2, <2>3, <2>5
    <3>. QED
      BY <1>6, <2>1, <2>2, <2>3, <2>5, <3>1 DEF o
  <2>. QED
    BY <2>1, <2>4, <2>5
<1>11. off \in [1..(n + 1) -> 1..(Len(W) + 1)]
  <2>1. ASSUME NEW i \in 1..(n + 1) PROVE off[i] \in 1..(Len(W) + 1)
    <3>1. off[i] \in Nat \ {0}
      BY <1>9
    <3>2. i = n + 1 \/ i \in 1..n
      BY <1>1
    <3>3. off[i] <= Len(W) + 1
      BY <1>6, <1>9, <1>10, <3>1, <3>2
    <3>. QED
      BY <1>6, <3>1, <3>3
  <2>. QED
    BY <1>9, <2>1
<1>12. BreaksAt(W, off, text)
  BY <1>6, <1>9, <1>10, <1>11 DEF BreaksAt
<1>. QED
  BY <1>5, <1>12 DEF W

(* The turns of the decoder over the characters of W. *)
SextetTurns(W, f) ==
  /\ Sextets(W) = f[1]
  /\ f[Len(W) + 1] = <<>>
  /\ \A i \in 1..Len(W) :
       /\ W[i] = base64_pad => f[i] = <<>>
       /\ W[i] \in 0..127 /\ W[i] # base64_pad =>
            f[i] = IF DecodeTable[W[i]] = 255 THEN f[i + 1] ELSE <<DecodeTable[W[i]]>> \o f[i + 1]

(* The recursion of il_decodeBase64 takes these turns.                     *)
LEMMA SextetsComputed ==
  ASSUME NEW W \in Strings
  PROVE  \E f : SextetTurns(W, f)
<1>. DEFINE n == Len(W)
            stop == {i \in 1..n : W[i] = base64_pad}
            skip == {i \in 1..n : ~(W[i] \in 0..127 /\ DecodeTable[W[i]] # 255)}
            rec == [i \in 1..n |-> DecodeTable[W[i]]]
            entry(f, i) == IF i > Len(W) \/ W[i] = base64_pad THEN <<>>
                           ELSE IF W[i] \in DOMAIN DecodeTable /\ DecodeTable[W[i]] # 255
                                THEN <<DecodeTable[W[i]]>> \o f[i + 1]
                                ELSE f[i + 1]
            From(f) == f = [i \in 1..(Len(W) + 1) |-> entry(f, i)]
            out == CHOOSE f : From(f)
<1>1. n \in Nat
  BY LenProperties DEF Strings
<1>2. Sextets(W) = out[1]
  BY DEF Sextets
<1>3. DOMAIN DecodeTable = 0..127
  BY TablesInverse
<1>. DEFINE sieved(f, i) == IF i = n + 1 \/ i \in stop THEN <<>>
                            ELSE IF i \in skip THEN f[i + 1] ELSE <<rec[i]>> \o f[i + 1]
<1>4. ASSUME NEW f, NEW i \in 1..(n + 1) PROVE entry(f, i) = sieved(f, i)
  <2>1. CASE i = n + 1
    BY <1>1, <2>1
  <2>2. CASE i # n + 1
    <3>1. i \in 1..n /\ ~(i > Len(W))
      BY <1>1, <2>2
    <3>2. rec[i] = DecodeTable[W[i]]
      BY <3>1
    <3>3. i \in stop <=> W[i] = base64_pad
      BY <3>1
    <3>4. i \in skip <=> ~(W[i] \in 0..127 /\ DecodeTable[W[i]] # 255)
      BY <3>1
    <3>. HIDE DEF rec, stop, skip, n
    <3>. QED
      BY <1>3, <2>2, <3>1, <3>2, <3>3, <3>4
  <2>. QED
    BY <2>1, <2>2
<1>5. \A f : From(f) <=> Sieves(f, n, stop, skip, rec)
  <2>. SUFFICES ASSUME NEW f PROVE From(f) <=> Sieves(f, n, stop, skip, rec)
    OBVIOUS
  <2>. HIDE DEF entry, sieved
  <2>1. [i \in 1..(n + 1) |-> entry(f, i)] = [i \in 1..(n + 1) |-> sieved(f, i)]
    BY <1>4
  <2>2. Sieves(f, n, stop, skip, rec) <=> f = [i \in 1..(n + 1) |-> sieved(f, i)]
    BY DEF Sieves, sieved
  <2>. QED
    BY <2>1, <2>2
<1>6. \E f : From(f)
  <2>. HIDE DEF From, stop, skip, rec, n
  <2>. QED
    BY <1>1, <1>5, SieveComputed
<1>7. From(out)
  <2>. HIDE DEF From
  <2>. QED
    BY <1>6
<1>. HIDE DEF out
<1>8. \A i \in 1..(n + 1) : out[i] = entry(out, i)
  <2>. HIDE DEF entry
  <2>. QED
    BY <1>7
<1>9. out[n + 1] = <<>>
  <2>1. n + 1 \in 1..(n + 1) /\ n + 1 > Len(W)
    BY <1>1
  <2>. QED
    BY <1>8, <2>1
<1>10. ASSUME NEW i \in 1..n
       PROVE  /\ W[i] = base64_pad => out[i] = <<>>
              /\ W[i] \in 0..127 /\ W[i] # base64_pad =>
                   out[i] = IF DecodeTable[W[i]] = 255 THEN out[i + 1]
                            ELSE <<DecodeTable[W[i]]>> \o out[i + 1]
  <2>1. i \in 1..(n + 1) /\ ~(i > Len(W))
    BY <1>1
  <2>2. out[i] = entry(out, i)
    BY <1>8, <2>1
  <2>3. entry(out, i) = IF W[i] = base64_pad THEN <<>>
                        ELSE IF W[i] \in DOMAIN DecodeTable /\ DecodeTable[W[i]] # 255
                             THEN <<DecodeTable[W[i]]>> \o out[i + 1]
                             ELSE out[i + 1]
    BY <2>1
  <2>. HIDE DEF entry
  <2>. QED
    BY <1>3, <2>2, <2>3
<1>. HIDE DEF From, entry
<1>11. \A i \in 1..Len(W) :
         /\ W[i] = base64_pad => out[i] = <<>>
         /\ W[i] \in 0..127 /\ W[i] # base64_pad =>
              out[i] = IF DecodeTable[W[i]] = 255 THEN out[i + 1]
                       ELSE <<DecodeTable[W[i]]>> \o out[i + 1]
  BY <1>10, Zenon
<1>12. SextetTurns(W, out)
  BY <1>2, <1>9, <1>11, Zenon DEF SextetTurns
<1>. QED
  BY <1>12, Zenon

(* From a text broken into lines the decoder reads the sextets. *)
LEMMA SextetsRead ==
  ASSUME NEW b \in Binary, NEW W \in Strings, NEW off, BreaksAt(W, off, il_encodeBase64(b))
  PROVE  Sextets(W) = [i \in 1..SextetCount(b) |-> Sextet(b, i)]
<1>. DEFINE text == il_encodeBase64(b)
            L == Len(text)
            K == SextetCount(b)
            n == Len(W)
<1>1. /\ L = 4 * ((Len(b) + 2) \div 3)
      /\ \A i \in 1..L : text[i] = IF i <= K THEN EncodeTable[Sextet(b, i)] ELSE base64_pad
  BY EncodedLetters
<1>2. /\ off \in [1..(L + 1) -> 1..(n + 1)]
      /\ off[1] = 1 /\ off[L + 1] = n + 1
      /\ \A i \in 1..L :
           /\ off[i] <= n /\ W[off[i]] = text[i]
           /\ \/ off[i + 1] = off[i] + 1
              \/ /\ off[i + 1] = off[i] + 3 /\ off[i] + 2 <= n
                 /\ W[off[i] + 1] = 13 /\ W[off[i] + 2] = 10
  BY DEF BreaksAt
<1>3. PICK f : SextetTurns(W, f)
  BY SextetsComputed
<1>4. /\ Sextets(W) = f[1]
      /\ f[n + 1] = <<>>
      /\ \A i \in 1..n :
           /\ W[i] = base64_pad => f[i] = <<>>
           /\ W[i] \in 0..127 /\ W[i] # base64_pad =>
                f[i] = IF DecodeTable[W[i]] = 255 THEN f[i + 1]
                       ELSE <<DecodeTable[W[i]]>> \o f[i + 1]
  BY <1>3 DEF SextetTurns
<1>. DEFINE Read(i) == DecodeTable[W[i]]
<1>40. \A i \in 1..n : W[i] = base64_pad => f[i] = <<>>
  BY <1>4
<1>41. \A i \in 1..n : W[i] \in 0..127 /\ W[i] # base64_pad /\ Read(i) = 255 => f[i] = f[i + 1]
  BY <1>4
<1>42. \A i \in 1..n : W[i] \in 0..127 /\ W[i] # base64_pad /\ Read(i) # 255
                          => f[i] = <<Read(i)>> \o f[i + 1]
  BY <1>4
<1>43. f[n + 1] = <<>>
  BY <1>4
<1>5. n \in Nat /\ Len(b) \in Nat
  BY LenProperties DEF Strings, Binary
<1>6. L \in Nat /\ K \in Nat /\ K <= L
  <2>1. K = (4 * Len(b) + 2) \div 3
    BY DEF SextetCount
  <2>. HIDE DEF K, L
  <2>. QED
    BY <1>1, <1>5, <2>1
<1>. HIDE DEF text, L, K, n, Read
<1>7. ASSUME NEW i \in 1..K
      PROVE  f[off[i]] = <<Sextet(b, i)>> \o f[off[i + 1]]
  <2>. DEFINE o == off[i]
              s == Sextet(b, i)
  <2>1. i \in 1..L /\ i + 1 \in 1..(L + 1) /\ i \in 1..(L + 1) /\ i <= K
    BY <1>6
  <2>2. o \in 1..n /\ W[o] = EncodeTable[s]
    BY <1>1, <1>2, <1>5, <2>1
  <2>3. s \in 0..63
    <3>1. FirstByte(i) \in Int /\ ((i - 1) % 4) + 1 \in 1..4
      BY <2>1 DEF FirstByte
    <3>. QED
      BY <3>1, SextetTyped DEF Sextet
  <2>5. /\ \/ off[i + 1] = o + 1
           \/ /\ off[i + 1] = o + 3 /\ o + 2 <= n
              /\ W[o + 1] = 13 /\ W[o + 2] = 10
    BY <1>2, <2>1
  <2>. HIDE DEF o, s
  <2>6. EncodeTable[s] \in 0..127 /\ EncodeTable[s] # base64_pad /\ DecodeTable[EncodeTable[s]] = s
    BY <2>3, TablesInverse
  <2>7. s # 255
    BY <2>3
  <2>8. f[o] = <<s>> \o f[o + 1]
    <3>1. W[o] \in 0..127 /\ W[o] # base64_pad /\ Read(o) = s
      BY <2>2, <2>6 DEF Read
    <3>. QED
      BY <1>42, <2>2, <2>7, <3>1
  <2>9. f[o + 1] = f[off[i + 1]]
    <3>1. CASE off[i + 1] = o + 1
      BY <3>1
    <3>2. CASE off[i + 1] = o + 3 /\ o + 2 <= n /\ W[o + 1] = 13 /\ W[o + 2] = 10
      <4>1. /\ o + 1 \in 1..n /\ (o + 1) + 1 = o + 2
            /\ o + 2 \in 1..n /\ (o + 2) + 1 = o + 3
        BY <1>5, <2>2, <3>2
      <4>2. 13 \in 0..127 /\ 10 \in 0..127 /\ 13 # base64_pad /\ 10 # base64_pad
        BY DEF base64_pad
      <4>3. Read(o + 1) = 255 /\ Read(o + 2) = 255
        <5>1. Read(o + 1) = DecodeTable[13] /\ Read(o + 2) = DecodeTable[10]
          BY <3>2, Zenon DEF Read
        <5>. QED
          BY <5>1, TablesInverse, Zenon
      <4>4. f[o + 1] = f[o + 2]
        BY <1>41, <3>2, <4>1, <4>2, <4>3
      <4>5. f[o + 2] = f[o + 3]
        BY <1>41, <3>2, <4>1, <4>2, <4>3
      <4>. QED
        BY <3>2, <4>4, <4>5
    <3>. QED
      BY <2>5, <3>1, <3>2
  <2>. QED
    BY <2>8, <2>9 DEF o, s
<1>8. f[off[K + 1]] = <<>>
  <2>1. CASE K = L
    <3>1. off[K + 1] = n + 1 /\ n + 1 \in 1..(n + 1)
      BY <1>2, <1>5, <2>1
    <3>. QED
      BY <1>43, <3>1
  <2>2. CASE K < L
    <3>1. K + 1 \in 1..L /\ ~(K + 1 <= K) /\ K + 1 \in 1..(L + 1)
      BY <1>6, <2>2
    <3>2. off[K + 1] \in 1..(n + 1) /\ off[K + 1] <= n
      BY <1>2, <3>1
    <3>3. W[off[K + 1]] = base64_pad
      BY <1>1, <1>2, <3>1
    <3>. QED
      BY <1>5, <1>40, <3>2, <3>3
  <2>. QED
    BY <1>6, <2>1, <2>2
<1>. DEFINE stop == {}
            v == [i \in 1..K |-> Sextet(b, i)]
            next == [i \in 1..K |-> i + 1]
            at == [i \in 1..(K + 1) |-> i]
            g == [i \in 1..(K + 1) |-> f[off[i]]]
            turn(i) == IF i = K + 1 \/ i \in stop THEN <<>> ELSE <<v[i]>> \o g[next[i]]
<1>9. ASSUME NEW i \in 1..(K + 1) PROVE g[i] = turn(i)
  <2>1. CASE i = K + 1
    BY <1>8, <2>1
  <2>2. CASE i # K + 1
    <3>1. i \in 1..K /\ i + 1 \in 1..(K + 1)
      BY <1>6, <2>2
    <3>2. g[i] = f[off[i]] /\ v[i] = Sextet(b, i) /\ next[i] = i + 1 /\ g[i + 1] = f[off[i + 1]]
      BY <3>1
    <3>. HIDE DEF g, v, next
    <3>. QED
      BY <1>7, <2>2, <3>1, <3>2
  <2>. QED
    BY <2>1, <2>2
<1>10. g = [i \in 1..(K + 1) |-> turn(i)]
  <2>1. g = [i \in 1..(K + 1) |-> g[i]]
    OBVIOUS
  <2>. HIDE DEF g, turn
  <2>. QED
    BY <1>9, <2>1
<1>11. Lists(g, K, stop, v, next)
  <2>. HIDE DEF g, v, next, stop
  <2>. QED
    BY <1>10 DEF Lists
<1>12. Meets(at, K, K, stop, next)
  BY <1>6 DEF Meets
<1>13. at[1] = 1 /\ \A i \in 1..K : at[i] = i
  BY <1>6
<1>14. g[1] = f[1]
  BY <1>2, <1>6
<1>15. v = [i \in 1..K |-> v[i]]
  OBVIOUS
<1>. HIDE DEF g, v, next, at, stop
<1>16. ListIs(g, at, K, v)
  BY <1>6, <1>11, <1>12, Listed
<1>17. g[1] = [i \in 1..K |-> v[at[i]]]
  BY <1>13, <1>16 DEF ListIs, Items
<1>18. g[1] = v
  BY <1>13, <1>15, <1>17
<1>. QED
  BY <1>4, <1>14, <1>18 DEF v, K

(* Four sextets are three bytes. *)
LEMMA ThreeBytes ==
  ASSUME NEW x \in 0..255, NEW y \in 0..255, NEW z \in 0..255
  PROVE  /\ (x \div 4) * 4 + ((x % 4) * 16 + y \div 16) \div 16 = x
         /\ (((x % 4) * 16 + y \div 16) % 16) * 16 + ((y % 16) * 4 + z \div 64) \div 4 = y
         /\ (((y % 16) * 4 + z \div 64) % 4) * 64 + (z % 64) = z
<1>1. y \div 16 \in 0..15 /\ z \div 64 \in 0..3 /\ x % 4 \in 0..3 /\ y % 16 \in 0..15
  OBVIOUS
<1>2. /\ ((x % 4) * 16 + (y \div 16)) \div 16 = x % 4
      /\ ((x % 4) * 16 + y \div 16) % 16 = y \div 16
      /\ ((y % 16) * 4 + z \div 64) \div 4 = y % 16
      /\ ((y % 16) * 4 + z \div 64) % 4 = z \div 64
  <2>. DEFINE p == x % 4
              q == y \div 16
              r == y % 16
              s == z \div 64
  <2>1. p \in 0..3 /\ q \in 0..15 /\ r \in 0..15 /\ s \in 0..3
    BY <1>1
  <2>. HIDE DEF p, q, r, s
  <2>2. /\ (p * 16 + q) \div 16 = p /\ (p * 16 + q) % 16 = q
        /\ (r * 4 + s) \div 4 = r /\ (r * 4 + s) % 4 = s
    BY <2>1
  <2>. QED
    BY <2>2 DEF p, q, r, s
<1>3. (x \div 4) * 4 + (x % 4) = x /\ (y \div 16) * 16 + (y % 16) = y
      /\ (z \div 64) * 64 + (z % 64) = z
  OBVIOUS
<1>. QED
  BY <1>2, <1>3

(* A number is three times another, or one or two more.                    *)
LEMMA Thirds ==
  \A n \in Nat : LET a == n \div 3 IN a \in Nat /\ (n = 3 * a \/ n = 3 * a + 1 \/ n = 3 * a + 2)
OBVIOUS

(* What il_encodeBase64 makes of any bytes, broken into lines of any       *)
(* width, il_decodeBase64 makes these bytes of.                            *)
THEOREM DecodesBroken ==
  ASSUME NEW b \in Binary, NEW width \in Nat \ {0}
  PROVE  il_decodeBase64(Broken(il_encodeBase64(b), width)) = b
<1>. DEFINE text == il_encodeBase64(b)
            W == Broken(text, width)
            N == Len(b)
            K == SextetCount(b)
            ch == Sextets(W)
<1>1. N \in Nat /\ DOMAIN b = 1..N /\ (\A j \in 1..N : b[j] \in 0..255)
      /\ b = [j \in 1..N |-> b[j]]
  BY LenProperties, ElementOfSeq DEF Binary
<1>2. text \in Strings
  BY EncodedLetters
<1>3. W \in Strings /\ \E off : BreaksAt(W, off, text)
  BY <1>2, BrokenLies
<1>4. ch = [i \in 1..K |-> Sextet(b, i)]
  BY <1>3, SextetsRead
<1>5. K = (4 * N + 2) \div 3
  BY DEF SextetCount
<1>. HIDE DEF K, N, W
<1>6. K \in Nat /\ K % 4 # 1 /\ (3 * K) \div 4 = N
  <2>. DEFINE a == N \div 3
  <2>. HIDE DEF K
  <2>1. a \in Nat /\ (N = 3 * a \/ N = 3 * a + 1 \/ N = 3 * a + 2)
    BY <1>1, Thirds
  <2>. HIDE DEF a
  <2>2. CASE N = 3 * a
    <3>1. K = 4 * a
      BY <1>5, <2>1, <2>2
    <3>. QED
      BY <2>1, <2>2, <3>1
  <2>3. CASE N = 3 * a + 1
    <3>1. K = 4 * a + 2
      BY <1>5, <2>1, <2>3
    <3>. QED
      BY <2>1, <2>3, <3>1
  <2>4. CASE N = 3 * a + 2
    <3>1. K = 4 * a + 3
      BY <1>5, <2>1, <2>4
    <3>. QED
      BY <2>1, <2>4, <3>1
  <2>. QED
    BY <2>1, <2>2, <2>3, <2>4
<1>7. Len(ch) = K
  <2>. HIDE DEF ch
  <2>. QED
    BY <1>4, <1>6
<1>. DEFINE byte(j) == LET q == 4 * ((j - 1) \div 3) IN
                       CASE j % 3 = 1 -> ch[q + 1] * 4 + ch[q + 2] \div 16
                         [] j % 3 = 2 -> (ch[q + 2] % 16) * 16 + ch[q + 3] \div 4
                         [] j % 3 = 0 -> (ch[q + 3] % 4) * 64 + ch[q + 4]
            rest == IF Contains(W, base64_pad) /\ Len(ch) % 4 = 1
                    THEN <<ch[Len(ch)] * 4>> ELSE <<>>
<1>8. il_decodeBase64(W) = [j \in 1..((3 * Len(ch)) \div 4) |-> byte(j)] \o rest
  BY DEF il_decodeBase64
<1>9. rest = <<>>
  BY <1>6, <1>7
<1>10. (3 * Len(ch)) \div 4 = N
  BY <1>6, <1>7
<1>11. ASSUME NEW j \in 1..N PROVE byte(j) = b[j]
  <2>. DEFINE a == (j - 1) \div 3
              q == 4 * a
              k == 3 * a + 1
              x == ByteAt(b, k)
              y == ByteAt(b, k + 1)
              z == ByteAt(b, k + 2)
  <2>1. a \in Nat /\ k \in Int /\ (j = 3 * a + 1 \/ j = 3 * a + 2 \/ j = 3 * a + 3)
    <3>1. j - 1 \in Nat /\ (j - 1) + 1 = j
      BY <1>1
    <3>2. a \in Nat /\ (j - 1 = 3 * a \/ j - 1 = 3 * a + 1 \/ j - 1 = 3 * a + 2)
      BY <3>1, Thirds
    <3>. QED
      BY <1>1, <3>2, SMTT(30)
  <2>2. x \in 0..255 /\ y \in 0..255 /\ z \in 0..255
    <3>1. 1 \in 1..4 /\ k + 1 \in Int /\ k + 2 \in Int
      BY <2>1
    <3>. QED
      BY <2>1, <3>1, SextetTyped
  <2>3. Four(b, k) = <<x \div 4, (x % 4) * 16 + y \div 16, (y % 16) * 4 + z \div 64, z % 64>>
    BY DEF Four
  <2>. HIDE DEF x, y, z
  <2>8. /\ (x \div 4) * 4 + ((x % 4) * 16 + y \div 16) \div 16 = x
        /\ (((x % 4) * 16 + y \div 16) % 16) * 16 + ((y % 16) * 4 + z \div 64) \div 4 = y
        /\ (((y % 16) * 4 + z \div 64) % 4) * 64 + (z % 64) = z
    BY <2>2, ThreeBytes, ZenonT(60)
  <2>4. ASSUME NEW n \in 1..4, q + n <= K PROVE ch[q + n] = Four(b, k)[n]
    <3>1. q + n \in 1..K
      BY <1>6, <2>1, <2>4
    <3>2. FirstByte(q + n) = k /\ ((q + n - 1) % 4) + 1 = n
      <4>. HIDE DEF a
      <4>1. (q + n - 1) \div 4 = a /\ (q + n - 1) % 4 = n - 1
        BY <2>1
      <4>. QED
        BY <2>1, <4>1 DEF FirstByte
    <3>. QED
      BY <1>4, <3>1, <3>2 DEF Sextet
  <2>. HIDE DEF a
  <2>5. CASE j = 3 * a + 1
    <3>1. q + 1 <= K /\ q + 2 <= K /\ j % 3 = 1 /\ j = k
      BY <1>1, <1>5, <2>1, <2>5
    <3>2. ch[q + 1] = x \div 4 /\ ch[q + 2] = (x % 4) * 16 + y \div 16
      BY <2>3, <2>4, <3>1
    <3>3. byte(j) = ch[q + 1] * 4 + ch[q + 2] \div 16
      BY <3>1 DEF a
    <3>4. x = b[j]
      BY <1>1, <3>1 DEF x, ByteAt
    <3>. HIDE DEF byte, q, ch
    <3>. QED
      BY <2>8, <3>2, <3>3, <3>4, Zenon
  <2>6. CASE j = 3 * a + 2
    <3>1. q + 2 <= K /\ q + 3 <= K /\ j % 3 = 2 /\ j = k + 1
      BY <1>1, <1>5, <2>1, <2>6, SMTT(30)
    <3>2. ch[q + 2] = (x % 4) * 16 + y \div 16 /\ ch[q + 3] = (y % 16) * 4 + z \div 64
      BY <2>3, <2>4, <3>1
    <3>3. byte(j) = (ch[q + 2] % 16) * 16 + ch[q + 3] \div 4
      BY <3>1 DEF a
    <3>4. y = b[j]
      BY <1>1, <3>1 DEF y, ByteAt
    <3>. HIDE DEF byte, q, ch
    <3>. QED
      BY <2>8, <3>2, <3>3, <3>4, Zenon
  <2>7. CASE j = 3 * a + 3
    <3>1. q + 3 <= K /\ q + 4 <= K /\ j % 3 = 0 /\ j = k + 2
      BY <1>1, <1>5, <2>1, <2>7, SMTT(30)
    <3>2. ch[q + 3] = (y % 16) * 4 + z \div 64 /\ ch[q + 4] = z % 64
      BY <2>3, <2>4, <3>1
    <3>3. byte(j) = (ch[q + 3] % 4) * 64 + ch[q + 4]
      BY <3>1 DEF a
    <3>4. z = b[j]
      BY <1>1, <3>1 DEF z, ByteAt
    <3>. HIDE DEF byte, q, ch
    <3>. QED
      BY <2>8, <3>2, <3>3, <3>4, Zenon
  <2>. QED
    BY <2>1, <2>5, <2>6, <2>7
<1>. HIDE DEF byte, rest, ch
<1>12. [j \in 1..((3 * Len(ch)) \div 4) |-> byte(j)] = b
  BY <1>1, <1>10, <1>11
<1>13. b \o <<>> = b
  BY ConcatEmptySeq DEF Binary
<1>. QED
  BY <1>8, <1>9, <1>12, <1>13 DEF W

-----------------------------------------------------------------------------
(* The getters.                                                            *)

(* An escape is longer than the byte it stands for: what is as long        *)
(* encoded as it is itself has none.                                       *)
LEMMA EscapesLengthen ==
  ASSUME NEW s \in Text(ValueEnds)
  PROVE  Len(Encoded(s)) = Len(s) <=> Encoded(s) = s
<1>. DEFINE m == Encoded(s)
            k == Len(s)
            l == Len(m)
            parts == [i \in DOMAIN s |-> EncodedByte(s[i])]
<1>1. /\ s \in Strings /\ k \in Nat /\ DOMAIN s = 1..k
      /\ \A i \in 1..k : s[i] \in Tokens /\ s[i] \notin ValueEnds
  BY LenProperties, ElementOfSeq DEF Text, Strings
<1>2. m = FlattenSeq(parts)
  BY DEF Encoded, EncodedByte
<1>3. m \in Strings /\ l \in Nat
  BY EncodedText, LenProperties DEF Text, Strings
<1>. SUFFICES ASSUME l = k PROVE m = s
  OBVIOUS
<1>. HIDE DEF m, k
<1>4. parts \in Seq(Strings) /\ Len(parts) = k /\ \A i \in 1..k : parts[i] = EncodedByte(s[i])
  <2>1. \A i \in 1..k : EncodedByte(s[i]) \in Strings
    BY <1>1, EncodedByteText DEF Text
  <2>2. [i \in 1..k |-> EncodedByte(s[i])] \in Seq(Strings)
        /\ Len([i \in 1..k |-> EncodedByte(s[i])]) = k
    BY <1>1, <2>1
  <2>. QED
    BY <1>1, <2>2
<1>5. Holds(m, 1, m)
  BY <1>3 DEF Holds
<1>. HIDE DEF parts
<1>6. PICK off : Laid(m, 1, parts, off)
  <2>. DEFINE p == 1
  <2>1. p \in Nat \ {0} /\ Holds(m, p, FlattenSeq(parts))
    BY <1>2, <1>5
  <2>. HIDE DEF p
  <2>2. \E off : Laid(m, p, parts, off)
    BY <1>3, <1>4, <2>1, FlattenParts
  <2>. QED
    BY <2>2 DEF p
<1>7. /\ off \in [1..(k + 1) -> Nat \ {0}] /\ off[1] = 1 /\ off[k + 1] = 1 + l
      /\ \A i \in 1..k : Holds(m, off[i], EncodedByte(s[i]))
                         /\ off[i + 1] = off[i] + Len(EncodedByte(s[i]))
  BY <1>2, <1>4, <1>6 DEF Laid, l
<1>8. ASSUME NEW i \in 1..k
      PROVE  /\ Len(EncodedByte(s[i])) \in Nat \ {0}
             /\ Len(EncodedByte(s[i])) = 1 => EncodedByte(s[i])[1] = s[i]
  <2>. DEFINE c == s[i]
  <2>1. CASE c \in DOMAIN Escaped
    <3>1. EncodedByte(c) = Escaped[c]
      BY <2>1 DEF EncodedByte
    <3>2. c \in {"SP", "%", "&", "/", "="}
      BY <2>1, Escapes
    <3>. HIDE DEF c
    <3>3. \E d, e : Escaped[c] = <<"%", d, e>>
      BY <3>2, Escapes
    <3>4. Len(EncodedByte(c)) = 3
      BY <3>1, <3>3
    <3>. QED
      BY <3>4 DEF c
  <2>2. CASE c \notin DOMAIN Escaped
    <3>1. EncodedByte(c) = <<c>>
      BY <2>2 DEF EncodedByte
    <3>. QED
      BY <3>1
  <2>. QED
    BY <2>1, <2>2
<1>. DEFINE len(i) == Len(EncodedByte(s[i]))
            Fine(i) == /\ off[i + 1] >= i + 1
                       /\ off[i + 1] = i + 1 => \A j \in 1..i : off[j] = j /\ len(j) = 1
            Good == {i \in 0..k : Fine(i)}
<1>9. 0 \in Good
  BY <1>1, <1>7
<1>10. ASSUME NEW i \in 1..k, i - 1 \in Good PROVE i \in Good
  <2>1. (i - 1) + 1 = i /\ i + 1 \in 1..(k + 1) /\ i \in 1..(k + 1)
    BY <1>1
  <2>2. /\ off[i] >= i
        /\ off[i] = i => \A j \in 1..(i - 1) : off[j] = j /\ len(j) = 1
    BY <1>10, <2>1
  <2>3. /\ off[i] \in Nat /\ off[i + 1] \in Nat /\ len(i) \in Nat \ {0}
        /\ off[i + 1] = off[i] + len(i)
    BY <1>7, <1>8, <2>1
  <2>. HIDE DEF len
  <2>4. off[i + 1] >= i + 1
    BY <2>2, <2>3
  <2>5. ASSUME off[i + 1] = i + 1, NEW j \in 1..i PROVE off[j] = j /\ len(j) = 1
    <3>1. off[i] = i /\ len(i) = 1
      BY <2>2, <2>3, <2>5
    <3>2. j = i \/ j \in 1..(i - 1)
      OBVIOUS
    <3>. QED
      BY <2>2, <3>1, <3>2
  <2>6. i \in 0..k /\ Fine(i)
    BY <2>4, <2>5
  <2>. QED
    BY <2>6
<1>11. \A i \in Good : Fine(i)
  OBVIOUS
<1>. HIDE DEF Good
<1>12. \A i \in 0..k : i \in Good
  BY <1>1, <1>9, <1>10, UpFromZero
<1>13. Fine(k)
  BY <1>1, <1>11, <1>12, SMTT(30)
<1>14. \A j \in 1..k : off[j] = j /\ len(j) = 1
  <2>1. off[k + 1] = k + 1
    BY <1>1, <1>7
  <2>. QED
    BY <1>13, <2>1
<1>15. ASSUME NEW j \in 1..k PROVE m[j] = s[j]
  <2>1. off[j] = j /\ Len(EncodedByte(s[j])) = 1
    BY <1>14
  <2>2. EncodedByte(s[j])[1] = s[j]
    BY <1>8, <2>1
  <2>3. \A i \in 1..1 : m[j + i - 1] = EncodedByte(s[j])[i]
    BY <1>7, <2>1 DEF Holds
  <2>4. j + 1 - 1 = j
    OBVIOUS
  <2>. QED
    BY <2>2, <2>3, <2>4
<1>16. Len(m) = k /\ m \in Seq(Tokens) /\ s \in Seq(Tokens) /\ Len(s) = k
  BY <1>1, <1>3 DEF Strings, l, k
<1>17. m = s
  BY <1>15, <1>16, SeqEqual
<1>. QED
  BY <1>17

(* The first of a list that fits: no other place gives its value.          *)
LEMMA LeastOf ==
  ASSUME NEW I, I \subseteq Nat, NEW k \in I, \A i \in I : k <= i
  PROVE  Min(I) = k
<1>1. Min(I) \in I /\ \A i \in I : Min(I) <= i
  BY LeastNumber
<1>2. Min(I) <= k /\ k <= Min(I) /\ k \in Nat /\ Min(I) \in Nat
  BY <1>1
<1>. QED
  BY <1>2

(* Where in a list of lines, or parameters, is one with the name. *)
NamedAt(list, name) ==
  {i \in 1..Len(list) : IsPair(list[i]) /\ EqualIgnoringCase(list[i].name, name)}
ValueAt(list, places, dft) == IF places = {} THEN dft ELSE list[Min(places)].value

(* What AnswersAsSent says of a header and of a parameter. *)
HeaderSent(list, name) ==
  FirstValue(list, LAMBDA l : IsPair(l) /\ EqualIgnoringCase(l.name, name), <<>>)
ParmSent(list, name) ==
  FirstValue(list, LAMBDA p : /\ Encoded(p.name) = p.name
                              /\ EqualIgnoringCase(p.name, name), Default)

(* FirstValue gives the value at the first place that has the name.        *)
LEMMA FirstNamed ==
  ASSUME NEW list, NEW name, Len(list) \in Nat
  PROVE  HeaderSent(list, name) = ValueAt(list, NamedAt(list, name), <<>>)
<1>. DEFINE I == {i \in 1..Len(list) : IsPair(list[i]) /\ EqualIgnoringCase(list[i].name, name)}
            at == IF I # {} THEN Min(I) ELSE 0
<1>1. HeaderSent(list, name) = IF at = 0 THEN <<>> ELSE list[at].value
  BY DEF HeaderSent, FirstValue, SelectInSeq
<1>2. I = NamedAt(list, name)
  BY DEF NamedAt
<1>3. I \subseteq Nat /\ 0 \notin I
  OBVIOUS
<1>. HIDE DEF I
<1>4. I # {} => Min(I) \in I
  BY <1>3, LeastNumber
<1>. QED
  BY <1>1, <1>2, <1>3, <1>4 DEF ValueAt

(* il_getRequestHeader over HTTP: the first of the lines with the name. *)
LEMMA HeaderFound ==
  ASSUME NEW S, NEW lines \in Seq(S), NEW name
  PROVE  LET list == Prefixed(lines) IN
         getHeaderValue(KeysAndValues(list), name) = HeaderSent(list, name)
<1>. DEFINE list == Prefixed(lines)
            keys == KeysAndValues(list)
            I == {i \in 1..Len(keys) : EqualIgnoringCase(keys[i].key, name)}
            at == IF I # {} THEN Min(I) ELSE 0
<1>1. PICK k : /\ Leading(lines, k)
               /\ list \in Seq(S) /\ Len(list) = k /\ \A i \in 1..k : list[i] = lines[i]
  BY PrefixedLeads
<1>2. k \in Nat /\ DOMAIN list = 1..k /\ \A i \in 1..k : IsPair(list[i])
  <2>1. k \in Nat /\ DOMAIN list = 1..k
    BY <1>1, LenProperties
  <2>. QED
    BY <1>1, <2>1 DEF Leading
<1>. HIDE DEF list
<1>3. keys = [i \in 1..k |-> [key |-> list[i].name, value |-> list[i].value]]
  BY <1>2 DEF KeysAndValues
<1>4. Len(keys) = k /\ \A i \in 1..k : keys[i].key = list[i].name /\ keys[i].value = list[i].value
  <2>. HIDE DEF keys
  <2>. QED
    BY <1>2, <1>3
<1>5. getHeaderValue(keys, name) = IF at = 0 THEN <<>> ELSE keys[at].value
  BY DEF getHeaderValue, SelectInSeq
<1>6. I = NamedAt(list, name)
  BY <1>1, <1>2, <1>4 DEF NamedAt
<1>7. I \subseteq 1..k /\ I \subseteq Nat /\ 0 \notin I
  BY <1>4
<1>. HIDE DEF I, keys
<1>8. I # {} => Min(I) \in I
  BY <1>7, LeastNumber
<1>9. getHeaderValue(keys, name) = ValueAt(list, NamedAt(list, name), <<>>)
  BY <1>4, <1>5, <1>6, <1>7, <1>8 DEF ValueAt
<1>. QED
  BY <1>1, <1>2, <1>9, FirstNamed DEF list, keys

(* The names the server that speaks FastCGI writes are the same, but for   *)
(* their case and the _.                                                   *)
LEMMA EnvNameAlike ==
  ASSUME NEW name
  PROVE  LowerCase(EnvName(name)) = LowerCase(Underscored(name))
<1>. DEFINE s == Underscored(name)
<1>. HIDE DEF s
<1>1. /\ DOMAIN Lower = {"Host", "HOST", "ID", "Id", "X", "Close"}
      /\ Lower["Host"] = "host" /\ Lower["HOST"] = "host"
      /\ Lower["ID"] = "id" /\ Lower["Id"] = "id" /\ Lower["X"] = "x"
  BY DEF Lower
<1>0. /\ DOMAIN Upper = {"Host", "host", "id", "Id", "x"}
      /\ Upper["Host"] = "HOST" /\ Upper["host"] = "HOST"
      /\ Upper["id"] = "ID" /\ Upper["Id"] = "ID" /\ Upper["x"] = "X"
  BY DEF Upper
<1>. DEFINE env(c) == IF c \in DOMAIN Upper THEN Upper[c] ELSE c
            low(c) == IF c \in DOMAIN Lower THEN Lower[c] ELSE c
<1>2. ASSUME NEW c PROVE low(env(c)) = low(c)
  <2>1. CASE c \in {"Host", "host"}
    BY <1>0, <1>1, <2>1
  <2>2. CASE c \in {"id", "Id"}
    BY <1>0, <1>1, <2>2
  <2>3. CASE c = "x"
    BY <1>0, <1>1, <2>3
  <2>4. CASE c \notin DOMAIN Upper
    BY <2>4
  <2>. QED
    BY <1>0, <2>1, <2>2, <2>3, <2>4
<1>3. EnvName(name) = [i \in DOMAIN s |-> env(s[i])]
  BY DEF EnvName, UpperCase, s
<1>4. LowerCase(s) = [i \in DOMAIN s |-> low(s[i])]
  BY DEF LowerCase
<1>5. LowerCase(EnvName(name)) = [i \in DOMAIN EnvName(name) |-> low(EnvName(name)[i])]
  BY DEF LowerCase
<1>. HIDE DEF env, low
<1>6. /\ DOMAIN EnvName(name) = DOMAIN s
      /\ \A i \in DOMAIN s : EnvName(name)[i] = env(s[i])
  BY <1>3
<1>. QED
  BY <1>2, <1>4, <1>5, <1>6 DEF s

(* What AnswersAsSent says of a header over FastCGI. *)
EnvNamedAt(list, name) ==
  {i \in 1..Len(list) : /\ IsEnvHeader(list[i])
                        /\ EqualIgnoringCase(Underscored(list[i].name), name)}
EnvHeaderSent(list, name) ==
  FirstValue(list, LAMBDA l : /\ IsEnvHeader(l)
                              /\ EqualIgnoringCase(Underscored(l.name), name), <<>>)

LEMMA FirstEnvNamed ==
  ASSUME NEW list, NEW name, Len(list) \in Nat
  PROVE  EnvHeaderSent(list, name) = ValueAt(list, EnvNamedAt(list, name), <<>>)
<1>. DEFINE I == {i \in 1..Len(list) : /\ IsEnvHeader(list[i])
                                       /\ EqualIgnoringCase(Underscored(list[i].name), name)}
            at == IF I # {} THEN Min(I) ELSE 0
<1>1. EnvHeaderSent(list, name) = IF at = 0 THEN <<>> ELSE list[at].value
  BY DEF EnvHeaderSent, FirstValue, SelectInSeq
<1>2. I = EnvNamedAt(list, name)
  BY DEF EnvNamedAt
<1>3. I \subseteq Nat /\ 0 \notin I
  OBVIOUS
<1>. HIDE DEF I
<1>4. I # {} => Min(I) \in I
  BY <1>3, LeastNumber
<1>. QED
  BY <1>1, <1>2, <1>3, <1>4 DEF ValueAt

(* il_getRequestHeader over FastCGI: the lines that are no header there    *)
(* are left out, and of the others the first with the name is the first.   *)
LEMMA EnvHeaderFound ==
  ASSUME NEW S, NEW lines \in Seq(S), NEW name
  PROVE  getHeaderValue(EnvHeaders(lines), name) = EnvHeaderSent(lines, name)
<1>. DEFINE n == Len(lines)
            stop == {}
            skip == {i \in 1..n : ~IsEnvHeader(lines[i])}
            header(i) == [key |-> EnvName(lines[i].name), value |-> lines[i].value]
            rec == [i \in 1..n |-> header(i)]
            entry(f, i) == IF i > Len(lines) THEN <<>>
                           ELSE IF IsEnvHeader(lines[i])
                                THEN <<[key |-> EnvName(lines[i].name), value |-> lines[i].value]>> \o f[i + 1]
                                ELSE f[i + 1]
            From(f) == f = [i \in 1..(Len(lines) + 1) |-> entry(f, i)]
            out == CHOOSE f : From(f)
            sieved(f, i) == IF i = n + 1 \/ i \in stop THEN <<>>
                            ELSE IF i \in skip THEN f[i + 1] ELSE <<rec[i]>> \o f[i + 1]
<1>1. n \in Nat
  BY LenProperties
<1>2. EnvHeaders(lines) = out[1]
  BY DEF EnvHeaders
<1>3. ASSUME NEW f, NEW i \in 1..(n + 1) PROVE entry(f, i) = sieved(f, i)
  <2>1. CASE i = n + 1
    BY <1>1, <2>1
  <2>2. CASE i # n + 1
    <3>1. i \in 1..n /\ ~(i > Len(lines))
      BY <1>1, <2>2
    <3>2. rec[i] = header(i) /\ (i \in skip <=> ~IsEnvHeader(lines[i])) /\ i \notin stop
      BY <3>1
    <3>. HIDE DEF rec, stop, skip, n
    <3>. QED
      BY <2>2, <3>1, <3>2
  <2>. QED
    BY <2>1, <2>2
<1>4. \A f : From(f) <=> Sieves(f, n, stop, skip, rec)
  <2>. SUFFICES ASSUME NEW f PROVE From(f) <=> Sieves(f, n, stop, skip, rec)
    OBVIOUS
  <2>. HIDE DEF entry, sieved
  <2>1. [i \in 1..(n + 1) |-> entry(f, i)] = [i \in 1..(n + 1) |-> sieved(f, i)]
    BY <1>3
  <2>2. Sieves(f, n, stop, skip, rec) <=> f = [i \in 1..(n + 1) |-> sieved(f, i)]
    BY DEF Sieves, sieved
  <2>. QED
    BY <2>1, <2>2
<1>5. Sieves(out, n, stop, skip, rec)
  <2>. HIDE DEF From, stop, skip, rec, n
  <2>1. \E f : From(f)
    BY <1>1, <1>4, SieveComputed
  <2>2. From(out)
    BY <2>1
  <2>. HIDE DEF out
  <2>. QED
    BY <1>4, <2>2
<1>. HIDE DEF out, entry, From, sieved
<1>. DEFINE T == {rec[i] : i \in 1..n}
            M == {x \in T : EqualIgnoringCase(x.key, name)}
            kept == {i \in 1..n : i \notin skip /\ rec[i] \in M}
            list == out[1]
<1>6. \A i \in 1..n : rec[i] = header(i) /\ (i \in skip <=> ~IsEnvHeader(lines[i]))
  OBVIOUS
<1>7. kept = EnvNamedAt(lines, name)
  <2>1. ASSUME NEW i \in 1..n
        PROVE  rec[i] \in M <=> EqualIgnoringCase(Underscored(lines[i].name), name)
    <3>1. rec[i] \in T /\ rec[i].key = EnvName(lines[i].name)
      BY <1>6
    <3>2. EqualIgnoringCase(rec[i].key, name)
            <=> EqualIgnoringCase(Underscored(lines[i].name), name)
      BY <3>1, EnvNameAlike DEF EqualIgnoringCase
    <3>. HIDE DEF T, rec
    <3>. QED
      BY <3>1, <3>2
  <2>. HIDE DEF M, skip, rec, header
  <2>. QED
    BY <1>6, <2>1 DEF EnvNamedAt
<1>8. list \in Seq(T) /\ SievedWell(list, kept, rec, M)
  <2>. DEFINE U == T
              N == M
  <2>1. \A i \in 1..n : i \notin skip => rec[i] \in U
    OBVIOUS
  <2>2. stop = {}
    OBVIOUS
  <2>3. kept = KeptIn(N, n, skip, rec)
    BY DEF KeptIn
  <2>. HIDE DEF U, N, n, skip, rec, stop, kept
  <2>4. Sieves(out, n, {}, skip, rec)
    BY <1>5, <2>2
  <2>5. out[1] \in Seq(U) /\ SievedWell(out[1], KeptIn(N, n, skip, rec), rec, N)
    BY <1>1, <2>1, <2>4, SieveFirst
  <2>. QED
    BY <2>3, <2>5 DEF U, N
<1>. DEFINE I == {j \in 1..Len(list) : EqualIgnoringCase(list[j].key, name)}
            at == IF I # {} THEN Min(I) ELSE 0
<1>9. getHeaderValue(list, name) = IF at = 0 THEN <<>> ELSE list[at].value
  BY DEF getHeaderValue, SelectInSeq
<1>10. \A j : j \in I <=> j \in 1..Len(list) /\ list[j] \in M
  <2>1. \A j \in 1..Len(list) : list[j] \in T
    <3>. HIDE DEF T, list
    <3>. QED
      BY <1>8, ElementOfSeq
  <2>. HIDE DEF T, list
  <2>. QED
    BY <2>1
<1>11. I \subseteq Nat /\ 0 \notin I
  OBVIOUS
<1>12. kept \subseteq 1..n /\ kept \subseteq Nat
  OBVIOUS
<1>13. \A i \in 1..n : rec[i].value = lines[i].value
  BY <1>6
<1>. HIDE DEF I, kept, M, list, T, rec, skip, header
<1>14. CASE kept = {}
  <2>1. I = {}
    BY <1>8, <1>10, <1>14 DEF NoneIn, SievedWell
  <2>2. getHeaderValue(list, name) = <<>>
    BY <1>9, <2>1
  <2>. QED
    BY <1>1, <1>2, <1>7, <1>14, <2>2, FirstEnvNamed DEF ValueAt, list
<1>15. CASE kept # {}
  <2>. DEFINE k == Min(kept)
  <2>1. k \in kept /\ \A i \in kept : k <= i
    BY <1>12, <1>15, LeastNumber
  <2>. HIDE DEF k
  <2>2. \A l \in 1..(k - 1) : l \notin kept
    BY <1>12, <2>1
  <2>3. FirstIn(list, M, rec[k])
    BY <1>8, <2>1, <2>2 DEF SievedWell
  <2>4. PICK j \in 1..Len(list) : /\ list[j] = rec[k] /\ rec[k] \in M
                                  /\ \A l \in 1..(j - 1) : list[l] \notin M
    BY <2>3 DEF FirstIn
  <2>5. j \in I
    BY <1>10, <2>4
  <2>6. Len(list) \in Nat
    BY <1>8, LenProperties
  <2>7. ASSUME NEW i \in I PROVE j <= i
    <3>1. i \in 1..Len(list) /\ list[i] \in M
      BY <1>10
    <3>2. ~(i \in 1..(j - 1))
      BY <2>4, <3>1
    <3>. QED
      BY <2>6, <3>1, <3>2
  <2>8. Min(I) = j
    BY <1>11, <2>5, <2>7, LeastOf
  <2>9. I # {} /\ j # 0
    BY <1>11, <2>5
  <2>10. getHeaderValue(list, name) = list[j].value
    BY <1>9, <2>8, <2>9
  <2>11. list[j].value = lines[k].value
    BY <1>12, <1>13, <2>1, <2>4
  <2>12. ValueAt(lines, kept, <<>>) = lines[k].value
    BY <1>15 DEF ValueAt, k
  <2>. QED
    BY <1>1, <1>2, <1>7, <2>10, <2>11, <2>12, FirstEnvNamed DEF list
<1>. QED
  BY <1>14, <1>15

(* il_getParmStr, with the list of the parameters. *)
ParmValue(list, name) ==
  LET p == SelectInSeq(list, LAMBDA x :
             Len(x.key) = Len(name) /\ EqualIgnoringCase(urldecodeBuf(x.key), name))
  IN IF p = 0 THEN Default ELSE urldecodeBuf(list[p].value)

(* Strings that differ in case only have the same length. *)
LEMMA AlikeAsLong ==
  ASSUME NEW S, NEW T, NEW s \in Seq(S), NEW t \in Seq(T), EqualIgnoringCase(s, t)
  PROVE  Len(s) = Len(t)
<1>1. /\ DOMAIN s = 1..Len(s) /\ Len(s) \in Nat
      /\ DOMAIN t = 1..Len(t) /\ Len(t) \in Nat
  BY LenProperties
<1>2. DOMAIN LowerCase(s) = DOMAIN s /\ DOMAIN LowerCase(t) = DOMAIN t
  BY DEF LowerCase
<1>3. 1..Len(s) = 1..Len(t)
  BY <1>1, <1>2 DEF EqualIgnoringCase
<1>. DEFINE a == Len(s)
            b == Len(t)
<1>4. a \in Nat /\ b \in Nat /\ \A i : i \in 1..a <=> i \in 1..b
  BY <1>1, <1>3
<1>. HIDE DEF a, b
<1>5. a = b
  <2>1. a <= b
    <3>1. CASE a = 0
      BY <1>4, <3>1
    <3>2. CASE a # 0
      <4>1. a \in 1..a
        BY <1>4, <3>2
      <4>2. a \in 1..b
        BY <1>4, <4>1
      <4>. QED
        BY <1>4, <4>2
    <3>. QED
      BY <3>1, <3>2
  <2>2. b <= a
    <3>1. CASE b = 0
      BY <1>4, <3>1
    <3>2. CASE b # 0
      <4>1. b \in 1..b
        BY <1>4, <3>2
      <4>2. b \in 1..a
        BY <1>4, <4>1
      <4>. QED
        BY <1>4, <4>2
    <3>. QED
      BY <3>1, <3>2
  <2>. QED
    BY <1>4, <2>1, <2>2
<1>. QED
  BY <1>5 DEF a, b

(* il_getParmStr: the first of the parameters with the name, if its name   *)
(* needs no escape, decoded; what lies behind one without a value is not   *)
(* found.                                                                  *)
LEMMA ParmFound ==
  ASSUME NEW parms \in Seq(SentParms), NEW name \in Seq(STRING)
  PROVE  ParmValue(EncodedPairs(Prefixed(parms)), name) = ParmSent(Prefixed(parms), name)
<1>. DEFINE list == Prefixed(parms)
            pairs == EncodedPairs(list)
            I == {i \in 1..Len(pairs) : /\ Len(pairs[i].key) = Len(name)
                                        /\ EqualIgnoringCase(urldecodeBuf(pairs[i].key), name)}
            J == {i \in 1..Len(list) : /\ Encoded(list[i].name) = list[i].name
                                       /\ EqualIgnoringCase(list[i].name, name)}
            at == IF I # {} THEN Min(I) ELSE 0
            found == IF J # {} THEN Min(J) ELSE 0
<1>1. PICK k : /\ Leading(parms, k)
               /\ list \in Seq(SentParms) /\ Len(list) = k
               /\ \A i \in 1..k : list[i] = parms[i]
  BY PrefixedLeads
<1>2. ParmValue(pairs, name) = IF at = 0 THEN Default ELSE urldecodeBuf(pairs[at].value)
  BY DEF ParmValue, SelectInSeq
<1>3. ParmSent(list, name) = IF found = 0 THEN Default ELSE list[found].value
  BY DEF ParmSent, FirstValue, SelectInSeq
<1>. HIDE DEF list
<1>4. k \in Nat /\ DOMAIN list = 1..k
      /\ \A i \in 1..k : list[i] \in SentParms /\ IsPair(list[i])
  <2>1. k \in Nat /\ \A i \in 1..k : IsPair(parms[i])
    BY <1>1, LenProperties DEF Leading
  <2>2. DOMAIN list = 1..k
    BY <1>1, LenProperties
  <2>3. \A i \in 1..k : list[i] \in SentParms
    BY <1>1, ElementOfSeq
  <2>. QED
    BY <1>1, <2>1, <2>2, <2>3
<1>5. pairs = [i \in 1..k |-> [key |-> Encoded(list[i].name), value |-> Encoded(list[i].value)]]
  BY <1>4 DEF EncodedPairs
<1>6. /\ Len(pairs) = k
      /\ \A i \in 1..k : /\ pairs[i].key = Encoded(list[i].name)
                         /\ pairs[i].value = Encoded(list[i].value)
  <2>. HIDE DEF pairs
  <2>. QED
    BY <1>4, <1>5
<1>. HIDE DEF pairs
<1>7. ASSUME NEW i \in 1..k
      PROVE  /\ urldecodeBuf(pairs[i].value) = list[i].value
             /\ /\ Len(pairs[i].key) = Len(name)
                /\ EqualIgnoringCase(urldecodeBuf(pairs[i].key), name)
                <=> /\ Encoded(list[i].name) = list[i].name
                    /\ EqualIgnoringCase(list[i].name, name)
  <2>. DEFINE n == list[i].name
              v == list[i].value
  <2>1. n \in Text(ValueEnds) /\ v \in Text(ValueEnds)
    BY <1>4, ParmKinds
  <2>2. pairs[i].key = Encoded(n) /\ pairs[i].value = Encoded(v)
    BY <1>6
  <2>. HIDE DEF n, v
  <2>3. urldecodeBuf(pairs[i].key) = n /\ urldecodeBuf(pairs[i].value) = v
    BY <2>1, <2>2, DecodesEncoded
  <2>4. Len(Encoded(n)) = Len(n) <=> Encoded(n) = n
    BY <2>1, EscapesLengthen
  <2>5. n \in Seq(Tokens)
    BY <2>1 DEF Text, Strings
  <2>6. EqualIgnoringCase(n, name) => Len(n) = Len(name)
    BY <2>5, AlikeAsLong
  <2>. QED
    BY <2>2, <2>3, <2>4, <2>6 DEF n, v
<1>8. I = J
  BY <1>1, <1>6, <1>7
<1>9. I \subseteq 1..k /\ I \subseteq Nat /\ 0 \notin I
  BY <1>6
<1>. HIDE DEF I, J
<1>10. I # {} => Min(I) \in I
  BY <1>9, LeastNumber
<1>. QED
  BY <1>2, <1>3, <1>7, <1>8, <1>9, <1>10 DEF list, pairs

(* il_serveStatic: the extension is what lies behind the last dot, and     *)
(* its type that of the documentation, in upper and lower case.            *)
LEMMA LowerCaseTyped ==
  ASSUME NEW S, NEW s \in Seq(S)
  PROVE  \E T : LowerCase(s) \in Seq(T) /\ Len(LowerCase(s)) = Len(s)
<1>. DEFINE n == Len(s)
            low(c) == IF c \in DOMAIN Lower THEN Lower[c] ELSE c
            T == {low(s[i]) : i \in 1..n}
<1>1. n \in Nat /\ DOMAIN s = 1..n
  BY LenProperties
<1>2. LowerCase(s) = [i \in 1..n |-> low(s[i])]
  BY <1>1 DEF LowerCase
<1>. HIDE DEF low, n
<1>3. \A i \in 1..n : low(s[i]) \in T
  OBVIOUS
<1>. HIDE DEF T
<1>4. [i \in 1..n |-> low(s[i])] \in Seq(T) /\ Len([i \in 1..n |-> low(s[i])]) = n
  BY <1>1, <1>3
<1>. QED
  BY <1>2, <1>4 DEF n

(* A sequence is the one with x alone when it has length 1 and begins with *)
(* x.                                                                      *)
LEMMA OfOne ==
  ASSUME NEW S, NEW s \in Seq(S), NEW x
  PROVE  s = <<x>> <=> Len(s) = 1 /\ s[1] = x
<1>. DEFINE t == <<x>>
            T == {x}
<1>1. t \in Seq(T) /\ Len(t) = 1 /\ t[1] = x
  OBVIOUS
<1>. HIDE DEF t, T
<1>2. ASSUME Len(s) = 1, s[1] = x PROVE s = t
  <2>1. s = [i \in 1..1 |-> s[i]] /\ t = [i \in 1..1 |-> t[i]]
    BY <1>1, <1>2, LenProperties
  <2>2. \A i \in 1..1 : s[i] = t[i]
    BY <1>1, <1>2
  <2>. QED
    BY <2>1, <2>2
<1>. QED
  BY <1>1, <1>2 DEF t

(* Nothing is appended with the empty sequence.                            *)
LEMMA NothingBehind ==
  ASSUME NEW S, NEW w \in S, NEW s \in Seq(S)
  PROVE  (<<w>> \o s) \o <<>> = <<w>> \o s
<1>. DEFINE e == <<w>>
            t == e \o s
<1>1. e \in Seq(S)
  OBVIOUS
<1>. HIDE DEF e
<1>2. t \in Seq(S)
  BY <1>1, ConcatProperties
<1>. HIDE DEF t
<1>3. t \o <<>> = t
  BY <1>2, ConcatEmptySeq
<1>. QED
  BY <1>3 DEF t, e

(* MimeType gives an extension, in upper or lower case, the documented     *)
(* type, when nothing of an earlier string lies behind it.                 *)
LEMMA TypeDocumented ==
  ASSUME NEW ext \in Seq(STRING)
  PROVE  MimeType(ext, <<>>) = DocumentedType(ext)
<1>. DEFINE none == <<>>
            kind == LowerCase(ext)
            Is1(names) == Len(kind) = 1 /\ kind[1] \in names
<1>1. ext \o none = ext
  BY ConcatEmptySeq
<1>2. PICK T : kind \in Seq(T) /\ Len(kind) = Len(ext)
  BY LowerCaseTyped
<1>3. Len(kind) \in Nat
  BY <1>2, LenProperties
<1>4. kind = <<>> <=> Len(kind) = 0
  <2>. HIDE DEF kind
  <2>. QED
    BY <1>2, EmptySeq
<1>5. ext = <<>> <=> Len(kind) = 0
  <2>. HIDE DEF kind
  <2>. QED
    BY <1>2, EmptySeq
<1>6. \A x : kind = <<x>> <=> Len(kind) = 1 /\ kind[1] = x
  <2>. HIDE DEF kind
  <2>. QED
    BY <1>2, OfOne
<1>7. MimeType(ext, none) =
        IF ext = <<>> \/ Is1({"html", "htm"}) THEN <<"text", "html">>
        ELSE (<<IF Is1(ImageTypes) THEN "image" ELSE IF Is1({"css"}) THEN "text"
                ELSE "application">> \o ext) \o none
  <2>. HIDE DEF none
  <2>. QED
    BY <1>1 DEF MimeType
<1>8. /\ <<"text">> \o ext \o none = <<"text">> \o ext
      /\ <<"image">> \o ext \o none = <<"image">> \o ext
      /\ <<"application">> \o ext \o none = <<"application">> \o ext
  <2>. DEFINE S == STRING \cup {"text", "image", "application"}
              l == Len(ext)
  <2>0. ext \in Seq(S)
    <3>. DEFINE U == STRING
    <3>1. ext \in Seq(U) /\ \A x \in U : x \in S
      OBVIOUS
    <3>. HIDE DEF S, U
    <3>2. l \in Nat /\ ext = [k \in 1..l |-> ext[k]] /\ \A k \in 1..l : ext[k] \in S
      BY <3>1, LenProperties, ElementOfSeq
    <3>. HIDE DEF l
    <3>3. [k \in 1..l |-> ext[k]] \in Seq(S)
      BY <3>2
    <3>. QED
      BY <3>2, <3>3
  <2>1. "text" \in S /\ "image" \in S /\ "application" \in S
    OBVIOUS
  <2>. HIDE DEF S
  <2>2. \A w \in S : (<<w>> \o ext) \o <<>> = <<w>> \o ext
    BY <2>0, NothingBehind
  <2>. QED
    BY <2>1, <2>2, Zenon
<1>9. DocumentedType(ext) =
        CASE kind \in {<<>>, <<"html">>, <<"htm">>} -> <<"text", "html">>
          [] kind = <<"css">> -> <<"text">> \o ext
          [] \E type \in ImageTypes : kind = <<type>> -> <<"image">> \o ext
          [] OTHER -> <<"application">> \o ext
  BY DEF DocumentedType
<1>10. /\ kind \in {<<>>, <<"html">>, <<"htm">>} <=> ext = <<>> \/ Is1({"html", "htm"})
       /\ kind = <<"css">> <=> Is1({"css"})
       /\ (\E type \in ImageTypes : kind = <<type>>) <=> Is1(ImageTypes)
  <2>1. kind \in {<<>>, <<"html">>, <<"htm">>} <=> ext = <<>> \/ Is1({"html", "htm"})
    <3>. HIDE DEF kind
    <3>. QED
      BY <1>4, <1>5, <1>6
  <2>2. kind = <<"css">> <=> Is1({"css"})
    <3>. HIDE DEF kind
    <3>. QED
      BY <1>6
  <2>3. (\E type \in ImageTypes : kind = <<type>>) <=> Is1(ImageTypes)
    <3>. HIDE DEF kind
    <3>. QED
      BY <1>6
  <2>. QED
    BY <2>1, <2>2, <2>3
<1>11. ~(Is1({"css"}) /\ Is1(ImageTypes)) /\ ~(Is1({"html", "htm"}) /\ Is1({"css"}))
       /\ ~(Is1({"html", "htm"}) /\ Is1(ImageTypes))
  <2>. HIDE DEF kind
  <2>. QED
    BY DEF ImageTypes
<1>12. ext = <<>> => ~Is1({"css"}) /\ ~Is1(ImageTypes)
  <2>. HIDE DEF kind
  <2>. QED
    BY <1>5
<1>. HIDE DEF kind, none
<1>. DEFINE blank == ext = <<>> \/ Is1({"html", "htm"})
            css == Is1({"css"})
            image == Is1(ImageTypes)
<1>13. ~(css /\ image) /\ ~(blank /\ css) /\ ~(blank /\ image)
  BY <1>11, <1>12
<1>14. MimeType(ext, none) =
        IF blank THEN <<"text", "html">>
        ELSE (<<IF image THEN "image" ELSE IF css THEN "text" ELSE "application">> \o ext) \o none
  BY <1>7
<1>15. DocumentedType(ext) =
        CASE blank -> <<"text", "html">>
          [] css -> <<"text">> \o ext
          [] image -> <<"image">> \o ext
          [] OTHER -> <<"application">> \o ext
  BY <1>9, <1>10
<1>. HIDE DEF blank, css, image
<1>. SUFFICES MimeType(ext, none) = DocumentedType(ext)
  BY DEF none
<1>16. CASE blank
  BY <1>13, <1>14, <1>15, <1>16
<1>17. CASE css
  <2>1. MimeType(ext, none) = <<"text">> \o ext \o none
    BY <1>13, <1>14, <1>17
  <2>2. DocumentedType(ext) = <<"text">> \o ext
    BY <1>13, <1>15, <1>17
  <2>. QED
    BY <1>8, <2>1, <2>2, Zenon
<1>18. CASE image
  <2>1. MimeType(ext, none) = <<"image">> \o ext \o none
    BY <1>13, <1>14, <1>18
  <2>2. DocumentedType(ext) = <<"image">> \o ext
    BY <1>13, <1>15, <1>18
  <2>. QED
    BY <1>8, <2>1, <2>2, Zenon
<1>19. CASE ~blank /\ ~css /\ ~image
  <2>1. MimeType(ext, none) = <<"application">> \o ext \o none
    BY <1>14, <1>19
  <2>2. DocumentedType(ext) = <<"application">> \o ext
    BY <1>15, <1>19
  <2>. QED
    BY <1>8, <2>1, <2>2, Zenon
<1>. QED
  BY <1>16, <1>17, <1>18, <1>19

(* il_getFileExtension returns what lies behind the last dot.              *)
LEMMA ExtensionFound ==
  ASSUME NEW fileName \in Seq(STRING \ {"null"}), NEW i \in DOMAIN fileName, fileName[i] = ".",
         "." \notin ToSet(SubSeq(fileName, i + 1, Len(fileName)))
  PROVE  LET ext == SubSeq(fileName, i + 1, Len(fileName)) IN
         il_getFileExtension(fileName) = ext /\ ext # NULL /\ ext \in Seq(STRING)
<1>. DEFINE S == STRING \ {"null"}
            n == Len(fileName)
            from == i + 1
            ext == SubSeq(fileName, from, n)
            I == {k \in 1..n : fileName[k] = "."}
            dot == IF I # {} THEN Max(I) ELSE 0
<1>1. n \in Nat /\ DOMAIN fileName = 1..n /\ \A k \in 1..n : fileName[k] \in S
  <2>. HIDE DEF S
  <2>. QED
    BY LenProperties, ElementOfSeq DEF S
<1>2. i \in 1..n /\ from \in Int
  BY <1>1
<1>3. /\ ext \in Seq(S) /\ Len(ext) = IF from <= n THEN n - from + 1 ELSE 0
      /\ \A k \in 1..(n - from + 1) : ext[k] = fileName[from + k - 1]
  <2>. DEFINE p == from
  <2>1. p \in Int /\ n \in Int /\ \A k \in p..n : fileName[k] \in S
    BY <1>1, <1>2
  <2>. HIDE DEF S, p
  <2>. QED
    BY <2>1, SubSeqProperties DEF p
<1>4. \A k \in 1..Len(ext) : ext[k] # "."
  <2>1. DOMAIN ext = 1..Len(ext)
    <3>. HIDE DEF ext, S
    <3>. QED
      BY <1>3, LenProperties
  <2>2. "." \notin {ext[k] : k \in DOMAIN ext}
    BY DEF ToSet
  <2>. HIDE DEF ext
  <2>. QED
    BY <2>1, <2>2
<1>5. ASSUME NEW k \in I PROVE k <= i
  <2>. SUFFICES ASSUME k > i PROVE FALSE
    BY <1>1, <1>2
  <2>1. k \in 1..n /\ fileName[k] = "."
    OBVIOUS
  <2>2. k - i \in 1..(n - from + 1) /\ from + (k - i) - 1 = k /\ from <= n
    BY <1>1, <1>2, <2>1
  <2>3. k - i \in 1..Len(ext)
    BY <1>3, <2>2
  <2>4. ext[k - i] = "."
    BY <1>3, <2>1, <2>2
  <2>. QED
    BY <1>4, <2>3, <2>4
<1>6. i \in I /\ I \subseteq Nat
  BY <1>2
<1>7. il_getFileExtension(fileName) = IF dot = 0 THEN NULL ELSE SubSeq(fileName, dot + 1, n)
  BY DEF il_getFileExtension, SelectLastInSeq
<1>8. dot = i
  <2>. HIDE DEF I
  <2>1. Max(I) \in I /\ \A y \in I : Max(I) >= y
    <3>1. \E x \in I : \A y \in I : x >= y
      BY <1>5, <1>6
    <3>. QED
      BY <3>1 DEF Max
  <2>2. Max(I) >= i /\ Max(I) <= i
    BY <1>5, <1>6, <2>1
  <2>3. Max(I) = i
    BY <1>6, <2>1, <2>2
  <2>. QED
    BY <1>6, <2>3
<1>9. i # 0
  BY <1>2
<1>10. il_getFileExtension(fileName) = ext
  BY <1>7, <1>8, <1>9
<1>11. ext # NULL
  <2>. HIDE DEF ext
  <2>. SUFFICES ASSUME ext = NULL PROVE FALSE
    OBVIOUS
  <2>1. Len(NULL) = 1 /\ NULL[1] = "null"
    BY DEF NULL
  <2>2. Len(ext) = 1 /\ ext[1] = "null"
    BY <2>1
  <2>3. ext[1] \in S
    <3>1. 1 \in 1..Len(ext)
      BY <2>2
    <3>. HIDE DEF S
    <3>. QED
      BY <1>3, <3>1, ElementOfSeq
  <2>. QED
    BY <2>2, <2>3
<1>12. ext \in Seq(STRING)
  <2>. HIDE DEF ext
  <2>. DEFINE U == STRING
              l == Len(ext)
  <2>1. \A x \in S : x \in U
    OBVIOUS
  <2>. HIDE DEF S, U
  <2>2. l \in Nat /\ ext = [k \in 1..l |-> ext[k]] /\ \A k \in 1..l : ext[k] \in S
    BY <1>3, LenProperties, ElementOfSeq
  <2>3. \A k \in 1..l : ext[k] \in U
    BY <2>1, <2>2
  <2>. HIDE DEF l
  <2>4. [k \in 1..l |-> ext[k]] \in Seq(U)
    BY <2>2, <2>3, SMTT(30)
  <2>. QED
    BY <2>2, <2>4 DEF U
<1>. QED
  BY <1>10, <1>11, <1>12
=============================================================================

--------------------------- MODULE RequestProofs ---------------------------
(***************************************************************************)
(* Proofs about the reading of a request: where the loop of                *)
(* receiveHeaderHTTP sees the end of a head, that no thread waits for      *)
(* bytes which do not come, that a request arrives as it was sent and the  *)
(* getters answer from it what the client composed, that parserRouting     *)
(* yields a list of names whatever the expression, and the route and       *)
(* parameters findRoute may leave.                                         *)
(***************************************************************************)
EXTENDS ParsingProofs

-----------------------------------------------------------------------------
(* The end of a head.                                                      *)

(* An empty line, as the four bytes it ends with. *)
LEMMA OccursEmptyLine ==
  ASSUME NEW m \in Seq(STRING), NEW p \in Nat \ {0}
  PROVE  Occurs(m, Eol \o Eol, p) <=>
           /\ p + 3 <= Len(m)
           /\ m[p] = "CR" /\ m[p + 1] = "LF" /\ m[p + 2] = "CR" /\ m[p + 3] = "LF"
<1>1. Eol \o Eol = <<"CR", "LF", "CR", "LF">>
  <2>. DEFINE two == Eol \o Eol
              S == {"CR", "LF"}
  <2>. HIDE DEF S
  <2>1. "CR" \in S /\ "LF" \in S
    BY DEF S
  <2>2. Eol \in Seq(S) /\ Len(Eol) = 2 /\ Eol[1] = "CR" /\ Eol[2] = "LF"
    BY <2>1 DEF Eol
  <2>3. /\ two \in Seq(S) /\ Len(two) = Len(Eol) + Len(Eol)
        /\ \A i \in 1..(Len(Eol) + Len(Eol)) :
             two[i] = IF i <= Len(Eol) THEN Eol[i] ELSE Eol[i - Len(Eol)]
    BY <2>2, ConcatProperties
  <2>. HIDE DEF two
  <2>4. /\ two \in Seq(S) /\ Len(two) = 4
        /\ two[1] = "CR" /\ two[2] = "LF" /\ two[3] = "CR" /\ two[4] = "LF"
    BY <2>2, <2>3
  <2>5. two = [i \in 1..4 |-> two[i]]
    BY <2>4, LenProperties
  <2>6. two = <<two[1], two[2], two[3], two[4]>>
    BY <2>5
  <2>. QED
    BY <2>4, <2>6 DEF two
<1>2. Len(Eol \o Eol) = 4
  BY <1>1
<1>3. Len(m) \in Nat
  BY LenProperties
<1>4. CASE p + 3 <= Len(m)
  <2>. DEFINE four == SubSeq(m, p, p + 4 - 1)
  <2>1. \A i \in p..(p + 3) : m[i] \in STRING
    BY <1>3, <1>4, ElementOfSeq
  <2>2. four \in Seq(STRING) /\ Len(four) = 4 /\ \A i \in 1..4 : four[i] = m[p + i - 1]
    BY <2>1, SubSeqProperties
  <2>3. four[1] = m[p] /\ four[2] = m[p + 1] /\ four[3] = m[p + 2] /\ four[4] = m[p + 3]
    BY <2>2
  <2>. HIDE DEF four
  <2>4. four = <<four[1], four[2], four[3], four[4]>>
    <3>1. four = [i \in 1..4 |-> four[i]]
      BY <2>2, LenProperties
    <3>. QED
      BY <3>1
  <2>5. four = <<"CR", "LF", "CR", "LF">> <=>
          m[p] = "CR" /\ m[p + 1] = "LF" /\ m[p + 2] = "CR" /\ m[p + 3] = "LF"
    BY <2>3, <2>4
  <2>6. Occurs(m, Eol \o Eol, p) <=> four = <<"CR", "LF", "CR", "LF">>
    BY <1>1, <1>2, <1>3, <1>4 DEF Occurs, four
  <2>. QED
    BY <1>4, <2>5, <2>6
<1>5. CASE ~(p + 3 <= Len(m))
  BY <1>2, <1>3, <1>5 DEF Occurs
<1>. QED
  BY <1>4, <1>5

-----------------------------------------------------------------------------
(* The bytes of a message and the memory they are read into.               *)

(* What a client sends is its head and then its body. *)
LEMMA WireParts ==
  ASSUME NEW s \in Scenarios
  PROVE  LET head == HeadSent(s.message)
             body == s.message.body
             wire == Wire(s.message)
         IN /\ head \in Seq(STRING) /\ body \in Seq(STRING) /\ wire \in Seq(STRING)
            /\ s.memory \in Seq(STRING)
            /\ Len(head) \in Nat /\ Len(body) \in Nat /\ Len(wire) \in Nat
            /\ Len(s.memory) \in Nat
            /\ Len(wire) = Len(head) + Len(body) /\ Len(head) <= Len(wire)
            /\ \A i \in 1..Len(head) : wire[i] = head[i]
            /\ \A i \in 1..Len(body) : wire[Len(head) + i] = body[i]
<1>. DEFINE head == HeadSent(s.message)
            body == s.message.body
<1>1. head \in Seq(STRING) /\ body \in Seq(STRING) /\ s.memory \in Seq(STRING)
  BY ScenariosAssumption
<1>2. Wire(s.message) = head \o body
  BY DEF Wire
<1>. HIDE DEF head, body
<1>3. Len(head) \in Nat /\ Len(body) \in Nat /\ Len(s.memory) \in Nat
  BY <1>1, LenProperties
<1>4. /\ head \o body \in Seq(STRING) /\ Len(head \o body) = Len(head) + Len(body)
      /\ \A i \in 1..(Len(head) + Len(body)) :
           (head \o body)[i] = IF i <= Len(head) THEN head[i] ELSE body[i - Len(head)]
  BY <1>1, ConcatProperties
<1>5. \A i \in 1..Len(head) : (head \o body)[i] = head[i]
  BY <1>3, <1>4
<1>6. ASSUME NEW i \in 1..Len(body) PROVE (head \o body)[Len(head) + i] = body[i]
  <2>. DEFINE j == Len(head) + i
  <2>1. j \in 1..(Len(head) + Len(body)) /\ ~(j <= Len(head)) /\ j - Len(head) = i
    BY <1>3
  <2>. HIDE DEF j
  <2>2. (head \o body)[j] = body[j - Len(head)]
    BY <1>4, <2>1
  <2>. QED
    BY <2>1, <2>2 DEF j
<1>. DEFINE wire == Wire(s.message)
<1>7. /\ wire \in Seq(STRING) /\ Len(wire) = Len(head) + Len(body)
      /\ \A i \in 1..Len(head) : wire[i] = head[i]
      /\ \A i \in 1..Len(body) : wire[Len(head) + i] = body[i]
  BY <1>2, <1>4, <1>5, <1>6
<1>. HIDE DEF wire
<1>8. Len(wire) \in Nat /\ Len(head) <= Len(wire)
  BY <1>3, <1>7
<1>. QED
  BY <1>1, <1>3, <1>7, <1>8 DEF head, body, wire

(* The buffer begins with the bytes received; behind them is the memory,   *)
(* as far as it reaches.                                                   *)
LEMMA BufferParts ==
  ASSUME scenario \in Scenarios, NEW n \in 1..Len(Wire(message))
  PROVE  /\ Buffer(n) \in Seq(STRING)
         /\ Len(Buffer(n)) = IF n < Len(memory) THEN Len(memory) ELSE n
         /\ \A i \in 1..n : Buffer(n)[i] = Wire(message)[i]
<1>. DEFINE wire == Wire(message)
            read == SubSeq(wire, 1, n)
            rest == SubSeq(memory, n + 1, Len(memory))
<1>1. /\ wire \in Seq(STRING) /\ memory \in Seq(STRING)
      /\ Len(wire) \in Nat /\ Len(memory) \in Nat
  BY WireParts DEF message, memory
<1>2. Buffer(n) = read \o rest
  BY DEF Buffer
<1>3. \A i \in 1..n : wire[i] \in STRING
  BY <1>1, ElementOfSeq
<1>4. \A i \in (n + 1)..Len(memory) : memory[i] \in STRING
  BY <1>1, ElementOfSeq
<1>5. n \in 1..Len(wire)
  OBVIOUS
<1>. HIDE DEF wire
<1>6. read \in Seq(STRING) /\ Len(read) = n /\ \A i \in 1..n : read[i] = wire[i]
  BY <1>1, <1>3, <1>5, SubSeqProperties
<1>7. /\ rest \in Seq(STRING)
      /\ Len(rest) = IF n < Len(memory) THEN Len(memory) - n ELSE 0
  BY <1>1, <1>4, <1>5, SubSeqProperties
<1>. HIDE DEF read, rest
<1>8. read \in Seq(STRING) /\ rest \in Seq(STRING) /\ Len(rest) \in Nat
  BY <1>6, <1>7, LenProperties
<1>9. /\ read \o rest \in Seq(STRING) /\ Len(read \o rest) = Len(read) + Len(rest)
      /\ \A i \in 1..Len(read) : (read \o rest)[i] = read[i]
  BY <1>8, ConcatProperties
<1>. QED
  BY <1>1, <1>2, <1>5, <1>6, <1>7, <1>9 DEF wire

(* With n bytes received, lookForHeaders finds the end of the head where   *)
(* it is once the whole head has come; what it finds before that ends      *)
(* behind the bytes received, in the memory, and begins with their last.   *)
LEMMA HeadEndFound ==
  ASSUME scenario \in Scenarios, NEW n \in 1..Len(Wire(message))
  PROVE  LET head == HeadSent(message)
             eoh  == memmem(Buffer(n), Eol \o Eol, 1, n + 1)
         IN /\ n >= Len(head) => eoh # 0 /\ eoh = Len(head) - 3
            /\ n < Len(head) /\ eoh # 0 =>
                 /\ eoh \in 1..n /\ n < eoh + 3
                 /\ memory # <<>> /\ Wire(message)[n] \in {"CR", "LF"}
<1>. DEFINE head == HeadSent(message)
            wire == Wire(message)
            m    == Buffer(n)
            eoh  == memmem(m, Eol \o Eol, 1, n + 1)
            Ends(s, p) == /\ p + 3 <= Len(s)
                          /\ s[p] = "CR" /\ s[p + 1] = "LF"
                          /\ s[p + 2] = "CR" /\ s[p + 3] = "LF"
<1>1. /\ head \in Seq(STRING) /\ Len(head) \in Nat /\ Len(wire) \in Nat
      /\ Len(head) <= Len(wire) /\ \A i \in 1..Len(head) : wire[i] = head[i]
      /\ memory \in Seq(STRING) /\ Len(memory) \in Nat
  BY WireParts DEF message, memory
<1>2. /\ m \in Seq(STRING) /\ \A i \in 1..n : m[i] = wire[i]
      /\ Len(m) = IF n < Len(memory) THEN Len(memory) ELSE n
  BY BufferParts
<1>3. /\ Len(head) - 3 \in 1..Len(head)
      /\ \A p \in 1..Len(head) : Occurs(head, Eol \o Eol, p) <=> p = Len(head) - 3
  <2>1. DOMAIN head = 1..Len(head)
    BY <1>1, LenProperties
  <2>2. {p \in DOMAIN head : Occurs(head, Eol \o Eol, p)} = {Len(head) - 3}
    BY ScenariosAssumption DEF message
  <2>. HIDE DEF head
  <2>. QED
    BY <2>1, <2>2
<1>4. /\ eoh \in {0} \cup (1..n)
      /\ eoh # 0 => /\ Occurs(m, Eol \o Eol, eoh)
                    /\ \A p \in 1..n : Occurs(m, Eol \o Eol, p) => eoh <= p
      /\ eoh = 0 => \A p \in 1..n : ~Occurs(m, Eol \o Eol, p)
  <2>. DEFINE needle == Eol \o Eol
  <2>1. 1 \in Nat \ {0} /\ n + 1 \in Int /\ n + 1 - 1 = n
    BY <1>1
  <2>. HIDE DEF m, needle
  <2>2. /\ eoh \in {0} \cup (1..(n + 1 - 1))
        /\ eoh # 0 => /\ Occurs(m, needle, eoh)
                      /\ \A p \in 1..(n + 1 - 1) : Occurs(m, needle, p) => eoh <= p
        /\ eoh = 0 => \A p \in 1..(n + 1 - 1) : ~Occurs(m, needle, p)
    <3>. DEFINE from == 1
                to == n + 1
                found == memmem(m, needle, from, to)
    <3>. HIDE DEF from, to
    <3>1. from \in Nat \ {0} /\ to \in Int
      BY <2>1 DEF from, to
    <3>2. /\ found \in {0} \cup (from..(to - 1))
          /\ found # 0 => /\ Occurs(m, needle, found)
                          /\ \A p \in from..(to - 1) : Occurs(m, needle, p) => found <= p
          /\ found = 0 => \A p \in from..(to - 1) : ~Occurs(m, needle, p)
      BY <3>1, MemmemFinds
    <3>. QED
      BY <3>2 DEF needle, from, to
  <2>. QED
    BY <2>1, <2>2 DEF needle
<1>5. n \in 1..Len(wire)
  OBVIOUS
<1>6. Len(head) - 3 \in 1..Len(head) /\ \A p \in 1..Len(head) : Ends(head, p) <=> p = Len(head) - 3
  BY <1>1, <1>3, OccursEmptyLine
<1>7. \A p \in 1..n : Occurs(m, Eol \o Eol, p) <=> Ends(m, p)
  BY <1>1, <1>2, OccursEmptyLine
<1>. HIDE DEF head, wire, m, eoh
<1>8. ASSUME NEW p \in 1..n, p + 3 <= n, p + 3 <= Len(head)
      PROVE  p \in 1..Len(head) /\ (Ends(m, p) <=> Ends(head, p))
  <2>1. \A i \in p..(p + 3) : i \in 1..n /\ i \in 1..Len(head)
    BY <1>1, <1>8
  <2>2. \A i \in p..(p + 3) : m[i] = head[i]
    BY <1>1, <1>2, <2>1
  <2>3. /\ p \in p..(p + 3) /\ p + 1 \in p..(p + 3)
        /\ p + 2 \in p..(p + 3) /\ p + 3 \in p..(p + 3)
    OBVIOUS
  <2>4. m[p] = head[p] /\ m[p + 1] = head[p + 1] /\ m[p + 2] = head[p + 2] /\ m[p + 3] = head[p + 3]
    BY <2>2, <2>3
  <2>5. p + 3 <= Len(m)
    BY <1>1, <1>2, <1>8
  <2>. QED
    BY <1>8, <2>1, <2>3, <2>4, <2>5
<1>9. CASE n >= Len(head)
  <2>. DEFINE end == Len(head) - 3
  <2>1. end \in 1..n /\ end + 3 = Len(head) /\ end + 3 <= n /\ Len(head) >= 4
    BY <1>1, <1>6, <1>9
  <2>2. Ends(head, end)
    BY <1>6
  <2>. HIDE DEF Ends, end
  <2>3. Ends(m, end)
    BY <1>8, <2>1, <2>2
  <2>4. eoh # 0 /\ eoh \in 1..n /\ eoh <= end
    BY <1>4, <1>7, <2>1, <2>3
  <2>5. Ends(m, eoh)
    BY <1>4, <1>7, <2>4
  <2>6. eoh + 3 <= n /\ eoh + 3 <= Len(head)
    BY <1>1, <2>1, <2>4
  <2>7. eoh \in 1..Len(head) /\ Ends(head, eoh)
    BY <1>8, <2>4, <2>5, <2>6
  <2>8. eoh = Len(head) - 3
    BY <1>6, <2>7
  <2>. QED
    BY <1>1, <1>9, <2>4, <2>8 DEF head, wire, m, eoh
<1>10. CASE n < Len(head)
  <2>. SUFFICES ASSUME eoh # 0
                PROVE  eoh \in 1..n /\ n < eoh + 3 /\ memory # <<>> /\ wire[n] \in {"CR", "LF"}
    BY <1>1, <1>10 DEF head, wire, m, eoh
  <2>1. eoh \in 1..n /\ Ends(m, eoh)
    BY <1>4, <1>7
  <2>2. n < eoh + 3
    <3>. SUFFICES ASSUME eoh + 3 <= n PROVE FALSE
      BY <1>1, <2>1
    <3>. HIDE DEF Ends
    <3>1. eoh + 3 <= Len(head)
      BY <1>1, <1>10, <2>1
    <3>2. eoh \in 1..Len(head) /\ Ends(head, eoh)
      BY <1>8, <2>1, <3>1
    <3>3. eoh = Len(head) - 3
      BY <1>6, <3>2
    <3>. QED
      BY <1>1, <1>10, <3>3
  <2>3. Len(m) # n
    BY <1>5, <2>1, <2>2
  <2>4. memory # <<>>
    <3>1. n < Len(memory) /\ n > 0
      BY <1>2, <1>5, <2>3
    <3>2. Len(<<>>) = 0
      OBVIOUS
    <3>. QED
      BY <3>1, <3>2
  <2>5. n = eoh \/ n = eoh + 1 \/ n = eoh + 2
    BY <2>1, <2>2
  <2>6. m[n] \in {"CR", "LF"}
    BY <2>1, <2>5
  <2>. QED
    BY <1>2, <1>5, <2>1, <2>2, <2>4, <2>6
<1>. QED
  BY <1>1, <1>5, <1>9, <1>10 DEF head, wire

-----------------------------------------------------------------------------
(* A head that has come as a whole.                                        *)

(* The fields of a request are those of the message. *)
FieldsAsSent(r, msg) ==
  /\ r.method = msg.method
  /\ r.url = UrlSent(msg)
  /\ r.resource = ResourceSent(msg)
  /\ r.protocol = <<"HTTP/1.1">>
  /\ r.parmList = EncodedPairs(Prefixed(msg.parms))
  /\ r.headerList = IF msg.transport = "http" THEN KeysAndValues(Prefixed(LinesSent(msg)))
                    ELSE EnvHeaders(msg.lines)
  /\ msg.transport = "http" =>
       /\ r.segments = msg.segments
       /\ LinesSent(msg) # <<>> => r.headers = HeadersSent(msg)

(* No line of the header lacks a colon. *)
LinesWhole(msg) == Prefixed(LinesSent(msg)) = LinesSent(msg)

(* Of the body, what is in the first n bytes sent. *)
BodyCome(msg, n) == SubSeq(Wire(msg), Len(HeadSent(msg)) + 1, n)

(* What a scenario sends is composed of tokens. *)
LEMMA BufferHolds ==
  ASSUME scenario \in Scenarios, NEW n \in 1..Len(Wire(message)), n >= Len(HeadSent(message))
  PROVE  Buffer(n) \in Strings /\ Holds(Buffer(n), 1, HeadSent(message))
<1>. DEFINE head == HeadSent(message)
            wire == Wire(message)
            m    == Buffer(n)
<1>1. /\ head \in Seq(STRING) /\ Len(head) \in Nat /\ Len(wire) \in Nat
      /\ Len(head) <= Len(wire) /\ \A i \in 1..Len(head) : wire[i] = head[i]
      /\ Len(memory) \in Nat
  BY WireParts DEF message, memory
<1>2. /\ m \in Seq(STRING) /\ \A i \in 1..n : m[i] = wire[i]
      /\ Len(m) = IF n < Len(memory) THEN Len(memory) ELSE n
  BY BufferParts
<1>3. n \in 1..Len(wire) /\ n >= Len(head)
  OBVIOUS
<1>. HIDE DEF head, wire, m
<1>4. m \in Strings
  <2>1. STRING \subseteq Tokens
    BY DEF Tokens
  <2>. QED
    BY <1>2, <2>1, SeqMonotonic DEF Strings
<1>5. \A i \in 1..Len(head) : m[i] = head[i]
  BY <1>1, <1>2, <1>3
<1>6. 1 + Len(head) <= Len(m) + 1 /\ \A i \in 1..Len(head) : 1 + i - 1 = i
  BY <1>1, <1>2, <1>3
<1>7. Holds(m, 1, head)
  BY <1>5, <1>6 DEF Holds
<1>. QED
  BY <1>4, <1>7 DEF head, m

(* Of the body nothing has come with the head alone, and all with the last *)
(* byte; more bytes add to what has come.                                  *)
LEMMA BodyParts ==
  ASSUME NEW s \in Scenarios
  PROVE  LET msg  == s.message
             head == HeadSent(msg)
         IN /\ BodyCome(msg, Len(Wire(msg))) = msg.body
            /\ \A n \in Len(head)..Len(Wire(msg)) :
                 /\ Len(BodyCome(msg, n)) = n - Len(head)
                 /\ \A k \in n..Len(Wire(msg)) :
                      BodyCome(msg, n) \o SubSeq(Wire(msg), n + 1, k) = BodyCome(msg, k)
<1>. DEFINE msg  == s.message
            head == HeadSent(msg)
            body == msg.body
            wire == Wire(msg)
            h == Len(head)
            come(n) == SubSeq(wire, h + 1, n)
<1>1. /\ wire \in Seq(STRING) /\ body \in Seq(STRING)
      /\ h \in Nat /\ Len(body) \in Nat /\ Len(wire) = h + Len(body)
      /\ \A i \in 1..Len(body) : wire[h + i] = body[i]
  BY WireParts
<1>. HIDE DEF msg, head, body, wire, h
<1>2. ASSUME NEW n \in h..Len(wire)
      PROVE  /\ come(n) \in Seq(STRING) /\ Len(come(n)) = n - h
             /\ \A i \in 1..(n - h) : come(n)[i] = wire[h + i]
  <2>. DEFINE p == h + 1
  <2>1. p \in Int /\ n \in Int /\ \A i \in p..n : wire[i] \in STRING
    <3>1. \A i \in p..n : i \in 1..Len(wire)
      BY <1>1
    <3>. QED
      BY <1>1, <3>1, ElementOfSeq
  <2>2. n - p + 1 = n - h /\ (p <= n => n - p + 1 = n - h) /\ (~(p <= n) => n - h = 0)
        /\ \A i \in 1..(n - h) : p + i - 1 = h + i
    BY <1>1
  <2>. HIDE DEF p
  <2>3. /\ SubSeq(wire, p, n) \in Seq(STRING)
        /\ Len(SubSeq(wire, p, n)) = IF p <= n THEN n - p + 1 ELSE 0
        /\ \A i \in 1..(n - p + 1) : SubSeq(wire, p, n)[i] = wire[p + i - 1]
    BY <2>1, SubSeqProperties
  <2>4. /\ SubSeq(wire, p, n) \in Seq(STRING) /\ Len(SubSeq(wire, p, n)) = n - h
        /\ \A i \in 1..(n - h) : SubSeq(wire, p, n)[i] = wire[h + i]
    BY <2>2, <2>3
  <2>. QED
    BY <2>4 DEF p
<1>3. come(Len(wire)) = body
  <2>. DEFINE n == Len(wire)
              t == come(n)
  <2>1. n \in h..Len(wire) /\ n - h = Len(body)
    BY <1>1
  <2>2. t \in Seq(STRING) /\ Len(t) = n - h /\ \A i \in 1..(n - h) : t[i] = wire[h + i]
    BY <1>2, <2>1
  <2>. HIDE DEF t, n
  <2>3. t \in Seq(STRING) /\ Len(t) = Len(body) /\ \A i \in 1..Len(t) : t[i] = body[i]
    BY <1>1, <2>1, <2>2
  <2>4. t = body
    BY <1>1, <2>3, SeqEqual
  <2>. QED
    BY <2>4 DEF t, n
<1>4. ASSUME NEW n \in h..Len(wire), NEW k \in n..Len(wire)
      PROVE  come(n) \o SubSeq(wire, n + 1, k) = come(k)
  <2>. DEFINE a == come(n)
              b == SubSeq(wire, n + 1, k)
              c == come(k)
  <2>1. k \in h..Len(wire) /\ n \in Nat /\ k \in Nat /\ n <= k /\ h <= n
    BY <1>1
  <2>2. a \in Seq(STRING) /\ Len(a) = n - h /\ \A i \in 1..(n - h) : a[i] = wire[h + i]
    BY <1>2
  <2>3. c \in Seq(STRING) /\ Len(c) = k - h /\ \A i \in 1..(k - h) : c[i] = wire[h + i]
    BY <1>2, <2>1
  <2>4. b \in Seq(STRING) /\ Len(b) = k - n /\ \A i \in 1..(k - n) : b[i] = wire[n + i]
    <3>. DEFINE p == n + 1
    <3>1. p \in Int /\ k \in Int /\ \A i \in p..k : wire[i] \in STRING
      <4>1. \A i \in p..k : i \in 1..Len(wire)
        BY <1>1, <2>1
      <4>. QED
        BY <1>1, <2>1, <4>1, ElementOfSeq
    <3>2. k - p + 1 = k - n /\ (~(p <= k) => k - n = 0)
          /\ \A i \in 1..(k - n) : p + i - 1 = n + i
      BY <2>1
    <3>. HIDE DEF p
    <3>3. /\ SubSeq(wire, p, k) \in Seq(STRING)
          /\ Len(SubSeq(wire, p, k)) = IF p <= k THEN k - p + 1 ELSE 0
          /\ \A i \in 1..(k - p + 1) : SubSeq(wire, p, k)[i] = wire[p + i - 1]
      BY <3>1, SubSeqProperties
    <3>4. /\ SubSeq(wire, p, k) \in Seq(STRING) /\ Len(SubSeq(wire, p, k)) = k - n
          /\ \A i \in 1..(k - n) : SubSeq(wire, p, k)[i] = wire[n + i]
      BY <3>2, <3>3
    <3>. QED
      BY <3>4 DEF p
  <2>. HIDE DEF a, b, c
  <2>5. /\ a \o b \in Seq(STRING) /\ Len(a \o b) = Len(a) + Len(b)
        /\ \A i \in 1..(Len(a) + Len(b)) :
             (a \o b)[i] = IF i <= Len(a) THEN a[i] ELSE b[i - Len(a)]
    BY <2>2, <2>4, ConcatProperties
  <2>6. Len(a) + Len(b) = k - h /\ Len(a \o b) = k - h
    BY <1>1, <2>1, <2>2, <2>4, <2>5
  <2>7. ASSUME NEW i \in 1..(k - h) PROVE (a \o b)[i] = c[i]
    <3>1. (a \o b)[i] = IF i <= Len(a) THEN a[i] ELSE b[i - Len(a)]
      BY <2>5, <2>6
    <3>2. CASE i <= n - h
      <4>1. i \in 1..(n - h)
        BY <1>1, <2>1, <3>2
      <4>. QED
        BY <2>2, <2>3, <3>1, <3>2, <4>1
    <3>3. CASE ~(i <= n - h)
      <4>1. i - (n - h) \in 1..(k - n) /\ n + (i - (n - h)) = h + i
        BY <1>1, <2>1, <3>3
      <4>2. b[i - (n - h)] = wire[n + (i - (n - h))]
        BY <2>4, <4>1
      <4>3. (a \o b)[i] = b[i - (n - h)]
        BY <2>2, <3>1, <3>3
      <4>. QED
        BY <2>3, <4>1, <4>2, <4>3
    <3>. QED
      BY <3>2, <3>3
  <2>8. a \o b = c
    BY <2>3, <2>5, <2>6, <2>7, SeqEqual
  <2>. QED
    BY <2>8 DEF a, b, c
<1>5. \A n \in h..Len(wire) : Len(come(n)) = n - h
  BY <1>2
<1>6. \A n : BodyCome(msg, n) = come(n)
  BY DEF BodyCome, wire, head, h
<1>. HIDE DEF come
<1>. QED
  BY <1>3, <1>4, <1>5, <1>6 DEF msg, head, body, wire, h

(* With a head that has come as a whole, and n bytes received, lookForHeaders *)
(* makes of it what was sent; the length is that of the body, unless a line  *)
(* without a colon hides it, and the content what has come of the body.      *)
LEMMA WholeHeadParsed ==
  ASSUME scenario \in Scenarios, message.transport = "http",
         NEW n \in 1..Len(Wire(message)), n >= Len(HeadSent(message))
  PROVE  LET r == Parsed(Buffer(n), n, Len(HeadSent(message)) - 3) IN
         /\ FieldsAsSent(r, message)
         /\ r.contentLength = IF message.body # <<>> /\ LinesWhole(message)
                              THEN Len(message.body) ELSE 0
         /\ r.content = IF r.contentLength = 0 THEN <<>> ELSE BodyCome(message, n)
<1>. DEFINE msg  == message
            head == HeadSent(msg)
            wire == Wire(msg)
            m    == Buffer(n)
            e    == EmptyAt(msg)
            r    == Parsed(m, n, e)
<1>1. Composed(msg)
  BY ScenariosCompose DEF message
<1>2. m \in Strings /\ Holds(m, 1, head)
  BY BufferHolds
<1>3. /\ Len(head) \in Nat /\ Len(wire) \in Nat /\ wire \in Seq(STRING)
      /\ n \in 1..Len(wire) /\ n >= Len(head)
  BY WireParts DEF message
<1>4. /\ m \in Seq(STRING) /\ \A i \in 1..n : m[i] = wire[i]
      /\ Len(m) = IF n < Len(memory) THEN Len(memory) ELSE n
  BY BufferParts
<1>0. msg.transport = "http"
  OBVIOUS
<1>. HIDE DEF msg, m
<1>5. e = Len(head) - 3
  BY <1>1, <1>2, HeadLies
<1>6. e \in Nat
  BY <1>1, <1>2, RequestLine
<1>7. e <= n /\ n \in Nat
  BY <1>3, <1>5
<1>8. /\ r.method = msg.method
      /\ r.url = UrlSent(msg)
      /\ r.protocol = <<"HTTP/1.1">>
      /\ r.resource = ResourceSent(msg)
      /\ r.segments = parseResource(ResourceSent(msg))
      /\ LinesSent(msg) # <<>> => r.headers = HeadersSent(msg)
      /\ r.headerList = KeysAndValues(Prefixed(LinesSent(msg)))
      /\ r.contentLength = IF msg.body # <<>> /\ Prefixed(LinesSent(msg)) = LinesSent(msg)
                           THEN Len(msg.body) ELSE 0
  BY <1>1, <1>2, <1>7, HeadParsed
<1>9. r.parmList = EncodedPairs(Prefixed(msg.parms))
  BY <1>1, <1>2, <1>7, HeadParms
<1>10. parseResource(ResourceSent(msg)) = msg.segments
  BY <1>1, SegmentsParsed
<1>11. r.content = IF r.contentLength = 0 THEN <<>> ELSE String(m, e + 4, n + 1)
  BY DEF Parsed
<1>12. String(m, e + 4, n + 1) = BodyCome(msg, n)
  <2>. DEFINE p == Len(head) + 1
              q == n
              S == STRING
              from == e + 4
              to == n + 1
  <2>1. from = p /\ ~(to < from) /\ to - 1 = q
    BY <1>3, <1>5
  <2>2. String(m, from, to) = SubSeq(m, p, q)
    <3>. HIDE DEF from, to, p, q
    <3>. QED
      BY <2>1 DEF String
  <2>3. BodyCome(msg, n) = SubSeq(wire, p, q)
    BY DEF BodyCome
  <2>4. p \in Int /\ q \in Int
        /\ \A i \in p..q : m[i] \in S /\ wire[i] \in S /\ m[i] = wire[i]
    <3>1. \A i \in p..q : i \in 1..n /\ i \in 1..Len(wire)
      BY <1>3
    <3>2. \A i \in p..q : wire[i] \in S
      BY <1>3, <3>1, ElementOfSeq
    <3>3. p \in Int /\ q \in Int
      BY <1>3
    <3>. HIDE DEF p, q, S
    <3>. QED
      BY <1>4, <3>1, <3>2, <3>3
  <2>. HIDE DEF p, q, S, wire
  <2>. DEFINE a == SubSeq(m, p, q)
              b == SubSeq(wire, p, q)
  <2>5. /\ a \in Seq(S) /\ Len(a) = IF p <= q THEN q - p + 1 ELSE 0
        /\ \A i \in 1..(q - p + 1) : a[i] = m[p + i - 1]
    BY <2>4, SubSeqProperties
  <2>6. /\ b \in Seq(S) /\ Len(b) = IF p <= q THEN q - p + 1 ELSE 0
        /\ \A i \in 1..(q - p + 1) : b[i] = wire[p + i - 1]
    BY <2>4, SubSeqProperties
  <2>. HIDE DEF a, b
  <2>7. ASSUME NEW i \in 1..Len(a) PROVE a[i] = b[i]
    <3>1. i \in 1..(q - p + 1) /\ p + i - 1 \in p..q
      <4>1. p <= q
        BY <2>4, <2>5
      <4>. QED
        BY <2>4, <2>5, <4>1
    <3>2. m[p + i - 1] = wire[p + i - 1]
      BY <2>4, <3>1
    <3>. QED
      BY <2>5, <2>6, <3>1, <3>2
  <2>8. a = b
    BY <2>5, <2>6, <2>7, SeqEqual
  <2>. QED
    BY <2>2, <2>3, <2>8 DEF a, b
<1>. HIDE DEF r
<1>13. /\ FieldsAsSent(r, msg)
       /\ r.contentLength = IF msg.body # <<>> /\ LinesWhole(msg) THEN Len(msg.body) ELSE 0
       /\ r.content = IF r.contentLength = 0 THEN <<>> ELSE BodyCome(msg, n)
  BY <1>0, <1>8, <1>9, <1>10, <1>11, <1>12 DEF FieldsAsSent, LinesWhole
<1>. QED
  BY <1>5, <1>13 DEF r, msg, m, head

-----------------------------------------------------------------------------
(* parserRouting.                                                          *)

(* The names in an expression whose braces are closed make a list, and     *)
(* there is a number of them.                                              *)
LEMMA ParserRoutingNames ==
  ASSUME NEW routeReg \in Seq(STRING),
         BracesClosed(routeReg)
  PROVE  Len(parserRouting(routeReg).parmNames) \in Nat
<1>. DEFINE n == Len(routeReg)
            Opens(i) == routeReg[i] = "{"
            end(i) == memchr(routeReg, "}", i + 1, n + 1)
            T == STRING \cup {ParmGroup}
            S == [finalExpr : Seq(T), parmNames : Seq(Seq(STRING))]
            next == [i \in 1..n |-> IF Opens(i) THEN end(i) + 1 ELSE i + 1]
            base == [finalExpr |-> <<>>, parmNames |-> <<>>]
            name(i) == SubSeq(routeReg, i + 1, end(i) - 1)
            value(i, v) ==
              IF Opens(i)
              THEN [finalExpr |-> <<ParmGroup>> \o v.finalExpr,
                    parmNames |-> <<name(i)>> \o v.parmNames]
              ELSE [finalExpr |-> <<routeReg[i]>> \o v.finalExpr, parmNames |-> v.parmNames]
            step == [i \in 1..n |-> [v \in S |-> value(i, v)]]
            entry(f, i) ==
              IF i > n THEN base
              ELSE IF Opens(i)
              THEN [finalExpr |-> <<ParmGroup>> \o f[end(i) + 1].finalExpr,
                    parmNames |-> <<name(i)>> \o f[end(i) + 1].parmNames]
              ELSE [finalExpr |-> <<routeReg[i]>> \o f[i + 1].finalExpr,
                    parmNames |-> f[i + 1].parmNames]
            From(f) == f = [i \in 1..(n + 1) |-> entry(f, i)]
<1>1. n \in Nat
  BY LenProperties
<1>2. \A i \in 1..n : routeReg[i] \in STRING
  BY ElementOfSeq
<1>. HIDE DEF n, Opens
<1>3. ASSUME NEW i \in 1..n, Opens(i)
      PROVE  end(i) \in (i + 1)..n
  <2>. DEFINE from == i + 1
              to == n + 1
  <2>1. from \in Nat \ {0} /\ to \in Int /\ to > n
    BY <1>1
  <2>2. PICK j \in from..n : routeReg[j] = "}"
    BY <1>1, <1>3, LenProperties DEF n, BracesClosed, Opens
  <2>. HIDE DEF from, to
  <2>3. /\ memchr(routeReg, "}", from, to) \in {0} \cup (from..n)
        /\ memchr(routeReg, "}", from, to) = 0 => \A q \in from..n : routeReg[q] # "}"
    BY <2>1, MemchrFinds DEF n
  <2>4. memchr(routeReg, "}", from, to) \in from..n
    BY <2>2, <2>3
  <2>. QED
    BY <2>4 DEF from, to
<1>. HIDE DEF end, T, S, base, value
<1>4. next \in [1..n -> 1..(n + 1)] /\ \A i \in 1..n : i < next[i]
  <2>. DEFINE to(i) == IF Opens(i) THEN end(i) + 1 ELSE i + 1
  <2>1. ASSUME NEW i \in 1..n
        PROVE  to(i) \in 1..(n + 1) /\ i < to(i)
    <3>1. CASE Opens(i)
      BY <1>1, <1>3, <3>1
    <3>2. CASE ~Opens(i)
      BY <1>1, <3>2
    <3>. QED
      BY <3>1, <3>2
  <2>. HIDE DEF to
  <2>2. next = [i \in 1..n |-> to(i)]
    BY DEF to
  <2>. QED
    BY <2>1, <2>2
<1>5. base \in S
  <2>1. <<>> \in Seq(T) /\ <<>> \in Seq(Seq(STRING))
    BY EmptySeq
  <2>. QED
    BY <2>1 DEF base, S
<1>6. ASSUME NEW i \in 1..n, NEW v \in S
      PROVE  value(i, v) \in S
  <2>1. v.finalExpr \in Seq(T) /\ v.parmNames \in Seq(Seq(STRING))
    BY DEF S
  <2>2. routeReg[i] \in T /\ ParmGroup \in T
    BY <1>2 DEF T
  <2>3. <<routeReg[i]>> \in Seq(T) /\ <<ParmGroup>> \in Seq(T)
    BY <2>2
  <2>4. /\ <<routeReg[i]>> \o v.finalExpr \in Seq(T)
        /\ <<ParmGroup>> \o v.finalExpr \in Seq(T)
    BY <2>1, <2>3, ConcatProperties
  <2>5. CASE Opens(i)
    <3>1. \A q \in (i + 1)..(end(i) - 1) : routeReg[q] \in STRING
      BY <1>1, <1>3, <1>2, <2>5
    <3>2. i + 1 \in Int /\ end(i) - 1 \in Int
      BY <1>1, <1>3, <2>5
    <3>3. name(i) \in Seq(STRING)
      BY <3>1, <3>2, SubSeqProperties
    <3>. HIDE DEF name
    <3>4. <<name(i)>> \in Seq(Seq(STRING))
      BY <3>3
    <3>5. <<name(i)>> \o v.parmNames \in Seq(Seq(STRING))
      BY <2>1, <3>4, ConcatProperties
    <3>6. value(i, v) = [finalExpr |-> <<ParmGroup>> \o v.finalExpr,
                         parmNames |-> <<name(i)>> \o v.parmNames]
      BY <2>5 DEF value, name
    <3>. QED
      BY <2>4, <3>5, <3>6 DEF S
  <2>6. CASE ~Opens(i)
    <3>1. value(i, v) = [finalExpr |-> <<routeReg[i]>> \o v.finalExpr,
                         parmNames |-> v.parmNames]
      BY <2>6 DEF value
    <3>. QED
      BY <2>1, <2>4, <3>1 DEF S
  <2>. QED
    BY <2>5, <2>6
<1>. HIDE DEF next
<1>7. step \in [1..n -> [S -> S]]
  BY <1>6
<1>. HIDE DEF step
<1>8. PICK f \in [1..(n + 1) -> S] :
        ComputedFromTheEnd(f, n, next, base, step)
  BY <1>1, <1>4, <1>5, <1>7, FunctionFromTheEnd
<1>9. ASSUME NEW h, NEW i \in 1..n
      PROVE  ~(i > n) /\ entry(h, i) = value(i, h[next[i]])
  <2>1. ~(i > n)
    BY <1>1
  <2>2. CASE Opens(i)
    <3>1. next[i] = end(i) + 1
      BY <2>2 DEF next
    <3>. QED
      BY <2>1, <2>2, <3>1 DEF value
  <2>3. CASE ~Opens(i)
    <3>1. next[i] = i + 1
      BY <2>3 DEF next
    <3>. QED
      BY <2>1, <2>3, <3>1 DEF value
  <2>. QED
    BY <2>1, <2>2, <2>3
<1>10. ASSUME NEW h, NEW i \in 1..(n + 1)
      PROVE  /\ i > n => i = n + 1 /\ entry(h, i) = base
             /\ ~(i > n) => i \in 1..n
  BY <1>1
<1>. HIDE DEF entry
<1>11. From(f)
  <2>1. ASSUME NEW i \in 1..(n + 1)
        PROVE  f[i] = entry(f, i)
    <3>1. CASE i > n
      BY <1>8, <1>10, <3>1 DEF ComputedFromTheEnd
    <3>2. CASE ~(i > n)
      <4>1. i \in 1..n
        BY <1>10, <3>2
      <4>2. next[i] \in 1..(n + 1) /\ f[next[i]] \in S
        BY <1>4, <1>8, <4>1
      <4>3. f[i] = step[i][f[next[i]]]
        BY <1>8, <4>1 DEF ComputedFromTheEnd
      <4>4. step[i][f[next[i]]] = value(i, f[next[i]])
        BY <4>1, <4>2 DEF step
      <4>. QED
        BY <1>9, <4>1, <4>3, <4>4
    <3>. QED
      BY <3>1, <3>2
  <2>2. DOMAIN f = 1..(n + 1) /\ f = [i \in DOMAIN f |-> f[i]]
    BY <1>8
  <2>. QED
    BY <2>1, <2>2
<1>12. ASSUME NEW g, From(g) PROVE g[1] \in S
  <2>. DEFINE Good == {i \in 1..(n + 1) : g[i] \in S}
  <2>1. ASSUME NEW i \in 1..(n + 1) PROVE g[i] = entry(g, i)
    BY <1>12
  <2>2. n + 1 \in Good
    <3>1. n + 1 \in 1..(n + 1) /\ n + 1 > n
      BY <1>1
    <3>2. g[n + 1] = base
      BY <1>10, <2>1, <3>1
    <3>. QED
      BY <1>5, <3>1, <3>2
  <2>3. ASSUME NEW i \in 1..n, next[i] \in Good PROVE i \in Good
    <3>1. g[next[i]] \in S
      BY <2>3
    <3>2. i \in 1..(n + 1)
      BY <1>1
    <3>3. g[i] = value(i, g[next[i]])
      BY <1>9, <2>1, <3>2
    <3>4. g[i] \in S
      BY <1>6, <3>1, <3>3
    <3>. QED
      BY <3>2, <3>4
  <2>4. \A i \in Good : g[i] \in S
    OBVIOUS
  <2>. HIDE DEF Good
  <2>5. \A i \in 1..(n + 1) : i \in Good
    BY <1>1, <1>4, <2>2, <2>3, FromTheEnd
  <2>6. 1 \in 1..(n + 1)
    BY <1>1
  <2>. QED
    BY <2>4, <2>5, <2>6
<1>13. parserRouting(routeReg) = (CHOOSE g : From(g))[1]
  BY DEF parserRouting, entry, base, end, n, Opens
<1>14. parserRouting(routeReg) \in S
  BY <1>11, <1>12, <1>13
<1>. QED
  BY <1>14, LenProperties DEF S

-----------------------------------------------------------------------------
(* The invariant.                                                          *)

(* The list of routes; each says how many parameters it has, and one with  *)
(* an expression says so truly.                                            *)
RoutesInv ==
  \E S : /\ router \in Seq(S)
         /\ \A route \in S :
              /\ route.parmNumbers \in Int
              /\ route.routeReg # NULL => route.parmNumbers \in 0..MaxParms

(* Nothing is read before il_listen; the loop goes on while the end of the *)
(* head has not come, and the body is waited for only behind a head that   *)
(* has come.                                                               *)
ReadingInv ==
  /\ phase \in {"configure", "accept"} => received = 0
  /\ phase = "header" => received < Len(HeadSent(message))
  /\ phase = "payload" => WholeHead

(* From the moment a head that has come as a whole is parsed, the fields   *)
(* are those of the message.  While the body is waited for, the content is *)
(* what has come of it; behind that it is the body.                        *)
SentInv ==
  /\ phase = "accept" => message.transport = "fastcgi"
  /\ phase \in {"header", "payload"} => message.transport = "http"
  /\ phase = "payload" =>
       /\ FieldsAsSent(request, message) /\ LinesWhole(message)
       /\ request.contentLength = Len(message.body)
       /\ request.content = BodyCome(message, received)
  /\ Whole => /\ FieldsAsSent(request, message)
              /\ LinesWhole(message) => request.content = message.body

RequestInv == RequestTypeOK /\ RoutesInv /\ ReadingInv /\ EarlyOnlyByRemnant /\ SentInv

(* What lookForHeaders makes of the content: what came with the head, and  *)
(* nothing without a length.                                               *)
LEMMA ParsedContent ==
  ASSUME NEW m, NEW n, NEW eoh
  PROVE  LET parsed == Parsed(m, n, eoh) IN
         /\ DOMAIN parsed = DOMAIN NoRequest
         /\ parsed.content = IF parsed.contentLength = 0 THEN <<>>
                             ELSE String(m, eoh + 4, n + 1)
  BY DEF Parsed, NoRequest

(* What il_addRoute appends says how many parameters it has. *)
LEMMA RoutesStep ==
  ASSUME RoutesInv, scenario \in Scenarios, NEW c \in scenario.calls, il_addRoute(c)
  PROVE  /\ RoutesInv' /\ Len(router') = Len(router) + 1 /\ Len(router') <= MaxRoutes
         /\ \A r \in 1..Len(router) : router'[r] = router[r]
<1>. DEFINE given == c.parms >= 4 /\ c.routeReg # NULL
            parsed == parserRouting(c.routeReg)
            names == IF given THEN {[parmNumbers |-> Len(parsed.parmNames),
                                     parmNames |-> parsed.parmNames]}
                     ELSE Leftovers
            route(x) ==
              [servlet |-> c.servlet,
               routeId |-> IF c.parms >= 6 THEN c.routeId ELSE <<>>,
               routeType |-> IF c.parms >= 3 THEN c.routeType ELSE IL_ANY,
               routeReg |-> IF given THEN parsed.finalExpr ELSE NULL,
               parmNumbers |-> x.parmNumbers,
               parmNames |-> x.parmNames]
<1>. DEFINE Typed(e) == /\ e.parmNumbers \in Int
                        /\ e.routeReg # NULL => e.parmNumbers \in 0..MaxParms
<1>1. PICK S : router \in Seq(S) /\ \A e \in S : Typed(e)
  BY DEF RoutesInv
<1>2. Len(router) \in Nat /\ MaxRoutes \in Nat /\ MaxParms \in Nat
  BY <1>1, LenProperties, RoutingAssumption
<1>3. \A x \in names : x.parmNumbers \in Int /\ (given => x.parmNumbers \in 0..MaxParms)
  <2>1. CASE given
    <3>1. c.routeReg \in Seq(STRING) /\ BracesClosed(c.routeReg)
      BY <2>1, ScenariosAssumption
    <3>2. Len(parsed.parmNames) \in Nat
      BY <3>1, ParserRoutingNames
    <3>3. Len(parsed.parmNames) <= MaxParms
      BY <2>1, ScenariosAssumption
    <3>. HIDE DEF parsed
    <3>. QED
      BY <1>2, <2>1, <3>2, <3>3
  <2>2. CASE ~given
    <3>1. router # <<>> => Last(router).parmNumbers \in Int
      <4>1. ASSUME router # <<>> PROVE Len(router) \in 1..Len(router)
        BY <1>1, <1>2, <4>1, EmptySeq
      <4>2. ASSUME router # <<>> PROVE router[Len(router)] \in S
        BY <1>1, <4>1, <4>2, ElementOfSeq
      <4>. QED
        BY <1>1, <4>2 DEF Last
    <3>2. StackNumbers \subseteq Int
      BY RoutingAssumption
    <3>3. ASSUME NEW x \in [parmNumbers : StackNumbers, parmNames : {<<>>}]
          PROVE  x.parmNumbers \in Int
      BY <3>2
    <3>4. ASSUME router # <<>>,
                 NEW x \in {[parmNumbers |-> Last(router).parmNumbers,
                             parmNames |-> Last(router).parmNames]}
          PROVE  x.parmNumbers \in Int
      BY <3>1, <3>4
    <3>5. \A x \in Leftovers : x.parmNumbers \in Int
      BY <3>3, <3>4 DEF Leftovers
    <3>. QED
      BY <2>2, <3>5
  <2>. QED
    BY <2>1, <2>2
<1>4. PICK x \in names : router' = Append(router, route(x))
  BY DEF il_addRoute
<1>5. Typed(route(x))
  <2>1. /\ route(x).parmNumbers = x.parmNumbers
        /\ ~given => route(x).routeReg = NULL
    OBVIOUS
  <2>2. x.parmNumbers \in Int /\ (given => x.parmNumbers \in 0..MaxParms)
    BY <1>3, <1>4
  <2>. HIDE DEF route, names, given
  <2>. QED
    BY <2>1, <2>2
<1>. HIDE DEF route, names
<1>6. PICK e : e = route(x)
  OBVIOUS
<1>7. router' = Append(router, e) /\ Typed(e)
  BY <1>4, <1>5, <1>6
<1>. DEFINE T == S \cup {e}
<1>8. router \in Seq(T)
  <2>1. \A i \in 1..Len(router) : router[i] \in T
    BY <1>1, ElementOfSeq
  <2>. HIDE DEF T
  <2>2. router = [i \in 1..Len(router) |-> router[i]]
    BY <1>1, LenProperties
  <2>. QED
    BY <1>2, <2>1, <2>2, IsASeq
<1>9. e \in T /\ \A y \in T : Typed(y)
  BY <1>1, <1>7
<1>. HIDE DEF T
<1>10. /\ Append(router, e) \in Seq(T) /\ Len(Append(router, e)) = Len(router) + 1
       /\ \A i \in 1..Len(router) : Append(router, e)[i] = router[i]
  BY <1>8, <1>9, AppendProperties
<1>11. Len(router) < MaxRoutes
  BY DEF il_addRoute
<1>12. RoutesInv'
  BY <1>7, <1>9, <1>10 DEF RoutesInv
<1>. QED
  BY <1>2, <1>7, <1>10, <1>11, <1>12

(* The route found is one of the list, and no more values are set than it  *)
(* has parameters.                                                         *)
LEMMA FoundRoute ==
  ASSUME RoutesInv, UNCHANGED router, NEW method, NEW resource, findRoute(method, resource)
  PROVE  /\ pRouting' \in 0..Len(router)
         /\ pRouting' # 0 => Len(parmValue') \in ValuesOf(router[pRouting'])
<1>. DEFINE matching == Matching(method, resource)
            first == Min(matching)
            groups == Executed(first, resource).groupArray
<1>1. PICK S : /\ router \in Seq(S)
               /\ \A e \in S :
                    /\ e.parmNumbers \in Int
                    /\ e.routeReg # NULL => e.parmNumbers \in 0..MaxParms
  BY DEF RoutesInv
<1>2. Len(router) \in Nat /\ DOMAIN router = 1..Len(router) /\ MaxParms \in Nat
  BY <1>1, LenProperties, RoutingAssumption
<1>3. CASE matching = {}
  BY <1>2, <1>3 DEF findRoute
<1>4. CASE matching # {}
  <2>1. \A r \in matching : r \in DOMAIN router
    BY DEF Matching
  <2>2. matching \subseteq Nat
    BY <1>2, <2>1
  <2>. HIDE DEF matching
  <2>3. first \in matching
    BY <1>4, <2>2, LeastNumber
  <2>4. /\ pRouting' = first
        /\ IF groups = NULL
           THEN \E n \in ValuesOf(router[first]) :
                  parmValue' = [g \in 1..n |-> <<"garbage">>]
           ELSE parmValue' = SubSeq(groups, 1, router[first].parmNumbers)
    BY <1>4 DEF findRoute, matching
  <2>10. groups # NULL => router[first].routeReg # NULL
    BY DEF Executed
  <2>. HIDE DEF first, groups
  <2>5. first \in 1..Len(router)
    BY <1>2, <2>1, <2>3
  <2>6. router[first] \in S
    BY <1>1, <2>5, ElementOfSeq
  <2>. DEFINE many == router[first].parmNumbers
  <2>7. many \in Int /\ (groups # NULL => many \in 0..MaxParms)
    BY <1>1, <2>6, <2>10
  <2>. HIDE DEF many
  <2>8. CASE groups = NULL
    <3>1. PICK n \in ValuesOf(router[first]) : parmValue' = [g \in 1..n |-> <<"garbage">>]
      BY <2>4, <2>8
    <3>2. n \in Nat
      BY <1>2 DEF ValuesOf
    <3>3. Len([g \in 1..n |-> <<"garbage">>]) = n
      BY <3>2
    <3>4. Len(parmValue') \in ValuesOf(router[first])
      BY <3>1, <3>3
    <3>. QED
      BY <1>2, <2>4, <2>5, <3>4
  <2>9. CASE groups # NULL
    <3>. DEFINE T == {groups[i] : i \in 1..many}
    <3>1. parmValue' = SubSeq(groups, 1, many)
      BY <2>4, <2>9 DEF many
    <3>2. 1 \in Int /\ many \in Int /\ \A i \in 1..many : groups[i] \in T
      BY <2>7
    <3>. HIDE DEF T
    <3>3. Len(SubSeq(groups, 1, many)) = IF 1 <= many THEN many - 1 + 1 ELSE 0
      BY <3>2, SubSeqProperties
    <3>4. Len(parmValue') \in 0..MaxParms /\ Len(parmValue') <= many
      BY <1>2, <2>7, <2>9, <3>1, <3>3
    <3>5. Len(parmValue') \in ValuesOf(router[first])
      BY <3>4 DEF ValuesOf, many
    <3>. QED
      BY <1>2, <2>4, <2>5, <3>5
  <2>. QED
    BY <2>8, <2>9
<1>. QED
  BY <1>3, <1>4

(* Of what an action leaves alone: the parts about the routes. *)
LEMMA RoutesAlone ==
  ASSUME RequestInv, UNCHANGED <<router, routeVars>>
  PROVE  /\ RoutesInv'
         /\ Len(router') <= MaxRoutes /\ pRouting' \in 0..Len(router')
         /\ pRouting' # 0 => Len(parmValue') \in ValuesOf(router'[pRouting'])
  BY DEF RequestInv, RequestTypeOK, RoutesInv, routeVars, ValuesOf

(* The head of a message is not empty. *)
LEMMA HeadNotEmpty ==
  ASSUME NEW s \in Scenarios
  PROVE  Len(HeadSent(s.message)) \in Nat \ {0}
<1>. DEFINE head == HeadSent(s.message)
<1>1. Len(head) \in Nat /\ DOMAIN head = 1..Len(head)
  BY WireParts, LenProperties
<1>2. {p \in DOMAIN head : Occurs(head, Eol \o Eol, p)} = {Len(head) - 3}
  BY ScenariosAssumption
<1>. HIDE DEF head
<1>3. Len(head) - 3 \in 1..Len(head)
  BY <1>1, <1>2
<1>. QED
  BY <1>1, <1>3 DEF head

LEMMA RequestInit == Init => RequestInv
<1>. SUFFICES ASSUME Init PROVE RequestInv
  OBVIOUS
<1>. USE DEF Init
<1>1. scenario \in Scenarios
  OBVIOUS
<1>2. Len(Wire(message)) \in Nat
  BY <1>1, WireParts DEF message
<1>3. Len(router) = 0 /\ MaxRoutes \in Nat /\ router \in Seq({})
  BY EmptySeq, RoutingAssumption
<1>4. RequestTypeOK
  BY <1>1, <1>2, <1>3 DEF RequestTypeOK
<1>5. RoutesInv
  BY <1>3 DEF RoutesInv
<1>. QED
  BY <1>4, <1>5 DEF RequestInv, ReadingInv, EarlyOnlyByRemnant, SentInv, Whole

(* A turn of the loop that reads the bytes of the request. *)
LEMMA HeaderStep ==
  ASSUME RequestInv, receiveHeaderHTTP
  PROVE  RequestInv'
<1>. DEFINE head == HeadSent(message)
            wire == Wire(message)
<1>1. /\ phase = "header" /\ scenario \in Scenarios
      /\ received \in 0..Len(wire) /\ DOMAIN request = DOMAIN NoRequest
  BY DEF RequestInv, RequestTypeOK, receiveHeaderHTTP
<1>2. /\ UNCHANGED <<router, routeVars>>
      /\ scenario' = scenario /\ message' = message /\ memory' = memory
  BY DEF receiveHeaderHTTP, message, memory
<1>3. Len(wire) \in Nat /\ Len(head) \in Nat
  BY <1>1, WireParts DEF message
<1>4. PICK n \in (received + 1)..Len(wire) :
        LET eoh    == memmem(Buffer(n), Eol \o Eol, 1, n + 1)
            parsed == Parsed(Buffer(n), n, eoh)
        IN /\ received' = n
           /\ IF eoh = 0
              THEN UNCHANGED <<phase, request>>
              ELSE /\ request' = parsed
                   /\ phase' = IF parsed.contentLength = 0 THEN "route"
                               ELSE IF parsed.content = Wild THEN "wild" ELSE "payload"
  BY DEF receiveHeaderHTTP
<1>5. n \in 1..Len(wire)
  BY <1>1, <1>3
<1>. DEFINE eoh == memmem(Buffer(n), Eol \o Eol, 1, n + 1)
            parsed == Parsed(Buffer(n), n, eoh)
<1>6. /\ n >= Len(head) => eoh # 0 /\ eoh = Len(head) - 3
      /\ n < Len(head) /\ eoh # 0 =>
           /\ eoh \in 1..n /\ n < eoh + 3
           /\ memory # <<>> /\ wire[n] \in {"CR", "LF"}
  BY <1>1, <1>5, HeadEndFound
<1>7. /\ DOMAIN parsed = DOMAIN NoRequest
      /\ parsed.content = IF parsed.contentLength = 0 THEN <<>>
                          ELSE String(Buffer(n), eoh + 4, n + 1)
  BY ParsedContent
<1>8. /\ received' = n
      /\ eoh = 0 => UNCHANGED <<phase, request>>
      /\ eoh # 0 => /\ request' = parsed
                    /\ phase' = IF parsed.contentLength = 0 THEN "route"
                                ELSE IF parsed.content = Wild THEN "wild" ELSE "payload"
  BY <1>4
<1>9. WholeHead' <=> n >= Len(head)
  BY <1>2, <1>8 DEF WholeHead
<1>10. Wire(message)' = wire /\ HeadSent(message)' = head
  BY <1>2
<1>. HIDE DEF head, wire, eoh, parsed
<1>11. DOMAIN request' = DOMAIN NoRequest
  BY <1>1, <1>7, <1>8
<1>12. phase' \in {"header", "payload", "route", "wild"}
  BY <1>1, <1>8
<1>13. RequestTypeOK'
  BY <1>1, <1>2, <1>3, <1>5, <1>8, <1>10, <1>11, <1>12, RoutesAlone DEF RequestTypeOK
<1>14. RoutesInv'
  BY <1>2, RoutesAlone
<1>15. ReadingInv'
  <2>1. phase' = "header" => n < Len(head)
    <3>. SUFFICES ASSUME phase' = "header", n >= Len(head) PROVE FALSE
      BY <1>3, <1>5
    <3>1. eoh = 0
      BY <1>8
    <3>. QED
      BY <1>6, <3>1
  <2>2. phase' = "payload" => n >= Len(head)
    <3>. SUFFICES ASSUME phase' = "payload", n < Len(head) PROVE FALSE
      BY <1>3, <1>5
    <3>1. eoh # 0
      BY <1>1, <1>8
    <3>2. parsed.contentLength # 0 /\ parsed.content # Wild
      BY <1>8, <3>1
    <3>3. n + 1 < eoh + 4
      BY <1>5, <1>6, <3>1
    <3>4. parsed.content = Wild
      BY <1>7, <3>2, <3>3 DEF String
    <3>. QED
      BY <3>2, <3>4
  <2>. QED
    BY <1>8, <1>9, <1>10, <1>12, <2>1, <2>2 DEF ReadingInv
<1>16. EarlyOnlyByRemnant'
  <2>. SUFFICES ASSUME phase' # "header", n < Len(head)
                PROVE  memory # <<>> /\ wire[n] \in {"CR", "LF"}
    BY <1>2, <1>3, <1>5, <1>8, <1>9, <1>10 DEF EarlyOnlyByRemnant
  <2>1. eoh # 0
    BY <1>1, <1>8
  <2>. QED
    BY <1>6, <2>1
<1>18. message.transport = "http"
  BY <1>1 DEF RequestInv, SentInv
<1>17. SentInv'
  <2>1. ASSUME n >= Len(head), phase' # "header"
        PROVE  /\ FieldsAsSent(parsed, message)
               /\ parsed.contentLength = IF message.body # <<>> /\ LinesWhole(message)
                                         THEN Len(message.body) ELSE 0
               /\ parsed.content = IF parsed.contentLength = 0 THEN <<>> ELSE BodyCome(message, n)
               /\ request' = parsed
               /\ phase' = "route" => parsed.contentLength = 0
               /\ phase' = "payload" => parsed.contentLength # 0
    <3>1. eoh = Len(head) - 3 /\ eoh # 0
      BY <1>6, <2>1
    <3>2. parsed = Parsed(Buffer(n), n, Len(head) - 3)
      BY <3>1 DEF parsed
    <3>3. /\ FieldsAsSent(parsed, message)
          /\ parsed.contentLength = IF message.body # <<>> /\ LinesWhole(message)
                                    THEN Len(message.body) ELSE 0
          /\ parsed.content = IF parsed.contentLength = 0 THEN <<>> ELSE BodyCome(message, n)
      BY <1>1, <1>5, <1>18, <2>1, <3>2, WholeHeadParsed DEF head, wire
    <3>. QED
      BY <1>8, <3>1, <3>3
  <2>2. message.body = <<>> <=> Len(message.body) = 0
    BY <1>1, WireParts, EmptySeq DEF message
  <2>3. ASSUME phase' = "payload"
        PROVE  /\ FieldsAsSent(request', message) /\ LinesWhole(message)
               /\ request'.contentLength = Len(message.body)
               /\ request'.content = BodyCome(message, n)
    <3>1. n >= Len(head)
      BY <1>8, <1>9, <1>15, <2>3 DEF ReadingInv
    <3>. QED
      BY <2>1, <2>3, <3>1
  <2>4. ASSUME phase' \in {"route", "servlet"}, n >= Len(head)
        PROVE  /\ FieldsAsSent(request', message)
               /\ LinesWhole(message) => request'.content = message.body
    <3>1. phase' = "route"
      BY <1>12, <2>4
    <3>. QED
      BY <2>1, <2>2, <2>4, <3>1
  <2>5. /\ phase' # "accept" /\ received' = n /\ message' = message
        /\ message'.transport = "http"
    BY <1>2, <1>8, <1>12, <1>18
  <2>6. /\ phase' = "payload" =>
             /\ FieldsAsSent(request', message') /\ LinesWhole(message')
             /\ request'.contentLength = Len(message'.body)
             /\ request'.content = BodyCome(message', received')
        /\ Whole' => /\ FieldsAsSent(request', message')
                     /\ LinesWhole(message') => request'.content = message'.body
    BY <1>9, <2>3, <2>4, <2>5 DEF Whole
  <2>. QED
    BY <2>5, <2>6 DEF SentInv
<1>. QED
  BY <1>13, <1>14, <1>15, <1>16, <1>17 DEF RequestInv

(* Reads of the rest of the body: what they add is what comes next of it.  *)
LEMMA PayloadStep ==
  ASSUME RequestInv, receivePayload
  PROVE  SentInv'
<1>. DEFINE head == HeadSent(message)
            wire == Wire(message)
            body == message.body
<1>1. /\ phase = "payload" /\ scenario \in Scenarios /\ received \in 0..Len(wire)
      /\ DOMAIN request = DOMAIN NoRequest
      /\ received >= Len(head) /\ message' = message
  BY DEF RequestInv, RequestTypeOK, ReadingInv, WholeHead, receivePayload, message
<1>9. message'.transport = "http" /\ phase' # "accept"
  BY <1>1 DEF RequestInv, SentInv, receivePayload
<1>2. /\ FieldsAsSent(request, message) /\ LinesWhole(message)
      /\ request.contentLength = Len(body)
      /\ request.content = BodyCome(message, received)
  BY <1>1 DEF RequestInv, SentInv
<1>3. Len(head) \in Nat /\ Len(body) \in Nat /\ Len(wire) = Len(head) + Len(body)
  BY <1>1, WireParts DEF message
<1>4. /\ BodyCome(message, Len(wire)) = body
      /\ \A n \in Len(head)..Len(wire) :
           /\ Len(BodyCome(message, n)) = n - Len(head)
           /\ \A k \in n..Len(wire) :
                BodyCome(message, n) \o SubSeq(wire, n + 1, k) = BodyCome(message, k)
  BY <1>1, BodyParts DEF message
<1>5. received \in Len(head)..Len(wire)
  BY <1>1, <1>3
<1>6. \/ /\ Len(request.content) >= request.contentLength
         /\ phase' = "route" /\ received' = received /\ request' = request
      \/ \E n \in (received + 1)..Len(wire) :
           /\ received' = n /\ phase' = phase
           /\ request' = [request EXCEPT !.content =
                            request.content \o SubSeq(wire, received + 1, n)]
  BY DEF receivePayload
<1>. HIDE DEF head, wire, body
<1>7. CASE /\ Len(request.content) >= request.contentLength
           /\ phase' = "route" /\ received' = received /\ request' = request
  <2>1. received = Len(wire)
    <3>. DEFINE c == Len(request.content)
    <3>1. c = received - Len(head)
      BY <1>2, <1>4, <1>5
    <3>2. c >= Len(body)
      BY <1>2, <1>7
    <3>. HIDE DEF c
    <3>. QED
      BY <1>3, <1>5, <3>1, <3>2
  <2>2. request'.content = body /\ FieldsAsSent(request', message)
    BY <1>2, <1>4, <1>7, <2>1
  <2>. QED
    BY <1>1, <1>7, <1>9, <2>2 DEF SentInv, body
<1>8. CASE \E n \in (received + 1)..Len(wire) :
             /\ received' = n /\ phase' = phase
             /\ request' = [request EXCEPT !.content =
                              request.content \o SubSeq(wire, received + 1, n)]
  <2>1. PICK n \in (received + 1)..Len(wire) :
             /\ received' = n /\ phase' = phase
             /\ request' = [request EXCEPT !.content =
                              request.content \o SubSeq(wire, received + 1, n)]
    BY <1>8
  <2>. DEFINE c == request.content \o SubSeq(wire, received + 1, n)
  <2>2. c = BodyCome(message, n)
    <3>1. n \in received..Len(wire)
      BY <1>3, <1>5
    <3>. QED
      BY <1>2, <1>4, <1>5, <3>1
  <2>. HIDE DEF c
  <2>3. request' = [request EXCEPT !.content = c]
    BY <2>1 DEF c
  <2>4. /\ request'.content = c
        /\ \A f \in DOMAIN request : f # "content" => request'[f] = request[f]
    BY <1>1, <2>3 DEF NoRequest
  <2>5. /\ request'.method = request.method /\ request'.url = request.url
        /\ request'.resource = request.resource /\ request'.protocol = request.protocol
        /\ request'.parmList = request.parmList /\ request'.segments = request.segments
        /\ request'.headers = request.headers /\ request'.headerList = request.headerList
        /\ request'.contentLength = request.contentLength
    BY <1>1, <2>4 DEF NoRequest
  <2>6. FieldsAsSent(request', message)
    BY <1>2, <2>5 DEF FieldsAsSent
  <2>7. phase' = "payload" /\ ~Whole'
    BY <1>1, <2>1 DEF Whole
  <2>8. /\ FieldsAsSent(request', message') /\ LinesWhole(message')
        /\ request'.contentLength = Len(message'.body)
        /\ request'.content = BodyCome(message', received')
    BY <1>1, <1>2, <2>1, <2>2, <2>4, <2>5, <2>6 DEF body
  <2>. QED
    BY <1>9, <2>7, <2>8 DEF SentInv
<1>. QED
  BY <1>6, <1>7, <1>8

(* What the server that speaks FastCGI hands over. *)
LEMMA FastCGIStep ==
  ASSUME RequestInv, fcgiReceiveHeader
  PROVE  SentInv'
<1>1. /\ phase = "accept" /\ phase' \in {"route", "wild"} /\ scenario \in Scenarios
      /\ message' = message
      /\ message.transport = "fastcgi"
  BY DEF RequestInv, RequestTypeOK, SentInv, fcgiReceiveHeader, message
<1>. DEFINE query == QuerySent(message)
            list == parseParms(query \o <<"NUL">>, 1, Len(query) + 1)
<1>2. /\ request'.method = message.method /\ request'.url = UrlSent(message)
      /\ request'.protocol = <<"HTTP/1.1">> /\ request'.resource = ResourceSent(message)
      /\ request'.parmList = list /\ request'.content = message.body
      /\ request'.headerList = EnvHeaders(message.lines)
  BY DEF fcgiReceiveHeader, NoRequest
<1>3. list = EncodedPairs(Prefixed(message.parms))
  <2>1. Composed(message)
    BY <1>1, ScenariosCompose DEF message
  <2>. QED
    BY <2>1, QueryParms
<1>. HIDE DEF list
<1>4. FieldsAsSent(request', message)
  BY <1>1, <1>2, <1>3 DEF FieldsAsSent
<1>. QED
  BY <1>1, <1>2, <1>4 DEF SentInv, Whole

LEMMA RequestNext == RequestInv /\ [Next]_vars => RequestInv'
<1>. SUFFICES ASSUME RequestInv, [Next]_vars PROVE RequestInv'
  OBVIOUS
<1>1. /\ scenario \in Scenarios /\ received \in 0..Len(Wire(message))
      /\ DOMAIN request = DOMAIN NoRequest
      /\ phase \in {"configure", "header", "accept", "payload", "route", "servlet", "wild"}
  BY DEF RequestInv, RequestTypeOK
<1>2. /\ Len(Wire(message)) \in Nat /\ Len(HeadSent(message)) \in Nat
      /\ Len(HeadSent(message)) <= Len(Wire(message))
  BY <1>1, WireParts DEF message
<1>3. Len(HeadSent(message)) \in Nat \ {0}
  BY <1>1, HeadNotEmpty DEF message
<1>4. ASSUME UNCHANGED scenario
      PROVE  /\ message' = message /\ memory' = memory
             /\ HeadSent(message)' = HeadSent(message) /\ Wire(message)' = Wire(message)
  BY <1>4 DEF message, memory
<1>14. ASSUME SentInv, UNCHANGED <<scenario, received, phase, request>>
       PROVE  SentInv'
  BY <1>14 DEF SentInv, Whole, WholeHead, message
<1>5. CASE UNCHANGED vars
  <2>1. UNCHANGED <<router, routeVars>> /\ UNCHANGED <<scenario, received, phase, request>>
    BY <1>5 DEF vars
  <2>2. /\ WholeHead' = WholeHead
        /\ ReadingInv' = ReadingInv /\ EarlyOnlyByRemnant' = EarlyOnlyByRemnant
    BY <1>4, <2>1 DEF ReadingInv, EarlyOnlyByRemnant, WholeHead
  <2>21. SentInv'
    BY <1>14, <2>1 DEF RequestInv
  <2>3. RequestTypeOK'
    BY <1>1, <1>4, <2>1, RoutesAlone DEF RequestTypeOK
  <2>. QED
    BY <2>1, <2>2, <2>21, <2>3, RoutesAlone DEF RequestInv
<1>6. CASE Configure
  <2>1. /\ phase = "configure" /\ UNCHANGED <<scenario, received, phase, request>>
        /\ UNCHANGED routeVars
    BY <1>6 DEF Configure, il_addRoute
  <2>2. PICK c \in scenario.calls : il_addRoute(c)
    BY <1>6 DEF Configure
  <2>3. /\ RoutesInv' /\ Len(router') = Len(router) + 1 /\ Len(router') <= MaxRoutes
        /\ \A r \in 1..Len(router) : router'[r] = router[r]
    BY <1>1, <2>2, RoutesStep DEF RequestInv
  <2>4. Len(router) \in Nat
    BY LenProperties DEF RequestInv, RoutesInv
  <2>5. /\ pRouting' \in 0..Len(router')
        /\ pRouting' # 0 => Len(parmValue') \in ValuesOf(router'[pRouting'])
    <3>1. /\ pRouting \in 0..Len(router)
          /\ pRouting # 0 => Len(parmValue) \in ValuesOf(router[pRouting])
      BY DEF RequestInv, RequestTypeOK
    <3>2. pRouting' = pRouting /\ parmValue' = parmValue
      BY <2>1 DEF routeVars
    <3>. QED
      BY <2>3, <2>4, <3>1, <3>2
  <2>6. RequestTypeOK'
    BY <1>1, <1>4, <2>1, <2>3, <2>5 DEF RequestTypeOK
  <2>7. ReadingInv' /\ EarlyOnlyByRemnant'
    BY <2>1 DEF ReadingInv, EarlyOnlyByRemnant, RequestInv
  <2>8. SentInv'
    BY <1>14, <2>1 DEF RequestInv
  <2>. QED
    BY <2>3, <2>6, <2>7, <2>8 DEF RequestInv
<1>7. CASE il_listen
  <2>1. /\ phase = "configure" /\ phase' \in {"accept", "header"}
        /\ UNCHANGED <<router, routeVars, scenario, received, request>>
    BY <1>7 DEF il_listen
  <2>2. received' = 0
    BY <2>1 DEF RequestInv, ReadingInv
  <2>3. ReadingInv' /\ EarlyOnlyByRemnant'
    BY <1>3, <1>4, <2>1, <2>2 DEF ReadingInv, EarlyOnlyByRemnant
  <2>4. RequestTypeOK'
    BY <1>1, <1>4, <2>1, RoutesAlone DEF RequestTypeOK
  <2>5. /\ phase' = "accept" => message.transport = "fastcgi"
        /\ phase' = "header" => message.transport = "http"
    BY <1>1, <1>7, MessagesAssumption DEF il_listen, message
  <2>6. SentInv'
    BY <1>4, <2>1, <2>5 DEF SentInv, Whole
  <2>. QED
    BY <2>1, <2>3, <2>4, <2>6, RoutesAlone DEF RequestInv
<1>8. CASE receiveHeaderHTTP
  BY <1>8, HeaderStep
<1>9. CASE receivePayload
  <2>1. phase = "payload" /\ UNCHANGED <<router, routeVars, scenario>>
    BY <1>9 DEF receivePayload
  <2>2. WholeHead
    BY <2>1 DEF RequestInv, ReadingInv
  <2>3. /\ received' \in received..Len(Wire(message)) /\ phase' \in {"payload", "route"}
        /\ DOMAIN request' = DOMAIN NoRequest
    <3>1. CASE phase' = "route" /\ UNCHANGED <<received, request>>
      BY <1>1, <3>1
    <3>2. CASE /\ UNCHANGED phase
               /\ \E n \in (received + 1)..Len(Wire(message)) :
                    /\ received' = n
                    /\ request' = [request EXCEPT !.content =
                                     @ \o SubSeq(Wire(message), received + 1, n)]
      <4>1. received' \in (received + 1)..Len(Wire(message))
        BY <3>2
      <4>2. DOMAIN request' = DOMAIN request
        BY <3>2
      <4>. QED
        BY <1>1, <1>2, <2>1, <3>2, <4>1, <4>2
    <3>. QED
      BY <1>9, <3>1, <3>2 DEF receivePayload
  <2>4. WholeHead'
    BY <1>1, <1>2, <1>4, <2>1, <2>2, <2>3 DEF WholeHead
  <2>5. received' \in 0..Len(Wire(message))
    BY <1>1, <1>2, <2>3
  <2>6. RequestTypeOK'
    BY <1>1, <1>4, <2>1, <2>3, <2>5, RoutesAlone DEF RequestTypeOK
  <2>7. ReadingInv' /\ EarlyOnlyByRemnant'
    BY <2>3, <2>4 DEF ReadingInv, EarlyOnlyByRemnant
  <2>8. SentInv'
    BY <1>9, PayloadStep
  <2>. QED
    BY <2>1, <2>6, <2>7, <2>8, RoutesAlone DEF RequestInv
<1>10. CASE fcgiReceiveHeader
  <2>1. /\ phase' \in {"route", "wild"} /\ received' = Len(Wire(message))
        /\ UNCHANGED <<router, routeVars, scenario>>
    BY <1>10 DEF fcgiReceiveHeader
  <2>2. DOMAIN request' = DOMAIN NoRequest
    BY <1>10 DEF fcgiReceiveHeader
  <2>3. WholeHead'
    BY <1>2, <1>4, <2>1 DEF WholeHead
  <2>4. RequestTypeOK'
    BY <1>1, <1>2, <1>4, <2>1, <2>2, RoutesAlone DEF RequestTypeOK
  <2>5. ReadingInv' /\ EarlyOnlyByRemnant'
    BY <2>1, <2>3 DEF ReadingInv, EarlyOnlyByRemnant
  <2>6. SentInv'
    BY <1>10, FastCGIStep
  <2>. QED
    BY <2>1, <2>4, <2>5, <2>6, RoutesAlone DEF RequestInv
<1>11. CASE Route
  <2>1. /\ phase = "route" /\ phase' = "servlet"
        /\ UNCHANGED <<router, scenario, received>>
    BY <1>11 DEF Route
  <2>2. DOMAIN request' = DOMAIN request
    BY <1>11 DEF Route
  <2>3. /\ RoutesInv' /\ Len(router') <= MaxRoutes /\ pRouting' \in 0..Len(router')
        /\ pRouting' # 0 => Len(parmValue') \in ValuesOf(router'[pRouting'])
    <3>1. CASE UNCHANGED routeVars
      BY <2>1, <3>1, RoutesAlone
    <3>2. CASE findRoute(request.method, request.resource)
      <4>1. /\ pRouting' \in 0..Len(router)
            /\ pRouting' # 0 => Len(parmValue') \in ValuesOf(router[pRouting'])
        BY <2>1, <3>2, FoundRoute DEF RequestInv
      <4>. QED
        BY <2>1, <4>1 DEF RequestInv, RequestTypeOK, RoutesInv
    <3>. QED
      BY <1>11, <3>1, <3>2 DEF Route
  <2>4. RequestTypeOK'
    BY <1>1, <1>4, <2>1, <2>2, <2>3 DEF RequestTypeOK
  <2>5. ReadingInv' /\ EarlyOnlyByRemnant'
    BY <1>4, <2>1 DEF ReadingInv, EarlyOnlyByRemnant, WholeHead, RequestInv
  <2>6. SentInv'
    <3>1. \/ request' = request
          \/ request' = [request EXCEPT !.routeId = router[pRouting'].routeId]
      BY <1>11 DEF Route
    <3>2. \A f \in DOMAIN request : f # "routeId" => request'[f] = request[f]
      BY <3>1
    <3>3. /\ request'.method = request.method /\ request'.url = request.url
          /\ request'.resource = request.resource /\ request'.protocol = request.protocol
          /\ request'.parmList = request.parmList /\ request'.segments = request.segments
          /\ request'.headers = request.headers /\ request'.headerList = request.headerList
          /\ request'.content = request.content
      BY <1>1, <3>2 DEF NoRequest
    <3>4. FieldsAsSent(request, message) => FieldsAsSent(request', message)
      BY <3>3 DEF FieldsAsSent
    <3>5. Whole' => Whole /\ WholeHead
      BY <1>4, <2>1 DEF Whole, WholeHead
    <3>6. Whole' => /\ FieldsAsSent(request', message')
                    /\ LinesWhole(message') => request'.content = message'.body
      BY <1>4, <2>1, <3>3, <3>4, <3>5 DEF RequestInv, SentInv
    <3>7. phase' # "accept" /\ phase' # "payload" /\ phase' # "header"
      BY <2>1
    <3>. QED
      BY <3>6, <3>7 DEF SentInv
  <2>. QED
    BY <2>3, <2>4, <2>5, <2>6 DEF RequestInv
<1>15. CASE RouteDies
  <2>1. /\ phase = "route" /\ phase' = "wild"
        /\ UNCHANGED <<router, routeVars, scenario, received, request>>
    BY <1>15 DEF RouteDies, findRouteDies
  <2>2. RequestTypeOK'
    BY <1>1, <1>4, <2>1, RoutesAlone DEF RequestTypeOK
  <2>3. ReadingInv' /\ EarlyOnlyByRemnant'
    BY <1>4, <2>1 DEF ReadingInv, EarlyOnlyByRemnant, WholeHead, RequestInv
  <2>4. SentInv'
    BY <2>1 DEF SentInv, Whole
  <2>. QED
    BY <2>1, <2>2, <2>3, <2>4, RoutesAlone DEF RequestInv
<1>12. CASE Servlet
  <2>1. UNCHANGED <<router, routeVars, scenario, received, phase, request>>
    BY <1>12 DEF Servlet, Returns, il_getRequestField, il_getRequestHeader, il_getParmStr,
                 il_getRequestSegmentByIndex, il_getPathParameterByIndex, il_serveStatic
  <2>2. /\ WholeHead' = WholeHead
        /\ ReadingInv' = ReadingInv /\ EarlyOnlyByRemnant' = EarlyOnlyByRemnant
    BY <1>4, <2>1 DEF ReadingInv, EarlyOnlyByRemnant, WholeHead
  <2>21. SentInv'
    BY <1>14, <2>1 DEF RequestInv
  <2>3. RequestTypeOK'
    BY <1>1, <1>4, <2>1, RoutesAlone DEF RequestTypeOK
  <2>. QED
    BY <2>1, <2>2, <2>21, <2>3, RoutesAlone DEF RequestInv
<1>13. CASE Ended
  BY <1>5, <1>13 DEF Ended
<1>. QED
  BY <1>5, <1>6, <1>7, <1>8, <1>9, <1>10, <1>11, <1>12, <1>13, <1>15 DEF Next

-----------------------------------------------------------------------------
(* The theorems.                                                           *)

(* RequestInv holds throughout: the list of routes and what is found in it *)
(* have their types, and the loop reads on exactly while it must.          *)
THEOREM RequestInvariant == Spec => []RequestInv
<1>. QED
  BY RequestInit, RequestNext, PTL DEF Spec

(* The variables have their types: no more is read than was sent, the      *)
(* route found is one of the list, and no value of a path is set behind    *)
(* the parameters of that route, whatever regexec returns.                 *)
THEOREM RequestTyped == Spec => []RequestTypeOK
<1>1. RequestInv => RequestTypeOK
  BY DEF RequestInv
<1>. QED
  BY <1>1, RequestInvariant, PTL

(* However the reads cut the bytes and whatever an earlier request left in *)
(* the memory of buf, receiveHeaderHTTP parses a head that has not come as *)
(* a whole only when the bytes read end within a line end, and what was    *)
(* left completes it; and it never waits for the body of such a head.      *)
THEOREM EarlyParseNeedsRemnant == Spec => []EarlyOnlyByRemnant
<1>1. RequestInv => EarlyOnlyByRemnant
  BY DEF RequestInv
<1>. QED
  BY <1>1, RequestInvariant, PTL

(* While receiveHeaderHTTP waits for the end of a head, there are bytes of *)
(* the head still to come: when the last has come, memmem has found it.    *)
THEOREM HeadIsFound == Spec => [](phase = "header" => received < Len(HeadSent(message)))
<1>1. RequestInv => (phase = "header" => received < Len(HeadSent(message)))
  BY DEF RequestInv, ReadingInv
<1>. QED
  BY <1>1, RequestInvariant, PTL

(* The thread waits for no byte that nobody sends: while it waits for the  *)
(* end of the head, or for content, bytes of the request are still to      *)
(* come, and of the content exactly those that are missing.                *)
THEOREM WaitsOnlyForWhatComes == Spec => []WaitsForWhatComes
<1>1. RequestInv => WaitsForWhatComes
  <2>. SUFFICES ASSUME RequestInv PROVE WaitsForWhatComes
    OBVIOUS
  <2>. DEFINE head == HeadSent(message)
              wire == Wire(message)
              body == message.body
  <2>1. scenario \in Scenarios /\ received \in 0..Len(wire)
    BY DEF RequestInv, RequestTypeOK
  <2>2. Len(head) \in Nat /\ Len(body) \in Nat /\ Len(wire) = Len(head) + Len(body)
    BY <2>1, WireParts DEF message
  <2>3. \A n \in Len(head)..Len(wire) : Len(BodyCome(message, n)) = n - Len(head)
    BY <2>1, BodyParts DEF message
  <2>4. phase = "header" => received < Len(head)
    BY DEF RequestInv, ReadingInv
  <2>5. phase = "payload" => /\ received >= Len(head)
                             /\ request.contentLength = Len(body)
                             /\ request.content = BodyCome(message, received)
    BY DEF RequestInv, ReadingInv, WholeHead, SentInv
  <2>. HIDE DEF head, wire, body
  <2>6. phase = "header" => received < Len(wire)
    BY <2>1, <2>2, <2>4
  <2>7. phase = "payload" =>
          Len(request.content) + Len(wire) - received = request.contentLength
    <3>. SUFFICES ASSUME phase = "payload"
                  PROVE  Len(request.content) + Len(wire) - received = request.contentLength
      OBVIOUS
    <3>1. received \in Len(head)..Len(wire)
      BY <2>1, <2>2, <2>5
    <3>2. Len(request.content) = received - Len(head)
      BY <2>3, <2>5, <3>1
    <3>. QED
      BY <2>1, <2>2, <2>5, <3>1, <3>2
  <2>. QED
    BY <2>6, <2>7 DEF WaitsForWhatComes, wire
<1>. QED
  BY <1>1, RequestInvariant, PTL

(* However the reads cut the bytes, and whatever an earlier request left   *)
(* in the memory, a request whose head was parsed as a whole has the       *)
(* method, url, protocol, segments, parameters, lines and content that the *)
(* client composed, over HTTP and over FastCGI.                            *)
THEOREM RequestArrives == Spec => []RequestAsSent
<1>1. RequestInv => RequestAsSent
  <2>. SUFFICES ASSUME RequestInv, Whole PROVE RequestAsSent
    BY DEF RequestAsSent
  <2>1. /\ FieldsAsSent(request, message)
        /\ LinesWhole(message) => request.content = message.body
    BY DEF RequestInv, SentInv
  <2>2. ParmsAsSent
    <3>1. message.parms \in Seq(SentParms)
      BY ScenariosCompose DEF Composed, RequestInv, RequestTypeOK, message
    <3>2. DecodedPairs(request.parmList) = Prefixed(message.parms)
      BY <2>1, <3>1, PairsDecoded DEF FieldsAsSent
    <3>. QED
      BY <3>2 DEF ParmsAsSent, DecodedPairs
  <2>. QED
    BY <2>1, <2>2 DEF RequestAsSent, FieldsAsSent, LinesWhole, KeysAndValues
<1>. QED
  BY <1>1, RequestInvariant, PTL

-----------------------------------------------------------------------------
(* What the getters answer.                                                *)

(* The answer a is what a getter makes of the request r. *)
Answered(r, a) ==
  /\ a.call = "header" =>
       a.arg \in Names /\ a.out = getHeaderValue(r.headerList, a.arg)
  /\ a.call = "parm" =>
       a.arg \in Names /\ a.out = ParmValue(r.parmList, a.arg)
  /\ a.call \in {"segment", "index"} =>
       /\ a.arg \in 0..2
       /\ a.out = IF r.segments = NULL THEN Wild
                  ELSE IF a.arg + 1 \in DOMAIN r.segments THEN r.segments[a.arg + 1] ELSE <<>>
  /\ a.call = "static" =>
       /\ a.arg \in Files
       /\ \/ a.out.contentType = NULL
          \/ LET ext == il_getFileExtension(a.arg) IN
             a.out.contentType = IF ext = NULL THEN Wild ELSE MimeType(ext, a.out.rest)
  /\ a.call = "base64" =>
       /\ a.arg \in Binaries
       /\ \E width \in {1, 3} : a.out = il_decodeBase64(Broken(il_encodeBase64(a.arg), width))

(* A servlet is answered once it is called, from the request as it is. *)
AnswerInv == answer = NoAnswer \/ (phase = "servlet" /\ Answered(request, answer))

(* A call of a getter leaves what the getter makes of the request.         *)
LEMMA AnswerOfCall ==
  ASSUME Servlet
  PROVE  Answered(request, answer')
<1>. DEFINE a == answer'
<1>1. ASSUME NEW f \in Fields, il_getRequestField(f) PROVE Answered(request, a)
  <2>1. a = [call |-> "field", arg |-> f, out |-> request[f]]
    BY <1>1 DEF il_getRequestField, Returns
  <2>2. a.call = "field"
    BY <2>1
  <2>. HIDE DEF a
  <2>. QED
    BY <2>2 DEF Answered
<1>2. ASSUME NEW name \in Names, il_getRequestHeader(name) PROVE Answered(request, a)
  <2>. DEFINE out == getHeaderValue(request.headerList, name)
  <2>1. a = [call |-> "header", arg |-> name, out |-> out]
    BY <1>2 DEF il_getRequestHeader, Returns
  <2>. HIDE DEF out
  <2>2. a.call = "header" /\ a.arg = name /\ a.out = out
    BY <2>1
  <2>. HIDE DEF a
  <2>. QED
    BY <2>2 DEF Answered, out
<1>3. ASSUME NEW name \in Names, il_getParmStr(name) PROVE Answered(request, a)
  <2>. DEFINE out == ParmValue(request.parmList, name)
  <2>1. a = [call |-> "parm", arg |-> name, out |-> out]
    BY <1>3 DEF il_getParmStr, Returns, ParmValue
  <2>. HIDE DEF out
  <2>2. a.call = "parm" /\ a.arg = name /\ a.out = out
    BY <2>1
  <2>. HIDE DEF a
  <2>. QED
    BY <2>2 DEF Answered, out
<1>4. ASSUME NEW name \in Names, Returns("path", name, il_getPathParameter(name, Default))
      PROVE  Answered(request, a)
  <2>1. a = [call |-> "path", arg |-> name, out |-> il_getPathParameter(name, Default)]
    BY <1>4 DEF Returns
  <2>2. a.call = "path"
    BY <2>1
  <2>. HIDE DEF a
  <2>. QED
    BY <2>2 DEF Answered
<1>5. ASSUME NEW i \in 0..2, NEW call \in {"segment", "index"}, Returns(call, i, SegmentAt(i))
      PROVE  Answered(request, a)
  <2>. DEFINE out == IF request.segments = NULL THEN Wild
                     ELSE IF i + 1 \in DOMAIN request.segments THEN request.segments[i + 1] ELSE <<>>
  <2>1. a = [call |-> call, arg |-> i, out |-> out]
    BY <1>5 DEF SegmentAt, Returns
  <2>. HIDE DEF out
  <2>2. a.call = call /\ a.arg = i /\ a.out = out
    BY <2>1
  <2>. HIDE DEF a
  <2>. QED
    BY <2>2 DEF Answered, out
<1>6. ASSUME NEW fileName \in Files, il_serveStatic(fileName) PROVE Answered(request, a)
  <2>. DEFINE ext == il_getFileExtension(fileName)
  <2>1. CASE Returns("static", fileName, [rest |-> <<>>, contentType |-> NULL])
    <3>1. a = [call |-> "static", arg |-> fileName, out |-> [rest |-> <<>>, contentType |-> NULL]]
      BY <2>1 DEF Returns
    <3>2. a.call = "static" /\ a.arg = fileName /\ a.out.contentType = NULL
      BY <3>1
    <3>. HIDE DEF a
    <3>. QED
      BY <3>2 DEF Answered
  <2>2. ASSUME NEW rest \in {<<>>, <<"left">>},
               Returns("static", fileName,
                 [rest |-> rest,
                  contentType |-> IF ext = NULL THEN Wild ELSE MimeType(ext, rest)])
        PROVE  Answered(request, a)
    <3>. DEFINE type == IF ext = NULL THEN Wild ELSE MimeType(ext, rest)
    <3>1. a = [call |-> "static", arg |-> fileName, out |-> [rest |-> rest, contentType |-> type]]
      BY <2>2 DEF Returns
    <3>. HIDE DEF type
    <3>2. a.call = "static" /\ a.arg = fileName /\ a.out.contentType = type /\ a.out.rest = rest
      BY <3>1
    <3>3. a.out.contentType = IF il_getFileExtension(a.arg) = NULL THEN Wild
                              ELSE MimeType(il_getFileExtension(a.arg), a.out.rest)
      BY <3>2 DEF type
    <3>. HIDE DEF a
    <3>. QED
      BY <3>2, <3>3 DEF Answered
  <2>. QED
    BY <1>6, <2>1, <2>2 DEF il_serveStatic
<1>7. ASSUME NEW data \in Binaries, NEW width \in {1, 3},
             Returns("base64", data, il_decodeBase64(Broken(il_encodeBase64(data), width)))
      PROVE  Answered(request, a)
  <2>. DEFINE out == il_decodeBase64(Broken(il_encodeBase64(data), width))
  <2>1. a = [call |-> "base64", arg |-> data, out |-> out]
    BY <1>7 DEF Returns
  <2>. HIDE DEF out
  <2>2. a.call = "base64" /\ a.arg = data /\ a.out = out
    BY <2>1
  <2>. HIDE DEF a
  <2>. QED
    BY <2>2 DEF Answered, out
<1>. QED
  BY <1>1, <1>2, <1>3, <1>4, <1>5, <1>6, <1>7
  DEF Servlet, il_getRequestSegmentByIndex, il_getPathParameterByIndex

(* AnswerInv is inductive: nothing changes a request once it is routed.    *)
LEMMA AnswerNext == AnswerInv /\ [Next]_vars => AnswerInv'
<1>. SUFFICES ASSUME AnswerInv, [Next]_vars PROVE AnswerInv'
  OBVIOUS
<1>1. CASE UNCHANGED vars
  BY <1>1 DEF vars, AnswerInv
<1>2. CASE phase # "servlet" /\ answer' = answer
  BY <1>2 DEF AnswerInv
<1>3. CASE Servlet
  <2>1. phase = "servlet" /\ phase' = phase /\ request' = request
    BY <1>3 DEF Servlet, Returns, il_getRequestField, il_getRequestHeader, il_getParmStr,
                 il_getRequestSegmentByIndex, il_getPathParameterByIndex, il_serveStatic
  <2>. QED
    BY <1>3, <2>1, AnswerOfCall DEF AnswerInv
<1>4. CASE Configure
  BY <1>2, <1>4 DEF Configure
<1>5. CASE il_listen
  BY <1>2, <1>5 DEF il_listen
<1>6. CASE receiveHeaderHTTP
  BY <1>2, <1>6 DEF receiveHeaderHTTP
<1>7. CASE receivePayload
  BY <1>2, <1>7 DEF receivePayload
<1>8. CASE fcgiReceiveHeader
  BY <1>2, <1>8 DEF fcgiReceiveHeader
<1>9. CASE Route
  BY <1>2, <1>9 DEF Route
<1>10. CASE Ended
  BY <1>1, <1>10 DEF Ended
<1>11. CASE RouteDies
  BY <1>2, <1>11 DEF RouteDies
<1>. QED
  BY <1>1, <1>3, <1>4, <1>5, <1>6, <1>7, <1>8, <1>9, <1>10, <1>11 DEF Next

(* Each of the cases of AnswersAsSent. *)
LEMMA AnswersRight ==
  ASSUME RequestInv, phase = "servlet", Answered(request, answer), WholeHead
  PROVE  AnswersAsSent
<1>. DEFINE msg == message
<1>1. FieldsAsSent(request, msg) /\ scenario \in Scenarios
  BY DEF RequestInv, RequestTypeOK, SentInv, Whole
<1>2. msg.parms \in Seq(SentParms) /\ LinesSent(msg) \in Seq(SentLines) /\ msg.lines \in Seq(SentLines)
  <2>1. Composed(msg)
    BY <1>1, ScenariosCompose DEF message
  <2>. HIDE DEF msg
  <2>2. LinesSent(msg) \in Seq(SentLines)
    BY <2>1, LinesSentTyped
  <2>. QED
    BY <2>1, <2>2 DEF Composed
<1>. HIDE DEF msg
<1>3. ASSUME answer.call = "header"
      PROVE  answer.out = IF msg.transport = "http"
                          THEN HeaderSent(Prefixed(LinesSent(msg)), answer.arg)
                          ELSE EnvHeaderSent(msg.lines, answer.arg)
  <2>. DEFINE name  == answer.arg
              whole == LinesSent(msg)
              list  == Prefixed(whole)
              lines == msg.lines
  <2>1. answer.out = getHeaderValue(request.headerList, name)
    BY <1>3 DEF Answered
  <2>2. ASSUME msg.transport = "http"
        PROVE  answer.out = HeaderSent(list, name)
    <3>1. request.headerList = KeysAndValues(list)
      BY <1>1, <2>2 DEF FieldsAsSent
    <3>2. whole \in Seq(SentLines)
      BY <1>2
    <3>. HIDE DEF name, whole
    <3>3. getHeaderValue(KeysAndValues(list), name) = HeaderSent(list, name)
      BY <3>2, HeaderFound
    <3>. HIDE DEF list
    <3>. QED
      BY <2>1, <3>1, <3>3, Zenon
  <2>3. ASSUME msg.transport # "http"
        PROVE  answer.out = EnvHeaderSent(lines, name)
    <3>1. request.headerList = EnvHeaders(lines)
      BY <1>1, <2>3 DEF FieldsAsSent
    <3>2. lines \in Seq(SentLines)
      BY <1>2
    <3>. HIDE DEF name, lines
    <3>3. getHeaderValue(EnvHeaders(lines), name) = EnvHeaderSent(lines, name)
      BY <3>2, EnvHeaderFound
    <3>. QED
      BY <2>1, <3>1, <3>3, Zenon
  <2>. HIDE DEF name, list, lines
  <2>4. answer.out = IF msg.transport = "http" THEN HeaderSent(list, name)
                     ELSE EnvHeaderSent(lines, name)
    BY <2>2, <2>3, Zenon
  <2>. QED
    BY <2>4, Zenon DEF name, list, lines
<1>4. ASSUME answer.call = "parm"
      PROVE  answer.out = ParmSent(Prefixed(msg.parms), answer.arg)
  <2>1. answer.out = ParmValue(request.parmList, answer.arg) /\ answer.arg \in Seq(STRING)
    BY <1>4, CallsAssumption DEF Answered
  <2>2. request.parmList = EncodedPairs(Prefixed(msg.parms))
    BY <1>1 DEF FieldsAsSent
  <2>. QED
    BY <1>2, <2>1, <2>2, ParmFound
<1>5. ASSUME answer.call \in {"segment", "index"}, msg.transport = "http"
      PROVE  answer.out = IF answer.arg < Len(msg.segments)
                          THEN msg.segments[answer.arg + 1] ELSE <<>>
  <2>. DEFINE segments == msg.segments
              i == answer.arg
  <2>1. request.segments = segments
    BY <1>1, <1>5 DEF FieldsAsSent
  <2>2. /\ i \in 0..2
        /\ answer.out = IF segments = NULL THEN Wild
                        ELSE IF i + 1 \in DOMAIN segments THEN segments[i + 1] ELSE <<>>
    BY <1>5, <2>1 DEF Answered
  <2>3. segments # NULL /\ \E S : segments \in Seq(S)
    BY <1>1, MessagesAssumption DEF msg, message
  <2>. HIDE DEF segments, i
  <2>4. DOMAIN segments = 1..Len(segments) /\ Len(segments) \in Nat
    BY <2>3, LenProperties
  <2>5. i + 1 \in DOMAIN segments <=> i < Len(segments)
    BY <2>2, <2>4
  <2>6. answer.out = IF i < Len(segments) THEN segments[i + 1] ELSE <<>>
    BY <2>2, <2>3, <2>5
  <2>. QED
    BY <2>6 DEF segments, i
<1>6. ASSUME answer.call = "static", answer.out.contentType # NULL,
             NEW i \in DOMAIN answer.arg, answer.arg[i] = ".", answer.out.rest = <<>>,
             "." \notin ToSet(SubSeq(answer.arg, i + 1, Len(answer.arg)))
      PROVE  answer.out.contentType =
               DocumentedType(SubSeq(answer.arg, i + 1, Len(answer.arg)))
  <2>. DEFINE fileName == answer.arg
              ext == SubSeq(fileName, i + 1, Len(fileName))
  <2>1. /\ fileName \in Files
        /\ answer.out.contentType = IF il_getFileExtension(fileName) = NULL THEN Wild
                                    ELSE MimeType(il_getFileExtension(fileName), <<>>)
    BY <1>6 DEF Answered
  <2>2. fileName \in Seq(STRING \ {"null"})
    BY <2>1, CallsAssumption
  <2>3. il_getFileExtension(fileName) = ext /\ ext # NULL /\ ext \in Seq(STRING)
    BY <1>6, <2>2, ExtensionFound
  <2>. HIDE DEF ext
  <2>4. MimeType(ext, <<>>) = DocumentedType(ext)
    BY <2>3, TypeDocumented
  <2>5. answer.out.contentType = DocumentedType(ext)
    BY <2>1, <2>3, <2>4
  <2>. QED
    BY <2>5 DEF ext
<1>7. ASSUME answer.call = "base64" PROVE answer.out = answer.arg
  <2>1. PICK width \in {1, 3} :
          answer.out = il_decodeBase64(Broken(il_encodeBase64(answer.arg), width))
    BY <1>7 DEF Answered
  <2>2. answer.arg \in Binary
    BY <1>7, CallsAssumption DEF Answered, Binary
  <2>3. width \in Nat \ {0}
    OBVIOUS
  <2>. QED
    BY <2>1, <2>2, <2>3, DecodesBroken
<1>8. AnswersAsSent <=>
        CASE answer.call = "header" ->
               answer.out = IF msg.transport = "http"
                            THEN HeaderSent(Prefixed(LinesSent(msg)), answer.arg)
                            ELSE EnvHeaderSent(msg.lines, answer.arg)
          [] answer.call = "parm" ->
               answer.out = ParmSent(Prefixed(msg.parms), answer.arg)
          [] answer.call \in {"segment", "index"} /\ msg.transport = "http" ->
               answer.out = IF answer.arg < Len(msg.segments)
                            THEN msg.segments[answer.arg + 1] ELSE <<>>
          [] answer.call = "static" /\ answer.out.contentType # NULL ->
               \A i \in DOMAIN answer.arg :
                 /\ answer.arg[i] = "." /\ answer.out.rest = <<>>
                 /\ "." \notin ToSet(SubSeq(answer.arg, i + 1, Len(answer.arg)))
                 => answer.out.contentType =
                      DocumentedType(SubSeq(answer.arg, i + 1, Len(answer.arg)))
          [] answer.call = "base64" -> answer.out = answer.arg
          [] OTHER -> TRUE
  BY DEF AnswersAsSent, HeaderSent, EnvHeaderSent, ParmSent, msg
<1>. QED
  BY <1>3, <1>4, <1>5, <1>6, <1>7, <1>8

(* What a servlet gets is what the client composed: for every request      *)
(* whose head was parsed as a whole, the header it asks for (over FastCGI  *)
(* under the name with _ for -, the type of the content not at all), the   *)
(* parameter, if its name needs no escape, the segment, the type of the    *)
(* extension of a file, and out of base 64 the bytes that were encoded.    *)
THEOREM AnswersArrive == Spec => []AnswersAsSent
<1>1. Init => AnswerInv
  BY DEF Init, AnswerInv
<1>2. Spec => []AnswerInv
  BY <1>1, AnswerNext, PTL DEF Spec
<1>3. RequestInv /\ AnswerInv => AnswersAsSent
  <2>. SUFFICES ASSUME RequestInv, AnswerInv, WholeHead PROVE AnswersAsSent
    BY DEF AnswersAsSent
  <2>1. CASE answer = NoAnswer
    <3>1. answer.call = "none"
      BY <2>1 DEF NoAnswer
    <3>. QED
      BY <3>1 DEF AnswersAsSent
  <2>2. CASE phase = "servlet" /\ Answered(request, answer)
    BY <2>2, AnswersRight
  <2>. QED
    BY <2>1, <2>2 DEF AnswerInv
<1>. QED
  BY <1>2, <1>3, RequestInvariant, PTL
=============================================================================

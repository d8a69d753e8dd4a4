---------------------------- MODULE DialogProofs ----------------------------
(***************************************************************************)
(* Proofs about the dialog of Roundtrip: which request the loop takes from *)
(* the stream the client sends, how much of it the callbacks see, when the *)
(* connection is kept, what a failure leaves on the wire and in the heap,  *)
(* and that all of it is an exchange as HttpExchange states it.            *)
(* They hold for every configuration, request and bound, and every way the *)
(* reads cut the stream.                                                   *)
(***************************************************************************)
EXTENDS RoundtripProofs

-----------------------------------------------------------------------------
(* The invariant.  None of the properties is inductive: each speaks of the *)
(* request in hand, and what that is depends on where in the stream of the *)
(* client the loop is.                                                     *)

(* The heads the server has taken from the stream. *)
Taken == IF pc \in {"payload", "dispatch"} THEN served + 1 ELSE served

(* A request has been received and its response is not ended. *)
InHand == pc \in {"payload", "dispatch"} \/ Answering

(* The loop goes on: it did not get past receiveHeader without a request   *)
(* (TLS), after which the thread dies.                                     *)
Talking == /\ pc \notin {"closing", "closed", "died"}
           /\ request.parsed \/ pc = "receive"

(* What the client sent, or is about to, and the server has not taken. *)
Stream == IF pc = "receive" THEN buf \o (inbox \o toSend) ELSE inbox \o toSend

(* The request no head of which was taken yet, if there is one. *)
Expected == IF Len(asks) > Taken THEN Units(Len(asks), asks[Len(asks)]) ELSE <<>>

(* A row of units holds the first of the units that are due, and no other. *)
Aligned(row, due) ==
  /\ Len(row) <= Len(due)
  /\ \A i \in 1..Len(row) : row[i] = due[i]

(* The ends on the wire are those of the requests served. *)
CountInv ==
  /\ pc \in {"receive", "payload", "dispatch"} => Cardinality(Ends) = served
  /\ Answering => Cardinality(Ends) + 1 = served
  /\ pc \in {"check", "cleanup"} =>
       Cardinality(Ends) + (IF Http THEN 0 ELSE 1) = served

(* A request that was parsed from its own bytes announces the length of    *)
(* its body.                                                               *)
RequestInv ==
  /\ ~Http => buf = <<>>
  /\ pc = "receive" => ~request.parsed
  /\ pc \in {"payload", "cleanup"} => request.parsed
  /\ ~Secure /\ (InHand \/ pc = "check") => request.parsed
  /\ ~request.parsed => request.have = request.need /\ request.clean
  /\ request.parsed /\ request.clean => request.need = ContentLength(request.from)

(* As long as all bytes of the requests before were read as theirs, the    *)
(* loop is where the client is: it has the last request of the client in   *)
(* hand, or the stream holds the next one from its first byte on.          *)
StreamInv ==
  Talking =>
    /\ InSync(Taken) =>
         /\ InHand \/ pc = "check" => request.from = Taken /\ request.clean
         /\ InHand => Len(asks) = Taken
         /\ pc = "payload" => Len(Stream) <= request.need - request.have
    /\ InSync(Taken + 1) /\ pc # "payload" =>
         Len(asks) \in {Taken, Taken + 1} /\ Aligned(Stream, Expected)
    /\ pc = "dispatch" \/ Answering =>
         request.have = request.need \/ Taken \in ghost.left

(* The m-th request of the client does not ask for the end of the          *)
(* connection; nor does any up to the n-th.                                *)
Opens(m) == InSync(m) => m <= Len(asks) /\ ~SaysClose(m)
KeepsOpen(n) == \A m \in 1..n : Opens(m)

CloseInv ==
  ~Secure =>
    /\ pc \in {"receive", "payload", "dispatch"} => connected /\ KeepsOpen(served)
    /\ Answering \/ pc = "check" => connected
    /\ pc = "cleanup" /\ connected => KeepsOpen(served)
    /\ KeepsOpen(served - 1)

FailInv ==
  /\ pc \in {"receive", "payload", "dispatch"} => ghost.raised = "no"
  /\ FailureReported

(* Some request of the client begins with an empty line. *)
Lead == \E n \in DOMAIN asks : "lead" \in asks[n].flaws

MemInv ==
  /\ "parmValue" \in heap =>
       request.matched /\ pc \notin {"receive", "payload", "dispatch"}
  /\ request.inner => Lead \/ ghost.left # {}
  /\ pc # "closed" => "instance" \in heap
  /\ pc = "receive" => heap \subseteq {"instance"} \cup (IF Http THEN {"buf"} ELSE {})
  /\ pc = "closing" => heap = {"instance"}
  /\ OnlyInstanceLeaked

-----------------------------------------------------------------------------
(* Sequences of units.                                                     *)

(* What a concatenation holds, indexed from the start of each part. *)
LEMMA Glue ==
  ASSUME NEW S, NEW s \in Seq(S), NEW t \in Seq(S)
  PROVE  /\ s \o t \in Seq(S)
         /\ Len(s) \in Nat /\ Len(t) \in Nat
         /\ Len(s \o t) = Len(s) + Len(t)
         /\ \A i \in 1..Len(s) : (s \o t)[i] = s[i]
         /\ \A i \in 1..Len(t) : (s \o t)[Len(s) + i] = t[i]
<1>1. Len(s) \in Nat /\ Len(t) \in Nat
  BY LenProperties
<1>2. /\ s \o t \in Seq(S) /\ Len(s \o t) = Len(s) + Len(t)
      /\ \A i \in 1..(Len(s) + Len(t)) : (s \o t)[i] =
                     IF i <= Len(s) THEN s[i] ELSE t[i - Len(s)]
  BY ConcatProperties
<1>3. ASSUME NEW i \in 1..Len(t) PROVE (s \o t)[Len(s) + i] = t[i]
  <2>1. Len(s) + i \in 1..(Len(s) + Len(t)) /\ ~(Len(s) + i <= Len(s))
          /\ (Len(s) + i) - Len(s) = i
    BY <1>1
  <2>. QED
    BY <1>2, <2>1
<1>4. ASSUME NEW i \in 1..Len(s) PROVE (s \o t)[i] = s[i]
  BY <1>1, <1>2
<1>. QED
  BY <1>1, <1>2, <1>3, <1>4

(* What is in the buffer, in the socket and on its way, as one row. *)
Row(b, q, t) == b \o (q \o t)

(* A read moves units from the socket to the buffer: the stream is the     *)
(* same.                                                                   *)
LEMMA ReadKeepsStream ==
  ASSUME NEW S, NEW b \in Seq(S), NEW q \in Seq(S), NEW t \in Seq(S),
         NEW k \in 0..Len(q)
  PROVE  /\ SubSeq(q, 1, k) \in Seq(S)
         /\ SubSeq(q, k + 1, Len(q)) \in Seq(S)
         /\ Len(SubSeq(q, 1, k)) = k
         /\ Row(b \o SubSeq(q, 1, k), SubSeq(q, k + 1, Len(q)), t) = Row(b, q, t)
<1>1. ASSUME NEW f \in Seq(S), NEW g \in Seq(S)
      PROVE  (b \o f) \o (g \o t) = b \o ((f \o g) \o t)
  <2>1. g \o t \in Seq(S)
    BY ConcatProperties
  <2>2. (b \o f) \o (g \o t) = b \o (f \o (g \o t))
    BY <2>1, ConcatAssociative, SMTT(60)
  <2>3. f \o (g \o t) = (f \o g) \o t
    BY ConcatAssociative, SMTT(60)
  <2>. QED
    BY <2>2, <2>3
<1>2. Len(q) \in Nat /\ \A i \in 1..Len(q) : q[i] \in S
  BY LenProperties, ElementOfSeq
<1>3. 1 \in 1..(Len(q) + 1) /\ k \in (1 - 1)..Len(q) /\ Len(q) \in k..Len(q)
        /\ k + 1 \in 1..(Len(q) + 1) /\ Len(q) \in 0..Len(q)
  BY <1>2
<1>4. PICK f \in Seq(S), g \in Seq(S) :
        f = SubSeq(q, 1, k) /\ g = SubSeq(q, k + 1, Len(q))
  BY <1>3, PartOfSeq
<1>5. f \o g = q
  <2>1. SubSeq(q, 1, k) \o SubSeq(q, k + 1, Len(q)) = SubSeq(q, 1, Len(q))
    BY <1>3, ConcatAdjacentSubSeq
  <2>. QED
    BY <1>4, <2>1, SubSeqFull
<1>6. (b \o f) \o (g \o t) = b \o ((f \o g) \o t)
  BY <1>1
<1>7. Len(SubSeq(q, 1, k)) = k
  BY <1>2, SubSeqProperties
<1>. QED
  BY <1>4, <1>5, <1>6, <1>7 DEF Row

(* What is left when a read has taken the first k units. *)
LEMMA ReadFromFront ==
  ASSUME NEW S, NEW q \in Seq(S), NEW t \in Seq(S), NEW k \in 0..Len(q)
  PROVE  /\ Len(SubSeq(q, k + 1, Len(q)) \o t) \in Nat
         /\ Len(q \o t) = k + Len(SubSeq(q, k + 1, Len(q)) \o t)
         /\ \A i \in 1..Len(SubSeq(q, k + 1, Len(q)) \o t) :
              (SubSeq(q, k + 1, Len(q)) \o t)[i] = (q \o t)[k + i]
<1>1. Len(q) \in Nat /\ Len(t) \in Nat
  BY LenProperties
<1>2. /\ k \in Nat /\ k <= Len(q) /\ k + 1 \in Int /\ Len(q) \in Int
      /\ \A i \in (k + 1)..Len(q) : i \in 1..Len(q)
  BY <1>1
<1>3. \A i \in (k + 1)..Len(q) : q[i] \in S
  BY <1>2, ElementOfSeq
<1>a. /\ SubSeq(q, k + 1, Len(q)) \in Seq(S)
      /\ \A i \in 1..(Len(q) - (k + 1) + 1) :
           SubSeq(q, k + 1, Len(q))[i] = q[(k + 1) + i - 1]
  BY <1>2, <1>3, SubSeqProperties
<1>b. Len(SubSeq(q, k + 1, Len(q))) = Len(q) - k
  <2>1. Len(SubSeq(q, k + 1, Len(q))) =
          IF k + 1 <= Len(q) THEN Len(q) - (k + 1) + 1 ELSE 0
    BY <1>2, <1>3, SubSeqProperties
  <2>. QED
    BY <1>1, <1>2, <2>1
<1>c. PICK g \in Seq(S) : g = SubSeq(q, k + 1, Len(q))
  BY <1>a
<1>d. Len(g) \in Nat /\ Len(q) = k + Len(g)
  BY <1>1, <1>2, <1>b, <1>c
<1>e. ASSUME NEW i \in 1..Len(g) PROVE g[i] = q[k + i]
  <2>1. i \in 1..(Len(q) - (k + 1) + 1) /\ (k + 1) + i - 1 = k + i
    BY <1>1, <1>2, <1>d
  <2>. QED
    BY <1>a, <1>c, <2>1
<1>4. /\ Len(q \o t) = Len(q) + Len(t)
      /\ \A i \in 1..(Len(q) + Len(t)) : (q \o t)[i] =
                     IF i <= Len(q) THEN q[i] ELSE t[i - Len(q)]
  BY ConcatProperties
<1>5. /\ Len(g \o t) = Len(g) + Len(t)
      /\ \A i \in 1..(Len(g) + Len(t)) : (g \o t)[i] =
                     IF i <= Len(g) THEN g[i] ELSE t[i - Len(g)]
  BY ConcatProperties
<1>6. ASSUME NEW i \in 1..(Len(g) + Len(t)) PROVE (g \o t)[i] = (q \o t)[k + i]
  <2>1. k + i \in 1..(Len(q) + Len(t)) /\ (i <= Len(g) <=> k + i <= Len(q))
          /\ (k + i) - Len(q) = i - Len(g)
    BY <1>1, <1>2, <1>d
  <2>2. CASE i <= Len(g)
    BY <1>d, <1>e, <1>4, <1>5, <2>1, <2>2
  <2>3. CASE ~(i <= Len(g))
    BY <1>4, <1>5, <2>1, <2>3
  <2>. QED
    BY <2>2, <2>3
<1>7. Len(g \o t) \in Nat /\ Len(q \o t) = k + Len(g \o t)
  BY <1>1, <1>2, <1>4, <1>5, <1>d
<1>. QED
  BY <1>5, <1>6, <1>7, <1>c

(* So does the delivery of a unit. *)
LEMMA DeliveryKeepsStream ==
  ASSUME NEW S, NEW q \in Seq(S), NEW t \in Seq(S), t # <<>>
  PROVE  Append(q, Head(t)) \o Tail(t) = q \o t
<1>1. PICK h \in S, u \in Seq(S) : h = Head(t) /\ u = Tail(t)
  BY HeadTailProperties
<1>2. <<h>> \in Seq(S) /\ Append(q, h) = q \o <<h>>
  BY AppendIsConcat
<1>3. <<h>> \o u = t
  <2>1. Len(t) \in Nat /\ Len(t) # 0
    BY LenProperties, EmptySeq
  <2>2. 1 \in 1..Len(t) /\ Len(t) \in 1..Len(t)
    BY <2>1
  <2>3. SubSeq(t, 1, Len(t)) = <<t[1]>> \o SubSeq(t, 1 + 1, Len(t))
    BY <2>2, SubSeqRecursiveFirst
  <2>4. SubSeq(t, 1, Len(t)) = t /\ SubSeq(t, 2, Len(t)) = Tail(t) /\ t[1] = Head(t)
    BY SubSeqFull, TailIsSubSeq
  <2>. QED
    BY <1>1, <2>3, <2>4
<1>4. (q \o <<h>>) \o u = q \o (<<h>> \o u)
  BY <1>2, ConcatAssociative
<1>. QED
  BY <1>1, <1>2, <1>3, <1>4

(* The units of a request: a head, which its last unit ends and no other   *)
(* one does, then a body.                                                  *)
LEMMA UnitsOfRequest ==
  ASSUME NEW n \in Nat, NEW r \in Request
  PROVE  /\ r.head \in Nat \ {0} /\ r.body \in Nat
         /\ Units(n, r) \in Seq(Unit) /\ Len(Units(n, r)) = r.head + r.body
         /\ \A i \in 1..(r.head + r.body) :
              /\ Units(n, r)[i].req = n
              /\ EndsHead(Units(n, r), i) <=> i = r.head
              /\ Units(n, r)[i].part = "half" => i = r.head - 1
              /\ Units(n, r)[i].part = "body" => i > r.head
<1>. DEFINE u == Units(n, r)
<1>1. r.head \in Nat \ {0} /\ r.body \in Nat /\ r.head + r.body \in Nat
  BY DEF Request
<1>2. Units(n, r) \in [1..(r.head + r.body) -> Unit]
  <2>1. \A i \in 1..(r.head + r.body) : PartOf(r, i) \in Part
    BY DEF PartOf, Part
  <2>. QED
    BY <1>1, <2>1 DEF Units, Unit
<1>3. Units(n, r) \in Seq(Unit) /\ Len(Units(n, r)) = r.head + r.body
  BY <1>1, <1>2, IsASeq
<1>4. \A i \in 1..(r.head + r.body) : u[i].req = n /\ u[i].part = PartOf(r, i)
  BY <1>1 DEF Units
<1>5. Split(r) => r.head > 1
  BY DEF Split
<1>. HIDE DEF u
<1>6. ASSUME NEW i \in 1..(r.head + r.body)
      PROVE  /\ PartOf(r, i) = "eoh" <=> i = r.head /\ ~Split(r)
             /\ PartOf(r, i) = "rest" <=> i = r.head /\ Split(r)
             /\ PartOf(r, i) = "half" <=> i = r.head - 1 /\ Split(r)
             /\ PartOf(r, i) = "body" => i > r.head
  <2>1. CASE i = r.head
    BY <1>1, <2>1 DEF PartOf
  <2>2. CASE i # r.head /\ i = r.head - 1 /\ Split(r)
    BY <1>1, <2>2 DEF PartOf
  <2>3. CASE i # r.head /\ ~(i = r.head - 1 /\ Split(r))
    BY <1>1, <2>3 DEF PartOf
  <2>. QED
    BY <2>1, <2>2, <2>3
<1>7. ASSUME NEW i \in 1..(r.head + r.body)
      PROVE  EndsHead(u, i) <=> i = r.head
  <2>1. i > 1 => i - 1 \in 1..(r.head + r.body)
    BY <1>1
  <2>2. CASE i = r.head /\ Split(r)
    <3>1. u[i].part = "rest" /\ i > 1 /\ i - 1 \in 1..(r.head + r.body)
            /\ i - 1 = r.head - 1
      BY <1>1, <1>4, <1>5, <1>6, <2>1, <2>2
    <3>2. u[i - 1].part = "half"
      BY <1>4, <1>6, <2>2, <3>1
    <3>. QED
      BY <2>2, <3>1, <3>2 DEF EndsHead
  <2>3. CASE i = r.head /\ ~Split(r)
    BY <1>4, <1>6, <2>3 DEF EndsHead
  <2>4. CASE i # r.head
    BY <1>4, <1>6, <2>4 DEF EndsHead
  <2>. QED
    BY <2>2, <2>3, <2>4
<1>8. ASSUME NEW i \in 1..(r.head + r.body)
      PROVE  /\ u[i].part = "half" => i = r.head - 1
             /\ u[i].part = "body" => i > r.head
  BY <1>4, <1>6
<1>. QED
  BY <1>1, <1>3, <1>4, <1>7, <1>8 DEF u

-----------------------------------------------------------------------------
(* Rows that are aligned with the units that are due.                      *)

(* What is cut off the end of the stream, when the client goes away, does  *)
(* not matter.                                                             *)
LEMMA AlignedPrefix ==
  ASSUME NEW row, NEW due, NEW q,
         Len(row) \in Nat, Len(due) \in Nat, Len(q) \in 0..Len(row),
         \A i \in 1..Len(q) : q[i] = row[i],
         Aligned(row, due)
  PROVE  Aligned(q, due)
<1>1. Len(q) <= Len(due) /\ \A i \in 1..Len(q) : i \in 1..Len(row)
  BY DEF Aligned
<1>. QED
  BY <1>1 DEF Aligned

(* The units u from the start of a row that is aligned with the request    *)
(* that is due, when memmem finds a CRLFCRLF in them: it is the one that   *)
(* ends the head or, read beyond what was received, begins to, and what    *)
(* comes in front of it is the head of that request.                       *)
LEMMA TakeHead ==
  ASSUME NEW u \in Seq(Unit), NEW v \in Seq(Unit), NEW n \in Nat, asks[n] \in Request,
         NEW due, due = <<>> \/ due = Units(n, asks[n]),
         Aligned(u \o v, due),
         NEW eoh \in 1..Len(u), Found(u, eoh)
  PROVE  /\ due # <<>>
         /\ u[eoh].req = n
         /\ Whole(u, eoh)
         /\ u[eoh].part # "half" =>
              eoh = asks[n].head /\ (Len(u) - eoh) + Len(v) <= asks[n].body
<1>. DEFINE row == u \o v
            r   == asks[n]
            new == Units(n, r)
<1>1. /\ Len(u) \in Nat /\ Len(v) \in Nat /\ Len(row) = Len(u) + Len(v)
      /\ \A i \in 1..Len(u) : row[i] = u[i]
  BY Glue
<1>2. /\ r.head \in Nat \ {0} /\ r.body \in Nat /\ Len(new) = r.head + r.body
      /\ \A i \in 1..(r.head + r.body) :
           /\ new[i].req = n
           /\ EndsHead(new, i) <=> i = r.head
           /\ new[i].part = "half" => i = r.head - 1
           /\ new[i].part = "body" => i > r.head
  BY UnitsOfRequest
<1>. HIDE DEF row, new, r
<1>3. due = new /\ due # <<>>
  <2>1. Len(row) >= 1 /\ Len(row) <= Len(due)
    BY <1>1 DEF Aligned, row
  <2>. QED
    BY <2>1 DEF new, r
<1>4. /\ Len(u) + Len(v) <= r.head + r.body
      /\ \A i \in 1..Len(u) : i \in 1..(r.head + r.body) /\ u[i] = new[i]
  <2>1. Len(row) <= Len(new) /\ \A i \in 1..Len(row) : row[i] = new[i]
    BY <1>3 DEF Aligned, row
  <2>2. \A i \in 1..Len(u) : i \in 1..Len(row) /\ i \in 1..(r.head + r.body)
    BY <1>1, <1>2, <2>1
  <2>. QED
    BY <1>1, <1>2, <2>1, <2>2
<1>5. ASSUME NEW i \in 1..Len(u) PROVE EndsHead(u, i) <=> i = r.head
  <2>1. i > 1 => i - 1 \in 1..Len(u)
    BY <1>1
  <2>2. EndsHead(u, i) <=> EndsHead(new, i)
    BY <1>4, <2>1 DEF EndsHead
  <2>. QED
    BY <1>2, <1>4, <2>2
<1>6. \A j \in 1..(eoh - 1) : j \in 1..Len(u) /\ ~EndsHead(u, j)
  BY <1>1 DEF Found
<1>7. eoh <= r.head
  <2>. SUFFICES ASSUME ~(eoh <= r.head) PROVE FALSE
    OBVIOUS
  <2>1. r.head \in 1..(eoh - 1)
    BY <1>1, <1>2
  <2>. QED
    BY <1>5, <1>6, <2>1
<1>8. u[eoh].req = n
  BY <1>2, <1>4
<1>9. Whole(u, eoh)
  <2>1. \A i \in 1..eoh : i \in 1..Len(u)
    BY <1>1
  <2>. QED
    BY <1>4, <1>7, <1>8, <2>1 DEF Whole, new, r
<1>10. ASSUME u[eoh].part # "half" PROVE eoh = r.head
  <2>1. u[eoh].part # "body"
    BY <1>1, <1>2, <1>4, <1>7
  <2>2. ~(eoh > 1 /\ u[eoh - 1].part = "rest" /\ u[eoh - 1].req # u[eoh].req)
    <3>1. eoh > 1 => eoh - 1 \in 1..Len(u)
      BY <1>1
    <3>. QED
      BY <1>2, <1>4, <3>1
  <2>3. EndsHead(u, eoh)
    BY <1>10, <2>1, <2>2 DEF Found
  <2>. QED
    BY <1>5, <2>3
<1>11. ASSUME u[eoh].part # "half" PROVE (Len(u) - eoh) + Len(v) <= r.body
  BY <1>1, <1>2, <1>4, <1>10, <1>11
<1>. QED
  BY <1>3, <1>8, <1>9, <1>10, <1>11 DEF r

-----------------------------------------------------------------------------
(* The number of responses ended.                                          *)

EndsOf(w) == {i \in DOMAIN w : w[i].kind = "end"}

(* A token more on the wire is one end more, or none. *)
LEMMA EndsOfAppend ==
  ASSUME NEW w \in Seq(Token), NEW t \in Token
  PROVE  /\ Cardinality(EndsOf(w)) \in Nat
         /\ Cardinality(EndsOf(Append(w, t))) =
              Cardinality(EndsOf(w)) + (IF t.kind = "end" THEN 1 ELSE 0)
<1>. DEFINE v == Append(w, t)
<1>1. /\ Len(w) \in Nat /\ DOMAIN w = 1..Len(w)
      /\ v \in Seq(Token) /\ DOMAIN v = 1..(Len(w) + 1)
      /\ \A i \in 1..Len(w) : v[i] = w[i]
      /\ v[Len(w) + 1] = t
  BY AppendProperties, LenProperties
<1>. HIDE DEF v
<1>2. IsFiniteSet(EndsOf(w)) /\ Cardinality(EndsOf(w)) \in Nat
  <2>1. IsFiniteSet(1..Len(w))
    BY <1>1, FS_Interval
  <2>2. EndsOf(w) \in SUBSET (1..Len(w))
    BY <1>1 DEF EndsOf
  <2>. QED
    BY <2>1, <2>2, FS_Subset, FS_CardinalityType
<1>3. CASE t.kind = "end"
  <2>1. EndsOf(v) = EndsOf(w) \cup {Len(w) + 1} /\ Len(w) + 1 \notin EndsOf(w)
    BY <1>1, <1>3 DEF EndsOf
  <2>2. Cardinality(EndsOf(v)) = Cardinality(EndsOf(w)) + 1
    BY <1>2, <2>1, FS_AddElement
  <2>. QED
    BY <1>2, <1>3, <2>2 DEF v
<1>4. CASE t.kind # "end"
  <2>1. EndsOf(v) = EndsOf(w)
    BY <1>1, <1>4 DEF EndsOf
  <2>. QED
    BY <1>2, <1>4, <2>1 DEF v
<1>. QED
  BY <1>3, <1>4

(* A write ends no response, putChunkEnd ends one. *)
LEMMA EmitEnds ==
  ASSUME TypeInv, NEW kind \in {"chunk", "end"}, NEW st \in Nat, Emit(kind, st)
  PROVE  /\ Cardinality(Ends) \in Nat
         /\ Cardinality(Ends') =
              Cardinality(Ends) + (IF kind = "end" THEN 1 ELSE 0)
<1>. DEFINE h == NewToken("header", st)
            t == NewToken(kind, st)
<1>1. h \in Token /\ t \in Token /\ wire \in Seq(Token) /\ firstWrite \in BOOLEAN
        /\ h.kind = "header" /\ t.kind = kind
  BY DEF TypeInv, TypeOK, NewToken, Token
<1>2. wire' = IF firstWrite THEN Append(Append(wire, h), t) ELSE Append(wire, t)
  BY EmitAppends DEF TypeInv
<1>. HIDE DEF h, t
<1>3. Append(wire, h) \in Seq(Token)
  BY <1>1, AppendProperties
<1>4. /\ Cardinality(EndsOf(wire)) \in Nat
      /\ Cardinality(EndsOf(Append(wire, h))) = Cardinality(EndsOf(wire))
      /\ Cardinality(EndsOf(Append(wire, t))) =
           Cardinality(EndsOf(wire)) + (IF kind = "end" THEN 1 ELSE 0)
      /\ Cardinality(EndsOf(Append(Append(wire, h), t))) =
           Cardinality(EndsOf(Append(wire, h))) + (IF kind = "end" THEN 1 ELSE 0)
  <2>1. /\ Cardinality(EndsOf(wire)) \in Nat
        /\ Cardinality(EndsOf(Append(wire, h))) =
             Cardinality(EndsOf(wire)) + (IF h.kind = "end" THEN 1 ELSE 0)
        /\ Cardinality(EndsOf(Append(wire, t))) =
             Cardinality(EndsOf(wire)) + (IF t.kind = "end" THEN 1 ELSE 0)
    BY <1>1, EndsOfAppend
  <2>2. Cardinality(EndsOf(Append(Append(wire, h), t))) =
          Cardinality(EndsOf(Append(wire, h))) + (IF t.kind = "end" THEN 1 ELSE 0)
    BY <1>1, <1>3, EndsOfAppend
  <2>. QED
    BY <1>1, <2>1, <2>2
<1>5. Ends = EndsOf(wire) /\ Ends' = EndsOf(wire')
  BY DEF Ends, EndsOf
<1>. QED
  BY <1>1, <1>2, <1>4, <1>5

(* Nothing is served and nothing ended at first. *)
LEMMA CountInit == Init => CountInv
<1>. SUFFICES ASSUME Init PROVE CountInv
  OBVIOUS
<1>1. Ends = {}
  BY DEF Init, Ends
<1>. QED
  BY <1>1, FS_EmptySet DEF Init, CountInv, Answering

(* A request served is ended by putChunkEnd, over FastCGI by the next      *)
(* FCGX_Accept, before the next one is served.                             *)
LEMMA CountStep == TypeInv /\ CountInv /\ [Next]_vars => CountInv'
<1>. SUFFICES ASSUME TypeInv, CountInv, [Next]_vars PROVE CountInv'
  OBVIOUS
<1>. USE DEF CountInv, Answering
<1>t. /\ served \in Nat /\ status \in Nat /\ wire \in Seq(Token)
      /\ firstWrite \in BOOLEAN /\ Http \in BOOLEAN /\ Cardinality(Ends) \in Nat
  <2>1. served \in Nat /\ status \in Nat /\ wire \in Seq(Token)
          /\ firstWrite \in BOOLEAN /\ Http \in BOOLEAN
    BY DEF TypeInv, TypeOK, Http
  <2>2. NewToken("end", status) \in Token /\ Ends = EndsOf(wire)
    BY <2>1 DEF NewToken, Token, Ends, EndsOf
  <2>. QED
    BY <2>1, <2>2, EndsOfAppend
<1>0. ASSUME UNCHANGED wire PROVE Ends' = Ends
  BY <1>0 DEF Ends
<1>h. ASSUME UNCHANGED config PROVE Http' = Http
  BY <1>h DEF Http
<1>1. CASE UNCHANGED vars
  BY <1>0, <1>1, <1>h DEF vars, respVars
<1>2. CASE Environment
  <2>1. UNCHANGED <<config, wire, served>> /\ (pc' = pc \/ pc' = "closing")
    BY <1>2 DEF Environment, Ask, Deliver, Hangup, Reset, fcgiAcceptFails,
                serverVars, respVars
  <2>. QED
    BY <1>0, <1>h, <2>1
<1>3. CASE Receive
  <2>1. /\ UNCHANGED <<config, wire, served>> /\ pc \in {"receive", "payload"}
        /\ pc' \in {"receive", "payload", "dispatch", "closing", "died"}
    BY <1>3, ReceiveQuiet
  <2>. QED
    BY <1>0, <1>h, <2>1
<1>4. CASE Returns
  <2>1. UNCHANGED <<config, wire, served>>
          /\ pc \in {"pre", "servlet", "post"} /\ pc' \in {"pre", "post", "end"}
    BY <1>4 DEF Returns, runPreRequestPlugin, runPostResponsePlugin,
                ServletReturns, respVars
  <2>. QED
    BY <1>0, <1>h, <2>1
<1>5. CASE putChunk \/ handleServletException
  <2>1. PICK st \in Nat : Emit("chunk", st)
    BY <1>5, <1>t DEF putChunk, handleServletException
  <2>2. UNCHANGED <<config, served>> /\ pc \in {"pre", "servlet", "post"}
          /\ pc' \in {"pre", "servlet", "post", "end"}
    BY <1>5 DEF putChunk, handleServletException, InCallback, InPlugin
  <2>3. Cardinality(Ends') = Cardinality(Ends)
    BY <1>t, <2>1, EmitEnds
  <2>. QED
    BY <1>h, <2>2, <2>3
<1>6. ASSUME NEW s \in Statuses, SetStatus(s) PROVE CountInv'
  BY <1>0, <1>h, <1>6 DEF SetStatus
<1>7. CASE Dispatch
  BY <1>0, <1>h, <1>t, <1>7 DEF Dispatch
<1>8. CASE runServlet \/ PluginsDone
  <2>1. UNCHANGED <<config, wire, served>>
          /\ pc \in {"pre", "post"} /\ pc' \in {"servlet", "post", "end"}
    BY <1>8 DEF runServlet, PluginsDone, respVars
  <2>. QED
    BY <1>0, <1>h, <2>1
<1>9. CASE putChunkEnd
  <2>1. UNCHANGED <<config, served>> /\ pc = "end" /\ pc' = "check"
    BY <1>9 DEF putChunkEnd
  <2>2. CASE Http
    <3>1. Cardinality(Ends') = Cardinality(Ends) + 1
      BY <1>9, <1>t, <2>2, EmitEnds DEF putChunkEnd
    <3>. QED
      BY <1>h, <1>t, <2>1, <2>2, <3>1
  <2>3. CASE ~Http
    BY <1>0, <1>9, <1>h, <2>1, <2>3 DEF putChunkEnd
  <2>. QED
    BY <2>2, <2>3
<1>10. CASE CheckConnection
  <2>1. UNCHANGED <<config, wire, served>> /\ pc = "check"
          /\ pc' \in {"cleanup", "died"}
    BY <1>10 DEF CheckConnection, respVars
  <2>. QED
    BY <1>0, <1>h, <2>1
<1>11. CASE cleanupTransaction
  <2>1. UNCHANGED <<config, served>> /\ pc = "cleanup" /\ pc' \in {"receive", "closing"}
    BY <1>11 DEF cleanupTransaction
  <2>2. CASE connected /\ ~Http
    <3>1. wire' = Append(wire, NewToken("end", status))
      BY <1>11, <2>2 DEF cleanupTransaction
    <3>2. NewToken("end", status) \in Token /\ NewToken("end", status).kind = "end"
      BY <1>t DEF NewToken, Token
    <3>3. Ends = EndsOf(wire) /\ Ends' = EndsOf(wire')
      BY DEF Ends, EndsOf
    <3>4. Cardinality(Ends') = Cardinality(Ends) + 1
      BY <1>t, <3>1, <3>2, <3>3, EndsOfAppend
    <3>. QED
      BY <1>t, <2>1, <2>2, <3>4
  <2>3. CASE ~(connected /\ ~Http)
    <3>1. UNCHANGED wire /\ (pc' = "receive" => Http)
      BY <1>11, <2>3 DEF cleanupTransaction
    <3>. QED
      BY <1>0, <1>h, <1>t, <2>1, <3>1
  <2>. QED
    BY <2>2, <2>3
<1>12. CASE CloseSocket \/ CertificateFault
  BY <1>12 DEF CloseSocket, CertificateFault
<1>13. CASE Terminated
  BY <1>1, <1>13 DEF Terminated
<1>. QED
  BY <1>1, <1>2, <1>3, <1>4, <1>5, <1>6, <1>7, <1>8, <1>9, <1>10, <1>11, <1>12,
     <1>13 DEF Next, Callback, Respond

-----------------------------------------------------------------------------
(* The request in hand.                                                    *)

(* A request without a head has nothing of a request. *)
LEMMA RequestInit == Init => RequestInv
BY DEF Init, RequestInv, InHand, Answering, NoRequest

(* What lookForHeaders makes of a buffer, when the head does not end       *)
(* behind what was received.                                               *)
LEMMA ParsedHead ==
  ASSUME TypeInv, NEW units \in Seq(Sent), NEW eoh \in 1..Len(units),
         NEW p \in lookForHeaders(units, eoh), p.have >= 0,
         NEW r, r = p \/ r = [p EXCEPT !.inner = FALSE]
  PROVE  /\ r \in Parsed /\ r.parsed
         /\ r.from = units[eoh].req /\ r.from \in 1..Len(asks)
         /\ r.need \in Nat /\ r.have \in Nat
         /\ r.have = IF r.need = 0 THEN 0
                     ELSE IF Behind(units, eoh) > r.need THEN r.need
                     ELSE Behind(units, eoh)
         /\ r.clean <=> Whole(units, eoh)
         /\ r.clean => r.need = ContentLength(r.from)
         /\ ~r.matched
         /\ r.clean /\ r.inner => Lead
<1>. DEFINE n == units[eoh].req
<1>1. /\ p \in Parsed /\ p.parsed /\ p.have <= p.need /\ p.from \in 1..Len(asks)
  BY ParsedType
<1>2. PICK need \in Nat, inner \in BOOLEAN :
        /\ p = Reading(units, eoh, need, inner)
        /\ Whole(units, eoh) =>
             /\ need = ContentLength(n)
             /\ inner <=> "lead" \in asks[n].flaws
  BY ReadingOf
<1>3. /\ p.from = n /\ p.clean = Whole(units, eoh) /\ p.inner = inner
      /\ p.need = need /\ ~p.matched
      /\ p.have = IF need = 0 THEN 0
                  ELSE IF Behind(units, eoh) > need THEN need ELSE Behind(units, eoh)
  BY <1>2 DEF Reading
<1>. HIDE DEF n
<1>4. /\ r \in Parsed
      /\ r.parsed = p.parsed /\ r.from = p.from /\ r.need = p.need
      /\ r.have = p.have /\ r.clean = p.clean /\ r.matched = p.matched
      /\ r.inner => p.inner
  <2>1. CASE r = p
    BY <1>1, <2>1
  <2>2. CASE r = [p EXCEPT !.inner = FALSE]
    BY <1>1, <2>2 DEF Parsed
  <2>. QED
    BY <2>1, <2>2
<1>5. r.clean <=> Whole(units, eoh)
  BY <1>3, <1>4, Zenon
<1>6. r.clean => r.need = ContentLength(r.from)
  BY <1>2, <1>3, <1>4, <1>5, Zenon
<1>7. r.clean /\ r.inner => Lead
  <2>. SUFFICES ASSUME r.clean, r.inner PROVE Lead
    OBVIOUS
  <2>1. "lead" \in asks[n].flaws
    BY <1>2, <1>3, <1>4, <1>5, Zenon
  <2>2. n \in DOMAIN asks
    BY <1>1, <1>3, LenProperties DEF TypeInv, TypeOK
  <2>. QED
    BY <2>1, <2>2 DEF Lead
<1>8. r.need \in Nat /\ r.have \in Nat
  BY <1>4 DEF Parsed
<1>. QED
  BY <1>1, <1>3, <1>4, <1>5, <1>6, <1>7, <1>8, n = units[eoh].req DEF n

(* What FCGX_Accept hands over ends with the head. *)
LEMMA AcceptedHead ==
  ASSUME TypeInv, NEW eoh \in 1..Len(inbox), IsHeadEnd(inbox, eoh),
         NEW p \in lookForHeaders(SubSeq(inbox, 1, eoh), eoh)
  PROVE  \E u \in Seq(Sent) :
           /\ u = SubSeq(inbox, 1, eoh) /\ Len(u) = eoh /\ eoh \in 1..Len(u)
           /\ IsHeadEnd(u, eoh) /\ u[eoh].part # "half" /\ p.have >= 0
<1>1. inbox \in Seq(Sent) /\ Len(inbox) \in Nat
  BY LenProperties DEF TypeInv
<1>2. \A i \in 1..Len(inbox) : inbox[i] \in Sent
  BY <1>1, ElementOfSeq
<1>3. PICK u \in Seq(Sent) : u = SubSeq(inbox, 1, eoh)
  <2>1. 1 \in 1..(Len(inbox) + 1) /\ eoh \in 0..Len(inbox)
    BY <1>1
  <2>. QED
    BY <1>1, <2>1, PartOfSeq
<1>4. Len(u) = eoh /\ \A i \in 1..eoh : u[i] = inbox[i]
  BY <1>1, <1>2, <1>3, SubSeqProperties
<1>5. eoh \in Nat /\ eoh >= 1 /\ \A j \in 1..eoh : j > 1 => j - 1 \in 1..eoh
  BY <1>1
<1>6. \A j \in 1..eoh : EndsHead(u, j) <=> EndsHead(inbox, j)
  BY <1>4, <1>5 DEF EndsHead
<1>7. IsHeadEnd(u, eoh)
  BY <1>5, <1>6 DEF IsHeadEnd
<1>8. u[eoh].part # "half"
  BY <1>7 DEF IsHeadEnd, EndsHead
<1>9. eoh \in 1..Len(u)
  BY <1>4, <1>5
<1>a. p \in lookForHeaders(u, eoh)
  BY <1>3, Zenon
<1>10. PICK need \in Nat, inner \in BOOLEAN : p = Reading(u, eoh, need, inner)
  BY <1>9, <1>a, ReadingOf
<1>11. p.have = IF need = 0 THEN 0
                ELSE IF Behind(u, eoh) > need THEN need ELSE Behind(u, eoh)
  BY <1>10 DEF Reading
<1>12. Behind(u, eoh) = 0
  BY <1>4, <1>5, <1>8 DEF Behind
<1>13. p.have >= 0
  BY <1>11, <1>12
<1>. QED
  BY <1>3, <1>4, <1>7, <1>8, <1>9, <1>13, Zenon

(* A request is parsed before the loop goes on, except after a TLS error,  *)
(* and is no more when it has been cleaned up.                             *)
LEMMA RequestStep == TypeInv /\ RequestInv /\ [Next]_vars => RequestInv'
<1>. SUFFICES ASSUME TypeInv, RequestInv, [Next]_vars PROVE RequestInv'
  OBVIOUS
<1>. USE DEF RequestInv, InHand, Answering, ioVars
<1>r. request \in Parsed /\ asks \in Seq(Request)
        /\ (request.parsed => request.from \in 1..Len(asks))
  BY DEF TypeInv, TypeOK
<1>h. ASSUME UNCHANGED config PROVE Http' = Http /\ Secure' = Secure
  BY <1>h DEF Http, Secure
<1>s. Secure => Http
  BY DEF Http, Secure
<1>. DEFINE Told(r) == r.parsed /\ r.clean => r.need = ContentLength(r.from)
<1>q. ASSUME UNCHANGED <<config, asks>>, NEW r, request' = r, Told(r)
      PROVE  Told(request)'
  BY <1>q DEF ContentLength, Hidden, Http
<1>p. Told(request)
  OBVIOUS
<1>1. CASE UNCHANGED vars
  BY <1>1, <1>h, <1>p, <1>q DEF vars, clientVars
<1>2. CASE Environment
  <2>1. ASSUME NEW r \in Requests, Ask(r) PROVE RequestInv'
    <3>1. /\ UNCHANGED <<config, buf, pc, request>>
          /\ asks' = Append(asks, r)
      BY <2>1 DEF Ask, serverVars
    <3>2. ASSUME request.parsed
          PROVE  ContentLength(request.from)' = ContentLength(request.from)
      <4>1. asks'[request.from] = asks[request.from]
        BY <1>r, <3>1, <3>2, AppendProperties, RoundtripAssumption
      <4>. QED
        BY <1>h, <3>1, <4>1 DEF ContentLength, Hidden
    <3>3. Told(request)'
      BY <1>p, <3>1, <3>2
    <3>. QED
      BY <1>h, <3>1, <3>3
  <2>2. CASE Deliver \/ Hangup \/ Reset \/ fcgiAcceptFails
    <3>1. /\ UNCHANGED <<config, asks, buf, request>>
          /\ UNCHANGED pc \/ pc' = "closing"
      BY <2>2 DEF Deliver, Hangup, Reset, fcgiAcceptFails, serverVars, clientVars
    <3>2. Told(request)'
      BY <1>p, <1>q, <3>1
    <3>. QED
      BY <1>h, <3>1, <3>2
  <2>. QED
    BY <1>2, <2>1, <2>2 DEF Environment
<1>3. CASE receiveHeaderHTTP
  <2>. USE <1>3 DEF receiveHeaderHTTP, Read
  <2>1. CASE UNCHANGED <<request, heap, pc, ghost>>
    <3>1. Told(request)'
      BY <1>p, <1>q, <2>1 DEF clientVars
    <3>. QED
      BY <1>h, <2>1, <3>1
  <2>2. ASSUME NEW eoh \in 1..Len(buf'), NEW r \in lookForHeaders(buf', eoh),
               r.have >= 0, Parse(r)
        PROVE  RequestInv'
    <3>1. request' = r /\ pc' \in {"payload", "dispatch"}
      BY <2>2 DEF Parse
    <3>2. buf' \in Seq(Sent)
      BY PartOfSeq, ConcatProperties DEF TypeInv
    <3>3. r.parsed /\ (r.clean => r.need = ContentLength(r.from))
      <4>1. PICK u : u = buf' /\ u \in Seq(Sent)
        BY <3>2, Zenon
      <4>2. eoh \in 1..Len(u) /\ r \in lookForHeaders(u, eoh)
        BY <2>2, <4>1, Zenon
      <4>. HIDE DEF receiveHeaderHTTP, Read
      <4>. QED
        BY <2>2, <4>1, <4>2, ParsedHead
    <3>4. Told(request)'
      BY <1>q, <3>1, <3>3 DEF clientVars
    <3>. QED
      BY <1>h, <3>1, <3>3, <3>4
  <2>. QED
    BY <2>1, <2>2
<1>4. CASE lookForHeadersFails \/ receiveHeaderGivesUp \/ receiveHeaderTlsError
  <2>1. /\ UNCHANGED <<config, asks, request>> /\ pc = "receive"
        /\ Http \/ UNCHANGED buf
        /\ pc' \in {"closing", "died"} \/ (Secure /\ pc' = "dispatch")
    BY <1>4 DEF lookForHeadersFails, receiveHeaderGivesUp, receiveHeaderTlsError,
                Read, clientVars
  <2>2. Told(request)'
    BY <1>p, <1>q, <2>1
  <2>. QED
    BY <1>h, <2>1, <2>2
<1>5. CASE receivePayload
  <2>1. PICK k \in 1..Len(inbox) : request' = [request EXCEPT !.have = request.have + k]
    BY <1>5 DEF receivePayload
  <2>2. /\ request'.parsed = request.parsed /\ request'.clean = request.clean
        /\ request'.need = request.need /\ request'.from = request.from
    BY <1>r, <2>1 DEF Parsed
  <2>3. Told(request)'
    <3>. PICK r : r = request'
      OBVIOUS
    <3>1. Told(r) /\ UNCHANGED <<config, asks>>
      BY <1>5, <1>p, <2>2 DEF receivePayload, clientVars
    <3>. QED
      BY <1>q, <3>1
  <2>. QED
    BY <1>5, <1>h, <2>2, <2>3 DEF receivePayload
<1>6. CASE receivePayloadGivesUp
  <2>1. Told(request)'
    BY <1>6, <1>p, <1>q DEF receivePayloadGivesUp, clientVars
  <2>. QED
    BY <1>6, <1>h, <2>1 DEF receivePayloadGivesUp
<1>7. CASE fcgiReceiveHeader
  <2>1. PICK eoh \in 1..Len(inbox) :
          /\ IsHeadEnd(inbox, eoh)
          /\ \E r \in lookForHeaders(SubSeq(inbox, 1, eoh), eoh) :
               Parse([r EXCEPT !.inner = FALSE])
    BY <1>7 DEF fcgiReceiveHeader
  <2>2. PICK p \in lookForHeaders(SubSeq(inbox, 1, eoh), eoh) :
          Parse([p EXCEPT !.inner = FALSE])
    BY <2>1
  <2>3. PICK u \in Seq(Sent) : u = SubSeq(inbox, 1, eoh) /\ eoh \in 1..Len(u) /\ p.have >= 0
    BY <1>7, <2>1, <2>2, AcceptedHead
  <2>4. PICK r : r = [p EXCEPT !.inner = FALSE]
    OBVIOUS
  <2>a. p \in lookForHeaders(u, eoh)
    BY <2>2, <2>3, Zenon
  <2>5. r.parsed /\ (r.clean => r.need = ContentLength(r.from))
    <3>1. eoh \in 1..Len(u) /\ p.have >= 0
      BY <2>3
    <3>. QED
      BY <2>4, <2>a, <3>1, ParsedHead
  <2>6. request' = r /\ pc' \in {"payload", "dispatch"}
    BY <2>2, <2>4 DEF Parse
  <2>7. Told(request)'
    BY <1>7, <1>q, <2>5, <2>6 DEF fcgiReceiveHeader, clientVars
  <2>. QED
    BY <1>7, <1>h, <2>5, <2>6, <2>7 DEF fcgiReceiveHeader
<1>8. CASE fcgiPayloadSpins \/ Terminated
  BY <1>1, <1>8 DEF fcgiPayloadSpins, Terminated
<1>9. CASE Returns \/ Callback
  <2>1. /\ UNCHANGED <<config, asks, buf, request>>
        /\ pc \in {"pre", "servlet", "post"} /\ pc' \in {"pre", "servlet", "post", "end"}
    BY <1>9 DEF Returns, runPreRequestPlugin, runPostResponsePlugin, ServletReturns,
                Callback, putChunk, SetStatus, handleServletException,
                InCallback, InPlugin, clientVars
  <2>2. Told(request)'
    BY <1>p, <1>q, <2>1
  <2>. QED
    BY <1>h, <2>1, <2>2
<1>11. CASE Dispatch
  <2>1. PICK matched \in BOOLEAN : request' = [request EXCEPT !.matched = matched]
    BY <1>11 DEF Dispatch
  <2>2. /\ request'.parsed = request.parsed /\ request'.have = request.have
        /\ request'.need = request.need /\ request'.clean = request.clean
        /\ request'.from = request.from
    BY <1>r, <2>1 DEF Parsed
  <2>3. Told(request)'
    <3>. PICK r : r = request'
      OBVIOUS
    <3>1. Told(r) /\ UNCHANGED <<config, asks>>
      BY <1>11, <1>p, <2>2 DEF Dispatch, clientVars
    <3>. QED
      BY <1>q, <3>1
  <2>. QED
    BY <1>11, <1>h, <2>2, <2>3 DEF Dispatch
<1>12. CASE runServlet \/ PluginsDone \/ putChunkEnd \/ CheckConnection
  <2>1. /\ UNCHANGED <<config, asks, buf, request>>
        /\ \/ InHand /\ (InHand' \/ pc' = "check") /\ pc' \notin {"payload", "receive", "cleanup"}
           \/ pc' \in {"cleanup", "died"} /\ (pc' = "cleanup" => request.parsed)
    BY <1>12 DEF runServlet, PluginsDone, putChunkEnd, CheckConnection, clientVars
  <2>2. Told(request)'
    BY <1>p, <1>q, <2>1
  <2>. QED
    BY <1>h, <2>1, <2>2
<1>14. CASE cleanupTransaction
  BY <1>14, <1>h DEF cleanupTransaction, NoRequest
<1>15. CASE CloseSocket \/ CertificateFault
  <2>1. UNCHANGED <<config, asks, buf, request>> /\ pc' \in {"closed", "died"}
    BY <1>15 DEF CloseSocket, CertificateFault, clientVars
  <2>2. Told(request)'
    BY <1>p, <1>q, <2>1
  <2>. QED
    BY <1>h, <2>1, <2>2
<1>. QED
  BY <1>1, <1>2, <1>3, <1>4, <1>5, <1>6, <1>7, <1>8, <1>9, <1>11, <1>12,
     <1>14, <1>15 DEF Next, Receive, Respond

-----------------------------------------------------------------------------
(* The stream, from which the loop takes one request after the other.      *)

DialogInv == TypeInv /\ CountInv /\ RequestInv /\ StreamInv

(* The stream and what is due are rows of units. *)
LEMMA StreamType ==
  ASSUME TypeInv
  PROVE  /\ Stream \in Seq(Sent) /\ Stream \in Seq(Unit) /\ Len(Stream) \in Nat
         /\ inbox \o toSend \in Seq(Sent) /\ inbox \o toSend \in Seq(Unit)
         /\ Taken \in Nat /\ Len(asks) \in Nat
         /\ Expected \in Seq(Unit) /\ Len(Expected) \in Nat
<1>1. /\ inbox \in Seq(Sent) /\ toSend \in Seq(Sent) /\ buf \in Seq(Sent)
      /\ served \in Nat /\ asks \in Seq(Request)
  BY DEF TypeInv, TypeOK
<1>2. inbox \o toSend \in Seq(Sent)
  BY <1>1, ConcatProperties
<1>3. Stream \in Seq(Sent)
  BY <1>1, <1>2, ConcatProperties DEF Stream
<1>4. Sent \subseteq Unit
  BY DEF Sent, Unit
<1>5. \A s \in Seq(Sent) : s \in Seq(Unit)
  BY <1>4, SeqMonotonic
<1>6. Taken \in Nat /\ Len(asks) \in Nat
  BY <1>1 DEF Taken
<1>7. Expected \in Seq(Unit)
  <2>1. CASE Len(asks) > Taken
    <3>1. asks[Len(asks)] \in Request
      BY <1>1, <1>6, <2>1, ElementOfSeq
    <3>. QED
      BY <1>6, <2>1, <3>1, UnitsOfRequest DEF Expected
  <2>2. CASE ~(Len(asks) > Taken)
    BY <2>2, EmptySeq DEF Expected
  <2>. QED
    BY <2>1, <2>2
<1>. QED
  BY <1>2, <1>3, <1>5, <1>6, <1>7, LenProperties

(* What was read up to a request was read up to the one before. *)
LEMMA SyncDown ==
  ASSUME ghost \in Ghost, NEW n \in Nat, InSync(n + 1)
  PROVE  InSync(n) /\ n \notin ghost.left
<1>1. \A m \in ghost.left : m \in Nat /\ m >= n + 1
  BY DEF InSync, Ghost
<1>. QED
  BY <1>1 DEF InSync

(* What has been left of requests is not read later. *)
LEMMA SyncKept ==
  ASSUME ghost.left \subseteq ghost'.left, NEW n, InSync(n)'
  PROVE  InSync(n)
BY DEF InSync

(* No unit is there at first. *)
LEMMA StreamInit == Init => StreamInv
<1>. SUFFICES ASSUME Init PROVE StreamInv
  OBVIOUS
<1>1. Len(asks) = 0 /\ Taken = 0 /\ Expected = <<>> /\ pc = "receive"
  BY DEF Init, Taken, Expected
<1>2. Len(Stream) = 0
  <2>1. Stream = <<>> \o (<<>> \o <<>>)
    BY DEF Init, Stream
  <2>. QED
    BY <2>1
<1>3. Aligned(Stream, Expected)
  BY <1>1, <1>2 DEF Aligned
<1>. QED
  BY <1>1, <1>3 DEF StreamInv, InHand, Answering

(* A step of the server that takes nothing from the stream. *)
LEMMA StreamKept ==
  ASSUME StreamInv, UNCHANGED <<asks, toSend, inbox, buf, served, request>>,
         ghost'.left = ghost.left,
         \/ pc' = pc
         \/ /\ Answering \/ pc = "check"
            /\ pc' \notin {"receive", "payload", "dispatch"}
            /\ Answering' \/ pc' = "check" => Answering
         \/ pc' \in {"closing", "closed", "died"}
  PROVE  StreamInv'
<1>1. CASE Talking'
  <2>1. Talking /\ Taken' = Taken /\ Stream' = Stream
    BY <1>1 DEF Talking, Taken, Stream, Answering
  <2>2. Expected' = Expected /\ (InSync(Taken)' <=> InSync(Taken))
          /\ (InSync(Taken + 1)' <=> InSync(Taken + 1))
    BY <2>1 DEF Expected, InSync
  <2>3. Aligned(Stream, Expected) => Aligned(Stream, Expected)'
    BY <2>1, <2>2 DEF Aligned
  <2>4. /\ InSync(Taken) =>
             /\ InHand \/ pc = "check" => request.from = Taken /\ request.clean
             /\ InHand => Len(asks) = Taken
             /\ pc = "payload" => Len(Stream) <= request.need - request.have
        /\ InSync(Taken + 1) /\ pc # "payload" =>
             Len(asks) \in {Taken, Taken + 1} /\ Aligned(Stream, Expected)
        /\ pc = "dispatch" \/ Answering =>
             request.have = request.need \/ Taken \in ghost.left
    BY <2>1 DEF StreamInv
  <2>5. /\ InHand' => InHand
        /\ InHand' \/ pc' = "check" => InHand \/ pc = "check"
        /\ pc' = "payload" <=> pc = "payload"
        /\ pc' = "dispatch" \/ Answering' => pc = "dispatch" \/ Answering
    BY <1>1 DEF Talking, InHand, Answering
  <2>. QED
    BY <2>1, <2>2, <2>3, <2>4, <2>5 DEF StreamInv
<1>2. CASE ~Talking'
  BY <1>2 DEF StreamInv
<1>. QED
  BY <1>1, <1>2

(* The client goes away: the end of the stream is cut off. *)
LEMMA StreamCutOff ==
  ASSUME TypeInv, TypeInv', StreamInv, UNCHANGED <<asks, buf, served, request, ghost, pc>>,
         toSend' = <<>>, inbox' = inbox \/ inbox' = <<>>
  PROVE  StreamInv'
<1>1. Taken' = Taken /\ Expected' = Expected /\ (Talking' <=> Talking)
        /\ (InSync(Taken)' <=> InSync(Taken))
        /\ (InSync(Taken + 1)' <=> InSync(Taken + 1))
  BY DEF Taken, Expected, Talking, InSync
<1>2. /\ Len(Stream') \in 0..Len(Stream)
      /\ \A i \in 1..Len(Stream') : Stream'[i] = Stream[i]
  <2>1. /\ inbox \in Seq(Sent) /\ toSend \in Seq(Sent) /\ buf \in Seq(Sent)
        /\ <<>> \in Seq(Sent) /\ inbox' \in Seq(Sent) /\ Len(<<>>) = 0
    BY EmptySeq DEF TypeInv
  <2>2. inbox' \o toSend' = inbox'
    BY <2>1, ConcatEmptySeq
  <2>3. /\ Len(inbox') \in 0..Len(inbox \o toSend)
        /\ \A i \in 1..Len(inbox') : inbox'[i] = (inbox \o toSend)[i]
    BY <2>1, Glue
  <2>4. CASE pc = "receive"
    <3>1. Stream = buf \o (inbox \o toSend) /\ Stream' = buf \o inbox'
      BY <2>2, <2>4 DEF Stream
    <3>2. inbox \o toSend \in Seq(Sent)
      BY <2>1, ConcatProperties
    <3>3. /\ Len(buf) \in Nat /\ Len(inbox') \in Nat /\ Len(inbox \o toSend) \in Nat
          /\ Len(Stream) = Len(buf) + Len(inbox \o toSend)
          /\ \A i \in 1..(Len(buf) + Len(inbox \o toSend)) :
               Stream[i] = IF i <= Len(buf) THEN buf[i]
                           ELSE (inbox \o toSend)[i - Len(buf)]
      BY <2>1, <3>1, <3>2, ConcatProperties, LenProperties
    <3>4. /\ Len(Stream') = Len(buf) + Len(inbox')
          /\ \A i \in 1..(Len(buf) + Len(inbox')) :
               Stream'[i] = IF i <= Len(buf) THEN buf[i] ELSE inbox'[i - Len(buf)]
      BY <2>1, <3>1, ConcatProperties
    <3>. QED
      BY <2>3, <3>3, <3>4
  <2>5. CASE pc # "receive"
    BY <2>2, <2>3, <2>5 DEF Stream
  <2>. QED
    BY <2>4, <2>5
<1>3. Len(Stream) \in Nat /\ Len(Expected) \in Nat
  BY StreamType
<1>4. ASSUME Aligned(Stream, Expected) PROVE Aligned(Stream, Expected)'
  <2>1. Aligned(Stream', Expected)
    BY <1>2, <1>3, <1>4, AlignedPrefix
  <2>. QED
    BY <1>1, <2>1 DEF Aligned
<1>5. Len(Stream') <= Len(Stream) /\ Len(Stream') \in Nat
  BY <1>2, <1>3
<1>6. request.need \in Nat /\ request.have \in Nat
  BY DEF TypeInv, TypeOK, Parsed
<1>. QED
  BY <1>1, <1>3, <1>4, <1>5, <1>6 DEF StreamInv, InHand, Answering

(* The client sends its next request: nothing is in hand, and nothing is   *)
(* left of the last ones.                                                  *)
LEMMA StreamAsk ==
  ASSUME DialogInv, NEW r \in Requests, Ask(r)
  PROVE  StreamInv'
<1>1. /\ asks \in Seq(Request) /\ r \in Request /\ served \in Nat /\ Len(asks) \in Nat
      /\ inbox \in Seq(Sent) /\ buf \in Seq(Sent) /\ pc \in Stages /\ ghost \in Ghost
      /\ Taken \in Nat
  BY RoundtripAssumption, StreamType DEF DialogInv, TypeInv, TypeOK
<1>2. /\ toSend = <<>> /\ Cardinality(Ends) \in Len(asks)..(MaxRequests - 1)
      /\ toSend' = Units(Len(asks) + 1, r) /\ asks' = Append(asks, r)
      /\ UNCHANGED <<inbox, buf, pc, request, served, ghost>>
  BY DEF Ask, serverVars, histVars
<1>3. Len(asks') = Len(asks) + 1 /\ asks'[Len(asks) + 1] = r
  BY <1>1, <1>2, AppendProperties
<1>4. /\ Talking' = Talking /\ Taken' = Taken
      /\ (InSync(Taken)' <=> InSync(Taken))
      /\ (InSync(Taken + 1)' <=> InSync(Taken + 1))
      /\ InHand' = InHand /\ Answering' = Answering
  BY <1>2 DEF Talking, Taken, InSync, InHand, Answering
<1>5. /\ pc \in {"receive", "payload", "dispatch"} => Len(asks) <= served
      /\ Answering => Len(asks) + 1 <= served
      /\ pc \in {"check", "cleanup"} => Len(asks) <= served
  <2>1. PICK c \in Nat : c = Cardinality(Ends) /\ Len(asks) <= c
    BY <1>1, <1>2, RoundtripAssumption
  <2>2. /\ pc \in {"receive", "payload", "dispatch"} => c = served
        /\ Answering => c + 1 = served
        /\ pc \in {"check", "cleanup"} => c + (IF Http THEN 0 ELSE 1) = served
    BY <2>1 DEF DialogInv, CountInv
  <2>3. (IF Http THEN 0 ELSE 1) \in {0, 1}
    OBVIOUS
  <2>. QED
    BY <1>1, <2>1, <2>2, <2>3
<1>6. CASE Talking
  <2>. USE <1>6 DEF DialogInv, StreamInv
  <2>1. ASSUME InSync(Taken) PROVE ~InHand
    <3>. SUFFICES ASSUME InHand PROVE FALSE
      OBVIOUS
    <3>1. Len(asks) = Taken
      BY <2>1
    <3>. QED
      BY <1>1, <1>5, <3>1 DEF InHand, Taken, Answering
  <2>2. ASSUME InSync(Taken + 1), pc # "payload"
        PROVE  Len(asks') = Taken' + 1 /\ Aligned(Stream, Expected)'
    <3>1. ~InHand
      BY <1>1, <2>1, <2>2, SyncDown
    <3>2. Len(asks) \in {Taken, Taken + 1} /\ Aligned(Stream, Expected)
      BY <2>2
    <3>3. Len(asks) = served /\ Taken = served
      <4>1. pc \in {"receive", "check", "cleanup"}
        BY <1>1, <1>6, <3>1 DEF Talking, InHand, Stages, Answering
      <4>. QED
        BY <1>1, <1>5, <3>2, <4>1 DEF Taken
    <3>4. Expected = <<>> /\ Expected' = Units(served + 1, r)
      BY <1>1, <1>3, <1>4, <3>3 DEF Expected
    <3>5. Len(Stream) = 0 /\ Stream \in Seq(Unit)
      <4>1. Len(Stream) \in Nat /\ Len(Stream) <= Len(Expected) /\ Len(<<>>) = 0
              /\ Stream \in Seq(Unit)
        BY <3>2, StreamType, EmptySeq DEF Aligned
      <4>. QED
        BY <3>4, <4>1
    <3>6. Units(served + 1, r) \in Seq(Unit)
      BY <1>1, UnitsOfRequest
    <3>7. Stream' = Units(served + 1, r)
      <4>1. inbox \o toSend = inbox /\ toSend' = Units(served + 1, r)
        BY <1>1, <1>2, <3>3, ConcatEmptySeq
      <4>2. inbox \in Seq(Unit) /\ buf \in Seq(Unit)
        BY DEF TypeInv, TypeOK
      <4>3. Stream = <<>>
        BY <3>5, EmptySeq
      <4>4. CASE pc = "receive"
        <5>1. Stream = buf \o inbox
          BY <4>1, <4>4 DEF Stream
        <5>2. Stream' = buf \o (inbox \o Units(served + 1, r))
          BY <1>2, <4>1, <4>4 DEF Stream
        <5>3. (buf \o inbox) \o Units(served + 1, r) = buf \o (inbox \o Units(served + 1, r))
          BY <3>6, <4>2, ConcatAssociative, SMTT(60)
        <5>4. <<>> \o Units(served + 1, r) = Units(served + 1, r)
          BY <3>6, ConcatEmptySeq
        <5>. QED
          BY <4>3, <5>1, <5>2, <5>3, <5>4
      <4>5. CASE pc # "receive"
        <5>1. inbox = <<>> /\ Stream' = inbox \o Units(served + 1, r)
          BY <1>2, <4>1, <4>3, <4>5 DEF Stream
        <5>2. <<>> \o Units(served + 1, r) = Units(served + 1, r)
          BY <3>6, ConcatEmptySeq
        <5>. QED
          BY <5>1, <5>2
      <4>. QED
        BY <4>4, <4>5
    <3>8. Len(Units(served + 1, r)) \in Nat
      BY <3>6, LenProperties
    <3>9. Aligned(Stream, Expected)'
      BY <3>4, <3>7, <3>8 DEF Aligned
    <3>. QED
      BY <1>3, <1>4, <3>3, <3>9
  <2>3. ASSUME InSync(Taken), pc = "check" PROVE request'.from = Taken /\ request'.clean
    BY <1>2, <2>3
  <2>4. pc = "dispatch" \/ Answering => request'.have = request'.need \/ Taken \in ghost'.left
    BY <1>2
  <2>5. pc = "payload" => InHand
    BY DEF InHand
  <2>6. /\ InSync(Taken)' =>
             /\ InHand' \/ pc' = "check" => request'.from = Taken' /\ request'.clean
             /\ InHand' => Len(asks') = Taken'
             /\ pc' = "payload" => Len(Stream') <= request'.need - request'.have
    BY <1>2, <1>4, <2>1, <2>3, <2>5
  <2>7. InSync(Taken + 1)' /\ pc' # "payload" =>
          Len(asks') \in {Taken', Taken' + 1} /\ Aligned(Stream, Expected)'
    BY <1>2, <1>4, <2>2
  <2>8. pc' = "dispatch" \/ Answering' =>
          request'.have = request'.need \/ Taken' \in ghost'.left
    BY <1>2, <1>4, <2>4
  <2>. QED
    BY <2>6, <2>7, <2>8
<1>7. CASE ~Talking
  BY <1>4, <1>7 DEF StreamInv
<1>. QED
  BY <1>6, <1>7

(* A head is complete, in the buffer or, over FastCGI, in the socket: as   *)
(* long as the loop is where the client is, it is that of the one request  *)
(* that was asked and not taken.                                           *)
LEMMA StreamTake ==
  ASSUME DialogInv, pc = "receive",
         NEW units \in Seq(Sent), NEW rest \in Seq(Sent),
         Stream = units \o (rest \o toSend),
         NEW eoh \in 1..Len(units), Found(units, eoh),
         NEW p \in lookForHeaders(units, eoh), p.have >= 0,
         NEW r, r = p \/ r = [p EXCEPT !.inner = FALSE], Parse(r),
         inbox' = rest, UNCHANGED <<asks, toSend, served>>,
         ghost' \in Ghost, ghost.left \subseteq ghost'.left,
         served + 1 \in ghost'.left \/ ~LeavesSome(units, eoh, r) \/ ~r.clean
  PROVE  StreamInv'
<1>. DEFINE v == rest \o toSend
<1>t. /\ TypeInv /\ served \in Nat /\ Len(asks) \in Nat /\ asks \in Seq(Request)
  BY DEF DialogInv, TypeInv, TypeOK
<1>n. PICK n \in Nat : n = Len(asks)
  BY <1>t
<1>1. /\ r.from = units[eoh].req /\ r.from \in 1..n
      /\ r.need \in Nat /\ r.have \in Nat
      /\ r.have = IF r.need = 0 THEN 0
                  ELSE IF Behind(units, eoh) > r.need THEN r.need
                  ELSE Behind(units, eoh)
      /\ r.clean <=> Whole(units, eoh)
      /\ r.clean => r.need = ContentLength(r.from)
      /\ r.parsed
  BY <1>n, <1>t, ParsedHead
<1>2. asks[n] \in Request
  BY <1>1, <1>n, <1>t, ElementOfSeq
<1>3. /\ units \in Seq(Unit) /\ v \in Seq(Unit)
      /\ Len(units) \in Nat /\ Len(v) \in Nat
  <2>1. toSend \in Seq(Sent)
    BY <1>t DEF TypeInv
  <2>2. v \in Seq(Sent)
    BY <2>1, ConcatProperties
  <2>3. Sent \subseteq Unit
    BY DEF Sent, Unit
  <2>. QED
    BY <2>2, <2>3, SeqMonotonic, LenProperties
<1>. HIDE DEF v
<1>4. Talking /\ Taken = served /\ Stream = units \o v
  BY DEF Talking, Taken, v
<1>5. /\ request' = r /\ UNCHANGED <<asks, toSend, served>>
      /\ pc' = IF r.have < r.need THEN "payload" ELSE "dispatch"
  BY DEF Parse
<1>6. /\ InHand' /\ Taken' = served + 1 /\ Stream' = v
      /\ \A k : InSync(k)' => InSync(k)
  BY <1>5, <1>t DEF InHand, Taken, Stream, v, InSync
<1>b. PICK b \in Nat : b = asks[n].body
  BY <1>2 DEF Request
<1>7. ASSUME InSync(served + 1)
      PROVE  /\ n = served + 1 /\ r.from = n /\ r.clean /\ Expected' = <<>>
             /\ r.need \in {0, b}
             /\ units[eoh].part # "half" => (Len(units) - eoh) + Len(v) <= b
  <2>1. /\ n \in {served, served + 1} /\ Aligned(units \o v, Expected)
        /\ Expected = <<>> \/ Expected = Units(n, asks[n])
    BY <1>4, <1>7, <1>n DEF DialogInv, StreamInv, Expected
  <2>2. /\ Expected # <<>>
        /\ units[eoh].req = n
        /\ Whole(units, eoh)
        /\ units[eoh].part # "half" => (Len(units) - eoh) + Len(v) <= b
    <3>. PICK due : due = Expected
      OBVIOUS
    <3>1. due = <<>> \/ due = Units(n, asks[n])
      BY <2>1
    <3>2. Aligned(units \o v, due)
      BY <2>1
    <3>3. units \in Seq(Unit) /\ v \in Seq(Unit)
      BY <1>3
    <3>4. /\ due # <<>>
          /\ units[eoh].req = n
          /\ Whole(units, eoh)
          /\ units[eoh].part # "half" =>
               eoh = asks[n].head /\ (Len(units) - eoh) + Len(v) <= asks[n].body
      BY <1>2, <3>1, <3>2, <3>3, TakeHead
    <3>. QED
      BY <1>b, <3>4, Zenon
  <2>3. n = served + 1
    BY <1>4, <1>n, <1>t, <2>1, <2>2 DEF Expected
  <2>4. r.from = n /\ r.clean /\ r.need = ContentLength(n)
    BY <1>1, <2>2
  <2>5. r.need \in {0, b}
    BY <1>b, <2>4 DEF ContentLength
  <2>6. Expected' = <<>>
    BY <1>5, <1>6, <1>n, <1>t, <2>3 DEF Expected
  <2>. QED
    BY <2>2, <2>3, <2>4, <2>5, <2>6
<1>8. Behind(units, eoh) = IF units[eoh].part = "half" THEN -1 ELSE Len(units) - eoh
  BY DEF Behind
<1>9. ASSUME InSync(served + 1), r.have < r.need PROVE Len(v) <= r.need - r.have
  <2>1. units[eoh].part # "half"
    BY <1>1, <1>8, <1>9
  <2>2. r.need = b /\ (Len(units) - eoh) + Len(v) <= b
    BY <1>1, <1>7, <1>9, <2>1
  <2>3. r.have = Len(units) - eoh
    BY <1>1, <1>3, <1>8, <1>9, <1>b, <2>1, <2>2
  <2>. QED
    BY <1>1, <1>3, <1>b, <2>2, <2>3
<1>10. r.have <= r.need
  BY <1>1, <1>3, <1>8
<1>11. ASSUME InSync(served + 1), served + 1 \notin ghost'.left, ~(r.have < r.need)
       PROVE  Len(v) = 0
  <2>1. ~LeavesSome(units, eoh, r)
    BY <1>7, <1>11
  <2>2. units[eoh].part # "half" /\ ~(r.need = 0 /\ Len(units) - eoh < b)
    BY <1>7, <1>11, <1>b, <2>1 DEF LeavesSome
  <2>3. (Len(units) - eoh) + Len(v) <= b
    BY <1>7, <1>11, <2>2
  <2>4. CASE r.need = 0
    BY <1>3, <1>b, <2>2, <2>3, <2>4
  <2>5. CASE r.need # 0
    <3>1. r.need = b /\ r.have = b
      BY <1>1, <1>7, <1>10, <1>11, <2>5
    <3>2. r.have = Len(units) - eoh
      BY <1>1, <1>3, <1>8, <1>b, <2>2, <2>3, <2>5, <3>1
    <3>. QED
      BY <1>3, <1>b, <2>3, <3>1, <3>2
  <2>. QED
    BY <2>4, <2>5
<1>12. InSync(Taken)' =>
         /\ request'.from = Taken' /\ request'.clean /\ Len(asks') = Taken'
         /\ pc' = "payload" => Len(Stream') <= request'.need - request'.have
  <2>. SUFFICES ASSUME InSync(Taken)'
                PROVE  /\ request'.from = Taken' /\ request'.clean /\ Len(asks') = Taken'
                       /\ pc' = "payload" =>
                            Len(Stream') <= request'.need - request'.have
    OBVIOUS
  <2>1. InSync(served + 1)
    BY <1>5, <1>6 DEF InSync
  <2>2. pc' = "payload" => r.have < r.need
    BY <1>5
  <2>3. n = served + 1 /\ r.from = n /\ r.clean
    BY <1>7, <2>1
  <2>. QED
    BY <1>5, <1>6, <1>9, <1>n, <2>1, <2>2, <2>3
<1>13. InSync(Taken + 1)' /\ pc' # "payload" =>
         Len(asks') \in {Taken', Taken' + 1} /\ Aligned(Stream, Expected)'
  <2>. SUFFICES ASSUME InSync(Taken + 1)', pc' # "payload"
                PROVE  Len(asks') = Taken' /\ Aligned(Stream, Expected)'
    BY Zenon
  <2>1. \A m \in ghost'.left : m \in Nat /\ m >= served + 2
    BY <1>6, <1>t DEF InSync, Ghost
  <2>2. InSync(served + 1) /\ served + 1 \notin ghost'.left
    BY <1>6, <1>t, <2>1 DEF InSync
  <2>3. ~(r.have < r.need)
    BY <1>5
  <2>4. Len(v) = 0 /\ n = served + 1 /\ Expected' = <<>>
    BY <1>7, <1>11, <2>2, <2>3
  <2>. QED
    BY <1>5, <1>6, <1>n, <2>4 DEF Aligned
<1>14. pc' = "dispatch" => request'.have = request'.need
  BY <1>1, <1>5, <1>10
<1>15. pc' \in {"payload", "dispatch"} /\ ~Answering'
  BY <1>5 DEF Answering
<1>. QED
  BY <1>12, <1>13, <1>14, <1>15 DEF StreamInv

(* The rest of the body is read: no more of the stream is left than is     *)
(* missing of the body.                                                    *)
LEMMA StreamPayload ==
  ASSUME DialogInv, TypeInv', receivePayload
  PROVE  StreamInv'
<1>1. PICK k \in 1..Len(inbox) :
        /\ request.have + k <= request.need
        /\ inbox' = SubSeq(inbox, k + 1, Len(inbox))
        /\ request' = [request EXCEPT !.have = request.have + k]
        /\ pc' = IF request.have + k = request.need THEN "dispatch" ELSE "payload"
  BY DEF receivePayload
<1>2. /\ pc = "payload" /\ UNCHANGED <<asks, toSend, served, ghost>>
      /\ request.parsed
  BY DEF receivePayload, clientVars, histVars, DialogInv, RequestInv
<1>3. /\ request.have \in Nat /\ request.need \in Nat
      /\ inbox \in Seq(Unit) /\ toSend \in Seq(Unit) /\ Len(inbox) \in Nat
      /\ request'.have = request.have + k /\ request'.need = request.need
      /\ request'.from = request.from /\ request'.clean = request.clean
  <2>1. request \in Parsed /\ inbox \in Seq(Unit) /\ toSend \in Seq(Unit)
    BY DEF DialogInv, TypeInv, TypeOK
  <2>. QED
    BY <1>1, <2>1 DEF Parsed
<1>4. InSync(Taken) =>
        /\ Len(asks) = Taken /\ request.from = Taken /\ request.clean
        /\ Len(Stream) <= request.need - request.have
  BY <1>2 DEF DialogInv, StreamInv, Talking, InHand
<1>5. /\ Len(Stream') \in Nat /\ Len(Stream) = k + Len(Stream')
  <2>1. k \in 0..Len(inbox)
    BY <1>3
  <2>2. Stream = inbox \o toSend /\ Stream' = SubSeq(inbox, k + 1, Len(inbox)) \o toSend
    BY <1>1, <1>2 DEF Stream
  <2>3. inbox \in Seq(Unit) /\ toSend \in Seq(Unit)
    BY <1>3
  <2>4. /\ Len(SubSeq(inbox, k + 1, Len(inbox)) \o toSend) \in Nat
        /\ Len(inbox \o toSend) = k + Len(SubSeq(inbox, k + 1, Len(inbox)) \o toSend)
    BY <2>1, <2>3, ReadFromFront
  <2>. QED
    BY <2>2, <2>4
<1>6. /\ Taken' = Taken /\ InHand' /\ Taken \in Nat /\ Taken = served + 1
      /\ InSync(Taken)' <=> InSync(Taken)
      /\ InSync(Taken + 1)' <=> InSync(Taken + 1)
  BY <1>1, <1>2, StreamType DEF Taken, InHand, DialogInv, InSync
<1>7. InSync(Taken + 1) => InSync(Taken)
  BY <1>6, SyncDown DEF DialogInv, TypeInv, TypeOK
<1>8. InSync(Taken)' =>
        /\ request'.from = Taken' /\ request'.clean /\ Len(asks') = Taken'
        /\ pc' = "payload" => Len(Stream') <= request'.need - request'.have
  BY <1>2, <1>3, <1>4, <1>5, <1>6
<1>9. InSync(Taken + 1)' /\ pc' # "payload" =>
        Len(asks') = Taken' /\ Aligned(Stream, Expected)'
  <2>. SUFFICES ASSUME InSync(Taken + 1)', pc' # "payload"
                PROVE  Len(asks') = Taken' /\ Aligned(Stream, Expected)'
    OBVIOUS
  <2>1. Len(asks) = Taken /\ Len(Stream) <= request.need - request.have
    BY <1>4, <1>6, <1>7
  <2>2. request.have + k = request.need
    BY <1>1
  <2>3. Len(Stream') = 0
    BY <1>3, <1>5, <2>1, <2>2
  <2>4. Expected' = <<>>
    BY <1>2, <1>6, <2>1 DEF Expected
  <2>. QED
    BY <1>2, <1>6, <2>1, <2>3, <2>4 DEF Aligned
<1>10. pc' = "dispatch" => request'.have = request'.need
  BY <1>1, <1>3
<1>11. pc' \in {"payload", "dispatch"} /\ ~Answering'
  BY <1>1 DEF Answering
<1>. QED
  BY <1>8, <1>9, <1>10, <1>11 DEF StreamInv

(* The body is cut short: it counts among the requests that left bytes.    *)
LEMMA StreamCut ==
  ASSUME DialogInv, receivePayloadGivesUp
  PROVE  StreamInv'
<1>1. /\ pc = "payload" /\ pc' = "dispatch" /\ request.parsed
      /\ UNCHANGED <<asks, toSend, inbox, served, request>>
      /\ ghost' = [ghost EXCEPT !.left = ghost.left \cup {served + 1}]
  BY DEF receivePayloadGivesUp, clientVars, ioVars, DialogInv, RequestInv
<1>2. /\ ghost'.left = ghost.left \cup {served + 1} /\ served \in Nat
  <2>1. ghost \in Ghost /\ served \in Nat
    BY DEF DialogInv, TypeInv, TypeOK
  <2>. QED
    BY <1>1, <2>1, LeftKeeps
<1>3. InSync(Taken) =>
        Len(asks) = Taken /\ request.from = Taken /\ request.clean
  BY <1>1 DEF DialogInv, StreamInv, Talking, InHand
<1>4. Taken' = Taken /\ Taken = served + 1
  BY <1>1 DEF Taken
<1>5. InSync(Taken)' => InSync(Taken)
  BY <1>2, <1>4 DEF InSync
<1>6. ~InSync(Taken + 1)'
  BY <1>2, <1>4 DEF InSync
<1>7. Taken' \in ghost'.left
  BY <1>2, <1>4
<1>8. InSync(Taken)' => request'.from = Taken' /\ request'.clean /\ Len(asks') = Taken'
  BY <1>1, <1>3, <1>4, <1>5
<1>9. pc' = "dispatch"
  BY <1>1
<1>. QED
  BY <1>6, <1>7, <1>8, <1>9 DEF StreamInv


(* A read: its units go from the socket to the buffer.  They end a head,   *)
(* or the buffer is searched again after the next read.                    *)
LEMMA StreamHead ==
  ASSUME DialogInv, TypeInv', receiveHeaderHTTP
  PROVE  StreamInv'
<1>1. PICK k \in 1..Len(inbox) : /\ buf' = buf \o SubSeq(inbox, 1, k)
                                 /\ inbox' = SubSeq(inbox, k + 1, Len(inbox))
  BY DEF receiveHeaderHTTP, Read
<1>2. /\ pc = "receive" /\ UNCHANGED <<asks, toSend, served>>
      /\ ghost \in Ghost /\ ghost' \in Ghost /\ served \in Nat
  BY DEF receiveHeaderHTTP, Read, clientVars, DialogInv, TypeInv, TypeOK
<1>3. buf \in Seq(Sent) /\ inbox \in Seq(Sent) /\ toSend \in Seq(Sent)
  BY DEF DialogInv, TypeInv
<1>4. k \in 0..Len(inbox)
  BY <1>3
<1>5. PICK b \in Seq(Sent), q \in Seq(Sent), t \in Seq(Sent) :
        b = buf /\ q = inbox /\ t = toSend
  BY <1>3
<1>6. k \in 0..Len(q)
  BY <1>4, <1>5
<1>7. /\ SubSeq(q, 1, k) \in Seq(Sent)
      /\ SubSeq(q, k + 1, Len(q)) \in Seq(Sent)
      /\ Row(b \o SubSeq(q, 1, k), SubSeq(q, k + 1, Len(q)), t) = Row(b, q, t)
  BY <1>6, ReadKeepsStream
<1>8. PICK units \in Seq(Sent), rest \in Seq(Sent) :
        /\ units = buf' /\ rest = inbox' /\ Stream = units \o (rest \o toSend)
  <2>1. b \o SubSeq(q, 1, k) \in Seq(Sent)
    BY <1>7, ConcatProperties
  <2>2. Stream = b \o (q \o t)
    BY <1>2, <1>5 DEF Stream
  <2>3. (b \o SubSeq(q, 1, k)) \o (SubSeq(q, k + 1, Len(q)) \o t) = b \o (q \o t)
    BY <1>7 DEF Row
  <2>. QED
    BY <1>1, <1>5, <1>7, <2>1, <2>2, <2>3
<1>9. CASE UNCHANGED <<request, heap, pc, ghost>>
  <2>1. Stream' = Stream
    BY <1>2, <1>8, <1>9 DEF Stream
  <2>2. /\ Taken' = Taken /\ Expected' = Expected
        /\ Talking /\ ~InHand' /\ ~Answering' /\ pc' = "receive"
        /\ (InSync(Taken + 1)' <=> InSync(Taken + 1))
    BY <1>2, <1>9 DEF Taken, Expected, Talking, InHand, Answering, InSync
  <2>3. InSync(Taken + 1) =>
          Len(asks) \in {Taken, Taken + 1} /\ Aligned(Stream, Expected)
    BY <1>2, <2>2 DEF DialogInv, StreamInv
  <2>4. InSync(Taken + 1)' =>
          Len(asks') \in {Taken', Taken' + 1} /\ Aligned(Stream, Expected)'
    BY <1>2, <2>1, <2>2, <2>3 DEF Aligned
  <2>. QED
    BY <2>2, <2>4 DEF StreamInv
<1>10. ASSUME NEW eoh \in 1..Len(buf'), NEW r \in lookForHeaders(buf', eoh),
              Found(buf', eoh), r.have >= 0, Parse(r),
              ghost' = IF LeavesSome(buf', eoh, r)
                       THEN [ghost EXCEPT !.left = ghost.left \cup {served + 1}]
                       ELSE ghost
       PROVE  StreamInv'
  <2>1. /\ eoh \in 1..Len(units) /\ Found(units, eoh) /\ Parse(r)
        /\ r \in lookForHeaders(units, eoh)
    BY <1>8, <1>10
  <2>2. ghost.left \subseteq ghost'.left
        /\ (served + 1 \in ghost'.left \/ ~LeavesSome(units, eoh, r) \/ ~r.clean)
    <3>1. CASE LeavesSome(buf', eoh, r)
      <4>1. ghost'.left = ghost.left \cup {served + 1}
        BY <1>2, <1>10, <3>1, LeftKeeps
      <4>. QED
        BY <4>1
    <3>2. CASE ~LeavesSome(buf', eoh, r)
      <4>1. ghost' = ghost
        BY <1>10, <3>2, Zenon
      <4>. QED
        BY <1>8, <3>2, <4>1
    <3>. QED
      BY <3>1, <3>2
  <2>3. inbox' = rest /\ UNCHANGED <<asks, toSend, served>> /\ ghost' \in Ghost
    BY <1>2, <1>8
  <2>. QED
    BY <1>2, <1>8, <1>10, <2>1, <2>2, <2>3, StreamTake
<1>. QED
  BY <1>9, <1>10 DEF receiveHeaderHTTP

(* FCGX_Accept hands over a whole head, whose lines the web server has     *)
(* taken apart.                                                            *)
LEMMA StreamAccept ==
  ASSUME DialogInv, TypeInv', fcgiReceiveHeader
  PROVE  StreamInv'
<1>1. PICK eoh \in 1..Len(inbox) :
        /\ IsHeadEnd(inbox, eoh)
        /\ \E p \in lookForHeaders(SubSeq(inbox, 1, eoh), eoh) :
             Parse([p EXCEPT !.inner = FALSE])
        /\ inbox' = SubSeq(inbox, eoh + 1, Len(inbox))
  BY DEF fcgiReceiveHeader
<1>a. PICK p \in lookForHeaders(SubSeq(inbox, 1, eoh), eoh) :
        Parse([p EXCEPT !.inner = FALSE])
  BY <1>1
<1>2. /\ pc = "receive" /\ buf = <<>> /\ ~Http
      /\ UNCHANGED <<asks, toSend, served, ghost>>
      /\ TypeInv /\ ghost \in Ghost
  BY DEF fcgiReceiveHeader, clientVars, histVars, DialogInv, RequestInv, TypeInv, TypeOK
<1>3. buf \in Seq(Sent) /\ inbox \in Seq(Sent) /\ toSend \in Seq(Sent)
  BY DEF DialogInv, TypeInv
<1>4. eoh \in 0..Len(inbox)
  BY <1>3
<1>5. PICK b \in Seq(Sent), q \in Seq(Sent), t \in Seq(Sent) :
        b = buf /\ q = inbox /\ t = toSend
  BY <1>3
<1>e. eoh \in 0..Len(q)
  BY <1>4, <1>5
<1>6. /\ SubSeq(q, 1, eoh) \in Seq(Sent)
      /\ SubSeq(q, eoh + 1, Len(q)) \in Seq(Sent)
      /\ Len(SubSeq(q, 1, eoh)) = eoh
      /\ Row(b \o SubSeq(q, 1, eoh), SubSeq(q, eoh + 1, Len(q)), t) = Row(b, q, t)
  BY <1>e, ReadKeepsStream
<1>u. PICK units \in Seq(Sent) :
        /\ units = SubSeq(inbox, 1, eoh) /\ Len(units) = eoh /\ eoh \in 1..Len(units)
        /\ IsHeadEnd(units, eoh) /\ units[eoh].part # "half" /\ p.have >= 0
  BY <1>1, <1>2, AcceptedHead
<1>7. PICK rest \in Seq(Sent) :
        rest = inbox' /\ Stream = units \o (rest \o toSend)
  <2>1. PICK f \in Seq(Sent), g \in Seq(Sent) :
          /\ f = SubSeq(q, 1, eoh) /\ g = SubSeq(q, eoh + 1, Len(q))
          /\ Len(f) = eoh /\ (b \o f) \o (g \o t) = b \o (q \o t)
    BY <1>4, <1>5, <1>6 DEF Row
  <2>2. b \o f = f
    BY <1>2, <1>5, ConcatEmptySeq
  <2>3. Stream = b \o (q \o t)
    BY <1>2, <1>5 DEF Stream
  <2>. QED
    BY <1>1, <1>5, <1>u, <2>1, <2>2, <2>3
<1>8. Found(units, eoh)
  BY <1>u DEF Found, IsHeadEnd
<1>9. PICK r : r = [p EXCEPT !.inner = FALSE]
  OBVIOUS
<1>10. p \in lookForHeaders(units, eoh) /\ Parse(r)
  BY <1>a, <1>u, <1>9, Zenon
<1>11. ~LeavesSome(units, eoh, r) \/ ~r.clean
  <2>. SUFFICES ASSUME LeavesSome(units, eoh, r), r.clean PROVE FALSE
    OBVIOUS
  <2>1. r.need = ContentLength(r.from)
    <3>1. eoh \in 1..Len(units) /\ p.have >= 0
      BY <1>u
    <3>2. p \in lookForHeaders(units, eoh)
      BY <1>10
    <3>. QED
      BY <1>2, <1>9, <3>1, <3>2, ParsedHead
  <2>2. r.need = asks[r.from].body
    BY <1>2, <2>1 DEF ContentLength, Hidden
  <2>3. r.need = 0 /\ Len(units) - eoh < asks[r.from].body
    BY <1>u DEF LeavesSome
  <2>. QED
    BY <1>u, <2>2, <2>3
<1>12. /\ UNCHANGED <<asks, toSend, served>> /\ inbox' = rest
       /\ ghost' \in Ghost /\ ghost.left \subseteq ghost'.left
  BY <1>2, <1>7
<1>. QED
  BY <1>2, <1>u, <1>7, <1>8, <1>9, <1>10, <1>11, <1>12, StreamTake

(* The request is given its number. *)
LEMMA StreamDispatch ==
  ASSUME DialogInv, Dispatch
  PROVE  StreamInv'
<1>1. PICK matched \in BOOLEAN : request' = [request EXCEPT !.matched = matched]
  BY DEF Dispatch
<1>2. /\ request'.parsed = request.parsed /\ request'.have = request.have
      /\ request'.need = request.need /\ request'.clean = request.clean
      /\ request'.from = request.from
  BY <1>1 DEF DialogInv, TypeInv, TypeOK, Parsed
<1>3. /\ UNCHANGED <<asks, toSend, inbox, ghost>>
      /\ pc = "dispatch" /\ pc' = "pre" /\ served' = served + 1
  BY DEF Dispatch, clientVars, ioVars, histVars
<1>4. CASE request.parsed
  <2>1. /\ Taken' = Taken /\ Stream' = Stream /\ Expected' = Expected
        /\ InHand /\ InHand' /\ Answering'
        /\ (InSync(Taken)' <=> InSync(Taken))
        /\ (InSync(Taken + 1)' <=> InSync(Taken + 1))
    BY <1>3 DEF Taken, Stream, Expected, InHand, Answering, InSync
  <2>2. Talking
    BY <1>3, <1>4 DEF Talking
  <2>3. /\ InSync(Taken) => request.from = Taken /\ request.clean /\ Len(asks) = Taken
        /\ InSync(Taken + 1) =>
             Len(asks) \in {Taken, Taken + 1} /\ Aligned(Stream, Expected)
        /\ request.have = request.need \/ Taken \in ghost.left
    BY <1>3, <2>1, <2>2 DEF DialogInv, StreamInv
  <2>4. Aligned(Stream, Expected) => Aligned(Stream, Expected)'
    BY <2>1 DEF Aligned
  <2>. QED
    BY <1>2, <1>3, <2>1, <2>3, <2>4 DEF StreamInv
<1>5. CASE ~request.parsed
  <2>1. ~Talking'
    BY <1>2, <1>3, <1>5 DEF Talking
  <2>. QED
    BY <2>1 DEF StreamInv
<1>. QED
  BY <1>4, <1>5

(* The transaction is cleaned up. *)
LEMMA StreamCleanup ==
  ASSUME DialogInv, cleanupTransaction
  PROVE  StreamInv'
<1>1. /\ UNCHANGED <<asks, toSend, inbox, served>> /\ buf' = <<>>
      /\ pc = "cleanup" /\ pc' \in {"receive", "closing"}
      /\ ghost' = [NoGhost EXCEPT !.left = ghost.left]
  BY DEF cleanupTransaction, clientVars
<1>2. ghost'.left = ghost.left
  BY <1>1 DEF NoGhost
<1>3. CASE pc' = "receive"
  <2>1. Talking
    BY <1>1 DEF Talking, DialogInv, RequestInv
  <2>2. Stream' = Stream
    <3>1. inbox \o toSend \in Seq(Unit)
      BY StreamType DEF DialogInv
    <3>2. Stream = inbox \o toSend /\ Stream' = <<>> \o (inbox \o toSend)
      BY <1>1, <1>3 DEF Stream
    <3>. QED
      BY <3>1, <3>2, ConcatEmptySeq
  <2>3. /\ Taken' = Taken /\ Expected' = Expected /\ ~InHand' /\ ~Answering'
        /\ (InSync(Taken + 1)' <=> InSync(Taken + 1))
    BY <1>1, <1>2, <1>3 DEF Taken, Expected, InHand, Answering, InSync
  <2>4. InSync(Taken + 1) =>
          Len(asks) \in {Taken, Taken + 1} /\ Aligned(Stream, Expected)
    BY <1>1, <2>1 DEF DialogInv, StreamInv
  <2>5. InSync(Taken + 1)' =>
          Len(asks') \in {Taken', Taken' + 1} /\ Aligned(Stream, Expected)'
    BY <1>1, <2>2, <2>3, <2>4 DEF Aligned
  <2>. QED
    BY <1>3, <2>3, <2>5 DEF StreamInv
<1>4. CASE pc' = "closing"
  BY <1>4 DEF StreamInv, Talking
<1>. QED
  BY <1>1, <1>3, <1>4

(* What the client and the server do to the stream, action by action. *)
LEMMA StreamStep == DialogInv /\ [Next]_vars => StreamInv'
<1>. SUFFICES ASSUME DialogInv, [Next]_vars PROVE StreamInv'
  OBVIOUS
<1>i. StreamInv /\ TypeInv /\ TypeInv'
  BY TypeStep DEF DialogInv
<1>g. ghost \in Ghost /\ inbox \in Seq(Unit) /\ toSend \in Seq(Unit)
  BY <1>i DEF TypeInv, TypeOK
<1>. USE DEF clientVars, ioVars, histVars, serverVars
<1>1. CASE UNCHANGED vars
  BY <1>1, <1>i, StreamKept DEF vars
<1>2. ASSUME NEW r \in Requests, Ask(r) PROVE StreamInv'
  BY <1>2, StreamAsk
<1>3. CASE Deliver
  <2>1. inbox' \o toSend' = inbox \o toSend
    BY <1>3, <1>g, DeliveryKeepsStream DEF Deliver
  <2>2. UNCHANGED <<asks, buf, pc, request, served, ghost>>
    BY <1>3 DEF Deliver
  <2>3. /\ Stream' = Stream /\ Taken' = Taken /\ Expected' = Expected
        /\ (Talking' <=> Talking)
        /\ (InSync(Taken)' <=> InSync(Taken))
        /\ (InSync(Taken + 1)' <=> InSync(Taken + 1))
    BY <2>1, <2>2 DEF Stream, Taken, Expected, Talking, InSync
  <2>4. Aligned(Stream, Expected) => Aligned(Stream, Expected)'
    BY <2>3 DEF Aligned
  <2>. QED
    BY <1>i, <2>2, <2>3, <2>4 DEF StreamInv, InHand, Answering
<1>4. CASE Hangup \/ Reset
  BY <1>4, <1>i, StreamCutOff DEF Hangup, Reset
<1>5. CASE fcgiAcceptFails
  BY <1>5, <1>i, StreamKept DEF fcgiAcceptFails
<1>6. CASE receiveHeaderHTTP
  BY <1>6, <1>i, StreamHead
<1>7. CASE receiveHeaderGivesUp
  BY <1>7, <1>i, StreamKept DEF receiveHeaderGivesUp
<1>8. CASE receiveHeaderTlsError
  <2>1. ~Talking'
    BY <1>8 DEF receiveHeaderTlsError, DialogInv, RequestInv, Talking
  <2>. QED
    BY <2>1 DEF StreamInv
<1>9. CASE receivePayload
  BY <1>9, <1>i, StreamPayload
<1>10. CASE receivePayloadGivesUp
  BY <1>10, StreamCut
<1>11. CASE fcgiReceiveHeader
  BY <1>11, <1>i, StreamAccept
<1>12. CASE fcgiPayloadSpins \/ Terminated
  BY <1>1, <1>12 DEF fcgiPayloadSpins, Terminated
<1>13. ASSUME NEW go \in BOOLEAN, runPreRequestPlugin(go) PROVE StreamInv'
  <2>1. ghost' = [ghost EXCEPT !.approvals = ghost.approvals + 1]
          \/ ghost' = [ghost EXCEPT !.vetoed = TRUE]
    BY <1>13 DEF runPreRequestPlugin
  <2>2. ghost'.left = ghost.left
    BY <1>g, <2>1 DEF Ghost
  <2>3. /\ UNCHANGED <<asks, toSend, inbox, buf, served, request>>
        /\ pc' = pc \/ (pc = "pre" /\ pc' = "end")
    BY <1>13 DEF runPreRequestPlugin
  <2>. QED
    BY <1>i, <2>2, <2>3, StreamKept DEF Answering
<1>14. ASSUME NEW go \in BOOLEAN, runPostResponsePlugin(go) PROVE StreamInv'
  <2>1. /\ UNCHANGED <<asks, toSend, inbox, buf, served, request, ghost>>
        /\ pc' = pc \/ (pc = "post" /\ pc' = "end")
    BY <1>14 DEF runPostResponsePlugin
  <2>. QED
    BY <1>i, <2>1, StreamKept DEF Answering
<1>15. CASE ServletReturns
  BY <1>15, <1>i, StreamKept DEF ServletReturns, Answering
<1>16. CASE putChunk
  BY <1>16, <1>i, StreamKept DEF putChunk
<1>17. ASSUME NEW s \in Statuses, SetStatus(s) PROVE StreamInv'
  BY <1>17, <1>i, StreamKept DEF SetStatus
<1>18. CASE handleServletException
  <2>1. PICK raised : ghost' = [ghost EXCEPT !.raised = raised]
    BY <1>18 DEF handleServletException
  <2>2. ghost'.left = ghost.left
    BY <1>g, <2>1 DEF Ghost
  <2>3. /\ UNCHANGED <<asks, toSend, inbox, buf, served, request>>
        /\ pc' = pc \/ (Answering /\ Answering')
    BY <1>18 DEF handleServletException, InCallback, InPlugin, Answering
  <2>. QED
    BY <1>i, <2>2, <2>3, StreamKept DEF Answering
<1>19. CASE Dispatch
  BY <1>19, StreamDispatch
<1>20. CASE runServlet \/ PluginsDone
  <2>1. /\ UNCHANGED <<asks, toSend, inbox, buf, served, request, ghost>>
        /\ Answering /\ Answering'
    BY <1>20 DEF runServlet, PluginsDone, Answering
  <2>. QED
    BY <1>i, <2>1, StreamKept DEF Answering
<1>21. CASE putChunkEnd
  <2>1. /\ UNCHANGED <<asks, toSend, inbox, buf, served, request, ghost>>
        /\ pc = "end" /\ pc' = "check"
    BY <1>21 DEF putChunkEnd
  <2>. QED
    BY <1>i, <2>1, StreamKept DEF Answering
<1>22. CASE CheckConnection
  <2>1. /\ UNCHANGED <<asks, toSend, inbox, buf, served, request, ghost>>
        /\ pc = "check" /\ pc' \in {"cleanup", "died"}
    BY <1>22 DEF CheckConnection
  <2>. QED
    BY <1>i, <2>1, StreamKept DEF Answering
<1>23. CASE cleanupTransaction
  BY <1>23, StreamCleanup
<1>24. CASE CloseSocket
  BY <1>24, <1>i, StreamKept DEF CloseSocket
<1>25. CASE lookForHeadersFails \/ CertificateFault
  <2>1. ~Talking'
    BY <1>25 DEF lookForHeadersFails, CertificateFault, Talking
  <2>. QED
    BY <2>1 DEF StreamInv
<1>. QED
  BY <1>1, <1>2, <1>3, <1>4, <1>5, <1>6, <1>7, <1>8, <1>9, <1>10, <1>11, <1>12,
     <1>13, <1>14, <1>15, <1>16, <1>17, <1>18, <1>19, <1>20, <1>21, <1>22, <1>23,
     <1>24, <1>25 DEF Next, Environment, Receive, Callback, Returns, Respond

LEMMA DialogInit == Init => DialogInv
BY TypeInit, CountInit, RequestInit, StreamInit DEF DialogInv

LEMMA DialogStep == DialogInv /\ [Next]_vars => DialogInv'
BY TypeStep, CountStep, RequestStep, StreamStep DEF DialogInv

(* The stream the client sends and the requests the loop takes from it     *)
(* (receiveHeaderHTTP, receivePayload, cleanupTransaction) stay in step as *)
(* long as every byte of a request is read as part of it: the loop has the *)
(* last request of the client in hand, or the stream holds the next one    *)
(* from its first byte.                                                    *)
THEOREM DialogInvariant == Spec => []DialogInv
<1>. QED
  BY DialogInit, DialogStep, PTL DEF Spec

(* The response of serverThread to its n-th request answers the n-th       *)
(* request of the client, when every byte of the requests before was read  *)
(* as theirs.                                                              *)
THEOREM AnswersItsAsker == Spec => []AnswersTheAsker
<1>1. DialogInv => AnswersTheAsker
  <2>. SUFFICES ASSUME DialogInv, ~Secure, Answering, InSync(served)
                PROVE  request.from = served /\ served = Len(asks)
    BY DEF AnswersTheAsker
  <2>1. Talking /\ InHand /\ Taken = served
    BY DEF DialogInv, RequestInv, Talking, InHand, Taken, Answering
  <2>. QED
    BY <2>1 DEF DialogInv, StreamInv
<1>. QED
  BY <1>1, DialogInvariant, PTL

(* Plugins and servlet see the whole body that was sent, however the reads *)
(* of receivePayload split it, unless receivePayload gave up, the head was *)
(* parsed before its end had come, or parseHeaders did not get to          *)
(* Content-Length.                                                         *)
THEOREM BodyIsWhole == Spec => []WholeBodyUnlessCut
<1>1. DialogInv => WholeBodyUnlessCut
  <2>. SUFFICES ASSUME DialogInv, Answering, request.parsed, request.clean
                PROVE  \/ request.have = asks[request.from].body
                       \/ Hidden(request.from)
                       \/ served \in ghost.left
    BY DEF WholeBodyUnlessCut
  <2>1. Talking /\ Taken = served
    BY DEF Talking, Taken, Answering
  <2>2. request.have = request.need \/ served \in ghost.left
    BY <2>1 DEF DialogInv, StreamInv
  <2>3. request.need = ContentLength(request.from)
    BY DEF DialogInv, RequestInv
  <2>. QED
    BY <2>2, <2>3 DEF ContentLength
<1>. QED
  BY <1>1, DialogInvariant, PTL

(* lookForHeaders parses a request from its own bytes alone, unless bytes  *)
(* of an earlier request on the connection were left unread.               *)
THEOREM RequestsAreFramed == Spec => []FramedUnlessCut
<1>1. DialogInv => FramedUnlessCut
  <2>. SUFFICES ASSUME DialogInv, Answering, InSync(served)
                PROVE  request.clean
    BY DEF FramedUnlessCut
  <2>1. CASE request.parsed
    <3>1. Talking /\ InHand /\ Taken = served
      BY <2>1 DEF Talking, InHand, Taken, Answering
    <3>. QED
      BY <3>1 DEF DialogInv, StreamInv
  <2>2. CASE ~request.parsed
    BY <2>2 DEF DialogInv, RequestInv
  <2>. QED
    BY <2>1, <2>2
<1>. QED
  BY <1>1, DialogInvariant, PTL

-----------------------------------------------------------------------------
(* The end of the connection.                                              *)

(* The configuration is chosen once. *)
LEMMA ConfigKept == [Next]_vars => UNCHANGED config
<1>1. Environment => UNCHANGED config
  BY DEF Environment, Ask, Deliver, Hangup, Reset, fcgiAcceptFails, serverVars
<1>2. Receive => UNCHANGED config
  BY ReceiveQuiet
<1>3. Callback \/ Returns => UNCHANGED config
  BY DEF Callback, putChunk, SetStatus, handleServletException, Returns,
         runPreRequestPlugin, runPostResponsePlugin, ServletReturns
<1>4. Respond \/ putChunkEnd \/ Terminated \/ UNCHANGED vars => UNCHANGED config
  BY DEF Respond, Dispatch, CertificateFault, runServlet, PluginsDone, putChunkEnd,
         CheckConnection, cleanupTransaction, CloseSocket, Terminated, vars
<1>. QED
  BY <1>1, <1>2, <1>3, <1>4 DEF Next

(* Bytes that were left are not read later. *)
LEMMA LeftGrows == TypeInv /\ [Next]_vars => ghost.left \subseteq ghost'.left
<1>. SUFFICES ASSUME TypeInv, [Next]_vars PROVE ghost.left \subseteq ghost'.left
  OBVIOUS
<1>g. ghost \in Ghost /\ served \in Nat
  BY DEF TypeInv, TypeOK
<1>. USE DEF histVars
<1>1. CASE Environment
  BY <1>1 DEF Environment, Ask, Deliver, Hangup, Reset, fcgiAcceptFails, serverVars
<1>2. CASE Receive
  <2>1. ghost'.left \in {ghost.left, ghost.left \cup {served + 1}}
    BY <1>2, <1>g, ReceiveCounts
  <2>. QED
    BY <2>1
<1>3. ASSUME NEW go \in BOOLEAN, runPreRequestPlugin(go)
      PROVE  ghost.left \subseteq ghost'.left
  <2>1. ghost' = [ghost EXCEPT !.approvals = ghost.approvals + 1]
          \/ ghost' = [ghost EXCEPT !.vetoed = TRUE]
    BY <1>3 DEF runPreRequestPlugin
  <2>. QED
    BY <1>g, <2>1 DEF Ghost
<1>4. CASE handleServletException
  <2>1. PICK raised : ghost' = [ghost EXCEPT !.raised = raised]
    BY <1>4 DEF handleServletException
  <2>. QED
    BY <1>g, <2>1 DEF Ghost
<1>5. CASE cleanupTransaction
  <2>1. ghost' = [NoGhost EXCEPT !.left = ghost.left]
    BY <1>5 DEF cleanupTransaction
  <2>. QED
    BY <2>1 DEF NoGhost
<1>6. ASSUME UNCHANGED ghost PROVE ghost.left \subseteq ghost'.left
  BY <1>6
<1>7. CASE putChunk \/ \E s \in Statuses : SetStatus(s)
  BY <1>6, <1>7 DEF putChunk, SetStatus
<1>8. CASE ServletReturns \/ \E go \in BOOLEAN : runPostResponsePlugin(go)
  BY <1>6, <1>8 DEF ServletReturns, runPostResponsePlugin
<1>9. CASE Dispatch \/ CertificateFault \/ runServlet \/ PluginsDone
             \/ CheckConnection \/ CloseSocket \/ putChunkEnd
  BY <1>6, <1>9 DEF Dispatch, CertificateFault, runServlet, PluginsDone,
                    CheckConnection, CloseSocket, putChunkEnd
<1>10. CASE Terminated \/ UNCHANGED vars
  BY <1>6, <1>10 DEF Terminated, vars
<1>. QED
  BY <1>1, <1>2, <1>3, <1>4, <1>5, <1>7, <1>8, <1>9, <1>10
  DEF Next, Callback, Returns, Respond

(* The requests served are requests of the client that do not ask for the  *)
(* end of the connection, but the last one.                                *)
LEMMA CloseStep == DialogInv /\ CloseInv /\ [Next]_vars => CloseInv'
<1>. SUFFICES ASSUME DialogInv, CloseInv, [Next]_vars, ~Secure' PROVE CloseInv'
  BY DEF CloseInv
<1>. USE DEF Answering
<1>s. UNCHANGED config /\ Http' = Http
  BY ConfigKept DEF Http
<1>n. ~Secure
  BY <1>s DEF Secure
<1>l. ghost.left \subseteq ghost'.left
  BY LeftGrows DEF DialogInv
<1>c. /\ pc \in {"receive", "payload", "dispatch"} =>
           connected /\ \A m \in 1..served : Opens(m)
      /\ Answering \/ pc = "check" => connected
      /\ pc = "cleanup" /\ connected => \A m \in 1..served : Opens(m)
      /\ \A m \in 1..(served - 1) : Opens(m)
  BY <1>n DEF CloseInv, KeepsOpen
<1>t. /\ served \in Nat /\ connected \in BOOLEAN /\ asks \in Seq(Request)
      /\ Len(asks) \in Nat
  BY DEF DialogInv, TypeInv, TypeOK
<1>q. ASSUME /\ pc' \in {"receive", "payload", "dispatch"} =>
                  connected' /\ \A m \in 1..served' : Opens(m)'
             /\ Answering' \/ pc' = "check" => connected'
             /\ pc' = "cleanup" /\ connected' => \A m \in 1..served' : Opens(m)'
             /\ \A m \in 1..(served' - 1) : Opens(m)'
      PROVE  CloseInv'
  BY <1>q DEF CloseInv, KeepsOpen
<1>o. ASSUME UNCHANGED asks, NEW m PROVE Opens(m) => Opens(m)'
  <2>1. InSync(m)' => InSync(m)
    BY <1>l DEF InSync
  <2>2. SaysClose(m)' = SaysClose(m)
    BY <1>o, <1>s DEF SaysClose, Hidden
  <2>. QED
    BY <1>o, <2>1, <2>2 DEF Opens
<1>1. CASE UNCHANGED <<asks, served, connected>>
             /\ \/ pc' = pc
                \/ /\ pc \in {"receive", "payload", "dispatch"}
                   /\ pc' \in {"payload", "dispatch", "closing"}
                \/ /\ pc \in {"pre", "servlet", "post", "end"}
                   /\ pc' \in {"pre", "servlet", "post", "end", "check"}
                \/ pc' \in {"closed", "died"}
  BY <1>c, <1>o, <1>q, <1>1
<1>2. ASSUME NEW r \in Requests, Ask(r) PROVE CloseInv'
  <2>1. UNCHANGED <<served, connected, pc, ghost>> /\ asks' = Append(asks, r)
    BY <1>2 DEF Ask, serverVars, histVars
  <2>2. Len(asks') = Len(asks) + 1 /\ \A n \in 1..Len(asks) : asks'[n] = asks[n]
    BY <1>t, <2>1, AppendProperties, RoundtripAssumption
  <2>3. ASSUME NEW m \in Int, m >= 1, Opens(m) PROVE Opens(m)'
    <3>1. CASE InSync(m)
      <4>1. m <= Len(asks) /\ ~SaysClose(m)
        BY <2>3, <3>1 DEF Opens
      <4>2. asks'[m] = asks[m] /\ m <= Len(asks')
        BY <1>t, <2>2, <2>3, <4>1
      <4>3. ~SaysClose(m)'
        BY <1>s, <4>1, <4>2 DEF SaysClose, Hidden
      <4>. QED
        BY <4>2, <4>3 DEF Opens
    <3>2. CASE ~InSync(m)
      BY <2>1, <3>2 DEF Opens, InSync
    <3>. QED
      BY <3>1, <3>2
  <2>4. \A n \in Int : (\A m \in 1..n : Opens(m)) => (\A m \in 1..n : Opens(m)')
    BY <2>3
  <2>5. /\ (\A m \in 1..served : Opens(m)) => (\A m \in 1..served : Opens(m)')
        /\ \A m \in 1..(served - 1) : Opens(m)'
    BY <1>c, <1>t, <2>4
  <2>. QED
    BY <1>c, <1>q, <2>1, <2>5
<1>3. CASE Dispatch
  <2>1. /\ UNCHANGED <<asks, connected>> /\ served' = served + 1 /\ pc = "dispatch"
        /\ pc' = "pre" /\ served' - 1 = served
    BY <1>3, <1>t DEF Dispatch, clientVars
  <2>2. \A m \in 1..served : Opens(m)'
    BY <1>c, <1>o, <2>1
  <2>. QED
    BY <1>c, <1>q, <2>1, <2>2
<1>4. CASE CheckConnection
  <2>1. request.parsed /\ pc = "check"
    BY <1>4, <1>n DEF CheckConnection, DialogInv, RequestInv
  <2>2. UNCHANGED <<asks, served>> /\ pc' = "cleanup"
    BY <1>4, <2>1 DEF CheckConnection, clientVars
  <2>3. ASSUME connected', InSync(served) PROVE served <= Len(asks) /\ ~SaysClose(served)
    <3>1. Taken = served /\ Talking
      BY <2>1 DEF Taken, Talking
    <3>2. request.from = served /\ request.clean
      BY <2>1, <2>3, <3>1 DEF DialogInv, StreamInv
    <3>3. request.from \in 1..Len(asks)
      BY <2>1 DEF DialogInv, TypeInv
    <3>4. ~SaysClose(request.from)
      <4>1. connected' \in {connected /\ ~SaysClose(request.from)}
        BY <1>4, <2>1, <3>2 DEF CheckConnection
      <4>. QED
        BY <2>3, <4>1
    <3>. QED
      BY <1>t, <3>2, <3>3, <3>4
  <2>4. connected' => \A m \in 1..served : Opens(m)'
    <3>1. \A m \in 1..served : m = served \/ m \in 1..(served - 1)
      BY <1>t
    <3>2. connected' => Opens(served)
      BY <2>3 DEF Opens
    <3>3. connected' => \A m \in 1..served : Opens(m)
      BY <1>c, <3>1, <3>2
    <3>. QED
      BY <1>o, <2>2, <3>3
  <2>5. \A m \in 1..(served - 1) : Opens(m)'
    BY <1>c, <1>o, <2>2
  <2>. QED
    BY <1>q, <2>2, <2>4, <2>5
<1>5. CASE cleanupTransaction
  <2>1. /\ UNCHANGED <<asks, served, connected>> /\ pc = "cleanup"
        /\ pc' = IF connected THEN "receive" ELSE "closing"
    BY <1>5 DEF cleanupTransaction, clientVars
  <2>. QED
    BY <1>c, <1>o, <1>q, <2>1
<1>6. CASE Environment /\ ~\E r \in Requests : Ask(r)
  <2>1. UNCHANGED <<asks, served, connected>>
          /\ (pc' = pc \/ (pc = "receive" /\ pc' = "closing"))
    BY <1>6 DEF Environment, Deliver, Hangup, Reset, fcgiAcceptFails, clientVars,
                serverVars
  <2>. QED
    BY <1>1, <2>1
<1>7. CASE Receive
  <2>1. /\ UNCHANGED <<asks, connected>>
    BY <1>7 DEF Receive, receiveHeaderHTTP, lookForHeadersFails, receiveHeaderGivesUp,
                receiveHeaderTlsError, receivePayload, receivePayloadGivesUp,
                fcgiReceiveHeader, fcgiPayloadSpins, vars, clientVars
  <2>2. /\ UNCHANGED served /\ pc \in {"receive", "payload"}
        /\ pc' \in {"receive", "payload", "dispatch", "closing", "died"}
    BY <1>7, ReceiveQuiet
  <2>. QED
    BY <1>c, <1>o, <1>q, <2>1, <2>2
<1>8. CASE Callback \/ Returns
  <2>1. /\ UNCHANGED <<asks, served, connected>>
        /\ pc \in {"pre", "servlet", "post", "end"}
        /\ pc' \in {"pre", "servlet", "post", "end", "check"}
    BY <1>8 DEF Callback, Returns, putChunk, SetStatus, handleServletException,
                runPreRequestPlugin, runPostResponsePlugin, ServletReturns,
                InCallback, InPlugin, clientVars
  <2>. QED
    BY <1>1, <2>1
<1>9. CASE runServlet \/ PluginsDone \/ putChunkEnd
  <2>1. /\ UNCHANGED <<asks, served, connected>>
        /\ pc \in {"pre", "servlet", "post", "end"}
        /\ pc' \in {"pre", "servlet", "post", "end", "check"}
    BY <1>9 DEF runServlet, PluginsDone, putChunkEnd, clientVars
  <2>. QED
    BY <1>1, <2>1
<1>10. CASE CloseSocket \/ CertificateFault \/ Terminated \/ UNCHANGED vars
  BY <1>1, <1>10 DEF CloseSocket, CertificateFault, Terminated, vars, clientVars
<1>. QED
  BY <1>2, <1>3, <1>4, <1>5, <1>6, <1>7, <1>8, <1>9, <1>10
  DEF Next, Respond, Environment

(* After a request with "Connection: close" serverThread clears connected  *)
(* and never serves another request on the connection, unless bytes of an  *)
(* earlier request were in front of it.                                    *)
THEOREM CloseIsHonoured == Spec => []CloseHonoured
<1>1. Init => CloseInv
  BY DEF Init, CloseInv, KeepsOpen, Answering
<1>2. CloseInv => CloseHonoured
  BY DEF CloseInv, CloseHonoured, KeepsOpen, Opens
<1>. QED
  BY <1>1, <1>2, CloseStep, DialogInvariant, PTL DEF Spec

-----------------------------------------------------------------------------
(* What a failure leaves on the wire.                                      *)

(* The escape message of the request in hand, and nothing else, is on      *)
(* record, and the header with its status stays on the wire.               *)
LEMMA FailStep == TypeInv /\ FailInv /\ [Next]_vars => FailInv'
<1>. SUFFICES ASSUME TypeInv, FailInv, [Next]_vars PROVE FailInv'
  OBVIOUS
<1>. USE DEF Answering
<1>. DEFINE Failed(n) == [kind |-> "header", req |-> n, status |-> 500]
            Shown(w, n) == \E i \in DOMAIN w : w[i] = Failed(n)
<1>t. /\ served \in Nat /\ status \in Nat /\ firstWrite \in BOOLEAN
      /\ wire \in Seq(Token) /\ ghost \in Ghost
  BY DEF TypeInv, TypeOK
<1>f. /\ pc \in {"receive", "payload", "dispatch"} => ghost.raised = "no"
      /\ pc \in {"pre", "servlet", "post", "end"} /\ ghost.raised = "clean" => Shown(wire, served)
  BY DEF FailInv, FailureReported
<1>q. ASSUME pc' \in {"receive", "payload", "dispatch"} => ghost'.raised = "no",
             pc' \in {"pre", "servlet", "post", "end"} /\ ghost'.raised = "clean" =>
               Shown(wire', served')
      PROVE  FailInv'
  BY <1>q DEF FailInv, FailureReported
<1>e. ASSUME NEW st \in Nat, Emit("chunk", st)
      PROVE  /\ Shown(wire, served) => Shown(wire', served)
             /\ firstWrite /\ st = 500 => Shown(wire', served)
  <2>1. PICK h \in Token, t \in Token :
          /\ h = NewToken("header", st) /\ t = NewToken("chunk", st)
          /\ wire' = IF firstWrite THEN Append(Append(wire, h), t)
                                   ELSE Append(wire, t)
    <3>1. NewToken("header", st) \in Token /\ NewToken("chunk", st) \in Token
      BY <1>t DEF NewToken, Token
    <3>. QED
      BY <1>e, <3>1, EmitAppends DEF TypeInv
  <2>2. \A w \in Seq(Token), x \in Token :
          /\ Append(w, x) \in Seq(Token)
          /\ DOMAIN w = 1..Len(w) /\ Len(w) \in Nat
          /\ DOMAIN Append(w, x) = 1..(Len(w) + 1)
          /\ \A i \in 1..Len(w) : Append(w, x)[i] = w[i]
          /\ Append(w, x)[Len(w) + 1] = x
    BY AppendProperties, LenProperties
  <2>3. ASSUME NEW w \in Seq(Token), NEW x \in Token
        PROVE  /\ Shown(w, served) => Shown(Append(w, x), served)
               /\ x = Failed(served) => Shown(Append(w, x), served)
    <3>1. /\ \A i \in DOMAIN w : i \in DOMAIN Append(w, x) /\ Append(w, x)[i] = w[i]
          /\ Len(w) + 1 \in DOMAIN Append(w, x) /\ Append(w, x)[Len(w) + 1] = x
      BY <2>2
    <3>. QED
      BY <3>1
  <2>4. st = 500 => h = Failed(served)
    BY <2>1 DEF NewToken
  <2>5. Append(wire, h) \in Seq(Token)
    BY <1>t, <2>2
  <2>. HIDE DEF Shown, Failed
  <2>6. CASE firstWrite
    <3>1. wire' = Append(Append(wire, h), t)
      BY <2>1, <2>6
    <3>2. /\ Shown(wire, served) => Shown(Append(wire, h), served)
          /\ h = Failed(served) => Shown(Append(wire, h), served)
          /\ Shown(Append(wire, h), served) => Shown(Append(Append(wire, h), t), served)
      BY <1>t, <2>3, <2>5
    <3>. QED
      BY <2>4, <3>1, <3>2
  <2>7. CASE ~firstWrite
    <3>1. wire' = Append(wire, t)
      BY <2>1, <2>7
    <3>. QED
      BY <1>t, <2>3, <2>7, <3>1
  <2>. QED
    BY <1>t, <2>6, <2>7
<1>. HIDE DEF Failed, Shown
<1>1. CASE UNCHANGED <<wire, served>> /\ ghost'.raised = ghost.raised
             /\ \/ pc' = pc
                \/ /\ pc \in {"receive", "payload", "dispatch"}
                   /\ pc' \in {"payload", "dispatch", "closing"}
                \/ /\ pc \in {"pre", "servlet", "post", "end"}
                   /\ pc' \in {"pre", "servlet", "post", "end"}
                \/ pc' \in {"check", "cleanup", "closing", "closed", "died"}
  BY <1>f, <1>q, <1>1
<1>2. CASE Environment
  <2>1. UNCHANGED <<wire, served, ghost>> /\ (pc' = pc \/ pc' = "closing")
    BY <1>2 DEF Environment, Ask, Deliver, Hangup, Reset, fcgiAcceptFails,
                serverVars, respVars, histVars
  <2>. QED
    BY <1>1, <2>1
<1>3. CASE Receive
  <2>1. /\ UNCHANGED <<wire, served>> /\ pc \in {"receive", "payload"}
        /\ pc' \in {"receive", "payload", "dispatch", "closing", "died"}
    BY <1>3, ReceiveQuiet
  <2>2. ghost'.raised = ghost.raised
    BY <1>3, <1>t, ReceiveCounts
  <2>. QED
    BY <1>f, <1>q, <2>1, <2>2
<1>4. CASE Returns
  <2>1. /\ UNCHANGED <<wire, served>>
        /\ pc \in {"pre", "servlet", "post"} /\ pc' \in {"pre", "post", "end"}
        /\ \/ UNCHANGED ghost
           \/ ghost' = [ghost EXCEPT !.approvals = ghost.approvals + 1]
           \/ ghost' = [ghost EXCEPT !.vetoed = TRUE]
    BY <1>4 DEF Returns, runPreRequestPlugin, runPostResponsePlugin,
                ServletReturns, respVars, histVars
  <2>2. ghost'.raised = ghost.raised
    BY <1>t, <2>1 DEF Ghost
  <2>. QED
    BY <1>1, <2>1, <2>2
<1>5. CASE putChunk
  <2>1. /\ UNCHANGED <<served, ghost, pc>> /\ pc \in {"pre", "servlet", "post"}
        /\ Emit("chunk", status)
    BY <1>5 DEF putChunk, InCallback, InPlugin
  <2>. QED
    BY <1>e, <1>f, <1>q, <1>t, <2>1
<1>6. ASSUME NEW s \in Statuses, SetStatus(s) PROVE FailInv'
  BY <1>1, <1>6 DEF SetStatus, histVars
<1>7. CASE handleServletException
  <2>1. /\ UNCHANGED served /\ pc' \in {"pre", "servlet", "post", "end"}
        /\ Emit("chunk", 500)
        /\ ghost' = [ghost EXCEPT !.raised = IF firstWrite THEN "clean" ELSE "late"]
    BY <1>7 DEF handleServletException, InCallback, InPlugin
  <2>2. ghost'.raised = IF firstWrite THEN "clean" ELSE "late"
    BY <1>t, <2>1 DEF Ghost
  <2>3. firstWrite => Shown(wire', served)
    BY <1>e, <2>1
  <2>. QED
    BY <1>q, <1>t, <2>1, <2>2, <2>3
<1>8. CASE Dispatch
  <2>1. pc = "dispatch" /\ pc' = "pre" /\ UNCHANGED ghost
    BY <1>8 DEF Dispatch, histVars
  <2>. QED
    BY <1>f, <1>q, <2>1
<1>9. CASE runServlet \/ PluginsDone
  <2>1. UNCHANGED <<wire, served, ghost>>
          /\ pc \in {"pre", "post"} /\ pc' \in {"servlet", "post", "end"}
    BY <1>9 DEF runServlet, PluginsDone, respVars, histVars
  <2>. QED
    BY <1>1, <2>1
<1>10. CASE putChunkEnd \/ CheckConnection \/ CloseSocket \/ CertificateFault
  <2>1. pc' \in {"check", "cleanup", "closed", "died"}
    BY <1>10 DEF putChunkEnd, CheckConnection, CloseSocket, CertificateFault
  <2>. QED
    BY <1>q, <2>1
<1>11. CASE cleanupTransaction
  <2>1. pc' \in {"receive", "closing"} /\ ghost' = [NoGhost EXCEPT !.left = ghost.left]
    BY <1>11 DEF cleanupTransaction
  <2>2. ghost'.raised = "no"
    BY <2>1 DEF NoGhost
  <2>. QED
    BY <1>q, <2>1, <2>2
<1>12. CASE Terminated \/ UNCHANGED vars
  BY <1>1, <1>12 DEF Terminated, vars, respVars, histVars
<1>. QED
  BY <1>2, <1>3, <1>4, <1>5, <1>6, <1>7, <1>8, <1>9, <1>10, <1>11, <1>12
  DEF Next, Callback, Respond

(* When plugin or servlet fail before anything was written, the exception  *)
(* handler of serverThread has put a header with status 500 on the wire,   *)
(* and no later write takes it away.                                       *)
THEOREM FailureIsReported == Spec => []FailureReported
<1>1. Init => FailInv
  BY DEF Init, FailInv, FailureReported, Answering, NoGhost
<1>2. FailInv => FailureReported
  BY DEF FailInv
<1>. QED
  BY <1>1, <1>2, FailStep, TypeInvariant, PTL DEF Spec
-----------------------------------------------------------------------------
(* The memory of a request.                                                *)

(* A request of the client stays one when it sends another. *)
LEMMA LeadStays ==
  ASSUME TypeOK, NEW r \in Requests, Ask(r), Lead
  PROVE  Lead'
<1>1. asks \in Seq(Request) /\ asks' = Append(asks, r) /\ r \in Request
  BY RoundtripAssumption DEF TypeOK, Ask
<1>2. PICK n \in DOMAIN asks : "lead" \in asks[n].flaws
  BY DEF Lead
<1>3. n \in DOMAIN asks' /\ asks'[n] = asks[n]
  BY <1>1, AppendProperties
<1>. QED
  BY <1>2, <1>3 DEF Lead

(* Everything allocated for a request is freed by cleanupTransaction,      *)
(* except a buffer that completeHeader does not begin.                     *)
LEMMA CleanupFrees ==
  ASSUME TypeOK, MemInv, ~request.inner
  PROVE  Cardinality(heap \ (Freed \cup {"instance"})) = 0
<1>1. heap \ (Freed \cup {"instance"}) = {}
  BY DEF TypeOK, MemInv, Freed, Block
<1>. QED
  BY <1>1, FS_EmptySet

(* A parsed request begins with a line end only if one of the client does, *)
(* or bytes of an earlier request were in front of it.                     *)
LEMMA InnerLead ==
  ASSUME DialogInv', NEW units \in Seq(Sent), NEW eoh \in 1..Len(units), TypeInv,
         NEW p \in lookForHeaders(units, eoh), p.have >= 0,
         NEW r, r = p \/ r = [p EXCEPT !.inner = FALSE], Parse(r), r.inner,
         UNCHANGED asks
  PROVE  Lead' \/ ghost'.left # {}
<1>. SUFFICES ASSUME ghost'.left = {} PROVE Lead'
  OBVIOUS
<1>1. /\ r.parsed /\ (r.clean /\ r.inner => Lead)
  BY ParsedHead
<1>2. request' = r /\ pc' \in {"payload", "dispatch"}
  BY DEF Parse
<1>3. Talking' /\ InHand'
  BY <1>1, <1>2 DEF Talking, InHand
<1>4. InSync(Taken)'
  BY DEF InSync
<1>5. request'.clean
  BY <1>3, <1>4 DEF DialogInv, StreamInv
<1>6. Lead' <=> Lead
  BY DEF Lead
<1>. QED
  BY <1>1, <1>2, <1>5, <1>6

LEMMA MemStep == DialogInv /\ MemInv /\ [Next]_vars => MemInv'
<1>. SUFFICES ASSUME DialogInv, MemInv, [Next]_vars PROVE MemInv'
  OBVIOUS
<1>. USE DEF Answering, memVars
<1>d. DialogInv' /\ TypeInv
  BY DialogStep DEF DialogInv
<1>c. UNCHANGED config /\ Http' = Http /\ Secure' = Secure
  BY ConfigKept DEF Http, Secure
<1>g. ghost.left # {} => ghost'.left # {}
  BY <1>d, LeftGrows
<1>m. /\ "parmValue" \in heap =>
           request.matched /\ pc \notin {"receive", "payload", "dispatch"}
      /\ request.inner => Lead \/ ghost.left # {}
      /\ pc # "closed" => "instance" \in heap
      /\ pc = "receive" => heap \subseteq {"instance"} \cup (IF Http THEN {"buf"} ELSE {})
      /\ pc = "closing" => heap = {"instance"}
      /\ \/ Secure \/ pc = "died" \/ ghost.left # {} \/ Lead
         \/ leaked = IF pc = "closed" /\ ~config.isWorker THEN 1 ELSE 0
  BY DEF MemInv, OnlyInstanceLeaked, Lead
<1>q. ASSUME /\ "parmValue" \in heap' =>
                  request'.matched /\ pc' \notin {"receive", "payload", "dispatch"}
             /\ request'.inner => Lead' \/ ghost'.left # {}
             /\ pc' # "closed" => "instance" \in heap'
             /\ pc' = "receive" =>
                  heap' \subseteq {"instance"} \cup (IF Http THEN {"buf"} ELSE {})
             /\ pc' = "closing" => heap' = {"instance"}
             /\ \/ Secure \/ pc' = "died" \/ ghost'.left # {} \/ Lead'
                \/ leaked' = IF pc' = "closed" /\ ~config.isWorker THEN 1 ELSE 0
      PROVE  MemInv'
  BY <1>c, <1>q DEF MemInv, OnlyInstanceLeaked, Lead
<1>t. TypeOK /\ request \in Parsed /\ leaked \in Nat /\ heap \subseteq Block
  BY <1>d DEF TypeInv, TypeOK
<1>1. ASSUME UNCHANGED <<asks, leaked, heap>>,
             request'.matched = request.matched, request'.inner = request.inner,
             \/ pc' = pc
             \/ pc = "payload" /\ pc' \in {"payload", "dispatch"}
             \/ /\ pc \notin {"closed", "died"}
                /\ pc' \notin {"receive", "payload", "dispatch", "closing", "closed"}
      PROVE  MemInv'
  <2>1. Lead' <=> Lead
    BY <1>1 DEF Lead
  <2>. QED
    BY <1>1, <1>g, <1>m, <1>q, <2>1
<1>2. ASSUME NEW r \in Requests, Ask(r) PROVE MemInv'
  <2>1. UNCHANGED <<config, heap, leaked, request, pc>>
    BY <1>2 DEF Ask, serverVars
  <2>2. Lead => Lead'
    BY <1>2, <1>t, LeadStays
  <2>. QED
    BY <1>g, <1>m, <1>q, <2>1, <2>2
<1>3. CASE Deliver \/ Hangup \/ Reset
  BY <1>1, <1>3 DEF Deliver, Hangup, Reset, serverVars, clientVars
<1>a. CASE fcgiAcceptFails
  <2>1. pc = "receive" /\ pc' = "closing" /\ ~Http /\ UNCHANGED <<asks, request, heap, leaked>>
    BY <1>a DEF fcgiAcceptFails, clientVars
  <2>2. Lead' <=> Lead
    BY <2>1 DEF Lead
  <2>. QED
    BY <1>g, <1>m, <1>q, <2>1, <2>2
<1>p. ASSUME pc = "receive", UNCHANGED <<asks, leaked>>, NEW r, Parse(r),
             r.inner => Lead' \/ ghost'.left # {}
      PROVE  MemInv'
  <2>1. /\ request' = r /\ pc' \in {"payload", "dispatch"}
        /\ "parmValue" \notin heap' /\ "instance" \in heap'
    BY <1>m, <1>p DEF Parse
  <2>2. Lead' <=> Lead
    BY <1>p DEF Lead
  <2>. QED
    BY <1>g, <1>m, <1>p, <1>q, <2>1, <2>2
<1>4. CASE receiveHeaderHTTP
  <2>1. pc = "receive" /\ UNCHANGED <<asks, leaked>>
    BY <1>4 DEF receiveHeaderHTTP, Read, clientVars
  <2>2. CASE UNCHANGED <<request, heap, pc, ghost>>
    BY <1>1, <2>1, <2>2
  <2>3. ASSUME NEW eoh \in 1..Len(buf'), NEW r \in lookForHeaders(buf', eoh),
               r.have >= 0, Parse(r)
        PROVE  MemInv'
    <3>1. buf' \in Seq(Sent)
      <4>1. Sent' = Sent
        BY <2>1 DEF Sent
      <4>. QED
        BY <1>d, <4>1 DEF DialogInv, TypeInv
    <3>2. PICK units \in Seq(Sent) : units = buf'
      BY <3>1
    <3>3. eoh \in 1..Len(units) /\ r \in lookForHeaders(units, eoh)
      BY <2>3, <3>2
    <3>4. r.inner => Lead' \/ ghost'.left # {}
      BY <1>d, <2>1, <2>3, <3>3, InnerLead
    <3>. QED
      BY <1>p, <2>1, <2>3, <3>4
  <2>. QED
    BY <1>4, <2>2, <2>3 DEF receiveHeaderHTTP
<1>5. CASE receiveHeaderGivesUp
  <2>1. /\ UNCHANGED <<asks, request>> /\ heap' = heap \ {"buf"}
        /\ pc = "receive" /\ pc' = "closing"
        /\ leaked' = leaked \/ Secure
    BY <1>5 DEF receiveHeaderGivesUp, clientVars
  <2>2. heap' = {"instance"}
    BY <1>m, <2>1
  <2>3. Lead' <=> Lead
    BY <2>1 DEF Lead
  <2>. QED
    BY <1>g, <1>m, <1>q, <2>1, <2>2, <2>3
<1>6. CASE receiveHeaderTlsError
  <2>1. UNCHANGED <<asks, request>> /\ heap' = heap \ {"buf"} /\ Secure
          /\ pc = "receive" /\ pc' = "dispatch"
    BY <1>6 DEF receiveHeaderTlsError, clientVars
  <2>2. Lead' <=> Lead
    BY <2>1 DEF Lead
  <2>. QED
    BY <1>g, <1>m, <1>q, <2>1, <2>2
<1>b. CASE lookForHeadersFails \/ CertificateFault
  <2>1. /\ UNCHANGED <<asks, leaked, heap, request>>
        /\ pc \notin {"closed", "died"} /\ pc' = "died"
    BY <1>b DEF lookForHeadersFails, CertificateFault, Read, clientVars
  <2>. QED
    BY <1>1, <2>1
<1>7. CASE receivePayload
  <2>1. PICK k \in 1..Len(inbox) : request' = [request EXCEPT !.have = request.have + k]
    BY <1>7 DEF receivePayload
  <2>2. request'.matched = request.matched /\ request'.inner = request.inner
    BY <1>t, <2>1 DEF Parsed
  <2>. QED
    BY <1>1, <1>7, <2>2 DEF receivePayload, clientVars
<1>8. CASE receivePayloadGivesUp
  BY <1>1, <1>8 DEF receivePayloadGivesUp, clientVars
<1>9. CASE fcgiReceiveHeader
  <2>1. pc = "receive" /\ UNCHANGED <<asks, leaked>>
    BY <1>9 DEF fcgiReceiveHeader, clientVars
  <2>2. PICK eoh \in 1..Len(inbox) :
          /\ IsHeadEnd(inbox, eoh)
          /\ \E p \in lookForHeaders(SubSeq(inbox, 1, eoh), eoh) :
               Parse([p EXCEPT !.inner = FALSE])
    BY <1>9 DEF fcgiReceiveHeader
  <2>3. PICK p \in lookForHeaders(SubSeq(inbox, 1, eoh), eoh) :
          Parse([p EXCEPT !.inner = FALSE])
    BY <2>2
  <2>4. PICK u \in Seq(Sent) : u = SubSeq(inbox, 1, eoh) /\ eoh \in 1..Len(u) /\ p.have >= 0
    BY <1>d, <2>2, <2>3, AcceptedHead
  <2>5. PICK r : r = [p EXCEPT !.inner = FALSE]
    OBVIOUS
  <2>6. eoh \in 1..Len(u) /\ p \in lookForHeaders(u, eoh) /\ Parse(r)
    BY <2>3, <2>4, <2>5, Zenon
  <2>7. r.inner => Lead' \/ ghost'.left # {}
    <3>1. p.have >= 0
      BY <2>4
    <3>. QED
      BY <1>d, <2>1, <2>5, <2>6, <3>1, InnerLead
  <2>. QED
    BY <1>p, <2>1, <2>6, <2>7
<1>10. CASE fcgiPayloadSpins \/ Terminated \/ UNCHANGED vars
  BY <1>1, <1>10 DEF fcgiPayloadSpins, Terminated, vars, clientVars
<1>11. CASE Returns
  BY <1>1, <1>11 DEF Returns, runPreRequestPlugin, runPostResponsePlugin,
                     ServletReturns, clientVars
<1>12. CASE Callback
  BY <1>1, <1>12 DEF Callback, putChunk, SetStatus, handleServletException,
                     InCallback, InPlugin, clientVars
<1>13. CASE Dispatch
  <2>1. PICK matched \in BOOLEAN :
          /\ request' = [request EXCEPT !.matched = matched]
          /\ heap' = heap \cup {"respHeaders", "threadMem"}
               \cup (IF matched THEN {"parmValue"} ELSE {})
    BY <1>13 DEF Dispatch
  <2>2. request'.matched = matched /\ request'.inner = request.inner
    BY <1>t, <2>1 DEF Parsed
  <2>3. /\ UNCHANGED <<asks, leaked>> /\ pc = "dispatch" /\ pc' = "pre"
    BY <1>13 DEF Dispatch, clientVars
  <2>4. Lead' <=> Lead
    BY <2>3 DEF Lead
  <2>5. "instance" \in heap' /\ ("parmValue" \in heap' => matched)
    BY <1>m, <2>1, <2>3
  <2>. QED
    BY <1>g, <1>m, <1>q, <2>2, <2>3, <2>4, <2>5
<1>14. CASE runServlet \/ PluginsDone \/ putChunkEnd \/ CheckConnection
  BY <1>1, <1>14 DEF runServlet, PluginsDone, putChunkEnd, CheckConnection,
                     clientVars
<1>15. CASE cleanupTransaction
  <2>1. /\ UNCHANGED asks /\ ~request'.inner /\ pc = "cleanup"
        /\ leaked' = leaked + Cardinality(heap \ (Freed \cup {"instance"}))
    BY <1>15 DEF cleanupTransaction, clientVars, NoRequest
  <2>2. /\ "parmValue" \notin heap' /\ "instance" \in heap'
        /\ \/ /\ pc' = "receive"
              /\ heap' = {"instance"} \cup (IF Http THEN {"buf"} ELSE {})
           \/ pc' = "closing" /\ heap' = {"instance"}
    BY <1>15 DEF cleanupTransaction
  <2>3. Lead' <=> Lead
    BY <2>1 DEF Lead
  <2>4. CASE request.inner
    BY <1>g, <1>m, <1>q, <2>1, <2>2, <2>3, <2>4
  <2>5. CASE ~request.inner
    <3>1. leaked' = leaked
      BY <1>t, <2>1, <2>5, CleanupFrees
    <3>. QED
      BY <1>g, <1>m, <1>q, <2>1, <2>2, <2>3, <3>1
  <2>. QED
    BY <2>4, <2>5
<1>16. CASE CloseSocket
  <2>1. /\ UNCHANGED <<asks, request>> /\ pc = "closing" /\ pc' = "closed"
        /\ heap' = {} /\ heap = {"instance"}
        /\ leaked' = IF config.isWorker THEN leaked ELSE leaked + Cardinality(heap)
    BY <1>16, <1>m DEF CloseSocket, clientVars
  <2>2. Cardinality(heap) = 1
    BY <2>1, FS_Singleton
  <2>3. Lead' <=> Lead
    BY <2>1 DEF Lead
  <2>. QED
    BY <1>g, <1>m, <1>q, <2>1, <2>2, <2>3
<1>. QED
  BY <1>2, <1>3, <1>4, <1>5, <1>6, <1>7, <1>8, <1>9, <1>10, <1>11, <1>12, <1>13,
     <1>14, <1>15, <1>16, <1>a, <1>b DEF Next, Environment, Receive, Respond

(* Over HTTP and FastCGI serverThread loses no block but the INSTANCE of a *)
(* thread, which pthread_exit keeps from being freed, however receive,     *)
(* plugins, servlet and exception handler end; except when a request       *)
(* begins with an empty line or bytes of one were left unread.             *)
THEOREM OnlyInstanceIsLeaked == Spec => []OnlyInstanceLeaked
<1>1. Init => MemInv
  BY DEF Init, MemInv, OnlyInstanceLeaked, NoRequest
<1>2. MemInv => OnlyInstanceLeaked
  BY DEF MemInv
<1>. QED
  BY <1>1, <1>2, MemStep, DialogInvariant, PTL DEF Spec

-----------------------------------------------------------------------------
(* A plain HTTP connection implements the safety part of the abstract      *)
(* exchange (HttpExchange): every step of client and server is a step of   *)
(* the exchange or leaves it as it is.  That a response which is begun is  *)
(* ended (the fairness of the exchange) is left to TLC.                    *)

(* A token of the exchange: a token without the status. *)
AbstractToken == [kind : {"header", "chunk", "end"}, req : Nat]
Abstract(t) == [kind |-> t.kind, req |-> t.req]

(* The refinement mapping of Roundtrip. *)
AbstractWire(w) == [i \in DOMAIN w |-> [kind |-> w[i].kind, req |-> w[i].req]]
Phase == IF ~Answering THEN IF pc \in {"closed", "died"} THEN "closed" ELSE "idle"
         ELSE IF firstWrite THEN "headless" ELSE "streaming"
Astray == ghost.left # {}
AWire == AbstractWire(wire)
Asked == Len(asks)
Kept == Astray' = Astray /\ Stalled' = Stalled

(* A token more on the wire is a token more on the wire of the exchange. *)
LEMMA AbstractAppend ==
  ASSUME NEW w \in Seq(Token), NEW t \in Token
  PROVE  /\ AbstractWire(w) \in Seq(AbstractToken)
         /\ Abstract(t) \in AbstractToken
         /\ Append(w, t) \in Seq(Token)
         /\ AbstractWire(Append(w, t)) = Append(AbstractWire(w), Abstract(t))
<1>1. \A s \in Seq(Token) :
        /\ AbstractWire(s) \in Seq(AbstractToken)
        /\ Len(AbstractWire(s)) = Len(s) /\ Len(s) \in Nat
        /\ \A i \in 1..Len(s) : AbstractWire(s)[i] = Abstract(s[i])
  <2>. TAKE s \in Seq(Token)
  <2>1. DOMAIN s = 1..Len(s) /\ Len(s) \in Nat /\ \A i \in 1..Len(s) : s[i] \in Token
    BY LenProperties, ElementOfSeq
  <2>2. AbstractWire(s) \in [1..Len(s) -> AbstractToken]
    BY <2>1 DEF AbstractWire, AbstractToken, Token
  <2>3. AbstractWire(s) \in Seq(AbstractToken) /\ Len(AbstractWire(s)) = Len(s)
    BY <2>1, <2>2, IsASeq, LenProperties
  <2>. QED
    BY <2>1, <2>3 DEF AbstractWire, Abstract
<1>2. Abstract(t) \in AbstractToken
  BY DEF Abstract, AbstractToken, Token
<1>3. /\ Append(w, t) \in Seq(Token) /\ Len(Append(w, t)) = Len(w) + 1
      /\ \A i \in 1..Len(w) : Append(w, t)[i] = w[i]
      /\ Append(w, t)[Len(w) + 1] = t
  BY AppendProperties
<1>4. PICK a \in Seq(AbstractToken), b \in Seq(AbstractToken) :
        a = AbstractWire(Append(w, t)) /\ b = Append(AbstractWire(w), Abstract(t))
  BY <1>1, <1>2, <1>3, AppendProperties
<1>5. Len(a) = Len(w) + 1 /\ Len(b) = Len(w) + 1 /\ Len(w) \in Nat
  <2>1. AbstractWire(w) \in Seq(AbstractToken) /\ Len(AbstractWire(w)) = Len(w)
          /\ Len(w) \in Nat
    BY <1>1
  <2>2. Len(Append(AbstractWire(w), Abstract(t))) = Len(AbstractWire(w)) + 1
    BY <1>2, <2>1, AppendProperties
  <2>3. Len(AbstractWire(Append(w, t))) = Len(w) + 1
    BY <1>1, <1>3
  <2>. QED
    BY <1>4, <2>1, <2>2, <2>3
<1>6. ASSUME NEW i \in 1..Len(w) PROVE a[i] = b[i]
  <2>1. i \in 1..Len(Append(w, t)) /\ i \in 1..Len(AbstractWire(w))
    BY <1>1, <1>3
  <2>2. a[i] = Abstract(w[i])
    BY <1>1, <1>3, <1>4, <2>1
  <2>3. b[i] = AbstractWire(w)[i]
    BY <1>1, <1>2, <1>4, <2>1, AppendProperties
  <2>. QED
    BY <1>1, <2>2, <2>3
<1>7. a[Len(w) + 1] = b[Len(w) + 1]
  <2>1. a[Len(w) + 1] = Abstract(t)
    <3>1. Len(w) + 1 \in 1..Len(Append(w, t))
      BY <1>1, <1>3
    <3>. QED
      BY <1>1, <1>3, <1>4, <3>1
  <2>2. b[Len(w) + 1] = Abstract(t)
    BY <1>1, <1>2, <1>4, AppendProperties
  <2>. QED
    BY <2>1, <2>2
<1>8. \A i \in 1..Len(a) : a[i] = b[i]
  <2>1. \A i \in 1..Len(a) : i \in 1..Len(w) \/ i = Len(w) + 1
    BY <1>5
  <2>. QED
    BY <1>6, <1>7, <2>1
<1>9. a = b
  BY <1>5, <1>8, SeqEqual
<1>. QED
  BY <1>1, <1>2, <1>3, <1>4, <1>9

(* A step that leaves the mapped variables alone is a stutter.            *)
LEMMA AbstractStill ==
  ASSUME Asked' = Asked, served' = served, Phase' = Phase, AWire' = AWire, Kept
  PROVE  UNCHANGED Exchange!vars
BY Zenon
DEF Exchange!vars, Phase, Asked, AWire, Astray, AbstractWire, Kept

(* What a step has to do to the mapped variables to be one of the exchange.*)
LEMMA AbstractAsk ==
  ASSUME Asked' = Asked + 1, served' = served, Phase' = Phase, AWire' = AWire, Kept
  PROVE  Exchange!Ask
BY Zenon
DEF Exchange!Ask, Phase, Asked, AWire, Astray, AbstractWire, Kept

(* A request is accepted.                                                 *)
LEMMA AbstractAccept ==
  ASSUME Phase = "idle", Phase' = "headless", served < Asked \/ Astray,
         Asked' = Asked, served' = served + 1, AWire' = AWire, Kept
  PROVE  Exchange!Accept
BY Zenon
DEF Exchange!Accept, Phase, Asked, AWire, Astray, AbstractWire, Kept

(* A chunk is written.                                                    *)
LEMMA AbstractWrite ==
  ASSUME Phase \in {"headless", "streaming"}, Phase' = "streaming",
         AWire' = AWire \o (IF Phase = "headless"
                                 THEN <<[kind |-> "header", req |-> served]>> ELSE <<>>)
                             \o <<[kind |-> "chunk", req |-> served]>>,
         Asked' = Asked, served' = served, Kept
  PROVE  Exchange!Write
BY Zenon
DEF Exchange!Write, Exchange!Prefix, Exchange!Token, Phase, Asked, AWire, Astray, AbstractWire, Kept

(* A response is ended.                                                   *)
LEMMA AbstractFinish ==
  ASSUME Phase \in {"headless", "streaming"}, Phase' = "idle",
         AWire' = AWire \o (IF Phase = "headless"
                                 THEN <<[kind |-> "header", req |-> served]>> ELSE <<>>)
                             \o <<[kind |-> "end", req |-> served]>>,
         Asked' = Asked, served' = served, Kept
  PROVE  Exchange!Finish
BY Zenon
DEF Exchange!Finish, Exchange!Prefix, Exchange!Token, Phase, Asked, AWire, Astray, AbstractWire, Kept

(* Bytes of a request are left unread.                                    *)
LEMMA AbstractLoseTrack ==
  ASSUME Phase = "idle", Phase' = Phase, Astray' = TRUE, Stalled' = Stalled,
         Asked' = Asked, served' = served, AWire' = AWire
  PROVE  Exchange!LoseTrack
BY Zenon
DEF Exchange!LoseTrack, Phase, Asked, AWire, Astray, AbstractWire

(* The client is gone.                                                    *)
LEMMA AbstractRelease ==
  ASSUME Phase' = Phase, Astray' = Astray, Stalled' = FALSE,
         Asked' = Asked, served' = served, AWire' = AWire
  PROVE  Exchange!Release
BY Zenon
DEF Exchange!Release, Phase, Asked, AWire, Astray, AbstractWire

(* The connection is closed.                                              *)
LEMMA AbstractClose ==
  ASSUME Phase = "idle", Phase' = "closed", Asked' = Asked, served' = served,
         AWire' = AWire, Kept
  PROVE  Exchange!Close
BY Zenon
DEF Exchange!Close, Phase, Asked, AWire, Astray, AbstractWire, Kept

(* What a step has to leave alone for that. *)
LEMMA KeepsFlags ==
  ASSUME UNCHANGED <<config, peer>>, ghost'.left = ghost.left PROVE Kept
BY Zenon DEF Kept, Astray, Stalled

LEMMA KeepsWire == ASSUME UNCHANGED wire PROVE AWire' = AWire
BY Zenon DEF AWire, AbstractWire

LEMMA KeepsAsked == ASSUME UNCHANGED asks PROVE Asked' = Asked
BY Zenon DEF Asked

(* What prepareResponse puts on the wire is what the exchange does. *)
LEMMA AbstractEmit ==
  ASSUME TypeOK, NEW kind \in {"chunk", "end"}, NEW st \in Nat, Answering,
         Emit(kind, st)
  PROVE  AWire' = AWire \o (IF Phase = "headless"
                             THEN <<[kind |-> "header", req |-> served]>> ELSE <<>>)
                         \o <<[kind |-> kind, req |-> served]>>
<1>. DEFINE h == NewToken("header", st)
            t == NewToken(kind, st)
            ah == [kind |-> "header", req |-> served]
            at == [kind |-> kind, req |-> served]
<1>1. h \in Token /\ t \in Token /\ Abstract(h) = ah /\ Abstract(t) = at
        /\ wire \in Seq(Token) /\ (Phase = "headless" <=> firstWrite)
  BY DEF TypeOK, NewToken, Token, Abstract, Phase
<1>2. wire' = IF firstWrite THEN Append(Append(wire, h), t) ELSE Append(wire, t)
  BY EmitAppends
<1>. HIDE DEF h, t, ah, at
<1>. SUFFICES AbstractWire(wire') =
                AbstractWire(wire) \o (IF Phase = "headless" THEN <<ah>> ELSE <<>>)
                                   \o <<at>>
  BY Zenon DEF AWire, AbstractWire, ah, at
<1>3. PICK w \in Seq(AbstractToken) : w = AbstractWire(wire)
  BY <1>1, AbstractAppend
<1>4. ah \in AbstractToken /\ at \in AbstractToken
  BY <1>1, AbstractAppend
<1>5. w \o <<ah>> = Append(w, ah) /\ Append(w, ah) \in Seq(AbstractToken)
        /\ w \o <<>> = w /\ w \o <<at>> = Append(w, at)
        /\ Append(w, ah) \o <<at>> = Append(Append(w, ah), at)
  <2>1. Append(w, ah) \in Seq(AbstractToken)
    BY <1>4, AppendProperties
  <2>. QED
    BY <1>4, <2>1, AppendIsConcat, ConcatEmptySeq
<1>6. CASE firstWrite
  <2>1. /\ Append(wire, h) \in Seq(Token)
        /\ AbstractWire(Append(wire, h)) = Append(w, ah)
    BY <1>1, <1>3, AbstractAppend
  <2>2. AbstractWire(Append(Append(wire, h), t)) = Append(Append(w, ah), at)
    BY <1>1, <2>1, AbstractAppend
  <2>3. AbstractWire(wire') = (w \o <<ah>>) \o <<at>>
    BY <1>2, <1>5, <1>6, <2>2
  <2>. QED
    BY <1>1, <1>3, <1>6, <2>3
<1>7. CASE ~firstWrite
  <2>1. AbstractWire(Append(wire, t)) = Append(w, at)
    BY <1>1, <1>3, AbstractAppend
  <2>2. AbstractWire(wire') = (w \o <<>>) \o <<at>>
    BY <1>2, <1>5, <1>7, <2>1
  <2>. QED
    BY <1>1, <1>3, <1>7, <2>2
<1>. QED
  BY <1>1, <1>6, <1>7 DEF TypeOK

-----------------------------------------------------------------------------
(* The invariant the simulation needs: a request is dispatched only when   *)
(* the client has sent one that is not served (DialogInv).                 *)
PlainInv == DialogInv /\ config.protocol = "http"

LEMMA PlainInit == Init /\ config.protocol = "http" => PlainInv
BY DialogInit DEF PlainInv

LEMMA PlainStep == PlainInv /\ [Next]_vars => PlainInv'
BY ConfigKept, DialogStep DEF PlainInv

LEMMA ExchangeInit == Init => Exchange!Init
<1>. SUFFICES ASSUME Init PROVE Exchange!Init
  OBVIOUS
<1>1. [i \in DOMAIN wire |-> [kind |-> wire[i].kind, req |-> wire[i].req]] = <<>>
  BY DEF Init
<1>2. ghost.left = {} /\ Len(asks) = 0
  BY DEF Init, NoGhost
<1>3. (ghost.left # {}) = FALSE
  BY <1>2, Zenon
<1>4. Stalled \in BOOLEAN
  BY Zenon DEF Stalled
<1>. QED
  BY <1>1, <1>2, <1>3, <1>4 DEF Init, Exchange!Init, Answering

(* Every step is a step of the exchange or a stutter. *)
LEMMA ExchangeStep == PlainInv /\ [Next]_vars => [Exchange!Next]_(Exchange!vars)
<1>. SUFFICES ASSUME PlainInv, [Next]_vars PROVE [Exchange!Next]_(Exchange!vars)
  OBVIOUS
<1>. USE DEF Answering, clientVars
<1>p. DialogInv /\ Http /\ ~Secure
  BY DEF PlainInv, Http, Secure
<1>t. /\ TypeOK /\ served \in Nat /\ status \in Nat /\ asks \in Seq(Request)
      /\ Len(asks) \in Nat /\ firstWrite \in BOOLEAN
  BY <1>p DEF DialogInv, TypeInv, TypeOK
<1>c. UNCHANGED config
  BY ConfigKept
<1>2. CASE UNCHANGED <<asks, served, wire, firstWrite, peer>> /\ ghost'.left = ghost.left
             /\ \/ pc' = pc
                \/ /\ pc \in {"receive", "payload", "dispatch", "cleanup", "check"}
                   /\ pc' \in {"receive", "payload", "dispatch", "cleanup", "closing"}
                \/ /\ pc \in {"pre", "servlet", "post", "end"}
                   /\ pc' \in {"pre", "servlet", "post", "end"}
  <2>1. Phase' = Phase
    BY <1>2 DEF Phase
  <2>2. UNCHANGED <<asks, served, wire>> /\ ghost'.left = ghost.left /\ peer' = peer
    BY <1>2
  <2>3. UNCHANGED Exchange!vars
    BY <1>c, <2>1, <2>2, KeepsFlags, KeepsWire, KeepsAsked, AbstractStill
  <2>. QED
    BY <2>3, Zenon
<1>g. ghost \in Ghost
  BY <1>p DEF DialogInv, TypeInv, TypeOK
<1>x. ASSUME UNCHANGED <<asks, served, wire, peer>>, ghost'.left = ghost.left,
             pc \in {"receive", "dispatch", "cleanup", "closing"}, pc' \in {"closed", "died"}
      PROVE  Exchange!Next
  <2>2. Phase = "idle" /\ Phase' = "closed"
    BY <1>x DEF Phase
  <2>1. Exchange!Close
    BY <1>c, <1>x, <2>2, KeepsFlags, KeepsWire, KeepsAsked, AbstractClose
  <2>. QED
    BY <2>1 DEF Exchange!Next
<1>3. ASSUME NEW r \in Requests, Ask(r) PROVE Exchange!Ask
  <2>1. asks' = Append(asks, r) /\ UNCHANGED <<served, wire, firstWrite, pc, peer, ghost>>
    BY <1>3 DEF Ask, serverVars, respVars, histVars
  <2>2. Asked' = Asked + 1
    BY <1>t, <2>1, AppendProperties, RoundtripAssumption DEF Asked
  <2>3. Phase' = Phase
    BY <2>1 DEF Phase
  <2>. QED
    BY <1>c, <2>1, <2>2, <2>3, KeepsFlags, KeepsWire, AbstractAsk
<1>4. CASE Deliver \/ Hangup
  <2>1. /\ UNCHANGED <<asks, served, wire, firstWrite, pc, ghost>>
        /\ ~(peer = "reset") /\ ~(peer' = "reset")
    BY <1>4 DEF Deliver, Hangup, serverVars, respVars, histVars
  <2>2. Phase' = Phase
    BY <2>1 DEF Phase
  <2>3. Kept
    BY <1>c, <2>1, Zenon DEF Kept, Astray, Stalled
  <2>4. UNCHANGED Exchange!vars
    BY <2>1, <2>2, <2>3, KeepsWire, KeepsAsked, AbstractStill
  <2>. QED
    BY <2>4, Zenon
<1>r. CASE Reset
  <2>1. UNCHANGED <<asks, served, wire, firstWrite, pc, ghost>> /\ peer' = "reset"
    BY <1>r DEF Reset, serverVars, respVars, histVars
  <2>2. Stalled' = FALSE
    BY <2>1, Zenon DEF Stalled
  <2>4. Phase' = Phase
    BY <2>1 DEF Phase
  <2>5. Astray' = Astray
    BY <2>1, Zenon DEF Astray
  <2>3. Exchange!Release
    BY <2>1, <2>2, <2>4, <2>5, KeepsWire, KeepsAsked, AbstractRelease
  <2>. QED
    BY <2>3 DEF Exchange!Next
<1>5. CASE Receive
  <2>1. /\ UNCHANGED <<asks, peer>>
    BY <1>5 DEF Receive, receiveHeaderHTTP, lookForHeadersFails, receiveHeaderGivesUp,
                receiveHeaderTlsError, receivePayload, receivePayloadGivesUp,
                fcgiReceiveHeader, fcgiPayloadSpins, vars
  <2>2. /\ UNCHANGED <<wire, served, firstWrite>> /\ pc \in {"receive", "payload"}
        /\ pc' \in {"receive", "payload", "dispatch", "closing", "died"}
    BY <1>5, ReceiveQuiet
  <2>3. ghost'.left \in {ghost.left, ghost.left \cup {served + 1}}
    BY <1>5, <1>g, <1>t, ReceiveCounts
  <2>4. CASE lookForHeadersFails
    <3>1. pc = "receive" /\ pc' = "died" /\ UNCHANGED ghost
      BY <2>4 DEF lookForHeadersFails, Read, histVars
    <3>. QED
      BY <1>x, <2>1, <2>2, <3>1
  <2>5. CASE ~lookForHeadersFails
    <3>1. pc' \in {"receive", "payload", "dispatch", "closing"}
      BY <1>5, <2>5 DEF Receive, receiveHeaderHTTP, Read, Parse, receiveHeaderGivesUp,
                receiveHeaderTlsError, receivePayload, receivePayloadGivesUp,
                fcgiReceiveHeader, fcgiPayloadSpins, vars
    <3>2. CASE ghost'.left = ghost.left
      BY <1>2, <2>1, <2>2, <3>1, <3>2
    <3>3. CASE ghost'.left # ghost.left
      <4>1. ghost'.left # {}
        BY <2>3, <3>3
      <4>2. Astray' = TRUE
        BY <4>1, Zenon DEF Astray
      <4>4. Phase = "idle" /\ Phase' = "idle"
        BY <2>2, <3>1 DEF Phase
      <4>5. Stalled' = Stalled
        BY <1>c, <2>1, Zenon DEF Stalled
      <4>3. Exchange!LoseTrack
        BY <2>1, <2>2, <4>2, <4>4, <4>5, KeepsWire, KeepsAsked, AbstractLoseTrack
      <4>. QED
        BY <4>3 DEF Exchange!Next
    <3>. QED
      BY <3>2, <3>3
  <2>. QED
    BY <2>4, <2>5
<1>b. ASSUME Returns \/ Callback PROVE ghost'.left = ghost.left
  <2>1. CASE ServletReturns \/ putChunk \/ (\E s \in Statuses : SetStatus(s))
               \/ \E go \in BOOLEAN : runPostResponsePlugin(go)
    BY <2>1 DEF ServletReturns, putChunk, SetStatus, runPostResponsePlugin, histVars
  <2>2. ASSUME NEW go \in BOOLEAN, runPreRequestPlugin(go)
        PROVE  ghost'.left = ghost.left
    <3>1. ghost' = [ghost EXCEPT !.approvals = ghost.approvals + 1]
            \/ ghost' = [ghost EXCEPT !.vetoed = TRUE]
      BY <2>2 DEF runPreRequestPlugin
    <3>. QED
      BY <1>g, <3>1 DEF Ghost
  <2>3. CASE handleServletException
    <3>1. PICK raised : ghost' = [ghost EXCEPT !.raised = raised]
      BY <2>3 DEF handleServletException
    <3>. QED
      BY <1>g, <3>1 DEF Ghost
  <2>. QED
    BY <1>b, <2>1, <2>2, <2>3 DEF Returns, Callback
<1>6. CASE Returns \/ \E s \in Statuses : SetStatus(s)
  <2>1. /\ UNCHANGED <<asks, served, wire, firstWrite, peer>>
        /\ pc \in {"pre", "servlet", "post"} /\ pc' \in {"pre", "servlet", "post", "end"}
    BY <1>6 DEF Returns, runPreRequestPlugin, runPostResponsePlugin, ServletReturns,
                SetStatus, InCallback, InPlugin, respVars
  <2>2. ghost'.left = ghost.left
    BY <1>6, <1>b DEF Callback
  <2>. QED
    BY <1>2, <2>1, <2>2
<1>7. CASE putChunk \/ handleServletException
  <2>1. PICK st \in Nat : Emit("chunk", st)
    BY <1>7, <1>t DEF putChunk, handleServletException
  <2>2. /\ UNCHANGED <<asks, served, peer>> /\ pc \in {"pre", "servlet", "post", "end"}
        /\ pc' \in {"pre", "servlet", "post", "end"} /\ firstWrite' = FALSE
    BY <1>7, <2>1 DEF putChunk, handleServletException, InCallback, InPlugin, Emit
  <2>3. AWire' = AWire \o (IF Phase = "headless"
                            THEN <<[kind |-> "header", req |-> served]>> ELSE <<>>)
                        \o <<[kind |-> "chunk", req |-> served]>>
    BY <1>t, <2>1, <2>2, AbstractEmit
  <2>5. ghost'.left = ghost.left
    BY <1>7, <1>b DEF Callback
  <2>6. Phase \in {"headless", "streaming"} /\ Phase' = "streaming"
    BY <2>2 DEF Phase
  <2>4. Exchange!Write
    BY <1>c, <2>2, <2>3, <2>5, <2>6, KeepsFlags, KeepsAsked, AbstractWrite
  <2>. QED
    BY <2>4 DEF Exchange!Next
<1>8. CASE Dispatch
  <2>1. request.parsed /\ pc = "dispatch"
    BY <1>8, <1>p DEF Dispatch, DialogInv, RequestInv, InHand
  <2>2. served < Asked \/ Astray
    <3>1. Talking /\ InHand /\ Taken = served + 1
      BY <2>1 DEF Talking, InHand, Taken
    <3>2. CASE ghost.left = {}
      <4>1. InSync(Taken)
        BY <3>2 DEF InSync
      <4>2. Len(asks) = served + 1
        BY <1>p, <3>1, <4>1 DEF DialogInv, StreamInv
      <4>. QED
        BY <1>t, <4>2 DEF Asked
    <3>3. CASE ghost.left # {}
      BY <3>3, Zenon DEF Astray
    <3>. QED
      BY <3>2, <3>3
  <2>3. /\ UNCHANGED <<asks, wire, peer, ghost>> /\ served' = served + 1
        /\ pc' = "pre" /\ firstWrite' = TRUE
    BY <1>8 DEF Dispatch, histVars
  <2>5. Phase = "idle" /\ Phase' = "headless"
    BY <2>1, <2>3 DEF Phase
  <2>4. Exchange!Accept
    BY <1>c, <2>2, <2>3, <2>5, KeepsFlags, KeepsWire, KeepsAsked, AbstractAccept
  <2>. QED
    BY <2>4 DEF Exchange!Next
<1>9. CASE runServlet \/ PluginsDone
  <2>1. /\ UNCHANGED <<asks, served, wire, firstWrite, peer, ghost>>
        /\ pc \in {"pre", "post"} /\ pc' \in {"servlet", "post", "end"}
    BY <1>9 DEF runServlet, PluginsDone, respVars, histVars
  <2>. QED
    BY <1>2, <2>1
<1>10. CASE putChunkEnd
  <2>1. /\ Emit("end", status) /\ UNCHANGED <<asks, served, peer, ghost>>
        /\ pc = "end" /\ pc' = "check"
    BY <1>10, <1>p DEF putChunkEnd, histVars
  <2>2. AWire' = AWire \o (IF Phase = "headless"
                            THEN <<[kind |-> "header", req |-> served]>> ELSE <<>>)
                        \o <<[kind |-> "end", req |-> served]>>
    BY <1>t, <2>1, AbstractEmit
  <2>4. Phase \in {"headless", "streaming"} /\ Phase' = "idle"
    BY <2>1 DEF Phase
  <2>3. Exchange!Finish
    BY <1>c, <2>1, <2>2, <2>4, KeepsFlags, KeepsAsked, AbstractFinish
  <2>. QED
    BY <2>3 DEF Exchange!Next
<1>11. CASE CheckConnection
  <2>1. /\ UNCHANGED <<asks, served, wire, firstWrite, peer, ghost>>
        /\ pc = "check" /\ pc' = "cleanup"
    BY <1>11, <1>p DEF CheckConnection, DialogInv, RequestInv, respVars, histVars
  <2>. QED
    BY <1>2, <2>1
<1>12. CASE cleanupTransaction
  <2>1. /\ UNCHANGED <<asks, served, wire, firstWrite, peer>>
        /\ pc = "cleanup" /\ pc' \in {"receive", "closing"}
        /\ ghost' = [NoGhost EXCEPT !.left = ghost.left]
    BY <1>12, <1>p DEF cleanupTransaction
  <2>2. ghost'.left = ghost.left
    BY <2>1 DEF NoGhost
  <2>. QED
    BY <1>2, <2>1, <2>2
<1>13. CASE CloseSocket \/ CertificateFault
  <2>1. /\ UNCHANGED <<asks, served, wire, peer, ghost>>
        /\ pc \in {"closing", "dispatch", "cleanup"} /\ pc' \in {"closed", "died"}
    BY <1>13 DEF CloseSocket, CertificateFault, respVars, histVars
  <2>. QED
    BY <1>x, <2>1
<1>14. CASE Terminated \/ UNCHANGED vars
  BY <1>2, <1>14 DEF Terminated, vars, respVars, histVars
<1>15. CASE fcgiAcceptFails
  BY <1>15, <1>p DEF fcgiAcceptFails
<1>. QED
  BY <1>3, <1>4, <1>5, <1>6, <1>7, <1>8, <1>9, <1>10, <1>11, <1>12, <1>13, <1>14,
     <1>15, <1>r DEF Next, Environment, Callback, Respond, Exchange!Next

(* Over plain HTTP the loop of serverThread implements the exchange: as    *)
(* long as it has read every byte of the requests before as theirs, it     *)
(* accepts only a request that was sent and not answered; it puts one      *)
(* header in front of chunks and end, ends every response before it        *)
(* accepts the next request, and leaves the wire alone otherwise.          *)
THEOREM ExchangeImplemented == Spec /\ config.protocol = "http" => Exchange!Safety
<1>. QED
  BY PlainInit, PlainStep, ExchangeInit, ExchangeStep, PTL DEF Spec, Exchange!Safety
=============================================================================

--------------------------- MODULE ResponseProofs ---------------------------
(***************************************************************************)
(* Proofs about Response, for every size of buffers and every response.    *)
(***************************************************************************)
EXTENDS Response, SequenceTheorems, TLAPS

(* The characters that are sent, under way, in the buffer and still to be  *)
(* taken follow one another.                                               *)
Content ==
  /\ \A i \in 1..Len(body) : body[i] = i
  /\ \A i \in 1..Len(pending) : pending[i] = Len(body) + i
  /\ \A i \in 1..pos : buffer[i] = Len(body) + Len(pending) + i
  /\ Len(body) + Len(pending) + pos + left = written

(* What each place of the program holds. *)
Place ==
  /\ pc \in {"servlet", "ended"} => pos = 0 /\ left = 0 /\ pending = <<>>
  /\ pc \in {"runner", "stream_write"} => pos < size /\ pending = <<>>
  /\ pc = "runner" => left = 0
  /\ pc \in {"putHeader", "send"} =>
       /\ resume = "stream_write" => pos < size
       /\ resume # "stream_write" => pos = 0 /\ left = 0
       /\ resume = "ended" <=> pending = <<>>

(* What putHeader has done so far. *)
HeaderInv ==
  /\ line <= Len(headerList) + 1
  /\ pc = "putHeader" =>
       /\ firstWrite
       /\ p + 2 <= HEADER_SIZE /\ high = p + 1
       /\ \A i \in 1..(line - 1) : i \notin kept => p + headerList[i] + 4 > HEADER_SIZE
  /\ pc = "send" => ~firstWrite
  /\ HeaderEnds
  /\ LeftOutOnlyIfFull

FrameInv ==
  /\ firstWrite <=> wire = <<>>
  /\ Framed

ResponseInv == ResponseTypeOK /\ Content /\ Place /\ HeaderInv /\ FrameInv

-----------------------------------------------------------------------------
(* A function on 1..n is a sequence of length n. *)
LEMMA RowIsSeq ==
  ASSUME NEW S, NEW n \in Nat, NEW f \in [1..n -> S]
  PROVE  f \in Seq(S) /\ Len(f) = n
<1>1. f \in Seq(S)
  BY SeqDef
<1>2. Len(f) \in Nat /\ DOMAIN f = 1..Len(f)
  BY <1>1, LenProperties
<1>3. DOMAIN f = 1..n
  OBVIOUS
<1>. QED
  BY <1>1, <1>2, <1>3

(* The text il_responseWrite is called with. *)
LEMMA TextIsSeq ==
  ASSUME NEW k \in Nat, NEW n \in Nat
  PROVE  /\ Text(k, n) \in Seq(Nat) /\ Len(Text(k, n)) = n
         /\ \A i \in 1..n : Text(k, n)[i] = k + i
<1>1. Text(k, n) \in [1..n -> Nat]
  BY DEF Text
<1>2. \A i \in 1..n : Text(k, n)[i] = k + i
  BY DEF Text
<1>. QED
  BY <1>1, <1>2, RowIsSeq

(* A sequence is empty when its length is 0. *)
LEMMA EmptyIsShort ==
  ASSUME NEW S, NEW s \in Seq(S)
  PROVE  /\ Len(s) \in Nat
         /\ s = <<>> <=> Len(s) = 0
         /\ DOMAIN s = 1..Len(s)
BY EmptySeq, LenProperties

(* A response begins with nothing. *)
LEMMA ResponseInit == Init => ResponseInv
<1>. SUFFICES ASSUME Init PROVE ResponseInv
  OBVIOUS
<1>1. /\ <<>> \in Seq(Nat) /\ Len(<<>>) = 0 /\ DOMAIN <<>> = {}
      /\ <<>> \in Seq(Token)
  BY EmptySeq
<1>2. <<>> \in [1..0 -> Nat]
  BY <1>1
<1>3. ResponseTypeOK
  <2>1. fcgi \in BOOLEAN /\ firstWrite \in BOOLEAN /\ closed \in BOOLEAN
    BY DEF Init
  <2>2. size = 0 /\ buffer = <<>> /\ pos = 0 /\ left = 0 /\ written = 0
    BY DEF Init
  <2>3. buffer \in [1..size -> Nat] /\ pos \in 0..size
    BY <1>2, <2>2
  <2>4. headerList = <<>> /\ kept = {} /\ p = 0 /\ high = 0 /\ line = 1
    BY DEF Init
  <2>5. wire = <<>> /\ body = <<>> /\ pending = <<>>
    BY DEF Init
  <2>6. pc = "servlet" /\ resume = "servlet"
    BY DEF Init
  <2>. QED
    BY <1>1, <2>1, <2>2, <2>3, <2>4, <2>5, <2>6 DEF ResponseTypeOK
<1>4. Content /\ Place
  BY <1>1 DEF Init, Content, Place
<1>5. firstWrite
  BY DEF Init
<1>6. HeaderInv
  BY <1>1, <1>5 DEF Init, HeaderInv, HeaderEnds, LeftOutOnlyIfFull
<1>7. FrameInv
  BY <1>1, <1>5 DEF Init, FrameInv, Framed
<1>. QED
  BY <1>3, <1>4, <1>6, <1>7 DEF ResponseInv

(* Entering putHeader, or going on behind it, keeps what is known of the   *)
(* header.                                                                 *)
LEMMA PrepareStep ==
  ASSUME ResponseInv, prepareResponse, UNCHANGED <<headerList, sentVars>>
  PROVE  /\ pc' \in {"putHeader", "send"}
         /\ p' \in Nat /\ high' \in Nat /\ line' \in Nat \ {0} /\ kept' \subseteq DOMAIN headerList
         /\ closed' \in BOOLEAN
         /\ HeaderInv'
<1>. USE DEF sentVars
<1>1. CASE firstWrite
  <2>1. /\ pc' = "putHeader" /\ p' \in FirstLines /\ high' = p' + 1
        /\ line' = 1 /\ kept' = {} /\ closed' = FALSE
    BY <1>1 DEF prepareResponse
  <2>2. p' \in Nat /\ high' \in Nat /\ p' + 2 <= HEADER_SIZE
    <3>1. p' \in Nat /\ p' + 2 <= HEADER_SIZE
      BY <2>1, ResponseAssumption
    <3>2. PICK h \in Nat : p' = h
      BY <3>1
    <3>3. high' = h + 1
      BY <2>1, <3>2, Zenon
    <3>4. high' \in Nat
      BY <3>3
    <3>. QED
      BY <3>1, <3>4
  <2>3. Len(headerList') \in Nat
    BY LenProperties DEF ResponseInv, ResponseTypeOK
  <2>4. firstWrite'
    BY <1>1
  <2>5. HeaderInv'
    BY <2>1, <2>2, <2>3, <2>4 DEF HeaderInv, HeaderEnds, LeftOutOnlyIfFull
  <2>6. closed' \in BOOLEAN /\ kept' \subseteq DOMAIN headerList
    BY <2>1
  <2>7. line' \in Nat \ {0}
    BY <2>1
  <2>. QED
    BY <2>1, <2>2, <2>5, <2>6, <2>7
<1>2. CASE ~firstWrite
  <2>1. pc' = "send" /\ UNCHANGED <<p, high, line, kept, closed>>
    BY <1>2 DEF prepareResponse
  <2>2. ~firstWrite' /\ UNCHANGED headerList
    BY <1>2
  <2>3. HeaderEnds' /\ LeftOutOnlyIfFull'
    BY <1>2, <2>1, <2>2, Zenon DEF ResponseInv, HeaderInv, HeaderEnds, LeftOutOnlyIfFull
  <2>4. HeaderInv'
    BY <2>1, <2>2, <2>3 DEF ResponseInv, HeaderInv
  <2>5. p' \in Nat /\ high' \in Nat /\ line' \in Nat \ {0} /\ kept' \subseteq DOMAIN headerList
    BY <2>1 DEF ResponseInv, ResponseTypeOK
  <2>6. closed' \in BOOLEAN
    BY <2>1 DEF ResponseInv, ResponseTypeOK
  <2>. QED
    BY <2>1, <2>4, <2>5, <2>6
<1>. QED
  BY <1>1, <1>2 DEF ResponseInv, ResponseTypeOK

(* putChunk takes its text over and returns, or goes to the header first.  *)
LEMMA PutStep ==
  ASSUME NEW text \in Seq(Nat), NEW caller \in {"servlet", "stream_write"},
         ResponseInv, putChunk(text, caller), UNCHANGED <<headerList, sentVars>>,
         pending = <<>>, pc \notin {"putHeader", "send"}
  PROVE  /\ pending' = text
         /\ text = <<>> => pc' = caller
         /\ text # <<>> => pc' \in {"putHeader", "send"} /\ resume' = caller
         /\ resume' \in {"servlet", "stream_write", "ended"}
         /\ p' \in Nat /\ high' \in Nat /\ line' \in Nat \ {0} /\ kept' \subseteq DOMAIN headerList
         /\ closed' \in BOOLEAN
         /\ HeaderInv'
<1>1. CASE text = <<>>
  <2>1. pc' = caller /\ UNCHANGED <<pending, resume, p, high, line, kept, closed>>
    BY <1>1 DEF putChunk, putVars
  <2>2. HeaderInv'
    BY <2>1 DEF sentVars, ResponseInv, HeaderInv, HeaderEnds, LeftOutOnlyIfFull
  <2>. QED
    BY <1>1, <2>1, <2>2 DEF ResponseInv, ResponseTypeOK
<1>2. CASE text # <<>>
  <2>1. pending' = text /\ resume' = caller /\ prepareResponse
    BY <1>2 DEF putChunk
  <2>. QED
    BY <1>2, <2>1, PrepareStep
<1>. QED
  BY <1>1, <1>2

(* A step that writes nothing to the socket keeps the framing. *)
LEMMA FrameKept ==
  ASSUME ResponseInv, UNCHANGED sentVars, pc # "ended" \/ pc' = "ended"
  PROVE  FrameInv'
BY DEF ResponseInv, FrameInv, Framed, sentVars

(* Every turn of putHeader and its end keep the invariant. *)
LEMMA HeaderStep == ResponseInv /\ putHeader => ResponseInv'
<1>. SUFFICES ASSUME ResponseInv, putHeader PROVE ResponseInv'
  OBVIOUS
<1>. USE DEF sentVars, putVars, streamVars
<1>1. /\ headerList \in Seq(Nat) /\ Len(headerList) \in Nat
      /\ DOMAIN headerList = 1..Len(headerList)
      /\ p \in Nat /\ line \in Nat \ {0} /\ kept \subseteq DOMAIN headerList
      /\ line <= Len(headerList) + 1
  BY EmptyIsShort DEF ResponseInv, ResponseTypeOK, HeaderInv
<1>2. pc = "putHeader" /\ firstWrite /\ p + 2 <= HEADER_SIZE /\ high = p + 1
  BY DEF putHeader, putHeaderLine, putHeaderEnds, ResponseInv, HeaderInv
<1>3. CASE putHeaderLine
  <2>1. line \in 1..Len(headerList) /\ headerList[line] \in Nat
    BY <1>1, <1>3, ElementOfSeq DEF putHeaderLine
  <2>2. /\ line' = line + 1
        /\ UNCHANGED <<fcgi, pc, headerList, closed, size, buffer, pos, left, pending,
                       resume, firstWrite, wire, body, written>>
    BY <1>3 DEF putHeaderLine
  <2>3. /\ p' \in Nat /\ high' = p' + 1 /\ p <= p' /\ p' + 2 <= HEADER_SIZE
        /\ kept \subseteq kept' /\ kept' \subseteq 1..Len(headerList)
        /\ line \notin kept' => p' + headerList[line] + 4 > HEADER_SIZE
    <3>1. PICK n \in Nat : n = headerList[line]
      BY <2>1
    <3>2. CASE p + n + 4 <= HEADER_SIZE
      <4>1. /\ p' = p + (n + 2) /\ high' = p + (n + 2) + 1
            /\ kept' = kept \cup {line}
        BY <1>3, <3>1, <3>2, Zenon DEF putHeaderLine, Fits, sprintf
      <4>2. PICK h \in Nat : h = p + (n + 2)
        BY <1>1, <3>1
      <4>3. p' = h /\ high' = h + 1
        BY <4>1, <4>2, Zenon
      <4>4. p <= h /\ h + 2 <= HEADER_SIZE
        <5>1. p \in Nat /\ HEADER_SIZE \in Nat
          BY <1>1, ResponseAssumption, Zenon
        <5>. QED
          BY <3>2, <4>2, <5>1
      <4>. QED
        BY <1>1, <2>1, <4>1, <4>2, <4>3, <4>4
    <3>3. CASE ~(p + n + 4 <= HEADER_SIZE)
      <4>1. UNCHANGED <<p, high, kept>>
        BY <1>3, <3>1, <3>3 DEF putHeaderLine, Fits
      <4>. QED
        BY <1>1, <1>2, <2>1, <3>1, <3>3, <4>1, ResponseAssumption
    <3>. QED
      BY <3>2, <3>3
  <2>4. ResponseTypeOK'
    <3>1. high' \in Nat
      <4>1. PICK h \in Nat : p' = h
        BY <2>3
      <4>2. high' = h + 1
        BY <2>3, <4>1, Zenon
      <4>. QED
        BY <4>2
    <3>2. /\ p' \in Nat /\ kept' \subseteq DOMAIN headerList
          /\ line' \in Nat \ {0}
      <4>1. line' = line + 1
        BY <2>2, Zenon
      <4>2. p' \in Nat
        BY <2>3, Zenon
      <4>3. kept' \subseteq DOMAIN headerList
        BY <1>1, <2>3, Zenon
      <4>. QED
        BY <1>1, <4>1, <4>2, <4>3
    <3>. QED
      BY <2>2, <3>1, <3>2 DEF ResponseInv, ResponseTypeOK
  <2>5. Content' /\ Place'
    BY <2>2 DEF ResponseInv, Content, Place
  <2>6. FrameInv'
    BY <1>2, <2>2, FrameKept
  <2>7. firstWrite' /\ pc' = "putHeader"
    BY <1>2, <2>2
  <2>8. \A i \in 1..(line' - 1) : i \notin kept' => p' + headerList'[i] + 4 > HEADER_SIZE
    <3>1. SUFFICES ASSUME NEW i \in 1..line, i \notin kept'
                   PROVE  p' + headerList[i] + 4 > HEADER_SIZE
      BY <1>1, <2>2
    <3>2. CASE i = line
      BY <2>3, <3>1, <3>2
    <3>3. CASE i # line
      <4>1. i \in 1..(line - 1) /\ i \notin kept /\ headerList[i] \in Nat
        BY <1>1, <2>1, <2>3, <3>1, <3>3, ElementOfSeq
      <4>2. p + headerList[i] + 4 > HEADER_SIZE
        BY <1>2, <4>1 DEF ResponseInv, HeaderInv
      <4>. QED
        BY SMTT(30), <1>1, <2>3, <4>1, <4>2, ResponseAssumption
    <3>. QED
      BY <3>2, <3>3
  <2>9. HeaderInv'
    BY <1>1, <2>1, <2>2, <2>3, <2>7, <2>8 DEF HeaderInv, HeaderEnds, LeftOutOnlyIfFull
  <2>. QED
    BY <2>4, <2>5, <2>6, <2>9 DEF ResponseInv
<1>4. CASE putHeaderEnds
  <2>1. /\ p' = p + 2 /\ high' = p + 3 /\ closed' /\ ~firstWrite' /\ pc' = "send"
        /\ wire' = Append(wire, [kind |-> "header", len |-> p'])
        /\ UNCHANGED <<fcgi, headerList, line, kept, size, buffer, pos, left, pending,
                       resume, body, written>>
    BY <1>1, <1>2, <1>4 DEF putHeaderEnds, sprintf
  <2>2. wire = <<>>
    BY <1>2 DEF ResponseInv, FrameInv
  <2>3. /\ wire' \in Seq(Token)
        /\ Len(wire') = 1 /\ wire'[1].kind = "header"
    <3>1. p' \in Nat
      BY <1>1, <2>1
    <3>2. [kind |-> "header", len |-> p'] \in Token
      BY <3>1 DEF Token
    <3>. QED
      BY <2>1, <2>2, <3>2, AppendProperties, EmptySeq
  <2>4. ResponseTypeOK'
    <3>1. firstWrite' \in BOOLEAN /\ closed' \in BOOLEAN
      BY <1>2, <1>4 DEF putHeaderEnds
    <3>2. p' \in Nat /\ high' \in Nat /\ pc' = "send"
      BY <1>1, <2>1
    <3>. QED
      BY <1>1, <2>1, <2>3, <3>1, <3>2 DEF ResponseInv, ResponseTypeOK
  <2>5. Content' /\ Place'
    BY <1>2, <2>1 DEF ResponseInv, Content, Place
  <2>6. FrameInv'
    <3>0. wire' \in Seq(Token) /\ Len(wire') = 1
      BY <2>3
    <3>1. DOMAIN wire' = 1..1 /\ wire' # <<>>
      <4>1. DOMAIN wire' = 1..Len(wire')
        BY <3>0, EmptyIsShort
      <4>2. wire' # <<>>
        BY <3>0, EmptyIsShort
      <4>. QED
        BY <3>0, <4>1, <4>2
    <3>2. Framed'
      <4>1. SUFFICES ASSUME NEW i \in 1..1
                     PROVE /\ wire'[i].kind = "header" <=> i = 1
                           /\ wire'[i].kind \notin {"chunk", "end"}
        BY <3>1 DEF Framed
      <4>2. i = 1
        OBVIOUS
      <4>. QED
        BY <2>3, <4>2
    <3>. QED
      BY <2>1, <3>1, <3>2 DEF FrameInv
  <2>7. HeaderEnds' /\ LeftOutOnlyIfFull'
    <3>1. p' <= HEADER_SIZE
      BY <1>1, <1>2, <2>1, ResponseAssumption
    <3>2. \A i \in 1..(line - 1) : i \notin kept => p + headerList[i] + 4 > HEADER_SIZE
      BY <1>2 DEF ResponseInv, HeaderInv
    <3>3. \A i \in 1..(line - 1) : headerList[i] \in Nat
      BY <1>1, ElementOfSeq
    <3>4. \A i \in 1..(line - 1) : i \notin kept => p' + headerList[i] + 2 > HEADER_SIZE
      <4>1. p' = p + 2
        BY <2>1
      <4>2. SUFFICES ASSUME NEW i \in 1..(line - 1), i \notin kept
                     PROVE  p' + headerList[i] + 2 > HEADER_SIZE
        OBVIOUS
      <4>3. PICK n \in Nat : n = headerList[i]
        BY <3>3
      <4>4. p + n + 4 > HEADER_SIZE
        BY <3>2, <4>2, <4>3
      <4>. QED
        BY <1>1, <4>1, <4>3, <4>4, ResponseAssumption
    <3>5. HeaderEnds'
      <4>1. high' <= IF p' = HEADER_SIZE THEN HEADER_SIZE + 1 ELSE HEADER_SIZE
        BY <1>1, <2>1, <3>1, ResponseAssumption
      <4>. QED
        BY <2>1, <3>1, <4>1, Zenon DEF HeaderEnds
    <3>6. LeftOutOnlyIfFull'
      BY <2>1, <3>4 DEF LeftOutOnlyIfFull
    <3>. QED
      BY <3>5, <3>6
  <2>8. HeaderInv'
    BY <1>1, <2>1, <2>7 DEF HeaderInv
  <2>. QED
    BY <2>4, <2>5, <2>6, <2>8 DEF ResponseInv
<1>. QED
  BY <1>3, <1>4 DEF putHeader

(* Writing to the socket keeps the invariant. *)
LEMMA SendStep == ResponseInv /\ send => ResponseInv'
<1>. SUFFICES ASSUME ResponseInv, send PROVE ResponseInv'
  OBVIOUS
<1>1. /\ body \in Seq(Nat) /\ pending \in Seq(Nat) /\ wire \in Seq(Token)
      /\ Len(body) \in Nat /\ Len(pending) \in Nat /\ Len(wire) \in Nat
      /\ DOMAIN wire = 1..Len(wire)
  BY EmptyIsShort DEF ResponseInv, ResponseTypeOK
<1>2. /\ pc = "send" /\ pc' = resume /\ pending' = <<>> /\ body' = body \o pending
      /\ resume \in {"servlet", "stream_write", "ended"}
      /\ UNCHANGED <<fcgi, headerList, p, high, line, kept, closed, size, buffer, pos, left,
                     resume, firstWrite, written>>
  BY DEF send, headerVars, streamVars, ResponseInv, ResponseTypeOK
<1>3. /\ body' \in Seq(Nat) /\ Len(body') = Len(body) + Len(pending)
      /\ \A i \in 1..Len(body') : body'[i] = i
  <2>1. /\ body' \in Seq(Nat) /\ Len(body') = Len(body) + Len(pending)
        /\ \A i \in 1..(Len(body) + Len(pending)) :
             body'[i] = IF i <= Len(body) THEN body[i] ELSE pending[i - Len(body)]
    BY <1>1, <1>2, ConcatProperties
  <2>2. \A i \in 1..Len(body) : body[i] = i
    BY DEF ResponseInv, Content
  <2>3. \A i \in 1..Len(pending) : pending[i] = Len(body) + i
    BY DEF ResponseInv, Content
  <2>4. ASSUME NEW i \in 1..Len(body') PROVE body'[i] = i
    <3>1. PICK k \in Nat, m \in Nat : k = Len(body) /\ m = Len(pending)
      BY <1>1
    <3>2. i \in 1..(k + m)
      BY <2>1, <3>1
    <3>3. body'[i] = IF i <= k THEN body[i] ELSE pending[i - k]
      BY <2>1, <3>1, <3>2
    <3>4. CASE i <= k
      BY <2>2, <3>1, <3>2, <3>3, <3>4
    <3>5. CASE i > k
      <4>1. i - k \in 1..m /\ k + (i - k) = i
        BY <3>2, <3>5
      <4>2. pending[i - k] = k + (i - k)
        BY <2>3, <3>1, <4>1
      <4>. QED
        BY <3>2, <3>3, <3>5, <4>1, <4>2
    <3>. QED
      BY <3>2, <3>4, <3>5
  <2>. QED
    BY <2>1, <2>4
<1>4. PICK t \in Token : /\ wire' = Append(wire, t)
                         /\ t.kind = IF resume = "ended" THEN "end" ELSE "chunk"
                         /\ t.kind = "chunk" => t.len = Len(pending)
  <2>1. CASE resume = "ended"
    <3>1. [kind |-> "end", len |-> 0] \in Token
      BY DEF Token
    <3>. QED
      BY <2>1, <3>1 DEF send
  <2>2. CASE resume # "ended"
    <3>1. [kind |-> "chunk", len |-> Len(pending)] \in Token
      BY <1>1 DEF Token
    <3>. QED
      BY <2>2, <3>1 DEF send
  <2>. QED
    BY <2>1, <2>2
<1>5. /\ wire' \in Seq(Token) /\ Len(wire') = Len(wire) + 1
      /\ DOMAIN wire' = 1..(Len(wire) + 1)
      /\ \A i \in 1..Len(wire) : wire'[i] = wire[i]
      /\ wire'[Len(wire) + 1] = t
  BY <1>1, <1>4, AppendProperties, EmptyIsShort
<1>6. pending' \in Seq(Nat) /\ Len(pending') = 0
  BY <1>2, EmptySeq
<1>7. ResponseTypeOK'
  BY <1>2, <1>3, <1>5, <1>6 DEF ResponseInv, ResponseTypeOK
<1>8. /\ pos \in Nat /\ left \in Nat /\ size \in Nat /\ written \in Nat
      /\ \A i \in 1..pos : buffer[i] = Len(body) + Len(pending) + i
      /\ Len(body) + Len(pending) + pos + left = written
  BY DEF ResponseInv, ResponseTypeOK, Content
<1>9. Content'
  BY <1>1, <1>2, <1>3, <1>6, <1>8 DEF Content
<1>10. Place'
  BY <1>2 DEF ResponseInv, Place
<1>11. HeaderInv'
  <2>1. UNCHANGED <<headerList, p, high, line, kept, closed, firstWrite>>
    BY <1>2
  <2>2. HeaderEnds' /\ LeftOutOnlyIfFull'
    BY <2>1, Zenon DEF ResponseInv, HeaderInv, HeaderEnds, LeftOutOnlyIfFull
  <2>. QED
    BY <1>2, <2>1, <2>2 DEF ResponseInv, HeaderInv
<1>12. FrameInv'
  <2>1. ~firstWrite /\ ~firstWrite'
    BY <1>2 DEF ResponseInv, HeaderInv
  <2>2. wire # <<>> /\ Len(wire) > 0
    BY <1>1, <2>1, EmptyIsShort DEF ResponseInv, FrameInv
  <2>3. \A i \in 1..Len(wire) : /\ wire[i].kind = "header" <=> i = 1
                                /\ wire[i].kind = "chunk" => wire[i].len > 0
                                /\ wire[i].kind # "end"
    BY <1>1, <1>2 DEF ResponseInv, FrameInv, Framed
  <2>4. t.kind = "chunk" => t.len > 0
    BY <1>1, <1>2, <1>4, EmptyIsShort DEF ResponseInv, Place
  <2>5. t.kind # "header" /\ (t.kind = "end" => pc' = "ended")
    BY <1>2, <1>4
  <2>6. ASSUME NEW i \in 1..(Len(wire) + 1)
        PROVE  /\ wire'[i].kind = "header" <=> i = 1
               /\ wire'[i].kind = "chunk" => wire'[i].len > 0
               /\ wire'[i].kind = "end" => i = Len(wire') /\ pc' = "ended"
    <3>0. i \in 1..Len(wire) \/ i = Len(wire) + 1
      BY <1>1
    <3>1. CASE i \in 1..Len(wire)
      BY <1>5, <2>3, <3>1
    <3>2. CASE i = Len(wire) + 1
      BY <1>1, <1>5, <2>2, <2>4, <2>5, <3>2
    <3>. QED
      BY <3>0, <3>1, <3>2
  <2>7. Framed'
    BY <1>5, <2>6 DEF Framed
  <2>8. wire' # <<>>
    BY <1>1, <1>5, EmptyIsShort
  <2>. QED
    BY <2>1, <2>7, <2>8 DEF FrameInv
<1>. QED
  BY <1>7, <1>9, <1>10, <1>11, <1>12 DEF ResponseInv

(* A turn of stream_write continues the text in the buffer. *)
LEMMA TurnStep == ResponseInv /\ stream_writeTurn => ResponseInv'
<1>. SUFFICES ASSUME ResponseInv, stream_writeTurn PROVE ResponseInv'
  OBVIOUS
<1>1. /\ pc = "stream_write" /\ left > 0
      /\ buffer' = Copied(Cpylen) /\ left' = left - Cpylen
      /\ UNCHANGED <<fcgi, headerList, size, sentVars, written>>
  BY DEF stream_writeTurn
<1>2. /\ size \in Nat /\ pos \in Nat /\ pos < size /\ left \in Nat /\ written \in Nat
      /\ left <= written /\ pending = <<>> /\ Len(pending) = 0
      /\ body \in Seq(Nat) /\ Len(body) \in Nat /\ buffer \in [1..size -> Nat]
  BY <1>1, EmptyIsShort DEF ResponseInv, ResponseTypeOK, Place
<1>3. /\ Cpylen \in Nat \ {0} /\ Cpylen <= left /\ pos + Cpylen <= size
  BY <1>1, <1>2 DEF Cpylen
<1>4. PICK n \in Nat \ {0} : n = Cpylen
  BY <1>3
<1>5. /\ Len(body) + pos + left = written
      /\ \A i \in 1..pos : buffer[i] = Len(body) + i
  BY <1>2 DEF ResponseInv, Content
<1>6. \A i \in 1..size : Copied(n)[i] = IF i \in pos + 1 .. pos + n
                                        THEN written - left + (i - pos) ELSE buffer[i]
  BY DEF Copied
<1>7. \A i \in 1..(pos + n) : Copied(n)[i] = Len(body) + i
  <2>1. SUFFICES ASSUME NEW i \in 1..(pos + n) PROVE Copied(n)[i] = Len(body) + i
    OBVIOUS
  <2>2. i \in 1..size
    BY <1>2, <1>3, <1>4
  <2>3. CASE i <= pos
    BY <1>2, <1>5, <1>6, <2>2, <2>3
  <2>4. CASE i > pos
    <3>1. Copied(n)[i] = written - left + (i - pos)
      BY <1>2, <1>6, <2>2, <2>4
    <3>. QED
      BY SMTT(30), <1>2, <1>5, <3>1
  <2>. QED
    BY <1>2, <2>3, <2>4
<1>8. Copied(n) \in [1..size -> Nat]
  <2>1. ASSUME NEW i \in 1..size PROVE Copied(n)[i] \in Nat
    <3>1. CASE i \in pos + 1 .. pos + n
      BY <1>2, <1>4, <1>7, <3>1
    <3>2. CASE i \notin pos + 1 .. pos + n
      BY <1>2, <1>6, <3>2
    <3>. QED
      BY <3>1, <3>2
  <2>2. DOMAIN Copied(n) = 1..size
    BY DEF Copied
  <2>. QED
    BY <2>1, <2>2 DEF Copied
<1>9. Copied(n) \in Seq(Nat) /\ Len(Copied(n)) = size
  BY <1>2, <1>8, RowIsSeq
<1>10. left' \in Nat /\ left' <= written /\ left' = left - n
  BY <1>1, <1>2, <1>3, <1>4
<1>11. CASE pos + n = size
  <2>1. pos' = 0 /\ putChunk(Copied(n), "stream_write")
    BY <1>4, <1>11 DEF stream_writeTurn
  <2>2. Copied(n) # <<>>
    BY <1>2, <1>9, EmptySeq
  <2>3. /\ pending' = Copied(n) /\ pc' \in {"putHeader", "send"}
        /\ resume' = "stream_write"
        /\ p' \in Nat /\ high' \in Nat /\ line' \in Nat \ {0} /\ kept' \subseteq DOMAIN headerList
        /\ closed' \in BOOLEAN /\ HeaderInv'
    BY <1>1, <1>2, <1>9, <2>1, <2>2, PutStep
  <2>4. ResponseTypeOK'
    BY <1>1, <1>2, <1>4, <1>8, <1>9, <1>10, <2>1, <2>3
    DEF ResponseInv, ResponseTypeOK, sentVars
  <2>5. Content'
    <3>1. body' = body /\ written' = written /\ Len(pending') = size
      BY <1>1, <1>9, <2>3 DEF sentVars
    <3>2. \A i \in 1..Len(body) : body[i] = i
      BY DEF ResponseInv, Content
    <3>3. \A i \in 1..Len(pending') : pending'[i] = Len(body) + i
      BY <1>7, <1>11, <2>3, <3>1
    <3>4. Len(body) + size + 0 + left' = written
      BY <1>2, <1>5, <1>10, <1>11
    <3>. QED
      BY <2>1, <3>1, <3>2, <3>3, <3>4 DEF Content
  <2>6. Place'
    BY <1>1, <1>2, <2>1, <2>2, <2>3 DEF Place
  <2>7. FrameInv'
    BY <1>1, FrameKept
  <2>. QED
    BY <2>3, <2>4, <2>5, <2>6, <2>7 DEF ResponseInv
<1>12. CASE pos + n # size
  <2>1. pos' = pos + n /\ UNCHANGED <<pc, pending, resume, p, high, line, kept, closed>>
    BY <1>4, <1>12 DEF stream_writeTurn, putVars
  <2>2. pos' \in 0..size /\ pos' < size
    BY <1>2, <1>3, <1>4, <1>12, <2>1
  <2>3. ResponseTypeOK'
    BY <1>1, <1>4, <1>8, <1>10, <2>1, <2>2 DEF ResponseInv, ResponseTypeOK, sentVars
  <2>4. Content'
    <3>1. body' = body /\ written' = written /\ Len(pending') = 0
      BY <1>1, <1>2, <2>1 DEF sentVars
    <3>2. \A i \in 1..Len(body) : body[i] = i
      BY DEF ResponseInv, Content
    <3>3. \A i \in 1..pos' : buffer'[i] = Len(body) + i
      BY <1>1, <1>4, <1>7, <2>1
    <3>4. Len(body) + 0 + pos' + left' = written
      BY SMTT(30), <1>2, <1>5, <1>10, <2>1
    <3>. QED
      BY <1>2, <3>1, <3>2, <3>3, <3>4 DEF Content
  <2>5. Place'
    BY <1>1, <1>2, <2>1, <2>2 DEF Place
  <2>6. HeaderInv'
    <3>1. UNCHANGED <<headerList, firstWrite>>
      BY <1>1 DEF sentVars
    <3>. QED
      BY <2>1, <3>1, Zenon DEF ResponseInv, HeaderInv, HeaderEnds, LeftOutOnlyIfFull
  <2>7. FrameInv'
    BY <1>1, FrameKept
  <2>. QED
    BY <2>3, <2>4, <2>5, <2>6, <2>7 DEF ResponseInv
<1>. QED
  BY <1>11, <1>12

(* What a servlet, or the runner of a stream, calls keeps the invariant.   *)
LEMMA ServletStep == ResponseInv /\ Servlet => ResponseInv'
<1>. SUFFICES ASSUME ResponseInv, Servlet PROVE ResponseInv'
  OBVIOUS
<1>1. /\ pending \in Seq(Nat) /\ body \in Seq(Nat) /\ headerList \in Seq(Nat)
      /\ Len(pending) \in Nat /\ Len(body) \in Nat /\ Len(headerList) \in Nat
      /\ DOMAIN headerList = 1..Len(headerList)
      /\ size \in Nat /\ pos \in 0..size /\ left \in Nat /\ written \in Nat
      /\ buffer \in [1..size -> Nat]
  BY EmptyIsShort DEF ResponseInv, ResponseTypeOK
<1>2. ASSUME NEW n \in HeaderLengths, il_addHeader(n) PROVE ResponseInv'
  <2>1. /\ headerList' = Append(headerList, n) /\ n \in Nat
        /\ UNCHANGED <<fcgi, pc, p, high, line, kept, closed, size, buffer, pos, left, pending,
                       resume, firstWrite, wire, body, written>>
        /\ pc = "servlet"
    BY <1>2, ResponseAssumption DEF il_addHeader, streamVars, putVars, sentVars
  <2>2. /\ headerList' \in Seq(Nat) /\ Len(headerList') = Len(headerList) + 1
        /\ \A i \in 1..Len(headerList) : headerList'[i] = headerList[i]
    BY <1>1, <2>1, AppendProperties
  <2>3. DOMAIN headerList' = 1..(Len(headerList) + 1)
    BY <2>2, EmptyIsShort
  <2>4. ResponseTypeOK'
    <3>1. kept' \subseteq DOMAIN headerList'
      BY <1>1, <2>1, <2>3 DEF ResponseInv, ResponseTypeOK
    <3>. QED
      BY <2>1, <2>2, <3>1 DEF ResponseInv, ResponseTypeOK
  <2>5. Content' /\ Place'
    BY <2>1 DEF ResponseInv, Content, Place
  <2>6. HeaderInv'
    <3>1. line \in Nat \ {0} /\ line <= Len(headerList) + 1
      BY DEF ResponseInv, ResponseTypeOK, HeaderInv
    <3>2. \A i \in 1..(line - 1) : headerList'[i] = headerList[i]
      BY <1>1, <2>2, <3>1
    <3>3. HeaderEnds'
      BY <2>1, Zenon DEF ResponseInv, HeaderInv, HeaderEnds
    <3>4. LeftOutOnlyIfFull'
      BY <2>1, <3>2, Zenon DEF ResponseInv, HeaderInv, LeftOutOnlyIfFull
    <3>. QED
      BY <1>1, <2>1, <2>2, <3>1, <3>3, <3>4 DEF HeaderInv
  <2>7. FrameInv'
    BY <2>1, FrameKept DEF sentVars
  <2>. QED
    BY <2>4, <2>5, <2>6, <2>7 DEF ResponseInv
<1>3. ASSUME NEW n \in 0..MaxBody, il_responseWrite(n), n \in Nat PROVE ResponseInv'
  <2>1. /\ pc = "servlet" /\ putChunk(Text(written, n), "servlet")
        /\ written' = written + n
        /\ UNCHANGED <<fcgi, headerList, size, buffer, pos, left, sentVars>>
    BY <1>3 DEF il_responseWrite, streamVars
  <2>2. /\ Text(written, n) \in Seq(Nat) /\ Len(Text(written, n)) = n
        /\ \A i \in 1..n : Text(written, n)[i] = written + i
    BY <1>1, <1>3, TextIsSeq
  <2>3. pending = <<>> /\ pos = 0 /\ left = 0
    BY <2>1 DEF ResponseInv, Place
  <2>4. /\ pending' = Text(written, n)
        /\ Text(written, n) = <<>> => pc' = "servlet"
        /\ Text(written, n) # <<>> => pc' \in {"putHeader", "send"} /\ resume' = "servlet"
        /\ resume' \in {"servlet", "stream_write", "ended"}
        /\ p' \in Nat /\ high' \in Nat /\ line' \in Nat \ {0} /\ kept' \subseteq DOMAIN headerList
        /\ closed' \in BOOLEAN /\ HeaderInv'
    BY <2>1, <2>2, <2>3, PutStep
  <2>5. ResponseTypeOK'
    BY <1>1, <1>3, <2>1, <2>2, <2>3, <2>4 DEF ResponseInv, ResponseTypeOK, sentVars
  <2>6. Content'
    <3>1. body' = body /\ Len(pending') = n /\ pos' = 0 /\ left' = 0
      BY <2>1, <2>2, <2>3, <2>4 DEF sentVars
    <3>2. Len(body) = written /\ \A i \in 1..Len(body) : body[i] = i
      BY <1>1, <2>3, EmptySeq DEF ResponseInv, Content
    <3>3. \A i \in 1..Len(pending') : pending'[i] = Len(body) + i
      BY <2>2, <2>4, <3>1, <3>2
    <3>. QED
      BY <1>1, <1>3, <2>1, <3>1, <3>2, <3>3 DEF Content
  <2>7. Place'
    BY <2>1, <2>3, <2>4 DEF Place
  <2>8. FrameInv'
    BY <2>1, FrameKept
  <2>. QED
    BY <2>4, <2>5, <2>6, <2>7, <2>8 DEF ResponseInv
<1>4. ASSUME NEW n \in 0..MaxBody, stream_write(n), n \in Nat PROVE ResponseInv'
  <2>1. /\ pc = "runner" /\ pc' = "stream_write" /\ written' = written + n /\ left' = n
        /\ UNCHANGED <<fcgi, headerList, p, high, line, kept, closed, size, buffer, pos, pending,
                       resume, sentVars>>
    BY <1>4 DEF stream_write, headerVars, putVars
  <2>2. pending = <<>> /\ pos < size /\ left = 0
    BY <2>1 DEF ResponseInv, Place
  <2>3. ResponseTypeOK'
    BY <1>1, <1>4, <2>1 DEF ResponseInv, ResponseTypeOK, sentVars
  <2>4. Content'
    <3>1. body' = body /\ pending' = pending /\ pos' = pos /\ buffer' = buffer
      BY <2>1 DEF sentVars
    <3>2. Len(body) + Len(pending) + pos + left = written
      BY <1>1 DEF ResponseInv, Content
    <3>3. Len(body') + Len(pending') + pos' + left' = written'
      <4>1. Len(body) \in Nat /\ Len(pending) \in Nat /\ pos \in Nat
        BY <1>1 DEF ResponseTypeOK
      <4>2. Len(body') = Len(body) /\ Len(pending') = Len(pending)
        BY <3>1
      <4>. QED
        BY <1>4, <2>1, <2>2, <3>1, <3>2, <4>1, <4>2
    <3>. QED
      BY <1>1, <3>1, <3>3 DEF ResponseInv, Content
  <2>5. Place'
    BY <2>1, <2>2 DEF Place
  <2>6. HeaderInv'
    <3>1. HeaderEnds' /\ LeftOutOnlyIfFull'
      BY <2>1, Zenon DEF ResponseInv, HeaderInv, HeaderEnds, LeftOutOnlyIfFull, sentVars
    <3>. QED
      BY <2>1, <3>1 DEF ResponseInv, HeaderInv
  <2>7. FrameInv'
    BY <2>1, FrameKept
  <2>. QED
    BY <2>3, <2>4, <2>5, <2>6, <2>7 DEF ResponseInv
<1>5. ASSUME NEW n \in StreamSizes, il_responseWriteStream(n) PROVE ResponseInv'
  <2>1. /\ pc = "servlet" /\ pc' = "runner" /\ size' = n /\ n \in Nat \ {0}
        /\ buffer' = [i \in 1..n |-> 0] /\ pos' = 0 /\ left' = 0
        /\ UNCHANGED <<fcgi, headerList, p, high, line, kept, closed, pending, resume, sentVars,
                       written>>
    BY <1>5, ResponseAssumption DEF il_responseWriteStream, headerVars, putVars
  <2>2. pending = <<>> /\ pos = 0 /\ left = 0
    BY <2>1 DEF ResponseInv, Place
  <2>3. buffer' \in [1..size' -> Nat]
    BY <2>1
  <2>4. ResponseTypeOK'
    BY <1>1, <2>1, <2>3 DEF ResponseInv, ResponseTypeOK, sentVars
  <2>5. Content'
    BY <1>1, <2>1, <2>2 DEF ResponseInv, Content, sentVars
  <2>6. Place'
    BY <2>1, <2>2 DEF Place
  <2>7. HeaderInv'
    <3>1. HeaderEnds' /\ LeftOutOnlyIfFull'
      BY <2>1, Zenon DEF ResponseInv, HeaderInv, HeaderEnds, LeftOutOnlyIfFull, sentVars
    <3>. QED
      BY <2>1, <3>1 DEF ResponseInv, HeaderInv
  <2>8. FrameInv'
    BY <2>1, FrameKept
  <2>. QED
    BY <2>4, <2>5, <2>6, <2>7, <2>8 DEF ResponseInv
<1>6. CASE stream_delete
  <2>1. /\ pc = "runner" /\ putChunk(SubSeq(buffer, 1, pos), "servlet") /\ pos' = 0
        /\ UNCHANGED <<fcgi, headerList, size, buffer, left, sentVars, written>>
    BY <1>6 DEF stream_delete
  <2>2. pending = <<>> /\ left = 0 /\ pos < size
    BY <2>1 DEF ResponseInv, Place
  <2>3. PICK text : text = SubSeq(buffer, 1, pos)
    OBVIOUS
  <2>4. text \in Seq(Nat) /\ Len(text) = pos /\ \A i \in 1..pos : text[i] = buffer[i]
    <3>1. \A i \in 1..pos : buffer[i] \in Nat
      BY <1>1
    <3>2. /\ text \in Seq(Nat) /\ Len(text) = IF 1 <= pos THEN pos - 1 + 1 ELSE 0
          /\ \A i \in 1..(pos - 1 + 1) : text[i] = buffer[1 + i - 1]
      BY <1>1, <2>3, <3>1, SubSeqProperties
    <3>. QED
      BY <1>1, <3>2
  <2>5. /\ pending' = text
        /\ text = <<>> => pc' = "servlet"
        /\ text # <<>> => pc' \in {"putHeader", "send"} /\ resume' = "servlet"
        /\ resume' \in {"servlet", "stream_write", "ended"}
        /\ p' \in Nat /\ high' \in Nat /\ line' \in Nat \ {0} /\ kept' \subseteq DOMAIN headerList
        /\ closed' \in BOOLEAN /\ HeaderInv'
    BY <2>1, <2>2, <2>3, <2>4, PutStep
  <2>6. ResponseTypeOK'
    BY <1>1, <2>1, <2>4, <2>5 DEF ResponseInv, ResponseTypeOK, sentVars
  <2>7. Content'
    <3>1. body' = body /\ Len(pending') = pos /\ pos' = 0 /\ left' = 0
      BY <2>1, <2>2, <2>4, <2>5 DEF sentVars
    <3>2. /\ Len(body) + pos = written /\ \A i \in 1..Len(body) : body[i] = i
          /\ \A i \in 1..pos : buffer[i] = Len(body) + i
      BY <1>1, <2>2, EmptySeq DEF ResponseInv, Content
    <3>3. \A i \in 1..Len(pending') : pending'[i] = Len(body) + i
      BY <2>4, <2>5, <3>1, <3>2
    <3>. QED
      BY <1>1, <2>1, <3>1, <3>2, <3>3 DEF Content
  <2>8. Place'
    BY <2>1, <2>2, <2>5 DEF Place
  <2>9. FrameInv'
    BY <2>1, FrameKept
  <2>. QED
    BY <2>5, <2>6, <2>7, <2>8, <2>9 DEF ResponseInv
<1>7. CASE putChunkEnd
  <2>1. /\ pc = "servlet"
        /\ UNCHANGED <<fcgi, headerList, size, buffer, pos, left, pending, sentVars, written>>
    BY <1>7 DEF putChunkEnd, streamVars
  <2>2. pending = <<>> /\ pos = 0 /\ left = 0
    BY <2>1 DEF ResponseInv, Place
  <2>3. /\ p' \in Nat /\ high' \in Nat /\ line' \in Nat \ {0} /\ kept' \subseteq DOMAIN headerList
        /\ closed' \in BOOLEAN /\ HeaderInv'
        /\ \/ pc' = "ended" /\ resume' = resume
           \/ pc' \in {"putHeader", "send"} /\ resume' = "ended"
    <3>1. CASE fcgi
      <4>1. pc' = "ended" /\ UNCHANGED <<resume, p, high, line, kept, closed>>
        BY <1>7, <3>1 DEF putChunkEnd
      <4>2. HeaderEnds' /\ LeftOutOnlyIfFull'
        BY <2>1, <4>1, Zenon
        DEF ResponseInv, HeaderInv, HeaderEnds, LeftOutOnlyIfFull, sentVars
      <4>3. HeaderInv'
        BY <2>1, <4>1, <4>2 DEF ResponseInv, HeaderInv
      <4>. QED
        BY <4>1, <4>3 DEF ResponseInv, ResponseTypeOK
    <3>2. CASE ~fcgi
      <4>1. resume' = "ended" /\ prepareResponse
        BY <1>7, <3>2 DEF putChunkEnd
      <4>. QED
        BY <2>1, <4>1, PrepareStep
    <3>. QED
      BY <3>1, <3>2
  <2>4. ResponseTypeOK'
    BY <1>1, <2>1, <2>3 DEF ResponseInv, ResponseTypeOK, sentVars
  <2>5. Content'
    BY <2>1 DEF ResponseInv, Content, sentVars
  <2>6. Place'
    BY <2>1, <2>2, <2>3 DEF Place
  <2>7. FrameInv'
    BY <2>1, FrameKept
  <2>. QED
    BY <2>3, <2>4, <2>5, <2>6, <2>7 DEF ResponseInv
<1>8. \A n \in 0..MaxBody : n \in Nat
  OBVIOUS
<1>. QED
  BY <1>2, <1>3, <1>4, <1>5, <1>6, <1>7, <1>8 DEF Servlet

(* Every step keeps the invariant. *)
LEMMA ResponseStep == ResponseInv /\ [Next]_vars => ResponseInv'
<1>. SUFFICES ASSUME ResponseInv, [Next]_vars PROVE ResponseInv'
  OBVIOUS
<1>1. CASE stream_writeReturns
  <2>1. /\ pc = "stream_write" /\ left = 0 /\ pc' = "runner"
        /\ UNCHANGED <<fcgi, headerList, p, high, line, kept, closed, size, buffer, pos, left,
                       pending, resume, sentVars, written>>
    BY <1>1 DEF stream_writeReturns, headerVars, streamVars, putVars
  <2>2. ResponseTypeOK'
    BY <2>1 DEF ResponseInv, ResponseTypeOK, sentVars
  <2>3. Content' /\ Place'
    BY <2>1 DEF ResponseInv, Content, Place, sentVars
  <2>4. HeaderInv'
    <3>1. HeaderEnds' /\ LeftOutOnlyIfFull'
      BY <2>1, Zenon DEF ResponseInv, HeaderInv, HeaderEnds, LeftOutOnlyIfFull, sentVars
    <3>. QED
      BY <2>1, <3>1 DEF ResponseInv, HeaderInv
  <2>5. FrameInv'
    BY <2>1, FrameKept
  <2>. QED
    BY <2>2, <2>3, <2>4, <2>5 DEF ResponseInv
<1>2. CASE UNCHANGED vars
  <2>1. UNCHANGED <<fcgi, headerList, p, high, line, kept, closed, size, buffer, pos, left, pc,
                    pending, resume, firstWrite, wire, body, written>>
    BY <1>2 DEF vars, headerVars, streamVars, putVars, sentVars
  <2>2. ResponseTypeOK'
    BY <2>1 DEF ResponseInv, ResponseTypeOK
  <2>3. Content' /\ Place'
    BY <2>1 DEF ResponseInv, Content, Place
  <2>4. HeaderInv' /\ FrameInv'
    BY <2>1, Zenon
    DEF ResponseInv, HeaderInv, HeaderEnds, LeftOutOnlyIfFull, FrameInv, Framed
  <2>. QED
    BY <2>2, <2>3, <2>4 DEF ResponseInv
<1>. QED
  BY <1>1, <1>2, HeaderStep, SendStep, TurnStep, ServletStep
  DEF Next, streamSteps, Terminated

-----------------------------------------------------------------------------
(* The invariant holds in every state of a response. *)
THEOREM ResponseInvariant == Spec => []ResponseInv
<1>1. Init => ResponseInv
  BY ResponseInit
<1>2. ResponseInv /\ [Next]_vars => ResponseInv'
  BY ResponseStep
<1>. QED
  BY <1>1, <1>2, PTL DEF Spec

(* Every variable of a response keeps its type; the position of a stream   *)
(* stays in its buffer.                                                    *)
THEOREM ResponseTypeCorrect == Spec => []ResponseTypeOK
<1>1. ResponseInv => ResponseTypeOK
  BY DEF ResponseInv
<1>. QED
  BY <1>1, ResponseInvariant, PTL

(* For every size of a stream's buffer and every way to cut the body, the  *)
(* client gets its characters once and in order, and in the end all.       *)
THEOREM BodyIsInOrder == Spec => []BodyInOrder
<1>1. ResponseInv => BodyInOrder
  <2>. SUFFICES ASSUME ResponseInv PROVE BodyInOrder
    OBVIOUS
  <2>1. /\ body \in Seq(Nat) /\ pending \in Seq(Nat) /\ Len(body) \in Nat
        /\ DOMAIN body = 1..Len(body)
    BY EmptyIsShort DEF ResponseInv, ResponseTypeOK
  <2>2. pc = "ended" => Len(pending) = 0 /\ pos = 0 /\ left = 0
    BY <2>1, EmptyIsShort DEF ResponseInv, Place
  <2>. QED
    BY <2>1, <2>2 DEF ResponseInv, Content, BodyInOrder
<1>. QED
  BY <1>1, ResponseInvariant, PTL

(* One header in front, no empty chunk, one end behind. *)
THEOREM ResponseIsFramed == Spec => []Framed
<1>1. ResponseInv => Framed
  BY DEF ResponseInv, FrameInv
<1>. QED
  BY <1>1, ResponseInvariant, PTL

(* For every size of the buffer and every list of headers, what is written *)
(* ends with the empty line and fits the buffer; sprintf writes behind the  *)
(* buffer only the NUL of a header that fills it to the byte.              *)
THEOREM HeaderAlwaysEnds == Spec => []HeaderEnds
<1>1. ResponseInv => HeaderEnds
  BY DEF ResponseInv, HeaderInv
<1>. QED
  BY <1>1, ResponseInvariant, PTL

(* A header is left out only if it does not fit behind those written. *)
THEOREM HeadersLeftOutOnlyIfFull == Spec => []LeftOutOnlyIfFull
<1>1. ResponseInv => LeftOutOnlyIfFull
  BY DEF ResponseInv, HeaderInv
<1>. QED
  BY <1>1, ResponseInvariant, PTL
=============================================================================

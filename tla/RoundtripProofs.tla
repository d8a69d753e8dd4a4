-------------------------- MODULE RoundtripProofs --------------------------
(***************************************************************************)
(* Proofs about Roundtrip, for every set of configurations and requests    *)
(* and every bound: type correctness, and the order of what goes over the  *)
(* wire.                                                                   *)
(***************************************************************************)
EXTENDS Roundtrip, SequenceTheorems, FiniteSetTheorems, TLAPS

-----------------------------------------------------------------------------
(* Type correctness.                                                       *)

(* The unit belongs to a request the client has started to send. *)
Sent == [req : 1..Len(asks), part : Part]

(* lookForHeaders reads asks at the number of the request a unit belongs   *)
(* to, so types depend on where units come from.                           *)
TypeInv ==
  /\ TypeOK
  /\ toSend \in Seq(Sent)
  /\ inbox \in Seq(Sent)
  /\ buf \in Seq(Sent)
  /\ request.parsed => request.from \in 1..Len(asks)

(* A part of a sequence has the type of the sequence. *)
LEMMA PartOfSeq ==
  ASSUME NEW S, NEW s \in Seq(S), NEW m \in 1..(Len(s) + 1), NEW n \in 0..Len(s)
  PROVE  SubSeq(s, m, n) \in Seq(S)
<1>1. \A i \in m..n : s[i] \in S
  BY ElementOfSeq
<1>. QED
  BY <1>1, SubSeqProperties

(* What cleanupTransaction counts is finite. *)
LEMMA FiniteHeap ==
  ASSUME NEW H \in SUBSET Block
  PROVE  IsFiniteSet(H) /\ Cardinality(H) \in Nat
<1>1. IsFiniteSet(Block)
  <2>1. IsFiniteSet({"buf"} \cup {"lists"} \cup {"payload"} \cup {"instance"})
    BY FS_Singleton, FS_Union
  <2>2. IsFiniteSet({"respHeaders"} \cup {"threadMem"} \cup {"parmValue"})
    BY FS_Singleton, FS_Union
  <2>3. Block = ({"buf"} \cup {"lists"} \cup {"payload"} \cup {"instance"})
                  \cup ({"respHeaders"} \cup {"threadMem"} \cup {"parmValue"})
    BY DEF Block
  <2>. QED
    BY <2>1, <2>2, <2>3, FS_Union
<1>2. IsFiniteSet(H)
  BY <1>1, FS_Subset
<1>. QED
  BY <1>2, FS_CardinalityType

(* What lookForHeaders makes of units the client sent: it announces a      *)
(* length, that of the request if the head is whole.                       *)
LEMMA ReadingOf ==
  ASSUME TypeInv, NEW units \in Seq(Sent), NEW eoh \in 1..Len(units),
         NEW r \in lookForHeaders(units, eoh)
  PROVE  \E need \in Nat, inner \in BOOLEAN :
           /\ r = Reading(units, eoh, need, inner)
           /\ Whole(units, eoh) =>
                /\ need = ContentLength(units[eoh].req)
                /\ inner <=> "lead" \in asks[units[eoh].req].flaws
<1>. DEFINE n == units[eoh].req
<1>1. units[eoh] \in Sent
  BY ElementOfSeq
<1>2. asks[n] \in Request
  BY <1>1 DEF TypeInv, TypeOK, Sent
<1>3. ContentLength(n) \in Nat
  BY <1>2 DEF ContentLength, Request
<1>4. PICK need \in IF Whole(units, eoh) THEN {ContentLength(n)} ELSE StrayLengths,
           inner \in IF Whole(units, eoh) THEN {"lead" \in asks[n].flaws} ELSE BOOLEAN :
        r = Reading(units, eoh, need, inner)
  BY DEF lookForHeaders
<1>5. CASE Whole(units, eoh)
  <2>1. need \in {ContentLength(n)} /\ inner \in {"lead" \in asks[n].flaws}
    BY <1>4, <1>5, Zenon
  <2>2. need = ContentLength(n) /\ need \in Nat
    BY <1>3, <2>1
  <2>3. inner \in BOOLEAN /\ (inner <=> "lead" \in asks[n].flaws)
    <3>1. inner = ("lead" \in asks[n].flaws)
      BY <2>1
    <3>2. inner \in BOOLEAN
      BY <3>1
    <3>. QED
      BY <3>1, <3>2
  <2>. QED
    BY <1>4, <2>2, <2>3, Zenon
<1>6. CASE ~Whole(units, eoh)
  <2>1. need \in StrayLengths /\ inner \in BOOLEAN
    BY <1>6
  <2>. QED
    BY <1>4, <1>6, <2>1, RoundtripAssumption
<1>. QED
  BY <1>5, <1>6

(* It is well-formed, if only the head does not end behind what was        *)
(* received.                                                               *)
LEMMA ParsedType ==
  ASSUME TypeInv, NEW units \in Seq(Sent), NEW eoh \in 1..Len(units),
         NEW r \in lookForHeaders(units, eoh), r.have >= 0
  PROVE  /\ r \in Parsed /\ r.parsed
         /\ r.have <= r.need
         /\ r.from \in 1..Len(asks)
<1>. DEFINE n      == units[eoh].req
            behind == Behind(units, eoh)
<1>1. units[eoh] \in Sent
  BY ElementOfSeq
<1>2. n \in 1..Len(asks) /\ n \in Nat
  BY <1>1 DEF TypeInv, TypeOK, Sent
<1>4. behind \in Int
  BY DEF Behind
<1>6. PICK need \in Nat, inner \in BOOLEAN : r = Reading(units, eoh, need, inner)
  BY ReadingOf
<1>7. /\ r.parsed /\ r.from = n /\ r.clean = Whole(units, eoh) /\ r.inner = inner
      /\ r.need = need /\ ~r.matched
      /\ r.have = IF need = 0 THEN 0 ELSE IF behind > need THEN need ELSE behind
  BY <1>6 DEF Reading
<1>8. Whole(units, eoh) \in BOOLEAN
  BY DEF Whole
<1>. HIDE DEF n, behind
<1>9. r.have \in Nat /\ r.have <= r.need
  BY <1>4, <1>6, <1>7
<1>10. r \in Parsed
  <2>1. r = [parsed |-> TRUE, from |-> n, clean |-> Whole(units, eoh),
             inner |-> inner, need |-> need, have |-> r.have, matched |-> FALSE]
    BY <1>6, <1>7 DEF Reading, n
  <2>2. PICK w \in BOOLEAN, h \in Nat, m \in Nat, i \in BOOLEAN, d \in Nat :
          /\ w = Whole(units, eoh) /\ h = r.have /\ m = n /\ i = inner /\ d = need
    BY <1>2, <1>6, <1>8, <1>9
  <2>3. r = [parsed |-> TRUE, from |-> m, clean |-> w, inner |-> i, need |-> d,
             have |-> h, matched |-> FALSE]
    BY <2>1, <2>2, Zenon
  <2>. QED
    BY <2>3 DEF Parsed
<1>. QED
  BY <1>2, <1>7, <1>9, <1>10

(* The requests whose bytes were left are numbers. *)
LEMMA LeftType ==
  ASSUME ghost \in Ghost, served \in Nat
  PROVE  [ghost EXCEPT !.left = ghost.left \cup {served + 1}] \in Ghost
<1>1. ghost.left \cup {served + 1} \in SUBSET Nat
  BY DEF Ghost
<1>. QED
  BY <1>1 DEF Ghost

(* The initial states satisfy TypeInv. *)
LEMMA TypeInit == Init => TypeInv
<1>. SUFFICES ASSUME Init PROVE TypeInv
  OBVIOUS
<1>1. TypeOK
  BY RoundtripAssumption
  DEF Init, TypeOK, NoRequest, NoGhost, Parsed, Ghost, Stages, Block, Token,
      CertState
<1>2. toSend \in Seq(Sent) /\ inbox \in Seq(Sent) /\ buf \in Seq(Sent)
  BY EmptySeq DEF Init
<1>. QED
  BY <1>1, <1>2 DEF Init, NoRequest, TypeInv

(* What Emit puts on the wire is tokens. *)
LEMMA EmitType ==
  ASSUME TypeOK, NEW kind \in {"chunk", "end"}, NEW st \in Nat, Emit(kind, st)
  PROVE  wire' \in Seq(Token) /\ firstWrite' \in BOOLEAN
<1>1. NewToken("header", st) \in Token /\ NewToken(kind, st) \in Token
  BY DEF TypeOK, NewToken, Token
<1>2. <<NewToken("header", st)>> \in Seq(Token) /\ <<>> \in Seq(Token)
        /\ <<NewToken(kind, st)>> \in Seq(Token)
  BY <1>1
<1>. QED
  BY <1>2, ConcatProperties DEF Emit, TypeOK

(* Every step of client and server keeps the types of all variables, and   *)
(* the units under way belong to requests the client has asked.            *)
LEMMA TypeStep == TypeInv /\ [Next]_vars => TypeInv'
<1>. SUFFICES ASSUME TypeInv, [Next]_vars PROVE TypeInv'
  OBVIOUS
<1>. USE DEF clientVars, ioVars, respVars, memVars, histVars, serverVars
<1>a. TypeInv => TypeOK
  BY DEF TypeInv
<1>0. ASSUME UNCHANGED asks PROVE Sent' = Sent
  BY <1>0 DEF Sent
<1>b. \A s \in Seq(Sent) : s \in Seq(Unit)
  <2>1. Sent \subseteq Unit
    BY DEF Sent, Unit
  <2>. QED
    BY <2>1, SeqMonotonic
<1>1. CASE UNCHANGED vars
  BY <1>1 DEF TypeInv, TypeOK, vars, Sent, Stages
<1>2. ASSUME NEW r \in Requests, Ask(r) PROVE TypeInv'
  <2>1. r \in Request /\ asks' \in Seq(Request) /\ Len(asks') = Len(asks) + 1
    BY <1>2, RoundtripAssumption, AppendProperties DEF TypeInv, TypeOK, Ask
  <2>2. Sent \subseteq Sent' /\ Sent' \subseteq Unit
    BY <2>1 DEF Sent, Unit
  <2>3. inbox' \in Seq(Sent') /\ buf' \in Seq(Sent')
    BY <1>2, <2>2, SeqMonotonic DEF TypeInv, TypeOK, Ask
  <2>4. toSend' \in Seq(Sent') /\ toSend' \in Seq(Unit)
    <3>1. r.head + r.body \in Nat
      BY <2>1 DEF TypeInv, TypeOK, Request
    <3>2. toSend' \in [1..(r.head + r.body) -> Sent']
      <4>1. toSend' = Units(Len(asks) + 1, r)
        BY <1>2 DEF Ask
      <4>2. \A i \in 1..(r.head + r.body) : PartOf(r, i) \in Part
        BY DEF PartOf, Part
      <4>3. Len(asks) + 1 \in 1..Len(asks')
        BY <2>1 DEF TypeInv, TypeOK
      <4>. QED
        BY <4>1, <4>2, <4>3 DEF Units, Sent
    <3>3. toSend' \in Seq(Sent')
      BY <3>1, <3>2, SeqDef
    <3>. QED
      BY <3>3, <2>2, SeqMonotonic
  <2>. QED
    BY <1>2, <2>1, <2>3, <2>4 DEF TypeInv, TypeOK, Ask
<1>3. CASE Deliver
  <2>1. Head(toSend) \in Sent /\ Tail(toSend) \in Seq(Sent)
    BY <1>3, HeadTailProperties DEF TypeInv, TypeOK, Deliver
  <2>2. inbox' \in Seq(Sent) /\ toSend' \in Seq(Sent)
    BY <1>3, <2>1, AppendProperties DEF TypeInv, TypeOK, Deliver
  <2>. QED
    BY <1>0, <1>3, <1>b, <2>2 DEF TypeInv, TypeOK, Deliver
<1>4. CASE Hangup
  BY <1>0, <1>4, EmptySeq DEF TypeInv, TypeOK, Hangup
<1>5. CASE Reset
  BY <1>0, <1>5, EmptySeq DEF TypeInv, TypeOK, Reset
<1>6. CASE fcgiAcceptFails
  BY <1>0, <1>6 DEF TypeInv, TypeOK, fcgiAcceptFails, Stages
<1>7. CASE receiveHeaderHTTP
  <2>. USE <1>7 DEF receiveHeaderHTTP, Read
  <2>1. buf' \in Seq(Sent) /\ inbox' \in Seq(Sent)
    BY SMTT(30), PartOfSeq, ConcatProperties DEF TypeInv, TypeOK
  <2>2. buf' \in Seq(Unit) /\ inbox' \in Seq(Unit)
    BY <1>b, <2>1
  <2>3. CASE UNCHANGED <<request, heap, pc, ghost>>
    BY <1>0, <2>1, <2>2, <2>3 DEF TypeInv, TypeOK
  <2>4. ASSUME NEW eoh \in 1..Len(buf'), NEW r \in lookForHeaders(buf', eoh),
               r.have >= 0, Parse(r),
               ghost' = IF LeavesSome(buf', eoh, r)
                        THEN [ghost EXCEPT !.left = ghost.left \cup {served + 1}]
                        ELSE ghost
        PROVE  TypeInv'
    <3>1. request' \in Parsed /\ request'.from \in 1..Len(asks)
            /\ request'.have <= request'.need
      <4>1. request' = r
        BY <2>4 DEF Parse
      <4>. QED
        BY <2>1, <2>4, <4>1, ParsedType
    <3>2. heap' \subseteq Block /\ pc' \in Stages
      BY <2>4 DEF TypeInv, TypeOK, Parse, Block, Stages
    <3>3. ghost' \in Ghost
      BY <2>4, LeftType, Zenon DEF TypeInv, TypeOK
    <3>. QED
      BY <1>0, <2>1, <2>2, <3>1, <3>2, <3>3 DEF TypeInv, TypeOK
  <2>. QED
    BY <2>3, <2>4
<1>8. CASE receiveHeaderGivesUp
  BY <1>0, <1>8 DEF TypeInv, TypeOK, receiveHeaderGivesUp, Stages
<1>9. CASE receiveHeaderTlsError
  BY <1>0, <1>9 DEF TypeInv, TypeOK, receiveHeaderTlsError, Stages
<1>10. CASE receivePayload
  <2>. USE <1>10 DEF receivePayload
  <2>1. inbox' \in Seq(Sent)
    BY SMTT(30), PartOfSeq DEF TypeInv, TypeOK
  <2>2. inbox' \in Seq(Unit)
    BY <1>b, <2>1
  <2>3. request' \in Parsed /\ request'.parsed = request.parsed
          /\ request'.from = request.from
    <3>1. request \in Parsed
      BY DEF TypeInv, TypeOK
    <3>2. PICK k \in 1..Len(inbox) :
            request' = [request EXCEPT !.have = request.have + k]
      OBVIOUS
    <3>3. request.have + k \in Nat
      BY <3>1 DEF Parsed
    <3>. QED
      BY <3>1, <3>2, <3>3 DEF Parsed
  <2>5. request'.have <= request'.need
    <3>1. request \in Parsed
      BY DEF TypeInv, TypeOK
    <3>. QED
      BY <3>1 DEF Parsed
  <2>4. pc' \in Stages
    BY DEF TypeInv, TypeOK, Stages
  <2>. QED
    BY <1>0, <2>1, <2>2, <2>3, <2>4, <2>5 DEF TypeInv, TypeOK
<1>11. CASE receivePayloadGivesUp
  <2>1. ghost' \in Ghost
    BY <1>11, LeftType, Zenon DEF TypeInv, TypeOK, receivePayloadGivesUp
  <2>. QED
    BY <1>0, <1>11, <2>1 DEF TypeInv, TypeOK, receivePayloadGivesUp, Stages
<1>12. CASE fcgiReceiveHeader
  <2>. USE <1>12 DEF fcgiReceiveHeader
  <2>1. PICK eoh \in 1..Len(inbox) :
          /\ IsHeadEnd(inbox, eoh)
          /\ \E r \in lookForHeaders(SubSeq(inbox, 1, eoh), eoh) :
               Parse([r EXCEPT !.inner = FALSE])
          /\ inbox' = SubSeq(inbox, eoh + 1, Len(inbox))
    OBVIOUS
  <2>. DEFINE units == SubSeq(inbox, 1, eoh)
  <2>2. units \in Seq(Sent) /\ Len(units) = eoh /\ inbox' \in Seq(Sent)
    <3>1. inbox \in Seq(Sent) /\ Len(inbox) \in Nat
      BY DEF TypeInv
    <3>2. eoh \in 0..Len(inbox) /\ eoh + 1 \in 1..(Len(inbox) + 1)
            /\ 1 \in 1..(Len(inbox) + 1) /\ Len(inbox) \in 0..Len(inbox)
      BY <3>1
    <3>3. units \in Seq(Sent) /\ inbox' \in Seq(Sent)
      BY <2>1, <3>1, <3>2, PartOfSeq
    <3>4. \A i \in 1..eoh : inbox[i] \in Sent
      BY <3>1, <3>2, ElementOfSeq
    <3>5. Len(units) = eoh
      BY <3>2, <3>4, SubSeqProperties
    <3>. QED
      BY <3>3, <3>5
  <2>3. inbox' \in Seq(Unit)
    BY <1>b, <2>2
  <2>a. PICK r \in lookForHeaders(units, eoh) : Parse([r EXCEPT !.inner = FALSE])
    BY <2>1
  <2>b. units[eoh] = inbox[eoh]
    <3>1. \A i \in 1..eoh : inbox[i] \in Sent
      BY ElementOfSeq DEF TypeInv
    <3>. QED
      BY <3>1, SubSeqProperties
  <2>4. r \in Parsed /\ r.from \in 1..Len(asks) /\ r.have <= r.need
    <3>1. eoh \in 1..Len(units)
      BY <2>2
    <3>2. units[eoh].part # "half"
      BY <2>1, <2>b DEF IsHeadEnd, EndsHead
    <3>3. r.have >= 0
      <4>1. Behind(units, eoh) \in Nat
        BY <2>2, <3>1, <3>2 DEF Behind
      <4>. HIDE DEF units
      <4>2. PICK need \in Nat, inner \in BOOLEAN : r = Reading(units, eoh, need, inner)
        BY <2>2, <3>1, ReadingOf
      <4>3. r.have = IF need = 0 THEN 0
                     ELSE IF Behind(units, eoh) > need THEN need ELSE Behind(units, eoh)
        BY <4>2 DEF Reading
      <4>. QED
        BY <4>1, <4>2, <4>3
    <3>. HIDE DEF units
    <3>. QED
      BY <2>2, <3>1, <3>3, ParsedType
  <2>5. request' \in Parsed /\ request'.from \in 1..Len(asks)
          /\ request'.have <= request'.need
    BY <2>a, <2>4 DEF Parse, Parsed
  <2>6. heap' \subseteq Block /\ pc' \in Stages
    BY <2>a DEF TypeInv, TypeOK, Parse, Block, Stages
  <2>. QED
    BY <1>0, <2>1, <2>2, <2>3, <2>5, <2>6 DEF TypeInv, TypeOK, Parse
<1>13. CASE fcgiPayloadSpins
  BY <1>1, <1>13 DEF TypeInv, TypeOK, fcgiPayloadSpins
<1>14. ASSUME NEW go \in BOOLEAN, runPreRequestPlugin(go) PROVE TypeInv'
  <2>1. ghost' \in Ghost
    <3>1. ghost \in Ghost
      BY DEF TypeInv, TypeOK
    <3>2. ghost.approvals + 1 \in Nat
      BY <3>1 DEF Ghost
    <3>3. \/ ghost' = [ghost EXCEPT !.approvals = ghost.approvals + 1]
          \/ ghost' = [ghost EXCEPT !.vetoed = TRUE]
      BY <1>14 DEF runPreRequestPlugin
    <3>. QED
      BY <3>1, <3>2, <3>3 DEF Ghost
  <2>. QED
    BY <1>0, <1>14, <2>1 DEF TypeInv, TypeOK, runPreRequestPlugin, Stages
<1>15. ASSUME NEW go \in BOOLEAN, runPostResponsePlugin(go) PROVE TypeInv'
  BY <1>0, <1>15 DEF TypeInv, TypeOK, runPostResponsePlugin, Stages
<1>16. CASE ServletReturns
  BY <1>0, <1>16 DEF TypeInv, TypeOK, ServletReturns, Stages
<1>17. CASE putChunk
  BY <1>0, <1>17, EmitType DEF TypeInv, TypeOK, putChunk
<1>18. ASSUME NEW s \in Statuses, SetStatus(s) PROVE TypeInv'
  BY <1>0, <1>18, RoundtripAssumption DEF TypeInv, TypeOK, SetStatus
<1>28. CASE lookForHeadersFails
  <2>1. buf' \in Seq(Sent) /\ inbox' \in Seq(Sent)
    BY SMTT(30), <1>28, PartOfSeq, ConcatProperties
    DEF TypeInv, TypeOK, lookForHeadersFails, Read
  <2>2. buf' \in Seq(Unit) /\ inbox' \in Seq(Unit)
    BY <1>b, <2>1
  <2>. QED
    BY <1>0, <1>28, <2>1, <2>2 DEF TypeInv, TypeOK, lookForHeadersFails, Stages
<1>29. CASE CertificateFault
  BY <1>0, <1>29 DEF TypeInv, TypeOK, CertificateFault, Stages
<1>19. CASE handleServletException
  <2>. USE <1>19 DEF handleServletException
  <2>1. ghost' \in Ghost
    BY DEF TypeInv, TypeOK, Ghost
  <2>2. wire' \in Seq(Token) /\ firstWrite' \in BOOLEAN
    BY <1>a, EmitType
  <2>3. pc' \in Stages /\ plugin' \in Nat
    BY SMTT(30), RoundtripAssumption DEF TypeInv, TypeOK, Stages
  <2>. QED
    BY <1>0, <2>1, <2>2, <2>3 DEF TypeInv, TypeOK
<1>20. CASE Dispatch
  <2>1. request' \in Parsed /\ request'.parsed = request.parsed
          /\ request'.from = request.from /\ request'.have <= request'.need
    BY <1>20 DEF TypeInv, TypeOK, Dispatch, Parsed
  <2>2. heap' \subseteq Block
    BY <1>20 DEF TypeInv, TypeOK, Dispatch, Block
  <2>3. cert' \in CertState
    BY <1>20 DEF TypeInv, TypeOK, Dispatch, CertState
  <2>. QED
    BY <1>0, <1>20, <2>1, <2>2, <2>3 DEF TypeInv, TypeOK, Dispatch, Stages
<1>21. CASE runServlet
  BY <1>0, <1>21 DEF TypeInv, TypeOK, runServlet, Stages
<1>22. CASE PluginsDone
  BY <1>0, <1>22 DEF TypeInv, TypeOK, PluginsDone, Stages
<1>23. CASE putChunkEnd
  BY <1>0, <1>23, EmitType DEF TypeInv, TypeOK, putChunkEnd, Stages
<1>24. CASE CheckConnection
  <2>1. connected' \in BOOLEAN
    BY <1>24 DEF TypeInv, TypeOK, CheckConnection
  <2>. QED
    BY <1>0, <1>24, <2>1 DEF TypeInv, TypeOK, CheckConnection, Stages
<1>25. CASE cleanupTransaction
  <2>. USE <1>25 DEF cleanupTransaction
  <2>1. leaked' \in Nat
    <3>1. heap \ (Freed \cup {"instance"}) \in SUBSET Block /\ leaked \in Nat
      BY DEF TypeInv, TypeOK
    <3>2. Cardinality(heap \ (Freed \cup {"instance"})) \in Nat
      BY <3>1, FiniteHeap
    <3>. QED
      BY <3>1, <3>2
  <2>2. wire' \in Seq(Token)
    <3>1. NewToken("end", status) \in Token
      BY DEF TypeInv, TypeOK, NewToken, Token
    <3>2. wire \in Seq(Token)
      BY DEF TypeInv, TypeOK
    <3>. QED
      BY <3>1, <3>2, AppendProperties
  <2>3. heap' \subseteq Block /\ pc' \in Stages
    BY DEF TypeInv, TypeOK, Block, Stages
  <2>4. request' \in Parsed /\ ~request'.parsed /\ request'.have <= request'.need
    BY DEF TypeInv, TypeOK, NoRequest, Parsed
  <2>6. cert' \in CertState
    BY DEF TypeInv, TypeOK, CertState
  <2>5. ghost' \in Ghost
    BY DEF TypeInv, TypeOK, NoGhost, Ghost
  <2>. QED
    BY <1>0, <2>1, <2>2, <2>3, <2>4, <2>5, <2>6, EmptySeq DEF TypeInv, TypeOK
<1>26. CASE CloseSocket
  <2>1. leaked' \in Nat
    <3>1. Cardinality(heap) \in Nat /\ leaked \in Nat
      BY FiniteHeap DEF TypeInv, TypeOK
    <3>. QED
      BY <1>26, <3>1 DEF CloseSocket
  <2>. QED
    BY <1>0, <1>26, <2>1 DEF TypeInv, TypeOK, CloseSocket, Stages
<1>27. CASE Terminated
  BY <1>1, <1>27 DEF TypeInv, TypeOK, Terminated
<1>. QED
  BY <1>1, <1>2, <1>3, <1>4, <1>5, <1>6, <1>7, <1>8, <1>9, <1>10, <1>11, <1>12,
     <1>13, <1>14, <1>15, <1>16, <1>17, <1>18, <1>19, <1>20, <1>21, <1>22,
     <1>23, <1>24, <1>25, <1>26, <1>27, <1>28, <1>29
  DEF Next, Environment, Receive, Callback, Returns, Respond

(* In every reachable state the variables have their types, and the units  *)
(* in socket and buffer come from requests the client has asked.           *)
THEOREM TypeInvariant == Spec => []TypeInv
BY TypeInit, TypeStep, PTL DEF Spec

(* Every variable keeps its type, whatever the configurations, requests    *)
(* and bounds. *)
THEOREM TypeCorrect == Spec => []TypeOK
<1>1. TypeInv => TypeOK
  BY DEF TypeInv
<1>. QED
  BY TypeInvariant, <1>1, PTL

-----------------------------------------------------------------------------
(* The order of what goes over the wire.                                   *)

(* WireOrder says nothing of where the loop is, so it is not inductive:    *)
(* what has been written must agree with firstWrite and with the stage.    *)
Before(w, n) == \A i \in DOMAIN w : w[i].req < n
UpTo(w, n) == \A i \in DOMAIN w : w[i].req <= n
NotEnded(w, n) == \A i \in DOMAIN w : w[i].kind = "end" => w[i].req < n
Headed(w, n) == \E i \in DOMAIN w : w[i].kind = "header" /\ w[i].req = n

WireSync ==
  /\ UpTo(wire, served)
  /\ Answering /\ firstWrite => Before(wire, served)
  /\ Answering /\ ~firstWrite => Headed(wire, served) /\ NotEnded(wire, served)
  /\ pc \in {"check", "cleanup"} /\ ~Http => NotEnded(wire, served)

WireInv == TypeInv /\ WireOrder /\ WireSync

(* WireOrder of any row of tokens: Emit puts two on the wire in one step.  *)
Ordered(w, http) ==
  /\ \A i \in DOMAIN w : w[i].kind = "chunk" \/ (w[i].kind = "end" /\ http)
       => \E j \in 1..(i - 1) : w[j].kind = "header" /\ w[j].req = w[i].req
  /\ \A i, j \in DOMAIN w :
       w[i].kind = "header" /\ w[j].kind = "header" /\ w[i].req = w[j].req => i = j
  /\ \A i, j \in DOMAIN w : i < j /\ w[i].kind = "end" => w[i].req < w[j].req
  /\ \A i, j \in DOMAIN w : i < j => w[i].req <= w[j].req

(* WireOrder written as a predicate of the row of tokens. *)
LEMMA WireOrderIsOrdered == WireOrder <=> Ordered(wire, Http)
BY DEF WireOrder, Ordered, HeaderFirst, HeaderOnce, EndLast, InOrder

(* When a token may follow a row of tokens. *)
LEMMA OrderedAppend ==
  ASSUME NEW w \in Seq(Token), NEW t \in Token, NEW http \in BOOLEAN,
         Ordered(w, http), UpTo(w, t.req), NotEnded(w, t.req),
         t.kind = "header" => Before(w, t.req),
         t.kind = "chunk" \/ (t.kind = "end" /\ http) => Headed(w, t.req)
  PROVE  Ordered(Append(w, t), http)
<1>. DEFINE v == Append(w, t)
<1>1. /\ Len(w) \in Nat /\ DOMAIN w = 1..Len(w)
      /\ v \in Seq(Token) /\ Len(v) = Len(w) + 1 /\ DOMAIN v = 1..(Len(w) + 1)
      /\ \A i \in 1..Len(w) : v[i] = w[i]
      /\ v[Len(w) + 1] = t
  BY AppendProperties, LenProperties
<1>2. /\ t.req \in Nat
      /\ \A i \in DOMAIN w : w[i].req \in Nat
  <2>1. \A i \in DOMAIN w : w[i] \in Token
    BY <1>1, ElementOfSeq
  <2>. QED
    BY <2>1 DEF Token
<1>. HIDE DEF v
<1>3. \A i \in DOMAIN v : v[i].kind = "chunk" \/ (v[i].kind = "end" /\ http)
       => \E j \in 1..(i - 1) : v[j].kind = "header" /\ v[j].req = v[i].req
  <2>1. SUFFICES ASSUME NEW i \in DOMAIN v,
                        v[i].kind = "chunk" \/ (v[i].kind = "end" /\ http)
                 PROVE  \E j \in 1..(i - 1) :
                          v[j].kind = "header" /\ v[j].req = v[i].req
    OBVIOUS
  <2>2. CASE i \in 1..Len(w)
    BY <1>1, <2>1, <2>2 DEF Ordered
  <2>3. CASE i = Len(w) + 1
    BY <1>1, <2>1, <2>3 DEF Headed
  <2>. QED
    BY <1>1, <2>2, <2>3
<1>4. \A i, j \in DOMAIN v :
        v[i].kind = "header" /\ v[j].kind = "header" /\ v[i].req = v[j].req => i = j
  BY <1>1, <1>2 DEF Ordered, Before
<1>5. \A i, j \in DOMAIN v : i < j /\ v[i].kind = "end" => v[i].req < v[j].req
  <2>1. SUFFICES ASSUME NEW i \in DOMAIN v, NEW j \in DOMAIN v,
                        i < j, v[i].kind = "end"
                 PROVE  v[i].req < v[j].req
    OBVIOUS
  <2>2. i \in DOMAIN w /\ v[i] = w[i]
    BY <1>1, <2>1
  <2>3. CASE j \in DOMAIN w
    BY <1>1, <2>1, <2>2, <2>3 DEF Ordered
  <2>4. CASE j = Len(w) + 1
    BY <1>1, <2>1, <2>2, <2>4 DEF NotEnded
  <2>. QED
    BY <1>1, <2>3, <2>4
<1>6. \A i, j \in DOMAIN v : i < j => v[i].req <= v[j].req
  BY <1>1, <1>2 DEF Ordered, UpTo
<1>. QED
  BY <1>3, <1>4, <1>5, <1>6 DEF Ordered, v

(* How Append changes the facts WireSync is made of. *)
LEMMA SyncAppend ==
  ASSUME NEW w \in Seq(Token), NEW t \in Token, UpTo(w, t.req)
  PROVE  /\ Append(w, t) \in Seq(Token)
         /\ UpTo(Append(w, t), t.req)
         /\ Headed(w, t.req) \/ t.kind = "header" => Headed(Append(w, t), t.req)
         /\ NotEnded(w, t.req) /\ t.kind # "end" => NotEnded(Append(w, t), t.req)
<1>. DEFINE v == Append(w, t)
<1>1. /\ Len(w) \in Nat /\ DOMAIN w = 1..Len(w)
      /\ v \in Seq(Token) /\ DOMAIN v = 1..(Len(w) + 1)
      /\ \A i \in 1..Len(w) : v[i] = w[i]
      /\ v[Len(w) + 1] = t
  BY AppendProperties, LenProperties
<1>2. t.req \in Nat
  BY DEF Token
<1>. HIDE DEF v
<1>3. UpTo(v, t.req)
  BY <1>1, <1>2 DEF UpTo
<1>4. ASSUME Headed(w, t.req) PROVE Headed(v, t.req)
  BY <1>1, <1>4 DEF Headed
<1>5. ASSUME t.kind = "header" PROVE Headed(v, t.req)
  <2>1. Len(w) + 1 \in DOMAIN v
    BY <1>1
  <2>. QED
    BY <1>1, <1>5, <2>1 DEF Headed
<1>6. ASSUME NotEnded(w, t.req), t.kind # "end" PROVE NotEnded(v, t.req)
  BY <1>1, <1>6 DEF NotEnded
<1>. QED
  BY <1>1, <1>3, <1>4, <1>5, <1>6 DEF v

(* prepareResponse puts one token on the wire, or a header and a token. *)
LEMMA EmitAppends ==
  ASSUME TypeOK, NEW kind \in {"chunk", "end"}, NEW st \in Nat, Emit(kind, st)
  PROVE  wire' = IF firstWrite
                 THEN Append(Append(wire, NewToken("header", st)), NewToken(kind, st))
                 ELSE Append(wire, NewToken(kind, st))
<1>. DEFINE h == NewToken("header", st)
            t == NewToken(kind, st)
<1>1. h \in Token /\ t \in Token /\ wire \in Seq(Token)
  BY DEF TypeOK, NewToken, Token
<1>2. wire \o <<h>> = Append(wire, h) /\ wire \o <<>> = wire
        /\ wire \o <<t>> = Append(wire, t) /\ Append(wire, h) \in Seq(Token)
  BY <1>1, AppendIsConcat, AppendProperties, ConcatEmptySeq
<1>3. Append(wire, h) \o <<t>> = Append(Append(wire, h), t)
  BY <1>1, <1>2, AppendIsConcat
<1>. QED
  BY <1>2, <1>3 DEF Emit

(* prepareResponse puts the header first, whatever is written first. *)
LEMMA EmitOrder ==
  ASSUME WireInv, Answering, NEW kind \in {"chunk", "end"}, NEW st \in Nat,
         Emit(kind, st), UNCHANGED <<config, served>>
  PROVE  /\ WireOrder'
         /\ UpTo(wire', served)
         /\ ~firstWrite'
         /\ Headed(wire', served)
         /\ kind = "chunk" => NotEnded(wire', served)
<1>. DEFINE h == NewToken("header", st)
            t == NewToken(kind, st)
<1>1. h \in Token /\ t \in Token /\ wire \in Seq(Token) /\ served \in Nat
        /\ firstWrite \in BOOLEAN
  BY DEF WireInv, TypeInv, TypeOK, NewToken, Token
<1>2. h.kind = "header" /\ h.req = served /\ t.kind = kind /\ t.req = served
  BY DEF NewToken
<1>3. wire' = IF firstWrite THEN Append(Append(wire, h), t) ELSE Append(wire, t)
  BY EmitAppends DEF WireInv, TypeInv
<1>4. ~firstWrite' /\ Http \in BOOLEAN /\ Http' = Http
  BY DEF Emit, Http
<1>5. Ordered(wire, Http) /\ UpTo(wire, served)
  BY WireOrderIsOrdered DEF WireInv, WireSync
<1>. HIDE DEF h, t
<1>6. PICK w \in Seq(Token) : /\ wire' = Append(w, t)
                              /\ Ordered(w, Http) /\ UpTo(w, served)
                              /\ Headed(w, served) /\ NotEnded(w, served)
  <2>1. CASE firstWrite
    <3>1. Before(wire, served) /\ NotEnded(wire, served)
      BY <2>1 DEF WireInv, WireSync, Before, NotEnded
    <3>2. Ordered(Append(wire, h), Http)
      BY <1>1, <1>2, <1>4, <1>5, <3>1, OrderedAppend
    <3>3. /\ Append(wire, h) \in Seq(Token) /\ UpTo(Append(wire, h), served)
          /\ Headed(Append(wire, h), served) /\ NotEnded(Append(wire, h), served)
      BY <1>1, <1>2, <1>5, <3>1, SyncAppend
    <3>. QED
      BY <1>3, <2>1, <3>2, <3>3
  <2>2. CASE ~firstWrite
    BY <1>1, <1>3, <1>5, <2>2 DEF WireInv, WireSync
  <2>. QED
    BY <2>1, <2>2
<1>7. Ordered(wire', Http)
  BY <1>1, <1>2, <1>4, <1>6, OrderedAppend
<1>8. WireOrder'
  BY <1>4, <1>7 DEF WireOrder, Ordered, HeaderFirst, HeaderOnce, EndLast, InOrder
<1>. QED
  BY <1>1, <1>2, <1>4, <1>6, <1>8, SyncAppend

(* A step that writes nothing and stays on its side of the response. *)
LEMMA QuietStep ==
  ASSUME WireInv, UNCHANGED <<config, wire, served, firstWrite>>,
         Answering' => Answering,
         pc' \in {"check", "cleanup"} => pc \in {"check", "cleanup"}
  PROVE  WireOrder' /\ WireSync'
<1>1. Http' = Http
  BY DEF Http
<1>2. WireOrder'
  BY <1>1 DEF WireInv, WireOrder, HeaderFirst, HeaderOnce, EndLast, InOrder
<1>3. WireSync'
  <2>1. UpTo(wire, served)' /\ (Before(wire, served)' <=> Before(wire, served))
          /\ (Headed(wire, served)' <=> Headed(wire, served))
          /\ (NotEnded(wire, served)' <=> NotEnded(wire, served))
    BY DEF WireInv, WireSync, UpTo, Before, Headed, NotEnded
  <2>. QED
    BY <1>1, <2>1 DEF WireInv, WireSync
<1>. QED
  BY <1>2, <1>3

(* Nothing is on the wire at first. *)
LEMMA WireInit == Init => WireInv
<1>. SUFFICES ASSUME Init PROVE WireInv
  OBVIOUS
<1>1. DOMAIN wire = {}
  BY DEF Init
<1>2. WireOrder
  BY <1>1 DEF WireOrder, HeaderFirst, HeaderOnce, EndLast, InOrder
<1>3. WireSync
  BY <1>1 DEF WireSync, UpTo, Before, NotEnded, Answering, Init
<1>. QED
  BY <1>2, <1>3, TypeInit DEF WireInv

(* Nothing that receives a request writes, runs a plugin or reaches one.   *)
LEMMA ReceiveQuiet ==
  ASSUME Receive
  PROVE  /\ UNCHANGED <<config, wire, served, firstWrite, plugin, status>>
         /\ pc \in {"receive", "payload"}
         /\ pc' \in {"receive", "payload", "dispatch", "closing", "died"}
<1>. USE DEF respVars
<1>1. CASE receiveHeaderHTTP \/ lookForHeadersFails
  BY <1>1 DEF receiveHeaderHTTP, lookForHeadersFails, Read, Parse
<1>2. CASE receiveHeaderGivesUp \/ receiveHeaderTlsError
  BY <1>2 DEF receiveHeaderGivesUp, receiveHeaderTlsError
<1>3. CASE receivePayload \/ receivePayloadGivesUp
  BY <1>3 DEF receivePayload, receivePayloadGivesUp
<1>4. CASE fcgiReceiveHeader
  BY <1>4 DEF fcgiReceiveHeader, Parse
<1>5. CASE fcgiPayloadSpins
  BY <1>5 DEF fcgiPayloadSpins, vars
<1>. QED
  BY <1>1, <1>2, <1>3, <1>4, <1>5 DEF Receive

(* prepareResponse, putChunk, putChunkEnd, the exception handler and the   *)
(* next FCGX_Accept keep the row in order; nothing else writes.            *)
LEMMA WireStep == WireInv /\ [Next]_vars => WireInv'
<1>. SUFFICES ASSUME WireInv, [Next]_vars PROVE WireOrder' /\ WireSync'
  BY TypeStep DEF WireInv
<1>. USE DEF Answering
<1>t. /\ served \in Nat /\ status \in Nat /\ wire \in Seq(Token)
      /\ firstWrite \in BOOLEAN /\ Http \in BOOLEAN
  BY DEF WireInv, TypeInv, TypeOK, Http
<1>1. CASE UNCHANGED vars
  BY <1>1, QuietStep DEF vars, respVars
<1>2. CASE Environment
  <2>1. UNCHANGED <<config, wire, served, firstWrite>>
          /\ (pc' = pc \/ pc' = "closing")
    BY <1>2 DEF Environment, Ask, Deliver, Hangup, Reset, fcgiAcceptFails,
                serverVars, respVars
  <2>. QED
    BY <2>1, QuietStep
<1>3. CASE Receive
  <2>1. UNCHANGED <<config, wire, served, firstWrite>>
          /\ pc \in {"receive", "payload"}
          /\ pc' \in {"receive", "payload", "dispatch", "closing", "died"}
    BY <1>3, ReceiveQuiet
  <2>. QED
    BY <2>1, QuietStep
<1>4. CASE Returns
  <2>1. UNCHANGED <<config, wire, served, firstWrite>>
          /\ pc \in {"pre", "servlet", "post"} /\ pc' \in {"pre", "post", "end"}
    BY <1>4 DEF Returns, runPreRequestPlugin, runPostResponsePlugin,
                ServletReturns, respVars
  <2>. QED
    BY <2>1, QuietStep
<1>5. CASE putChunk \/ handleServletException
  <2>1. PICK st \in Nat : Emit("chunk", st)
    BY <1>5, <1>t DEF putChunk, handleServletException
  <2>2. UNCHANGED <<config, served>> /\ Answering /\ Answering'
    BY <1>5 DEF putChunk, handleServletException, InCallback, InPlugin
  <2>3. /\ WireOrder' /\ UpTo(wire', served) /\ ~firstWrite'
        /\ Headed(wire', served) /\ NotEnded(wire', served)
    BY <2>1, <2>2, EmitOrder
  <2>. QED
    BY <2>2, <2>3 DEF WireSync, UpTo, Headed, NotEnded
<1>6. ASSUME NEW s \in Statuses, SetStatus(s) PROVE WireOrder' /\ WireSync'
  BY <1>6, QuietStep DEF SetStatus
<1>7. CASE Dispatch
  <2>1. UNCHANGED <<config, wire>> /\ firstWrite' /\ served' = served + 1
          /\ pc' = "pre"
    BY <1>7 DEF Dispatch
  <2>2. WireOrder'
    BY <2>1 DEF WireInv, WireOrder, HeaderFirst, HeaderOnce, EndLast, InOrder, Http
  <2>3. \A i \in DOMAIN wire : wire[i].req \in Nat
    <3>1. \A i \in DOMAIN wire : wire[i] \in Token
      BY <1>t, ElementOfSeq, LenProperties
    <3>. QED
      BY <3>1 DEF Token
  <2>4. UpTo(wire', served') /\ Before(wire', served')
    BY <1>t, <2>1, <2>3 DEF WireInv, WireSync, UpTo, Before
  <2>. QED
    BY <2>1, <2>2, <2>4 DEF WireSync, UpTo, Before
<1>8. CASE runServlet \/ PluginsDone
  <2>1. UNCHANGED <<config, wire, served, firstWrite>>
          /\ pc \in {"pre", "post"} /\ pc' \in {"servlet", "post", "end"}
    BY <1>8 DEF runServlet, PluginsDone, respVars
  <2>. QED
    BY <2>1, QuietStep
<1>9. CASE putChunkEnd
  <2>1. UNCHANGED <<config, served>> /\ Http' = Http /\ Answering /\ pc' = "check"
    BY <1>9 DEF putChunkEnd, Http
  <2>2. CASE Http
    <3>1. Emit("end", status)
      BY <1>9, <2>2 DEF putChunkEnd
    <3>2. WireOrder' /\ UpTo(wire', served)
      BY <1>t, <2>1, <3>1, EmitOrder
    <3>. QED
      BY <2>1, <2>2, <3>2 DEF WireSync, UpTo
  <2>3. CASE ~Http
    <3>1. UNCHANGED <<wire, firstWrite>>
      BY <1>9, <2>3 DEF putChunkEnd
    <3>2. WireOrder'
      BY <2>1, <3>1 DEF WireInv, WireOrder, HeaderFirst, HeaderOnce, EndLast, InOrder
    <3>3. UpTo(wire, served) /\ NotEnded(wire, served)
      BY <1>t, <2>1 DEF WireInv, WireSync, Before, NotEnded
    <3>. QED
      BY <2>1, <3>1, <3>2, <3>3 DEF WireSync, UpTo, NotEnded
  <2>. QED
    BY <2>2, <2>3
<1>10. CASE CheckConnection
  <2>1. UNCHANGED <<config, wire, served, firstWrite>> /\ pc = "check"
          /\ pc' \in {"cleanup", "died"}
    BY <1>10 DEF CheckConnection, respVars
  <2>. QED
    BY <2>1, QuietStep
<1>11. CASE cleanupTransaction
  <2>1. UNCHANGED <<config, served, firstWrite>> /\ Http' = Http
          /\ pc = "cleanup" /\ pc' \in {"receive", "closing"}
    BY <1>11 DEF cleanupTransaction, Http
  <2>2. CASE UNCHANGED wire
    BY <2>1, <2>2, QuietStep
  <2>3. CASE ~Http /\ wire' = Append(wire, NewToken("end", status))
    <3>. DEFINE t == NewToken("end", status)
    <3>1. t \in Token /\ t.kind = "end" /\ t.req = served
      BY <1>t DEF NewToken, Token
    <3>2. Ordered(wire, Http) /\ UpTo(wire, served) /\ NotEnded(wire, served)
      BY <2>1, <2>3, WireOrderIsOrdered DEF WireInv, WireSync
    <3>. HIDE DEF t
    <3>3. Ordered(Append(wire, t), Http) /\ UpTo(Append(wire, t), served)
      BY <1>t, <2>3, <3>1, <3>2, OrderedAppend, SyncAppend
    <3>4. WireOrder' /\ UpTo(wire', served)
      BY <2>1, <2>3, <3>3
      DEF WireOrder, Ordered, HeaderFirst, HeaderOnce, EndLast, InOrder, t
    <3>. QED
      BY <2>1, <3>4 DEF WireSync, UpTo
  <2>. QED
    BY <1>11, <2>2, <2>3 DEF cleanupTransaction
<1>12. CASE CloseSocket \/ CertificateFault
  BY <1>12, QuietStep DEF CloseSocket, CertificateFault, respVars
<1>13. CASE Terminated
  BY <1>1, <1>13 DEF Terminated
<1>. QED
  BY <1>1, <1>2, <1>3, <1>4, <1>5, <1>6, <1>7, <1>8, <1>9, <1>10, <1>11, <1>12,
     <1>13 DEF Next, Callback, Respond

(* firstWrite says, for the request being answered, whether its header is  *)
(* on the wire: the fact that makes WireOrder inductive.                   *)
THEOREM WireInvariant == Spec => []WireInv
BY WireInit, WireStep, PTL DEF Spec

(* Whatever plugins, servlet and exception handler write, and whatever the *)
(* client sends, what goes over the wire of a connection is a row of       *)
(* responses, each with one header in front and one end behind.            *)
THEOREM WireOrderHolds == Spec => []WireOrder
<1>1. WireInv => WireOrder
  BY DEF WireInv
<1>. QED
  BY WireInvariant, <1>1, PTL

-----------------------------------------------------------------------------
(* What the pre request plugins decide.                                    *)

(* While the list runs, the plugins before the current one have returned   *)
(* *ON, unless the exception handler left the list early.                  *)
AuthInv ==
  /\ TypeInv
  /\ pc \in {"receive", "payload", "dispatch"} =>
       ~ghost.vetoed /\ ghost.approvals = 0
  /\ pc = "pre" =>
       /\ ~ghost.vetoed
       /\ plugin \in 1..(PrePlugins + 1)
       /\ ghost.approvals = plugin - 1 \/ ghost.raised # "no"
  /\ ServletAuthorized

(* What has been counted of a request stays when bytes of it are left.     *)
LEMMA LeftKeeps ==
  ASSUME ghost \in Ghost, served \in Nat,
         ghost' = [ghost EXCEPT !.left = ghost.left \cup {served + 1}]
  PROVE  /\ ghost'.approvals = ghost.approvals /\ ghost'.vetoed = ghost.vetoed
         /\ ghost'.raised = ghost.raised
         /\ ghost'.left = ghost.left \cup {served + 1}
<1>1. PICK c \in SUBSET Nat :
        c = ghost.left \cup {served + 1} /\ ghost' = [ghost EXCEPT !.left = c]
  <2>1. ghost.left \cup {served + 1} \in SUBSET Nat
    BY DEF Ghost
  <2>. QED
    BY <2>1, Zenon
<1>2. /\ ghost'.approvals = ghost.approvals /\ ghost'.vetoed = ghost.vetoed
      /\ ghost'.raised = ghost.raised /\ ghost'.left = c
  BY <1>1 DEF Ghost
<1>. QED
  BY <1>1, <1>2

(* Receiving a request changes what is left, and nothing else that is      *)
(* counted.                                                                *)
LEMMA ReceiveCounts ==
  ASSUME ghost \in Ghost, served \in Nat, Receive
  PROVE  /\ ghost'.approvals = ghost.approvals /\ ghost'.vetoed = ghost.vetoed
         /\ ghost'.raised = ghost.raised
         /\ ghost'.left \in {ghost.left, ghost.left \cup {served + 1}}
<1>1. ghost' = ghost \/ ghost' = [ghost EXCEPT !.left = ghost.left \cup {served + 1}]
  <2>. USE DEF histVars
  <2>1. CASE receiveHeaderHTTP
    BY <2>1, Zenon DEF receiveHeaderHTTP
  <2>2. CASE receivePayloadGivesUp
    BY <2>2, Zenon DEF receivePayloadGivesUp
  <2>3. CASE lookForHeadersFails \/ receiveHeaderGivesUp \/ receiveHeaderTlsError
               \/ receivePayload \/ fcgiReceiveHeader \/ fcgiPayloadSpins
    BY <2>3 DEF lookForHeadersFails, receiveHeaderGivesUp, receiveHeaderTlsError,
                receivePayload, fcgiReceiveHeader, fcgiPayloadSpins, vars
  <2>. QED
    BY <2>1, <2>2, <2>3 DEF Receive
<1>. QED
  BY <1>1, LeftKeeps

(* No plugin has run at first. *)
LEMMA AuthInit == Init => AuthInv
<1>1. Init => TypeInv
  BY TypeInit
<1>. QED
  BY <1>1 DEF AuthInv, Init, ServletAuthorized, NoGhost

(* runPlugins counts one approval per plugin, or stops, or is cut short.   *)
LEMMA AuthStep == AuthInv /\ [Next]_vars => AuthInv'
<1>. SUFFICES ASSUME AuthInv, [Next]_vars PROVE AuthInv'
  OBVIOUS
<1>. USE DEF AuthInv, ServletAuthorized, histVars
<1>t. TypeInv'
  BY TypeStep
<1>g. /\ ghost \in Ghost /\ plugin \in Nat /\ PrePlugins \in Nat
      /\ ghost.approvals \in Nat
  BY RoundtripAssumption DEF TypeInv, TypeOK, Ghost
<1>1. CASE UNCHANGED vars
  BY <1>1, <1>t DEF vars
<1>2. CASE Environment
  BY <1>2, <1>t DEF Environment, Ask, Deliver, Hangup, Reset, fcgiAcceptFails,
                    serverVars
<1>3. CASE Receive
  <2>1. /\ ghost'.approvals = ghost.approvals /\ ghost'.vetoed = ghost.vetoed
        /\ ghost'.raised = ghost.raised
    BY <1>3, <1>g, ReceiveCounts DEF TypeInv, TypeOK
  <2>2. UNCHANGED plugin /\ pc \in {"receive", "payload"}
          /\ pc' \in {"receive", "payload", "dispatch", "closing", "died"}
    BY <1>3, ReceiveQuiet
  <2>. QED
    BY <1>t, <2>1, <2>2
<1>4. ASSUME NEW go \in BOOLEAN, runPreRequestPlugin(go) PROVE AuthInv'
  <2>1. CASE go
    <3>1. ghost' = [ghost EXCEPT !.approvals = ghost.approvals + 1]
            /\ plugin' = plugin + 1 /\ UNCHANGED pc /\ pc = "pre"
            /\ plugin <= PrePlugins
      BY <1>4, <2>1 DEF runPreRequestPlugin
    <3>2. /\ ghost'.approvals = ghost.approvals + 1
          /\ ghost'.vetoed = ghost.vetoed /\ ghost'.raised = ghost.raised
      BY <1>g, <3>1 DEF Ghost
    <3>. QED
      BY <1>g, <1>t, <3>1, <3>2
  <2>2. CASE ~go
    BY <1>4, <1>t, <2>2 DEF runPreRequestPlugin
  <2>. QED
    BY <2>1, <2>2
<1>5. ASSUME NEW go \in BOOLEAN, runPostResponsePlugin(go) PROVE AuthInv'
  BY <1>5, <1>t DEF runPostResponsePlugin
<1>6. CASE ServletReturns
  BY <1>6, <1>t DEF ServletReturns
<1>7. CASE putChunk
  BY <1>7, <1>t DEF putChunk
<1>8. ASSUME NEW s \in Statuses, SetStatus(s) PROVE AuthInv'
  BY <1>8, <1>t DEF SetStatus
<1>9. CASE handleServletException
  <2>1. PICK x \in {"clean", "late"} : ghost' = [ghost EXCEPT !.raised = x]
    BY <1>9 DEF handleServletException
  <2>2. /\ ghost'.approvals = ghost.approvals /\ ghost'.vetoed = ghost.vetoed
        /\ ghost'.raised # "no"
    BY <1>g, <2>1 DEF Ghost
  <2>3. pc \in {"pre", "servlet", "post"}
          /\ (UNCHANGED <<pc, plugin>>
               \/ (pc = "pre" /\ plugin' = PrePlugins + 1 /\ UNCHANGED pc)
               \/ pc' \in {"end", "post"})
    BY <1>9 DEF handleServletException, InCallback, InPlugin
  <2>. QED
    BY <1>g, <1>t, <2>2, <2>3
<1>10. CASE Dispatch
  BY <1>10, <1>g, <1>t DEF Dispatch
<1>11. CASE runServlet
  BY <1>11, <1>g, <1>t DEF runServlet
<1>12. CASE PluginsDone
  BY <1>12, <1>t DEF PluginsDone
<1>13. CASE putChunkEnd
  BY <1>13, <1>t DEF putChunkEnd
<1>14. CASE CheckConnection
  BY <1>14, <1>t DEF CheckConnection
<1>15. CASE cleanupTransaction
  <2>1. PICK c \in SUBSET Nat : ghost' = [NoGhost EXCEPT !.left = c]
    BY <1>15, <1>g, Zenon DEF cleanupTransaction, Ghost
  <2>2. ghost'.approvals = 0 /\ ~ghost'.vetoed
    BY <2>1 DEF NoGhost
  <2>. QED
    BY <1>15, <1>t, <2>2 DEF cleanupTransaction
<1>16. CASE CloseSocket \/ CertificateFault
  BY <1>16, <1>t DEF CloseSocket, CertificateFault
<1>17. CASE Terminated
  BY <1>1, <1>17 DEF Terminated
<1>. QED
  BY <1>1, <1>2, <1>3, <1>4, <1>5, <1>6, <1>7, <1>8, <1>9, <1>10, <1>11, <1>12,
     <1>13, <1>14, <1>15, <1>16, <1>17 DEF Next, Returns, Callback, Respond

(* The servlet is called only when every pre request plugin has let the    *)
(* request pass or the exception handler cut the list short, and never     *)
(* when one has refused it, for any number of plugins.                     *)
THEOREM ServletIsAuthorized == Spec => []ServletAuthorized
<1>1. AuthInv => ServletAuthorized
  BY DEF AuthInv
<1>. QED
  BY AuthInit, AuthStep, <1>1, PTL DEF Spec
=============================================================================

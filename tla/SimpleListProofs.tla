-------------------------- MODULE SimpleListProofs --------------------------
(***************************************************************************)
(* Proofs about SimpleList, for any set of nodes.                          *)
(***************************************************************************)
EXTENDS SimpleList, SequenceTheorems, TLAPS

(* s is a row of different nodes that are all allocated. *)
Row(s) ==
  /\ s \in Seq(Nodes)
  /\ \A i \in 1..Len(s) : s[i] \in alive
  /\ \A i, j \in 1..Len(s) : s[i] = s[j] => i = j

Covers(s) == \A n \in alive : \E i \in 1..Len(s) : s[i] = n

(* s is what hangs together from pHead on, and pTail its last node, or     *)
(* nothing, or the end of nodes that are not in the list.                  *)
Linked(s) ==
  /\ Row(s)
  /\ Chain(pHead, s)
  /\ ~mixed => s = order /\ Covers(s)
  /\ firstAt = "none" => s = <<>> /\ pTail = Null /\ ~mixed
  /\ firstAt = "tail" => s # <<>> /\ pTail = s[Len(s)] /\ ~mixed
  /\ firstAt = "head" => /\ s # <<>>
                         /\ ~mixed => pTail = Null
                         /\ mixed => pTail # Null
                         /\ \A i \in 1..Len(s) : s[i] # pTail
  /\ pTail # Null => pNext[pTail] = Null

(* Where an iterator is in the list it was set on. *)
Iterating ==
  ~mixed =>
    /\ \A i \in 1..Len(snapshot) : snapshot[i] \in alive
    /\ \A i \in 1..(Len(snapshot) - 1) : pNext[snapshot[i]] = snapshot[i + 1]
    /\ \A i \in 1..Len(snapshot) : i <= Len(visited) => visited[i] = snapshot[i]
    /\ iterator.hasNext /\ Len(visited) < Len(snapshot)
         => iterator.next = snapshot[Len(visited) + 1]
    /\ ~iterator.hasNext => Len(snapshot) <= Len(visited)

(* s is what sList_free still has to free. *)
Left(s) ==
  /\ Row(s)
  /\ Chain(cursor, s)
  /\ ~mixed => Covers(s)

ListInv ==
  /\ ListTypeOK
  /\ phase = "open" => (\E s \in Seq(Nodes) : Linked(s)) /\ Iterating
                       /\ length = Len(order)
  /\ phase = "freeing" => \E s \in Seq(Nodes) : Left(s)
  /\ phase = "freed" /\ ~mixed => alive = {}

(* An empty list is linked. *)
LEMMA ListInit == Init => ListInv
<1>. SUFFICES ASSUME Init PROVE ListInv
  OBVIOUS
<1>1. <<>> \in Seq(Nodes) /\ Len(<<>>) = 0
  BY EmptySeq
<1>2. ListTypeOK
  BY <1>1 DEF Init, ListTypeOK, Pointer, Iterator
<1>3. Linked(<<>>)
  BY <1>1 DEF Init, Linked, Row, Chain, Covers
<1>4. Iterating
  BY <1>1 DEF Init, Iterating
<1>. QED
  BY <1>1, <1>2, <1>3, <1>4 DEF Init, ListInv

(* The types after a push. *)
LEMMA PushType ==
  ASSUME ListInv, NEW n \in Nodes, NEW head \in BOOLEAN, NewNode(n, head),
         pHead' \in alive' \cup {Null}, pTail' \in alive' \cup {Null},
         pNext' \in [Nodes -> Pointer], UNCHANGED <<iterVars, freeVars>>
  PROVE  ListTypeOK' /\ length' = Len(order')
<1>1. <<n>> \in Seq(Nodes) /\ Len(<<n>>) = 1
  OBVIOUS
<1>2. order' \in Seq(Nodes) /\ Len(order') = Len(order) + 1
  BY <1>1, ConcatProperties, AppendProperties DEF ListInv, ListTypeOK, NewNode
<1>3. firstAt' \in {"none", "head", "tail"} /\ mixed' \in BOOLEAN
  BY DEF ListInv, ListTypeOK, NewNode
<1>4. Len(order) \in Nat
  BY DEF ListInv, ListTypeOK
<1>. QED
  BY <1>2, <1>3, <1>4
  DEF ListInv, ListTypeOK, NewNode, Pointer, Iterator, iterVars, freeVars

(* A push touches no link between the nodes an iterator was set on. *)
LEMMA PushIterating ==
  ASSUME ListInv, NEW n \in Nodes, NEW head \in BOOLEAN, NewNode(n, head),
         \A m \in alive : m # pTail => pNext'[m] = pNext[m],
         pTail # Null => pNext[pTail] = Null,
         UNCHANGED <<iterVars, freeVars>>
  PROVE  Iterating'
<1>1. Iterating /\ ListTypeOK
  BY DEF ListInv, NewNode
<1>2. alive \subseteq alive' /\ (~mixed' => ~mixed)
  BY <1>1 DEF NewNode, ListTypeOK
<1>3. iterator' = iterator /\ snapshot' = snapshot /\ visited' = visited
  BY DEF iterVars
<1>4. ASSUME ~mixed', NEW i \in 1..(Len(snapshot) - 1)
      PROVE  pNext'[snapshot[i]] = snapshot[i + 1]
  <2>1. i \in 1..Len(snapshot) /\ i + 1 \in 1..Len(snapshot)
    BY <1>1 DEF ListTypeOK
  <2>2. snapshot[i] \in alive /\ snapshot[i + 1] \in Nodes
    BY <1>1, <1>2, <1>4, <2>1 DEF Iterating, ListTypeOK
  <2>3. pNext[snapshot[i]] = snapshot[i + 1]
    BY <1>1, <1>2, <1>4 DEF Iterating
  <2>4. snapshot[i] # pTail
    BY <2>2, <2>3, <1>1, ListAssumption DEF ListTypeOK
  <2>. QED
    BY <2>2, <2>3, <2>4
<1>. QED
  BY <1>1, <1>2, <1>3, <1>4 DEF Iterating

(* A push at the head puts the node in front of the chain. *)
LEMMA PushHead ==
  ASSUME ListInv, NEW n \in Nodes, pushHead(n)
  PROVE  ListInv'
<1>1. ListTypeOK /\ phase = "open" /\ phase' = "open"
  BY DEF ListInv, pushHead, NewNode, freeVars
<1>2. PICK s \in Seq(Nodes) : Linked(s)
  BY <1>1 DEF ListInv
<1>3. n \notin alive /\ alive' = alive \cup {n} /\ pTail' = pTail /\ pHead' = n
      /\ pNext' = [pNext EXCEPT ![n] = pHead]
  BY DEF pushHead, NewNode
<1>4. pNext'[n] = pHead /\ \A m \in alive : pNext'[m] = pNext[m]
  BY <1>1, <1>3 DEF ListTypeOK
<1>5. pTail # Null => pTail \in alive /\ pNext[pTail] = Null
  BY <1>1, <1>2 DEF Linked, ListTypeOK
<1>. DEFINE t == <<n>> \o s
<1>6. /\ <<n>> \in Seq(Nodes) /\ Len(<<n>>) = 1 /\ <<n>>[1] = n
  OBVIOUS
<1>7. /\ t \in Seq(Nodes) /\ Len(s) \in Nat /\ Len(t) = Len(s) + 1
      /\ t[1] = n /\ \A i \in 1..Len(s) : t[i + 1] = s[i]
  BY <1>6, ConcatProperties
<1>8. \A i \in 2..Len(t) : i - 1 \in 1..Len(s) /\ t[i] = s[i - 1]
  BY <1>7
<1>9. Row(t)'
  <2>1. \A i \in 1..Len(t) : t[i] \in alive'
    BY <1>2, <1>3, <1>7, <1>8 DEF Linked, Row
  <2>2. ASSUME NEW i \in 1..Len(t), NEW j \in 1..Len(t), t[i] = t[j] PROVE i = j
    <3>1. \A k \in 2..Len(t) : t[k] # n
      BY <1>2, <1>3, <1>8 DEF Linked, Row
    <3>2. CASE i = 1 \/ j = 1
      BY <2>2, <3>1, <3>2, <1>7
    <3>3. CASE i # 1 /\ j # 1
      <4>1. i \in 2..Len(t) /\ j \in 2..Len(t)
        BY <3>3, <1>7
      <4>2. s[i - 1] = s[j - 1] /\ i - 1 \in 1..Len(s) /\ j - 1 \in 1..Len(s)
        BY <4>1, <1>8, <2>2
      <4>3. i - 1 = j - 1
        BY <4>2, <1>2 DEF Linked, Row
      <4>. QED
        BY <4>3, <4>1
    <3>. QED
      BY <3>2, <3>3
  <2>. QED
    BY <1>7, <2>1, <2>2 DEF Row
<1>10. Chain(pHead, t)'
  <2>1. t # <<>> /\ t[1] = pHead'
    BY <1>3, <1>7, EmptySeq
  <2>2. \A i \in 1..Len(t) : t[i] \in Nodes
    BY <1>7
  <2>3. CASE s = <<>>
    <3>1. Len(t) = 1 /\ pHead = Null
      BY <2>3, <1>2, <1>7 DEF Linked, Chain
    <3>. QED
      BY <2>1, <3>1, <1>4, <1>7 DEF Chain
  <2>4. CASE s # <<>>
    <3>1. Len(s) >= 1 /\ pHead = s[1]
      BY <2>4, <1>2, <1>7, EmptySeq DEF Linked, Chain
    <3>2. pNext'[t[Len(t)]] = Null
      <4>1. t[Len(t)] = s[Len(s)] /\ s[Len(s)] \in alive
        BY <3>1, <1>2, <1>7 DEF Linked, Row
      <4>. QED
        BY <4>1, <2>4, <1>2, <1>4 DEF Linked, Chain
    <3>3. ASSUME NEW i \in 1..(Len(t) - 1) PROVE pNext'[t[i]] = t[i + 1]
      <4>1. CASE i = 1
        BY <4>1, <3>1, <1>4, <1>7
      <4>2. CASE i # 1
        <5>1. i \in 2..Len(t) /\ i - 1 \in 1..(Len(s) - 1) /\ i \in 1..Len(s)
          BY <4>2, <3>3, <1>7
        <5>2. t[i] = s[i - 1] /\ t[i + 1] = s[i] /\ s[i - 1] \in alive
          BY <5>1, <1>2, <1>7, <1>8 DEF Linked, Row
        <5>3. pNext[s[i - 1]] = s[(i - 1) + 1]
          BY <5>1, <2>4, <1>2 DEF Linked, Chain
        <5>. QED
          BY <5>1, <5>2, <5>3, <1>4
      <4>. QED
        BY <4>1, <4>2
    <3>. QED
      BY <2>1, <3>2, <3>3 DEF Chain
  <2>. QED
    BY <2>3, <2>4
<1>11. Linked(t)'
  <2>1. mixed' = mixed /\ order' = <<n>> \o order
        /\ firstAt' = IF firstAt # "none" THEN firstAt ELSE "head"
    BY <1>1 DEF pushHead, NewNode, ListTypeOK
  <2>2. t # <<>>
    BY <1>7, EmptySeq
  <2>3. ~mixed' => t = order' /\ Covers(t)'
    BY <2>1, <1>2, <1>3, <1>7 DEF Linked, Covers
  <2>4. firstAt = "tail" => t[Len(t)] = pTail /\ ~mixed
    BY <1>2, <1>7, EmptySeq DEF Linked
  <2>5. firstAt # "tail" => \A i \in 1..Len(t) : t[i] # pTail
    <3>1. n # pTail
      BY <1>3, <1>5, ListAssumption
    <3>2. ASSUME firstAt # "tail", NEW i \in 1..Len(s) PROVE s[i] # pTail
      <4>1. CASE firstAt = "none"
        BY <1>2, <3>2, <4>1 DEF Linked
      <4>2. CASE firstAt = "head"
        BY <1>2, <3>2, <4>2 DEF Linked
      <4>. QED
        BY <1>1, <3>2, <4>1, <4>2 DEF ListTypeOK
    <3>. QED
      BY <3>1, <3>2, <1>7, <1>8
  <2>6. firstAt # "tail" => (~mixed => pTail = Null) /\ (mixed => pTail # Null)
    BY <1>1, <1>2 DEF Linked, ListTypeOK
  <2>7. pTail # Null => pNext'[pTail] = Null
    BY <1>4, <1>5
  <2>8. firstAt' # "none" /\ (firstAt' = "tail" => firstAt = "tail")
        /\ (firstAt' = "head" => firstAt # "tail")
    BY <2>1, <1>1 DEF ListTypeOK
  <2>. QED
    BY <2>1, <2>2, <2>3, <2>4, <2>5, <2>6, <2>7, <2>8, <1>3, <1>9, <1>10 DEF Linked
<1>12. ListTypeOK' /\ length' = Len(order')
  <2>1. pHead' \in alive' \cup {Null} /\ pTail' \in alive' \cup {Null}
    BY <1>1, <1>3 DEF ListTypeOK
  <2>2. pNext' \in [Nodes -> Pointer]
    BY <1>1, <1>3 DEF ListTypeOK
  <2>. QED
    BY <2>1, <2>2, PushType DEF pushHead
<1>13. Iterating'
  BY <1>4, <1>5, PushIterating DEF pushHead
<1>. QED
  BY <1>1, <1>7, <1>11, <1>12, <1>13 DEF ListInv

(* A push at the tail puts the node behind the chain, or, when the list    *)
(* was begun at the head, behind nodes that are not in it.                 *)
LEMMA PushTail ==
  ASSUME ListInv, NEW n \in Nodes, pushTail(n)
  PROVE  ListInv'
<1>1. ListTypeOK /\ phase = "open" /\ phase' = "open"
  BY DEF ListInv, pushTail, NewNode, freeVars
<1>2. PICK s \in Seq(Nodes) : Linked(s)
  BY <1>1 DEF ListInv
<1>3. n \notin alive /\ alive' = alive \cup {n} /\ pTail' = n
      /\ pHead' = (IF pHead = Null THEN n ELSE pHead)
      /\ mixed' = (mixed \/ firstAt = "head")
      /\ order' = Append(order, n)
      /\ firstAt' = (IF firstAt # "none" THEN firstAt ELSE "tail")
  BY DEF pushTail, NewNode
<1>4. pTail \in alive \cup {Null} /\ (pTail # Null => pNext[pTail] = Null)
  BY <1>1, <1>2 DEF Linked, ListTypeOK
<1>5. /\ pNext' \in [Nodes -> Pointer]
      /\ pNext'[n] = Null
      /\ \A m \in alive : m # pTail => pNext'[m] = pNext[m]
      /\ pTail # Null => pNext'[pTail] = n
  BY <1>1, <1>3, <1>4, ListAssumption DEF pushTail, ListTypeOK, Pointer
<1>6. Len(s) \in Nat /\ \A i \in 1..Len(s) : s[i] \in alive /\ s[i] # n
  BY <1>2, <1>3 DEF Linked, Row
<1>7. \E t \in Seq(Nodes) : Linked(t)'
  <2>1. CASE firstAt = "none"
    <3>1. s = <<>> /\ Len(s) = 0 /\ pHead = Null /\ ~mixed /\ s = order /\ Covers(s)
      BY <2>1, <1>2, EmptySeq DEF Linked, Chain
    <3>. DEFINE t == Append(s, n)
    <3>2. t \in Seq(Nodes) /\ t # <<>> /\ Len(t) = 1 /\ t[1] = n
      BY <3>1, AppendProperties
    <3>3. Row(t)'
      BY <3>2, <1>3 DEF Row
    <3>4. Chain(pHead, t)'
      BY <3>1, <3>2, <1>3, <1>5 DEF Chain
    <3>5. Covers(t)'
      <4>1. alive = {}
        BY <3>1 DEF Covers
      <4>. QED
        BY <4>1, <3>2, <1>3 DEF Covers
    <3>6. Linked(t)'
      BY <2>1, <3>1, <3>2, <3>3, <3>4, <3>5, <1>3, <1>5 DEF Linked
    <3>. QED
      BY <3>2, <3>6
  <2>2. CASE firstAt = "tail"
    <3>1. s # <<>> /\ Len(s) >= 1 /\ pTail = s[Len(s)] /\ pHead = s[1] /\ ~mixed
          /\ s = order /\ Covers(s)
      BY <2>2, <1>2, <1>6, EmptySeq DEF Linked, Chain
    <3>. DEFINE t == Append(s, n)
    <3>2. /\ t \in Seq(Nodes) /\ t # <<>> /\ Len(t) = Len(s) + 1
          /\ \A i \in 1..Len(s) : t[i] = s[i]
          /\ t[Len(s) + 1] = n
      BY AppendProperties
    <3>3. Row(t)'
      <4>1. \A i \in 1..Len(t) : t[i] \in alive'
        BY <3>2, <1>3, <1>6
      <4>2. ASSUME NEW i \in 1..Len(t), NEW j \in 1..Len(t), t[i] = t[j] PROVE i = j
        <5>1. CASE i \in 1..Len(s) /\ j \in 1..Len(s)
          BY <4>2, <5>1, <3>2, <1>2 DEF Linked, Row
        <5>2. CASE i = Len(s) + 1 \/ j = Len(s) + 1
          BY <4>2, <5>2, <3>2, <1>6
        <5>. QED
          BY <5>1, <5>2, <3>2, <1>6
      <4>. QED
        BY <3>2, <4>1, <4>2 DEF Row
    <3>4. Chain(pHead, t)'
      <4>1. s[1] # Null /\ pHead' = t[1]
        BY <3>1, <3>2, <1>2, <1>3, <1>6, ListAssumption
      <4>2. \A i \in 1..(Len(s) - 1) : s[i] # pTail /\ s[i] \in alive
        <5>1. \A i \in 1..(Len(s) - 1) : i \in 1..Len(s) /\ Len(s) \in 1..Len(s) /\ i # Len(s)
          BY <3>1, <1>6
        <5>. QED
          BY <5>1, <3>1, <1>2, <1>6 DEF Linked, Row
      <4>3. \A i \in 1..(Len(s) - 1) : pNext'[s[i]] = s[i + 1]
        BY <4>2, <3>1, <1>2, <1>5 DEF Linked, Chain
      <4>4. pNext'[s[Len(s)]] = n
        BY <3>1, <1>5, <1>6, ListAssumption
      <4>5. \A i \in 1..(Len(t) - 1) : pNext'[t[i]] = t[i + 1]
        BY <4>3, <4>4, <3>1, <3>2, <1>6
      <4>. QED
        BY <4>1, <4>5, <3>2, <1>5, <1>6 DEF Chain
    <3>5. Covers(t)'
      BY <3>1, <3>2, <1>3, <1>6 DEF Covers
    <3>6. Linked(t)'
      BY <2>2, <3>1, <3>2, <3>3, <3>4, <3>5, <1>3, <1>5, <1>6 DEF Linked
    <3>. QED
      BY <3>2, <3>6
  <2>3. CASE firstAt = "head"
    <3>1. s # <<>> /\ Len(s) >= 1 /\ pHead = s[1] /\ \A i \in 1..Len(s) : s[i] # pTail
      BY <2>3, <1>2, <1>6, EmptySeq DEF Linked, Chain
    <3>2. pHead' = s[1]
      BY <3>1, <1>3, <1>6, ListAssumption
    <3>3. Row(s)'
      BY <1>2, <1>3 DEF Linked, Row
    <3>4. \A i \in 1..Len(s) : pNext'[s[i]] = pNext[s[i]]
      BY <3>1, <1>5, <1>6
    <3>5. Chain(pHead, s)'
      <4>1. \A i \in 1..(Len(s) - 1) : i \in 1..Len(s)
        BY <1>6
      <4>. QED
        BY <4>1, <3>1, <3>2, <3>4, <1>2 DEF Linked, Chain
    <3>6. Linked(s)'
      BY <2>3, <3>1, <3>3, <3>5, <1>3, <1>5, <1>6, ListAssumption DEF Linked
    <3>. QED
      BY <3>6
  <2>. QED
    BY <1>1, <2>1, <2>2, <2>3 DEF ListTypeOK
<1>8. ListTypeOK' /\ length' = Len(order')
  <2>1. pHead' \in alive' \cup {Null} /\ pTail' \in alive' \cup {Null}
    BY <1>1, <1>3 DEF ListTypeOK
  <2>. QED
    BY <2>1, <1>5, PushType DEF pushTail
<1>9. Iterating'
  BY <1>4, <1>5, PushIterating DEF pushTail
<1>. QED
  BY <1>1, <1>7, <1>8, <1>9 DEF ListInv

(* Setting an iterator puts it in front of the whole list. *)
LEMMA SetIterator ==
  ASSUME ListInv, sList_setIterator
  PROVE  ListInv'
<1>1. ListTypeOK /\ phase = "open" /\ UNCHANGED <<listVars, freeVars, pushVars>>
  BY DEF ListInv, sList_setIterator
<1>2. PICK s \in Seq(Nodes) : Linked(s)
  BY <1>1 DEF ListInv
<1>3. Linked(s)'
  BY <1>1, <1>2
  DEF Linked, Row, Chain, Covers, listVars, freeVars, pushVars
<1>4. <<>> \in Seq(Nodes) /\ Len(<<>>) = 0
  BY EmptySeq
<1>5. ListTypeOK'
  BY <1>1, <1>4
  DEF ListTypeOK, sList_setIterator, Iterator, Pointer, listVars, freeVars, pushVars
<1>6. Iterating'
  <2>1. snapshot' = order /\ visited' = <<>> /\ iterator'.next = pHead
        /\ iterator'.hasNext = (pHead # Null)
        /\ UNCHANGED <<alive, mixed, pNext>>
    BY <1>1 DEF sList_setIterator, listVars, pushVars
  <2>2. pHead \in alive \cup {Null}
    BY <1>1 DEF ListTypeOK
  <2>3. CASE mixed
    BY <2>1, <2>2, <2>3 DEF Iterating
  <2>4. CASE ~mixed
    <3>1. s = order /\ Row(order) /\ Chain(pHead, order) /\ Len(order) \in Nat
          /\ ~mixed'
      BY <2>1, <2>4, <1>1, <1>2 DEF Linked, ListTypeOK
    <3>2. \A i \in 1..Len(order) : order[i] \in alive
      BY <3>1 DEF Row
    <3>3. CASE order = <<>>
      BY <3>1, <3>2, <3>3, <2>1, <2>2, <1>4 DEF Iterating, Chain
    <3>4. CASE order # <<>>
      <4>1. Len(order) >= 1 /\ pHead = order[1] /\ pHead # Null
            /\ \A i \in 1..(Len(order) - 1) : pNext[order[i]] = order[i + 1]
        BY <3>1, <3>2, <3>4, <1>1, EmptySeq, ListAssumption DEF Chain, ListTypeOK
      <4>. QED
        <5>1. iterator'.hasNext /\ Len(visited') = 0 /\ snapshot'[1] = iterator'.next
          BY <4>1, <2>1, <1>4
        <5>2. \A i \in 1..(Len(order) - 1) : pNext'[snapshot'[i]] = snapshot'[i + 1]
          BY <4>1, <2>1
        <5>3. \A i \in 1..Len(snapshot') : snapshot'[i] \in alive'
          BY <3>2, <2>1
        <5>. QED
          BY <5>1, <5>2, <5>3, <3>1, <2>1, <2>2 DEF Iterating
    <3>. QED
      BY <3>3, <3>4
  <2>. QED
    BY <2>3, <2>4
<1>. QED
  BY <1>1, <1>3, <1>5, <1>6 DEF ListInv, freeVars, listVars, pushVars

(* A step of the iterator returns the next node of the list it was set on. *)
LEMMA Foreach ==
  ASSUME ListInv, sList_foreach
  PROVE  ListInv'
<1>1. ListTypeOK /\ Iterating /\ phase = "open" /\ length = Len(order)
      /\ UNCHANGED <<listVars, freeVars, pushVars, snapshot>>
  BY DEF ListInv, sList_foreach
<1>2. PICK s \in Seq(Nodes) : Linked(s)
  BY <1>1 DEF ListInv
<1>3. Linked(s)'
  BY <1>1, <1>2
  DEF Linked, Row, Chain, Covers, listVars, freeVars, pushVars
<1>. DEFINE n == iterator.next
<1>4. n # Null => n \in Nodes /\ pNext[n] \in Pointer
  BY <1>1 DEF ListTypeOK, Iterator, Pointer
<1>5. CASE n = Null
  <2>1. iterator' = [this |-> Null, next |-> Null, hasNext |-> FALSE]
        /\ visited' = visited
    BY <1>5 DEF sList_foreach
  <2>2. ListTypeOK'
    BY <1>1, <2>1
    DEF ListTypeOK, Iterator, Pointer, listVars, freeVars, pushVars
  <2>3. ~mixed => Len(snapshot) <= Len(visited)
    <3>1. ASSUME ~mixed, Len(visited) < Len(snapshot) PROVE FALSE
      <4>1. n = snapshot[Len(visited) + 1]
        BY <1>1, <3>1 DEF Iterating, sList_foreach
      <4>2. Len(visited) + 1 \in 1..Len(snapshot)
        BY <1>1, <3>1 DEF ListTypeOK
      <4>3. snapshot \in Seq(Nodes)
        BY <1>1 DEF ListTypeOK
      <4>4. snapshot[Len(visited) + 1] \in Nodes
        BY <4>2, <4>3, ElementOfSeq
      <4>. QED
        BY <4>1, <4>4, <1>5, ListAssumption
    <3>. QED
      BY <3>1, <1>1 DEF ListTypeOK
  <2>4. Iterating'
    BY <1>1, <2>1, <2>3 DEF Iterating, listVars, pushVars
  <2>. QED
    BY <1>1, <1>3, <2>2, <2>4 DEF ListInv, freeVars, listVars, pushVars
<1>6. CASE n # Null
  <2>1. /\ iterator' = [this |-> n, next |-> pNext[n], hasNext |-> TRUE]
        /\ visited' = Append(visited, n)
        /\ iterator.hasNext
    BY <1>6 DEF sList_foreach
  <2>2. /\ visited' \in Seq(Nodes) /\ Len(visited') = Len(visited) + 1
        /\ \A i \in 1..Len(visited) : visited'[i] = visited[i]
        /\ visited'[Len(visited) + 1] = n
    BY <2>1, <1>1, <1>4, <1>6, AppendProperties DEF ListTypeOK
  <2>3. ListTypeOK'
    BY <1>1, <1>4, <1>6, <2>1, <2>2
    DEF ListTypeOK, Iterator, Pointer, listVars, freeVars, pushVars
  <2>5. Len(visited) \in Nat /\ Len(snapshot) \in Nat
    BY <1>1 DEF ListTypeOK
  <2>6. ASSUME ~mixed, NEW i \in 1..Len(snapshot), i <= Len(visited')
        PROVE  visited'[i] = snapshot[i]
    <3>1. CASE i <= Len(visited)
      BY <3>1, <2>2, <2>5, <2>6, <1>1 DEF Iterating
    <3>2. CASE i = Len(visited) + 1
      BY <3>2, <2>1, <2>2, <2>5, <2>6, <1>1 DEF Iterating
    <3>. QED
      BY <3>1, <3>2, <2>2, <2>5, <2>6
  <2>7. ASSUME ~mixed, Len(visited') < Len(snapshot)
        PROVE  pNext[n] = snapshot[Len(visited') + 1]
    <3>. DEFINE k == Len(visited) + 1
    <3>1. k \in 1..(Len(snapshot) - 1) /\ Len(visited') = k
      BY <2>2, <2>5, <2>7
    <3>2. n = snapshot[k]
      BY <3>1, <2>1, <2>5, <2>7, <1>1 DEF Iterating
    <3>. QED
      BY <3>1, <3>2, <2>7, <1>1 DEF Iterating
  <2>8. Iterating'
    BY <1>1, <2>1, <2>6, <2>7 DEF Iterating, listVars, pushVars
  <2>. QED
    BY <1>1, <1>3, <2>3, <2>8 DEF ListInv, freeVars, listVars, pushVars
<1>. QED
  BY <1>5, <1>6

(* sList_free begins with the whole chain before it. *)
LEMMA FreeBegins ==
  ASSUME ListInv, sList_free
  PROVE  ListInv'
<1>1. ListTypeOK /\ phase' = "freeing" /\ cursor' = pHead
      /\ pHead \in alive \cup {Null}
      /\ UNCHANGED <<listVars, iterVars, pushVars>>
  BY DEF ListInv, sList_free, ListTypeOK
<1>2. PICK s \in Seq(Nodes) : Linked(s)
  BY DEF ListInv, sList_free
<1>3. Left(s)'
  BY <1>1, <1>2 DEF Linked, Left, Row, Chain, Covers, listVars, pushVars
<1>4. ListTypeOK'
  BY <1>1 DEF ListTypeOK, listVars, iterVars, pushVars
<1>. QED
  BY <1>1, <1>3, <1>4 DEF ListInv

(* Freeing a node leaves the rest of the chain. *)
LEMMA FreeNode ==
  ASSUME ListInv, freeNode
  PROVE  ListInv'
<1>1. /\ ListTypeOK /\ phase = "freeing" /\ phase' = "freeing" /\ cursor # Null
      /\ cursor' = pNext[cursor] /\ alive' = alive \ {cursor}
      /\ UNCHANGED <<pHead, pTail, length, pNext, iterVars, pushVars>>
  BY DEF ListInv, freeNode
<1>2. PICK s \in Seq(Nodes) : Left(s)
  BY <1>1 DEF ListInv
<1>3. s # <<>> /\ cursor = s[1] /\ Len(s) \in Nat /\ Len(s) >= 1
  BY <1>1, <1>2, EmptySeq DEF Left, Chain
<1>4. PICK t \in Seq(Nodes) :
        /\ Len(t) = Len(s) - 1
        /\ \A i \in 1..Len(t) : i + 1 \in 1..Len(s) /\ t[i] = s[i + 1]
  <2>1. /\ Tail(s) \in Seq(Nodes) /\ Len(Tail(s)) = Len(s) - 1
        /\ \A i \in 1..Len(Tail(s)) : i + 1 \in 1..Len(s) /\ Tail(s)[i] = s[i + 1]
    BY <1>3, HeadTailProperties
  <2>. QED
    BY <2>1
<1>5. Row(t)'
  <2>1. ASSUME NEW i \in 1..Len(t) PROVE t[i] \in alive'
    BY <1>1, <1>2, <1>3, <1>4 DEF Left, Row
  <2>2. ASSUME NEW i \in 1..Len(t), NEW j \in 1..Len(t), t[i] = t[j] PROVE i = j
    <3>1. i + 1 = j + 1
      BY <2>2, <1>2, <1>4 DEF Left, Row
    <3>. QED
      BY <3>1, <1>3, <1>4
  <2>. QED
    BY <1>4, <2>1, <2>2 DEF Row
<1>6. Chain(cursor, t)'
  <2>1. CASE Len(s) = 1
    <3>1. t = <<>>
      BY <2>1, <1>4, EmptySeq
    <3>. QED
      BY <3>1, <2>1, <1>1, <1>2, <1>3 DEF Left, Chain
  <2>2. CASE Len(s) # 1
    <3>1. Len(t) >= 1 /\ t # <<>> /\ t[1] = s[2] /\ t[Len(t)] = s[Len(s)]
      <4>1. Len(t) \in Nat /\ Len(t) >= 1 /\ Len(t) + 1 = Len(s)
        BY <2>2, <1>3, <1>4
      <4>2. t # <<>>
        BY <4>1, EmptySeq
      <4>3. 1 \in 1..Len(t) /\ Len(t) \in 1..Len(t)
        BY <4>1
      <4>4. t[1] = s[1 + 1] /\ t[Len(t)] = s[Len(t) + 1]
        BY <4>3, <1>4
      <4>. QED
        BY <4>1, <4>2, <4>4
    <3>2. \A i \in 1..(Len(s) - 1) : pNext[s[i]] = s[i + 1]
      <4>1. Chain(cursor, s)
        BY <1>2 DEF Left
      <4>. QED
        BY <4>1, <1>3 DEF Chain
    <3>3. pNext[s[1]] = t[1]
      <4>1. Len(s) - 1 = Len(t) /\ Len(t) \in Nat
        BY <1>4
      <4>2. 1 \in 1..(Len(s) - 1)
        BY <4>1, <3>1
      <4>. QED
        BY <4>2, <3>1, <3>2
    <3>4. ASSUME NEW i \in 1..(Len(t) - 1) PROVE pNext[t[i]] = t[i + 1]
      <4>1. i + 1 \in 1..(Len(s) - 1) /\ t[i] = s[i + 1] /\ t[i + 1] = s[(i + 1) + 1]
        BY <1>3, <1>4
      <4>. QED
        BY <4>1, <3>2
    <3>5. pNext[t[Len(t)]] = Null
      BY <3>1, <1>2, <1>3 DEF Left, Chain
    <3>. QED
      BY <3>1, <3>3, <3>4, <3>5, <1>1, <1>3 DEF Chain
  <2>. QED
    BY <2>1, <2>2
<1>7. ~mixed' => Covers(t)'
  <2>1. ASSUME ~mixed, NEW n \in alive, n # cursor
        PROVE  \E i \in 1..Len(t) : t[i] = n
    <3>1. PICK i \in 1..Len(s) : s[i] = n
      BY <2>1, <1>2 DEF Left, Covers
    <3>2. i - 1 \in 1..Len(t) /\ t[i - 1] = s[i]
      BY <3>1, <2>1, <1>3, <1>4
    <3>. QED
      BY <3>1, <3>2
  <2>. QED
    BY <2>1, <1>1 DEF Covers, pushVars
<1>8. cursor' \in alive' \cup {Null}
  <2>1. CASE t = <<>>
    BY <2>1, <1>6 DEF Chain
  <2>2. CASE t # <<>>
    BY <2>2, <1>4, <1>5, <1>6, EmptySeq DEF Chain, Row
  <2>. QED
    BY <2>1, <2>2
<1>9. ListTypeOK'
  BY <1>1, <1>8 DEF ListTypeOK, iterVars, pushVars
<1>. QED
  BY <1>1, <1>4, <1>5, <1>6, <1>7, <1>9 DEF ListInv, Left

(* At the end of the chain nothing is left. *)
LEMMA FreeList ==
  ASSUME ListInv, freeList
  PROVE  ListInv'
<1>1. /\ ListTypeOK /\ phase = "freeing" /\ phase' = "freed" /\ cursor = Null
      /\ UNCHANGED <<listVars, iterVars, cursor, pushVars>>
  BY DEF ListInv, freeList
<1>2. PICK s \in Seq(Nodes) : Left(s)
  BY <1>1 DEF ListInv
<1>3. s = <<>>
  <2>1. ASSUME s # <<>> PROVE FALSE
    <3>1. Null = s[1]
      BY <2>1, <1>1, <1>2 DEF Left, Chain
    <3>2. Len(s) \in Nat /\ Len(s) # 0
      BY <2>1, EmptySeq
    <3>3. 1 \in 1..Len(s)
      BY <3>2
    <3>. QED
      BY <3>1, <3>3, ListAssumption, ElementOfSeq
  <2>. QED
    BY <2>1
<1>4. ~mixed => alive = {}
  BY <1>2, <1>3, EmptySeq DEF Left, Covers
<1>5. ListTypeOK'
  BY <1>1 DEF ListTypeOK, listVars, iterVars, pushVars
<1>. QED
  BY <1>1, <1>4, <1>5 DEF ListInv, listVars, pushVars

(* A step that changes nothing. *)
LEMMA ListStutter ==
  ASSUME ListInv, UNCHANGED vars
  PROVE  ListInv'
BY DEF ListInv, ListTypeOK, Linked, Left, Iterating, Row, Chain, Covers, vars,
       listVars, iterVars, freeVars, pushVars

(* In every reachable state the list hangs together as it was pushed, an   *)
(* iterator is where it should be, and sList_free has the rest before it.  *)
THEOREM ListInvariant == Spec => []ListInv
<1>1. ListInv /\ [Next]_vars => ListInv'
  <2>. SUFFICES ASSUME ListInv, [Next]_vars PROVE ListInv'
    OBVIOUS
  <2>1. CASE sList_push
    BY <2>1, PushHead, PushTail DEF sList_push
  <2>. QED
    BY <2>1, SetIterator, Foreach, FreeBegins, FreeNode, FreeList, ListStutter
    DEF Next, Terminated
<1>. QED
  BY <1>1, ListInit, PTL DEF Spec

(* Neither the list nor the loop that frees it holds a freed node.         *)
THEOREM ListTypeCorrect == Spec => []ListTypeOK
<1>1. ListInv => ListTypeOK
  BY DEF ListInv
<1>. QED
  BY <1>1, ListInvariant, PTL

(* Pushes at both ends give the list they describe, unless a list begun at *)
(* the head was continued at the tail.                                     *)
THEOREM ListRepresents == Spec => []Represents
<1>1. ListInv => Represents
  <2>. SUFFICES ASSUME ListInv, phase = "open", ~mixed
                PROVE  Chain(pHead, order) /\ length = Len(order)
    BY DEF Represents
  <2>. QED
    BY DEF ListInv, Linked
<1>. QED
  BY <1>1, ListInvariant, PTL

(* An iterator returns every node that was in the list when it was set.    *)
THEOREM IteratorComplete == Spec => []IteratorVisits
<1>1. ListInv => IteratorVisits
  <2>. SUFFICES ASSUME ListInv, phase = "open", ~mixed, ~iterator.hasNext
                PROVE  /\ Len(snapshot) <= Len(visited)
                       /\ \A i \in 1..Len(snapshot) : visited[i] = snapshot[i]
    BY DEF IteratorVisits
  <2>1. Len(snapshot) \in Nat /\ Len(visited) \in Nat
    BY DEF ListInv, ListTypeOK
  <2>. QED
    BY <2>1 DEF ListInv, Iterating
<1>. QED
  BY <1>1, ListInvariant, PTL

(* sList_free frees every node of a list that hangs together.              *)
THEOREM FreeIsComplete == Spec => []AllFreed
<1>1. ListInv => AllFreed
  BY DEF ListInv, AllFreed
<1>. QED
  BY <1>1, ListInvariant, PTL
=============================================================================

----------------------------- MODULE SimpleList -----------------------------
(***************************************************************************)
(* simpleList.c: the linked list that keeps the headers, parameters and    *)
(* segments of a request, the headers of a response, the routes and the    *)
(* plugins.  A node stands for the copy of the data it was pushed with.    *)
(* The owner pushes, iterates, also while pushing, and frees the list.     *)
(***************************************************************************)
EXTENDS Naturals, Sequences

CONSTANTS
  Nodes,   \* the blocks memCalloc can return
  Null

ASSUME ListAssumption == Null \notin Nodes

VARIABLES
  pHead, pTail, length,  \* SLIST
  pNext,                 \* the field of that name, of every node
  alive,                 \* the nodes that are allocated
  iterator,              \* SLISTITERATOR
  phase,                 \* "open", "freeing" or "freed"
  cursor,                \* pNode in sList_free
  order,                 \* history: the list as the pushes describe it
  firstAt,               \* history: where the first push went
  mixed,                 \* history: first push at the head, a later one not
  snapshot,              \* history: order when the iterator was set
  visited                \* history: the nodes it has returned since

listVars == <<pHead, pTail, length, pNext, alive>>
iterVars == <<iterator, snapshot, visited>>
freeVars == <<phase, cursor>>
pushVars == <<order, firstAt, mixed>>
vars == <<listVars, iterVars, freeVars, pushVars>>

Pointer == Nodes \cup {Null}
Iterator == [this : Pointer, next : Pointer, hasNext : BOOLEAN]

Init ==
  /\ pHead = Null /\ pTail = Null /\ length = 0
  /\ pNext = [n \in Nodes |-> Null]
  /\ alive = {}
  /\ iterator = [this |-> Null, next |-> Null, hasNext |-> FALSE]
  /\ phase = "open" /\ cursor = Null
  /\ order = <<>> /\ firstAt = "none" /\ mixed = FALSE
  /\ snapshot = <<>> /\ visited = <<>>

(* What every push does: a new node, one more in length. *)
NewNode(n, head) ==
  /\ phase = "open"
  /\ n \notin alive
  /\ alive' = alive \cup {n}
  /\ length' = length + 1
  /\ order' = IF head THEN <<n>> \o order ELSE Append(order, n)
  /\ firstAt' = IF firstAt # "none" THEN firstAt
                ELSE IF head THEN "head" ELSE "tail"
  /\ mixed' = (mixed \/ (firstAt = "head" /\ ~head))

pushHead(n) ==
  /\ NewNode(n, TRUE)
  /\ pNext' = [pNext EXCEPT ![n] = pHead]
  /\ pHead' = n
  /\ UNCHANGED <<pTail, iterVars, freeVars>>

(* Mutant: pTail is moved only when there is none. *)
pushTailKeepsTail(n) ==
  /\ NewNode(n, FALSE)
  /\ pHead' = IF pHead = Null THEN n ELSE pHead
  /\ pNext' = IF pTail = Null THEN [pNext EXCEPT ![n] = Null]
              ELSE [pNext EXCEPT ![n] = Null, ![pTail] = n]
  /\ pTail' = IF pTail = Null THEN n ELSE pTail
  /\ UNCHANGED <<iterVars, freeVars>>

pushTail(n) ==
  /\ NewNode(n, FALSE)
  /\ pHead' = IF pHead = Null THEN n ELSE pHead
  /\ pNext' = IF pTail = Null THEN [pNext EXCEPT ![n] = Null]
              ELSE [pNext EXCEPT ![n] = Null, ![pTail] = n]
  /\ pTail' = n
  /\ UNCHANGED <<iterVars, freeVars>>

sList_setIterator ==
  /\ phase = "open"
  /\ iterator' = [this |-> Null, next |-> pHead, hasNext |-> pHead # Null]
  /\ snapshot' = order
  /\ visited' = <<>>
  /\ UNCHANGED <<listVars, freeVars, pushVars>>

(* Without hasNext it returns OFF and changes nothing. *)
sList_foreach ==
  /\ phase = "open"
  /\ iterator.hasNext
  /\ LET this == iterator.next
         next == IF this = Null THEN Null ELSE pNext[this]
     IN /\ iterator' = [this |-> this, next |-> next, hasNext |-> this # Null]
        /\ visited' = IF this # Null THEN Append(visited, this) ELSE visited
  /\ UNCHANGED <<listVars, freeVars, pushVars, snapshot>>

sList_free ==
  /\ phase = "open"
  /\ phase' = "freeing"
  /\ cursor' = pHead
  /\ UNCHANGED <<listVars, iterVars, pushVars>>

(* Mutant: the node is freed and then asked for the next one. *)
freeNodeTwice ==
  /\ phase = "freeing"
  /\ cursor # Null
  /\ alive' = alive \ {cursor}
  /\ UNCHANGED <<pHead, pTail, length, pNext, iterVars, phase, cursor, pushVars>>

(* One turn of the loop of sList_free: the next node is read first. *)
freeNode ==
  /\ phase = "freeing"
  /\ cursor # Null
  /\ cursor' = pNext[cursor]
  /\ alive' = alive \ {cursor}
  /\ UNCHANGED <<pHead, pTail, length, pNext, iterVars, phase, pushVars>>

(* Mutant: the loop stops at the tail. *)
freeListAtTail ==
  /\ phase = "freeing"
  /\ cursor \in {Null, pTail}
  /\ phase' = "freed"
  /\ UNCHANGED <<listVars, iterVars, cursor, pushVars>>

freeList ==
  /\ phase = "freeing"
  /\ cursor = Null
  /\ phase' = "freed"
  /\ UNCHANGED <<listVars, iterVars, cursor, pushVars>>

(* The list is gone. *)
Terminated == phase = "freed" /\ UNCHANGED vars

sList_push == \E n \in Nodes : pushHead(n) \/ pushTail(n)

Next == sList_push \/ sList_setIterator \/ sList_foreach
          \/ sList_free \/ freeNode \/ freeList \/ Terminated

Spec == Init /\ [][Next]_vars

-----------------------------------------------------------------------------
(* Properties.                                                             *)

(* Every variable has its type, and neither the list nor the loop that     *)
(* frees it holds a node that is not allocated.                            *)
ListTypeOK ==
  /\ pHead \in Pointer /\ pTail \in Pointer
  /\ length \in Nat
  /\ pNext \in [Nodes -> Pointer]
  /\ alive \subseteq Nodes
  /\ iterator \in Iterator
  /\ phase \in {"open", "freeing", "freed"}
  /\ cursor \in alive \cup {Null}
  /\ phase = "open" => {pHead, pTail} \subseteq alive \cup {Null}
  /\ order \in Seq(Nodes) /\ snapshot \in Seq(Nodes) /\ visited \in Seq(Nodes)
  /\ firstAt \in {"none", "head", "tail"}
  /\ mixed \in BOOLEAN

(* The nodes that hang together from p on are those of s, in that order.   *)
Chain(p, s) ==
  IF s = <<>> THEN p = Null
  ELSE /\ p = s[1]
       /\ \A i \in 1..(Len(s) - 1) : pNext[s[i]] = s[i + 1]
       /\ pNext[s[Len(s)]] = Null

(* Pushes at both ends give the list they describe, and length is its      *)
(* length, unless a list begun at the head was continued at the tail.      *)
Represents ==
  phase = "open" /\ ~mixed => Chain(pHead, order) /\ length = Len(order)

(* An iterator that has come to the end has returned every node that was   *)
(* in the list when it was set, in order, whatever has been pushed since.  *)
IteratorVisits ==
  phase = "open" /\ ~mixed /\ ~iterator.hasNext
    => /\ Len(snapshot) <= Len(visited)
       /\ \A i \in 1..Len(snapshot) : visited[i] = snapshot[i]

(* sList_free leaves no node behind.                                       *)
AllFreed == phase = "freed" /\ ~mixed => alive = {}
=============================================================================

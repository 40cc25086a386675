-------------------------- MODULE EventQueueProofs --------------------------
(***************************************************************************)
(* Theorems about EventQueue, for any number of queues and of events.      *)
(*                                                                         *)
(* The argument: taking a child's head removes the same node from the      *)
(* child and from its parent (WithoutHeadOfChild); that the other way of   *)
(* taking it, through the link at the parent's head (WithoutLinkedHead),   *)
(* is the same change of state needs the order of both lists, since a link *)
(* names only the child queue.  Hence IndInv.                              *)
(***************************************************************************)
EXTENDS EventQueue, SequenceLemmas, TLAPS

(***************************************************************************)
(* Lemmas about sequences                                                  *)
(***************************************************************************)

\* Removing one node of a queue in order leaves it in order, without the node.
LEMMA RemoveInOrder ==
  ASSUME NEW s \in Seq(Node), InOrder(s), NEW i \in DOMAIN s
  PROVE  /\ RemoveAt(s, i) \in Seq(Node)
         /\ InOrder(RemoveAt(s, i))
         /\ ToSet(RemoveAt(s, i)) = ToSet(s) \ {s[i]}
<1> DEFINE r == RemoveAt(s, i)
<1>1. /\ r \in Seq(Node)
      /\ DOMAIN r = 1 .. Len(s) - 1
      /\ \A k \in 1 .. Len(s) - 1 : r[k] = IF k < i THEN s[k] ELSE s[k + 1]
  BY RemoveAtFacts
<1> HIDE DEF r
<1>2. Len(s) \in Nat /\ DOMAIN s = 1 .. Len(s)
  OBVIOUS
<1>3. \A k \in DOMAIN s : s[k].id \in Nat
  <2>1. \A k \in DOMAIN s : s[k] \in Node
    OBVIOUS
  <2>2. QED
    BY <2>1 DEF Node
<1>4. ASSUME NEW j \in DOMAIN r, NEW k \in DOMAIN r, j < k
      PROVE  r[j].id < r[k].id
  <2>1. \A a, b \in DOMAIN s : a < b => s[a].id < s[b].id
    BY DEF InOrder
  <2>2. j \in 1 .. Len(s) /\ j + 1 \in 1 .. Len(s) /\ k \in 1 .. Len(s) /\ k + 1 \in 1 .. Len(s)
    BY <1>1, <1>2
  <2>3. r[j] = (IF j < i THEN s[j] ELSE s[j + 1]) /\ r[k] = (IF k < i THEN s[k] ELSE s[k + 1])
    BY <1>1
  <2>4. i \in Nat /\ (k < i => j < i)
    BY <1>2, <1>4, <2>2
  <2>5. QED
    BY <1>2, <1>4, <2>1, <2>2, <2>3, <2>4
<1>5. \A k \in DOMAIN s : s[k] = s[i] => k = i
  BY <1>2, <1>3 DEF InOrder
<1>6. ASSUME NEW k \in DOMAIN r PROVE r[k] \in ToSet(s) \ {s[i]}
  <2>1. CASE k < i
    BY <1>1, <1>2, <1>5, <2>1 DEF ToSet
  <2>2. CASE ~(k < i)
    BY <1>1, <1>2, <1>5, <2>2, SMTT(30) DEF ToSet
  <2>3. QED
    BY <2>1, <2>2
<1>7. ASSUME NEW k \in DOMAIN s, k # i PROVE s[k] \in ToSet(r)
  <2>1. CASE k < i
    <3>1. k \in DOMAIN r /\ r[k] = s[k]
      BY <1>1, <1>2, <2>1
    <3>2. QED
      BY <3>1 DEF ToSet
  <2>2. CASE k > i
    <3>1. k - 1 \in DOMAIN r /\ r[k - 1] = s[k]
      BY <1>1, <1>2, <2>2
    <3>2. QED
      BY <3>1 DEF ToSet
  <2>3. QED
    BY <1>2, <1>7, <2>1, <2>2
<1>8. ToSet(r) = ToSet(s) \ {s[i]}
  BY <1>6, <1>7 DEF ToSet
<1>9. QED
  BY <1>1, <1>4, <1>8 DEF r, InOrder

\* A node newer than all of a queue in order may go to its tail.
LEMMA AppendInOrder ==
  ASSUME NEW s \in Seq(Node), InOrder(s),
         NEW n \in Node, \A m \in ToSet(s) : m.id < n.id
  PROVE  /\ Append(s, n) \in Seq(Node)
         /\ InOrder(Append(s, n))
         /\ ToSet(Append(s, n)) = ToSet(s) \union {n}
<1> DEFINE r == Append(s, n)
<1>1. /\ r \in Seq(Node)
      /\ Len(s) \in Nat
      /\ DOMAIN s = 1 .. Len(s)
      /\ DOMAIN r = 1 .. Len(s) + 1
      /\ \A k \in DOMAIN s : r[k] = s[k]
      /\ r[Len(s) + 1] = n
  OBVIOUS
<1> HIDE DEF r
<1>2. \A k \in DOMAIN s : s[k].id < n.id
  BY DEF ToSet
<1>3. InOrder(r)
  BY <1>1, <1>2 DEF InOrder
<1>4. \A k \in DOMAIN r : r[k] \in ToSet(s) \union {n}
  BY <1>1 DEF ToSet
<1>5. \A k \in DOMAIN s : s[k] \in ToSet(r)
  BY <1>1 DEF ToSet
<1>6. n \in ToSet(r)
  <2>1. Len(s) + 1 \in DOMAIN r /\ r[Len(s) + 1] = n
    BY <1>1
  <2>2. QED
    BY <2>1 DEF ToSet
<1>7. QED
  BY <1>1, <1>3, <1>4, <1>5, <1>6 DEF ToSet, r

(***************************************************************************)
(* Taking the head of a child                                              *)
(***************************************************************************)

\* The head of a child is in its parent too, where LinkOf finds it.
LEMMA HeadOfChild ==
  ASSUME IndInv, NEW c \in Children, ~Empty(c)
  PROVE  /\ parent[c] \in Parents /\ parent[c] # c
         /\ items[c] \in Seq(Node) /\ items[parent[c]] \in Seq(Node)
         /\ 1 \in DOMAIN items[c] /\ Head(items[c]) = items[c][1]
         /\ Tail(items[c]) = RemoveAt(items[c], 1)
         /\ Head(items[c]) \in Node /\ Head(items[c]).owner = c
         /\ LinkOf(Head(items[c]), parent[c]) \in DOMAIN items[parent[c]]
         /\ items[parent[c]][LinkOf(Head(items[c]), parent[c])] = Head(items[c])
<1> DEFINE x == Head(items[c])
<1>1. c \in alive /\ parent[c] \in Parents /\ parent[c] # c
  BY QueuesAssumption DEF IndInv, Wiring, Queues
<1>2. items[c] \in Seq(Node) /\ items[parent[c]] \in Seq(Node)
  BY <1>1 DEF IndInv, TypeOK, Queues
<1>3. 1 \in DOMAIN items[c] /\ x = items[c][1] /\ Tail(items[c]) = RemoveAt(items[c], 1)
  BY <1>2, TailIsRemoveAt DEF Empty
<1>4. x \in Node /\ x \in Nodes(c)
  BY <1>2, <1>3 DEF Nodes, ToSet
<1>5. x.owner = c /\ x \in Nodes(parent[c])
  BY <1>4 DEF IndInv, LinksMirrorChildren
<1>6. \E i \in DOMAIN items[parent[c]] : items[parent[c]][i] = x
  BY <1>5 DEF Nodes, ToSet
<1>7. QED
  BY <1>1, <1>2, <1>3, <1>4, <1>5, <1>6 DEF LinkOf

\* Taking the head of a child takes the same node from it and its parent.
LEMMA ChildHeadTaken ==
  ASSUME IndInv, NEW c \in Children, ~Empty(c),
         items' = WithoutHeadOfChild(c)
  PROVE  /\ items' \in [Queues -> Seq(Node)]
         /\ \A q \in Queues : InOrder(items[q])'
         /\ \A q \in Queues :
              Nodes(q)' = IF q \in {c, parent[c]} THEN Nodes(q) \ {Head(items[c])} ELSE Nodes(q)
<1> DEFINE p == parent[c]
           x == Head(items[c])
           l == LinkOf(x, p)
<1>1. /\ p \in Parents /\ p # c
      /\ items[c] \in Seq(Node) /\ items[p] \in Seq(Node)
      /\ 1 \in DOMAIN items[c] /\ x = items[c][1]
      /\ Tail(items[c]) = RemoveAt(items[c], 1)
      /\ l \in DOMAIN items[p] /\ items[p][l] = x
  BY HeadOfChild
<1>2. c \in Queues /\ p \in Queues /\ items \in [Queues -> Seq(Node)]
  BY <1>1 DEF Queues, IndInv, TypeOK
<1>3. \A q \in Queues : InOrder(items[q])
  BY DEF IndInv, LinksMirrorChildren
<1>4. items' = [items EXCEPT ![c] = RemoveAt(items[c], 1), ![p] = RemoveAt(items[p], l)]
  BY <1>1, <1>2 DEF WithoutHeadOfChild
<1> HIDE DEF p, x, l
<1>5. /\ items'[c] = RemoveAt(items[c], 1)
      /\ items'[p] = RemoveAt(items[p], l)
      /\ \A q \in Queues \ {c, p} : items'[q] = items[q]
      /\ DOMAIN items' = Queues
  BY <1>1, <1>2, <1>4
<1>6. /\ RemoveAt(items[c], 1) \in Seq(Node)
      /\ InOrder(RemoveAt(items[c], 1))
      /\ ToSet(RemoveAt(items[c], 1)) = ToSet(items[c]) \ {x}
  BY <1>1, <1>2, <1>3, RemoveInOrder
<1>7. /\ RemoveAt(items[p], l) \in Seq(Node)
      /\ InOrder(RemoveAt(items[p], l))
      /\ ToSet(RemoveAt(items[p], l)) = ToSet(items[p]) \ {x}
  BY <1>1, <1>2, <1>3, RemoveInOrder
<1>8. items' \in [Queues -> Seq(Node)]
  BY <1>1, <1>2, <1>4, <1>6, <1>7
<1>9. \A q \in Queues : InOrder(items'[q])
  BY <1>3, <1>5, <1>6, <1>7
<1>10. \A q \in Queues : ToSet(items'[q]) = IF q \in {c, p} THEN ToSet(items[q]) \ {x} ELSE ToSet(items[q])
  BY <1>5, <1>6, <1>7
<1>11. QED
  BY <1>8, <1>9, <1>10 DEF Nodes, p, x, l, InOrder

\* The node at the head of a parent, when it is a link, is the head of the
\* linked child, and the two ways of taking it are one change of state.
LEMMA LinkedHead ==
  ASSUME IndInv, NEW p \in Parents, ~Empty(p), IsLink(p, Head(items[p]))
  PROVE  /\ Head(items[p]).owner \in Children
         /\ parent[Head(items[p]).owner] = p
         /\ ~Empty(Head(items[p]).owner)
         /\ Head(items[Head(items[p]).owner]) = Head(items[p])
         /\ WithoutLinkedHead(p) = WithoutHeadOfChild(Head(items[p]).owner)
<1> DEFINE x == Head(items[p])
           c == x.owner
           y == Head(items[c])
<1>1. p \in Queues /\ items[p] \in Seq(Node)
  BY DEF IndInv, TypeOK, Queues
<1>2. 1 \in DOMAIN items[p] /\ x = items[p][1] /\ Tail(items[p]) = RemoveAt(items[p], 1)
  BY <1>1, TailIsRemoveAt DEF Empty
<1>3. x \in Node /\ x \in Nodes(p)
  BY <1>1, <1>2 DEF Nodes, ToSet
<1>4. c \in Children /\ parent[c] = p /\ x \in Nodes(c)
  BY <1>3 DEF IndInv, LinksMirrorChildren
<1>5. items[c] \in Seq(Node) /\ c \in Queues
  BY <1>4 DEF IndInv, TypeOK, Queues
<1>6. PICK k \in DOMAIN items[c] : items[c][k] = x
  BY <1>4 DEF Nodes, ToSet
<1>7. ~Empty(c)
  BY <1>5, <1>6 DEF Empty
<1> HIDE DEF c, x
<1>8. /\ 1 \in DOMAIN items[c] /\ y = items[c][1]
      /\ y \in Node
      /\ LinkOf(y, p) \in DOMAIN items[p]
      /\ items[p][LinkOf(y, p)] = y
      /\ p # c
  BY <1>4, <1>7, HeadOfChild
<1> HIDE DEF y
<1>9. InOrder(items[p]) /\ InOrder(items[c])
  BY <1>1, <1>5 DEF IndInv, LinksMirrorChildren
<1>10. x.id \in Nat /\ y.id \in Nat
  BY <1>3, <1>8 DEF Node
<1>11. k = 1 \/ y.id < x.id
  BY <1>5, <1>6, <1>8, <1>9 DEF InOrder
<1>12. LinkOf(y, p) = 1 \/ x.id < y.id
  BY <1>1, <1>2, <1>8, <1>9 DEF InOrder
<1>13. x = y
  BY <1>2, <1>6, <1>8, <1>10, <1>11, <1>12
<1>14. LinkOf(y, p) = 1
  BY <1>10, <1>12, <1>13
<1>15. WithoutLinkedHead(p) = [items EXCEPT ![p] = Tail(items[p]), ![c] = Tail(items[c])]
  BY <1>1, <1>5, <1>8 DEF WithoutLinkedHead, IndInv, TypeOK, c, x
<1>16. WithoutHeadOfChild(c) = [items EXCEPT ![c] = Tail(items[c]), ![p] = RemoveAt(items[p], 1)]
  BY <1>1, <1>4, <1>5, <1>8, <1>14 DEF WithoutHeadOfChild, IndInv, TypeOK, y
<1>17. WithoutLinkedHead(p) = WithoutHeadOfChild(c)
  BY <1>1, <1>2, <1>5, <1>8, <1>15, <1>16 DEF IndInv, TypeOK
<1>18. QED
  BY <1>4, <1>7, <1>13, <1>17 DEF c, x, y

LEMMA EmptyIffNoNodes ==
  ASSUME NEW s \in Seq(Node)
  PROVE  s = <<>> <=> ToSet(s) = {}
<1>1. ASSUME s # <<>> PROVE ToSet(s) # {}
  <2>1. 1 \in DOMAIN s
    BY <1>1
  <2>2. QED
    BY <2>1 DEF ToSet
<1>2. ASSUME s = <<>> PROVE ToSet(s) = {}
  <2>1. DOMAIN s = {}
    BY <1>2
  <2>2. QED
    BY <2>1 DEF ToSet
<1>3. QED
  BY <1>1, <1>2

\* Taking one node x from every queue that holds it keeps the invariant.
LEMMA TakingKeepsInvariant ==
  ASSUME IndInv, NEW x,
         items' \in [Queues -> Seq(Node)],
         \A q \in Queues : InOrder(items[q])',
         \A q \in Queues : Nodes(q)' = Nodes(q) \ {x},
         returned' \in Node \union {NoEvent},
         UNCHANGED <<alive, parent, freeing, stop, nextId>>
  PROVE  IndInv'
<1>1. TypeOK'
  BY DEF IndInv, TypeOK
<1>2. Wiring'
  <2>1. ASSUME NEW q \in Queues \ alive PROVE Empty(q)'
    <3>1. items[q] \in Seq(Node) /\ items[q]' \in Seq(Node) /\ items[q] = <<>>
      BY DEF IndInv, TypeOK, Wiring, Empty
    <3>2. Nodes(q)' = {}
      BY <3>1, EmptyIffNoNodes DEF Nodes
    <3>3. QED
      BY <3>1, <3>2, EmptyIffNoNodes DEF Nodes, Empty
  <2>2. QED
    BY <2>1 DEF IndInv, Wiring
<1>3. IdsBelowNext'
  BY DEF IndInv, IdsBelowNext
<1>4. LinksMirrorChildren'
  <2>1. ASSUME NEW c \in Children, NEW n \in Nodes(c)'
        PROVE  (n.owner = c /\ n \in Nodes(parent[c]))'
    <3>1. n \in Nodes(c) /\ n # x
      BY DEF Queues
    <3>2. n.owner = c /\ n \in Nodes(parent[c])
      BY <3>1 DEF IndInv, LinksMirrorChildren
    <3>3. c \in alive
      <4>1. c \in Queues /\ items[c] \in Seq(Node)
        BY DEF IndInv, TypeOK, Queues
      <4>2. items[c] # <<>>
        BY <3>1, <4>1, EmptyIffNoNodes DEF Nodes
      <4>3. QED
        BY <4>1, <4>2 DEF IndInv, Wiring, Empty
    <3>4. parent[c] \in Queues
      BY <3>3 DEF IndInv, Wiring, Queues
    <3>5. QED
      BY <3>1, <3>2, <3>4
  <2>2. ASSUME NEW p \in Parents, NEW n \in Nodes(p)', IsLink(p, n)
        PROVE  (n.owner \in Children /\ parent[n.owner] = p /\ n \in Nodes(n.owner))'
    <3>1. n \in Nodes(p) /\ n # x
      BY DEF Queues
    <3>2. n.owner \in Children /\ parent[n.owner] = p /\ n \in Nodes(n.owner)
      BY <2>2, <3>1 DEF IndInv, LinksMirrorChildren
    <3>3. QED
      BY <3>1, <3>2 DEF Queues
  <2>3. QED
    BY <2>1, <2>2 DEF LinksMirrorChildren, IsLink
<1>5. QED
  BY <1>1, <1>2, <1>3, <1>4 DEF IndInv

LEMMA ChildHeadTakenKeeps ==
  ASSUME IndInv, NEW c \in Children, ~Empty(c),
         items' = WithoutHeadOfChild(c),
         returned' \in Node \union {NoEvent},
         UNCHANGED <<alive, parent, freeing, stop, nextId>>
  PROVE  IndInv'
<1> DEFINE x == Head(items[c])
<1>1. /\ items' \in [Queues -> Seq(Node)]
      /\ \A q \in Queues : InOrder(items[q])'
      /\ \A q \in Queues : Nodes(q)' = IF q \in {c, parent[c]} THEN Nodes(q) \ {x} ELSE Nodes(q)
  BY ChildHeadTaken
<1>2. x.owner = c
  BY HeadOfChild
<1>3. \A q \in Queues : x \in Nodes(q) => q = c \/ q = parent[c]
  BY <1>2 DEF IndInv, LinksMirrorChildren, Queues, IsLink
<1> HIDE DEF x
<1>4. \A q \in Queues : Nodes(q)' = Nodes(q) \ {x}
  BY <1>1, <1>3
<1>5. QED
  BY <1>1, <1>4, TakingKeepsInvariant

LEMMA OwnHeadTakenKeeps ==
  ASSUME IndInv, NEW p \in Parents, ~Empty(p), ~IsLink(p, Head(items[p])),
         items' = [items EXCEPT ![p] = Tail(@)],
         returned' \in Node \union {NoEvent},
         UNCHANGED <<alive, parent, freeing, stop, nextId>>
  PROVE  IndInv'
<1> DEFINE x == Head(items[p])
<1>1. p \in Queues /\ items[p] \in Seq(Node) /\ items \in [Queues -> Seq(Node)]
      /\ \A q \in Queues : InOrder(items[q])
  BY DEF IndInv, TypeOK, Queues, LinksMirrorChildren
<1>2. 1 \in DOMAIN items[p] /\ x = items[p][1] /\ Tail(items[p]) = RemoveAt(items[p], 1)
  BY <1>1, TailIsRemoveAt DEF Empty
<1> HIDE DEF x
<1>3. /\ Tail(items[p]) \in Seq(Node)
      /\ InOrder(Tail(items[p]))
      /\ ToSet(Tail(items[p])) = ToSet(items[p]) \ {x}
  BY <1>1, <1>2, RemoveInOrder
<1>4. items' \in [Queues -> Seq(Node)]
  BY <1>1, <1>3
<1>5. items'[p] = Tail(items[p]) /\ \A q \in Queues \ {p} : items'[q] = items[q]
  BY <1>1
<1>6. \A q \in Queues : InOrder(items'[q])
  BY <1>1, <1>3, <1>5
<1>7. \A q \in Queues \ {p} : x \notin Nodes(q)
  BY QueuesAssumption DEF IndInv, LinksMirrorChildren, Queues, IsLink, x
<1>8. \A q \in Queues : Nodes(q)' = Nodes(q) \ {x}
  BY <1>3, <1>5, <1>7 DEF Nodes
<1>9. QED
  BY <1>4, <1>6, <1>8, TakingKeepsInvariant DEF InOrder

LEMMA PutKeeps ==
  ASSUME IndInv, NEW q \in Queues, Put(q)
  PROVE  IndInv'
<1> DEFINE n == [id |-> nextId, owner |-> q]
<1>1. n \in Node /\ nextId \in Nat /\ q \in alive /\ items \in [Queues -> Seq(Node)]
  BY DEF IndInv, TypeOK, Node, Put
<1>2. items' = Pushed(q, n) /\ nextId' = nextId + 1 /\ UNCHANGED <<alive, parent, freeing, returned>>
  BY DEF Put
<1>3. stop' \in [Parents -> BOOLEAN]
  BY DEF Put
<1>4. n.owner = q /\ n.id = nextId
  OBVIOUS
<1> HIDE DEF n
<1>5. ASSUME NEW r \in Queues
      PROVE  /\ Append(items[r], n) \in Seq(Node)
             /\ InOrder(Append(items[r], n))
             /\ ToSet(Append(items[r], n)) = Nodes(r) \union {n}
  <2>1. items[r] \in Seq(Node) /\ InOrder(items[r]) /\ \A m \in ToSet(items[r]) : m.id < n.id
    BY <1>1, <1>4 DEF IndInv, LinksMirrorChildren, IdsBelowNext, Nodes
  <2>2. QED
    BY <1>1, <2>1, AppendInOrder DEF Nodes
<1> DEFINE T == IF q \in Children THEN {q, parent[q]} ELSE {q}
<1>6. T \subseteq alive /\ q \in T
  BY <1>1 DEF IndInv, Wiring
<1>7. \A r \in Queues : items'[r] = IF r \in T THEN Append(items[r], n) ELSE items[r]
  <2>1. CASE q \in Children
    <3>1. parent[q] \in Queues /\ parent[q] # q
      BY <1>1, <2>1, QueuesAssumption DEF IndInv, Wiring, Queues
    <3>2. QED
      BY <1>1, <1>2, <2>1, <3>1 DEF Pushed
  <2>2. CASE q \notin Children
    BY <1>1, <1>2, <2>2 DEF Pushed
  <2>3. QED
    BY <2>1, <2>2
<1>8. DOMAIN items' = Queues /\ items' = [r \in Queues |-> items'[r]]
  BY <1>1, <1>2 DEF Pushed
<1>9. (q \in Children => parent[q] \in T /\ parent[q] \in Parents) /\ (q \notin Children => T = {q})
      /\ \A r \in T : r = q \/ (q \in Children /\ r = parent[q])
  BY <1>1 DEF IndInv, Wiring
<1> HIDE DEF T
<1>10. \A r \in Queues : Nodes(r)' = IF r \in T THEN Nodes(r) \union {n} ELSE Nodes(r)
  BY <1>5, <1>7 DEF Nodes
<1>11. TypeOK'
  <2>1. items' \in [Queues -> Seq(Node)]
    BY <1>1, <1>5, <1>7, <1>8
  <2>2. QED
    BY <1>1, <1>2, <1>3, <2>1 DEF IndInv, TypeOK
<1>12. Wiring'
  BY <1>2, <1>6, <1>7 DEF IndInv, Wiring, Empty
<1>13. IdsBelowNext'
  <2>1. ASSUME NEW r \in Queues, NEW m \in Nodes(r)' PROVE m.id < nextId'
    <3>1. CASE m = n
      BY <1>1, <1>2, <1>4, <3>1
    <3>2. CASE m # n
      <4>1. m \in Nodes(r) /\ m.id < nextId
        BY <1>10, <3>2 DEF IndInv, IdsBelowNext
      <4>2. m \in Node
        BY <1>1, <4>1 DEF Nodes, ToSet
      <4>3. QED
        BY <1>1, <1>2, <4>1, <4>2 DEF Node
    <3>3. QED
      BY <3>1, <3>2
  <2>2. QED
    BY <2>1 DEF IdsBelowNext
<1>14. LinksMirrorChildren'
  <2>1. ASSUME NEW r \in Queues PROVE InOrder(items[r])'
    <3>1. InOrder(items[r])
      BY DEF IndInv, LinksMirrorChildren
    <3>2. InOrder(items'[r])
      BY <1>5, <1>7, <3>1
    <3>3. QED
      BY <3>2 DEF InOrder
  <2>2. ASSUME NEW c \in Children, NEW m \in Nodes(c)'
        PROVE  m.owner = c /\ m \in Nodes(parent[c])'
    <3>1. CASE m \in Nodes(c)
      <4>1. m.owner = c /\ m \in Nodes(parent[c])
        BY <3>1 DEF IndInv, LinksMirrorChildren
      <4>2. c \in alive
        <5>1. c \in Queues /\ items[c] \in Seq(Node)
          BY <1>1 DEF Queues
        <5>2. items[c] # <<>>
          BY <3>1, <5>1, EmptyIffNoNodes DEF Nodes
        <5>3. QED
          BY <5>1, <5>2 DEF IndInv, Wiring, Empty
      <4>3. parent[c] \in Queues
        BY <4>2 DEF IndInv, Wiring, Queues
      <4>4. QED
        BY <1>2, <1>10, <4>1, <4>3
    <3>2. CASE m \notin Nodes(c)
      <4>1. m = n /\ c \in T
        BY <1>10, <3>2 DEF Queues
      <4>2. c = q
        BY <1>9, <4>1, QueuesAssumption
      <4>3. parent[c] \in T /\ parent[c] \in Queues
        BY <1>9, <4>2 DEF Queues
      <4>4. QED
        BY <1>2, <1>4, <1>10, <4>1, <4>2, <4>3
    <3>3. QED
      BY <3>1, <3>2
  <2>3. ASSUME NEW p \in Parents, NEW m \in Nodes(p)', m.owner # p
        PROVE  m.owner \in Children /\ parent[m.owner]' = p /\ m \in Nodes(m.owner)'
    <3>1. CASE m \in Nodes(p)
      <4>1. m.owner \in Children /\ parent[m.owner] = p /\ m \in Nodes(m.owner)
        BY <2>3, <3>1 DEF IndInv, LinksMirrorChildren, IsLink
      <4>2. QED
        BY <1>2, <1>10, <4>1 DEF Queues
    <3>2. CASE m \notin Nodes(p)
      <4>1. m = n /\ p \in T
        BY <1>10, <3>2 DEF Queues
      <4>2. q \in Children /\ p = parent[q]
        BY <1>4, <1>9, <2>3, <4>1
      <4>3. QED
        BY <1>2, <1>4, <1>6, <1>10, <4>1, <4>2
    <3>3. QED
      BY <3>1, <3>2
  <2>4. QED
    BY <2>1, <2>2, <2>3 DEF LinksMirrorChildren, IsLink
<1>15. QED
  BY <1>11, <1>12, <1>13, <1>14 DEF IndInv

\* The invariant is inductive: every operation of queue.c keeps it.
LEMMA StepKeepsInvariant == IndInv /\ [Next]_vars => IndInv'
<1> SUFFICES ASSUME IndInv, [Next]_vars PROVE IndInv'
  OBVIOUS
<1> USE QueuesAssumption
<1>1. ASSUME NEW p \in Parents, NewParent(p) PROVE IndInv'
  BY <1>1 DEF IndInv, NewParent, TypeOK, Wiring, IdsBelowNext, LinksMirrorChildren,
              Queues, Idle, Empty, Nodes, InOrder, IsLink
<1>2. ASSUME NEW p \in Parents, ConsumeStop(p) PROVE IndInv'
  BY <1>2 DEF IndInv, ConsumeStop, TypeOK, Wiring, IdsBelowNext, LinksMirrorChildren,
              Queues, Idle, Empty, Nodes, InOrder, IsLink
<1>3. ASSUME NEW c \in Children, NEW p \in Parents,
             NewChild(c, p) \/ ReplaceParent(c, p)
      PROVE  IndInv'
  <2>1. /\ c \in Queues /\ p \in alive /\ freeing = NoQueue
        /\ parent' = [parent EXCEPT ![c] = p]
        /\ alive' = alive \union {c}
        /\ UNCHANGED <<items, freeing, stop, returned, nextId>>
    BY <1>3 DEF NewChild, ReplaceParent, Idle, Queues
  <2>2. Nodes(c) = {} /\ Empty(c)
    <3>1. Empty(c)
      BY <1>3, <2>1 DEF NewChild, ReplaceParent, IndInv, Wiring
    <3>2. QED
      BY <2>1, <3>1, EmptyIffNoNodes DEF IndInv, TypeOK, Empty, Nodes
  <2>3. TypeOK'
    BY <2>1 DEF IndInv, TypeOK
  <2>4. Wiring'
    BY <2>1 DEF IndInv, TypeOK, Wiring, Queues, Empty
  <2>5. IdsBelowNext'
    BY <2>1 DEF IndInv, IdsBelowNext, Nodes
  <2>6. LinksMirrorChildren'
    <3>1. ASSUME NEW d \in Children, NEW n \in Nodes(d) PROVE parent[d]' = parent[d]
      BY <2>1, <2>2 DEF IndInv, TypeOK
    <3>2. ASSUME NEW r \in Parents, NEW n \in Nodes(r), IsLink(r, n)
          PROVE  n.owner \in Children /\ parent[n.owner]' = r /\ n \in Nodes(n.owner)
      BY <3>1, <3>2 DEF IndInv, LinksMirrorChildren
    <3>3. QED
      BY <2>1, <3>1, <3>2 DEF IndInv, LinksMirrorChildren, Nodes, InOrder, IsLink
  <2>7. QED
    BY <2>3, <2>4, <2>5, <2>6 DEF IndInv
<1>4. ASSUME NEW q \in Queues, Put(q) PROVE IndInv'
  BY <1>4, PutKeeps
<1>5. ASSUME NEW c \in Children, GetFromChild(c) PROVE IndInv'
  <2>1. Head(items[c]) \in Node
    BY <1>5, HeadOfChild DEF GetFromChild
  <2>2. QED
    BY <1>5, <2>1, ChildHeadTakenKeeps DEF GetFromChild
<1>6. ASSUME NEW p \in Parents, GetOwn(p) PROVE IndInv'
  <2>1. Head(items[p]) \in Node
    <3>1. items[p] \in Seq(Node) /\ items[p] # <<>>
      BY <1>6 DEF GetOwn, Empty, IndInv, TypeOK, Queues
    <3>2. QED
      BY <3>1
  <2>2. QED
    BY <1>6, <2>1, OwnHeadTakenKeeps DEF GetOwn
<1>7. ASSUME NEW p \in Parents, GetLinked(p) PROVE IndInv'
  <2> DEFINE c == Head(items[p]).owner
  <2>1. c \in Children /\ ~Empty(c) /\ WithoutLinkedHead(p) = WithoutHeadOfChild(c)
    BY <1>7, LinkedHead DEF GetLinked
  <2>2. Head(items[c]) \in Node
    BY <2>1, HeadOfChild
  <2>3. QED
    BY <1>7, <2>1, <2>2, ChildHeadTakenKeeps DEF GetLinked
<1>8. ASSUME NEW q \in Queues, FreeBegin(q) PROVE IndInv'
  BY <1>8 DEF IndInv, FreeBegin, TypeOK, Wiring, IdsBelowNext, LinksMirrorChildren,
              Queues, Idle, Empty, Nodes, InOrder, IsLink
<1>9. ASSUME FreeNode PROVE IndInv'
  <2>1. returned' \in Node \union {NoEvent} /\ freeing \in Queues
    BY <1>9 DEF FreeNode, IndInv, TypeOK
  <2>2. CASE freeing \in Children
    BY <1>9, <2>1, <2>2, ChildHeadTakenKeeps DEF FreeNode
  <2>3. CASE freeing \in Parents
    <3>1. ~IsLink(freeing, Head(items[freeing]))
      <4>1. items[freeing] \in Seq(Node) /\ items[freeing] # <<>>
        BY <1>9, <2>1 DEF FreeNode, Empty, IndInv, TypeOK
      <4>2. Head(items[freeing]) \in Nodes(freeing)
        BY <4>1, TailIsRemoveAt DEF Nodes, ToSet
      <4>3. QED
        BY <2>3, <4>2 DEF IndInv, LinksMirrorChildren, Wiring
    <3>2. QED
      BY <1>9, <2>1, <2>3, <3>1, OwnHeadTakenKeeps DEF FreeNode
  <2>4. QED
    BY <2>1, <2>2, <2>3 DEF Queues
<1>10. ASSUME FreeEnd PROVE IndInv'
  <2>1. /\ freeing \in Queues /\ Empty(freeing)
        /\ alive' = alive \ {freeing} /\ freeing' = NoQueue
        /\ parent' = [c \in Children |-> IF c = freeing THEN NoQueue ELSE parent[c]]
        /\ UNCHANGED <<items, stop, returned, nextId>>
    BY <1>10 DEF FreeEnd, IndInv, TypeOK
  <2>2. Nodes(freeing) = {}
    BY <2>1, EmptyIffNoNodes DEF IndInv, TypeOK, Empty, Nodes
  <2>3. TypeOK'
    BY <2>1 DEF IndInv, TypeOK
  <2>4. Wiring'
    BY <2>1 DEF IndInv, TypeOK, Wiring, Queues, Empty
  <2>5. IdsBelowNext'
    BY <2>1 DEF IndInv, IdsBelowNext, Nodes
  <2>6. LinksMirrorChildren'
    <3>1. ASSUME NEW d \in Children, NEW n \in Nodes(d) PROVE parent[d]' = parent[d]
      BY <2>1, <2>2 DEF IndInv, TypeOK
    <3>2. ASSUME NEW r \in Parents, NEW n \in Nodes(r), IsLink(r, n)
          PROVE  n.owner \in Children /\ parent[n.owner]' = r /\ n \in Nodes(n.owner)
      BY <3>1, <3>2 DEF IndInv, LinksMirrorChildren
    <3>3. QED
      BY <2>1, <3>1, <3>2 DEF IndInv, LinksMirrorChildren, Nodes, InOrder, IsLink
  <2>7. QED
    BY <2>3, <2>4, <2>5, <2>6 DEF IndInv
<1>11. ASSUME UNCHANGED vars PROVE IndInv'
  BY <1>11 DEF IndInv, vars, TypeOK, Wiring, IdsBelowNext, LinksMirrorChildren,
               Queues, Empty, Nodes, InOrder, IsLink
<1>12. QED
  BY <1>1, <1>2, <1>3, <1>4, <1>5, <1>6, <1>7, <1>8, <1>9, <1>10, <1>11 DEF Next, Get

LEMMA InitEstablishesInvariant == Init => IndInv
<1> SUFFICES ASSUME Init PROVE IndInv
  OBVIOUS
<1>1. \A q \in Queues : items[q] = <<>> /\ items[q] \in Seq(Node)
  BY DEF Init
<1>2. \A q \in Queues : Nodes(q) = {}
  BY <1>1, EmptyIffNoNodes DEF Nodes
<1>3. TypeOK
  BY <1>1 DEF Init, TypeOK
<1>4. Wiring
  BY <1>1, QueuesAssumption DEF Init, Wiring, Empty, Queues
<1>5. IdsBelowNext /\ LinksMirrorChildren
  BY <1>1, <1>2 DEF IdsBelowNext, LinksMirrorChildren, InOrder, Queues
<1>6. QED
  BY <1>3, <1>4, <1>5 DEF IndInv

(***************************************************************************)
(* Theorems                                                                *)
(***************************************************************************)

\* Every behaviour of queue.c keeps the inductive invariant.
THEOREM Invariance == Spec => []IndInv
<1>1. QED
  BY InitEstablishesInvariant, StepKeepsInvariant, PTL DEF Spec

\* The variables of queue.c keep their types.
THEOREM TypeCorrect == Spec => []TypeOK
<1>1. IndInv => TypeOK
  BY DEF IndInv
<1>2. QED
  BY <1>1, Invariance, PTL

\* The header of queue.c: nodes and links come and go together, for any
\* number of emitters, whatever order the queues are processed in.
THEOREM LinksMirror == Spec => []LinksMirrorChildren
<1>1. IndInv => LinksMirrorChildren
  BY DEF IndInv
<1>2. QED
  BY <1>1, Invariance, PTL

\* assert(!queue_empty(linked)) of queue_remove never fails, and the event
\* that a link yields is the one the link was made for.
THEOREM LinkYieldsItsNode == Spec => []LinkReturnsItsNode
<1>1. IndInv => LinkReturnsItsNode
  BY LinkedHead DEF LinkReturnsItsNode
<1>2. QED
  BY <1>1, Invariance, PTL

(***************************************************************************)
(* EventQueue implements EmitterQueue                                      *)
(***************************************************************************)

\* The link of a child's head is the oldest event of that emitter.
LEMMA LinkOfHeadIsOldest ==
  ASSUME IndInv, NEW c \in Children, ~Empty(c)
  PROVE  Emitters!OldestOf(c, LinkOf(Head(items[c]), parent[c]))
<1> DEFINE p == parent[c]
           x == Head(items[c])
           l == LinkOf(x, p)
<1>1. /\ p \in Parents
      /\ items[c] \in Seq(Node) /\ items[p] \in Seq(Node)
      /\ 1 \in DOMAIN items[c] /\ x = items[c][1]
      /\ x \in Node /\ x.owner = c
      /\ l \in DOMAIN items[p] /\ items[p][l] = x
      /\ p # c
  BY HeadOfChild
<1> HIDE DEF p, x, l
<1>2. InOrder(items[p]) /\ InOrder(items[c])
  BY <1>1 DEF IndInv, LinksMirrorChildren, Queues
<1>3. ASSUME NEW j \in 1 .. l - 1, items[p][j].owner = c PROVE FALSE
  <2>1. j \in DOMAIN items[p] /\ j < l
    BY <1>1
  <2>2. items[p][j] \in Nodes(p) /\ items[p][j] \in Node
    BY <1>1, <2>1 DEF Nodes, ToSet
  <2>3. items[p][j] \in Nodes(c)
    BY <1>1, <1>3, <2>2 DEF IndInv, LinksMirrorChildren, IsLink
  <2>4. PICK k \in DOMAIN items[c] : items[c][k] = items[p][j]
    BY <2>3 DEF Nodes, ToSet
  <2>5. items[p][j].id < x.id
    BY <1>1, <1>2, <2>1 DEF InOrder
  <2>6. k = 1 \/ x.id < items[p][j].id
    <3>1. \A a, b \in DOMAIN items[c] : a < b => items[c][a].id < items[c][b].id
      BY <1>2 DEF InOrder
    <3>2. k = 1 \/ 1 < k
      BY <1>1
    <3>3. 1 < k => items[c][1].id < items[c][k].id
      BY <1>1, <3>1
    <3>4. QED
      BY <1>1, <2>4, <3>2, <3>3
  <2>7. x.id \in Nat /\ items[p][j].id \in Nat
    BY <1>1, <2>2 DEF Node
  <2>8. QED
    BY <1>1, <2>4, <2>5, <2>6, <2>7
<1>4. QED
  BY <1>1, <1>3 DEF Emitters!OldestOf, p, x, l

LEMMA EmptyHasNonePending ==
  ASSUME IndInv, NEW c \in Children, Empty(c)
  PROVE  Emitters!NonePending(c)
<1>1. c \in Queues /\ items[c] \in Seq(Node)
  BY DEF IndInv, TypeOK, Queues
<1>2. Nodes(c) = {}
  BY <1>1, EmptyIffNoNodes DEF Nodes, Empty
<1>3. ASSUME NEW p \in Parents, NEW i \in DOMAIN items[p] PROVE items[p][i].owner # c
  <2>1. items[p][i] \in Nodes(p)
    BY DEF Nodes, ToSet
  <2>2. c # p
    BY QueuesAssumption
  <2>3. QED
    BY <1>2, <2>1, <2>2 DEF IndInv, LinksMirrorChildren, IsLink
<1>4. QED
  BY <1>3 DEF Emitters!NonePending

\* Seen from the loops, taking a child's head removes the oldest event of it.
LEMMA ChildHeadSeenFromLoops ==
  ASSUME IndInv, NEW c \in Children, ~Empty(c), items' = WithoutHeadOfChild(c)
  PROVE  LET l == LinkOf(Head(items[c]), parent[c]) IN
         /\ [p \in Parents |-> items[p]]' =
              [[p \in Parents |-> items[p]] EXCEPT ![parent[c]] = RemoveAt(@, l)]
         /\ l \in DOMAIN items[parent[c]]
         /\ items[parent[c]][l] = Head(items[c])
         /\ Emitters!OldestOf(c, l)
         /\ parent[c] \in Parents
<1>1. /\ parent[c] \in Parents /\ parent[c] # c /\ c \notin Parents
      /\ LinkOf(Head(items[c]), parent[c]) \in DOMAIN items[parent[c]]
      /\ items[parent[c]][LinkOf(Head(items[c]), parent[c])] = Head(items[c])
  BY HeadOfChild, QueuesAssumption
<1>2. items \in [Queues -> Seq(Node)] /\ Parents \subseteq Queues /\ c \in Queues
  BY DEF IndInv, TypeOK, Queues
<1>3. QED
  BY <1>1, <1>2, LinkOfHeadIsOldest DEF WithoutHeadOfChild

\* Every step of queue.c is a step of the abstract queue or invisible to it.
LEMMA StepRefines == IndInv /\ [Next]_vars => [Emitters!Next]_(Emitters!absVars)
<1> SUFFICES ASSUME IndInv, [Next]_vars PROVE [Emitters!Next]_(Emitters!absVars)
  OBVIOUS
<1> DEFINE pending == [p \in Parents |-> items[p]]
<1> USE QueuesAssumption
<1>1. \A p \in Parents : p \in Queues /\ pending[p] = items[p]
  BY DEF Queues
<1>2. ASSUME UNCHANGED <<parent, items, returned, nextId>>
      PROVE  [Emitters!Next]_(Emitters!absVars)
  BY <1>2 DEF Emitters!absVars
<1>3. ASSUME NEW c \in Children, NEW to \in Parents \union {NoQueue}, Empty(c),
             parent' = [parent EXCEPT ![c] = to],
             UNCHANGED <<items, returned, nextId>>
      PROVE  Emitters!Next
  <2>1. Emitters!Attach(c, to)
    BY <1>3, EmptyHasNonePending DEF Emitters!Attach
  <2>2. QED
    BY <2>1 DEF Emitters!Next
<1>4. ASSUME NEW c \in Children, ~Empty(c), items' = WithoutHeadOfChild(c),
             UNCHANGED <<parent, nextId>>,
             returned' = Head(items[c]) \/ returned' = returned
      PROVE  Emitters!Next
  <2> DEFINE l == LinkOf(Head(items[c]), parent[c])
  <2>1. /\ pending' = [pending EXCEPT ![parent[c]] = RemoveAt(@, l)]
        /\ l \in DOMAIN pending[parent[c]]
        /\ pending[parent[c]][l] = Head(items[c])
        /\ Emitters!OldestOf(c, l)
        /\ parent[c] \in Parents
    BY <1>1, <1>4, ChildHeadSeenFromLoops
  <2> HIDE DEF l
  <2>2. \A s, i : Emitters!RemoveAt(s, i) = RemoveAt(s, i)
    BY DEF Emitters!RemoveAt, RemoveAt
  <2>3. CASE returned' = Head(items[c])
    <3>1. Emitters!TakeOldestOf(c)
      BY <1>4, <2>1, <2>2, <2>3 DEF Emitters!TakeOldestOf
    <3>2. QED
      BY <3>1 DEF Emitters!Next
  <2>4. CASE returned' = returned
    <3>1. Emitters!DropOldestOf(c)
      BY <1>4, <2>1, <2>2, <2>4 DEF Emitters!DropOldestOf
    <3>2. QED
      BY <3>1 DEF Emitters!Next
  <2>5. QED
    BY <1>4, <2>3, <2>4
<1>5. ASSUME NEW q \in Queues, Put(q) PROVE Emitters!Next
  <2> DEFINE n == [id |-> nextId, owner |-> q]
  <2>1. /\ items' = Pushed(q, n) /\ nextId' = nextId + 1
        /\ UNCHANGED <<parent, returned>> /\ q \in alive
        /\ items \in [Queues -> Seq(Node)]
    BY <1>5 DEF Put, IndInv, TypeOK
  <2>2. CASE q \in Children
    <3>1. parent[q] \in Parents /\ parent[q] # q /\ q \notin Parents
      BY <2>1, <2>2 DEF IndInv, Wiring
    <3>2. pending' = [pending EXCEPT ![parent[q]] = Append(@, n)]
      BY <1>1, <2>1, <2>2, <3>1 DEF Pushed
    <3>3. Emitters!Emit(parent[q], q)
      BY <2>1, <2>2, <3>1, <3>2 DEF Emitters!Emit
    <3>4. QED
      BY <1>5, <3>1, <3>3 DEF Emitters!Next, Emitters!Queues, Queues
  <2>3. CASE q \in Parents
    <3>1. pending' = [pending EXCEPT ![q] = Append(@, n)]
      BY <1>1, <2>1, <2>3 DEF Pushed
    <3>2. Emitters!Emit(q, q)
      BY <2>1, <3>1 DEF Emitters!Emit
    <3>3. QED
      BY <1>5, <2>3, <3>2 DEF Emitters!Next, Emitters!Queues, Queues
  <2>4. QED
    BY <2>2, <2>3 DEF Queues
<1>6. ASSUME NEW p \in Parents, ~Empty(p), items' = [items EXCEPT ![p] = Tail(@)],
             UNCHANGED <<parent, nextId>>,
             returned' = Head(items[p]) \/ returned' = returned
      PROVE  Emitters!Next
  <2>1. pending' = [pending EXCEPT ![p] = Tail(@)] /\ pending[p] # <<>>
    BY <1>1, <1>6 DEF IndInv, TypeOK, Empty
  <2>2. Emitters!TakeOldest(p) \/ Emitters!DropOldest(p)
    BY <1>1, <1>6, <2>1 DEF Emitters!TakeOldest, Emitters!DropOldest
  <2>3. QED
    BY <2>2 DEF Emitters!Next
<1>7. ASSUME NEW p \in Parents, GetLinked(p) PROVE Emitters!Next
  <2> DEFINE c == Head(items[p]).owner
  <2>1. /\ c \in Children /\ ~Empty(c)
        /\ WithoutLinkedHead(p) = WithoutHeadOfChild(c)
    BY <1>7, LinkedHead DEF GetLinked
  <2>2. QED
    BY <1>4, <1>7, <2>1 DEF GetLinked
<1>8. ASSUME FreeNode PROVE Emitters!Next
  <2>1. CASE freeing \in Children
    BY <1>4, <1>8, <2>1 DEF FreeNode
  <2>2. CASE freeing \in Parents
    BY <1>6, <1>8, <2>2 DEF FreeNode
  <2>3. QED
    BY <1>8, <2>1, <2>2 DEF FreeNode, IndInv, TypeOK, Queues
<1>9. ASSUME FreeEnd PROVE [Emitters!Next]_(Emitters!absVars)
  <2>1. parent \in [Children -> Parents \union {NoQueue}]
    BY DEF IndInv, TypeOK
  <2>2. CASE freeing \in Children
    <3>1. parent' = [parent EXCEPT ![freeing] = NoQueue]
      BY <1>9, <2>1 DEF FreeEnd
    <3>2. QED
      BY <1>3, <1>9, <2>2, <3>1 DEF FreeEnd
  <2>3. CASE freeing \notin Children
    <3>1. parent' = parent
      BY <1>9, <2>1, <2>3 DEF FreeEnd
    <3>2. QED
      BY <1>2, <1>9, <3>1 DEF FreeEnd
  <2>4. QED
    BY <2>2, <2>3
<1>10. ASSUME NEW c \in Children, NEW p \in Parents, NewChild(c, p) \/ ReplaceParent(c, p)
       PROVE  Emitters!Next
  <2>1. Empty(c)
    BY <1>10 DEF NewChild, ReplaceParent, IndInv, Wiring, Queues
  <2>2. QED
    BY <1>3, <1>10, <2>1 DEF NewChild, ReplaceParent
<1>11. ASSUME NEW c \in Children, GetFromChild(c) PROVE Emitters!Next
  BY <1>4, <1>11 DEF GetFromChild
<1>12. ASSUME NEW p \in Parents, GetOwn(p) PROVE Emitters!Next
  BY <1>6, <1>12 DEF GetOwn
<1>13. ASSUME \/ \E p \in Parents : NewParent(p) \/ ConsumeStop(p)
              \/ \E q \in Queues : FreeBegin(q)
              \/ UNCHANGED vars
       PROVE  [Emitters!Next]_(Emitters!absVars)
  BY <1>2, <1>13 DEF NewParent, ConsumeStop, FreeBegin, vars
<1>14. QED
  BY <1>5, <1>7, <1>8, <1>9, <1>10, <1>11, <1>12, <1>13 DEF Next, Get

\* The queues of neovim deliver as one sequence of tagged events per loop:
\* every step of EventQueue is a step of EmitterQueue, or none.
THEOREM Refinement == Spec => ImplementsEmitters
<1>1. Init => Emitters!Init
  BY DEF Init, Emitters!Init, NoEvent, Emitters!NoEvent, Queues
<1>2. QED
  BY <1>1, Invariance, StepRefines, PTL DEF Spec, ImplementsEmitters, Emitters!Spec
=============================================================================

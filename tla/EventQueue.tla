----------------------------- MODULE EventQueue -----------------------------
(***************************************************************************)
(* event/queue.c: queues of events with a parent/child relation.           *)
(*                                                                         *)
(* A child queue is the private queue of an emitter (a channel, a job, a   *)
(* timer).  A node put into a child is doubled by a link node at the tail  *)
(* of its parent; taking either one removes the other.  A link node holds  *)
(* only a pointer to the child queue, so what a parent returns is whatever *)
(* is at the HEAD of that child: that it is the node the link was made for *)
(* is a property, not a construction.                                      *)
(*                                                                         *)
(* A node is a record: owner is the queue the event was put into, id the   *)
(* identity of the event and of the item.parent pointer from a child node  *)
(* to its link.  In queue q a node is a link iff its owner is not q.       *)
(***************************************************************************)
EXTENDS Integers, Sequences, FiniteSets, SequencesExt

CONSTANTS Parents,     \* queues made by queue_new_parent
          Children,    \* queues made by queue_new_child
          Notifying,   \* the parents made with a put_cb (loop_on_put)
          MaxEvents,   \* bound of the model: events put in a behaviour
          NoQueue      \* a null Queue pointer

ASSUME QueuesAssumption ==
  /\ Parents \intersect Children = {}
  /\ Notifying \subseteq Parents
  /\ NoQueue \notin Parents \union Children
  /\ MaxEvents \in Nat

Queues == Parents \union Children

VARIABLES alive,       \* the allocated queues
          parent,      \* queue->parent
          items,       \* the nodes of queue->headtail, head first
          freeing,     \* the queue whose queue_free loop is running
          stop,        \* put_cb ran (uv_stop) since the loop last returned
          returned,    \* the event queue_get returned last
          nextId       \* the id of the next event

vars == <<alive, parent, items, freeing, stop, returned, nextId>>

Node == [id : Nat, owner : Queues]
NoEvent == [id |-> 0, owner |-> NoQueue]

IsLink(q, node) == node.owner # q
Empty(q) == items[q] = <<>>

Init ==
  /\ alive = {}
  /\ parent = [c \in Children |-> NoQueue]
  /\ items = [q \in Queues |-> <<>>]
  /\ freeing = NoQueue
  /\ stop = [p \in Parents |-> FALSE]
  /\ returned = NoEvent
  /\ nextId = 1

\* queue_free's loop is not interrupted: there are no other calls during it.
Idle == freeing = NoQueue

NewParent(p) ==
  /\ Idle
  /\ p \notin alive
  /\ alive' = alive \union {p}
  /\ UNCHANGED <<parent, items, freeing, stop, returned, nextId>>

\* assert(!parent->parent): only a parent has children.
NewChild(c, p) ==
  /\ Idle
  /\ c \notin alive
  /\ p \in alive
  /\ alive' = alive \union {c}
  /\ parent' = [parent EXCEPT ![c] = p]
  /\ UNCHANGED <<items, freeing, stop, returned, nextId>>

\* Mutant: the link goes to the head of the parent (QUEUE_INSERT_HEAD).
PushedLinkFirst(q, node) ==
  IF q \in Children
  THEN [items EXCEPT ![q] = Append(@, node), ![parent[q]] = <<node>> \o @]
  ELSE [items EXCEPT ![q] = Append(@, node)]

\* queue_push: the node at the tail of q and, in a child, its link at the
\* tail of the parent.
Pushed(q, node) ==
  IF q \in Children
  THEN [items EXCEPT ![q] = Append(@, node), ![parent[q]] = Append(@, node)]
  ELSE [items EXCEPT ![q] = Append(@, node)]

\* queue_put_event: only a put into a child calls the parent's put_cb.
Put(q) ==
  /\ Idle
  /\ q \in alive
  /\ nextId <= MaxEvents
  /\ items' = Pushed(q, [id |-> nextId, owner |-> q])
  /\ stop' = [p \in Parents |-> stop[p] \/ (p \in Notifying /\ q \in Children /\ parent[q] = p)]
  /\ nextId' = nextId + 1
  /\ UNCHANGED <<alive, parent, freeing, returned>>

\* The link node that a child's node points to, as a position in the parent.
LinkOf(node, p) == CHOOSE i \in DOMAIN items[p] : items[p][i] = node

\* Mutant: the link stays in the parent.
ChildOnlyWithoutHead(c) == [items EXCEPT ![c] = Tail(@)]

\* The head of child c and its link leave their queues.
WithoutHeadOfChild(c) ==
  [items EXCEPT ![c] = Tail(@), ![parent[c]] = RemoveAt(@, LinkOf(Head(items[c]), parent[c]))]

\* queue_remove on a link: the link and the head of the linked queue go.
WithoutLinkedHead(p) ==
  [items EXCEPT ![p] = Tail(@), ![Head(items[p]).owner] = Tail(@)]

GetFromChild(c) ==
  /\ Idle
  /\ c \in alive
  /\ ~Empty(c)
  /\ returned' = Head(items[c])
  /\ items' = WithoutHeadOfChild(c)
  /\ UNCHANGED <<alive, parent, freeing, stop, nextId>>

\* Mutant: the node is returned and not removed.
GetOwnAgain(p) ==
  /\ Idle
  /\ p \in alive
  /\ ~Empty(p)
  /\ ~IsLink(p, Head(items[p]))
  /\ returned' = Head(items[p])
  /\ UNCHANGED <<alive, parent, items, freeing, stop, nextId>>

GetOwn(p) ==
  /\ Idle
  /\ p \in alive
  /\ ~Empty(p)
  /\ ~IsLink(p, Head(items[p]))
  /\ returned' = Head(items[p])
  /\ items' = [items EXCEPT ![p] = Tail(@)]
  /\ UNCHANGED <<alive, parent, freeing, stop, nextId>>

GetLinked(p) ==
  /\ Idle
  /\ p \in alive
  /\ ~Empty(p)
  /\ IsLink(p, Head(items[p]))
  /\ returned' = Head(items[Head(items[p]).owner])
  /\ items' = WithoutLinkedHead(p)
  /\ UNCHANGED <<alive, parent, freeing, stop, nextId>>

\* Mutant: f_jobwait does not process the job's queue first.
ReplaceParentOfAny(c, p) ==
  /\ Idle
  /\ c \in alive
  /\ p \in alive
  /\ parent' = [parent EXCEPT ![c] = p]
  /\ UNCHANGED <<alive, items, freeing, stop, returned, nextId>>

\* assert(queue_empty(queue)): f_jobwait processes the queue first.
ReplaceParent(c, p) ==
  /\ Idle
  /\ c \in alive
  /\ p \in alive
  /\ Empty(c)
  /\ parent' = [parent EXCEPT ![c] = p]
  /\ UNCHANGED <<alive, items, freeing, stop, returned, nextId>>

\* A parent is freed when nobody is attached to it: f_jobwait gives every
\* job its old parent back first, loop_close frees fast_events before events.
FreeBegin(q) ==
  /\ Idle
  /\ q \in alive
  /\ \A c \in Children : parent[c] # q
  /\ freeing' = q
  /\ UNCHANGED <<alive, parent, items, stop, returned, nextId>>

\* One turn of queue_free's loop: in a child, the link is removed first.
FreeNode ==
  /\ freeing # NoQueue
  /\ ~Empty(freeing)
  /\ items' = IF freeing \in Children
              THEN WithoutHeadOfChild(freeing)
              ELSE [items EXCEPT ![freeing] = Tail(@)]
  /\ UNCHANGED <<alive, parent, freeing, stop, returned, nextId>>

FreeEnd ==
  /\ freeing # NoQueue
  /\ Empty(freeing)
  /\ alive' = alive \ {freeing}
  /\ parent' = [c \in Children |-> IF c = freeing THEN NoQueue ELSE parent[c]]
  /\ freeing' = NoQueue
  /\ UNCHANGED <<items, stop, returned, nextId>>

\* uv_run returns and clears its stop flag.
ConsumeStop(p) ==
  /\ Idle
  /\ stop[p]
  /\ stop' = [stop EXCEPT ![p] = FALSE]
  /\ UNCHANGED <<alive, parent, items, freeing, returned, nextId>>

Get(q) ==
  \/ q \in Children /\ GetFromChild(q)
  \/ q \in Parents /\ (GetOwn(q) \/ GetLinked(q))

Next ==
  \/ \E p \in Parents : NewParent(p) \/ ConsumeStop(p)
  \/ \E c \in Children, p \in Parents : NewChild(c, p) \/ ReplaceParent(c, p)
  \/ \E q \in Queues : Put(q) \/ Get(q) \/ FreeBegin(q)
  \/ FreeNode
  \/ FreeEnd

Spec == Init /\ [][Next]_vars

\* Whoever owns a parent queue goes on processing it (main loop, f_jobwait),
\* and a call of queue_free runs to its end.
Fairness ==
  /\ \A p \in Parents : SF_vars(GetOwn(p) \/ GetLinked(p))
  /\ WF_vars(FreeNode)
  /\ WF_vars(FreeEnd)

FairSpec == Spec /\ Fairness

-----------------------------------------------------------------------------
(***************************************************************************)
(* Properties                                                              *)
(***************************************************************************)

\* The types of the variables; a child in use has a parent.
TypeOK ==
  /\ alive \subseteq Queues
  /\ parent \in [Children -> Parents \union {NoQueue}]
  /\ items \in [Queues -> Seq(Node)]
  /\ freeing \in alive \union {NoQueue}
  /\ stop \in [Parents -> BOOLEAN]
  /\ returned \in Node \union {NoEvent}
  /\ nextId \in Nat \ {0}

\* A queue in order of arrival, hence without duplicates.
InOrder(s) == \A i, j \in DOMAIN s : i < j => s[i].id < s[j].id

Nodes(q) == ToSet(items[q])

\* The header of queue.c: a node is in a child queue iff its link is in the
\* parent, in whatever order loops and emitters are processed, reparented
\* and freed; both lists are in order of arrival.
LinksMirrorChildren ==
  /\ \A q \in Queues : InOrder(items[q])
  /\ \A c \in Children : \A n \in Nodes(c) :
       n.owner = c /\ n \in Nodes(parent[c])
  /\ \A p \in Parents : \A n \in Nodes(p) :
       IsLink(p, n) => /\ n.owner \in Children
                       /\ parent[n.owner] = p
                       /\ n \in Nodes(n.owner)

\* assert(!queue_empty(linked)) in queue_remove, and more: the head of the
\* linked queue, which is what queue_get returns, is the node this very link
\* was made for.
LinkReturnsItsNode ==
  \A p \in Parents :
    ~Empty(p) /\ IsLink(p, Head(items[p])) =>
      /\ ~Empty(Head(items[p]).owner)
      /\ Head(items[Head(items[p]).owner]) = Head(items[p])

\* A queue that is not allocated has no nodes and nobody attached to it, and
\* neither has a child the parent that is being freed.
Wiring ==
  /\ \A c \in Children : c \in alive <=> parent[c] \in Parents
  /\ \A c \in Children : parent[c] \in Parents => parent[c] \in alive /\ parent[c] # freeing
  /\ \A q \in Queues \ alive : Empty(q)

\* The ids handed out are below the next one.
IdsBelowNext == \A q \in Queues : \A n \in Nodes(q) : n.id < nextId

\* The inductive invariant: LinksMirrorChildren alone says nothing of the
\* queues that are not allocated nor of the id of the next event.
IndInv == TypeOK /\ Wiring /\ IdsBelowNext /\ LinksMirrorChildren

\* The queue hierarchy behaves as one sequence of tagged events per loop.
Emitters == INSTANCE EmitterQueue WITH attached <- parent,
                                       pending <- [p \in Parents |-> items[p]]
ImplementsEmitters == Emitters!Spec

\* An event put anywhere is taken or discarded with its queue in the end,
\* even if the emitter it came from is moved from one loop to another.
Pending(n) == \E q \in Queues : \E i \in DOMAIN items[q] : items[q][i].id = n
EventuallyTaken == \A n \in 1 .. MaxEvents : Pending(n) ~> ~Pending(n)
=============================================================================

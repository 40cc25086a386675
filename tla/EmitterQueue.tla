---------------------------- MODULE EmitterQueue ----------------------------
(***************************************************************************)
(* What the queue hierarchy of event/queue.c promises, without the link    *)
(* nodes and without the private lists of the emitters: every loop queue   *)
(* holds ONE sequence of events, each tagged with the emitter that put it. *)
(* Processing the loop takes the oldest event; focusing on an emitter      *)
(* (jobwait(), rpcrequest()) takes the oldest event of that emitter and    *)
(* leaves the order of the others alone.  EventQueue implements this.      *)
(***************************************************************************)
EXTENDS Integers, Sequences, SequencesExt

CONSTANTS Parents,     \* the queues the loops process
          Children,    \* the private queues of the emitters
          NoQueue      \* a null Queue pointer

Queues == Parents \union Children

VARIABLES attached,    \* the loop queue an emitter is attached to, or NoQueue
          pending,     \* per loop queue, the events put and not yet taken
          returned,    \* the event queue_get returned last
          nextId       \* every event has an id of its own, in order of arrival

absVars == <<attached, pending, returned, nextId>>

NoEvent == [id |-> 0, owner |-> NoQueue]

Init ==
  /\ attached = [c \in Children |-> NoQueue]
  /\ pending = [p \in Parents |-> <<>>]
  /\ returned = NoEvent
  /\ nextId = 1

OldestOf(c, i) ==
  /\ i \in DOMAIN pending[attached[c]]
  /\ pending[attached[c]][i].owner = c
  /\ \A j \in 1 .. i - 1 : pending[attached[c]][j].owner # c

NonePending(c) ==
  \A p \in Parents : \A i \in DOMAIN pending[p] : pending[p][i].owner # c

\* An emitter without pending events starts, moves to another loop, or leaves.
Attach(c, to) ==
  /\ NonePending(c)
  /\ attached' = [attached EXCEPT ![c] = to]
  /\ UNCHANGED <<pending, returned, nextId>>

Emit(p, owner) ==
  /\ owner = p \/ (owner \in Children /\ attached[owner] = p)
  /\ pending' = [pending EXCEPT ![p] = Append(@, [id |-> nextId, owner |-> owner])]
  /\ nextId' = nextId + 1
  /\ UNCHANGED <<attached, returned>>

TakeOldest(p) ==
  /\ pending[p] # <<>>
  /\ returned' = Head(pending[p])
  /\ pending' = [pending EXCEPT ![p] = Tail(@)]
  /\ UNCHANGED <<attached, nextId>>

TakeOldestOf(c) ==
  /\ attached[c] \in Parents
  /\ \E i \in DOMAIN pending[attached[c]] :
       /\ OldestOf(c, i)
       /\ returned' = pending[attached[c]][i]
       /\ pending' = [pending EXCEPT ![attached[c]] = RemoveAt(@, i)]
  /\ UNCHANGED <<attached, nextId>>

\* Freeing a queue discards its events, oldest first, without returning them.
DropOldest(p) ==
  /\ pending[p] # <<>>
  /\ pending' = [pending EXCEPT ![p] = Tail(@)]
  /\ UNCHANGED <<attached, returned, nextId>>

DropOldestOf(c) ==
  /\ attached[c] \in Parents
  /\ \E i \in DOMAIN pending[attached[c]] :
       /\ OldestOf(c, i)
       /\ pending' = [pending EXCEPT ![attached[c]] = RemoveAt(@, i)]
  /\ UNCHANGED <<attached, returned, nextId>>

Next ==
  \/ \E c \in Children, to \in Parents \union {NoQueue} : Attach(c, to)
  \/ \E p \in Parents, owner \in Queues : Emit(p, owner)
  \/ \E p \in Parents : TakeOldest(p) \/ DropOldest(p)
  \/ \E c \in Children : TakeOldestOf(c) \/ DropOldestOf(c)

Spec == Init /\ [][Next]_absVars
=============================================================================

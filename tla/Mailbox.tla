------------------------------- MODULE Mailbox -------------------------------
(***************************************************************************)
(* What loop_schedule promises to the threads that use the loop of another *)
(* one: what they post is handled once, in the order in which it was       *)
(* posted, and nothing is posted or handled once the loop is closed.  What *)
(* is posted and not handled by then is dropped.  The posts are numbered.  *)
(*                                                                         *)
(* EventLoop implements this with a mutex, a queue of its own and an async *)
(* handle; UIBridge, for the loop of the UI, with one step per call.       *)
(***************************************************************************)
EXTENDS Naturals

VARIABLES posted,   \* how many events were posted
          handled,  \* how many of them were handled: the oldest ones
          open      \* the loop is not closed

mailVars == <<posted, handled, open>>

Init == posted = 0 /\ handled = 0 /\ open = TRUE

Post ==
  /\ open
  /\ posted' = posted + 1
  /\ UNCHANGED <<handled, open>>

Handle ==
  /\ open
  /\ handled < posted
  /\ handled' = handled + 1
  /\ UNCHANGED <<posted, open>>

Close ==
  /\ open
  /\ open' = FALSE
  /\ UNCHANGED <<posted, handled>>

Next == Post \/ Handle \/ Close

Spec == Init /\ [][Next]_mailVars
=============================================================================

----------------------------- MODULE ProcessLife -----------------------------
(***************************************************************************)
(* The life of one child process, as those see it who wait for it and who  *)
(* are called about its exit: without its streams, its handle, its         *)
(* signals and the queues between them.  A process runs, ends, and is gone *)
(* when all its handles are closed.  Its exit event is put once, when the  *)
(* process is gone and nobody waits for it any more, and the exit callback *)
(* is called for it.  Process and Jobs implement this.                     *)
(***************************************************************************)
EXTENDS Naturals

VARIABLES life,       \* "none", "running", "ended", "gone"
          waiters,    \* the calls of process_wait under way
          exits,      \* the exit events put and not yet handled
          called      \* how often the exit callback was called

lifeVars == <<life, waiters, exits, called>>

Init == life = "none" /\ waiters = 0 /\ exits = 0 /\ called = 0

\* Whether the process holds references: its handles' and its waiters'.
Referred == life \in {"running", "ended"} \/ waiters > 0

\* The last reference puts the exit event.
Release(lastOne) == exits' = IF lastOne THEN exits + 1 ELSE exits

Start ==
  /\ life = "none"
  /\ life' = "running"
  /\ UNCHANGED <<waiters, exits, called>>

\* The exit is noticed; or nvim exits and leaves a detached process behind.
End ==
  /\ life = "running"
  /\ life' = "ended"
  /\ UNCHANGED <<waiters, exits, called>>

\* The last handle is closed.
Close ==
  /\ life = "ended"
  /\ life' = "gone"
  /\ Release(waiters = 0)
  /\ UNCHANGED <<waiters, called>>

WaitBegin ==
  /\ Referred
  /\ waiters' = waiters + 1
  /\ UNCHANGED <<life, exits, called>>

\* Only the last waiter is left: it has the status, and gives up the process.
WaitEnd ==
  /\ life = "gone" /\ waiters = 1
  /\ waiters' = 0
  /\ Release(TRUE)
  /\ UNCHANGED <<life, called>>

\* A wait that gives up is never the last reference.
GiveUp ==
  /\ waiters > 0 /\ (life = "gone" => waiters > 1)
  /\ waiters' = waiters - 1
  /\ UNCHANGED <<life, exits, called>>

CallBack ==
  /\ exits > 0
  /\ exits' = exits - 1 /\ called' = called + 1
  /\ UNCHANGED <<life, waiters>>

Next == Start \/ End \/ Close \/ WaitBegin \/ WaitEnd \/ GiveUp \/ CallBack

Spec == Init /\ [][Next]_lifeVars
=============================================================================

------------------------------- MODULE Process -------------------------------
(***************************************************************************)
(* process.c with libuv_process.c and pty_process_unix.c: the life of the  *)
(* child processes of a loop.  A process holds a reference for each of its *)
(* streams, for its handle and for a process_wait; the last one that goes  *)
(* queues the exit event, whose callback frees the process.  Stopping      *)
(* closes the input and leaves the rest to a timer: SIGTERM after a        *)
(* second, SIGKILL after two.                                              *)
(*                                                                         *)
(* A child may exit whenever it likes and must when it is killed.  SIGCHLD *)
(* is pending or not: two that come together are one.                      *)
(***************************************************************************)
EXTENDS Integers, Sequences, FiniteSets, SequencesExt

CONSTANTS Proc,       \* the processes
          Setups      \* the environments that are checked

\* A setup says which processes are of kProcessTypePty and which detach, the
\* calls of process_wait, which streams jobclose() closes, which processes are
\* stopped, whether also after the exit was noticed, and whether nvim exits.
ASSUME ProcessAssumption ==
  /\ IsFiniteSet(Proc) /\ "none" \notin Proc
  /\ \A s \in Setups : /\ s.pty \subseteq Proc /\ s.detached \subseteq Proc \ s.pty
                       /\ s.waits \subseteq [proc : Proc, ms : {"forever", "timed"}]
                       /\ s.closes \subseteq {"in", "out"} /\ s.stops \subseteq Proc
                       /\ {s.late, s.exits} \subseteq BOOLEAN

Streams == {"in", "out"}

VARIABLES child,         \* "none", "running", "zombie", "reaped" (status is known)
          killed,        \* SIGKILL was sent
          sigchld,       \* SIGCHLD is pending
          refcount,      \* refcount
          stream,        \* "none", "open", "closing", "freed" (close_cb ran)
          handle,        \* the same, for the process handle (closed = not open)
          stoppedTime,   \* 0, or how long ago stopped_time is: 1, 2 (SIGTERM
                         \* is due), 3 (SIGKILL is due)
          termSent,      \* term_sent
          noticed,       \* on_process_exit ran
          children,      \* loop->children
          stopRequests,  \* loop->children_stop_requests
          killTimer,     \* loop->children_kill_timer is active
          events,        \* the process events queued, all of them
          exitCbs,       \* the calls of proc->cb, after which proc is freed
          waiting,       \* process_wait: proc, ms, interrupted, and its result
          gotInt,        \* got_int
          exiting,       \* "no", "teardown", "done"
          setup          \* the environment, chosen at the start

Pty == setup.pty
Detached == setup.detached

childVars == <<child, killed, sigchld>>
procVars == <<refcount, stream, handle, stoppedTime, termSent, noticed>>
loopVars == <<children, stopRequests, killTimer, events, exitCbs>>
waitVars == <<waiting, gotInt>>
stateVars == <<childVars, procVars, loopVars, waitVars, exiting>>
processVars == <<stateVars, setup>>

NotWaiting == [proc |-> "none", ms |-> "none", interrupted |-> FALSE, result |-> "none"]
WaitingFor(p) == waiting.proc = p

\* process_wait holds its reference until its result is known.
WaitHolds(p) == WaitingFor(p) /\ waiting.result = "none"

\* libuv runs, but for the end of a process_wait that only processes its queue.
Polls == waiting.result = "none" \/ exiting # "no"

\* The loop of a process_wait runs, and no process_teardown below it: nvim may
\* exit while somebody waits, in a callback or in the handler of a deadly
\* signal, and such a wait never goes on.
WaitPolls == waiting.proc # "none" /\ waiting.result = "none" /\ exiting = "no"

Init ==
  /\ child = [p \in Proc |-> "none"] /\ killed = [p \in Proc |-> FALSE] /\ sigchld = FALSE
  /\ refcount = [p \in Proc |-> 0]
  /\ stream = [p \in Proc |-> [s \in Streams |-> "none"]]
  /\ handle = [p \in Proc |-> "none"]
  /\ stoppedTime = [p \in Proc |-> 0]
  /\ termSent = [p \in Proc |-> FALSE] /\ noticed = [p \in Proc |-> FALSE]
  /\ children = {} /\ stopRequests = 0 /\ killTimer = FALSE /\ events = <<>>
  /\ exitCbs = [p \in Proc |-> 0]
  /\ waiting = NotWaiting /\ gotInt = FALSE
  /\ exiting = "no"
  /\ setup \in Setups

\* process_spawn: a reference for each stream and one for the handle.  A spawn
\* that fails leaves nothing behind.
Spawn(p) ==
  /\ child[p] = "none" /\ exiting = "no" /\ waiting = NotWaiting
  /\ child' = [child EXCEPT ![p] = "running"]
  /\ stream' = [stream EXCEPT ![p] = [s \in Streams |-> "open"]]
  /\ handle' = [handle EXCEPT ![p] = "open"]
  /\ refcount' = [refcount EXCEPT ![p] = Cardinality(Streams) + 1]
  /\ children' = children \union {p}
  /\ UNCHANGED <<killed, sigchld, stoppedTime, termSent, noticed, stopRequests, killTimer,
                 events, exitCbs, waitVars, exiting>>

-----------------------------------------------------------------------------
\* The operating system.

ChildExits(p) ==
  /\ child[p] = "running"
  /\ child' = [child EXCEPT ![p] = "zombie"]
  /\ sigchld' = TRUE
  /\ UNCHANGED <<killed, procVars, loopVars, waitVars, exiting>>

TimePasses(p) ==
  /\ stoppedTime[p] \in {1, 2} /\ p \in children
  /\ stoppedTime' = [stoppedTime EXCEPT ![p] = @ + 1]
  /\ UNCHANGED <<childVars, refcount, stream, handle, termSent, noticed, loopVars, waitVars, exiting>>

-----------------------------------------------------------------------------
\* Exit.

Event(p, kind) == [proc |-> p, kind |-> kind]

\* Mutant: the timer stops with the first request that is answered.
AnsweredAll(answered) ==
  IF answered = {} THEN UNCHANGED <<stopRequests, killTimer>>
  ELSE stopRequests' = 0 /\ killTimer' = FALSE

\* on_process_exit takes off the stop request of each process that exited; the
\* timer stops with the last request.
Answered(answered) ==
  LET left == stopRequests - Cardinality(answered)
  IN  /\ stopRequests' = IF left > 0 THEN left ELSE 0
      /\ killTimer' = (killTimer /\ (answered = {} \/ left > 0))

\* One SIGCHLD: libuv asks for each process whose handle is open, and
\* chld_handler (once a pty was spawned) takes one child, whichever waitpid(-1)
\* returns, before libuv or after it, and looks for it among the children.
\* Each one found is given to on_process_exit.
Sigchld ==
  /\ Polls /\ sigchld
  /\ sigchld' = FALSE
  /\ LET zombies == {p \in Proc : child[p] = "zombie"}
         own == {p \in zombies \ Pty : handle[p] = "open"}
         handler == zombies # {} /\ \E p \in Pty : child[p] # "none"
     IN  \E taken \in IF handler THEN {{p} : p \in zombies} ELSE {{}} :
           LET found == own \union (taken \cap children)
           IN  /\ child' = [p \in Proc |-> IF p \in own \union taken THEN "reaped" ELSE child[p]]
               /\ noticed' = [p \in Proc |-> noticed[p] \/ p \in found]
               /\ Answered({p \in found : stoppedTime[p] > 0})
               /\ events' = events \o SetToSeq({Event(p, "close") : p \in found})
  /\ UNCHANGED <<killed, refcount, stream, handle, stoppedTime, termSent, children, exitCbs,
                 waitVars, exiting>>

\* decref of some references, and the events queued so far.
Released(p, n, evs) ==
  /\ refcount' = [refcount EXCEPT ![p] = @ - n]
  /\ IF refcount[p] = n
     THEN children' = children \ {p} /\ events' = Append(evs, Event(p, "exit"))
     ELSE children' = children /\ events' = evs

\* Mutant: the wrappers do not look at closed.
ClosedStreamsAgain(p, ss) ==
  [stream EXCEPT ![p] = [s \in Streams |-> IF s \in ss THEN "closing" ELSE @[s]]]

\* Wrappers that protect against double closing.
ClosedStreams(p, ss) ==
  [stream EXCEPT ![p] = [s \in Streams |-> IF s \in ss /\ @[s] = "open" THEN "closing" ELSE @[s]]]

\* close_cb of a stream, once nothing is pending: on_process_stream_close.
StreamClosed(p, s) ==
  /\ Polls /\ stream[p][s] = "closing"
  /\ stream' = [stream EXCEPT ![p][s] = "freed"]
  /\ Released(p, 1, events)
  /\ UNCHANGED <<childVars, handle, stoppedTime, termSent, noticed, stopRequests, killTimer,
                 exitCbs, waitVars, exiting>>

\* close_cb of the libuv process handle.
HandleClosed(p) ==
  /\ Polls /\ handle[p] = "closing"
  /\ handle' = [handle EXCEPT ![p] = "freed"]
  /\ Released(p, 1, events)
  /\ UNCHANGED <<childVars, stream, stoppedTime, termSent, noticed, stopRequests, killTimer,
                 exitCbs, waitVars, exiting>>

\* The process whose queue a process_wait processes: the main loop, and the loop
\* of process_teardown, process the events of all.
Focus(p) == (waiting # NotWaiting /\ exiting = "no") => WaitingFor(p)

\* The first event of the queue.  What is left when process_teardown is over is
\* never handled.
Handled(i) ==
  /\ i \in 1 .. Len(events) /\ exiting # "done"
  /\ Focus(events[i].proc)
  /\ \A j \in 1 .. i - 1 : ~Focus(events[j].proc)

\* process_close_handles: the streams, then process_close, which for a pty
\* calls decref at once.
CloseHandles(p, evs) ==
  /\ stream' = ClosedStreams(p, Streams)
  /\ IF handle[p] # "open"
     THEN events' = evs /\ UNCHANGED <<handle, refcount, children>>
     ELSE IF p \in Pty
          THEN handle' = [handle EXCEPT ![p] = "freed"] /\ Released(p, 1, evs)
          ELSE /\ handle' = [handle EXCEPT ![p] = "closing"]
               /\ events' = evs /\ UNCHANGED <<refcount, children>>

HandleClose(i) ==
  /\ Handled(i) /\ events[i].kind = "close"
  /\ CloseHandles(events[i].proc, RemoveAt(events, i))
  /\ UNCHANGED <<childVars, stoppedTime, termSent, noticed, stopRequests, killTimer, exitCbs,
                 waitVars, exiting>>

\* process_close_event: proc->cb.
HandleExit(i) ==
  /\ Handled(i) /\ events[i].kind = "exit"
  /\ events' = RemoveAt(events, i)
  /\ exitCbs' = [exitCbs EXCEPT ![events[i].proc] = @ + 1]
  /\ UNCHANGED <<childVars, procVars, children, stopRequests, killTimer, waitVars, exiting>>

-----------------------------------------------------------------------------
\* Stopping.

\* process_close_in, process_close_out: jobclose(), the end of a write.
CloseStream(p, s) ==
  /\ s \in setup.closes /\ stream[p][s] = "open" /\ exiting = "no" /\ waiting = NotWaiting
  /\ stream' = ClosedStreams(p, {s})
  /\ UNCHANGED <<childVars, refcount, handle, stoppedTime, termSent, noticed, loopVars, waitVars,
                 exiting>>

\* process_stop, as a change of the streams, the times and the timer of the
\* processes that were not stopped before.
Stopped(ps) ==
  LET new == {p \in ps : stoppedTime[p] = 0}
  IN  /\ stoppedTime' = [p \in Proc |-> IF p \in new THEN 1 ELSE stoppedTime[p]]
      /\ stream' = [p \in Proc |->
                      IF p \notin new THEN stream[p]
                      ELSE ClosedStreams(p, IF p \in Pty THEN Streams ELSE {"in"})[p]]
      /\ stopRequests' = stopRequests + Cardinality(new)
      /\ killTimer' = (killTimer \/ new # {})

\* jobstop(), the close of a terminal or of an rpc channel.
Stop(p) ==
  /\ p \in setup.stops /\ child[p] # "none" /\ exitCbs[p] = 0
  /\ exiting = "no" /\ waiting = NotWaiting
  /\ setup.late \/ ~noticed[p]
  /\ stoppedTime[p] = 0
  /\ Stopped({p})
  /\ UNCHANGED <<childVars, refcount, handle, termSent, noticed, children, events, exitCbs,
                 waitVars, exiting>>

DueForTerm(p) == p \in children /\ stoppedTime[p] >= 2 /\ ~termSent[p]

\* Mutant: the second branch needs a process that was not sent SIGTERM.
DueForKillNever(p) == p \in children /\ stoppedTime[p] = 3 /\ ~termSent[p]

DueForKill(p) == p \in children /\ stoppedTime[p] = 3 /\ ~DueForTerm(p)

\* children_kill_cb: each child that was stopped, by its time.
KillTick ==
  /\ Polls /\ killTimer
  /\ \E p \in Proc : DueForTerm(p) \/ (DueForKill(p) /\ ~killed[p])
  /\ termSent' = [p \in Proc |-> termSent[p] \/ DueForTerm(p)]
  /\ killed' = [p \in Proc |-> killed[p] \/ DueForKill(p)]
  /\ UNCHANGED <<child, sigchld, refcount, stream, handle, stoppedTime, noticed, loopVars, waitVars,
                 exiting>>

-----------------------------------------------------------------------------
\* process_wait.

Status == "status"    \* proc->status

\* A process without a reference has exited: its queue is processed, and its
\* status returned.
WaitBegin(p, ms) ==
  /\ waiting = NotWaiting /\ exiting = "no"
  /\ child[p] # "none" /\ exitCbs[p] = 0
  /\ \/ /\ refcount[p] > 0
        /\ waiting' = [NotWaiting EXCEPT !.proc = p, !.ms = ms]
        /\ refcount' = [refcount EXCEPT ![p] = @ + 1]
     \/ /\ refcount[p] = 0
        /\ waiting' = [NotWaiting EXCEPT !.proc = p, !.ms = ms, !.result = Status]
        /\ refcount' = refcount
  /\ UNCHANGED <<childVars, stream, handle, stoppedTime, termSent, noticed, loopVars, gotInt,
                 exiting>>

\* CTRL-C
Interrupt ==
  /\ WaitPolls /\ ~gotInt
  /\ gotInt' = TRUE
  /\ UNCHANGED <<childVars, procVars, loopVars, waiting, exiting>>

\* The wait is interrupted: the process is stopped.
WaitInterrupted ==
  /\ WaitPolls /\ gotInt /\ ~waiting.interrupted
  /\ gotInt' = FALSE
  /\ waiting' = [waiting EXCEPT !.interrupted = TRUE]
  /\ Stopped({waiting.proc})
  /\ UNCHANGED <<childVars, refcount, handle, termSent, noticed, children, events, exitCbs,
                 exiting>>

\* The process is done: the status is taken, and the last reference given up.
WaitExited ==
  /\ WaitPolls
  /\ ~gotInt \/ waiting.interrupted
  /\ refcount[waiting.proc] = 1
  /\ Released(waiting.proc, 1, events)
  /\ waiting' = [waiting EXCEPT !.result = IF waiting.interrupted THEN "-2" ELSE Status]
  /\ UNCHANGED <<childVars, stream, handle, stoppedTime, termSent, noticed, stopRequests,
                 killTimer, exitCbs, gotInt, exiting>>

\* Mutant: the reference that is given up may be the last one.
WaitGivesUpLast ==
  /\ WaitPolls /\ waiting.ms = "timed"
  /\ ~gotInt \/ waiting.interrupted
  /\ refcount' = [refcount EXCEPT ![waiting.proc] = @ - 1]
  /\ waiting' = NotWaiting
  /\ UNCHANGED <<childVars, stream, handle, stoppedTime, termSent, noticed, loopVars, gotInt,
                 exiting>>

\* The time is over, or the wait was one with a time and was interrupted:
\* process_wait returns -1 without processing its queue.
WaitGivesUp ==
  /\ WaitPolls /\ waiting.ms = "timed"
  /\ ~gotInt \/ waiting.interrupted
  /\ refcount[waiting.proc] # 1
  /\ refcount' = [refcount EXCEPT ![waiting.proc] = @ - 1]
  /\ waiting' = NotWaiting
  /\ UNCHANGED <<childVars, stream, handle, stoppedTime, termSent, noticed, loopVars, gotInt,
                 exiting>>

\* process_wait returns to its caller: the exit event, and all others of the
\* queue, are processed before.
WaitReturn ==
  /\ waiting.result # "none" /\ exiting = "no"
  /\ \A i \in 1 .. Len(events) : ~WaitingFor(events[i].proc)
  /\ waiting' = NotWaiting
  /\ UNCHANGED <<childVars, procVars, loopVars, gotInt, exiting>>

-----------------------------------------------------------------------------
\* Mutant: every process is closed, not the detached ones only.
TeardownClosesAll ==
  /\ setup.exits /\ exiting = "no"
  /\ exiting' = "teardown"
  /\ LET ps == children \ Detached
         new == {p \in ps \ Pty : stoppedTime[p] = 0}
     IN  /\ events' = events \o SetToSeq({Event(p, "close") : p \in children})
         /\ termSent' = [p \in Proc |-> termSent[p] \/ p \in ps \ Pty]
         /\ stoppedTime' = [p \in Proc |-> IF p \in new THEN 1 ELSE stoppedTime[p]]
         /\ stream' = [p \in Proc |-> IF p \in new THEN ClosedStreams(p, {"in"})[p]
                                      ELSE IF p \in ps \cap Pty THEN ClosedStreams(p, Streams)[p]
                                      ELSE stream[p]]
         /\ stopRequests' = stopRequests + Cardinality(new)
         /\ killTimer' = (killTimer \/ new # {})
  /\ UNCHANGED <<childVars, refcount, handle, noticed, children, exitCbs, waitVars>>

\* process_teardown, at any time, also in a callback or a signal handler below a
\* process_wait: detached processes are closed, libuv's are sent SIGTERM and
\* stopped, the streams of a pty are closed; then it waits for all.
Teardown ==
  /\ setup.exits /\ exiting = "no"
  /\ exiting' = "teardown"
  /\ LET ps == children \ Detached
         new == {p \in ps \ Pty : stoppedTime[p] = 0}
     IN  /\ events' = events \o SetToSeq({Event(p, "close") : p \in children \cap Detached})
         /\ termSent' = [p \in Proc |-> termSent[p] \/ p \in ps \ Pty]
         /\ stoppedTime' = [p \in Proc |-> IF p \in new THEN 1 ELSE stoppedTime[p]]
         /\ stream' = [p \in Proc |-> IF p \in new THEN ClosedStreams(p, {"in"})[p]
                                      ELSE IF p \in ps \cap Pty THEN ClosedStreams(p, Streams)[p]
                                      ELSE stream[p]]
         /\ stopRequests' = stopRequests + Cardinality(new)
         /\ killTimer' = (killTimer \/ new # {})
  /\ UNCHANGED <<childVars, refcount, handle, noticed, children, exitCbs, waitVars>>

TeardownEnd ==
  /\ exiting = "teardown" /\ children = {}
  /\ exiting' = "done"
  /\ UNCHANGED <<childVars, procVars, loopVars, waitVars>>

Step ==
  \/ \E p \in Proc : Spawn(p) \/ ChildExits(p) \/ TimePasses(p) \/ HandleClosed(p) \/ Stop(p)
  \/ \E p \in Proc, s \in Streams : StreamClosed(p, s) \/ CloseStream(p, s)
  \/ \E i \in 1 .. Len(events) : HandleClose(i) \/ HandleExit(i)
  \/ \E w \in setup.waits : WaitBegin(w.proc, w.ms)
  \/ Sigchld \/ KillTick \/ Interrupt \/ WaitInterrupted \/ WaitExited \/ WaitGivesUp
  \/ WaitReturn \/ Teardown \/ TeardownEnd

Next == Step /\ UNCHANGED setup

Spec == Init /\ [][Next]_processVars

\* The loop polls and handles its events; time passes; a child that is killed
\* exits; a wait that is over returns.  Strong fairness of handling, since every
\* wait processes its queue at least once.  Nothing else has to happen.
Fairness ==
  /\ \A p \in Proc : WF_stateVars(TimePasses(p)) /\ WF_stateVars(HandleClosed(p))
  /\ \A p \in Proc : WF_stateVars(killed[p] /\ ChildExits(p))
  /\ \A p \in Proc, s \in Streams : WF_stateVars(StreamClosed(p, s))
  /\ SF_stateVars(\E i \in 1 .. Len(events) : HandleClose(i) \/ HandleExit(i))
  /\ WF_stateVars(Sigchld) /\ WF_stateVars(KillTick)
  /\ WF_stateVars(WaitInterrupted \/ WaitExited \/ WaitGivesUp \/ WaitReturn)
  /\ WF_stateVars(TeardownEnd)

LiveSpec == Spec /\ Fairness

-----------------------------------------------------------------------------
(***************************************************************************)
(* Properties                                                              *)
(***************************************************************************)

\* The types of the variables.
TypeOK ==
  /\ child \in [Proc -> {"none", "running", "zombie", "reaped"}]
  /\ refcount \in [Proc -> 0 .. Cardinality(Streams) + 2]
  /\ stream \in [Proc -> [Streams -> {"none", "open", "closing", "freed"}]]
  /\ handle \in [Proc -> {"none", "open", "closing", "freed"}]
  /\ stoppedTime \in [Proc -> 0 .. 3]
  /\ {termSent, noticed, killed} \subseteq [Proc -> BOOLEAN]
  /\ children \subseteq Proc
  /\ stopRequests \in Nat
  /\ events \in Seq([proc : Proc, kind : {"close", "exit"}])
  /\ exitCbs \in [Proc -> Nat]
  /\ waiting.proc \in Proc \union {"none"}
  /\ {sigchld, killTimer, gotInt} \subseteq BOOLEAN
  /\ exiting \in {"no", "teardown", "done"}

\* The references are those of the streams and the handle that are not freed,
\* and of the function that waits; and a process is among the children as long
\* as there is one.
RefcountIsExact ==
  /\ TypeOK
  /\ \A p \in Proc :
       /\ refcount[p] = Cardinality({s \in Streams : stream[p][s] \in {"open", "closing"}})
                        + (IF handle[p] \in {"open", "closing"} THEN 1 ELSE 0)
                        + (IF WaitHolds(p) THEN 1 ELSE 0)
       /\ p \in children <=> refcount[p] > 0

\* The assertion of process_close: nobody closes a process that is closed, but
\* for a detached one that exits while nvim does.
NotClosedTwice ==
  \A i \in 1 .. Len(events) :
    LET p == events[i].proc
    IN  events[i].kind = "close" =>
          \/ handle[p] = "open" /\ \A j \in 1 .. i - 1 : events[j] # events[i]
          \/ exiting # "no" /\ p \in Detached

\* A process is closed once and freed once: nobody is called about one that was
\* freed, and the exit callback is called once, with the status, and never while
\* a process_wait for the process may still read that status.
FreedOnce ==
  /\ NotClosedTwice
  /\ \A p \in Proc :
       /\ exitCbs[p] <= 1
       /\ exitCbs[p] = 1 => ~WaitHolds(p) /\ \A i \in 1 .. Len(events) : events[i].proc # p
       /\ exitCbs[p] = 1 /\ p \notin Detached => child[p] = "reaped"

\* As long as a process was asked to stop and did not exit, the timer that will
\* kill it runs, however many others stop, exit or are waited for.
KillTimerIsArmed ==
  \A p \in Proc : stoppedTime[p] > 0 /\ ~noticed[p] => killTimer /\ stopRequests > 0

\* Nobody handles the events of p, or its last reference is not given up:
\* someone waits without a time for another process, or nvim exits below a
\* process_wait for p.
Neglected(p) ==
  IF exiting = "no" THEN waiting.ms = "forever" /\ ~WaitingFor(p) ELSE WaitHolds(p)

\* A pty that is not known to have exited: process_teardown closes its streams
\* but neither stops nor kills it, and of two that exit together one SIGCHLD may
\* tell of one only.
PtyOutlives == \E p \in children \cap Pty : ~noticed[p]

\* process_stop is an order: whatever a process of libuv does with SIGTERM, its
\* exit callback is called in the end or nvim is gone, unless it is neglected
\* for ever; and process_teardown comes to its end, unless it runs below a
\* process_wait or a pty outlives it.
StopEndsInExit ==
  /\ \A p \in Proc :
       \/ <>[]Neglected(p)
       \/ stoppedTime[p] > 0 /\ p \notin Pty ~> exitCbs[p] = 1 \/ exiting = "done"
  /\ \/ <>[]PtyOutlives
     \/ exiting = "teardown" /\ (\A p \in Proc : ~WaitHolds(p)) ~> exiting = "done"

-----------------------------------------------------------------------------
(***************************************************************************)
(* What a process is to those who wait for it                              *)
(***************************************************************************)

\* It has ended when its exit was noticed, or when it is detached and nvim
\* exits; it is gone when only a process_wait may still refer to it.
WaitersOf(p) == IF WaitHolds(p) THEN 1 ELSE 0
Ended(p) == noticed[p] \/ (exiting # "no" /\ p \in Detached)
LifeOf(p) ==
  IF child[p] = "none" THEN "none"
  ELSE IF refcount[p] = WaitersOf(p) THEN "gone"
  ELSE IF Ended(p) THEN "ended" ELSE "running"
ExitsOf(p) == IF \E i \in DOMAIN events : events[i] = Event(p, "exit") THEN 1 ELSE 0

Life(p) == INSTANCE ProcessLife WITH life <- LifeOf(p), waiters <- WaitersOf(p),
                                     exits <- ExitsOf(p), called <- exitCbs[p]

\* Every process, whatever the others do, lives the life of ProcessLife: its
\* exit event is put once, by the last of its handles or by the process_wait
\* that outlives them, and never while somebody still waits for its status.
ImplementsLife ==
  /\ \A p \in Proc : Life(p)!Init
  /\ [][\A p \in Proc : [Life(p)!Next]_(Life(p)!lifeVars)]_processVars
=============================================================================

--------------------------------- MODULE Jobs ---------------------------------
(***************************************************************************)
(* The jobs of eval.c: jobstart(), termopen(), jobstop() and jobwait(), the *)
(* callbacks, and the data they share with the process and its queue of    *)
(* events.  What Process does in detail is here a phase: the references of *)
(* the streams and the handle are one, dropped when all are closed.        *)
(*                                                                         *)
(* Vimscript runs on the main thread only, but it nests: an event handler  *)
(* calls a callback, the callback waits for another job and handles more   *)
(* events.  stack holds the calls under way, the innermost last:           *)
(*   "wait"   jobwait(), with the list it will return                      *)
(*   "drain"  queue_process_events of one job's queue, or of a parent's    *)
(*   "cb"     a callback of the user, of an output or of the exit          *)
(***************************************************************************)
EXTENDS Integers, Sequences, FiniteSets, SequencesExt

CONSTANTS Job,
          TermSets,      \* which jobs are those of termopen(): one of these
          Lists,         \* the argument lists of jobwait()
          OnStdout,      \* the jobs with an on_stdout callback
          Careful,       \* callbacks do not stop, nor wait for, a job that is
                         \* waited for, nor wait for their own; jobwait() is
                         \* given no terminal and no job twice
          MaxOutput,     \* bound: chunks of output per job
          MaxWaits,      \* bound: calls of jobwait() under way
          MaxDepth,      \* bound: calls under way when the user makes one more
          NULL

ASSUME JobsAssumption ==
  /\ OnStdout \subseteq Job /\ Careful \in BOOLEAN
  /\ TermSets \subseteq SUBSET Job /\ Lists \subseteq Seq(Job)
  /\ {MaxOutput, MaxWaits, MaxDepth} \subseteq Nat
  /\ NULL \notin Nat /\ NULL \notin [w : Nat, i : Nat]

VARIABLES terminals,   \* the jobs of termopen()
          mem,         \* the TerminalJobData: "none", "live", "freeing" (the
                       \* event is in fast_events), "freed"
          jobs,        \* the map `jobs`
          refcount,    \* data->refcount
          stopped,     \* data->stopped
          exited,      \* data->exited
          term,        \* "none", "open", "exited" (closed, the message is
                       \* shown), "closing" (close_cb was called), "destroyed",
                       \* "lost" (the buffer is gone, the terminal is not)
          statusPtr,   \* data->status_ptr: a jobwait() and an index, or NULL
          parent,      \* the parent of data->events: 0 for main_loop.events, or
                       \* the waiting_jobs of that jobwait()
          queue,       \* data->events
          phase,       \* the process: "none", "running", "exited" (noticed),
                       \* "closing", "gone" (all handles are closed)
          asked,       \* process_stop was called
          waiters,     \* the references of process_wait
          outs,        \* chunks of output read
          stack,       \* the calls under way
          gotInt       \* got_int

dataVars == <<terminals, mem, jobs, refcount, stopped, exited, term, statusPtr>>
procVars == <<phase, asked, waiters, outs>>
jobsVars == <<dataVars, parent, queue, procVars, stack, gotInt>>

Main == 0

Init ==
  /\ terminals \in TermSets
  /\ mem = [j \in Job |-> "none"] /\ jobs = {}
  /\ refcount = [j \in Job |-> 0]
  /\ stopped = [j \in Job |-> FALSE] /\ exited = [j \in Job |-> FALSE]
  /\ term = [j \in Job |-> "none"] /\ statusPtr = [j \in Job |-> NULL]
  /\ parent = [j \in Job |-> Main] /\ queue = [j \in Job |-> <<>>]
  /\ phase = [j \in Job |-> "none"] /\ asked = [j \in Job |-> FALSE]
  /\ waiters = [j \in Job |-> 0] /\ outs = [j \in Job |-> 0]
  /\ stack = <<>> /\ gotInt = FALSE

-----------------------------------------------------------------------------
\* The stack.  A jobwait() is named by its depth.

Top == Last(stack)
Callers == Front(stack)
Push(f) == stack' = Append(stack, f)
Pop == stack' = Callers
Becomes(f) == stack' = Append(Callers, f)
Calls(f, g) == stack' = Append(Append(Callers, f), g)   \* f, which calls g
TopIs(kind) == stack # <<>> /\ Top.kind = kind
TopWait(pc) == TopIs("wait") /\ Top.pc = pc
Goto(pc) == [Top EXCEPT !.pc = pc]

Callback(j, what) == [kind |-> "cb", job |-> j, what |-> what]
DrainJob(j) == [kind |-> "drain", of |-> {j}, parent |-> NULL]
DrainParent(w) == [kind |-> "drain", of |-> {}, parent |-> w]

Frames(kind) == {f \in Range(stack) : f.kind = kind}
RunningWaits == {f.w : f \in Frames("wait")}

\* The jobs whose events a drain takes, and those of a parent queue.
Children(w) == {j \in Job : mem[j] = "live" /\ parent[j] = w}
Drained(f) == IF f.parent = NULL THEN f.of ELSE Children(f.parent)

\* The user's Vimscript runs: at the top level, or in a callback.
UserTurn == stack = <<>> \/ TopIs("cb")

FindJob(j) == j \in jobs /\ ~stopped[j]

\* How often x is in a sequence.
Times(x, s) == Cardinality({i \in DOMAIN s : s[i] = x})

\* pending_reqs of the streams of a job: read events queued or under way.
PendingReqs(j) == Times("out", queue[j]) + Times(Callback(j, "out"), stack)

\* loop_poll_events ends with the fast events: data that waits there is freed.
FastEvents == mem' = [j \in Job |-> IF mem[j] = "freeing" THEN "freed" ELSE mem[j]]

\* The references of the process: those of process_wait, and one for its handles.
ProcRefcount(j) == waiters[j] + (IF phase[j] = "gone" THEN 0 ELSE 1)

\* The loop is polled: when idle, in a callback that sleeps, in process_wait.
Polling ==
  \/ UserTurn
  \/ /\ TopIs("wait") /\ Top.pc \in {"waiting", "stopping", "polling"}
     /\ Top.pc = "waiting" => ~gotInt
     /\ \A j \in Children(Top.w) : queue[j] = <<>>
     /\ Top.pc # "polling" => ProcRefcount(Top.ids[Top.i]) # 1

-----------------------------------------------------------------------------
\* The process, as the poll of the loop sees it.

Put(j, event) == queue' = [queue EXCEPT ![j] = Append(@, event)]

\* A chunk is read: a read event.  Without a callback there is no stream; those
\* of a terminal that was stopped are closed.
Output(j) ==
  /\ Polling /\ FastEvents
  /\ phase[j] \in {"running", "exited"} /\ outs[j] < MaxOutput
  /\ j \in OnStdout \union terminals /\ ~(asked[j] /\ j \in terminals)
  /\ outs' = [outs EXCEPT ![j] = @ + 1]
  /\ Put(j, "out")
  /\ UNCHANGED <<terminals, jobs, refcount, stopped, exited, term, statusPtr, parent, phase, asked,
                 waiters, stack, gotInt>>

\* The child exits, SIGCHLD is handled: process_close_handles is queued.
Exit(j) ==
  /\ Polling /\ FastEvents
  /\ phase[j] = "running"
  /\ phase' = [phase EXCEPT ![j] = "exited"]
  /\ Put(j, "close")
  /\ UNCHANGED <<terminals, jobs, refcount, stopped, exited, term, statusPtr, parent, asked, waiters,
                 outs, stack, gotInt>>

\* Mutant: the handles are closed under the read events.
ClosedEarly(j) ==
  /\ Polling /\ FastEvents
  /\ phase[j] = "closing"
  /\ phase' = [phase EXCEPT ![j] = "gone"]
  /\ IF waiters[j] = 0 THEN Put(j, "exit") ELSE UNCHANGED queue
  /\ UNCHANGED <<terminals, jobs, refcount, stopped, exited, term, statusPtr, parent, asked, waiters,
                 outs, stack, gotInt>>

\* Mutant: the exit event is queued although process_wait holds a reference.
ClosedAnyway(j) ==
  /\ Polling /\ FastEvents
  /\ phase[j] = "closing" /\ PendingReqs(j) = 0
  /\ phase' = [phase EXCEPT ![j] = "gone"]
  /\ Put(j, "exit")
  /\ UNCHANGED <<terminals, jobs, refcount, stopped, exited, term, statusPtr, parent, asked, waiters,
                 outs, stack, gotInt>>

\* The last close_cb: the exit event is queued, unless process_wait holds a
\* reference.  A stream is not closed before its read events are handled.
Closed(j) ==
  /\ Polling /\ FastEvents
  /\ phase[j] = "closing" /\ PendingReqs(j) = 0
  /\ phase' = [phase EXCEPT ![j] = "gone"]
  /\ IF waiters[j] = 0 THEN Put(j, "exit") ELSE UNCHANGED queue
  /\ UNCHANGED <<terminals, jobs, refcount, stopped, exited, term, statusPtr, parent, asked, waiters,
                 outs, stack, gotInt>>

\* A poll in which nothing happens but the fast events.
PollFast ==
  /\ Polling /\ FastEvents
  /\ \E j \in Job : mem[j] = "freeing"
  /\ UNCHANGED <<terminals, jobs, refcount, stopped, exited, term, statusPtr, parent, queue, procVars,
                 stack, gotInt>>

-----------------------------------------------------------------------------
\* Handlers.

\* queue_process_events(main_loop.events): the main loop, or a callback that
\* waits for the user's input.
DrainMain ==
  /\ UserTurn /\ Len(stack) < MaxDepth
  /\ \E j \in Children(Main) : queue[j] # <<>>
  /\ Push(DrainParent(Main))
  /\ UNCHANGED <<dataVars, parent, queue, procVars, gotInt>>

DrainEnd ==
  /\ TopIs("drain")
  /\ \A j \in Drained(Top) : queue[j] = <<>>
  /\ Pop
  /\ UNCHANGED <<dataVars, parent, queue, procVars, gotInt>>

Handling(j, event) ==
  /\ TopIs("drain") /\ j \in Drained(Top)
  /\ queue[j] # <<>> /\ Head(queue[j]) = event

\* read_event, on_job_output: the callback.
HandleOutput(j) ==
  /\ Handling(j, "out")
  /\ queue' = [queue EXCEPT ![j] = Tail(@)]
  /\ IF j \in OnStdout THEN Push(Callback(j, "out")) ELSE UNCHANGED stack
  /\ UNCHANGED <<dataVars, parent, procVars, gotInt>>

\* process_close_handles
HandleClose(j) ==
  /\ Handling(j, "close")
  /\ queue' = [queue EXCEPT ![j] = Tail(@)]
  /\ phase' = [phase EXCEPT ![j] = "closing"]
  /\ UNCHANGED <<dataVars, parent, asked, waiters, outs, stack, gotInt>>

\* The lists of the calls under way, with *status_ptr of j set.
WithStatus(j, value, frames) ==
  [k \in 1 .. Len(frames) |->
     IF frames[k].kind = "wait" /\ statusPtr[j] # NULL /\ frames[k].w = statusPtr[j].w
        /\ statusPtr[j].i <= Len(frames[k].res)
     THEN [frames[k] EXCEPT !.res[statusPtr[j].i] = value] ELSE frames[k]]

\* on_process_exit: the terminal shows that the process exited, jobwait()'s
\* list gets the status, the callback is called.
HandleExit(j) ==
  /\ Handling(j, "exit")
  /\ queue' = [queue EXCEPT ![j] = Tail(@)]
  /\ IF term[j] = "open" /\ ~exited[j]
     THEN exited' = [exited EXCEPT ![j] = TRUE] /\ term' = [term EXCEPT ![j] = "exited"]
     ELSE UNCHANGED <<exited, term>>
  /\ stack' = Append(WithStatus(j, "status", stack), Callback(j, "exit"))
  /\ UNCHANGED <<terminals, mem, jobs, refcount, stopped, statusPtr, parent, procVars, gotInt>>

\* term_job_data_decref
Decref(j) ==
  /\ refcount' = [refcount EXCEPT ![j] = @ - 1]
  /\ mem' = IF refcount[j] = 1 THEN [mem EXCEPT ![j] = "freeing"] ELSE mem

\* The callback returns: rbuffer_consumed; or the end of on_job_event, which
\* takes the job off the map.
CallbackEnd ==
  /\ TopIs("cb")
  /\ Pop
  /\ IF Top.what = "exit" THEN Decref(Top.job) /\ jobs' = jobs \ {Top.job}
                          ELSE UNCHANGED <<refcount, mem, jobs>>
  /\ UNCHANGED <<terminals, stopped, exited, term, statusPtr, parent, queue, procVars, gotInt>>

\* term_delayed_free: again later, if a stream has requests pending.
HandleDelayed(j) ==
  /\ Handling(j, "delayed")
  /\ IF PendingReqs(j) > 0
     THEN /\ queue' = [queue EXCEPT ![j] = Append(Tail(@), "delayed")]
          /\ UNCHANGED <<term, refcount, mem>>
     ELSE /\ queue' = [queue EXCEPT ![j] = Tail(@)]
          /\ term' = [term EXCEPT ![j] = "destroyed"]
          /\ Decref(j)
  /\ UNCHANGED <<terminals, jobs, stopped, exited, statusPtr, parent, procVars, stack, gotInt>>

-----------------------------------------------------------------------------
\* The user.

\* jobstart(), termopen(): a reference for the process, one for the terminal.
JobStart(j) ==
  /\ UserTurn /\ mem[j] = "none"
  /\ mem' = [mem EXCEPT ![j] = "live"] /\ jobs' = jobs \union {j}
  /\ phase' = [phase EXCEPT ![j] = "running"]
  /\ refcount' = [refcount EXCEPT ![j] = IF j \in terminals THEN 2 ELSE 1]
  /\ term' = [term EXCEPT ![j] = IF j \in terminals THEN "open" ELSE "none"]
  /\ UNCHANGED <<terminals, stopped, exited, statusPtr, parent, queue, asked, waiters, outs, stack,
                 gotInt>>

\* jobstart() of a program that cannot be run.
JobStartFails(j) ==
  /\ UserTurn /\ mem[j] = "none"
  /\ mem' = [mem EXCEPT ![j] = "freeing"]
  /\ UNCHANGED <<terminals, jobs, refcount, stopped, exited, term, statusPtr, parent, queue, procVars,
                 stack, gotInt>>

WaitedFor(j) == \E f \in Frames("wait") : j \in Range(f.ids)

JobStop(j) ==
  /\ UserTurn /\ FindJob(j)
  /\ Careful => ~WaitedFor(j)
  /\ asked' = [asked EXCEPT ![j] = TRUE]
  /\ stopped' = [stopped EXCEPT ![j] = TRUE]
  /\ UNCHANGED <<terminals, mem, jobs, refcount, exited, term, statusPtr, parent, queue, phase,
                 waiters, outs, stack, gotInt>>

\* The buffer of a terminal whose process exited is wiped: terminal_close does
\* nothing, as the terminal is closed.
TermWiped(j) ==
  /\ UserTurn /\ term[j] = "exited"
  /\ term' = [term EXCEPT ![j] = "lost"]
  /\ UNCHANGED <<terminals, mem, jobs, refcount, stopped, exited, statusPtr, parent, queue, procVars,
                 stack, gotInt>>

\* The buffer of a running terminal is wiped, or a key is pressed in one whose
\* process exited: close_cb, which is term_close.
TermClose(j) ==
  /\ UserTurn /\ term[j] \in {"open", "exited"}
  /\ term' = [term EXCEPT ![j] = "closing"]
  /\ exited' = [exited EXCEPT ![j] = TRUE]
  /\ asked' = [asked EXCEPT ![j] = @ \/ ~exited[j]]
  /\ Put(j, "delayed")
  /\ UNCHANGED <<terminals, mem, jobs, refcount, stopped, statusPtr, parent, phase, waiters, outs,
                 stack, gotInt>>

Interrupt ==
  /\ TopWait("waiting") /\ ~gotInt
  /\ gotInt' = TRUE
  /\ UNCHANGED <<dataVars, parent, queue, procVars, stack>>

-----------------------------------------------------------------------------
\* jobwait(): the jobs are moved to a queue of its own.  The ids are those of
\* jobs that were started.

JobWait(ids, timed) ==
  /\ UserTurn /\ Cardinality(RunningWaits) < MaxWaits /\ Len(stack) < MaxDepth
  /\ \A j \in Range(ids) : mem[j] # "none"
  /\ Careful => IsInjective(ids) /\ \A j \in Range(ids) :
       j \notin terminals /\ ~WaitedFor(j) /\ \A f \in Frames("cb") : f.job # j
  /\ Push([kind |-> "wait", w |-> Len(stack) + 1, ids |-> ids, timed |-> timed,
           pc |-> IF ids = <<>> THEN "return" ELSE "enter", i |-> 1, res |-> <<>>, broke |-> "no"])
  /\ UNCHANGED <<dataVars, parent, queue, procVars, gotInt>>

ThisJob == Top.ids[Top.i]

\* The frame f at the next job of its loop, or in the next phase after the last.
Step(f, pc, next) ==
  IF f.i < Len(f.ids) THEN [f EXCEPT !.pc = pc, !.i = @ + 1] ELSE [f EXCEPT !.pc = next, !.i = 1]

\* The next job: its pending events are processed first.
Enter ==
  /\ TopWait("enter")
  /\ IF FindJob(ThisJob)
     THEN /\ statusPtr' = [statusPtr EXCEPT ![ThisJob] = [w |-> Top.w, i |-> Top.i]]
          /\ Calls([Goto("entering") EXCEPT !.res = Append(@, "-1")], DrainJob(ThisJob))
     ELSE /\ Becomes(Step([Top EXCEPT !.res = Append(@, "-3")], "enter", "loop"))
          /\ UNCHANGED statusPtr
  /\ UNCHANGED <<terminals, mem, jobs, refcount, stopped, exited, term, parent, queue, procVars,
                 gotInt>>

Entered ==
  /\ TopWait("entering")
  /\ parent' = [parent EXCEPT ![ThisJob] = Top.w]
  /\ Becomes(Step(Top, "enter", "loop"))
  /\ UNCHANGED <<dataVars, queue, procVars, gotInt>>

\* A timeout of 0.
TimedOutAtOnce ==
  /\ TopWait("loop") /\ Top.i = 1 /\ Top.timed
  /\ Becomes([Goto("clear") EXCEPT !.broke = "timeout"])
  /\ UNCHANGED <<dataVars, parent, queue, procVars, gotInt>>

Skip ==
  /\ TopWait("loop") /\ ~FindJob(ThisJob)
  /\ Becomes(Step(Top, "loop", "clear"))
  /\ UNCHANGED <<dataVars, parent, queue, procVars, gotInt>>

\* process_wait.  Of a process that is gone the queue is processed, or else the
\* loop polled, once.
WaitBegin ==
  /\ TopWait("loop") /\ FindJob(ThisJob)
  /\ IF ProcRefcount(ThisJob) = 0
     THEN /\ Calls(Step(Top, "loop", "clear"), DrainJob(ThisJob))
          /\ IF queue[ThisJob] = <<>> THEN FastEvents ELSE UNCHANGED mem
          /\ UNCHANGED waiters
     ELSE /\ Becomes(Goto("waiting"))
          /\ waiters' = [waiters EXCEPT ![ThisJob] = @ + 1]
          /\ UNCHANGED mem
  /\ UNCHANGED <<terminals, jobs, refcount, stopped, exited, term, statusPtr, parent, queue, phase, asked, outs, gotInt>>

\* The events of the jobs in the list, as long as the process is not gone; or
\* once, in a wait with a timeout that was interrupted.
WaitDrain ==
  /\ TopIs("wait") /\ Top.pc \in {"waiting", "stopping", "polling"}
  /\ Top.pc = "waiting" => ~gotInt
  /\ Top.pc # "polling" => ProcRefcount(ThisJob) # 1
  /\ \E j \in Children(Top.w) : queue[j] # <<>>
  /\ Calls(Goto(IF Top.pc = "polling" THEN "polled" ELSE Top.pc), DrainParent(Top.w))
  /\ UNCHANGED <<dataVars, parent, queue, procVars, gotInt>>

\* Mutant: the process is not stopped.
WaitInterruptedOnly ==
  /\ TopWait("waiting") /\ gotInt
  /\ gotInt' = FALSE
  /\ Becomes([Goto(IF Top.timed THEN "polling" ELSE "stopping") EXCEPT !.broke = "interrupted"])
  /\ UNCHANGED <<dataVars, parent, queue, procVars>>

\* CTRL-C stops the process; without a timeout the wait goes on until it exits.
WaitInterrupted ==
  /\ TopWait("waiting") /\ gotInt
  /\ gotInt' = FALSE
  /\ asked' = [asked EXCEPT ![ThisJob] = TRUE]
  /\ Becomes([Goto(IF Top.timed THEN "polling" ELSE "stopping") EXCEPT !.broke = "interrupted"])
  /\ UNCHANGED <<dataVars, parent, queue, phase, waiters, outs>>

WaitPolled ==
  /\ TopWait("polling") /\ Polling /\ FastEvents
  /\ Becomes(Goto("polled"))
  /\ UNCHANGED <<terminals, jobs, refcount, stopped, exited, term, statusPtr, parent, queue, procVars,
                 gotInt>>

\* The process is gone: the last reference queues the exit event, and the
\* events of the whole list are processed.
WaitExited ==
  /\ TopIs("wait") /\ Top.pc \in {"waiting", "stopping", "polled"}
  /\ Top.pc = "waiting" => ~gotInt
  /\ ProcRefcount(ThisJob) = 1
  /\ waiters' = [waiters EXCEPT ![ThisJob] = 0]
  /\ Put(ThisJob, "exit")
  /\ Calls(Goto("waited"), DrainParent(Top.w))
  /\ UNCHANGED <<dataVars, parent, phase, asked, outs, gotInt>>

\* process_wait is left without a status, as the time is over or the job did
\* not exit at once when it was interrupted: the loop ends.
WaitGivesUp ==
  /\ TopIs("wait") /\ Top.timed /\ Top.pc \in {"waiting", "polled"}
  /\ Top.pc = "waiting" => ~gotInt
  /\ ProcRefcount(ThisJob) # 1
  /\ waiters' = [waiters EXCEPT ![ThisJob] = @ - 1]
  /\ Becomes([Goto("clear") EXCEPT !.broke =
                IF Top.pc = "polled" THEN "interrupted" ELSE "timeout"])
  /\ UNCHANGED <<dataVars, parent, queue, phase, asked, outs, gotInt>>

\* The list gets the -2 of an interrupted job through data->status_ptr.  The
\* exit callback came first: the data is freed if another callback of that drain
\* polled, and the write may go anywhere.
StatusWritten(value) ==
  \/ stack' = WithStatus(ThisJob, value, Append(Callers, Goto("clear")))
  \/ mem[ThisJob] = "freed" /\ Becomes([Goto("clear") EXCEPT !.broke = "lost"])

\* Mutant: one job is waited for.
WaitedOnce ==
  /\ TopWait("waited")
  /\ IF Top.broke = "interrupted" THEN StatusWritten("-2") ELSE Becomes(Goto("clear"))
  /\ UNCHANGED <<dataVars, parent, queue, procVars, gotInt>>

\* Mutant: the -2 is not written.
WaitedSilent ==
  /\ TopWait("waited")
  /\ IF Top.broke = "interrupted"
     THEN Becomes(Goto("clear"))
     ELSE \/ Becomes(Step(Top, "loop", "clear"))
          \/ Top.timed /\ Becomes([Goto("clear") EXCEPT !.broke = "timeout"])
  /\ UNCHANGED <<dataVars, parent, queue, procVars, gotInt>>

\* It returned a status: on to the next job, unless the time is over; or -2,
\* which is written to the list.
Waited ==
  /\ TopWait("waited")
  /\ IF Top.broke = "interrupted"
     THEN StatusWritten("-2")
     ELSE \/ Becomes(Step(Top, "loop", "clear"))
          \/ Top.timed /\ Becomes([Goto("clear") EXCEPT !.broke = "timeout"])
  /\ UNCHANGED <<dataVars, parent, queue, procVars, gotInt>>

\* Mutant: the status pointers are left.
ClearNothing ==
  /\ TopWait("clear")
  /\ statusPtr' = statusPtr
  /\ Becomes([Goto("restore") EXCEPT !.i = 1])
  /\ UNCHANGED <<terminals, mem, jobs, refcount, stopped, exited, term, parent, queue, procVars,
                 gotInt>>

\* The status pointers of the jobs that are found are removed.
Clear ==
  /\ TopWait("clear")
  /\ statusPtr' = [j \in Job |-> IF j \in Range(Top.ids) /\ FindJob(j) THEN NULL ELSE statusPtr[j]]
  /\ Becomes([Goto("restore") EXCEPT !.i = 1])
  /\ UNCHANGED <<terminals, mem, jobs, refcount, stopped, exited, term, parent, queue, procVars,
                 gotInt>>

\* The parents of the jobs that are in the map are restored, after their
\* events were processed.
Restore ==
  /\ TopWait("restore")
  /\ IF ThisJob \in jobs THEN Calls(Goto("restoring"), DrainJob(ThisJob))
                         ELSE Becomes(Step(Top, "restore", "return"))
  /\ UNCHANGED <<dataVars, parent, queue, procVars, gotInt>>

Restored ==
  /\ TopWait("restoring")
  /\ parent' = [parent EXCEPT ![ThisJob] = Main]
  /\ Becomes(Step(Top, "restore", "return"))
  /\ UNCHANGED <<dataVars, queue, procVars, gotInt>>

Return ==
  /\ TopWait("return")
  /\ Pop
  /\ UNCHANGED <<dataVars, parent, queue, procVars, gotInt>>

Next ==
  \/ \E j \in Job :
       \/ Output(j) \/ Exit(j) \/ Closed(j)
       \/ HandleOutput(j) \/ HandleClose(j) \/ HandleExit(j) \/ HandleDelayed(j)
       \/ JobStart(j) \/ JobStartFails(j) \/ JobStop(j) \/ TermClose(j) \/ TermWiped(j)
  \/ \E ids \in Lists, timed \in BOOLEAN : JobWait(ids, timed)
  \/ PollFast \/ DrainMain \/ DrainEnd \/ CallbackEnd \/ Interrupt
  \/ Enter \/ Entered \/ TimedOutAtOnce \/ Skip \/ WaitPolled \/ WaitBegin \/ WaitDrain \/ WaitInterrupted
  \/ WaitExited \/ WaitGivesUp \/ Waited \/ Clear \/ Restore \/ Restored \/ Return

Spec == Init /\ [][Next]_jobsVars

\* The main thread goes on: handlers, callbacks and the steps of jobwait() come
\* to their end, a poll handles what is ready, a process that was stopped
\* exits.  Strong fairness of the callbacks that may call jobwait(): each of
\* them ends, however often it waits.  Nothing is assumed of jobs that run on.
Fairness ==
  /\ WF_jobsVars(\E j \in Job : HandleOutput(j) \/ HandleClose(j) \/ HandleExit(j) \/ HandleDelayed(j))
  /\ WF_jobsVars(DrainEnd) /\ WF_jobsVars(CallbackEnd)
  /\ \A d \in 2 .. MaxDepth - 1 : SF_jobsVars(Len(stack) = d /\ CallbackEnd)
  /\ WF_jobsVars(Enter \/ Entered \/ Skip \/ WaitBegin \/ Clear \/ Restore \/ Restored
                 \/ Return \/ WaitPolled \/ Waited \/ WaitDrain \/ WaitInterrupted \/ WaitExited)
  /\ WF_jobsVars(WaitGivesUp)
  /\ \A j \in Job : WF_jobsVars(Closed(j)) /\ WF_jobsVars(asked[j] /\ Exit(j))

LiveSpec == Spec /\ Fairness

-----------------------------------------------------------------------------
(***************************************************************************)
(* Properties                                                              *)
(***************************************************************************)

Phases == {"none", "running", "exited", "closing", "gone"}

\* The types of the variables.
TypeOK ==
  /\ terminals \subseteq Job /\ jobs \subseteq Job
  /\ mem \in [Job -> {"none", "live", "freeing", "freed"}]
  /\ refcount \in [Job -> 0 .. 2]
  /\ {stopped, exited, asked} \subseteq [Job -> BOOLEAN]
  /\ term \in [Job -> {"none", "open", "exited", "closing", "destroyed", "lost"}]
  /\ parent \in [Job -> 0 .. MaxDepth]
  /\ queue \in [Job -> Seq({"out", "close", "exit", "delayed"})]
  /\ phase \in [Job -> Phases] /\ waiters \in [Job -> 0 .. MaxWaits]
  /\ Len(stack) <= MaxDepth + 2

\* The data is live as long as the process or the terminal refers to it: the
\* job is in the map until its exit callback returned, and a terminal holds
\* its reference until it is destroyed.
RefsAreExact ==
  TypeOK /\ \A j \in Job :
    /\ refcount[j] = (IF j \in jobs THEN 1 ELSE 0)
                     + (IF term[j] \in {"open", "exited", "closing", "lost"} THEN 1 ELSE 0)
    /\ mem[j] = "live" <=> refcount[j] > 0

\* The comment in f_jobwait: "remove the status pointer because the list may be
\* freed before the job exits".
StatusPointersAreLive ==
  \A j \in Job : mem[j] = "live" /\ statusPtr[j] # NULL => statusPtr[j].w \in RunningWaits

\* What is under way for a job, or queued, has its data; and a status pointer
\* and a parent queue are those of a jobwait() that has not returned, when the
\* callbacks are careful.
PointersAreLive ==
  /\ RefsAreExact
  /\ \A j \in Job :
       /\ queue[j] # <<>> \/ Frames("cb") \cap {Callback(j, "out"), Callback(j, "exit")} # {}
            => mem[j] = "live"
       /\ \A f \in Frames("drain") : j \in f.of => mem[j] # "freed"
       /\ \A f \in Frames("wait") :
            /\ f.pc \in {"waiting", "stopping", "polling", "polled"} /\ f.ids[f.i] = j
                 => mem[j] = "live"
            /\ f.pc \in {"entering", "restoring"} /\ f.ids[f.i] = j => mem[j] # "freed"
  /\ Careful => /\ StatusPointersAreLive
                /\ \A j \in Job : mem[j] = "live" => parent[j] \in {Main} \union RunningWaits

\* The exit callback of a job is its last one and is called once.
ExitIsLast ==
  \A j \in Job :
    LET exits == Times("exit", queue[j]) + Times(Callback(j, "exit"), stack)
    IN  /\ phase[j] = "gone" => PendingReqs(j) = 0
        /\ exits = IF phase[j] = "gone" /\ waiters[j] = 0 /\ j \in jobs THEN 1 ELSE 0

\* A jobwait() that neither timed out nor was interrupted has the status of
\* every job it was given and found; one without a timeout that was interrupted
\* says -2 of one job, and nobody else does, unless the data of the job was
\* freed before f_jobwait wrote it ("lost").  The code does not keep what the help
\* says of one with a timeout: interrupted, it may say -1 of that job.
JobWaitTells ==
  \A f \in Frames("wait") : f.pc = "return" =>
    /\ Len(f.res) = Len(f.ids)
    /\ f.broke = "no" => "-1" \notin Range(f.res)
    /\ "-2" \in Range(f.res) => f.broke = "interrupted"
    /\ f.broke = "interrupted" /\ ~f.timed =>
         \E p \in DOMAIN f.res : \A q \in DOMAIN f.res : f.res[q] = "-2" <=> q = p

\* The exception: queue_process_events puts term_delayed_free back for ever, as
\* the requests it waits for are those of a callback under way.
Spinning ==
  TopIs("drain") /\ \E j \in Drained(Top) : PendingReqs(j) > 0 /\ "delayed" \in Range(queue[j])

\* Above the jobwait() w a callback waits for jobs without a timeout.
Blocked(w) == Spinning \/ \E f \in Frames("wait") : f.w > w /\ ~f.timed /\ f.broke = "no"

\* A jobwait() with a timeout returns, and so does one that was interrupted,
\* however often callbacks under it wait themselves; unless it is blocked for
\* ever by one of them.
WaitsReturn ==
  \A w \in 1 .. MaxDepth :
    \/ <>[]Blocked(w)
    \/ (\E f \in Frames("wait") : f.w = w /\ (f.timed \/ f.broke # "no")) ~> w \notin RunningWaits
-----------------------------------------------------------------------------
(***************************************************************************)
(* What the process of a job is to those who wait for it                   *)
(***************************************************************************)
LifeOf(j) == IF phase[j] \in {"exited", "closing"} THEN "ended" ELSE phase[j]
ExitsOf(j) == Times("exit", queue[j])
CalledOf(j) == IF phase[j] = "gone" /\ waiters[j] = 0 /\ ExitsOf(j) = 0 THEN 1 ELSE 0

Life(j) == INSTANCE ProcessLife WITH life <- LifeOf(j), waiters <- waiters[j],
                                     exits <- ExitsOf(j), called <- CalledOf(j)

\* The process of every job lives the life of ProcessLife, which those of
\* Process live too: what is a phase here is what the references there amount
\* to, also when jobwait() is called in a callback of another jobwait().
ImplementsLife ==
  /\ \A j \in Job : Life(j)!Init
  /\ [][\A j \in Job : [Life(j)!Next]_(Life(j)!lifeVars)]_jobsVars
=============================================================================

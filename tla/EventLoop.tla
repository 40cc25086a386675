------------------------------ MODULE EventLoop ------------------------------
(***************************************************************************)
(* event/loop.c and the LOOP_PROCESS_EVENTS macros of event/loop.h: the    *)
(* thread that owns a Loop polls libuv, moves the events that other        *)
(* threads scheduled, and processes its queues; other threads call         *)
(* loop_schedule.                                                          *)
(*                                                                         *)
(* The queues are taken as EmitterQueue describes them (EventQueue         *)
(* implements it): events is one sequence of tagged events, and processing *)
(* fast_events or the queue of an emitter takes the oldest event so        *)
(* tagged.  uv_run is modelled from how loop.c uses it: timers, then a     *)
(* poll that blocks unless told otherwise, callbacks, and timers again.    *)
(*                                                                         *)
(* The code outside uv_run is a stack of frames: "wait" is a               *)
(* LOOP_PROCESS_EVENTS_UNTIL on a queue, "process" a queue_process_events. *)
(* The handler of an event may itself wait (jobwait(), rpcrequest(),       *)
(* :sleep), for a queue of its own.                                        *)
(***************************************************************************)
EXTENDS Integers, Sequences, FiniteSets, SequencesExt

CONSTANTS Threads,       \* the threads that schedule events on this loop
          Loop,          \* the thread that owns the loop
          MaxScheduled,  \* bound of the model: events scheduled by Threads
          MaxOther,      \* bound of the model: events put by callbacks and handlers
          MaxDepth       \* bound of the model: nesting of waits and handlers

ASSUME LoopAssumption ==
  /\ Loop \notin Threads
  /\ MaxScheduled \in Nat /\ MaxOther \in Nat /\ MaxDepth \in Nat

Owners == {"events", "fast", "emitter"}

VARIABLES events,        \* loop->events with its children: a sequence of [id, owner]
          threadEvents,  \* loop->thread_events
          stop,          \* uv_stop was called and uv_run has not returned yet
          async,         \* uv_async_send was called and the loop has not seen it
          mutex,         \* the holder of loop->mutex, or "none"
          pc,            \* where each of Threads is in loop_schedule
          phase,         \* where the loop thread is in loop_poll_events
          ms,            \* the argument of loop_poll_events
          asyncReady,    \* the poll returned with the async handle ready
          recursive,     \* loop->recursive
          stack,         \* the frames of the loop thread outside uv_run
          scheduled,     \* how many events Threads have scheduled
          others,        \* how many other events were put
          lastRun,       \* the last scheduled event whose handler ran
          closed         \* loop_close ran

vars == <<events, threadEvents, stop, async, mutex, pc, phase, ms, asyncReady,
          recursive, stack, scheduled, others, lastRun, closed>>

threadVars == <<threadEvents, async, mutex, pc, scheduled>>
runVars == <<phase, ms, asyncReady, recursive>>

Frame == [kind : {"wait", "process"}, queue : Owners]
Entry == [id : Nat, owner : Owners]

Init ==
  /\ events = <<>>
  /\ threadEvents = <<>>
  /\ stop = FALSE
  /\ async = FALSE
  /\ mutex = "none"
  /\ pc = [t \in Threads |-> "idle"]
  /\ phase = "run"
  /\ ms = -1
  /\ asyncReady = FALSE
  /\ recursive = 0
  /\ stack = <<[kind |-> "wait", queue |-> "events"]>>
  /\ scheduled = 0
  /\ others = 0
  /\ lastRun = 0
  /\ closed = FALSE

\* Where the oldest event of queue q is: the parent holds them all.
Belongs(e, q) == q = "events" \/ e.owner = q
IsEmpty(q) == \A i \in DOMAIN events : ~Belongs(events[i], q)
Oldest(q) == CHOOSE i \in DOMAIN events :
               Belongs(events[i], q) /\ \A j \in 1 .. i - 1 : ~Belongs(events[j], q)

-----------------------------------------------------------------------------
(***************************************************************************)
(* loop_schedule, in another thread                                        *)
(***************************************************************************)
loopVars == <<events, stop, runVars, stack, others, lastRun, closed>>

\* Nobody schedules on a loop that is being closed (see UIBridge).
ScheduleLock(t) ==
  /\ ~closed
  /\ pc[t] = "idle"
  /\ mutex = "none"
  /\ scheduled < MaxScheduled
  /\ mutex' = t
  /\ pc' = [pc EXCEPT ![t] = "put"]
  /\ UNCHANGED <<threadEvents, async, scheduled, loopVars>>

SchedulePut(t) ==
  /\ pc[t] = "put"
  /\ threadEvents' = Append(threadEvents, scheduled + 1)
  /\ scheduled' = scheduled + 1
  /\ pc' = [pc EXCEPT ![t] = "send"]
  /\ UNCHANGED <<async, mutex, loopVars>>

\* Mutant: the loop is not woken.
ScheduleSendNothing(t) ==
  /\ pc[t] = "send"
  /\ pc' = [pc EXCEPT ![t] = "unlock"]
  /\ UNCHANGED <<threadEvents, async, mutex, scheduled, loopVars>>

ScheduleSend(t) ==
  /\ pc[t] = "send"
  /\ async' = TRUE
  /\ pc' = [pc EXCEPT ![t] = "unlock"]
  /\ UNCHANGED <<threadEvents, mutex, scheduled, loopVars>>

ScheduleUnlock(t) ==
  /\ pc[t] = "unlock"
  /\ mutex' = "none"
  /\ pc' = [pc EXCEPT ![t] = "idle"]
  /\ UNCHANGED <<threadEvents, async, scheduled, loopVars>>

-----------------------------------------------------------------------------
(***************************************************************************)
(* The loop thread inside uv_run                                           *)
(***************************************************************************)
Top == stack[Len(stack)]
InCode(kind) == ~closed /\ phase = "run" /\ Top.kind = kind

\* Mutant: loop_on_put does not call uv_stop.
StopUnchanged(owner) == stop

\* loop_on_put: a put into a child of loop->events stops uv_run, a put into
\* loop->events itself does not.
StopAfterPut(owner) == stop \/ owner # "events"

PutEvent(owner) ==
  /\ others < MaxOther
  /\ others' = others + 1
  /\ events' = Append(events, [id |-> 0, owner |-> owner])
  /\ stop' = StopAfterPut(owner)

\* LOOP_PROCESS_EVENTS found its queue empty: loop_poll_events(loop, timeout).
\* uv_run does nothing at all when it was stopped before.
Poll(timeout) ==
  /\ InCode("wait")
  /\ IsEmpty(Top.queue)
  /\ ms' = timeout
  /\ recursive' = recursive + 1
  /\ phase' = IF stop THEN "return" ELSE "timers"
  /\ UNCHANGED <<events, stop, asyncReady, stack, others, lastRun, closed, threadVars>>

\* A TimeWatcher is due: its queue is fast_events or that of an emitter.
TimerCallback(owner) ==
  /\ phase \in {"timers", "return"}
  /\ ms # 0 \/ phase = "timers"
  /\ owner # "events"
  /\ PutEvent(owner)
  /\ UNCHANGED <<runVars, stack, lastRun, closed, threadVars>>

\* uv_backend_timeout: the poll does not block after uv_stop.
PollReturnsAtOnce ==
  /\ phase = "timers"
  /\ ms = 0 \/ stop \/ async
  /\ phase' = "callbacks"
  /\ asyncReady' = async
  /\ UNCHANGED <<events, stop, ms, recursive, stack, others, lastRun, closed, threadVars>>

PollBlocks ==
  /\ phase = "timers"
  /\ ms # 0 /\ ~stop /\ ~async
  /\ phase' = "sleep"
  /\ UNCHANGED <<events, stop, ms, asyncReady, recursive, stack, others, lastRun, closed, threadVars>>

\* A descriptor is ready: the async handle's, or one of the outside world.
WakeUp ==
  /\ phase = "sleep"
  /\ phase' = "callbacks"
  /\ asyncReady' = async
  /\ UNCHANGED <<events, stop, ms, recursive, stack, others, lastRun, closed, threadVars>>

WakeByAsync == async /\ WakeUp
WakeByPollTimer == ms > 0 /\ WakeUp

\* A stream, a signal or a child watcher: the first two put into the queue of
\* an emitter or into fast_events, on_process_exit puts into loop->events.
IoCallback(owner) ==
  /\ phase = "callbacks"
  /\ PutEvent(owner)
  /\ UNCHANGED <<runVars, stack, lastRun, closed, threadVars>>

AsyncBegin ==
  /\ phase = "callbacks"
  /\ asyncReady
  /\ mutex = "none"
  /\ mutex' = Loop
  /\ async' = FALSE
  /\ asyncReady' = FALSE
  /\ phase' = "async"
  /\ UNCHANGED <<events, threadEvents, stop, pc, ms, recursive, stack, scheduled,
                 others, lastRun, closed>>

\* Mutant: the newest event is moved first.
AsyncMoveNewest ==
  /\ phase = "async"
  /\ threadEvents # <<>>
  /\ threadEvents' = Front(threadEvents)
  /\ events' = Append(events, [id |-> Last(threadEvents), owner |-> "fast"])
  /\ stop' = StopAfterPut("fast")
  /\ UNCHANGED <<async, mutex, pc, scheduled, runVars, stack, others, lastRun, closed>>

AsyncMove ==
  /\ phase = "async"
  /\ threadEvents # <<>>
  /\ threadEvents' = Tail(threadEvents)
  /\ events' = Append(events, [id |-> Head(threadEvents), owner |-> "fast"])
  /\ stop' = StopAfterPut("fast")
  /\ UNCHANGED <<async, mutex, pc, scheduled, runVars, stack, others, lastRun, closed>>

\* Mutant: async_cb moves at most one event.
AsyncEndEarly ==
  /\ phase = "async"
  /\ mutex' = "none"
  /\ phase' = "callbacks"
  /\ UNCHANGED <<events, threadEvents, stop, async, pc, ms, asyncReady, recursive,
                 stack, scheduled, others, lastRun, closed>>

AsyncEnd ==
  /\ phase = "async"
  /\ threadEvents = <<>>
  /\ mutex' = "none"
  /\ phase' = "callbacks"
  /\ UNCHANGED <<events, threadEvents, stop, async, pc, ms, asyncReady, recursive,
                 stack, scheduled, others, lastRun, closed>>

CallbacksEnd ==
  /\ phase = "callbacks"
  /\ ~asyncReady
  /\ phase' = "return"
  /\ UNCHANGED <<events, stop, ms, asyncReady, recursive, stack, others, lastRun, closed, threadVars>>

\* uv_run clears its stop flag; then loop->recursive-- and
\* queue_process_events(loop->fast_events).
Return ==
  /\ phase = "return"
  /\ Len(stack) < MaxDepth
  /\ stop' = FALSE
  /\ recursive' = recursive - 1
  /\ phase' = "run"
  /\ stack' = Append(stack, [kind |-> "process", queue |-> "fast"])
  /\ UNCHANGED <<events, ms, asyncReady, others, lastRun, closed, threadVars>>

-----------------------------------------------------------------------------
(***************************************************************************)
(* The loop thread outside uv_run                                          *)
(***************************************************************************)

\* LOOP_PROCESS_EVENTS found its queue not empty.
ProcessBegin ==
  /\ InCode("wait")
  /\ ~IsEmpty(Top.queue)
  /\ Len(stack) < MaxDepth
  /\ stack' = Append(stack, [kind |-> "process", queue |-> Top.queue])
  /\ UNCHANGED <<events, stop, others, lastRun, closed, threadVars, runVars>>

ProcessEnd ==
  /\ InCode("process")
  /\ IsEmpty(Top.queue)
  /\ stack' = Front(stack)
  /\ UNCHANGED <<events, stop, others, lastRun, closed, threadVars, runVars>>

\* queue_get and the handler, which waits for queue q, or does not wait.
Handle(frames) ==
  /\ InCode("process")
  /\ ~IsEmpty(Top.queue)
  /\ LET i == Oldest(Top.queue) IN
       /\ events' = RemoveAt(events, i)
       /\ lastRun' = IF events[i].id = 0 THEN lastRun ELSE events[i].id
  /\ stack' = stack \o frames
  /\ UNCHANGED <<stop, others, closed, threadVars, runVars>>

HandleEvent == Handle(<<>>)

\* Only emitters' events do: what goes through fast_events (signals, timers,
\* scheduled calls, the release of a job) does not poll the main loop again, but
\* for the handler of a deadly signal, which polls it on the way to exit() and
\* never returns.  That exit is not modelled here; Process has it, Teardown.
HandleEventThatWaits(q) ==
  /\ Len(stack) + 2 < MaxDepth
  /\ InCode("process") /\ ~IsEmpty(Top.queue)
  /\ events[Oldest(Top.queue)].owner # "fast"
  /\ Handle(<<[kind |-> "wait", queue |-> q]>>)

\* A handler puts an event into a queue, loop->events included.
HandlerPut(owner) ==
  /\ InCode("process")
  /\ PutEvent(owner)
  /\ UNCHANGED <<runVars, stack, lastRun, closed, threadVars>>

\* The condition of a nested LOOP_PROCESS_EVENTS_UNTIL holds, or it timed out.
WaitEnd ==
  /\ InCode("wait")
  /\ Len(stack) > 1
  /\ stack' = Front(stack)
  /\ UNCHANGED <<events, stop, others, lastRun, closed, threadVars, runVars>>

\* Mutant: the loop is closed while a thread is in loop_schedule.
CloseDuringSchedule ==
  /\ InCode("wait")
  /\ Len(stack) = 1
  /\ closed' = TRUE
  /\ events' = <<>>
  /\ threadEvents' = <<>>
  /\ stop' = FALSE
  /\ UNCHANGED <<async, mutex, pc, scheduled, runVars, stack, others, lastRun>>

\* loop_close: the handles are closed first, so what is still scheduled is
\* not moved any more; the queues are freed with what they hold.  It does not
\* wait for the threads that schedule: that all are idle is what its callers see
\* to: that of the UI is joined before the main loop is closed, and the main
\* thread is in ui_bridge_stop while that of the UI closes its own.
Close ==
  /\ InCode("wait")
  /\ Len(stack) = 1
  /\ \A t \in Threads : pc[t] = "idle"
  /\ closed' = TRUE
  /\ events' = <<>>
  /\ threadEvents' = <<>>
  /\ stop' = FALSE
  /\ UNCHANGED <<async, mutex, pc, scheduled, runVars, stack, others, lastRun>>

Schedule(t) == ScheduleLock(t) \/ SchedulePut(t) \/ ScheduleSend(t) \/ ScheduleUnlock(t)

Next ==
  \/ \E t \in Threads : Schedule(t)
  \/ \E timeout \in {-1, 0, 1} : Poll(timeout)
  \/ \E owner \in Owners : TimerCallback(owner) \/ IoCallback(owner) \/ HandlerPut(owner)
  \/ PollReturnsAtOnce \/ PollBlocks \/ WakeUp
  \/ AsyncBegin \/ AsyncMove \/ AsyncEnd \/ CallbacksEnd \/ Return
  \/ ProcessBegin \/ ProcessEnd \/ HandleEvent
  \/ \E q \in Owners : HandleEventThatWaits(q)
  \/ WaitEnd
  \/ Close

Spec == Init /\ [][Next]_vars

\* A thread that took the mutex gives it back, the loop thread runs, and the
\* kernel reports what is ready.  Nothing is assumed of the outside world, nor
\* that a nested wait ever ends.
LoopStep ==
  \/ \E timeout \in {-1, 0, 1} : Poll(timeout)
  \/ PollReturnsAtOnce \/ PollBlocks \/ WakeByAsync \/ WakeByPollTimer
  \/ AsyncBegin \/ AsyncMove \/ AsyncEnd \/ CallbacksEnd \/ Return
  \/ ProcessBegin \/ ProcessEnd \/ HandleEvent

Fairness ==
  /\ \A t \in Threads : WF_vars(SchedulePut(t) \/ ScheduleSend(t) \/ ScheduleUnlock(t))
  /\ WF_vars(LoopStep)

FairSpec == Spec /\ Fairness

-----------------------------------------------------------------------------
(***************************************************************************)
(* Properties                                                              *)
(***************************************************************************)

\* The types of the variables.
TypeOK ==
  /\ events \in Seq(Entry)
  /\ threadEvents \in Seq(Nat)
  /\ {stop, async, asyncReady, closed} \subseteq BOOLEAN
  /\ mutex \in Threads \union {Loop, "none"}
  /\ pc \in [Threads -> {"idle", "put", "send", "unlock"}]
  /\ phase \in {"run", "timers", "sleep", "callbacks", "async", "return"}
  /\ ms \in {-1, 0, 1}
  /\ recursive \in 0 .. 1
  /\ stack \in Seq(Frame) /\ stack # <<>>
  /\ scheduled \in Nat /\ others \in Nat /\ lastRun \in Nat

\* The comment in loop_on_put: the loop does not block for a poll while the
\* queue its caller waits for holds an event, be it put by a callback that
\* libuv ran just before blocking.
NeverSleepsOnItsQueue ==
  TypeOK /\ (phase = "sleep" => IsEmpty(Top.queue) /\ IsEmpty("fast"))

\* Nor while another thread's event is waiting to be moved, unless the loop
\* has been or is about to be woken for it: uv_async_send may coalesce.
NoLostWakeUp ==
  threadEvents # <<>> /\ ~closed =>
    async \/ phase = "async" \/ \E t \in Threads : pc[t] = "send"

\* Scheduled events are handled once, none is skipped, in the order in which
\* the threads got the mutex, even by handlers that wait.
ScheduledInOrder == [][lastRun' # lastRun => lastRun' = lastRun + 1]_vars

\* A scheduled event is handled in the end or the loop is closed, even while
\* the loop thread is in a nested wait for another queue.
ScheduledEventuallyRuns ==
  \A n \in 1 .. MaxScheduled : scheduled >= n ~> (lastRun >= n \/ closed)

\* loop_schedule is one step for who looks at it from outside: whatever the
\* mutex, the async handle and the two queues do, and whatever is put and
\* waited for in between, each scheduled event is handled by one later step, in
\* order, and nothing is scheduled or handled once loop_close has run.
Mail == INSTANCE Mailbox WITH posted <- scheduled, handled <- lastRun, open <- ~closed

ImplementsMailbox == Mail!Spec
=============================================================================

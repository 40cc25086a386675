--------------------------- MODULE EventLoopProofs ---------------------------
(***************************************************************************)
(* Theorems about EventLoop, for any number of threads, of events and of   *)
(* nested waits.                                                           *)
(*                                                                         *)
(* The argument: a queue_process_events on fast_events is never below      *)
(* another frame, since no handler of a fast event waits (Frames); hence   *)
(* whenever a wait is about to poll, fast_events is empty or uv_stop was   *)
(* called (Quiet), and what a callback puts before the poll blocks calls   *)
(* it too.  The scheduled events that are not handled yet are, in order,   *)
(* those in loop->events and then those in thread_events (Order).          *)
(***************************************************************************)
EXTENDS EventLoop, SequenceLemmas, TLAPS

FastFrame == [kind |-> "process", queue |-> "fast"]

\* Only the top frame may be processing fast_events; uv_run is entered from a wait.
Frames ==
  /\ stack[1].kind = "wait"
  /\ phase # "run" => Top.kind = "wait"
  /\ \A i \in 1 .. Len(stack) - 1 : stack[i] # FastFrame

\* loop->recursive counts loop_poll_events; a closed loop is at rest.
Phases ==
  /\ recursive = IF phase = "run" THEN 0 ELSE 1
  /\ closed => phase = "run" /\ \A t \in Threads : pc[t] = "idle"

\* Without uv_stop, nothing the poll may block on is in the queues.
Quiet ==
  /\ phase = "run" /\ ~stop => IsEmpty("fast") \/ Top = FastFrame
  /\ phase = "timers" /\ ~stop => IsEmpty(Top.queue) /\ IsEmpty("fast")
  /\ phase = "sleep" => IsEmpty(Top.queue) /\ IsEmpty("fast")

\* The scheduled events that async_cb has moved.
Moved == scheduled - Len(threadEvents)

\* lastRun + 1 .. Moved are in events, in order; the rest in threadEvents.
OrderOf(ev, last, moved) ==
  /\ last <= moved
  /\ \A i \in DOMAIN ev : ev[i].id # 0 =>
       ev[i].owner = "fast" /\ last < ev[i].id /\ ev[i].id <= moved
  /\ \A i, j \in DOMAIN ev : i < j /\ ev[i].id # 0 /\ ev[j].id # 0 => ev[i].id < ev[j].id
  /\ \A n \in Nat : last < n /\ n <= moved => \E i \in DOMAIN ev : ev[i].id = n

Order ==
  ~closed =>
    /\ \A k \in DOMAIN threadEvents : threadEvents[k] = Moved + k
    /\ OrderOf(events, lastRun, Moved)

IndInv == TypeOK /\ Frames /\ Phases /\ Quiet /\ NoLostWakeUp /\ Order

(***************************************************************************)
(* Queues                                                                  *)
(***************************************************************************)

\* What Oldest returns for a queue that is not empty.
LEMMA OldestFacts ==
  ASSUME events \in Seq(Entry), NEW q \in Owners, ~IsEmpty(q)
  PROVE  /\ Oldest(q) \in DOMAIN events
         /\ Belongs(events[Oldest(q)], q)
         /\ \A j \in DOMAIN events : j < Oldest(q) => ~Belongs(events[j], q)
<1> DEFINE I == {i \in DOMAIN events : Belongs(events[i], q)}
<1>1. Len(events) \in Nat /\ DOMAIN events = 1 .. Len(events)
  OBVIOUS
<1>2. I \in SUBSET (1 .. Len(events)) /\ I # {}
  BY <1>1 DEF IsEmpty
<1>3. \E i \in DOMAIN events :
        Belongs(events[i], q) /\ \A j \in 1 .. i - 1 : ~Belongs(events[j], q)
  <2>1. PICK i \in I : \A j \in 1 .. i - 1 : j \notin I
    BY <1>1, <1>2, FirstExists
  <2>2. \A j \in 1 .. i - 1 : j \in DOMAIN events
    BY <1>1
  <2>3. QED
    BY <2>1, <2>2
<1>4. /\ Oldest(q) \in DOMAIN events
      /\ Belongs(events[Oldest(q)], q)
      /\ \A j \in 1 .. Oldest(q) - 1 : ~Belongs(events[j], q)
  BY <1>3 DEF Oldest
<1>5. QED
  BY <1>1, <1>4

(***************************************************************************)
(* Types                                                                   *)
(***************************************************************************)

\* The part of the type invariant about the mutex and the other threads.
ThreadTypes ==
  /\ threadEvents \in Seq(Nat)
  /\ async \in BOOLEAN
  /\ mutex \in Threads \union {Loop, "none"}
  /\ pc \in [Threads -> {"idle", "put", "send", "unlock"}]
  /\ scheduled \in Nat

\* The part about the queues and the flags outside uv_run.
CodeTypes ==
  /\ events \in Seq(Entry)
  /\ stop \in BOOLEAN /\ closed \in BOOLEAN
  /\ stack \in Seq(Frame) /\ stack # <<>>
  /\ others \in Nat /\ lastRun \in Nat

\* The part about uv_run.
RunTypes ==
  /\ phase \in {"run", "timers", "sleep", "callbacks", "async", "return"}
  /\ ms \in {-1, 0, 1}
  /\ asyncReady \in BOOLEAN
  /\ recursive \in 0 .. 1

LEMMA TypeParts == TypeOK <=> ThreadTypes /\ CodeTypes /\ RunTypes
<1>1. {stop, async, asyncReady, closed} \subseteq BOOLEAN
        <=> stop \in BOOLEAN /\ async \in BOOLEAN /\ asyncReady \in BOOLEAN /\ closed \in BOOLEAN
  BY Zenon
<1>2. QED
  BY <1>1, Zenon DEF TypeOK, ThreadTypes, CodeTypes, RunTypes

\* An entry with any number and owner.
LEMMA EntryType ==
  ASSUME NEW n \in Nat, NEW owner \in Owners
  PROVE  [id |-> n, owner |-> owner] \in Entry
  BY DEF Entry

LEMMA PutType ==
  ASSUME CodeTypes, NEW owner \in Owners, PutEvent(owner)
  PROVE  events' \in Seq(Entry) /\ stop' \in BOOLEAN /\ others' \in Nat
<1>1. 0 \in Nat /\ [id |-> 0, owner |-> owner] \in Entry
  BY EntryType
<1>2. events' \in Seq(Entry)
  BY <1>1, AppendFacts DEF CodeTypes, PutEvent
<1>3. stop' \in BOOLEAN
  BY Zenon DEF CodeTypes, PutEvent, StopAfterPut
<1>4. others' \in Nat
  BY DEF CodeTypes, PutEvent
<1>5. QED
  BY <1>2, <1>3, <1>4

\* The top of the stack is a frame of it.
LEMMA TopFacts ==
  ASSUME CodeTypes
  PROVE  /\ Len(stack) \in Nat /\ Len(stack) >= 1
         /\ Top \in Frame /\ Top.queue \in Owners /\ Top.kind \in {"wait", "process"}
         /\ stack[1] \in Frame
<1>1. Len(stack) \in Nat /\ Len(stack) >= 1
  BY DEF CodeTypes
<1>2. \A i \in 1 .. Len(stack) : stack[i] \in Frame
  BY DEF CodeTypes
<1>3. Top \in Frame /\ stack[1] \in Frame
  BY <1>1, <1>2 DEF Top
<1>4. QED
  BY <1>1, <1>3 DEF Frame

\* The stack is never emptied: the frame at its bottom is a wait.
LEMMA PopType ==
  ASSUME CodeTypes, Frames, Top.kind = "process" \/ Len(stack) > 1
  PROVE  Len(stack) > 1 /\ Front(stack) \in Seq(Frame) /\ Front(stack) # <<>>
<1>1. Len(stack) > 1
  BY TopFacts DEF Frames, Top
<1>2. QED
  BY <1>1, FrontFacts DEF CodeTypes

LEMMA PushType ==
  ASSUME CodeTypes, NEW f \in Frame
  PROVE  Append(stack, f) \in Seq(Frame) /\ Append(stack, f) # <<>>
  BY PushFacts DEF CodeTypes

\* What Handle leaves: the oldest event of the top frame's queue is gone.
LEMMA HandleType ==
  ASSUME CodeTypes, NEW frames, Handle(frames)
  PROVE  events' \in Seq(Entry) /\ lastRun' \in Nat
<1> DEFINE i == Oldest(Top.queue)
<1>1. i \in DOMAIN events
  BY TopFacts, OldestFacts DEF CodeTypes, Handle
<1>2. events[i] \in Entry
  BY <1>1 DEF CodeTypes
<1>3. events' \in Seq(Entry)
  BY <1>1, RemoveAtFacts DEF CodeTypes, Handle
<1>4. events[i].id \in Nat
  BY <1>2 DEF Entry
<1>5. lastRun' = IF events[i].id = 0 THEN lastRun ELSE events[i].id
  BY DEF Handle
<1>6. QED
  BY <1>3, <1>4, <1>5 DEF CodeTypes

LEMMA ThreadTypesStep ==
  ASSUME TypeOK, [Next]_vars
  PROVE  ThreadTypes'
<1>1. ThreadTypes /\ RunTypes
  BY TypeParts
<1>2. ASSUME NEW t \in Threads, Schedule(t) PROVE ThreadTypes'
  <2>1. CASE ScheduleLock(t)
    BY <1>1, <2>1 DEF ScheduleLock, ThreadTypes
  <2>2. CASE SchedulePut(t)
    <3>1. scheduled + 1 \in Nat
      BY <1>1 DEF ThreadTypes
    <3>2. threadEvents' \in Seq(Nat)
      BY <1>1, <2>2, <3>1 DEF SchedulePut, ThreadTypes
    <3>3. QED
      BY <1>1, <2>2, <3>1, <3>2 DEF SchedulePut, ThreadTypes
  <2>3. CASE ScheduleSend(t)
    BY <1>1, <2>3 DEF ScheduleSend, ThreadTypes
  <2>4. CASE ScheduleUnlock(t)
    BY <1>1, <2>4 DEF ScheduleUnlock, ThreadTypes
  <2>5. QED
    BY <1>2, <2>1, <2>2, <2>3, <2>4 DEF Schedule
<1>3. CASE AsyncBegin
  BY <1>1, <1>3 DEF AsyncBegin, ThreadTypes
<1>4. CASE AsyncMove
  <2>1. Tail(threadEvents) \in Seq(Nat)
    BY <1>1, <1>4 DEF AsyncMove, ThreadTypes
  <2>2. QED
    BY <1>1, <1>4, <2>1 DEF AsyncMove, ThreadTypes
<1>5. CASE AsyncEnd
  BY <1>1, <1>5 DEF AsyncEnd, ThreadTypes
<1>6. CASE Close
  <2>1. <<>> \in Seq(Nat)
    OBVIOUS
  <2>2. QED
    BY <1>1, <1>6, <2>1 DEF Close, ThreadTypes
<1>7. CASE UNCHANGED threadVars
  BY <1>1, <1>7 DEF threadVars, ThreadTypes
<1>8. QED
  BY <1>2, <1>3, <1>4, <1>5, <1>6, <1>7
     DEF Next, vars, threadVars, Poll, TimerCallback, IoCallback, HandlerPut,
         PollReturnsAtOnce, PollBlocks, WakeUp, CallbacksEnd, Return, ProcessBegin,
         ProcessEnd, HandleEvent, HandleEventThatWaits, Handle, WaitEnd

LEMMA CodeTypesStep ==
  ASSUME TypeOK, Frames, [Next]_vars
  PROVE  CodeTypes'
<1>1. ThreadTypes /\ CodeTypes
  BY TypeParts
<1>2. ASSUME NEW owner \in Owners,
             TimerCallback(owner) \/ IoCallback(owner) \/ HandlerPut(owner)
      PROVE  CodeTypes'
  <2>1. PutEvent(owner) /\ UNCHANGED <<stack, lastRun, closed>>
    BY <1>2 DEF TimerCallback, IoCallback, HandlerPut
  <2>2. QED
    BY <1>1, <2>1, PutType DEF CodeTypes
<1>3. CASE AsyncMove
  <2>1. Head(threadEvents) \in Nat
    BY <1>1, <1>3 DEF AsyncMove, ThreadTypes
  <2>2. [id |-> Head(threadEvents), owner |-> "fast"] \in Entry
    BY <2>1, EntryType DEF Owners
  <2>3. events' \in Seq(Entry)
    BY <1>1, <1>3, <2>2, AppendFacts DEF AsyncMove, CodeTypes
  <2>4. stop' \in BOOLEAN
    BY <1>1, <1>3, Zenon DEF AsyncMove, StopAfterPut, CodeTypes
  <2>5. QED
    BY <1>1, <1>3, <2>3, <2>4 DEF AsyncMove, CodeTypes
<1>4. CASE Return
  <2>1. [kind |-> "process", queue |-> "fast"] \in Frame
    BY DEF Frame, Owners
  <2>2. QED
    BY <1>1, <1>4, <2>1, PushType DEF Return, CodeTypes
<1>5. CASE ProcessBegin
  <2>1. [kind |-> "process", queue |-> Top.queue] \in Frame
    BY <1>1, TopFacts DEF Frame
  <2>2. QED
    BY <1>1, <1>5, <2>1, PushType DEF ProcessBegin, CodeTypes
<1>6. CASE ProcessEnd \/ WaitEnd
  <2>1. stack' = Front(stack) /\ (Top.kind = "process" \/ Len(stack) > 1)
    BY <1>6 DEF ProcessEnd, WaitEnd, InCode
  <2>2. stack' \in Seq(Frame) /\ stack' # <<>>
    BY <1>1, <2>1, PopType
  <2>3. QED
    BY <1>1, <1>6, <2>2 DEF ProcessEnd, WaitEnd, CodeTypes
<1>7. CASE HandleEvent
  <2>1. stack' = stack
    BY <1>1, <1>7 DEF HandleEvent, Handle, CodeTypes
  <2>2. events' \in Seq(Entry) /\ lastRun' \in Nat
    BY <1>1, <1>7, HandleType DEF HandleEvent
  <2>3. QED
    BY <1>1, <1>7, <2>1, <2>2 DEF HandleEvent, Handle, CodeTypes
<1>8. ASSUME NEW q \in Owners, HandleEventThatWaits(q) PROVE CodeTypes'
  <2>1. [kind |-> "wait", queue |-> q] \in Frame
    BY DEF Frame
  <2>2. Handle(<<[kind |-> "wait", queue |-> q]>>)
    BY <1>8 DEF HandleEventThatWaits
  <2>3. stack' = Append(stack, [kind |-> "wait", queue |-> q])
    BY <1>1, <2>1, <2>2, PushFacts DEF Handle, CodeTypes
  <2>4. events' \in Seq(Entry) /\ lastRun' \in Nat
    BY <1>1, <2>2, HandleType
  <2>5. QED
    BY <1>1, <2>1, <2>2, <2>3, <2>4, PushType DEF Handle, CodeTypes
<1>9. CASE Close
  <2>1. <<>> \in Seq(Entry)
    OBVIOUS
  <2>2. QED
    BY <1>1, <1>9, <2>1 DEF Close, CodeTypes
<1>10. CASE UNCHANGED <<events, stop, closed, stack, others, lastRun>>
  BY <1>1, <1>10 DEF CodeTypes
<1>11. QED
  BY <1>2, <1>3, <1>4, <1>5, <1>6, <1>7, <1>8, <1>9, <1>10
     DEF Next, vars, loopVars, Schedule, ScheduleLock, SchedulePut, ScheduleSend,
         ScheduleUnlock, Poll, PollReturnsAtOnce, PollBlocks, WakeUp, AsyncBegin,
         AsyncEnd, CallbacksEnd

LEMMA RunTypesStep ==
  ASSUME TypeOK, Phases, [Next]_vars
  PROVE  RunTypes' /\ (recursive = IF phase = "run" THEN 0 ELSE 1)'
<1>1. ThreadTypes /\ RunTypes /\ recursive = IF phase = "run" THEN 0 ELSE 1
  BY TypeParts DEF Phases
<1>2. ASSUME NEW timeout \in {-1, 0, 1}, Poll(timeout)
      PROVE  RunTypes' /\ (recursive = IF phase = "run" THEN 0 ELSE 1)'
  BY <1>1, <1>2 DEF Poll, InCode, RunTypes
<1>3. CASE PollReturnsAtOnce \/ PollBlocks \/ WakeUp \/ CallbacksEnd \/ AsyncBegin \/ AsyncEnd
  BY <1>1, <1>3 DEF PollReturnsAtOnce, PollBlocks, WakeUp, CallbacksEnd, AsyncBegin,
                    AsyncEnd, ThreadTypes, RunTypes
<1>4. CASE Return
  BY <1>1, <1>4 DEF Return, RunTypes
<1>5. CASE UNCHANGED runVars
  BY <1>1, <1>5 DEF runVars, RunTypes
<1>6. QED
  BY <1>2, <1>3, <1>4, <1>5
     DEF Next, vars, loopVars, runVars, Schedule, ScheduleLock, SchedulePut, ScheduleSend,
         ScheduleUnlock, TimerCallback, IoCallback, HandlerPut, AsyncMove, ProcessBegin,
         ProcessEnd, HandleEvent, HandleEventThatWaits, Handle, WaitEnd, Close

(***************************************************************************)
(* The stack                                                               *)
(***************************************************************************)

\* A handler of a fast event does not wait, so a wait is never pushed on FastFrame.
LEMMA NoWaitAboveFast ==
  ASSUME CodeTypes, NEW q \in Owners, HandleEventThatWaits(q)
  PROVE  Top # FastFrame
<1>1. Top.queue \in Owners /\ ~IsEmpty(Top.queue) /\ events[Oldest(Top.queue)].owner # "fast"
  BY TopFacts DEF HandleEventThatWaits
<1>2. Belongs(events[Oldest(Top.queue)], Top.queue)
  BY <1>1, OldestFacts DEF CodeTypes
<1>3. Top.queue # "fast"
  BY <1>1, <1>2 DEF Belongs
<1>4. QED
  BY <1>3 DEF FastFrame

\* Frames survive a push on a top frame that is not FastFrame.
LEMMA PushFrames ==
  ASSUME CodeTypes, Frames, NEW f \in Frame, stack' = Append(stack, f),
         phase' = "run", Top # FastFrame
  PROVE  Frames' /\ Top' = f
<1>1. Len(stack) \in Nat /\ Len(stack) >= 1
  BY TopFacts
<1>2. Len(stack') = Len(stack) + 1 /\ stack'[Len(stack) + 1] = f
      /\ \A i \in 1 .. Len(stack) : stack'[i] = stack[i]
  BY PushFacts DEF CodeTypes
<1>3. stack'[1] = stack[1]
  BY <1>1, <1>2
<1>4. \A i \in 1 .. Len(stack) : stack[i] # FastFrame
  BY <1>1 DEF Frames, Top
<1>5. \A i \in 1 .. Len(stack') - 1 : stack'[i] # FastFrame
  BY <1>1, <1>2, <1>4
<1>6. Top' = f
  BY <1>1, <1>2 DEF Top
<1>7. QED
  BY <1>3, <1>5, <1>6 DEF Frames

LEMMA FramesStep ==
  ASSUME TypeOK, Frames, [Next]_vars
  PROVE  Frames'
<1>1. CodeTypes /\ RunTypes
  BY TypeParts
<1>2. CASE Return
  <2>1. FastFrame \in Frame
    BY DEF FastFrame, Frame, Owners
  <2>2. phase' = "run" /\ stack' = Append(stack, FastFrame) /\ Top.kind = "wait"
    BY <1>2 DEF Return, FastFrame, Frames
  <2>3. Top # FastFrame
    BY <2>2 DEF FastFrame
  <2>4. QED
    BY <1>1, <2>1, <2>2, <2>3, PushFrames
<1>3. CASE ProcessBegin
  <2>1. [kind |-> "process", queue |-> Top.queue] \in Frame
    BY <1>1, TopFacts DEF Frame
  <2>2. /\ phase' = "run" /\ stack' = Append(stack, [kind |-> "process", queue |-> Top.queue])
        /\ Top.kind = "wait"
    BY <1>3 DEF ProcessBegin, InCode, runVars
  <2>3. Top # FastFrame
    BY <2>2 DEF FastFrame
  <2>4. QED
    BY <1>1, <2>1, <2>2, <2>3, PushFrames
<1>4. ASSUME NEW q \in Owners, HandleEventThatWaits(q) PROVE Frames'
  <2>1. [kind |-> "wait", queue |-> q] \in Frame
    BY DEF Frame
  <2>2. phase' = "run" /\ stack' = Append(stack, [kind |-> "wait", queue |-> q])
    BY <1>1, <1>4, <2>1, PushFacts DEF HandleEventThatWaits, Handle, InCode, runVars, CodeTypes
  <2>3. QED
    BY <1>1, <1>4, <2>1, <2>2, NoWaitAboveFast, PushFrames
<1>5. CASE ProcessEnd \/ WaitEnd
  <2>1. stack' = Front(stack) /\ phase' = "run" /\ Len(stack) > 1 /\ Len(stack) \in Nat
    BY <1>1, <1>5, PopType, TopFacts DEF ProcessEnd, WaitEnd, InCode, runVars
  <2>2. Len(stack') = Len(stack) - 1 /\ \A i \in 1 .. Len(stack) - 1 : stack'[i] = stack[i]
    BY <1>1, <2>1, FrontFacts DEF CodeTypes
  <2>3. stack'[1] = stack[1]
    BY <2>1, <2>2
  <2>4. \A i \in 1 .. Len(stack') - 1 : stack'[i] # FastFrame
    BY <2>1, <2>2 DEF Frames
  <2>5. QED
    BY <2>1, <2>3, <2>4 DEF Frames
<1>6. ASSUME NEW timeout \in {-1, 0, 1}, Poll(timeout) PROVE Frames'
  BY <1>6 DEF Poll, InCode, Frames, Top
<1>7. CASE HandleEvent
  <2>1. stack' = stack
    BY <1>1, <1>7 DEF HandleEvent, Handle, CodeTypes
  <2>2. QED
    BY <1>7, <2>1 DEF HandleEvent, Handle, runVars, Frames, Top
<1>8. CASE UNCHANGED <<stack, phase>>
  BY <1>8 DEF Frames, Top
<1>9. CASE UNCHANGED stack /\ phase # "run"
  BY <1>9 DEF Frames, Top
<1>10. QED
  BY <1>2, <1>3, <1>4, <1>5, <1>6, <1>7, <1>8, <1>9
     DEF Next, vars, loopVars, runVars, Schedule, ScheduleLock, SchedulePut, ScheduleSend,
         ScheduleUnlock, PollReturnsAtOnce, PollBlocks, WakeUp, TimerCallback, IoCallback,
         HandlerPut, AsyncBegin, AsyncMove, AsyncEnd, CallbacksEnd, Close

\* A loop that is closed has no thread in loop_schedule and polls no more.
LEMMA PhasesStep ==
  ASSUME TypeOK, Frames, Phases, [Next]_vars
  PROVE  Phases'
<1>1. (recursive = IF phase = "run" THEN 0 ELSE 1)'
  BY RunTypesStep
<1>2. ThreadTypes /\ RunTypes
  BY TypeParts
<1>3. (closed => phase = "run" /\ \A t \in Threads : pc[t] = "idle")'
  <2>1. ASSUME NEW t \in Threads, Schedule(t)
        PROVE  ~closed /\ ~closed'
    BY <2>1 DEF Schedule, ScheduleLock, SchedulePut, ScheduleSend, ScheduleUnlock,
                loopVars, Phases
  <2>2. CASE Close
    BY <2>2 DEF Close, InCode, runVars
  <2>3. ASSUME NEW timeout \in {-1, 0, 1}, Poll(timeout) PROVE ~closed'
    BY <2>3 DEF Poll, InCode
  <2>4. CASE UNCHANGED <<closed, pc, phase>>
    BY <2>4 DEF Phases
  <2>5. CASE UNCHANGED closed /\ phase # "run"
    BY <2>5 DEF Phases
  <2>6. QED
    BY <2>1, <2>2, <2>3, <2>4, <2>5
       DEF Next, vars, threadVars, runVars, PollReturnsAtOnce, PollBlocks, WakeUp,
           TimerCallback, IoCallback, HandlerPut, AsyncBegin, AsyncMove, AsyncEnd,
           CallbacksEnd, Return, ProcessBegin, ProcessEnd, HandleEvent,
           HandleEventThatWaits, Handle, WaitEnd
<1>4. QED
  BY <1>1, <1>3 DEF Phases

(***************************************************************************)
(* What the poll may block on                                              *)
(***************************************************************************)

\* A put stops uv_run, or it goes to loop->events itself and not to fast_events.
LEMMA PutStopsOrSpares ==
  ASSUME CodeTypes, NEW owner \in Owners, PutEvent(owner), ~stop'
  PROVE  ~stop /\ (IsEmpty("fast") => IsEmpty("fast")')
<1>1. owner = "events" /\ ~stop
  BY DEF PutEvent, StopAfterPut
<1>2. 0 \in Nat /\ [id |-> 0, owner |-> owner] \in Entry
  BY EntryType
<1>3. events' = Append(events, [id |-> 0, owner |-> "events"])
  BY <1>1 DEF PutEvent
<1>4. IsEmpty("fast") => IsEmpty("fast")'
  BY <1>1, <1>2, <1>3, AppendFacts DEF IsEmpty, Belongs, CodeTypes
<1>5. QED
  BY <1>1, <1>4

\* Taking an event out leaves an empty queue empty.
LEMMA TakeKeepsEmpty ==
  ASSUME CodeTypes, NEW frames, Handle(frames), IsEmpty("fast")
  PROVE  IsEmpty("fast")'
<1> DEFINE i == Oldest(Top.queue)
<1>1. i \in DOMAIN events /\ events' = RemoveAt(events, i)
  BY TopFacts, OldestFacts DEF CodeTypes, Handle
<1>2. DOMAIN events' = 1 .. Len(events) - 1 /\ Len(events) \in Nat /\ DOMAIN events = 1 .. Len(events)
      /\ \A k \in 1 .. Len(events) - 1 : events'[k] = IF k < i THEN events[k] ELSE events[k + 1]
  BY <1>1, RemoveAtFacts DEF CodeTypes
<1>3. ASSUME NEW k \in DOMAIN events' PROVE ~Belongs(events'[k], "fast")
  <2>1. k \in DOMAIN events /\ k + 1 \in DOMAIN events
    BY <1>2
  <2>2. events'[k] = events[k] \/ events'[k] = events[k + 1]
    BY <1>2
  <2>3. QED
    BY <2>1, <2>2 DEF IsEmpty, Belongs
<1>4. QED
  BY <1>3 DEF IsEmpty, Belongs

LEMMA QuietStep ==
  ASSUME TypeOK, Frames, Phases, Quiet, [Next]_vars
  PROVE  Quiet'
<1>1. CodeTypes /\ RunTypes
  BY TypeParts
<1>2. ASSUME NEW timeout \in {-1, 0, 1}, Poll(timeout) PROVE Quiet'
  <2>1. Top # FastFrame /\ IsEmpty(Top.queue)
    BY <1>2 DEF Poll, InCode, FastFrame
  <2>2. ~stop => IsEmpty("fast")
    BY <1>2, <2>1 DEF Poll, InCode, Quiet
  <2>3. QED
    BY <1>2, <2>1, <2>2 DEF Poll, Quiet, IsEmpty, Top
<1>3. ASSUME NEW owner \in Owners, TimerCallback(owner) PROVE Quiet'
  <2>1. stop' /\ phase' # "run" /\ phase' # "sleep"
    BY <1>3 DEF TimerCallback, PutEvent, StopAfterPut, runVars
  <2>2. QED
    BY <2>1 DEF Quiet
<1>4. ASSUME NEW owner \in Owners, HandlerPut(owner) PROVE Quiet'
  <2>1. PutEvent(owner) /\ phase' = "run" /\ phase = "run" /\ stack' = stack
    BY <1>4 DEF HandlerPut, InCode, runVars
  <2>2. ~stop' => IsEmpty("fast")' \/ Top' = FastFrame
    BY <1>1, <2>1, PutStopsOrSpares DEF Quiet, Top
  <2>3. QED
    BY <2>1, <2>2 DEF Quiet
<1>5. CASE PollBlocks
  BY <1>5 DEF PollBlocks, Quiet, IsEmpty, Top
<1>6. CASE phase' \in {"callbacks", "async", "return"}
  BY <1>6 DEF Quiet
<1>7. CASE Return
  <2>1. phase' = "run" /\ Top' = FastFrame
    BY <1>1, <1>7, TopFacts, PushFacts DEF Return, FastFrame, Frame, Owners, Top, CodeTypes
  <2>2. QED
    BY <2>1 DEF Quiet
<1>8. CASE ProcessBegin \/ WaitEnd
  <2>1. phase' = "run" /\ phase = "run" /\ stop' = stop /\ events' = events /\ Top # FastFrame
    BY <1>8 DEF ProcessBegin, WaitEnd, InCode, runVars, FastFrame
  <2>2. QED
    BY <2>1 DEF Quiet, IsEmpty
<1>9. CASE ProcessEnd
  <2>1. phase' = "run" /\ phase = "run" /\ stop' = stop /\ events' = events /\ IsEmpty(Top.queue)
    BY <1>9 DEF ProcessEnd, InCode, runVars
  <2>2. Top = FastFrame => IsEmpty("fast")
    BY <2>1 DEF FastFrame
  <2>3. QED
    BY <2>1, <2>2 DEF Quiet, IsEmpty
<1>10. CASE HandleEvent
  <2>1. Handle(<<>>) /\ phase' = "run" /\ phase = "run" /\ stop' = stop /\ stack' = stack
    BY <1>1, <1>10 DEF HandleEvent, Handle, InCode, runVars, CodeTypes
  <2>2. IsEmpty("fast") => IsEmpty("fast")'
    BY <1>1, <2>1, TakeKeepsEmpty
  <2>3. QED
    BY <2>1, <2>2 DEF Quiet, Top
<1>11. ASSUME NEW q \in Owners, HandleEventThatWaits(q) PROVE Quiet'
  <2>1. Handle(<<[kind |-> "wait", queue |-> q]>>)
        /\ phase' = "run" /\ phase = "run" /\ stop' = stop
    BY <1>11 DEF HandleEventThatWaits, Handle, InCode, runVars
  <2>2. IsEmpty("fast") => IsEmpty("fast")'
    BY <1>1, <2>1, TakeKeepsEmpty
  <2>3. Top # FastFrame
    BY <1>1, <1>11, NoWaitAboveFast
  <2>4. QED
    BY <2>1, <2>2, <2>3 DEF Quiet
<1>12. CASE Close
  <2>1. events' = <<>> /\ phase' = "run"
    BY <1>12 DEF Close, InCode, runVars
  <2>2. DOMAIN events' = {}
    BY <2>1
  <2>3. IsEmpty("fast")'
    BY <2>2 DEF IsEmpty, Belongs
  <2>4. QED
    BY <2>1, <2>3 DEF Quiet
<1>13. CASE UNCHANGED <<events, stop, phase, stack>>
  BY <1>13 DEF Quiet, IsEmpty, Top
<1>14. QED
  BY <1>2, <1>3, <1>4, <1>5, <1>6, <1>7, <1>8, <1>9, <1>10, <1>11, <1>12, <1>13
     DEF Next, vars, loopVars, runVars, Schedule, ScheduleLock, SchedulePut, ScheduleSend,
         ScheduleUnlock, PollReturnsAtOnce, WakeUp, IoCallback, AsyncBegin, AsyncMove,
         AsyncEnd, CallbacksEnd

(***************************************************************************)
(* The scheduled events                                                    *)
(***************************************************************************)

\* uv_async_send is on its way whenever thread_events has something to move.
LEMMA WakesStep ==
  ASSUME TypeOK, Phases, NoLostWakeUp, [Next]_vars
  PROVE  NoLostWakeUp'
<1>1. ThreadTypes /\ RunTypes
  BY TypeParts
<1>2. ASSUME NEW t \in Threads, Schedule(t) PROVE NoLostWakeUp'
  <2>1. CASE ScheduleLock(t)
    BY <1>1, <2>1 DEF ScheduleLock, loopVars, runVars, ThreadTypes, NoLostWakeUp
  <2>2. CASE SchedulePut(t)
    BY <1>1, <2>2 DEF SchedulePut, ThreadTypes, NoLostWakeUp
  <2>3. CASE ScheduleSend(t)
    BY <2>3 DEF ScheduleSend, NoLostWakeUp
  <2>4. CASE ScheduleUnlock(t)
    BY <1>1, <2>4 DEF ScheduleUnlock, loopVars, runVars, ThreadTypes, NoLostWakeUp
  <2>5. QED
    BY <1>2, <2>1, <2>2, <2>3, <2>4 DEF Schedule
<1>3. CASE AsyncBegin
  BY <1>3 DEF AsyncBegin, NoLostWakeUp
<1>4. CASE AsyncMove
  BY <1>4 DEF AsyncMove, runVars, NoLostWakeUp
<1>5. CASE AsyncEnd
  BY <1>5 DEF AsyncEnd, NoLostWakeUp
<1>6. CASE Close
  BY <1>6 DEF Close, NoLostWakeUp
<1>7. CASE UNCHANGED <<threadVars, closed>> /\ (phase' = phase \/ phase # "async")
  BY <1>7 DEF threadVars, NoLostWakeUp
<1>8. QED
  BY <1>2, <1>3, <1>4, <1>5, <1>6, <1>7
     DEF Next, vars, threadVars, runVars, Poll, InCode, TimerCallback, IoCallback,
         HandlerPut, PollReturnsAtOnce, PollBlocks, WakeUp, CallbacksEnd, Return,
         ProcessBegin, ProcessEnd, HandleEvent, HandleEventThatWaits, Handle, WaitEnd

LEMMA EntryFields ==
  ASSUME NEW ev \in Seq(Entry)
  PROVE  /\ Len(ev) \in Nat /\ DOMAIN ev = 1 .. Len(ev)
         /\ \A i \in DOMAIN ev : ev[i].id \in Nat /\ ev[i].owner \in Owners
<1>1. \A i \in DOMAIN ev : ev[i] \in Entry
  OBVIOUS
<1>2. QED
  BY <1>1 DEF Entry

\* An event that nobody scheduled may be put anywhere at the end.
LEMMA PutKeepsOrder ==
  ASSUME NEW ev \in Seq(Entry), NEW last \in Nat, NEW moved \in Nat,
         NEW e \in Entry, e.id = 0, OrderOf(ev, last, moved)
  PROVE  OrderOf(Append(ev, e), last, moved)
<1> DEFINE r == Append(ev, e)
<1>1. /\ Len(ev) \in Nat /\ DOMAIN ev = 1 .. Len(ev) /\ DOMAIN r = 1 .. Len(ev) + 1
      /\ r[Len(ev) + 1] = e /\ \A i \in 1 .. Len(ev) : r[i] = ev[i]
  BY AppendFacts
<1> HIDE DEF r
<1>2. \A i \in DOMAIN r : r[i].id # 0 => i \in DOMAIN ev /\ r[i] = ev[i]
  BY <1>1
<1>3. \A n \in Nat : last < n /\ n <= moved => \E i \in DOMAIN r : r[i].id = n
  BY <1>1 DEF OrderOf
<1>4. OrderOf(r, last, moved)
  BY <1>2, <1>3 DEF OrderOf
<1>5. QED
  BY <1>4 DEF r

\* async_cb puts the next scheduled event at the end.
LEMMA MoveKeepsOrder ==
  ASSUME NEW ev \in Seq(Entry), NEW last \in Nat, NEW moved \in Nat,
         NEW e \in Entry, e.id = moved + 1, e.owner = "fast", OrderOf(ev, last, moved)
  PROVE  OrderOf(Append(ev, e), last, moved + 1)
<1> DEFINE r == Append(ev, e)
<1>1. /\ Len(ev) \in Nat /\ DOMAIN ev = 1 .. Len(ev) /\ DOMAIN r = 1 .. Len(ev) + 1
      /\ r[Len(ev) + 1] = e /\ \A i \in 1 .. Len(ev) : r[i] = ev[i]
  BY AppendFacts
<1>2. \A i \in DOMAIN ev : ev[i].id \in Nat
  BY EntryFields
<1> HIDE DEF r
<1>3. last <= moved + 1
  BY DEF OrderOf
<1>4. ASSUME NEW i \in DOMAIN r, r[i].id # 0
      PROVE  r[i].owner = "fast" /\ last < r[i].id /\ r[i].id <= moved + 1
  <2>1. CASE i \in DOMAIN ev
    BY <1>1, <1>2, <1>4, <2>1 DEF OrderOf
  <2>2. CASE i = Len(ev) + 1
    BY <1>1, <2>2 DEF OrderOf
  <2>3. QED
    BY <1>1, <2>1, <2>2
<1>5. ASSUME NEW i \in DOMAIN r, NEW j \in DOMAIN r, i < j, r[i].id # 0, r[j].id # 0
      PROVE  r[i].id < r[j].id
  <2>1. i \in DOMAIN ev /\ r[i] = ev[i]
    BY <1>1, <1>5
  <2>2. CASE j \in DOMAIN ev
    BY <1>1, <1>5, <2>1, <2>2 DEF OrderOf
  <2>3. CASE j = Len(ev) + 1
    BY <1>1, <1>2, <1>5, <2>1, <2>3 DEF OrderOf
  <2>4. QED
    BY <1>1, <2>2, <2>3
<1>6. ASSUME NEW n \in Nat, last < n, n <= moved + 1
      PROVE  \E i \in DOMAIN r : r[i].id = n
  <2>1. CASE n <= moved
    BY <1>1, <1>6, <2>1 DEF OrderOf
  <2>2. CASE n = moved + 1
    BY <1>1, <2>2
  <2>3. QED
    BY <1>6, <2>1, <2>2
<1>7. QED
  BY <1>3, <1>4, <1>5, <1>6 DEF r, OrderOf

\* Taking an event no scheduled one is before: if it was scheduled, it is the next.
LEMMA TakeKeepsOrder ==
  ASSUME NEW ev \in Seq(Entry), NEW last \in Nat, NEW moved \in Nat, OrderOf(ev, last, moved),
         NEW i \in DOMAIN ev,
         ev[i].id # 0 => \A j \in DOMAIN ev : j < i => ev[j].id = 0
  PROVE  /\ ev[i].id # 0 => ev[i].id = last + 1
         /\ OrderOf(RemoveAt(ev, i), IF ev[i].id = 0 THEN last ELSE ev[i].id, moved)
<1> DEFINE r == RemoveAt(ev, i)
           now == IF ev[i].id = 0 THEN last ELSE ev[i].id
<1>1. /\ Len(ev) \in Nat /\ DOMAIN ev = 1 .. Len(ev)
      /\ \A k \in DOMAIN ev : ev[k].id \in Nat
  BY EntryFields
<1>2. /\ DOMAIN r = 1 .. Len(ev) - 1
      /\ \A k \in 1 .. Len(ev) - 1 : r[k] = IF k < i THEN ev[k] ELSE ev[k + 1]
  BY RemoveAtFacts
<1> HIDE DEF r
<1>3. ASSUME ev[i].id # 0 PROVE ev[i].id = last + 1
  <2>1. last < ev[i].id /\ ev[i].id <= moved
    BY <1>3 DEF OrderOf
  <2>2. PICK k \in DOMAIN ev : ev[k].id = last + 1
    BY <1>1, <2>1 DEF OrderOf
  <2>3. ~(k < i)
    BY <1>1, <1>3, <2>2
  <2>4. i < k => ev[i].id < last + 1
    BY <1>1, <1>3, <2>2 DEF OrderOf
  <2>5. k = i
    BY <1>1, <2>1, <2>3, <2>4
  <2>6. QED
    BY <2>2, <2>5
<1>4. now \in Nat /\ now <= moved
  BY <1>1 DEF OrderOf
<1>5. ASSUME NEW k \in DOMAIN ev, k # i, ev[k].id # 0
      PROVE  ev[k].owner = "fast" /\ now < ev[k].id /\ ev[k].id <= moved
  <2>1. CASE ev[i].id = 0
    BY <1>5, <2>1 DEF OrderOf
  <2>2. CASE ev[i].id # 0
    <3>1. i < k
      BY <1>1, <1>5, <2>2
    <3>2. ev[i].id < ev[k].id
      BY <1>5, <2>2, <3>1 DEF OrderOf
    <3>3. QED
      BY <1>5, <2>2, <3>2 DEF OrderOf
  <2>3. QED
    BY <2>1, <2>2
<1>6. \A k \in DOMAIN r : \E m \in DOMAIN ev : m # i /\ r[k] = ev[m] /\ m = IF k < i THEN k ELSE k + 1
  BY <1>1, <1>2
<1>7. \A k \in DOMAIN r : r[k].id # 0 => r[k].owner = "fast" /\ now < r[k].id /\ r[k].id <= moved
  BY <1>5, <1>6
<1>8. ASSUME NEW j \in DOMAIN r, NEW k \in DOMAIN r, j < k, r[j].id # 0, r[k].id # 0
      PROVE  r[j].id < r[k].id
  <2>1. PICK a \in DOMAIN ev : r[j] = ev[a] /\ a = IF j < i THEN j ELSE j + 1
    BY <1>6
  <2>2. PICK b \in DOMAIN ev : r[k] = ev[b] /\ b = IF k < i THEN k ELSE k + 1
    BY <1>6
  <2>3. a < b
    BY <1>1, <1>2, <1>8, <2>1, <2>2
  <2>4. QED
    BY <1>8, <2>1, <2>2, <2>3 DEF OrderOf
<1>9. ASSUME NEW n \in Nat, now < n, n <= moved PROVE \E k \in DOMAIN r : r[k].id = n
  <2>1. last < n
    BY <1>3, <1>9
  <2>2. PICK m \in DOMAIN ev : ev[m].id = n
    BY <1>9, <2>1 DEF OrderOf
  <2>3. m # i
    BY <1>3, <1>9, <2>1, <2>2
  <2>4. CASE m < i
    BY <1>1, <1>2, <2>2, <2>4
  <2>5. CASE i < m
    <3>1. m - 1 \in DOMAIN r /\ r[m - 1] = ev[m]
      BY <1>1, <1>2, <2>5
    <3>2. QED
      BY <2>2, <3>1
  <2>6. QED
    BY <1>1, <2>3, <2>4, <2>5
<1>10. OrderOf(r, now, moved)
  BY <1>4, <1>7, <1>8, <1>9 DEF OrderOf
<1>11. QED
  BY <1>3, <1>10 DEF r

\* The handler of an event: a scheduled one is the next of its kind.
LEMMA HandleKeepsOrder ==
  ASSUME ThreadTypes, CodeTypes, Order, NEW frames, Handle(frames)
  PROVE  Order' /\ (lastRun' # lastRun => lastRun' = lastRun + 1)
<1> DEFINE i == Oldest(Top.queue)
<1>1. ~closed /\ closed' = closed /\ UNCHANGED <<threadEvents, scheduled>>
  BY DEF Handle, InCode, threadVars
<1>2. OrderOf(events, lastRun, Moved) /\ \A k \in DOMAIN threadEvents : threadEvents[k] = Moved + k
  BY <1>1 DEF Order
<1>3. /\ i \in DOMAIN events /\ Belongs(events[i], Top.queue)
      /\ \A j \in DOMAIN events : j < i => ~Belongs(events[j], Top.queue)
  BY TopFacts, OldestFacts DEF CodeTypes, Handle
<1>4. events[i].id # 0 => \A j \in DOMAIN events : j < i => events[j].id = 0
  BY <1>2, <1>3 DEF Belongs, OrderOf
<1>5. Moved \in Nat
  <2>1. Moved \in Int /\ lastRun <= Moved /\ lastRun \in Nat
    BY <1>2 DEF Moved, OrderOf, ThreadTypes, CodeTypes
  <2>2. QED
    BY <2>1
<1>6. events' = RemoveAt(events, i) /\ lastRun' = IF events[i].id = 0 THEN lastRun ELSE events[i].id
  BY DEF Handle
<1>7. (events[i].id # 0 => events[i].id = lastRun + 1) /\ OrderOf(events', lastRun', Moved)
  BY <1>2, <1>3, <1>4, <1>5, <1>6, TakeKeepsOrder DEF CodeTypes
<1>8. Moved' = Moved
  BY <1>1 DEF Moved
<1>9. Order'
  BY <1>1, <1>2, <1>7, <1>8 DEF Order, OrderOf
<1>10. QED
  BY <1>6, <1>7, <1>9

LEMMA OrderStep ==
  ASSUME TypeOK, Phases, Order, [Next]_vars
  PROVE  Order' /\ (lastRun' # lastRun => lastRun' = lastRun + 1)
<1>1. ThreadTypes /\ CodeTypes /\ RunTypes
  BY TypeParts
<1>2. ASSUME ~closed
      PROVE  /\ Moved \in Nat /\ OrderOf(events, lastRun, Moved)
             /\ \A k \in DOMAIN threadEvents : threadEvents[k] = Moved + k
  <2>1. OrderOf(events, lastRun, Moved) /\ \A k \in DOMAIN threadEvents : threadEvents[k] = Moved + k
    BY <1>2 DEF Order
  <2>2. Moved \in Int /\ lastRun <= Moved /\ lastRun \in Nat
    BY <1>1, <2>1 DEF Moved, OrderOf, ThreadTypes, CodeTypes
  <2>3. QED
    BY <2>1, <2>2
<1>3. ASSUME NEW t \in Threads, SchedulePut(t)
      PROVE  Order' /\ lastRun' = lastRun
  <2>1. /\ threadEvents' = Append(threadEvents, scheduled + 1) /\ scheduled' = scheduled + 1
        /\ UNCHANGED <<events, lastRun, closed>> /\ ~closed
    BY <1>3 DEF SchedulePut, loopVars, Phases
  <2>2. scheduled + 1 \in Nat /\ threadEvents \in Seq(Nat)
    BY <1>1 DEF ThreadTypes
  <2>3. /\ Len(threadEvents) \in Nat /\ DOMAIN threadEvents = 1 .. Len(threadEvents)
        /\ threadEvents' \in Seq(Nat)
        /\ DOMAIN threadEvents' = 1 .. Len(threadEvents) + 1
        /\ threadEvents'[Len(threadEvents) + 1] = scheduled + 1
        /\ \A k \in 1 .. Len(threadEvents) : threadEvents'[k] = threadEvents[k]
    BY <2>1, <2>2, AppendFacts
  <2>4. Len(threadEvents') = Len(threadEvents) + 1
    BY <2>3
  <2>5. Moved' = Moved
    BY <1>1, <2>1, <2>3, <2>4 DEF Moved, ThreadTypes
  <2>6. Moved + Len(threadEvents) = scheduled
    BY <1>1, <2>3 DEF Moved, ThreadTypes
  <2>7. \A k \in DOMAIN threadEvents' : threadEvents'[k] = Moved + k
    <3>1. ASSUME NEW k \in DOMAIN threadEvents' PROVE threadEvents'[k] = Moved + k
      <4>1. CASE k \in 1 .. Len(threadEvents)
        BY <1>2, <2>1, <2>3, <4>1
      <4>2. CASE k = Len(threadEvents) + 1
        BY <1>2, <2>1, <2>3, <2>6, <4>2
      <4>3. QED
        BY <2>3, <4>1, <4>2
    <3>2. QED
      BY <3>1
  <2>8. QED
    BY <1>2, <2>1, <2>5, <2>7 DEF Order, OrderOf
<1>4. CASE AsyncMove
  <2>1. /\ threadEvents # <<>> /\ threadEvents' = Tail(threadEvents)
        /\ events' = Append(events, [id |-> Head(threadEvents), owner |-> "fast"])
        /\ UNCHANGED <<scheduled, lastRun, closed>> /\ ~closed
    BY <1>4 DEF AsyncMove, Phases
  <2>2. /\ Len(threadEvents) \in Nat /\ Len(threadEvents) >= 1
        /\ DOMAIN threadEvents = 1 .. Len(threadEvents)
        /\ Head(threadEvents) = threadEvents[1] /\ Head(threadEvents) \in Nat
    BY <1>1, <2>1 DEF ThreadTypes
  <2>3. /\ threadEvents' \in Seq(Nat) /\ Len(threadEvents') = Len(threadEvents) - 1
        /\ DOMAIN threadEvents' = 1 .. Len(threadEvents) - 1
        /\ \A k \in 1 .. Len(threadEvents) - 1 : threadEvents'[k] = threadEvents[k + 1]
    BY <1>1, <2>1, <2>2 DEF ThreadTypes
  <2>4. Moved' = Moved + 1
    BY <1>1, <2>1, <2>2, <2>3 DEF Moved, ThreadTypes
  <2>5. Head(threadEvents) = Moved + 1
    BY <1>2, <2>1, <2>2
  <2>6. \A k \in DOMAIN threadEvents' : threadEvents'[k] = Moved' + k
    <3>1. ASSUME NEW k \in DOMAIN threadEvents' PROVE threadEvents'[k] = Moved' + k
      <4>1. k \in Nat /\ k + 1 \in DOMAIN threadEvents /\ threadEvents'[k] = threadEvents[k + 1]
        BY <2>2, <2>3
      <4>2. QED
        BY <1>2, <2>1, <2>4, <4>1
    <3>2. QED
      BY <3>1
  <2>7. [id |-> Head(threadEvents), owner |-> "fast"] \in Entry
    BY <2>2, EntryType DEF Owners
  <2>8. OrderOf(events', lastRun, Moved + 1)
    BY <1>1, <1>2, <2>1, <2>5, <2>7, MoveKeepsOrder DEF CodeTypes
  <2>9. QED
    BY <2>1, <2>4, <2>6, <2>8 DEF Order, OrderOf
<1>5. ASSUME NEW owner \in Owners,
             TimerCallback(owner) \/ IoCallback(owner) \/ HandlerPut(owner)
      PROVE  Order' /\ lastRun' = lastRun
  <2>1. PutEvent(owner) /\ UNCHANGED <<threadEvents, scheduled, lastRun, closed>>
    BY <1>5 DEF TimerCallback, IoCallback, HandlerPut, threadVars
  <2>2. 0 \in Nat /\ [id |-> 0, owner |-> owner] \in Entry
    BY EntryType
  <2>3. events' = Append(events, [id |-> 0, owner |-> owner])
    BY <2>1 DEF PutEvent
  <2>4. ~closed => OrderOf(events', lastRun, Moved)
    BY <1>1, <1>2, <2>2, <2>3, PutKeepsOrder DEF CodeTypes
  <2>5. Moved' = Moved
    BY <2>1 DEF Moved
  <2>6. QED
    BY <1>2, <2>1, <2>4, <2>5 DEF Order, OrderOf
<1>6. ASSUME NEW frames, Handle(frames)
      PROVE  Order' /\ (lastRun' # lastRun => lastRun' = lastRun + 1)
  BY <1>1, <1>6, HandleKeepsOrder
<1>7. CASE Close
  BY <1>7 DEF Close, Order
<1>8. CASE UNCHANGED <<events, threadEvents, scheduled, lastRun, closed>>
  BY <1>8 DEF Order, Moved, OrderOf
<1>9. QED
  BY <1>3, <1>4, <1>5, <1>6, <1>7, <1>8
     DEF Next, vars, loopVars, threadVars, Schedule, ScheduleLock, ScheduleSend,
         ScheduleUnlock, Poll, PollReturnsAtOnce, PollBlocks, WakeUp, AsyncBegin, AsyncEnd,
         CallbacksEnd, Return, ProcessBegin, ProcessEnd, HandleEvent, HandleEventThatWaits,
         WaitEnd

(***************************************************************************)
(* Theorems                                                                *)
(***************************************************************************)

LEMMA InitHolds == Init => IndInv
<1> SUFFICES ASSUME Init PROVE IndInv
  OBVIOUS
<1>1. [kind |-> "wait", queue |-> "events"] \in Frame
  BY DEF Frame, Owners
<1>2. stack \in Seq(Frame) /\ stack # <<>> /\ Len(stack) = 1
      /\ stack[1] = [kind |-> "wait", queue |-> "events"]
  BY <1>1 DEF Init
<1>3. TypeOK
  <2>1. events \in Seq(Entry) /\ threadEvents \in Seq(Nat)
    BY DEF Init
  <2>2. ThreadTypes /\ RunTypes
    <3>1. ms = -1 /\ recursive = 0 /\ scheduled = 0
      BY DEF Init
    <3>2. ms \in {-1, 0, 1} /\ recursive \in 0 .. 1 /\ scheduled \in Nat
      BY <3>1
    <3>3. async \in BOOLEAN /\ asyncReady \in BOOLEAN
      BY Zenon DEF Init
    <3>4. ThreadTypes
      BY <2>1, <3>2, <3>3 DEF Init, ThreadTypes
    <3>5. RunTypes
      BY <3>2, <3>3 DEF Init, RunTypes
    <3>6. QED
      BY <3>4, <3>5
  <2>3. CodeTypes
    BY <1>2, <2>1 DEF Init, CodeTypes
  <2>4. QED
    BY <2>2, <2>3, TypeParts
<1>4. Frames /\ Phases
  BY <1>2 DEF Init, Frames, Phases
<1>5. DOMAIN events = {} /\ Len(threadEvents) = 0 /\ DOMAIN threadEvents = {}
  BY DEF Init
<1>6. Quiet /\ NoLostWakeUp
  BY <1>5 DEF Init, Quiet, IsEmpty, NoLostWakeUp
<1>7. Order
  BY <1>5 DEF Init, Order, OrderOf, Moved
<1>8. QED
  BY <1>3, <1>4, <1>6, <1>7 DEF IndInv

LEMMA NextHolds == IndInv /\ [Next]_vars => IndInv'
<1> SUFFICES ASSUME IndInv, [Next]_vars PROVE IndInv'
  OBVIOUS
<1>1. TypeOK /\ Frames /\ Phases /\ Quiet /\ NoLostWakeUp /\ Order
  BY DEF IndInv
<1>2. ThreadTypes' /\ CodeTypes' /\ RunTypes'
  BY <1>1, ThreadTypesStep, CodeTypesStep, RunTypesStep
<1>3. TypeOK'
  BY <1>2, Zenon DEF TypeOK, ThreadTypes, CodeTypes, RunTypes
<1>4. Frames' /\ Phases' /\ Quiet' /\ NoLostWakeUp' /\ Order'
  BY <1>1, FramesStep, PhasesStep, QuietStep, WakesStep, OrderStep
<1>5. QED
  BY <1>3, <1>4 DEF IndInv

LEMMA IndInvHolds == Spec => []IndInv
  BY InitHolds, NextHolds, PTL DEF Spec

\* The variables of loop.c keep their types.
THEOREM TypeCorrect == Spec => []TypeOK
<1>1. IndInv => TypeOK
  BY DEF IndInv
<1>2. QED
  BY <1>1, IndInvHolds, PTL

\* The poll never blocks while the queue its caller waits for, or fast_events,
\* holds an event: the uv_stop of loop_on_put is enough, whatever the callbacks
\* put and however deep the waits are nested.
THEOREM NeverSleepsOnWork == Spec => []NeverSleepsOnItsQueue
<1>1. IndInv => NeverSleepsOnItsQueue
  BY DEF IndInv, Quiet, NeverSleepsOnItsQueue
<1>2. QED
  BY <1>1, IndInvHolds, PTL

\* Whenever thread_events holds an event, the loop is or will be woken for it,
\* for any number of threads in loop_schedule.
THEOREM NoLost == Spec => []NoLostWakeUp
<1>1. IndInv => NoLostWakeUp
  BY DEF IndInv
<1>2. QED
  BY <1>1, IndInvHolds, PTL

\* The handlers of scheduled events run once each, in the order of the mutex,
\* with no gap, for any number of threads, of events and of nested waits.
THEOREM InOrder == Spec => ScheduledInOrder
<1>1. IndInv /\ [Next]_vars => [lastRun' # lastRun => lastRun' = lastRun + 1]_vars
  BY OrderStep DEF IndInv
<1>2. QED
  BY <1>1, IndInvHolds, PTL DEF Spec, ScheduledInOrder

(***************************************************************************)
(* The mailbox                                                             *)
(***************************************************************************)

\* A step that handles no scheduled event and schedules none is none for the users.
MailStutters == UNCHANGED <<scheduled, lastRun, closed>>

\* Which steps the users of the loop can tell apart.
LEMMA MailCases ==
  ASSUME TypeOK, Phases, [Next]_vars
  PROVE  \/ MailStutters
         \/ \E t \in Threads : SchedulePut(t)
         \/ \E frames : Handle(frames)
         \/ Close
  BY DEF Next, MailStutters, vars, loopVars, threadVars, Schedule, ScheduleLock, ScheduleSend,
         ScheduleUnlock, Poll, PollReturnsAtOnce, PollBlocks, WakeUp, AsyncBegin, AsyncMove,
         AsyncEnd, CallbacksEnd, Return, ProcessBegin, ProcessEnd, HandleEvent,
         HandleEventThatWaits, WaitEnd, TimerCallback, IoCallback, HandlerPut

\* The posts: ids count them, and the loop is open while a thread is in loop_schedule.
LEMMA PutIsPost ==
  ASSUME Phases, NEW t \in Threads, SchedulePut(t)
  PROVE  Mail!Post
  BY DEF Phases, SchedulePut, loopVars, Mail!Post

\* Handling what a thread scheduled is the next Handle, handling anything else is none.
LEMMA HandleIsHandle ==
  ASSUME TypeOK, Phases, Order, [Next]_vars, Order', TypeOK', NEW frames, Handle(frames)
  PROVE  Mail!Handle \/ MailStutters
<1>1. ~closed /\ closed' = closed /\ UNCHANGED <<threadEvents, scheduled>>
  BY DEF Handle, InCode, threadVars
<1>2. lastRun' # lastRun => lastRun' = lastRun + 1
  BY OrderStep
<1>3. /\ lastRun \in Nat /\ lastRun' \in Nat /\ scheduled' \in Nat
      /\ Len(threadEvents') \in Nat
  BY DEF TypeOK
<1>4. lastRun' <= scheduled' - Len(threadEvents')
  BY <1>1 DEF Order, OrderOf, Moved
<1>5. lastRun' # lastRun => lastRun < scheduled
  BY <1>1, <1>2, <1>3, <1>4
<1>6. QED
  BY <1>1, <1>2, <1>5 DEF Mail!Handle, MailStutters

\* Every step of the loop is a step of the mailbox or none.
LEMMA MailStep ==
  ASSUME IndInv, [Next]_vars, IndInv'
  PROVE  [Mail!Next]_(Mail!mailVars)
<1>1. TypeOK /\ Phases /\ Order /\ TypeOK' /\ Order'
  BY DEF IndInv
<1>2. CASE MailStutters
  BY <1>2 DEF MailStutters, Mail!mailVars
<1>3. ASSUME NEW t \in Threads, SchedulePut(t)
      PROVE  [Mail!Next]_(Mail!mailVars)
  BY <1>1, <1>3, PutIsPost DEF Mail!Next
<1>4. ASSUME NEW frames, Handle(frames)
      PROVE  [Mail!Next]_(Mail!mailVars)
  <2>1. Mail!Handle \/ MailStutters
    BY <1>1, <1>4, HandleIsHandle
  <2>2. QED
    BY <2>1 DEF Mail!Next, MailStutters, Mail!mailVars
<1>5. CASE Close
  BY <1>5 DEF Close, InCode, threadVars, Mail!Next, Mail!Close
<1>6. QED
  BY <1>1, <1>2, <1>3, <1>4, <1>5, MailCases

\* loop_schedule, async_cb and the two queues are a mailbox: for any number of
\* threads, events and nested waits, what is scheduled is handled once, in the
\* order of the mutex and never after loop_close, and nothing is scheduled on a
\* closed loop.
THEOREM MailRefinement == Spec => ImplementsMailbox
<1>1. Init => Mail!Init
  BY DEF Init, Mail!Init
<1>2. IndInv /\ [Next]_vars /\ IndInv' => [Mail!Next]_(Mail!mailVars)
  BY MailStep
<1>3. QED
  BY <1>1, <1>2, IndInvHolds, PTL DEF Spec, ImplementsMailbox, Mail!Spec
==============================================================================

# Neovim, specified: the event core, the undo tree and the swap file

TLA+ specifications of two parts of Neovim. The first is the core that lets a
single-threaded editor talk to child processes, RPC peers, terminals and other
threads: event queues, the libuv loop around them, ring buffers, streams,
processes, jobs, msgpack-RPC channels and the thread of the terminal UI
(`src/nvim/event/`, `rbuffer.c`, `eval.c`, `msgpack_rpc/channel.c`,
`ui_bridge.c`, `tui/`). The second is what the text of a buffer rests on: the
undo tree (`undo.c`) and the tree of blocks with its swap file (`memfile.c`,
`memline.c`). TLC checks every specification on small instances; TLAPS proves
the main facts of the queues, the loop, the ring buffer, the streams, the processes,
the channels, the jobs and the UI bridge for every instance.

Contents: 1 inventory, 2 the modules, 3 the runs, 4 fairness, 5 proofs,
6 disagreements between the code and what it says of itself, 7 what is not
modelled, 8 plan.

File names below are relative to `src/nvim/` of the repository.

## 1. Inventory

### How the parts interact

    other threads --loop_schedule--> thread_events --async_cb--> fast_events
                                                                     |
    libuv callbacks (timers, reads, writes, exits, closes)           v
       |  put into the queue of their emitter                  loop->events
       v                                                             ^
    queue of a channel / job / process / timer --link node-----------+

    code of the editor:  LOOP_PROCESS_EVENTS_UNTIL(loop, queue, ms, condition)
        queue empty?  poll libuv once : process the events of that queue

There is one main thread. `loop_poll_events` runs libuv, whose callbacks must
not re-enter it; they put *events* into queues, and the code outside libuv
processes the queues. A handler may wait (`jobwait()`, `rpcrequest()`,
`system()`, `:sleep`), which polls again and handles other events inside it:
nesting, not preemption, is what makes this code concurrent. The TUI runs in a
thread of its own with a loop of its own, and other threads enter only through
`loop_schedule`.

### The components

| Component | State | Operations | Hard behaviour | What makes it correct |
|---|---|---|---|---|
| Event queues (`event/queue.c`) | lists of nodes; link nodes in the parent | put, get, process, replace parent, free | an event sits in two lists; a link names only the child queue | nodes and links mirror each other; a link yields the event it was made for; a loop sees one sequence of events |
| Event loop (`event/loop.c`) | three queues, a mutex, an async handle, `recursive` | poll, schedule, close, nested waits | wake-ups, puts from callbacks that run just before libuv blocks, waits inside handlers | never sleeps on work; scheduled events run once, in order, and in the end |
| Ring buffer (`rbuffer.c`) | memory, two pointers, size | produced, consumed, read, write, reset, cmp, get | the wrap, full against empty, callbacks at the edge | a bounded FIFO whose producer is stopped exactly while it is full |
| Streams, read side (`event/rstream.c`, `event/stream.c`) | ring, pending events, handle | start, stop, read, end of file, close | events that refer to bytes handled later; closing with events pending | bytes in order, the end once and last; the ring is freed after the last event |
| Streams, write side (`event/wstream.c`) | `curmem`, pending requests, shared buffers | write, write callback, close | failed writes, the limit of memory, close with requests pending | buffers freed once; limit kept; a close completes |
| Processes (`event/process.c`, `event/libuv_process.c`, `os/pty_process_unix.c`) | references, streams, stop requests, kill timer | spawn, stop, wait, exit, close, teardown | SIGCHLD, time-outs, an exit during a wait, a stop during a teardown, a teardown below a wait | freed once and not under a wait; a stopped process ends; the teardown ends |
| RPC channels (`msgpack_rpc/channel.c`) | references, stack of calls, queued requests, delayed notifications, subscriptions | call, notify, broadcast, parse, handle, subscribe, close | calls inside handlers inside calls; closing under them; failed writes | own answers to own calls; calls return; order of notifications; no use after free |
| Shell commands (`os/shell.c`) | a process on the C stack and its streams | `os_system`, `os_call_shell` | output that does not end in a line, input that cannot be written | the whole output is returned or shown |
| Jobs (`eval.c`) | `TerminalJobData` with its references, a queue each, a status pointer, the map of jobs | `jobstart()`, `termopen()`, `jobstop()`, `jobwait()`, callbacks | a temporary parent queue, a status pointer into a list, nested `jobwait()`, data freed by an event that puts itself back | the status of every job is told; nothing is used after it was freed; waits return |
| Timers (`event/time.c`, `eval.c`) | a libuv timer, a queue, a callback | start, stop, due, free | stopped in its own callback; due while its last event is pending | no callback after the stop; freed once |
| UI bridge and TUI (`ui_bridge.c`, `tui/`) | two loops, a mutex, `ready`, `stopped`, `key_buffer` | attach, UI calls, suspend, resume, stop, keys, changes of the size | hand-shakes of two threads, each waiting for the other at times | keys and calls in order and once; no call after the end; no wait is left |
| Server and sockets (`msgpack_rpc/server.c`, `event/socket.c`) | list of listeners | start, stop, accept | failed accepts | one listener for an address |
| User input (`os/input.c`) | input buffer, `events_enabled` | `os_inchar`, `input_enqueue`, `os_breakcheck` | events against keys, a full buffer, CursorHold | keys in order; events when enabled only |
| Signals (`os/signal.c`, `event/signal.c`) | one flag | deadly signals | a signal during an exit | swap files preserved |
| API and remote UIs (`api/`, `msgpack_rpc/helpers.c`) | handles of buffers, windows | handlers of requests | arguments of the wrong type | validated before use |
| Terminal emulator (`terminal.c`) | scrollback, refresh timer, `closed`, `destroy` | open, receive, close, destroy | its job ends before it or after it | freed once |
| Swap files and lines (`memfile.c`, `memline.c`) | blocks in memory and in the file, negative numbers and their translation, pointer tree, a locked block, the line used last | append, delete, replace, get, sync, preserve, recover | counts and numbers that are updated late, blocks evicted in the middle of an operation, a full disk | the lines are those of the text; what was preserved is recovered |
| Undo (`undo.c`) | a tree of headers with entries, the current place | save, sync, undo, redo, jumps by number, time and write | entries used again, branches, headers freed at the old end | every place in the tree has its text; `modified` is told right |
| ShaDa (`shada.c`), files (`fileio.c`), modes (`normal.c`, `edit.c`, `getchar.c`), Ex commands (`ex_docmd.c`, `ex_eval.c`), regexps, spelling, screen, windows | large sequential state | commands | data, not order | see section 7 |

## 2. The modules

Every definition that stands for code has the name of the function or field it
stands for, as far as TLA+ allows. Definitions whose comment begins with
"Mutant:" are deliberate mistakes: replacing the definition that follows by one
of them must break a property, which shows that the property depends on that
line of the code. No specification uses them.

**EmitterQueue** (abstract) is what the hierarchy of queues promises: one
sequence of events per loop, each tagged with its emitter. Processing a loop
takes the oldest event, waiting for an emitter the oldest one of that emitter.

**EventQueue** is `event/queue.c`. `items[q]` are the nodes of a queue. A child's
node and its link are the same record in two lists, told apart by the queue that
holds them; what a link returns is computed as the code does, from the head of
the child (`GetLinked`). `FreeBegin`, `FreeNode`, `FreeEnd` are the loop of
`queue_free`. `Emitters` is the refinement mapping: `pending` of a loop queue is
its list of nodes.

**Mailbox** (abstract) is what `loop_schedule` promises to other threads: what they
post is handled once and in order, and nothing is posted or handled after the loop
was closed. EventLoop implements it (`Mail`: `posted` is `scheduled`, `handled` is
`lastRun`), and so does UIBridge for the loop of the UI (`made` and `ran`).

**EventLoop** is `event/loop.c` with the macros of `event/loop.h`. It uses the
queues as `EmitterQueue` describes them. `phase` follows `loop_poll_events` and,
inside it, libuv: timers, the decision to block, callbacks, return. `stack` is
the C stack of waits and of `queue_process_events`, so handlers may wait for
queues of their own. The threads that schedule hold the mutex over three steps;
`uv_async_send` may coalesce.

**BoundedFifo** (abstract) and **RBuffer**, which is `rbuffer.c` with pointers as
offsets. `Wrapped` is the wrap, `Copied` the two `memcpy` calls, `CmpDiffers`
is `rbuffer_cmp`. `stopped` is the state that `full_cb` and `nonfull_cb` leave the
stream in.

**RStream** is `event/rstream.c` with the closing half of `event/stream.c`, on the
RBuffer that it extends. `ReadCb` and `ReadEof` are the libuv callbacks for a pipe or
a file, `DispatchBegin` and `DispatchEnd` are the two halves of `read_event`
around the read callback, which for a job may process further events of the
stream. `setup` chooses the consumer: a job (`on_job_output`), a channel or
`system()` (everything read at once), a shell command (`out_data_cb`), or none.

**ProcessLife** (abstract) is what one process is to those who wait for it and to
its owner: it runs, ends, and is gone when its handles are closed; the exit event is
put once, when it is gone and nobody waits for it any more, and the exit callback
follows. `Life(p)` in Process and `Life(j)` in Jobs are the refinement mappings. In
Process a life is what the references, the handles and the queued events amount to;
in Jobs it is the variable `phase`.

**Process** is `event/process.c` with `event/libuv_process.c` and the exit handling
of `os/pty_process_unix.c`. A child process, the signals sent to it and SIGCHLD
are environment. `waiting` is a `process_wait` under way, `events` the process
events queued, `stoppedTime` the age of a stop in steps of the two time-outs. When
the result of a wait is known (`WaitExited`), it only processes its queue until the
exit event is gone (`WaitReturn`), and libuv does not run meanwhile (`Polls`), as at
the end of `process_wait`.
`Teardown` is `process_teardown`. It may come below a `process_wait`, from the handler of a
deadly signal or from `:qall` in a callback; that wait then keeps its reference and
never goes on (`WaitPolls`). `Focus` says whose events are processed: those of the process
waited for, or those of all. `setup` chooses the kinds of the processes and
what may be done with them.

**Channel** is `msgpack_rpc/channel.c`. `ch[c]` holds the fields of a channel,
`stack` the calls and handlers on the C stack over all channels, the innermost last,
`parser` the
channel whose `parse_msgpack` runs. `CallBegin` and `CallReturn` are the halves of
`channel_send_call` around its wait. Messages are tagged with their kind, and a
response with the id it answers, right or wrong. A write is counted against
`MaxMem` and fails above it.

**Jobs** is the part of `eval.c` behind `jobstart()`, `termopen()`, `jobstop()` and
`jobwait()`, with the part of `terminal.c` that holds a job's data. `stack` is the
C stack of calls of `jobwait()`, of queues being processed and of the user's
callbacks; `jobwait()` is a frame with a program counter, one action per loop of
`f_jobwait`: `Enter` (the queues get a temporary parent), `WaitBegin` to `Waited`
(`process_wait` per job), `Clear` (the status pointers), `Restore` (the parents).
`broke` is how its loop ended: not early, at a time-out, by an interrupt, or by an
interrupt whose -2 was written through freed data (`StatusWritten`, "lost").
`mem` says whether the `TerminalJobData` is live, waits to be freed, or was
freed. A process is reduced to a phase, those who wait for it to a number: that both
modules implement ProcessLife is what connects the two.

**UIBridge** is `ui_bridge.c` with `tui/tui.c` and `tui/input.c`: two threads with a
loop each. `mpc` and `upc` are the program counters of the main thread and of the
thread of the UI; `mainq` and `uiq` what each has scheduled on the other's loop.
`SuspendCall`, `SuspendWait`, `SuspendReturn` are `ui_bridge_suspend` around its
condition, `Stop`, `Stopped`, `Joined` are `ui_bridge_stop`, and `FlushBegin` to
`Flushed` is `flush_input`, which hands `key_buffer` to the main thread. The
terminal, the user and the shell are environment.

**Undo** is `undo.c` for one buffer. `buf` holds the fields of `buf_T` that it uses;
`heads` maps `uh_seq` to headers, with their entries and their four pointers.
Pure operators transform `buf`: `Saved` (`u_savecommon`, with the reuse of entries
and the trimming by 'undolevels'), `UndoRedo`, `Undone`, `Redone`, and `Timed`
(`undo_time`: `Search`, `GoUp`, `GoDown` with `BranchOff`). `before` and `after`
remember the texts around each change; they are for the properties.

**Memfile** and **Memline** are `memfile.c` and `memline.c` for one buffer. A memfile
is a record: the blocks in memory, the list `used`, which of them are dirty or
locked, the free numbers, the translation of negative numbers, and `disk`, the
swap file. Memline adds the line count, the stack of pointer blocks, the locked
block with its pending count (`lineadd`), and the line used last. Operators carry
the names of the functions: `FindLine`, `AppendInt`, `DeleteFound`, `FlushLine`,
`PreserveAll`, `SyncAllOf`. `Recover` is what `ml_recover` makes of a swap file and
the original file. Lines are identities with a size, so that blocks fill, split,
and grow the tree with few of them.

The compositions: RStream contains RBuffer, Memline contains Memfile; EventLoop
stands on EmitterQueue, which EventQueue implements; RStream, Process, Channel and
Jobs have their event queues as sequences in the order EmitterQueue promises, and
UIBridge its two loops as Mailbox describes them, which EventLoop implements; Process
and Jobs meet in ProcessLife; Channel and Jobs have streams
and processes reduced to what they can observe of them (writes under way, end of
file, close callback, exit).

**EventQueueProofs**, **EventLoopProofs**, **RStreamProofs** (with those of RBuffer),
**ProcessProofs**, **ChannelProofs**, **JobsProofs** and **UIBridgeProofs** hold the theorems
of section 5, **SequenceLemmas** the facts about sequences that they share.

The MC modules give the constants their values where a configuration file cannot.

## 3. The runs

| Run | Question | Bounds and why they are enough |
|---|---|---|
| `queue` | Do nodes and links mirror each other, does a loop see one sequence (refinement), is every event taken? | Two loop queues and two emitters, the main loop and `waiting_jobs` of `jobwait()`; three events: the least that allow two links of one child with another's between them, and a reparenting in between |
| `loop` | Sleeping on work, lost wake-ups, order, liveness of scheduled events; is it a mailbox (refinement)? | Two threads with two scheduled events in all and two put by callbacks or handlers; nesting of five frames, that is a wait in a handler of a wait |
| `rbuffer` | Is it a bounded FIFO (refinement), are callbacks and `rbuffer_cmp` right at the wrap? | Three bytes of capacity and two values: every pair of pointers, full and empty, chunks before and after the wrap, requests larger than the buffer |
| `rstream` | Order and completeness for every consumer, end of file, counts, closing at any time | Five bytes through a ring of three, so that every stream wraps, fills and is restarted; six setups |
| `process` | References, the exit callback, the kill timer, the liveness of a stop and of the teardown; the life of each process (refinement) | Two processes with two streams each in five setups: a pty beside a libuv process, stops also after the exit and streams closed early; waits with and without a time for either; the exit of nvim at any time, also below a wait, with a pty and with a detached process. A second process is what shares the timer and the count of stops |
| `channel` | References, frames, own answers, order of notifications, the return of calls | Two channels, socket beside stdio and process beside socket; three calls nested over them, two messages of every kind (but `unsubscribe`, which is handled as `subscribe` is), two notifications, by one channel or by a broadcast, so that one may wait behind the other; a write fails while another is under way (`MaxMem` 1) |
| `jobs` | Live data, status pointers and parents; the last callback; what `jobwait()` tells; the life of each process (refinement); does a wait with a time, or one that was interrupted, return although callbacks under it wait? | Two jobs, the second a job or a terminal; the lists `[a]`, `[b]` and `[b, a]`; two calls of `jobwait()` under way, so that a callback of the one waits for the other job, with four frames when the user makes one more call; one chunk of output each, so that a callback can run before the exit |
| `jobs_dangling` | Is a status pointer removed before its list is freed? (violated, section 6) | as `jobs`, with callbacks that stop jobs that are waited for |
| `ui_bridge` | Keys and calls in order, nothing after the end; is the loop of the UI a mailbox (refinement); do the waits of the two threads end? | Buffers of two keys, four keys, so that both fill and are handed over in pieces, and come at any time, while the editor suspends and stops too; two suspensions, the stop, and other calls before, between and after them up to four; one change of the size, not while the editor suspends or stops (`Careful`, section 6) |
| `undo` | Shape of the tree, text at each place, `modified`, jumps | Three edits of every form (whole lines, one line, insert, delete), which is what entries used again with lines added between need; four edits of one line with jumps, and with one or two writes: two branches with a branch on them; 'undolevels' 2 makes the third header free the first |
| `memline` | Text, counts, blocks and recovery | A file of five short lines in two blocks and one of three long lines in three; blocks of three sizes, pointer blocks of two entries, so that one line splits a block, the second one the root. Plans: three changes with four blocks in memory, which evicts in the middle of a split; changes with an update of the swap file; looks at lines between two updates; one change with a full disk and a file that others change |
| `swap_exit` | Is a change in the swap file after the exit by a deadly signal? (violated, section 6) | as `memline` |

Every counter that the code does not bound has a bound that is a constant of the
module and is only used in guards: `MaxEvents`, `MaxScheduled`, `MaxOther`,
`MaxDepth`, `MaxBytes`, `MaxCalls`, `MaxMessages`, `MaxNotes`, `MaxOutput`,
`MaxWaits`, `MaxKeys`, `MaxWinch`, `MaxSuspends`, `MaxLines`, `MaxNew`, and the
bounds in the plans of Undo and Memline. `Capacity`, `MaxMem`, `InputSize`,
`KeyBufferSize`, `DataSize`, `PtrMax` and `usedMax` are limits of the program
itself, made small. (`mf_used_count_max` is at least ten in the program, but
`mf_release` also gives up a block whenever the blocks of all buffers exceed
'maxmemtot', so that a buffer with four blocks loses them too.)

What the properties say is in the comment above each of them. The ones with most
behind them: `ImplementsEmitters` (the queue refinement), `ImplementsLife` (the same
life of a process in Process and in Jobs), `NoLostWakeUp` and
`ScheduledEventuallyRuns`, `CountsAreExact` (the counts in queued events always
add up to what the ring holds, which is why a job may consume by count),
`RefcountIsExact`, `KillTimerIsArmed`, `RefsAreExact`, `FramesAreOnTheStack`,
`CallsReturn`, `PointersAreLive`, `JobWaitTells`, `WaitsReturn`, `WaitsEnd`,
`TextIsOfPosition`, `JumpsArrive`, `TextIsKept`, `TreeIsCounted` and `SwapIsRecovered`.

Four liveness properties name their exceptions, each a state of the program that the code
lets last for ever, and none a restriction of what may happen. `StopEndsInExit`: nobody
handles the events of the process, because someone waits without a time for another or nvim
exits below a wait for it (`Neglected`); and, of the teardown, a wait below it or a pty that
is not known to have exited (`PtyOutlives`). `CallsReturn`: nothing will be read any more
for the call (`Orphaned`). `WaitsReturn`: a callback above the wait waits without a time
(`Blocked`). `WaitsEnd`: the two threads wait for each other (`EachWaitsForTheOther`), or an
editor that stops has no room for a key (`NoRoom`). Section 6 tells of those in which the
code breaks its word.

Three more properties are stated and proved but not run. `LinkReturnsItsNode` follows
from `LinksMirrorChildren` (`LinkedHead`, section 5) and `ScheduledInOrder` from
`ImplementsMailbox`, which handles one post at a time; `PointersAgree` is part of the
invariant from which `ImplementsFifo` is proved.

Deadlock is not checked where the system may really stop: when all bytes were
read, all processes ended, or a bound is reached.

## 4. Fairness

- **EventQueue**: strong fairness of taking from each loop queue, because its
  owner processes it again and again between other calls (the main loop, or
  `jobwait()` for its own queue); weak fairness of the loop in `queue_free`.
- **EventLoop**: weak fairness of the loop thread, except for the end of a nested
  wait, which may never come, and of a thread that has the mutex. Callbacks for
  input from outside are not fair: nothing has to arrive. `Close` finds all threads idle:
  `loop_close` does not wait for them, its callers have joined them.
- **RStream**: libuv reports what is readable, handlers return, the peer writes
  what it has. Hanging up and closing need not happen.
- **Process**: time passes, the kill timer fires, a child that got SIGKILL exits,
  SIGCHLD is delivered, a wait that is over returns. Strong fairness of handling
  the queued events, since every wait processes its queue at least once. A child
  need not exit by itself.
- **Channel**: polls begin and end, handlers and callbacks return, and a peer
  hangs up some day. Strong fairness of reading that end, since each poll may
  read another channel first. No peer has to answer.
- **Jobs**: the main thread goes on: handlers, callbacks and the steps of
  `jobwait()` come to their end; a process that was stopped exits (what Process
  shows). Strong fairness of the end of a callback, at each depth: a callback may wait
  again and again, but not for ever. Nothing is assumed of the user, nor of jobs that run
  on. `WaitsReturn` is about a `jobwait()` with a time or with an interrupt.
- **UIBridge**: both threads run, and the user brings a suspended editor back to
  the foreground. Nothing is assumed of when keys come. Strong fairness of
  reading keys: the editor comes back to `os_inchar` between suspensions.
- **Undo**, **Memline**: none; every command is one call.

## 5. Proofs

Checked by TLAPS, from the named assumptions on the constants: `QueuesAssumption`
(loop queues and emitters are distinct, `NoQueue` is neither), `LoopAssumption`
(the thread of the loop is none of those that schedule, the bounds are numbers),
`ProcessAssumption` (finitely many processes, "none" is not one, the setups are of their
form), `RBufferAssumption` (the capacity is positive), `RStreamAssumption` (so is the number
of bytes that a peer writes, which are bytes, and the setups are of their form),
`ChannelAssumption` (`NoChannel` is no channel, the types and
what a peer may send are of their form, the bounds are numbers) and `JobsAssumption`
(the lists of `jobwait()` are sequences of jobs, the bounds are numbers, `NULL` is
none). The theorems hold for every value of the constants: any number of queues,
threads, events, nested waits, processes, channels, jobs and nested calls, any capacity.

**Queues** (`EventQueueProofs`). `TypeCorrect`, `LinksMirror`, `LinkYieldsItsNode`,
`Refinement`. The inductive invariant `IndInv` adds to types and
`LinksMirrorChildren`:

- `Wiring`: a child in use has an allocated parent which is not being freed, and
  queues that are not allocated are empty. Without it, allocating a queue could
  find old nodes, and freeing a parent could orphan links.
- `IdsBelowNext`: the next event is younger than all. Without it an appended node
  need not keep the order of arrival.

The key step is `LinkedHead`: lists in order of arrival with the same nodes of a
child have the same oldest node, hence the head of a child is the node of the first
link that points to it. `TakingKeepsInvariant` then serves every way of taking a
node, by an emitter, through a link, or by freeing. `Refinement` maps each step to
one of EmitterQueue or to a stutter, with `LinkOfHeadIsOldest` for the events taken
through an emitter.

**Loop** (`EventLoopProofs`). `TypeCorrect`, `NeverSleepsOnWork`, `NoLost`, `InOrder`,
`MailRefinement`.
`NeverSleepsOnItsQueue` alone is not inductive: that the queue was empty when libuv
decided to block says nothing of what timers put before that. `IndInv` adds:

- `Frames`: a `queue_process_events` on `fast_events` is on top of the stack or
  nowhere, since no handler of a fast event waits, and polls start from a wait.
- `Quiet`: while `uv_stop` was not called, what the poll may block on is empty, in
  each phase. A callback that puts something there calls it (`StopAfterPut`); events
  from other threads reach `fast_events` only by `async_cb`, whose putting into
  `fast_events` calls it, too.
- `Order`: the scheduled events that were not handled are, in order and with no gap,
  those in `loop->events` and then those in `thread_events`.

`MailRefinement` is `ImplementsMailbox`. `SchedulePut` is the post, whose loop is open
because `loop_close` waits for the threads (`Phases`); the handler of a scheduled event
is the handling of the next one, which was posted before (`Order` after the step); and
`loop_close` is the end. The lock, the async handle, the move between the queues, polls
and nested waits are invisible (`MailCases`).

**Processes** (`ProcessProofs`). `TypeCorrect`, `RefcountExact`, `ClosedOnce`, `Freed`,
`KillTimer`, `LifeRefinement`. `IndInv` adds to exact references (`Refs`):

- `Born`: nothing is known of a process before it is spawned, so that a slot that was
  not used has no event and no reference.
- `ExitEvents`: an exit event is the last one of its process, whose references are
  gone and whose callback was not called. This makes the callback run once and last.
- `Closes`: the handle is closed only after the exit was noticed or the process was
  let go at the exit of nvim, the exit is noticed of a child that is reaped, and a
  close event that is queued finds the handle open. `Sigchld` keeps it because it
  reaps zombies only: no exit is noticed twice.
- `Kills`: `children_stop_requests` is at least the number of processes that were asked
  to stop and whose exit was not noticed (it may be larger, section 6), and the timer
  runs while there is one. The count goes down by those that were asked only.
- `Waits`: nothing is left of a wait that returned. A wait may still hold its reference
  while nvim exits below it.

`LifeRefinement` is `ImplementsLife`, and that each process satisfies `ProcessLife!Spec`.
A process is gone in the sense of ProcessLife when the only references are those of
waits, so the step that gives up the last reference of a stream or of the handle
(`ReleasedLife`) is the one that closes it, and puts the exit event unless there is
a wait. That it had ended before is `GoneHasEnded`: a handle is not closed otherwise
(`Closes`). A wait that gives up leaves another reference behind, because `process_wait`
looks at the references at that moment. Every other step, of this process or of
another, changes none of the four values; for the exit event this is `ExitEvents`: an
event that is put or handled is not another one's.

**Ring buffer** (`RStreamProofs`). `RingTypeCorrect`, `RingPointers`, `RingCallbacks`,
`RingRefinement`: theorems of `RBufferSpec`, for every capacity and every set of bytes.
`RBufferInv` adds `ContentWritten` (memory
between the pointers was written) to types, `PointersAgree` and `StoppedIffFull`. The
refinement computes the content after each copy with one chunk or two. `RingCmpExact` is
`CmpIsByteWise`: `rbuffer_cmp` gives the comparison of the bytes in order. What it
compares with one `memcmp` or two is what `rbuffer_get` gives before and after the wrap
(`RingInPieces`), and two strings differ first in one of the two pieces (`PieceDiffers`).

**Streams** (`RStreamProofs`). `TypeCorrect`, `InOrder`, `EndIsReal`, `FreedAfterLast`,
`CountsExact`, for
every capacity, every amount of bytes and every choice of streams. What they take from
the ring are the lemmas above (`RingGrows`, `RingShrinks`, `RingFront`). `IndInv` adds:

- `Bytes`: the ring holds the bytes from `fpos - size` on. A consumer that reads from
  the ring, all of it or complete lines before the wrap, takes what comes next.
- `Order`: a job goes by the counts in its events instead. There are cuts of the stream,
  one per pending event, each `count` behind the one before, the first where the bytes
  that were consumed or are being consumed end; and the ring has each stretch in one
  piece, on either side of the wrap (`InOnePiece`). That survives the consumption of
  what is before it, with the read pointer wrapping or not, and is why the job may
  be given `count` bytes from the read pointer on.
- `Ends`: a stream that reads is not full, so a file is read into at least one byte and
  nothing read is the end; once the end is announced, the stream neither reads nor waits
  to be restarted.
- `Handles`: the handle of a closed stream is open as long as requests are pending.

`CountsExact` is `CountsAreExact`, an invariant that needs nothing but types and itself
(`Counted`). What it takes is how a sum over the pending events changes when one is
appended or taken (`TotalPushed`, `CountsGrow`, `CountsShrink`): the recursive function in
`Total` is shown to exist and to be unique by its partial sums (`SumsExist`,
`SumsAgree`), each by the smallest number at which it would fail.

**Channels** (`ChannelProofs`). `TypeCorrect`, `RefsExact`, `FramesMatch`, `AnswersOwn`,
`Notes`, for any channels of any types, whatever the peers send and however deep calls
and handlers nest. The properties are not inductive one by one: a call finds its frame
because the two stacks agree, and a reference is given back once because a handler that
ends is on the C stack. `IndInv` has, for each channel:

- `Sound`, of its fields alone. `Linked`: a socket that is not closed can be written, and
  the input of a process is not closed before its output, so that a stream gives its
  reference back once. `Answered`: what `AnswersOwnRequest` says. `Told`: after the end of
  the input the channel is closed and all its calls returned; since no call begins on a
  closed channel that stays so. `InTurn`: the notifications written and then those
  delayed are 1, 2, 3, ... up to the last one asked for, unless the channel is closed.
  `HeldBack`: without a call nothing is delayed.
- `Slack`: the references that the fields do not explain are one for each frame on the C
  stack and one for the parser. It is stated as a difference, so that each static
  function has one effect on it (`Effect`: none, one more or one less), whatever else it
  does: `Closed` gives up the reference of the maker and changes no slack.
- `Matches`: the frames of a channel are, in order, its calls on the C stack. The lemmas on
  `Grown` say what one more frame does to the places a channel holds, how many there are
  and how deep each is, for the channel of the frame and for all the others.

What is proved of the references ends with `over = "exit"`, where the program is left
without giving them back; it holds when an `assert` or `abort()` of the code ends it.
Each function of `channel.c` has a lemma on what it makes of the fields (`ClosedFacts`,
`WrittenFacts`, `FlushedFacts`, ...), each action one on the whole state. `Notes` also
needs that no step writes a notification while a call of its channel waits (`SentKept`),
which is proved with the steps.

**Jobs** (`JobsProofs`). `TypeCorrect`, `RefsExact`, `ExitLast`, `LifeRefinement`,
`PointersLive`, `WaitTells`, for
any jobs, terminals, lists and depths, the first four also when callbacks stop or wait for
what they like. The
properties speak of the data, of a queue and of the calls under way at once, and a
handler is two steps with any number of others between them. `DataInv` has

- `Sound`, which relates numbers: the references, the phase of the process, and how often
  each event of the job is in its queue or under way. A close event is there while the
  exit was noticed and the handles are open; the exit event or its callback while the
  process is gone, nobody is in `process_wait` for it, and the job is in the map; a
  delayed free while the terminal closes. What is queued or counted is of a job that
  is in the map or a terminal that is open, so its data is live. An action changes a few
  of the numbers, and `Sound` of the new ones is arithmetic.
- `StackSound`: who may call whom (`MayCall`). A drain of one job's queue calls callbacks of
  that job only, and a `jobwait()` that enters or leaves a job drains that job. This is why
  the data that a frame goes on with after its callee returned was not freed
  (`Uses`, `DrainedIsNotFreed`, `EnteredIsNotFreed`).

`LifeRefinement` is `ImplementsLife` of Jobs: the steps that change the phase, the waiters
or the exit event of a job are `JobStart`, `Exit`, `Closed`, the three of `process_wait`, and
`HandleExit`, each a step of its process's life and no step of another's. That there is
one exit event at most, which is there exactly when the process is gone, nobody waits
and the callback has not begun, comes from `Sound` (`ExitFacts`). With the theorem of the
same name in ProcessProofs it says that `phase` stands for what `process.c` does.

`PointersLive` needs `LinkInv` as well, when `Careful` is true: a status pointer is to an
element of the list of a `jobwait()` that has not come to `Restore`, at a place of that
very job, and the job was not stopped; so `Clear`, which finds the jobs that were not
stopped, finds it. A parent queue is that of a `jobwait()` which has the job in its list
and has not restored it. The lemmas on `Kept` and `Replaced` reduce each action to what it
does to the calls of `jobwait()`: one more, the innermost one goes on or returns, or none
changes but for a result that is filled in. Without `Careful` the status pointers dangle (section 6).

`WaitTells` (`JobWaitTells`, when `Careful` is true) is about what was written to the list while
callbacks ran and returned. `TellsInv` says, for each place of each list of a `jobwait()`
under way (`Tells`):

- a -2 is there only when the loop is over and the wait was interrupted;
- a -3 is that of a job that is not found, and that the wait does not come to;
- as long as the pointers are not removed (`Open`), any other place has the status pointer
  of its job, and its parent queue if the wait has moved it;
- a -1 is that of a job that is found and whose exit callback was not called: `HandleExit`
  writes the status before it calls the callback, and through the pointer above, so to
  this place;
- a -1 behind the loop (`DoneUpTo`) is there only while the drain of that job's queue, which
  its `process_wait` called, goes on with the exit event in it. When that drain ends
  (`DrainEndTells`) the queue is empty, so the exit event was handled: there is no such -1.

It needs that a job is in the list of one `jobwait()` at most, once, and that no callback of
the job is among the callers (`Apart`), which the guard of a careful `JobWait` gives. Each step
of a `jobwait()` changes the innermost list only (`TopTells`), and the steps of handlers change
no list, or one place of one (`HandleExitTells`, `InterruptedTells`).

That an interrupted `jobwait()` without a time says -2 of exactly one job is `SaysInv`
(`SaysInductive`), one layer more. `broke` is "interrupted" only from the interrupt on
(`Says`), `Waited` writes the -2 at the place of its job in a list that has none by
`TellsInv` (`WaitedSays`), and then no exit of a job writes to that list any more, since a
status pointer is to an open one by `LinkInv` (`HandleExitSays`). The theorem leaves out the -2
that was lost, as it may be (section 6).

**UI bridge** (`UIBridgeProofs`). `TypeCorrect`, `KeysArrive`, and, when `Careful` is true,
`CallsArrive` and the refinement that is part of it, `MailRefinement`, for every size of the
two buffers, every boundary of `flush_input` and every number of keys, calls and
suspensions. The keys need

- `Handing`: from the event of `flush_input` to the end of its wait there is one event,
  or the main thread has taken keys and not consumed them, and not both; at any other
  time neither. So `key_buffer` grows only while nothing is half taken from it.
- `Forwarding`: `read_cb` and the polls find that all keys of the last read were
  forwarded, and one read at most is pending.
- `AllKeys`: the buffers one behind the other hold all keys. Each action moves keys from
  the front of one to the end of the one before, which concatenation does not see.

The calls need

- `Numbered`: those on their way have the numbers from the last handled to the last made,
  without a gap, first in `fast_events` and then in the queue of the other thread.
- `Suspension`: a suspension that was not resumed is the last call made, and the main
  thread is held (`Held`) from the call to the signal. This is what the mutex and
  `ready = false` of `ui_bridge_suspend` are for; with it no call can be handled between
  `tui_suspend` and the end of `suspend_event`.
- `Stops`: a stop is the last call made, for ever; the only handler of the main thread
  that would still call, `refresh_event`, has no event any more (`NoWinch`).

`MailRefinement` follows from these: a call that is handled is the next one of those made
(`Numbered`), and none is made when the loop of the UI is closed (`Stops`, `MadeFree`), also
by the `ui_flush` of `mch_exit`, since the UI is detached before.

Without `Careful` `CallsReachTheTerminal` does not hold: a change of the size that arrives during
`ui_bridge_stop` is resized after the stop, see section 6.

**Lemmas on sequences** (`SequenceLemmas`): what `RemoveAt`, `Append`, `Front`, `SetToSeq`
and concatenation leave in place and move, that a set of positions has a first and a
last one, partial sums, and where two sequences differ that are cut in pieces.

**Model-checked only.** Liveness everywhere, since fairness and ENABLED are beyond the
prover; and Undo, Memfile and Memline, whose operators are recursive over trees and lists,
where a proof needs induction over data.

## 6. Where the code disagrees with what it says

With a run that TLC ends with a behaviour violating one property:

1. `jobs_dangling`: `f_jobwait` resets the status pointers of the jobs that
   `find_job` finds (`eval.c:11904`), which are those not stopped. A callback that
   stops a job during the wait leaves a pointer into a list that may be freed;
   the exit of the job writes through it. The comment at `eval.c:11908` says
   that the pointer is removed because of that.
2. `swap_exit`: `ml_sync_all` flushes the locked block (`memline.c:1601`), which gives
   it a positive number. The entry in the pointer block is translated only when
   the block is next searched for, so the swap file has the old negative entry,
   and recovery reads the lines of the original file there: the last change is
   lost. `misc1.c:2642` says of this call: "preserve all swap files".

Seen while modelling, without a run of their own; the properties name them as exceptions or
are stated so that they do not depend on them. In the event core:

- The teardown ends when no process has a reference left (`event/process.c:135`). If nvim
  exits below a `process_wait`, which is what a deadly signal or `:qall` in a callback do,
  the reference of that wait is left when all children have exited, and nvim does not exit;
  the comment is "Wait until all children exit". `StopEndsInExit` leaves out a teardown
  below a wait, and no other of libuv processes.
- `process_wait` with a time returns -1, a time-out, for an interrupted process that has not
  exited yet (`event/process.c:220`); `event/process.c:170` and the help of `jobwait()`
  promise -2. `JobWaitTells` asks for the -2 of waits without a time.
- The -2 is written through `data->status_ptr` (`eval.c:11888`) after `process_wait` has
  called the exit callback. If another callback of the same list polls the loop, the data
  has been freed; `eval.c:21899` says that it may still be used after `process_wait`.
  `JobWaitTells` leaves out that case (`broke` is "lost").
- `ui_bridge_suspend` waits on a condition without polling the main loop
  (`ui_bridge.c:338`). When the UI thread has read keys meanwhile, `flush_input` schedules
  `wait_input_enqueue` on the main loop and waits for it, before it comes to the suspension:
  neither thread goes on, although `ui_bridge.c:337` means to wait for CONTINUE only.
  `WaitsEnd` says that this (`EachWaitsForTheOther`) and `NoRoom` (below) are the only waits
  that last.

- `out_data_cb` (`os/shell.c:317`) looks at one contiguous piece of the ring: at
  the end of the output, bytes after the wrap are not shown; `rbuffer.c:115` says
  the function has to be called twice. Output that nobody asked for is never
  consumed (`os/shell.c:201`): a command that writes more than the ring and the
  pipe hold blocks. `EverythingIsShown` is stated for the consumers that read.
- `chld_handler` (`os/pty_process_unix.c:225`) reaps one child per SIGCHLD: of two
  pty children that exit together one stays unnoticed, and the teardown neither stops
  nor kills a pty (`event/process.c:127`): one that ignores SIGHUP is waited for until it
  exits. `StopEndsInExit` is stated for libuv processes, and for a teardown that no pty
  outlives (`PtyOutlives`).
- A stop after the exit was noticed leaves the kill timer running
  (`event/process.c:251`); `KillTimerIsArmed` states the other direction.
  SIGKILL goes to the pid of every stopped process in the list, also of those
  that were reaped and not closed (`event/process.c:279`).
- When the write of a request fails, the channel is closed before the frame of the
  call is pushed (`msgpack_rpc/channel.c:218`): the error never reaches that call. Nor does
  any end reach a call whose process exits, or whose channel is closed by
  `channel_close()` or a failed write of a nested handler, before its reader saw the end of
  the file: the reader is closed and `parse_msgpack` not called any more. `Orphaned`, which
  `CallsReturn` leaves out, is all of these. A subscription handled after its channel was closed
  reaches the `abort()` of `channel_subscribe` (`msgpack_rpc/channel.c:269`);
  the model ends there (`over`).
- A job callback that waits is given, inside the wait, the bytes it is just
  handling (`eval.c:21976`); `ShownInOrder` is stated for callbacks that do not wait.
- `jobwait()` for a job in its own `on_stdout` callback never returns, and in its
  exit callback tells -1; nested calls for the same job lose its status and its
  parent queue (`eval.c:11922`); a job that is in the list twice leaves -1 in the
  first place. A terminal whose job exits during `jobwait()` keeps the queue
  `waiting_jobs`, which is freed, as a parent. `term_delayed_free` puts itself back
  as long as a read event is under way: inside a callback of that job the loop
  spins (`Spinning` in `WaitsReturn`). `Careful` leaves out callbacks that stop or
  wait for jobs of a running wait. Wiping the buffer of an exited terminal leaks it.
- A full `input_buffer` at the exit makes `ui_bridge_stop` wait for ever (`NoRoom`), a
  `refresh_event` in its poll calls a UI that was stopped, and a SIGWINCH queued
  behind the suspension uses a closed output handle. `Careful`, in UIBridge, is an
  environment in which no change of the size is on its way then (`NoWinch`); keys come when
  they like.

In the undo tree: `:undojoin | redo` applies the joined header again; an interrupted
`u_savecommon` (`undo.c:580`) leaves `uh_getbot_entry` behind; a write between
`:undojoin` and the next change is stored as the write of the earlier header.

In the lines and the swap file:

- When a new block goes in front of a full one that is still negative,
  `lnum_right` is zero and the entry of the full one is left with the
  `pe_old_lnum` of another entry or none (`memline.c:2124`), though `memline.c:93`
  says "lnum for this block (for recovery)". `SwapIsRecovered` is stated for
  entries that know their lines (`OldLnumIsRight`).
- A crash inside `mf_sync`, between blocks whose numbers were used again, leaves
  a file in which a pointer block may lead back to itself; `ml_recover` has no
  limit of depth. `mf_write` fills gaps with the data of another block.
- `ml_setmarked` (`memline.c:2516`) calls `ml_find_line` without
  `ml_flush_line` before it, as do `ml_firstmarked` and `ml_clearmarked`
  (`memline.c:2547`, `memline.c:2587`): the line used last may then point into a
  block that is no longer locked, and a later `ml_get_buf` that will change it
  marks the block as dirty that is.

## 7. What is not modelled, and why

- **Not exercised by the runs**: the limit of ten entries that `u_savecommon` looks back
  (`undo.c:495`; the plans make fewer) and a negative 'undolevels'. `SwapIsRecovered` and
  `ExitIsRecovered` judge a recovery by the original file as it was first read, so what
  `ml_sync_all` does about a file that was changed since (`memline.c:1602` to 1616) is in the
  model but not tested by them. In `TwoEntries` the `pe_old_lnum` of an unused entry is zero,
  where the code leaves what was there (`memline.c:2177`): `OldLnumIsRight` leaves such
  entries out.
- **A deadly signal in the event loop**: its handler polls the main loop from `fast_events`,
  only to exit; EventLoop leaves it out, Process has that exit (`Teardown`).
- **Inside modelled files**: failures of allocation; logging; malformed msgpack; the
  interned event names and `channel_teardown` of channels; the environment and
  descriptors of a forked child; the set-up of a shell command (`do_os_system`);
  the undo file, the U command, times in seconds and 'undolevels' 0; the names of
  swap files, the dialog about an existing one, `:set noswapfile`, encryption, marks
  of `:global`, byte offsets, blocks of several pages, a crash between two writes of
  `mf_sync`.
- **Timers, server, write streams**: thin layers over what is modelled; their state
  is a flag and a list. Channel has the write stream as it observes it.
- **Signals, API dispatch, the screen of the terminal emulator**: almost no state of
  their own in the event core; handlers are opaque steps of Channel and EventLoop.
- **The editor proper** (modes, Ex commands, Vim script, windows, screen, syntax,
  ShaDa, files, regular expressions, spelling): sequential code dominated by data.
  Most lines of the repository are there; the modules cover the parts where order,
  failure and sharing decide.
- **libuv, msgpack, libvterm, the operating system**: external; modelled by what
  this code observes of them.
- **Liveness of lines and undo**: every command ends because it is a call without
  waiting.

## 8. Plan

Done: EmitterQueue, EventQueue and its proofs; Mailbox, EventLoop and its proofs; BoundedFifo,
RBuffer and its proofs; RStream and its proofs; ProcessLife, Process and its proofs; UIBridge and its proofs;
Channel and its proofs; Jobs and its proofs; Undo; Memfile and Memline.

Next, in order of importance:

1. Proofs: Undo and Memline, which need recursive functions in place of their recursive
   operators first.
2. **WStream** (`event/wstream.c`): shared buffers, `curmem`, `write_cb`, closing; then
   Channel's writer is an abstraction of it.
3. **Shell**: `do_os_system` as the composition of Process, RStream and WStream.
4. A crash at any write of `mf_sync`, with the gaps that `mf_write` fills.
5. **Timer** (`event/time.c`, `eval.c`) and `channel_teardown`.

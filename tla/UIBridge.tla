------------------------------- MODULE UIBridge -------------------------------
(***************************************************************************)
(* ui_bridge.c, tui/tui.c and tui/input.c: the main thread and the thread  *)
(* of the terminal UI.  The main thread schedules UI calls on the loop of  *)
(* the other and waits for it when it attaches, suspends and stops; the    *)
(* UI thread schedules the keys it read and the changes of the size on the *)
(* main loop, and waits for the keys to be taken.                          *)
(*                                                                         *)
(* The loops are taken as Mailbox describes them (EventLoop implements     *)
(* it): loop_schedule is one step, and what is scheduled is handled once   *)
(* and in order.  `fast` is the fast_events of the loop of the UI.         *)
(***************************************************************************)
EXTENDS Integers, Sequences, SequencesExt

CONSTANTS InputSize,     \* keys that input_buffer of os/input.c holds
          KeyBufferSize, \* keys that key_buffer of the UI holds
          DrainBoundary, \* keys that flush_input may leave in it
          Careful,       \* see NoWinch
          MaxCalls,      \* bound: UI calls that the main thread makes on its own
          MaxKeys,       \* bound: keys typed
          MaxWinch,      \* bound: changes of the size
          MaxSuspends    \* bound: suspensions

ASSUME BridgeAssumption ==
  /\ {InputSize, KeyBufferSize} \subseteq Nat \ {0}
  /\ DrainBoundary \in 0 .. KeyBufferSize - 1
  /\ Careful \in BOOLEAN
  /\ {MaxCalls, MaxKeys, MaxWinch, MaxSuspends} \subseteq Nat

VARIABLES
  \* the main thread
  mpc,         \* "attach", "run", "suspend" (holds the mutex), "suspended",
               \* "stop" (ui_bridge_stop polls), "join", "exit"
  taking,      \* wait_input_enqueue has taken so many keys, or -1
  attached,    \* ui_count
  mainq,       \* the events scheduled on main_loop: "keys", "refresh"
  input,       \* input_buffer
  typedIn,     \* the keys that the editor has read from it
  made,        \* how many UI calls were scheduled
  \* the bridge
  mutex,       \* the holder of bridge->mutex: "none", "main"
  ready,       \* bridge->ready
  stopped,     \* bridge->stopped
  \* the UI thread
  upc,         \* "start", "poll", "write" (the keys of a read), "flush",
               \* "lock" (flush_input holds the mutex), "wait", "closing", "gone"
  suspended,   \* suspend_event is on the stack
  contReceived,\* data->cont_received
  stop,        \* data->stop
  up,          \* between tui_terminal_start and tui_terminal_stop
  uiq,         \* the calls scheduled on the loop of the UI
  fast,        \* its fast_events
  todo,        \* the keys that read_cb has not forwarded yet
  keyBuffer,   \* input->key_buffer
  waiting,     \* input->waiting
  untilEmpty,  \* the argument of flush_input
  ran,         \* the last UI call that was handled
  \* the world
  tty,         \* keys that were typed and not read
  typed,       \* how many were typed
  winch,       \* signals not handled by libuv yet
  cont,
  winches,     \* how many times the size changed
  suspends     \* how many suspensions there were

mainVars == <<mpc, taking, attached, input, typedIn>>
bridgeVars == <<mutex, ready, stopped>>
keyVars == <<todo, keyBuffer, waiting, untilEmpty>>
uiVars == <<upc, suspended, contReceived, stop, up, fast, keyVars, ran>>
worldVars == <<tty, typed, winch, cont, winches, suspends>>
vars == <<mainVars, mainq, made, bridgeVars, uiVars, uiq, worldVars>>

Call == [kind : {"call", "suspend", "stop"}, n : Nat]
Event == Call \union [kind : {"read"}, keys : Seq(Nat)]
              \union [kind : {"winch", "cont", "suspend_event"}]

\* ui_bridge_attach created the thread and waits for it.
Init ==
  /\ mpc = "attach" /\ taking = -1 /\ attached = FALSE
  /\ mainq = <<>> /\ input = <<>> /\ typedIn = <<>> /\ made = 0
  /\ mutex = "none" /\ ready = FALSE /\ stopped = FALSE
  /\ upc = "start" /\ suspended = FALSE /\ contReceived = FALSE /\ stop = FALSE
  /\ up = FALSE /\ uiq = <<>> /\ fast = <<>>
  /\ todo = <<>> /\ keyBuffer = <<>> /\ waiting = FALSE /\ untilEmpty = FALSE
  /\ ran = 0
  /\ tty = <<>> /\ typed = 0 /\ winch = FALSE /\ cont = FALSE
  /\ winches = 0 /\ suspends = 0

-----------------------------------------------------------------------------
(***************************************************************************)
(* The main thread                                                         *)
(***************************************************************************)
\* UI_CALL of ui_bridge.c.
UiCall(kind) ==
  /\ made' = made + 1
  /\ uiq' = Append(uiq, [kind |-> kind, n |-> made + 1])

NoCall == UNCHANGED <<made, uiq>>

\* No change of the size is on its way: an environment that Careful asks for
\* when the editor suspends or stops.
NoWinch == ~winch /\ "refresh" \notin ToSet(mainq)
           /\ \A i \in DOMAIN fast : fast[i].kind # "winch"

\* ui_attach_impl calls ui_refresh, which resizes the new UI.
Attach ==
  /\ mpc = "attach" /\ ready
  /\ mpc' = "run"
  /\ attached' = TRUE
  /\ UiCall("call")
  /\ UNCHANGED <<taking, mainq, input, typedIn, bridgeVars, uiVars, worldVars>>

\* Any of the calls of ui.c, to the UIs that are attached; after
\* ui_builtin_stop mch_exit goes on with ui_flush.
MainCall ==
  /\ mpc \in {"run", "exit"} /\ taking = -1
  /\ made < MaxCalls
  /\ attached
  /\ UiCall("call")
  /\ UNCHANGED <<mainVars, mainq, bridgeVars, uiVars, worldVars>>

\* Mutant: the mutex is not taken for the call.
SuspendCallUnlocked ==
  /\ mpc = "run" /\ taking = -1 /\ attached
  /\ suspends < MaxSuspends
  /\ Careful => NoWinch
  /\ suspends' = suspends + 1
  /\ mpc' = "suspend"
  /\ UiCall("suspend")
  /\ UNCHANGED <<taking, attached, mainq, input, typedIn, bridgeVars, uiVars, tty, typed, winch,
                 cont, winches>>

\* ui_bridge_suspend, up to the call.
SuspendCall ==
  /\ mpc = "run" /\ taking = -1 /\ attached
  /\ suspends < MaxSuspends
  /\ Careful => NoWinch
  /\ mutex = "none"
  /\ suspends' = suspends + 1
  /\ mpc' = "suspend"
  /\ mutex' = "main"
  /\ UiCall("suspend")
  /\ UNCHANGED <<taking, attached, mainq, input, typedIn, ready, stopped, uiVars, tty, typed,
                 winch, cont, winches>>

\* Mutant: ready is still set from the last time.
SuspendWaitReady ==
  /\ mpc = "suspend"
  /\ mpc' = "suspended"
  /\ mutex' = "none"
  /\ UNCHANGED <<taking, attached, mainq, input, typedIn, ready, stopped, uiVars, worldVars>>
  /\ NoCall

\* uv_cond_wait gives the mutex back.
SuspendWait ==
  /\ mpc = "suspend"
  /\ ready' = FALSE
  /\ mpc' = "suspended"
  /\ mutex' = "none"
  /\ UNCHANGED <<taking, attached, mainq, input, typedIn, stopped, uiVars, worldVars>>
  /\ NoCall

SuspendReturn ==
  /\ mpc = "suspended" /\ ready
  /\ mpc' = "run"
  /\ UNCHANGED <<taking, attached, mainq, input, typedIn, bridgeVars, uiVars, worldVars>>
  /\ NoCall

\* mch_exit: ui_bridge_stop, up to the loop.
Stop ==
  /\ mpc = "run" /\ taking = -1 /\ attached
  /\ Careful => NoWinch
  /\ stopped' = FALSE
  /\ mpc' = "stop"
  /\ UiCall("stop")
  /\ UNCHANGED <<taking, attached, mainq, input, typedIn, mutex, ready, uiVars, worldVars>>

Stopped ==
  /\ mpc = "stop" /\ taking = -1
  /\ stopped
  /\ mpc' = "join"
  /\ UNCHANGED <<taking, attached, mainq, input, typedIn, bridgeVars, uiVars, worldVars>>
  /\ NoCall

\* Mutant: the UI is not detached.
JoinedAttached ==
  /\ mpc = "join" /\ upc = "gone"
  /\ mpc' = "exit"
  /\ UNCHANGED <<taking, attached, mainq, input, typedIn, bridgeVars, uiVars, worldVars>>
  /\ NoCall

\* uv_thread_join, ui_detach_impl; then the bridge is freed.
Joined ==
  /\ mpc = "join" /\ upc = "gone"
  /\ mpc' = "exit"
  /\ attached' = FALSE
  /\ UNCHANGED <<taking, mainq, input, typedIn, bridgeVars, uiVars, worldVars>>
  /\ NoCall

Polls == mpc \in {"run", "stop"} /\ taking = -1 /\ mainq # <<>>

\* wait_input_enqueue copies what fits, and consumes it afterwards.
TakeKeys ==
  /\ Polls /\ Head(mainq) = "keys"
  /\ mainq' = Tail(mainq)
  /\ LET n == CHOOSE k \in 0 .. Len(keyBuffer) :
                IF InputSize - Len(input) < Len(keyBuffer) THEN k = InputSize - Len(input)
                                                           ELSE k = Len(keyBuffer) IN
       /\ taking' = n
       /\ input' = input \o SubSeq(keyBuffer, 1, n)
  /\ UNCHANGED <<mpc, attached, typedIn, bridgeVars, uiVars, worldVars>>
  /\ NoCall

\* Mutant: what did not fit is dropped too.
TookKeysAll ==
  /\ taking >= 0 /\ upc # "lock"
  /\ keyBuffer' = <<>>
  /\ waiting' = FALSE
  /\ taking' = -1
  /\ UNCHANGED <<mpc, attached, mainq, input, typedIn, bridgeVars, upc, suspended, contReceived,
                 stop, up, fast, todo, untilEmpty, ran, worldVars>>
  /\ NoCall

\* rbuffer_consumed; then, with key_buffer_mutex, the UI thread is released.
TookKeys ==
  /\ taking >= 0 /\ upc # "lock"
  /\ keyBuffer' = SubSeq(keyBuffer, taking + 1, Len(keyBuffer))
  /\ waiting' = FALSE
  /\ taking' = -1
  /\ UNCHANGED <<mpc, attached, mainq, input, typedIn, bridgeVars, upc, suspended, contReceived,
                 stop, up, fast, todo, untilEmpty, ran, worldVars>>
  /\ NoCall

\* refresh_event: ui_refresh resizes the attached UIs.
Refresh ==
  /\ Polls /\ Head(mainq) = "refresh"
  /\ mainq' = Tail(mainq)
  /\ UiCall("call")
  /\ UNCHANGED <<mainVars, bridgeVars, uiVars, worldVars>>

\* os_inchar takes a key.
ReadKey ==
  /\ mpc = "run" /\ taking = -1
  /\ input # <<>>
  /\ typedIn' = Append(typedIn, Head(input))
  /\ input' = Tail(input)
  /\ UNCHANGED <<mpc, taking, attached, mainq, bridgeVars, uiVars, worldVars>>
  /\ NoCall

-----------------------------------------------------------------------------
(***************************************************************************)
(* The thread of the UI                                                    *)
(***************************************************************************)
\* CONTINUE: it needs bridge->mutex.
Continue == mutex = "none" /\ ready' = TRUE /\ UNCHANGED <<mutex, stopped>>

\* tui_main up to its loop: the terminal is started first.
Start ==
  /\ upc = "start"
  /\ up' = TRUE
  /\ stop' = FALSE
  /\ upc' = "poll"
  /\ Continue
  /\ UNCHANGED <<mainVars, mainq, made, suspended, contReceived, fast, keyVars, ran, uiq,
                 worldVars>>

\* libuv reports what is ready: the calls that were scheduled, keys and a
\* change of the size while their watchers are started, SIGCONT always.
Ready(keys) ==
  (IF up /\ tty # <<>> THEN <<[kind |-> "read", keys |-> keys]>> ELSE <<>>)
    \o (IF up /\ winch THEN <<[kind |-> "winch"]>> ELSE <<>>)
    \o (IF cont THEN <<[kind |-> "cont"]>> ELSE <<>>)

\* loop_poll_events, in tui_main or in suspend_event, whose condition is seen
\* when fast_events is empty.
Poll ==
  /\ upc = "poll" /\ fast = <<>>
  /\ IF suspended THEN ~contReceived ELSE ~stop
  /\ uiq \o Ready(tty) # <<>>
  /\ \/ fast' = uiq \o Ready(tty)
     \/ fast' = Ready(tty) \o uiq
  /\ uiq' = <<>>
  /\ tty' = IF up THEN <<>> ELSE tty
  /\ winch' = (winch /\ ~up)
  /\ cont' = FALSE
  /\ UNCHANGED <<mainVars, mainq, made, bridgeVars, upc, suspended, contReceived, stop, up,
                 keyVars, ran, typed, winches, suspends>>

Handling(kind) == upc = "poll" /\ fast # <<>> /\ Head(fast).kind = kind

HandleCall ==
  /\ Handling("call")
  /\ ran' = Head(fast).n
  /\ fast' = Tail(fast)
  /\ UNCHANGED <<mainVars, mainq, made, bridgeVars, upc, suspended, contReceived, stop, up,
                 keyVars, uiq, worldVars>>

\* tui_suspend
HandleSuspend ==
  /\ Handling("suspend")
  /\ ran' = Head(fast).n
  /\ fast' = Append(Tail(fast), [kind |-> "suspend_event"])
  /\ UNCHANGED <<mainVars, mainq, made, bridgeVars, upc, suspended, contReceived, stop, up,
                 keyVars, uiq, worldVars>>

\* suspend_event, up to its loop.
SuspendEvent ==
  /\ Handling("suspend_event")
  /\ fast' = Tail(fast)
  /\ up' = FALSE
  /\ contReceived' = FALSE
  /\ suspended' = TRUE
  /\ UNCHANGED <<mainVars, mainq, made, bridgeVars, upc, stop, keyVars, ran, uiq, worldVars>>

\* sigcont_cb
HandleCont ==
  /\ Handling("cont")
  /\ contReceived' = TRUE
  /\ fast' = Tail(fast)
  /\ UNCHANGED <<mainVars, mainq, made, bridgeVars, upc, suspended, stop, up, keyVars, ran, uiq,
                 worldVars>>

\* The rest of suspend_event.
Resume ==
  /\ upc = "poll" /\ suspended /\ contReceived /\ fast = <<>>
  /\ suspended' = FALSE
  /\ up' = TRUE
  /\ Continue
  /\ UNCHANGED <<mainVars, mainq, made, upc, contReceived, stop, fast, keyVars, ran, uiq,
                 worldVars>>

\* sigwinch_cb
HandleWinch ==
  /\ Handling("winch")
  /\ mainq' = Append(mainq, "refresh")
  /\ fast' = Tail(fast)
  /\ UNCHANGED <<mainVars, made, bridgeVars, upc, suspended, contReceived, stop, up, keyVars,
                 ran, uiq, worldVars>>

\* Mutant: the main thread is told here.
HandleStopAndTell ==
  /\ Handling("stop")
  /\ ran' = Head(fast).n
  /\ fast' = Tail(fast)
  /\ up' = FALSE
  /\ stop' = TRUE
  /\ stopped' = TRUE
  /\ UNCHANGED <<mainVars, mainq, made, mutex, ready, upc, suspended, contReceived, keyVars, uiq,
                 worldVars>>

\* tui_stop
HandleStop ==
  /\ Handling("stop")
  /\ ran' = Head(fast).n
  /\ fast' = Tail(fast)
  /\ up' = FALSE
  /\ stop' = TRUE
  /\ UNCHANGED <<mainVars, mainq, made, bridgeVars, upc, suspended, contReceived, keyVars, uiq,
                 worldVars>>

\* The loop of tui_main ended: ui_bridge_stopped.
Finish ==
  /\ upc = "poll" /\ ~suspended /\ stop /\ fast = <<>>
  /\ mutex = "none"
  /\ stopped' = TRUE
  /\ upc' = "closing"
  /\ UNCHANGED <<mainVars, mainq, made, mutex, ready, suspended, contReceived, stop, up, fast,
                 keyVars, ran, uiq, worldVars>>

\* loop_close; data and ui are freed, and the thread ends.
Close ==
  /\ upc = "closing"
  /\ upc' = "gone"
  /\ UNCHANGED <<mainVars, mainq, made, bridgeVars, suspended, contReceived, stop, up, fast,
                 keyVars, ran, uiq, worldVars>>

\* read_cb
HandleRead ==
  /\ Handling("read")
  /\ todo' = Head(fast).keys
  /\ fast' = Tail(fast)
  /\ upc' = "write"
  /\ UNCHANGED <<mainVars, mainq, made, bridgeVars, suspended, contReceived, stop, up,
                 keyBuffer, waiting, untilEmpty, ran, uiq, worldVars>>

\* enqueue_input
WriteKey ==
  /\ upc = "write" /\ todo # <<>>
  /\ Len(keyBuffer) < KeyBufferSize
  /\ keyBuffer' = Append(keyBuffer, Head(todo))
  /\ todo' = Tail(todo)
  /\ UNCHANGED <<mainVars, mainq, made, bridgeVars, upc, suspended, contReceived, stop, up, fast,
                 waiting, untilEmpty, ran, uiq, worldVars>>

\* flush_input is called with a full buffer, and when all keys are forwarded.
FlushBegin ==
  /\ upc = "write"
  /\ todo = <<>> \/ Len(keyBuffer) = KeyBufferSize
  /\ untilEmpty' = (todo = <<>>)
  /\ upc' = "flush"
  /\ UNCHANGED <<mainVars, mainq, made, bridgeVars, suspended, contReceived, stop, up, fast,
                 todo, keyBuffer, waiting, ran, uiq, worldVars>>

\* key_buffer_mutex is taken, and held until the thread waits.
FlushSchedule ==
  /\ upc = "flush"
  /\ mainq' = Append(mainq, "keys")
  /\ upc' = "lock"
  /\ UNCHANGED <<mainVars, made, bridgeVars, suspended, contReceived, stop, up, fast, keyVars,
                 ran, uiq, worldVars>>

FlushWait ==
  /\ upc = "lock"
  /\ waiting' = TRUE
  /\ upc' = "wait"
  /\ UNCHANGED <<mainVars, mainq, made, bridgeVars, suspended, contReceived, stop, up, fast,
                 todo, keyBuffer, untilEmpty, ran, uiq, worldVars>>

Flushed ==
  /\ upc = "wait" /\ ~waiting
  /\ upc' = IF Len(keyBuffer) > (IF untilEmpty THEN 0 ELSE DrainBoundary) THEN "flush"
            ELSE IF untilEmpty THEN "poll" ELSE "write"
  /\ UNCHANGED <<mainVars, mainq, made, bridgeVars, suspended, contReceived, stop, up, fast,
                 keyVars, ran, uiq, worldVars>>

-----------------------------------------------------------------------------
(***************************************************************************)
(* The user                                                                *)
(***************************************************************************)
Type ==
  /\ typed < MaxKeys
  /\ typed' = typed + 1
  /\ tty' = Append(tty, typed + 1)
  /\ UNCHANGED <<mainVars, mainq, made, bridgeVars, uiVars, uiq, winch, cont, winches, suspends>>

ChangeSize ==
  /\ winches < MaxWinch
  /\ Careful => mpc = "run"
  /\ winches' = winches + 1
  /\ winch' = TRUE
  /\ UNCHANGED <<mainVars, mainq, made, bridgeVars, uiVars, uiq, tty, typed, cont, suspends>>

\* The shell continues the stopped process.
Fg ==
  /\ suspended /\ ~contReceived
  /\ ~cont /\ \A i \in DOMAIN fast : fast[i].kind # "cont"
  /\ cont' = TRUE
  /\ UNCHANGED <<mainVars, mainq, made, bridgeVars, uiVars, uiq, tty, typed, winch, winches,
                 suspends>>

MainStep == Attach \/ SuspendWait \/ SuspendReturn \/ Stopped \/ Joined
            \/ TakeKeys \/ TookKeys \/ Refresh

UIStep == Start \/ Poll \/ HandleCall \/ HandleSuspend \/ SuspendEvent \/ HandleCont \/ Resume
          \/ HandleWinch \/ HandleStop \/ Finish \/ Close \/ HandleRead \/ WriteKey
          \/ FlushBegin \/ FlushSchedule \/ FlushWait \/ Flushed

Next == MainStep \/ UIStep \/ MainCall \/ SuspendCall \/ Stop \/ ReadKey
        \/ Type \/ ChangeSize \/ Fg

Spec == Init /\ [][Next]_vars

\* Both threads run, the editor comes back to reading its input as long as it
\* neither stops nor is suspended, and the user brings it back to the foreground.
Fairness == WF_vars(MainStep) /\ WF_vars(UIStep) /\ SF_vars(ReadKey) /\ WF_vars(Fg)
FairSpec == Spec /\ Fairness

-----------------------------------------------------------------------------
(***************************************************************************)
(* Properties                                                              *)
(***************************************************************************)
\* The types of the variables.
TypeOK ==
  /\ mpc \in {"attach", "run", "suspend", "suspended", "stop", "join", "exit"}
  /\ taking \in -1 .. KeyBufferSize
  /\ mainq \in Seq({"keys", "refresh"})
  /\ mutex \in {"none", "main"}
  /\ upc \in {"start", "poll", "write", "flush", "lock", "wait", "closing", "gone"}
  /\ {attached, ready, stopped, suspended, contReceived, stop, up, waiting, untilEmpty, winch,
      cont} \subseteq BOOLEAN
  /\ uiq \in Seq(Call) /\ fast \in Seq(Event)
  /\ {input, typedIn, todo, keyBuffer, tty} \subseteq Seq(1 .. MaxKeys)
  /\ Len(input) <= InputSize /\ Len(keyBuffer) <= KeyBufferSize

\* The keys that libuv has read and read_cb was not called with yet.
Reads(q) == {i \in DOMAIN q : q[i].kind = "read"}
Pending(q) == IF Reads(q) = {} THEN <<>> ELSE q[CHOOSE i \in Reads(q) : TRUE].keys

\* No key is lost, doubled or overtaken between the terminal and the editor,
\* although key_buffer is emptied by the other thread and input_buffer may
\* have no room: the main thread changes key_buffer only while flush_input
\* waits for it.
KeysInOrder ==
  TypeOK /\ LET read == SubSeq(keyBuffer, 1 + (IF taking > 0 THEN taking ELSE 0), Len(keyBuffer)) IN
  /\ typedIn \o input \o read \o todo \o Pending(fast) \o tty = [i \in 1 .. typed |-> i]
  /\ taking >= 0 => upc \in {"lock", "wait"}

\* The UI sees its calls as the users of any loop do: what the main thread
\* schedules is handled once and in order, and nothing is scheduled on the loop
\* of the UI once its thread has closed it, although ui_flush is called again
\* after ui_builtin_stop.
Mail == INSTANCE Mailbox WITH posted <- made, handled <- ran, open <- upc # "gone"

ImplementsMailbox == Mail!Spec

\* The loop of the UI is such a mailbox, and no call is handled while the
\* terminal is given back to the shell, whatever was scheduled around the
\* suspension: ui_bridge_suspend holds the main thread.  And ui_bridge.h:26:
\* `stopped` is the signal that the UI thread will no longer send messages to
\* the main thread; no call goes to a UI that is stopped or freed.
CallsReachTheTerminal ==
  /\ ImplementsMailbox
  /\ [][/\ ran' # ran => up
        /\ stopped \/ upc = "gone" => made' = made /\ Len(mainq') <= Len(mainq)]_vars

\* The main thread waits to be continued, and the thread of the UI for its keys
\* to be taken: neither goes on.
EachWaitsForTheOther == mpc = "suspended" /\ upc = "wait" /\ waiting

\* The exiting editor reads no key: there is no room for the next.
NoRoom == mpc = "stop" /\ Len(input) = InputSize /\ keyBuffer # <<>>

\* The waits of one thread for the other, whatever is typed: those of
\* ui_bridge_attach, ui_bridge_suspend, ui_bridge_stop and flush_input end,
\* unless ui_bridge_suspend and flush_input wait for each other, or the keys
\* typed to an editor that stops do not fit input_buffer, for ever.
WaitsEnd ==
  /\ mpc = "attach" ~> mpc = "run"
  /\ mpc = "suspended" ~> (mpc = "run" \/ EachWaitsForTheOther)
  /\ mpc = "stop" ~> (mpc = "exit" \/ []NoRoom)
  /\ upc = "wait" ~> (upc = "poll" \/ EachWaitsForTheOther \/ []NoRoom)
=============================================================================

------------------------------- MODULE Channel -------------------------------
(***************************************************************************)
(* msgpack_rpc/channel.c: the channels of RPC peers.  A call of            *)
(* channel_send_call waits on the C stack for its answer, and meanwhile    *)
(* the requests of the same channel are handled, whose handlers may call   *)
(* again: calls and handlers nest, over all channels.  A channel is freed  *)
(* by whoever gives back the last reference.                               *)
(*                                                                         *)
(* Everything runs in one thread: code (the main loop's, or a handler's),  *)
(* or a poll in which libuv calls back.  Streams are those of WStream and  *)
(* RStream reduced to what a channel sees of them: the writes under way,   *)
(* whether a read may still come, and the callback of the close.           *)
(***************************************************************************)
EXTENDS Integers, Sequences, FiniteSets, SequencesExt

CONSTANTS Channels,
          Types,         \* the functions from Channels to types looked at
          Kinds,         \* what the peer of a channel may send
          MaxCalls,      \* calls made on a channel, by channel
          MaxMessages,   \* messages received on it
          MaxNotes,      \* notifications sent to it
          MaxMem,        \* maxmem, in writes
          NoChannel

\* Answers, with a result or with an error, and requests by what handles them.
Answers == {"response", "error"}
Requests == {"request", "async", "subscribe", "unsubscribe"}
AllKinds == Answers \union Requests \union {"invalid"}

ASSUME ChannelAssumption ==
  /\ NoChannel \notin Channels
  /\ Types \subseteq [Channels -> {"socket", "proc", "stdio"}]
  /\ Kinds \in [Channels -> SUBSET AllKinds]
  /\ {MaxCalls, MaxMessages, MaxNotes} \subseteq [Channels -> Nat]
  /\ MaxMem \in Nat

\* The frame of a call, as call_stack points to it.
Frame == [id : Nat \ {0}, returned : BOOLEAN, errored : BOOLEAN, result : Nat]

\* The id of an answer is that of the request it is to; the id of a request is
\* NO_RESPONSE when it is a notification.
Message == [kind : AllKinds, id : Nat]
NoResponse == 0

VARIABLES type,     \* the type of each channel
          ch,       \* the channels, by their fields (see NewChannel)
          stack,    \* the C stack, innermost last: calls that wait, handlers
          polling,  \* uv_run is under way
          parser,   \* the channel whose parse_msgpack is under way
          over      \* "no", or how the program ended

vars == <<type, ch, stack, polling, parser, over>>

\* register_channel, with the reference its maker takes for the stream, the
\* process or the program's exit.
NewChannel ==
  [refs       |-> 2,        \* refcount; the channel is freed at 0
   closed     |-> FALSE,
   frames     |-> <<>>,     \* call_stack, and pending_requests is its length
   nextId     |-> 1,        \* next_request_id
   delayed    |-> <<>>,     \* delayed_notifications
   queue      |-> <<>>,     \* the request events in events
   unpacker   |-> <<>>,     \* messages in the unpacker
   subscribed |-> FALSE,    \* subscribed_events, for one event
   writes     |-> 0,        \* the write requests under way: curmem
   writer     |-> "open",   \* the stream that is written: "open", "closing", "closed"
   reader     |-> "open",   \* the stream that is read: "open", "eof", "closed"
   exitEvent  |-> FALSE,    \* exit_event is in fast_events
   received   |-> 0,        \* messages received
   notes      |-> 0,        \* notifications asked for
   sent       |-> <<>>]     \* notifications written

Init ==
  /\ type \in Types
  /\ ch = [c \in Channels |-> NewChannel]
  /\ stack = <<>> /\ polling = FALSE /\ parser = NoChannel /\ over = "no"

-----------------------------------------------------------------------------
\* What the static functions make of the fields k of a channel of type t.

Incref(k) == [k EXCEPT !.refs = @ + 1]

\* decref; free_channel ends the subscription.
Decref(k) == [k EXCEPT !.refs = @ - 1, !.subscribed = @ /\ k.refs # 1]

\* close_channel.  A socket is one stream.  Of a process only the input is
\* closed, by process_stop, and the rest when it exits.  A stdio channel keeps
\* its reference until the exit event.
Closed(t, k) ==
  IF k.closed THEN k
  ELSE CASE t = "socket" -> Decref([k EXCEPT !.closed = TRUE, !.writer = "closing",
                                             !.reader = IF @ = "open" THEN "closed" ELSE @])
         [] t = "proc"   -> Decref([k EXCEPT !.closed = TRUE,
                                             !.writer = IF @ = "open" THEN "closing" ELSE @])
         [] t = "stdio"  -> [k EXCEPT !.closed = TRUE, !.writer = "closing", !.exitEvent = TRUE,
                                      !.reader = IF @ = "open" THEN "closed" ELSE @]

\* call_set_error
Errored(t, k) ==
  Closed(t, [k EXCEPT !.frames =
    [i \in DOMAIN @ |-> [@[i] EXCEPT !.returned = TRUE, !.errored = TRUE]]])

\* assert(!stream->closed) in wstream_write
WriteAborts(k) == ~k.closed /\ k.writer # "open"

\* channel_write, of a message with the given notifications.
Written(t, k, notes) ==
  CASE k.closed            -> k
    [] ~k.closed /\ k.writes > MaxMem  -> Errored(t, k)
    [] ~k.closed /\ k.writes <= MaxMem -> [k EXCEPT !.writes = @ + 1, !.sent = @ \o notes]

\* Mutant: they are popped from the end.
FlushedPopped(t, k) ==
  FoldLeft(LAMBDA j, n : Written(t, j, <<n>>), [k EXCEPT !.delayed = <<>>], Reverse(k.delayed))

\* send_delayed_notifications: they are written one by one, and the first that
\* finds no room closes the channel, after which none is.
Flushed(t, k) ==
  LET room == MaxMem + 1 - k.writes
      n == IF Len(k.delayed) <= room THEN Len(k.delayed) ELSE room
      wrote == [k EXCEPT !.writes = @ + n, !.sent = @ \o SubSeq(k.delayed, 1, n)]
      done == IF k.closed THEN k ELSE IF n < Len(k.delayed) THEN Errored(t, wrote) ELSE wrote
  IN  [done EXCEPT !.delayed = <<>>]

Freed(c) == ch[c].refs = 0

Alone == over = "no" /\ ~polling

\* What the thread is in: the main loop, or the innermost call or handler.
Top == IF stack = <<>> THEN [kind |-> "main", chan |-> NoChannel, id |-> 0, busy |-> TRUE]
                       ELSE Last(stack)

\* Code runs: that of the main loop, or that of the innermost handler.
InCode == Alone /\ Top.kind # "call"

Update(c, k) == ch' = [ch EXCEPT ![c] = k]

Abort(why) == over' = why /\ UNCHANGED <<type, ch, stack, polling, parser>>

-----------------------------------------------------------------------------
\* What code asks of a channel.

\* channel_send_call: the request is sent, then the frame is pushed.
CallBegin(c) ==
  /\ InCode
  /\ ~Freed(c) /\ ~ch[c].closed
  /\ ch[c].nextId <= MaxCalls[c]
  /\ IF WriteAborts(ch[c]) THEN Abort("write") ELSE
       LET id == ch[c].nextId
           k == Written(type[c], [Incref(ch[c]) EXCEPT !.nextId = @ + 1], <<>>)
       IN  /\ Update(c, [k EXCEPT !.frames =
                Append(@, [id |-> id, returned |-> FALSE, errored |-> FALSE, result |-> 0])])
           /\ stack' = Append(stack, [kind |-> "call", chan |-> c, id |-> id, busy |-> FALSE])
           /\ UNCHANGED <<type, polling, parser, over>>

Waiting(c) == Top.kind = "call" /\ Top.chan = c

\* Mutant: an errored call leaves its frame on the call stack.
CallReturnKeepsErrored(c) ==
  /\ Alone /\ Waiting(c)
  /\ Last(ch[c].frames).returned
  /\ Top.busy => ch[c].queue = <<>>
  /\ LET popped == [ch[c] EXCEPT !.frames = IF Last(@).errored THEN @ ELSE Front(@)]
         k == IF popped.frames = <<>> THEN Flushed(type[c], popped) ELSE popped
     IN  Update(c, Decref(k))
  /\ stack' = Front(stack)
  /\ UNCHANGED <<type, polling, parser, over>>

\* The rest of channel_send_call, once its frame returned; the events that
\* were being processed are processed to the end first.
CallReturn(c) ==
  /\ Alone /\ Waiting(c)
  /\ Last(ch[c].frames).returned
  /\ Top.busy => ch[c].queue = <<>>
  /\ LET popped == [ch[c] EXCEPT !.frames = Front(@)]
         last == popped.frames = <<>>
     IN  IF last /\ popped.delayed # <<>> /\ WriteAborts(popped) THEN Abort("write")
         ELSE /\ Update(c, Decref(IF last THEN Flushed(type[c], popped) ELSE popped))
              /\ stack' = Front(stack)
              /\ UNCHANGED <<type, polling, parser, over>>

\* Mutant: a notification is written even while a call waits.
NotedAtOnce(t, k) == Written(t, [k EXCEPT !.notes = @ + 1], <<k.notes + 1>>)

\* A notification for one channel: delayed while a call waits.
Noted(t, k) ==
  LET note == k.notes + 1
      asked == [k EXCEPT !.notes = note]
  IN  IF k.frames # <<>> THEN [asked EXCEPT !.delayed = Append(@, note)]
                         ELSE Written(t, asked, <<note>>)

\* channel_send_event to one channel ...
Notify(c) ==
  /\ InCode
  /\ ~Freed(c) /\ ~ch[c].closed /\ ch[c].notes < MaxNotes[c]
  /\ IF ch[c].frames = <<>> /\ WriteAborts(ch[c]) THEN Abort("write")
     ELSE Update(c, Noted(type[c], ch[c])) /\ UNCHANGED <<type, stack, polling, parser, over>>

Subscribers == {c \in Channels : ~Freed(c) /\ ch[c].subscribed}

\* ... and to all that subscribed, the closed ones too.
Broadcast ==
  /\ InCode
  /\ Subscribers # {} /\ \A c \in Subscribers : ch[c].notes < MaxNotes[c]
  /\ IF \E c \in Subscribers : ch[c].frames = <<>> /\ WriteAborts(ch[c]) THEN Abort("write")
     ELSE /\ ch' = [c \in Channels |-> IF c \in Subscribers THEN Noted(type[c], ch[c]) ELSE ch[c]]
          /\ UNCHANGED <<type, stack, polling, parser, over>>

\* channel_close
Close(c) ==
  /\ InCode
  /\ ~Freed(c) /\ ~ch[c].closed
  /\ Update(c, Closed(type[c], ch[c]))
  /\ UNCHANGED <<type, stack, polling, parser, over>>

-----------------------------------------------------------------------------
\* Requests that were queued: on_request_event.

\* The main loop handles those of all channels, a call those of its own.
Handles(c) == Top.kind = "main" \/ (Waiting(c) /\ (Top.busy \/ ~Last(ch[c].frames).returned))

SetBusy(busy) ==
  IF stack = <<>> THEN stack ELSE Append(Front(stack), [Top EXCEPT !.busy = busy])

\* The response, unless the request was a notification, and the end of
\* on_request_event.
Responded(t, k, id) == Decref(IF id # NoResponse THEN Written(t, k, <<>>) ELSE k)

\* A handler that is arbitrary code.
HandlerBegin(c) ==
  /\ Alone /\ Handles(c)
  /\ ch[c].queue # <<>> /\ Head(ch[c].queue).kind = "request"
  /\ Update(c, [ch[c] EXCEPT !.queue = Tail(@)])
  /\ stack' = Append(SetBusy(TRUE), [kind |-> "handler", chan |-> c, id |-> Head(ch[c].queue).id,
                                     busy |-> FALSE])
  /\ UNCHANGED <<type, polling, parser, over>>

HandlerEnd(c) ==
  /\ InCode /\ Top.chan = c
  /\ IF Top.id # NoResponse /\ WriteAborts(ch[c]) THEN Abort("write")
     ELSE /\ Update(c, Responded(type[c], ch[c], Top.id))
          /\ stack' = Front(stack)
          /\ UNCHANGED <<type, polling, parser, over>>

\* vim_subscribe and vim_unsubscribe: channel_subscribe and channel_unsubscribe
\* abort when the channel was closed.
HandleSubscription(c) ==
  /\ Alone /\ Handles(c)
  /\ ch[c].queue # <<>> /\ Head(ch[c].queue).kind \in {"subscribe", "unsubscribe"}
  /\ CASE ch[c].closed -> Abort("subscribe")
       [] Head(ch[c].queue).id # NoResponse /\ WriteAborts(ch[c]) -> Abort("write")
       [] OTHER ->
            /\ Update(c, Responded(type[c],
                 [ch[c] EXCEPT !.queue = Tail(@),
                               !.subscribed = Head(ch[c].queue).kind = "subscribe"],
                 Head(ch[c].queue).id))
            /\ stack' = SetBusy(TRUE)
            /\ UNCHANGED <<type, polling, parser, over>>

-----------------------------------------------------------------------------
\* Polls.

\* LOOP_PROCESS_EVENTS polls when nothing is queued, and a call does so until
\* its frame returned.
PollBegin ==
  /\ Alone
  /\ \/ stack = <<>> /\ \A c \in Channels : ch[c].queue = <<>>
     \/ \E c \in Channels : Waiting(c) /\ ch[c].queue = <<>> /\ ~Last(ch[c].frames).returned
  /\ polling' = TRUE
  /\ stack' = SetBusy(FALSE)
  /\ UNCHANGED <<type, ch, parser, over>>

InPoll == over = "no" /\ polling /\ parser = NoChannel

PollEnd == InPoll /\ polling' = FALSE /\ UNCHANGED <<type, ch, stack, parser, over>>

\* parse_msgpack is given what was read.  A peer may answer whatever it likes
\* and ask whatever it likes.
Messages(c) == [kind : Kinds[c] \cap Answers, id : 0 .. ch[c].nextId - 1]
               \union [kind : Kinds[c] \cap Requests, id : {NoResponse, 1}]
               \union [kind : Kinds[c] \cap {"invalid"}, id : {1}]

Chunks(c) == BoundedSeq(Messages(c), 2) \ {<<>>}

ParseBegin(c) ==
  /\ InPoll
  /\ ch[c].reader = "open"
  /\ \E chunk \in Chunks(c) :
       /\ ch[c].received + Len(chunk) <= MaxMessages[c]
       /\ Update(c, [Incref(ch[c]) EXCEPT !.unpacker = @ \o chunk, !.received = @ + Len(chunk)])
  /\ parser' = c
  /\ UNCHANGED <<type, stack, polling, over>>

\* Mutant: the calls that wait are not told.
ParseEofSilent(c) ==
  /\ InPoll
  /\ ch[c].reader = "open"
  /\ Update(c, Decref(Closed(type[c], Incref([ch[c] EXCEPT !.reader = "eof"]))))
  /\ UNCHANGED <<type, stack, polling, parser, over>>

\* The end of the input: the channel is closed and its calls are told.
ParseEof(c) ==
  /\ InPoll
  /\ ch[c].reader = "open"
  /\ Update(c, Decref(Errored(type[c], Incref([ch[c] EXCEPT !.reader = "eof"]))))
  /\ UNCHANGED <<type, stack, polling, parser, over>>

\* Mutant: the id of the answer is not looked at.
IsValidAnyId(m, k) == k.frames # <<>>

\* is_valid_rpc_response: the answer is to the innermost call.
IsValidRpcResponse(m, k) == k.frames # <<>> /\ m.id = Last(k.frames).id

\* complete_call
Completed(m, k) ==
  [k EXCEPT !.frames = Append(Front(@), [Last(@) EXCEPT !.returned = TRUE, !.result = m.id,
                                                        !.errored = m.kind = "error"])]

\* A response ends parse_msgpack, whatever is left in the unpacker.
ParseResponse(c) ==
  /\ parser = c /\ ch[c].unpacker # <<>> /\ Head(ch[c].unpacker).kind \in Answers
  /\ LET m == Head(ch[c].unpacker)
         k == [ch[c] EXCEPT !.unpacker = Tail(@)]
     IN  Update(c, Decref(IF IsValidRpcResponse(m, k) THEN Completed(m, k) ELSE Errored(type[c], k)))
  /\ parser' = NoChannel
  /\ UNCHANGED <<type, stack, polling, over>>

\* Mutant: the event of a request does not hold the channel.
RequestedUncounted(t, k, m) == [k EXCEPT !.queue = Append(@, m)]

\* A request that is queued.
Requested(t, k, m) == [Incref(k) EXCEPT !.queue = Append(@, m)]

\* handle_request.  An async one is answered at once, an invalid one costs the
\* peer its channel, the others are queued.
HandleRequest(c) ==
  /\ parser = c /\ ch[c].unpacker # <<>> /\ Head(ch[c].unpacker).kind \notin Answers
  /\ LET m == Head(ch[c].unpacker)
         t == type[c]
         k == [ch[c] EXCEPT !.unpacker = Tail(@)]
     IN  IF m.kind \in {"async", "invalid"} /\ m.id # NoResponse /\ WriteAborts(k)
         THEN Abort("write")
         ELSE /\ Update(c, CASE m.kind = "async" -> Responded(t, Incref(k), m.id)
                             [] m.kind = "invalid" ->
                                  IF k.closed THEN k ELSE Errored(t, Written(t, k, <<>>))
                             [] OTHER -> Requested(t, k, m))
              /\ UNCHANGED <<type, stack, polling, parser, over>>

ParseEnd(c) ==
  /\ parser = c /\ ch[c].unpacker = <<>>
  /\ Update(c, Decref(ch[c]))
  /\ parser' = NoChannel
  /\ UNCHANGED <<type, stack, polling, over>>

\* write_cb of wstream.c
WriteCb(c) ==
  /\ InPoll /\ ch[c].writes > 0
  /\ Update(c, [ch[c] EXCEPT !.writes = @ - 1])
  /\ UNCHANGED <<type, stack, polling, parser, over>>

\* exit_cb: without a queue of its own the process closes all its streams at
\* once, whatever there still is to read.
ProcessExits(c) ==
  /\ InPoll /\ type[c] = "proc" /\ ~Freed(c) /\ ch[c].reader # "closed"
  /\ Update(c, [ch[c] EXCEPT !.reader = "closed", !.writer = "closing"])
  /\ UNCHANGED <<type, stack, polling, parser, over>>

\* close_cb of a socket, process_exit of a process that exited: the streams
\* are closed when no write is under way.
StreamsClosed(c) ==
  /\ InPoll
  /\ ch[c].writer = "closing" /\ ch[c].writes = 0
  /\ type[c] = "proc" => ch[c].reader = "closed"
  /\ LET k == [ch[c] EXCEPT !.writer = "closed"]
     IN  Update(c, IF type[c] = "stdio" THEN k ELSE Decref(k))
  /\ UNCHANGED <<type, stack, polling, parser, over>>

\* exit_event: the program exits with its stdio channel.
ExitEvent(c) ==
  /\ InPoll /\ ch[c].exitEvent
  /\ Update(c, Decref([ch[c] EXCEPT !.exitEvent = FALSE]))
  /\ over' = "exit"
  /\ UNCHANGED <<type, stack, polling, parser>>

-----------------------------------------------------------------------------
Next ==
  \/ \E c \in Channels :
       CallBegin(c) \/ CallReturn(c) \/ Notify(c) \/ Close(c) \/ HandlerBegin(c) \/ HandlerEnd(c)
         \/ HandleSubscription(c) \/ ParseBegin(c) \/ ParseEof(c) \/ ParseResponse(c) \/ HandleRequest(c)
         \/ ParseEnd(c) \/ WriteCb(c) \/ ProcessExits(c) \/ StreamsClosed(c) \/ ExitEvent(c)
  \/ Broadcast \/ PollBegin \/ PollEnd

Spec == Init /\ [][Next]_vars

\* The loop polls, callbacks and handlers come to their end, and a peer hangs
\* up some day; what can be read is read in some poll.
Fairness ==
  /\ WF_vars(PollBegin) /\ WF_vars(PollEnd)
  /\ \A c \in Channels :
       /\ SF_vars(ParseEof(c))
       /\ WF_vars(ParseResponse(c) \/ HandleRequest(c) \/ ParseEnd(c))
       /\ WF_vars(CallReturn(c)) /\ WF_vars(HandlerEnd(c))
       /\ WF_vars(HandlerBegin(c) \/ HandleSubscription(c))

LiveSpec == Spec /\ Fairness

-----------------------------------------------------------------------------
(***************************************************************************)
(* Properties                                                              *)
(***************************************************************************)

\* The types of the variables.
TypeOK ==
  /\ type \in Types
  /\ \A c \in Channels :
       /\ ch[c].refs \in Nat /\ ch[c].frames \in Seq(Frame) /\ ch[c].nextId \in 1 .. MaxCalls[c] + 1
       /\ {ch[c].closed, ch[c].subscribed, ch[c].exitEvent} \subseteq BOOLEAN
       /\ {ch[c].queue, ch[c].unpacker} \subseteq Seq(Message)
       /\ {ch[c].delayed, ch[c].sent} \subseteq Seq(1 .. MaxNotes[c])
       /\ ch[c].writes \in 0 .. MaxMem + 1
       /\ ch[c].writer \in {"open", "closing", "closed"}
       /\ ch[c].reader \in {"open", "eof", "closed"}
  /\ polling \in BOOLEAN /\ parser \in Channels \union {NoChannel}
  /\ over \in {"no", "exit", "write", "subscribe"}

Count(P) == IF P THEN 1 ELSE 0

\* The places of the C stack that hold channel c, the calls among them, and
\* how many calls of c there are up to a place.
HeldBy(s, c) == {i \in DOMAIN s : s[i].chan = c}
CallsOf(s, c) == {i \in HeldBy(s, c) : s[i].kind = "call"}
Depth(s, c, i) == Cardinality({j \in CallsOf(s, c) : j <= i})

\* The references to a channel are those of its maker, of its streams, process
\* or exit event, of the events queued, of the calls and handlers on the C
\* stack, and of the parser: no call, event or callback finds it freed.
RefsAreExact ==
  /\ TypeOK
  /\ \A c \in Channels :
    over # "exit" =>
      ch[c].refs = Count(~ch[c].closed \/ type[c] = "stdio")
                   + Count(type[c] = "stdio" \/ ch[c].writer # "closed")
                   + Len(ch[c].queue)
                   + Cardinality(HeldBy(stack, c))
                   + Count(parser = c)

\* call_stack points to the frames of the calls that are on the C stack, in
\* their order: a call pops its own frame, and none is left when it returned;
\* and when a peer is gone all the calls that wait for it return.
FramesAreOnTheStack ==
  \A c \in Channels :
    /\ Len(ch[c].frames) = Cardinality(CallsOf(stack, c))
    /\ \A i \in CallsOf(stack, c) : stack[i].id = ch[c].frames[Depth(stack, c, i)].id
    /\ ch[c].reader = "eof" => \A i \in DOMAIN ch[c].frames : ch[c].frames[i].returned

\* However calls nest and whatever a peer answers, a call that succeeds returns
\* the answer to its own request.
AnswersOwnRequest ==
  \A c \in Channels : \A i \in 1 .. Len(ch[c].frames) :
    LET f == ch[c].frames[i] IN f.returned /\ ~f.errored => f.result = f.id

\* Notifications reach the peer in the order they were asked for, none twice
\* and none lost unless the channel is closed; they are held back while a call
\* waits and no longer: none is written to a peer that still owes an answer, not
\* when an inner call returns, not by a broadcast, not by a handler.
NotesInOrder ==
  /\ [](\A c \in Channels :
         /\ ~ch[c].closed => ch[c].sent \o ch[c].delayed = [i \in 1 .. ch[c].notes |-> i]
         /\ \A i, j \in DOMAIN ch[c].sent : i < j => ch[c].sent[i] < ch[c].sent[j]
         /\ ch[c].delayed # <<>> => ch[c].frames # <<>>)
  /\ [][\A c \in Channels : ch[c].frames # <<>> /\ ch'[c].frames # <<>> => ch'[c].sent = ch[c].sent]_vars

\* A call that nobody is going to answer: its frame did not return and nothing
\* will be read any more.
Orphaned(c) ==
  ch[c].reader = "closed" /\ \E i \in 1 .. Len(ch[c].frames) : ~ch[c].frames[i].returned

\* Every call returns, with an answer or with the end of its channel, however
\* deep it is nested, but for a call whose channel was closed under it.
CallsReturn ==
  (stack # <<>>) ~> (stack = <<>> \/ over # "no" \/ \E c \in Channels : Orphaned(c))
=============================================================================

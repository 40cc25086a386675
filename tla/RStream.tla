------------------------------ MODULE RStream ------------------------------
(***************************************************************************)
(* rstream.c and the closing half of stream.c, on the ring buffer of       *)
(* RBuffer: libuv reads what the peer wrote into the buffer, a read event  *)
(* is queued for each chunk, and its handler calls the consumer's read_cb. *)
(* A full buffer stops the stream, a consumer that makes room starts it.   *)
(* Close waits for the events that are pending.                            *)
(*                                                                         *)
(* The consumers, by what they do with the buffer:                         *)
(*   "job"    on_job_output: count bytes from read_ptr go to a callback    *)
(*            and are consumed after it                                    *)
(*   "read"   system_data_cb, parse_msgpack: everything is read first      *)
(*   "shell"  out_data_cb: complete lines of the bytes up to the wrap      *)
(*   "none"   a NULL read_cb                                               *)
(***************************************************************************)
EXTENDS RBuffer, SequencesExt

CONSTANTS MaxBytes,    \* how much the peer writes: the bytes 1, 2, 3, ...
          NewLines,    \* the bytes that end a line
          Setups       \* the streams that are looked at

Consumers == {"job", "read", "shell", "none"}

\* isFile: an idle handle reads a file, else libuv reads a pipe.
\* direct: stream->events is NULL, the handler runs in the libuv callback.
\* nested: read_cb may process the events of the stream.
Setup == [isFile : BOOLEAN, consumer : Consumers, direct : BOOLEAN, nested : BOOLEAN]

ASSUME RStreamAssumption ==
  /\ MaxBytes \in Nat \ {0} /\ 1 .. MaxBytes \subseteq Byte
  /\ NewLines \subseteq 1 .. MaxBytes
  /\ Setups \subseteq Setup

VARIABLES setup,        \* one of Setups, for good
          sent,         \* bytes the peer wrote
          hungUp,       \* the peer closed its end
          fpos,         \* bytes read (fpos, for a file)
          reading,      \* uv_read_start or uv_idle_start is in force
          events,       \* the read events in stream->events
          frames,       \* the read_event handlers under way, innermost first
          pendingReqs,  \* pending_reqs
          closed,       \* closed
          handle,       \* the libuv handle; "closed" after close_cb freed the buffer
          closes,       \* the calls of uv_close
          shown,        \* the bytes read_cb was given
          eofs          \* the calls of read_cb with eof

peerVars == <<setup, sent, hungUp>>
queueVars == <<events, frames, pendingReqs>>
closeVars == <<closed, handle, closes>>
consumerVars == <<shown, eofs>>
rstreamVars == <<rbufferVars, peerVars, fpos, reading, queueVars, closeVars, consumerVars>>

IsFile == setup.isFile
Consumer == setup.consumer
Direct == setup.direct
Nested == setup.nested

Init ==
  /\ setup \in Setups
  /\ RBufferInit
  /\ sent = IF IsFile THEN MaxBytes ELSE 0
  /\ hungUp = IsFile
  /\ fpos = 0
  /\ reading = TRUE
  /\ events = <<>> /\ frames = <<>> /\ pendingReqs = 0
  /\ closed = FALSE /\ handle = "open" /\ closes = 0
  /\ shown = <<>> /\ eofs = 0

-----------------------------------------------------------------------------
\* The peer.

PeerWrite ==
  /\ ~hungUp /\ sent < MaxBytes
  /\ sent' = sent + 1
  /\ UNCHANGED <<rbufferVars, setup, hungUp, fpos, reading, queueVars, closeVars, consumerVars>>

PeerClose ==
  /\ ~hungUp
  /\ hungUp' = TRUE
  /\ UNCHANGED <<rbufferVars, setup, sent, fpos, reading, queueVars, closeVars, consumerVars>>

-----------------------------------------------------------------------------
\* libuv callbacks; they run when no handler does, or inside one that polls.

Polling == IF Direct THEN events = <<>> /\ frames = <<>> ELSE frames = <<>> \/ Nested

\* Mutant: one event stands for all the chunks that wait.
InvokeOnce(count, eof) ==
  IF closed \/ events # <<>>
  THEN UNCHANGED <<events, pendingReqs>>
  ELSE /\ events' = Append(events, [count |-> count, eof |-> eof])
       /\ pendingReqs' = pendingReqs + 1

\* invoke_read_cb.  In the direct mode the event is the handler's call.
Invoke(count, eof) ==
  IF closed
  THEN UNCHANGED <<events, pendingReqs>>
  ELSE /\ events' = Append(events, [count |-> count, eof |-> eof])
       /\ pendingReqs' = pendingReqs + 1

\* rbuffer_produced calls full_cb, on_rbuffer_full.
FullStops == reading' = (reading /\ ~stopped')

ReadCb(n) ==
  /\ reading /\ Polling
  /\ n <= sent - fpos
  /\ Produced([i \in 1 .. n |-> fpos + i])
  /\ fpos' = fpos + n
  /\ FullStops
  /\ Invoke(n, FALSE)
  /\ UNCHANGED <<peerVars, frames, closeVars, consumerVars>>

\* The read gives nothing: the peer is gone and everything was read, or a file
\* is read when there is no room.
NothingRead == (hungUp /\ fpos = sent) \/ (IsFile /\ WriteCount = 0)

ReadEof ==
  /\ reading /\ Polling
  /\ NothingRead
  /\ reading' = FALSE
  /\ Invoke(0, TRUE)
  /\ UNCHANGED <<rbufferVars, peerVars, fpos, frames, closeVars, consumerVars>>

\* close_cb: the buffer is freed.
CloseCb ==
  /\ handle = "closing" /\ Polling
  /\ handle' = "closed"
  /\ UNCHANGED <<rbufferVars, peerVars, fpos, reading, queueVars, closed, closes, consumerVars>>

-----------------------------------------------------------------------------
\* read_event: the call of read_cb ...

\* Mutant: the stream stays stopped.
NotRestarted == reading' = reading

\* on_rbuffer_nonfull: the stream is started again.
Restarted == reading' = (reading \/ (stopped /\ ~stopped'))

\* Given to the consumer and consumed, in one go.
Took(bytes) ==
  /\ shown' = shown \o bytes
  /\ IF bytes = <<>> THEN UNCHANGED <<rbufferVars, reading>>
     ELSE Consume(Len(bytes), bytes) /\ Restarted

\* on_job_output: the bytes from read_ptr on, as memory has them.
AtReadPtr(count) ==
  [i \in 1 .. count |-> IF rp + i - 1 < Capacity THEN mem[rp + i - 1] ELSE NoByte]

\* out_data_cb: nothing but the lines that are complete before the wrap; at
\* the end of the output, or when the buffer is full, all that is before it.
ShellTakes(eof) ==
  LET chunk == ReadContiguous(ReadCount)
      ends == {i \in 1 .. Len(chunk) : chunk[i] \in NewLines}
      written == IF eof \/ (ends = {} /\ size = Capacity) THEN Len(chunk)
                 ELSE IF ends = {} THEN 0 ELSE CHOOSE i \in ends : \A j \in ends : j <= i
  IN  SubSeq(chunk, 1, written)

DispatchBegin ==
  /\ events # <<>>
  /\ frames = <<>> \/ Nested
  /\ LET e == Head(events)
     IN  /\ events' = Tail(events)
         /\ frames' = <<IF Consumer = "job" THEN e.count ELSE 0>> \o frames
         /\ eofs' = IF e.eof THEN eofs + 1 ELSE eofs
         /\ CASE Consumer = "job" ->
                   shown' = shown \o AtReadPtr(e.count) /\ UNCHANGED <<rbufferVars, reading>>
              [] Consumer = "read" -> Took(Content)
              [] Consumer = "shell" -> Took(ShellTakes(e.eof))
              [] Consumer = "none" -> UNCHANGED <<rbufferVars, reading, shown>>
  /\ UNCHANGED <<peerVars, fpos, pendingReqs, closeVars>>

\* stream_close_handle
CloseHandle == handle' = "closing" /\ closes' = closes + 1

\* Mutant: the job takes everything that is contiguous.
ConsumeContiguous(count) ==
  IF count = 0 THEN UNCHANGED <<rbufferVars, reading>>
  ELSE Consumed(ReadCount) /\ Restarted

ConsumeAfterCallback(count) ==
  IF count = 0 THEN UNCHANGED <<rbufferVars, reading>>
  ELSE /\ Consume(count, [i \in 1 .. count |-> Get(i - 1)])
       /\ Restarted

\* ... and what follows it: the job's rbuffer_consumed, and the end of read_event.
DispatchEnd ==
  /\ frames # <<>>
  /\ ConsumeAfterCallback(Head(frames))
  /\ frames' = Tail(frames)
  /\ pendingReqs' = pendingReqs - 1
  /\ IF closed /\ pendingReqs' = 0 THEN CloseHandle ELSE UNCHANGED <<handle, closes>>
  /\ UNCHANGED <<peerVars, fpos, events, closed, consumerVars>>

\* Mutant: stream_close does not look at pending_reqs.
CloseAtOnce ==
  /\ ~closed
  /\ Polling \/ frames # <<>>
  /\ closed' = TRUE
  /\ CloseHandle
  /\ reading' = FALSE
  /\ UNCHANGED <<rbufferVars, peerVars, fpos, queueVars, consumerVars>>

\* stream_close, from a read_cb or from another handler.
Close ==
  /\ ~closed
  /\ Polling \/ frames # <<>>
  /\ closed' = TRUE
  /\ IF pendingReqs = 0 THEN CloseHandle /\ reading' = FALSE
                        ELSE UNCHANGED <<handle, closes, reading>>
  /\ UNCHANGED <<rbufferVars, peerVars, fpos, queueVars, consumerVars>>

Next ==
  \/ PeerWrite
  \/ PeerClose
  \/ \E n \in 1 .. Capacity : ReadCb(n)
  \/ ReadEof
  \/ DispatchBegin
  \/ DispatchEnd
  \/ Close
  \/ CloseCb

Spec == Init /\ [][Next]_rstreamVars

\* The loop goes on polling and handling events, callbacks return, and the
\* peer writes what it has to; nobody has to close anything.
Fairness ==
  /\ WF_rstreamVars(PeerWrite)
  /\ WF_rstreamVars(\E n \in 1 .. Capacity : ReadCb(n))
  /\ WF_rstreamVars(ReadEof)
  /\ WF_rstreamVars(DispatchBegin)
  /\ WF_rstreamVars(DispatchEnd)
  /\ WF_rstreamVars(CloseCb)

LiveSpec == Spec /\ Fairness

-----------------------------------------------------------------------------
(***************************************************************************)
(* Properties                                                              *)
(***************************************************************************)

\* The types of the variables, those of the buffer among them.
TypeOK ==
  /\ RBufferTypeOK
  /\ setup \in Setups
  /\ sent \in 0 .. MaxBytes /\ fpos \in 0 .. sent
  /\ {hungUp, reading, closed} \subseteq BOOLEAN
  /\ events \in Seq([count : 0 .. Capacity, eof : BOOLEAN])
  /\ frames \in Seq(0 .. Capacity)
  /\ pendingReqs = Len(events) + Len(frames)
  /\ handle \in {"open", "closing", "closed"} /\ closes \in Nat
  /\ shown \in Seq(Byte \union {NoByte}) /\ eofs \in Nat

Counts(q) == [i \in DOMAIN q |-> q[i].count]

\* The sum of a sequence of counts.
Total(counts) ==
  LET sum[n \in 0 .. Len(counts)] == IF n = 0 THEN 0 ELSE sum[n - 1] + counts[n]
  IN  sum[Len(counts)]

\* The bytes in the buffer are those the pending events announce, no more and
\* no fewer, however the buffer wrapped: rbuffer_consumed(count) never takes
\* more than there is.
CountsAreExact ==
  /\ TypeOK
  /\ (Consumer = "job" /\ ~closed) =>
       size = Total(Counts(events)) + Total(frames)

\* An end of file is announced only when the peer is gone and everything was
\* read, and once: a file read into a full buffer would look like its end.
EofIsReal ==
  /\ (eofs > 0 \/ \E i \in 1 .. Len(events) : events[i].eof) => hungUp /\ fpos = sent
  /\ eofs <= 1

\* The consumer sees the peer's bytes in their order, none twice, none
\* skipped, none from beyond the end of the ring, and then the end.  (Not so a
\* job whose callback waits: what is handled inside it is given the same bytes
\* again.)
ShownInOrder == EofIsReal /\ (~Nested => \A i \in 1 .. Len(shown) : shown[i] = i)

\* The buffer outlives every event and handler that points to it, and uv_close
\* is called once.
FreedLast == closes <= 1 /\ (handle # "open" => events = <<>> /\ frames = <<>>)

\* The peer's bytes, and then its end, reach a consumer that does not close
\* the stream, through however small a buffer; and a stream that was closed
\* with events pending is closed in the end.
EverythingIsShown ==
  /\ hungUp /\ Consumer \in {"job", "read"} ~> closed \/ (Len(shown) = sent /\ eofs = 1)
  /\ closed ~> (handle = "closed")
=============================================================================

--------------------------- MODULE UIBridgeProofs ---------------------------
(***************************************************************************)
(* Theorems about UIBridge, for any sizes of the buffers and any bounds.   *)
(*                                                                         *)
(* The argument has two parts.  The keys: all of them, in the order in     *)
(* which they were typed, are in the buffers one behind the other          *)
(* (AllKeys); key_buffer is the main thread's from the event of            *)
(* flush_input to the end of its wait (Handing), and the keys of one read  *)
(* are forwarded before the next (Forwarding).  The calls: those on their  *)
(* way have the numbers from the last one handled to the last one made     *)
(* (Numbered), a suspension and a stop are the last ones made, for as long *)
(* as the main thread is held, or for ever (Suspension, Stops).            *)
(***************************************************************************)
EXTENDS UIBridge, SequenceLemmas, TLAPS

Key == 1 .. MaxKeys
FastEvent == Call \union [kind : {"read"}, keys : Seq(Key)]
                  \union [kind : {"winch", "cont", "suspend_event"}]

MainTypes ==
  /\ mpc \in {"attach", "run", "suspend", "suspended", "stop", "join", "exit"}
  /\ taking \in -1 .. KeyBufferSize
  /\ mainq \in Seq({"keys", "refresh"})
  /\ mutex \in {"none", "main"}
  /\ upc \in {"start", "poll", "write", "flush", "lock", "wait", "closing", "gone"}

Flags ==
  /\ attached \in BOOLEAN /\ ready \in BOOLEAN /\ stopped \in BOOLEAN
  /\ suspended \in BOOLEAN /\ contReceived \in BOOLEAN /\ stop \in BOOLEAN
  /\ up \in BOOLEAN /\ waiting \in BOOLEAN /\ untilEmpty \in BOOLEAN
  /\ winch \in BOOLEAN /\ cont \in BOOLEAN

CallTypes == uiq \in Seq(Call) /\ fast \in Seq(FastEvent) /\ made \in Nat /\ ran \in Nat

KeyTypes ==
  /\ input \in Seq(Key) /\ typedIn \in Seq(Key) /\ todo \in Seq(Key)
  /\ keyBuffer \in Seq(Key) /\ tty \in Seq(Key) /\ typed \in 0 .. MaxKeys
  /\ Len(input) <= InputSize /\ Len(keyBuffer) <= KeyBufferSize

Types == MainTypes /\ Flags /\ CallTypes /\ KeyTypes

\* flush_input gives key_buffer away: from its event to the end of its wait
\* there is one event, or the main thread has taken keys, and not both.
KeysAt(q) == {i \in DOMAIN q : q[i] = "keys"}
Given == upc = "lock" \/ (upc = "wait" /\ waiting)

Handing ==
  /\ \A i, j \in KeysAt(mainq) : i = j
  /\ taking >= 0 => KeysAt(mainq) = {}
  /\ taking >= 0 \/ KeysAt(mainq) # {} => Given

\* The keys of one read_cb at a time are forwarded.
Forwarding ==
  /\ upc \notin {"write", "flush", "lock", "wait"} => todo = <<>>
  /\ upc \in {"flush", "lock", "wait"} /\ untilEmpty => todo = <<>>
  /\ \A i, j \in Reads(fast) : i = j

ReadFrom == SubSeq(keyBuffer, 1 + (IF taking > 0 THEN taking ELSE 0), Len(keyBuffer))

AllKeys == typedIn \o input \o ReadFrom \o todo \o Pending(fast) \o tty = [i \in 1 .. typed |-> i]

\* The calls on their way to the UI are numbered from the last one handled to
\* the last one made.
CallsAt(q) == {i \in DOMAIN q : q[i].kind \in {"call", "suspend", "stop"}}

\* Those in q have the numbers behind `last`, to `end`.
NumbersOf(q, last, end) ==
  /\ \A i \in CallsAt(q) : q[i].n \in last + 1 .. end
  /\ \A i, j \in CallsAt(q) : i < j => q[i].n < q[j].n
  /\ \A m \in last + 1 .. end : \E i \in CallsAt(q) : q[i].n = m

Numbered ==
  /\ Len(uiq) <= made
  /\ \A i \in 1 .. Len(uiq) : uiq[i].n = made - Len(uiq) + i
  /\ ran <= made - Len(uiq)
  /\ NumbersOf(fast, ran, made - Len(uiq))

\* A suspension is between the call of ui_bridge_suspend and the signal.
Held == mpc = "suspend" \/ (mpc = "suspended" /\ ~ready)
EventsIn(q) == {i \in DOMAIN q : q[i].kind = "suspend_event"}

Suspension ==
  /\ mutex = "main" <=> mpc = "suspend"
  /\ \A i \in CallsAt(fast) : fast[i].kind = "suspend" => fast[i].n = made /\ Held
  /\ \A i \in DOMAIN uiq : uiq[i].kind = "suspend" => uiq[i].n = made /\ Held
  /\ EventsIn(fast) # {} \/ suspended => ran = made /\ Held
  /\ \A i, j \in EventsIn(fast) : i = j
  /\ suspended => EventsIn(fast) = {} /\ ~up

\* Nothing is made for a UI that was told to stop.
Stopping == mpc \in {"stop", "join", "exit"}

Stops ==
  /\ upc = "start" => mpc = "attach" /\ ~ready /\ made = 0 /\ ~suspended /\ fast = <<>> /\ ~stop
  /\ mpc = "attach" => made = 0
  /\ \A i \in CallsAt(fast) : fast[i].kind = "stop" => fast[i].n = made /\ Stopping
  /\ \A i \in DOMAIN uiq : uiq[i].kind = "stop" => uiq[i].n = made /\ Stopping
  /\ stop => Stopping /\ ran = made
  /\ Stopping /\ Careful => NoWinch
  /\ stopped \/ upc \in {"closing", "gone"} => upc \in {"closing", "gone"} /\ stop
  /\ mpc = "exit" => ~attached
  /\ up \/ suspended \/ stop \/ upc = "start"

-----------------------------------------------------------------------------
(***************************************************************************)
(* Which actions change what.                                              *)
(***************************************************************************)
\* Where the keys are.
keyState == <<taking, input, typedIn, todo, keyBuffer, tty, typed>>

LEMMA WhoMovesKeys ==
  [Next]_vars => \/ UNCHANGED keyState
                 \/ TakeKeys \/ TookKeys \/ ReadKey
                 \/ Poll \/ HandleRead \/ WriteKey \/ Type
BY DEF Next, MainStep, UIStep, Attach, MainCall, SuspendCall, SuspendWait, SuspendReturn, Stop,
       Stopped, Joined, Refresh, Start, HandleCall, HandleSuspend, SuspendEvent, HandleCont,
       Resume, HandleWinch, HandleStop, Finish, Close, FlushBegin, FlushSchedule, FlushWait,
       Flushed, ChangeSize, Fg, keyState, vars, mainVars, bridgeVars, keyVars, uiVars, worldVars

\* The handlers that schedule nothing on their own loop.
Handles == \/ HandleCall \/ SuspendEvent \/ HandleCont \/ HandleWinch \/ HandleStop
           \/ HandleRead

LEMMA WhoChangesFast ==
  [Next]_vars => UNCHANGED fast \/ Poll \/ HandleSuspend \/ Handles
BY DEF Next, MainStep, UIStep, Attach, MainCall, SuspendCall, SuspendWait, SuspendReturn, Stop,
       Stopped, Joined, TakeKeys, TookKeys, Refresh, ReadKey, Start, Resume, Finish, Close,
       WriteKey, FlushBegin, FlushSchedule, FlushWait, Flushed, Type, ChangeSize, Fg, Handles,
       vars, mainVars, bridgeVars, keyVars, uiVars, worldVars

LEMMA HandlesFacts ==
  ASSUME Handles
  PROVE  upc = "poll" /\ fast # <<>> /\ fast' = Tail(fast)
BY DEF Handles, HandleCall, SuspendEvent, HandleCont, HandleWinch, HandleStop, HandleRead, Handling

LEMMA WhoChangesMainq ==
  [Next]_vars => \/ UNCHANGED mainq
                 \/ TakeKeys \/ Refresh \/ HandleWinch \/ FlushSchedule
BY DEF Next, MainStep, UIStep, Attach, MainCall, SuspendCall, SuspendWait, SuspendReturn, Stop,
       Stopped, Joined, TookKeys, ReadKey, Start, Poll, HandleCall, HandleSuspend,
       SuspendEvent, HandleCont, Resume, HandleStop, Finish, Close, HandleRead,
       WriteKey, FlushBegin, FlushWait, Flushed, Type, ChangeSize, Fg,
       vars, mainVars, bridgeVars, keyVars, uiVars, worldVars

LEMMA WhoRuns ==
  [Next]_vars => UNCHANGED ran \/ HandleCall \/ HandleSuspend \/ HandleStop
BY DEF Next, MainStep, UIStep, Attach, MainCall, SuspendCall, SuspendWait, SuspendReturn, Stop,
       Stopped, Joined, TakeKeys, TookKeys, Refresh, ReadKey, Start, Poll, SuspendEvent,
       HandleCont, Resume, HandleWinch, Finish, Close, HandleRead, WriteKey, FlushBegin,
       FlushSchedule, FlushWait, Flushed, Type, ChangeSize, Fg,
       vars, mainVars, bridgeVars, keyVars, uiVars, worldVars

CallMade == Attach \/ MainCall \/ SuspendCall \/ Stop \/ Refresh

LEMMA WhoCalls ==
  [Next]_vars => UNCHANGED <<made, uiq>> \/ Poll \/ CallMade
BY DEF Next, MainStep, UIStep, SuspendWait, SuspendReturn, Stopped, Joined, TakeKeys, TookKeys,
       ReadKey, Start, HandleCall, HandleSuspend, SuspendEvent, HandleCont, Resume, HandleWinch,
       HandleStop, Finish, Close, HandleRead, WriteKey, FlushBegin, FlushSchedule, FlushWait,
       Flushed, Type, ChangeSize, Fg, NoCall, CallMade,
       vars, mainVars, bridgeVars, keyVars, uiVars, worldVars

LEMMA CallMadeFacts ==
  ASSUME CallMade
  PROVE  \E kind \in {"call", "suspend", "stop"} :
           /\ made' = made + 1
           /\ uiq' = Append(uiq, [kind |-> kind, n |-> made + 1])
           /\ kind = "suspend" => SuspendCall
           /\ kind = "stop" => Stop
           /\ UNCHANGED uiVars
BY DEF CallMade, Attach, MainCall, SuspendCall, Stop, Refresh, UiCall

LEMMA WhoMoves ==
  [Next]_vars => \/ UNCHANGED <<mpc, attached, mutex, ready>>
                 \/ Attach \/ SuspendCall \/ SuspendWait \/ SuspendReturn
                 \/ Stop \/ Stopped \/ Joined \/ Start \/ Resume
BY DEF Next, MainStep, UIStep, MainCall, TakeKeys, TookKeys, Refresh, ReadKey, Poll, HandleCall,
       HandleSuspend, SuspendEvent, HandleCont, HandleWinch, HandleStop, Finish, Close,
       HandleRead, WriteKey, FlushBegin, FlushSchedule, FlushWait, Flushed, Type, ChangeSize,
       Fg, vars, mainVars, bridgeVars, keyVars, uiVars, worldVars

LEMMA WhoStops ==
  [Next]_vars => \/ UNCHANGED <<suspended, up, stop>>
                 \/ Start \/ SuspendEvent \/ Resume \/ HandleStop
BY DEF Next, MainStep, UIStep, Attach, MainCall, SuspendCall, SuspendWait, SuspendReturn, Stop,
       Stopped, Joined, TakeKeys, TookKeys, Refresh, ReadKey, Poll, HandleCall, HandleSuspend,
       HandleCont, HandleWinch, Finish, Close, HandleRead, WriteKey, FlushBegin, FlushSchedule,
       FlushWait, Flushed, Type, ChangeSize, Fg,
       vars, mainVars, bridgeVars, keyVars, uiVars, worldVars

LEMMA WhoTells ==
  [Next]_vars => UNCHANGED stopped \/ Stop \/ Finish
BY DEF Next, MainStep, UIStep, Attach, MainCall, SuspendCall, SuspendWait, SuspendReturn, Continue,
       Stopped, Joined, TakeKeys, TookKeys, Refresh, ReadKey, Start, Poll, HandleCall,
       HandleSuspend, SuspendEvent, HandleCont, Resume, HandleWinch, HandleStop, Close,
       HandleRead, WriteKey, FlushBegin, FlushSchedule, FlushWait, Flushed, Type, ChangeSize,
       Fg, vars, mainVars, bridgeVars, keyVars, uiVars, worldVars

LEMMA WhoSignals ==
  [Next]_vars => UNCHANGED winch \/ Poll \/ ChangeSize
BY DEF Next, MainStep, UIStep, Attach, MainCall, SuspendCall, SuspendWait, SuspendReturn, Stop,
       Stopped, Joined, TakeKeys, TookKeys, Refresh, ReadKey, Start, HandleCall, HandleSuspend,
       SuspendEvent, HandleCont, Resume, HandleWinch, HandleStop, Finish, Close, HandleRead,
       WriteKey, FlushBegin, FlushSchedule, FlushWait, Flushed, Type, Fg,
       vars, mainVars, bridgeVars, keyVars, uiVars, worldVars

LEMMA WhoChangesFlush ==
  [Next]_vars => \/ UNCHANGED <<upc, waiting, untilEmpty, todo>>
                 \/ TookKeys \/ Start \/ Finish \/ Close \/ HandleRead \/ WriteKey
                 \/ FlushBegin \/ FlushSchedule \/ FlushWait \/ Flushed
BY DEF Next, MainStep, UIStep, Attach, MainCall, SuspendCall, SuspendWait, SuspendReturn, Stop,
       Stopped, Joined, TakeKeys, Refresh, ReadKey, Poll, HandleCall, HandleSuspend,
       SuspendEvent, HandleCont, Resume, HandleWinch, HandleStop, Type, ChangeSize, Fg,
       vars, mainVars, bridgeVars, keyVars, uiVars, worldVars

-----------------------------------------------------------------------------
(***************************************************************************)
(* The events of the loop of the UI                                        *)
(***************************************************************************)
LEMMA EventFacts ==
  ASSUME NEW e \in FastEvent
  PROVE  /\ e.kind \in {"call", "suspend", "stop", "read", "winch", "cont", "suspend_event"}
         /\ e.kind = "read" => e.keys \in Seq(Key)
         /\ e.kind \in {"call", "suspend", "stop"} => e.n \in Nat
BY DEF FastEvent, Call

LEMMA CallFacts ==
  ASSUME NEW q \in Seq(Call)
  PROVE  q \in Seq(FastEvent) /\ Reads(q) = {}
<1>1. Call \subseteq FastEvent
  BY DEF FastEvent
<1>2. q \in Seq(FastEvent)
  BY <1>1
<1>3. \A i \in DOMAIN q : q[i] \in Call
  OBVIOUS
<1>4. Reads(q) = {}
  BY <1>3 DEF Reads, Call
<1>5. QED
  BY <1>2, <1>4

LEMMA OneEvent ==
  ASSUME NEW e \in FastEvent
  PROVE  /\ <<e>> \in Seq(FastEvent) /\ Len(<<e>>) = 1 /\ <<e>>[1] = e
         /\ e.kind # "read" => Reads(<<e>>) = {}
         /\ e.kind = "read" => Reads(<<e>>) = {1} /\ Pending(<<e>>) = e.keys
BY DEF Reads, Pending

OneRead(q) == \A i, j \in Reads(q) : i = j

\* What stands before and behind the event with the keys does not matter.
LEMMA PendingAround ==
  ASSUME NEW s \in Seq(FastEvent), NEW u \in Seq(FastEvent), Reads(s) = {}
  PROVE  /\ OneRead(s \o u) <=> OneRead(u)
         /\ OneRead(u \o s) <=> OneRead(u)
         /\ OneRead(u) => Pending(s \o u) = Pending(u) /\ Pending(u \o s) = Pending(u)
<1>1. /\ Len(s) \in Nat /\ Len(u) \in Nat
      /\ DOMAIN s = 1 .. Len(s) /\ DOMAIN u = 1 .. Len(u)
      /\ DOMAIN (s \o u) = 1 .. Len(s) + Len(u)
      /\ \A i \in 1 .. Len(s) : (s \o u)[i] = s[i]
      /\ \A i \in 1 .. Len(u) : (s \o u)[Len(s) + i] = u[i]
  BY ConcatFacts
<1>2. /\ DOMAIN (u \o s) = 1 .. Len(u) + Len(s)
      /\ \A i \in 1 .. Len(u) : (u \o s)[i] = u[i]
      /\ \A i \in 1 .. Len(s) : (u \o s)[Len(u) + i] = s[i]
  BY ConcatFacts
<1>3. Reads(s \o u) = {Len(s) + i : i \in Reads(u)}
  <2>1. ASSUME NEW i \in Reads(u) PROVE Len(s) + i \in Reads(s \o u)
    <3>1. i \in 1 .. Len(u) /\ u[i].kind = "read"
      BY <1>1 DEF Reads
    <3>2. Len(s) + i \in 1 .. Len(s) + Len(u) /\ (s \o u)[Len(s) + i] = u[i]
      BY <1>1, <3>1
    <3>3. QED
      BY <1>1, <3>1, <3>2 DEF Reads
  <2>2. ASSUME NEW k \in Reads(s \o u) PROVE \E i \in Reads(u) : k = Len(s) + i
    <3>1. k \in 1 .. Len(s) + Len(u) /\ (s \o u)[k].kind = "read"
      BY <1>1 DEF Reads
    <3>2. ~(k \in 1 .. Len(s))
      BY <1>1, <3>1 DEF Reads
    <3>3. k - Len(s) \in 1 .. Len(u) /\ Len(s) + (k - Len(s)) = k
      BY <1>1, <3>1, <3>2
    <3>4. (s \o u)[Len(s) + (k - Len(s))] = u[k - Len(s)]
      BY <1>1, <3>3
    <3>5. k - Len(s) \in Reads(u)
      BY <1>1, <3>1, <3>3, <3>4 DEF Reads
    <3>6. QED
      BY <3>3, <3>5
  <2>3. QED
    BY <2>1, <2>2
<1>4. Reads(u \o s) = Reads(u)
  <2>1. ASSUME NEW i \in Reads(u) PROVE i \in Reads(u \o s)
    <3>1. i \in 1 .. Len(u) /\ u[i].kind = "read"
      BY <1>1 DEF Reads
    <3>2. i \in 1 .. Len(u) + Len(s) /\ (u \o s)[i] = u[i]
      BY <1>1, <1>2, <3>1
    <3>3. QED
      BY <1>2, <3>1, <3>2 DEF Reads
  <2>2. ASSUME NEW k \in Reads(u \o s) PROVE k \in Reads(u)
    <3>1. k \in 1 .. Len(u) + Len(s) /\ (u \o s)[k].kind = "read"
      BY <1>2 DEF Reads
    <3>2. ASSUME k > Len(u) PROVE FALSE
      <4>1. k - Len(u) \in 1 .. Len(s) /\ Len(u) + (k - Len(u)) = k
        BY <1>1, <3>1, <3>2
      <4>2. (u \o s)[Len(u) + (k - Len(u))] = s[k - Len(u)]
        BY <1>2, <4>1
      <4>3. k - Len(u) \in Reads(s)
        BY <1>1, <3>1, <4>1, <4>2 DEF Reads
      <4>4. QED
        BY <4>3
    <3>3. k \in 1 .. Len(u)
      BY <1>1, <3>1, <3>2
    <3>4. QED
      BY <1>1, <1>2, <3>1, <3>3 DEF Reads
  <2>3. QED
    BY <2>1, <2>2
<1>5. Reads(u) \subseteq Nat
  BY <1>1 DEF Reads
<1>6. OneRead(s \o u) <=> OneRead(u)
  <2>1. ASSUME OneRead(u) PROVE OneRead(s \o u)
    BY <1>3, <2>1 DEF OneRead
  <2>2. ASSUME OneRead(s \o u), NEW i \in Reads(u), NEW j \in Reads(u) PROVE i = j
    <3>1. Len(s) + i = Len(s) + j
      BY <1>3, <2>2 DEF OneRead
    <3>2. QED
      BY <1>1, <1>5, <3>1
  <2>3. QED
    BY <2>1, <2>2 DEF OneRead
<1>7. OneRead(u \o s) <=> OneRead(u)
  BY <1>4 DEF OneRead
<1>8. ASSUME OneRead(u) PROVE Pending(s \o u) = Pending(u) /\ Pending(u \o s) = Pending(u)
  <2>1. CASE Reads(u) = {}
    BY <1>3, <1>4, <2>1 DEF Pending
  <2>2. CASE Reads(u) # {}
    <3>1. PICK i \in Reads(u) : Reads(u) = {i}
      BY <1>8, <2>2 DEF OneRead
    <3>2. Reads(s \o u) = {Len(s) + i} /\ Reads(u \o s) = {i}
      BY <1>3, <1>4, <3>1
    <3>3. i \in 1 .. Len(u) /\ (s \o u)[Len(s) + i] = u[i] /\ (u \o s)[i] = u[i]
      BY <1>1, <1>2 DEF Reads
    <3>4. /\ Pending(u) = u[i].keys
          /\ Pending(s \o u) = (s \o u)[Len(s) + i].keys
          /\ Pending(u \o s) = (u \o s)[i].keys
      BY <3>1, <3>2 DEF Pending
    <3>5. QED
      BY <3>3, <3>4
  <2>3. QED
    BY <2>1, <2>2
<1>9. QED
  BY <1>6, <1>7, <1>8

\* The keys that are pending are keys.
LEMMA PendingIsSeq ==
  ASSUME NEW q \in Seq(FastEvent)
  PROVE  Pending(q) \in Seq(Key)
<1>1. CASE Reads(q) = {}
  BY <1>1 DEF Pending
<1>2. CASE Reads(q) # {}
  <2>1. PICK i \in Reads(q) : Pending(q) = q[i].keys
    BY <1>2 DEF Pending
  <2>2. q[i] \in FastEvent /\ q[i].kind = "read"
    BY DEF Reads
  <2>3. QED
    BY <2>1, <2>2, EventFacts
<1>3. QED
  BY <1>1, <1>2

LEMMA ReadyFacts ==
  ASSUME NEW keys \in Seq(Key), Flags
  PROVE  /\ Ready(keys) \in Seq(FastEvent)
         /\ OneRead(Ready(keys))
         /\ CallsAt(Ready(keys)) = {} /\ EventsIn(Ready(keys)) = {}
         /\ ~winch => \A i \in DOMAIN Ready(keys) : Ready(keys)[i].kind # "winch"
         /\ Pending(Ready(keys)) = IF up /\ tty # <<>> THEN keys ELSE <<>>
<1> DEFINE r == IF up /\ tty # <<>> THEN <<[kind |-> "read", keys |-> keys]>> ELSE <<>>
           w == IF up /\ winch THEN <<[kind |-> "winch"]>> ELSE <<>>
           c == IF cont THEN <<[kind |-> "cont"]>> ELSE <<>>
<1>1. /\ [kind |-> "read", keys |-> keys] \in FastEvent
      /\ [kind |-> "winch"] \in FastEvent /\ [kind |-> "cont"] \in FastEvent
  BY DEF FastEvent
<1>2. /\ <<[kind |-> "read", keys |-> keys]>> \in Seq(FastEvent)
      /\ Reads(<<[kind |-> "read", keys |-> keys]>>) = {1}
      /\ Pending(<<[kind |-> "read", keys |-> keys]>>) = keys
  BY <1>1, OneEvent
<1>3. /\ <<[kind |-> "winch"]>> \in Seq(FastEvent) /\ Reads(<<[kind |-> "winch"]>>) = {}
      /\ <<[kind |-> "cont"]>> \in Seq(FastEvent) /\ Reads(<<[kind |-> "cont"]>>) = {}
  BY <1>1, OneEvent
<1>4. <<>> \in Seq(FastEvent) /\ Reads(<<>>) = {} /\ Pending(<<>>) = <<>>
  BY DEF Reads, Pending
<1>5. r \in Seq(FastEvent) /\ OneRead(r) /\ Pending(r) = IF up /\ tty # <<>> THEN keys ELSE <<>>
  BY <1>2, <1>4 DEF OneRead
<1>6. w \in Seq(FastEvent) /\ Reads(w) = {} /\ c \in Seq(FastEvent) /\ Reads(c) = {}
  BY <1>3, <1>4
<1>7. DOMAIN r \subseteq {1} /\ DOMAIN w \subseteq {1} /\ DOMAIN c \subseteq {1}
      /\ (\A i \in DOMAIN r : r[i].kind = "read")
      /\ (\A i \in DOMAIN w : w[i].kind = "winch") /\ (\A i \in DOMAIN c : c[i].kind = "cont")
  BY <1>1, OneEvent
<1>8. Ready(keys) = (r \o w) \o c
  BY DEF Ready
<1> HIDE DEF r, w, c
<1>9. /\ r \o w \in Seq(FastEvent) /\ OneRead(r \o w) /\ Pending(r \o w) = Pending(r)
  BY <1>5, <1>6, PendingAround, ConcatFacts
<1>10. /\ (r \o w) \o c \in Seq(FastEvent) /\ OneRead((r \o w) \o c)
       /\ Pending((r \o w) \o c) = Pending(r)
  BY <1>6, <1>9, PendingAround, ConcatFacts
<1>11. \A i \in DOMAIN ((r \o w) \o c) : ((r \o w) \o c)[i].kind \in {"read", "winch", "cont"}
  BY <1>5, <1>6, <1>7, <1>9
<1>12. ~winch => \A i \in DOMAIN ((r \o w) \o c) : ((r \o w) \o c)[i].kind # "winch"
  <2>1. ASSUME ~winch, NEW i \in DOMAIN ((r \o w) \o c) PROVE ((r \o w) \o c)[i].kind # "winch"
    <3>1. w = <<>>
      BY <2>1 DEF w
    <3>2. r \o w = r
      BY <1>5, <3>1, ConcatEmpty
    <3>3. \A k \in DOMAIN (r \o c) : (r \o c)[k].kind \in {"read", "cont"}
      BY <1>5, <1>6, <1>7
    <3>4. QED
      BY <2>1, <3>2, <3>3
  <2>2. QED
    BY <2>1
<1>13. CallsAt((r \o w) \o c) = {} /\ EventsIn((r \o w) \o c) = {}
  BY <1>11 DEF CallsAt, EventsIn
<1>14. QED
  BY <1>5, <1>8, <1>10, <1>12, <1>13

-----------------------------------------------------------------------------
(***************************************************************************)
(* Types                                                                   *)
(***************************************************************************)
\* The first event leaves: the keys stay, unless it is the one that has them.
LEMMA TailFacts ==
  ASSUME fast \in Seq(FastEvent), fast # <<>>
  PROVE  /\ Head(fast) \in FastEvent /\ <<Head(fast)>> \in Seq(FastEvent)
         /\ Tail(fast) \in Seq(FastEvent) /\ <<Head(fast)>> \o Tail(fast) = fast
         /\ Head(fast).kind # "read" /\ OneRead(fast) =>
              OneRead(Tail(fast)) /\ Pending(Tail(fast)) = Pending(fast)
         /\ Head(fast).kind = "read" /\ OneRead(fast) =>
              Reads(Tail(fast)) = {} /\ Pending(fast) = Head(fast).keys
<1>1. /\ Head(fast) \in FastEvent /\ <<Head(fast)>> \in Seq(FastEvent)
      /\ Tail(fast) \in Seq(FastEvent) /\ <<Head(fast)>> \o Tail(fast) = fast
  BY HeadTailFacts
<1>2. CASE Head(fast).kind # "read"
  <2>1. Reads(<<Head(fast)>>) = {}
    BY <1>1, <1>2, OneEvent
  <2>2. /\ OneRead(fast) <=> OneRead(Tail(fast))
        /\ OneRead(Tail(fast)) => Pending(fast) = Pending(Tail(fast))
    <3>1. /\ OneRead(<<Head(fast)>> \o Tail(fast)) <=> OneRead(Tail(fast))
          /\ OneRead(Tail(fast)) =>
               Pending(<<Head(fast)>> \o Tail(fast)) = Pending(Tail(fast))
      BY <1>1, <2>1, PendingAround
    <3>2. QED
      BY <1>1, <3>1
  <2>3. QED
    BY <1>1, <1>2, <2>2
<1>3. CASE Head(fast).kind = "read" /\ OneRead(fast)
  <2>1. 1 \in DOMAIN fast /\ fast[1] = Head(fast)
    BY <1>1
  <2>2. Reads(fast) = {1}
    BY <1>3, <2>1 DEF Reads, OneRead
  <2>3. Reads(Tail(fast)) = {}
    <3>1. ASSUME NEW i \in Reads(Tail(fast)) PROVE FALSE
      <4>1. i \in 1 .. Len(fast) - 1 /\ Tail(fast)[i] = fast[i + 1] /\ Tail(fast)[i].kind = "read"
            /\ Len(fast) \in Nat
        BY <1>1 DEF Reads
      <4>2. i + 1 \in 1 .. Len(fast) /\ fast[i + 1].kind = "read" /\ i + 1 # 1
        BY <4>1
      <4>3. i + 1 \in Reads(fast)
        BY <4>2 DEF Reads
      <4>4. QED
        BY <2>2, <4>2, <4>3
    <3>2. QED
      BY <3>1
  <2>4. Pending(fast) = Head(fast).keys
    BY <2>1, <2>2 DEF Pending
  <2>5. QED
    BY <1>1, <1>3, <2>3, <2>4
<1>4. QED
  BY <1>1, <1>2, <1>3

\* suspend_event goes behind the others.
LEMMA SuspendPush ==
  ASSUME fast \in Seq(FastEvent), HandleSuspend
  PROVE  /\ fast' = Tail(fast) \o <<[kind |-> "suspend_event"]>>
         /\ fast' \in Seq(FastEvent)
         /\ OneRead(fast) => OneRead(fast') /\ Pending(fast') = Pending(fast)
<1> DEFINE e == [kind |-> "suspend_event"]
<1>1. fast # <<>> /\ Head(fast).kind = "suspend" /\ fast' = Append(Tail(fast), e)
  BY DEF HandleSuspend, Handling
<1>2. e \in FastEvent
  BY DEF FastEvent
<1>3. e.kind = "suspend_event"
  OBVIOUS
<1> HIDE DEF e
<1>4. Tail(fast) \in Seq(FastEvent)
  BY <1>1, TailFacts
<1>5. fast' = Tail(fast) \o <<e>>
  BY <1>1, <1>2, <1>4, PushFacts
<1>6. <<e>> \in Seq(FastEvent) /\ Reads(<<e>>) = {}
  BY <1>2, <1>3, OneEvent
<1>7. fast' \in Seq(FastEvent)
  BY <1>4, <1>5, <1>6, ConcatFacts
<1>8. ASSUME OneRead(fast) PROVE OneRead(fast') /\ Pending(fast') = Pending(fast)
  <2>1. OneRead(Tail(fast)) /\ Pending(Tail(fast)) = Pending(fast)
    BY <1>1, <1>8, TailFacts
  <2>2. OneRead(Tail(fast) \o <<e>>) /\ Pending(Tail(fast) \o <<e>>) = Pending(Tail(fast))
    BY <1>4, <1>6, <2>1, PendingAround
  <2>3. QED
    BY <1>5, <2>1, <2>2
<1>9. QED
  BY <1>5, <1>7, <1>8 DEF e

\* loop_poll_events finds fast_events empty.
LEMMA PollFacts ==
  ASSUME Types, Poll
  PROVE  /\ fast' \in Seq(FastEvent) /\ OneRead(fast')
         /\ fast = <<>>
         /\ Pending(fast') \o tty' = tty
<1>1. uiq \in Seq(FastEvent) /\ Reads(uiq) = {} /\ tty \in Seq(Key) /\ Flags
  BY CallFacts DEF Types, CallTypes, KeyTypes
<1>2. /\ Ready(tty) \in Seq(FastEvent) /\ OneRead(Ready(tty))
      /\ Pending(Ready(tty)) = IF up /\ tty # <<>> THEN tty ELSE <<>>
  BY <1>1, ReadyFacts
<1>3. fast = <<>> /\ (fast' = uiq \o Ready(tty) \/ fast' = Ready(tty) \o uiq)
      /\ tty' = IF up THEN <<>> ELSE tty
  BY DEF Poll
<1>4. uiq \o Ready(tty) \in Seq(FastEvent) /\ Ready(tty) \o uiq \in Seq(FastEvent)
  BY <1>1, <1>2, ConcatFacts
<1>5. fast' \in Seq(FastEvent) /\ OneRead(fast') /\ Pending(fast') = Pending(Ready(tty))
  <2>1. /\ OneRead(uiq \o Ready(tty)) /\ OneRead(Ready(tty) \o uiq)
        /\ Pending(uiq \o Ready(tty)) = Pending(Ready(tty))
        /\ Pending(Ready(tty) \o uiq) = Pending(Ready(tty))
    BY <1>1, <1>2, PendingAround
  <2>2. CASE fast' = uiq \o Ready(tty)
    BY <1>4, <2>1, <2>2
  <2>3. CASE fast' = Ready(tty) \o uiq
    BY <1>4, <2>1, <2>3
  <2>4. QED
    BY <1>3, <2>2, <2>3
<1>6. Pending(fast') \o tty' = tty
  <2>1. CASE up /\ tty # <<>>
    BY <1>1, <1>2, <1>3, <1>5, <2>1, ConcatEmpty
  <2>2. CASE ~(up /\ tty # <<>>)
    <3>1. Pending(fast') = <<>> /\ tty' = tty
      BY <1>2, <1>3, <1>5, <2>2
    <3>2. QED
      BY <1>1, <3>1, ConcatEmpty
  <2>3. QED
    BY <2>1, <2>2
<1>7. QED
  BY <1>3, <1>5, <1>6

\* wait_input_enqueue takes what fits.
LEMMA TakenFacts ==
  ASSUME Types, TakeKeys
  PROVE  /\ taking = -1 /\ taking' \in 0 .. Len(keyBuffer)
         /\ input' = input \o SubSeq(keyBuffer, 1, taking')
         /\ input' \in Seq(Key) /\ Len(input') <= InputSize
         /\ UNCHANGED <<typedIn, todo, keyBuffer, tty, typed, fast>>
         /\ "keys" = Head(mainq) /\ mainq # <<>> /\ mainq' = Tail(mainq)
<1>1. /\ Len(keyBuffer) \in Nat /\ Len(input) \in Nat /\ InputSize \in Nat
      /\ Len(input) <= InputSize /\ keyBuffer \in Seq(Key) /\ input \in Seq(Key)
  BY BridgeAssumption, SMTT(60) DEF Types, KeyTypes
<1>2. \E k \in 0 .. Len(keyBuffer) :
        IF InputSize - Len(input) < Len(keyBuffer) THEN k = InputSize - Len(input)
                                                   ELSE k = Len(keyBuffer)
  <2>1. CASE InputSize - Len(input) < Len(keyBuffer)
    <3>1. InputSize - Len(input) \in 0 .. Len(keyBuffer)
      BY <1>1, <2>1
    <3>2. QED
      BY <2>1, <3>1
  <2>2. CASE ~(InputSize - Len(input) < Len(keyBuffer))
    BY <1>1, <2>2
  <2>3. QED
    BY <2>1, <2>2
<1>3. /\ taking' \in 0 .. Len(keyBuffer)
      /\ IF InputSize - Len(input) < Len(keyBuffer) THEN taking' = InputSize - Len(input)
                                                    ELSE taking' = Len(keyBuffer)
  BY <1>2, Zenon DEF TakeKeys
<1>4. input' = input \o SubSeq(keyBuffer, 1, taking')
  BY DEF TakeKeys
<1>5. SubSeq(keyBuffer, 1, taking') \in Seq(Key) /\ Len(SubSeq(keyBuffer, 1, taking')) = taking'
  BY <1>1, <1>3, SplitFacts
<1>6. input' \in Seq(Key) /\ Len(input') = Len(input) + taking'
  BY <1>1, <1>4, <1>5, ConcatFacts, ConcatLength
<1>7. taking' <= InputSize - Len(input)
  BY <1>1, <1>3
<1>8. /\ taking = -1 /\ "keys" = Head(mainq) /\ mainq # <<>> /\ mainq' = Tail(mainq)
      /\ UNCHANGED <<typedIn, todo, keyBuffer, tty, typed, fast>>
  BY DEF TakeKeys, Polls, uiVars, keyVars, worldVars
<1>9. QED
  BY <1>1, <1>3, <1>4, <1>6, <1>7, <1>8

LEMMA MainTypesStep ==
  ASSUME Types, [Next]_vars
  PROVE  MainTypes'
<1>1. mainq' \in Seq({"keys", "refresh"})
  <2>1. mainq \in Seq({"keys", "refresh"})
    BY DEF Types, MainTypes
  <2>2. CASE UNCHANGED mainq
    BY <2>1, <2>2
  <2>3. CASE TakeKeys \/ Refresh
    <3>1. mainq # <<>> /\ mainq' = Tail(mainq)
      BY <2>3 DEF TakeKeys, Refresh, Polls
    <3>2. QED
      BY <2>1, <3>1, HeadTailFacts
  <2>4. CASE HandleWinch \/ FlushSchedule
    BY <2>1, <2>4 DEF HandleWinch, FlushSchedule
  <2>5. QED
    BY <2>2, <2>3, <2>4, WhoChangesMainq
<1>2. taking' \in -1 .. KeyBufferSize
  <2>1. CASE TakeKeys
    <3>1. Len(keyBuffer) \in Nat /\ Len(keyBuffer) <= KeyBufferSize /\ KeyBufferSize \in Nat
      BY BridgeAssumption DEF Types, KeyTypes
    <3>2. taking' \in 0 .. Len(keyBuffer)
      BY <2>1, TakenFacts
    <3>3. QED
      BY <3>1, <3>2
  <2>2. CASE ~TakeKeys
    <3>1. taking' = taking \/ taking' = -1
      BY <2>2, WhoMovesKeys DEF keyState, TookKeys, ReadKey, Poll, HandleRead, WriteKey, Type,
         mainVars
    <3>2. KeyBufferSize \in Nat
      BY BridgeAssumption
    <3>3. QED
      BY <3>1, <3>2 DEF Types, MainTypes
  <2>3. QED
    BY <2>1, <2>2
<1>3. /\ mpc' \in {"attach", "run", "suspend", "suspended", "stop", "join", "exit"}
      /\ mutex' \in {"none", "main"}
  BY Zenon DEF Types, MainTypes, Next, MainStep, UIStep, Attach, MainCall, SuspendCall, SuspendWait,
       SuspendReturn, Stop, Stopped, Joined, TakeKeys, TookKeys, Refresh, ReadKey, Start, Poll,
       HandleCall, HandleSuspend, SuspendEvent, HandleCont, Resume, HandleWinch, HandleStop,
       Finish, Close, HandleRead, WriteKey, FlushBegin, FlushSchedule, FlushWait, Flushed, Type,
       ChangeSize, Fg, Continue, vars, mainVars, bridgeVars, keyVars, uiVars, worldVars
<1>4. upc' \in {"start", "poll", "write", "flush", "lock", "wait", "closing", "gone"}
  BY WhoChangesFlush
     DEF Types, MainTypes, TookKeys, Start, Finish, Close, HandleRead, WriteKey, FlushBegin,
         FlushSchedule, FlushWait, Flushed, mainVars, bridgeVars
<1>5. QED
  BY <1>1, <1>2, <1>3, <1>4 DEF MainTypes

LEMMA FlagsStep ==
  ASSUME Types, [Next]_vars
  PROVE  Flags'
<1>1. attached' \in BOOLEAN /\ ready' \in BOOLEAN /\ stopped' \in BOOLEAN
  BY Zenon DEF Types, Flags, Next, MainStep, UIStep, Attach, MainCall, SuspendCall, SuspendWait,
       SuspendReturn, Stop, Stopped, Joined, TakeKeys, TookKeys, Refresh, ReadKey, Start, Poll,
       HandleCall, HandleSuspend, SuspendEvent, HandleCont, Resume, HandleWinch, HandleStop,
       Finish, Close, HandleRead, WriteKey, FlushBegin, FlushSchedule, FlushWait, Flushed, Type,
       ChangeSize, Fg, Continue, vars, mainVars, bridgeVars, keyVars, uiVars, worldVars
<1>2. suspended' \in BOOLEAN /\ contReceived' \in BOOLEAN /\ stop' \in BOOLEAN /\ up' \in BOOLEAN
  BY ZenonT(60) DEF Types, Flags, Next, MainStep, UIStep, Attach, MainCall, SuspendCall, SuspendWait,
       SuspendReturn, Stop, Stopped, Joined, TakeKeys, TookKeys, Refresh, ReadKey, Start, Poll,
       HandleCall, HandleSuspend, SuspendEvent, HandleCont, Resume, HandleWinch, HandleStop,
       Finish, Close, HandleRead, WriteKey, FlushBegin, FlushSchedule, FlushWait, Flushed, Type,
       ChangeSize, Fg, vars, mainVars, bridgeVars, keyVars, uiVars, worldVars
<1>3. waiting' \in BOOLEAN /\ untilEmpty' \in BOOLEAN
  <2>1. CASE FlushBegin
    <3>1. untilEmpty' \in BOOLEAN
      BY <2>1 DEF FlushBegin
    <3>2. waiting' = waiting
      BY <2>1 DEF FlushBegin
    <3>3. QED
      BY <3>1, <3>2 DEF Types, Flags
  <2>2. CASE ~FlushBegin
    BY <2>2, WhoChangesFlush, Zenon
       DEF Types, Flags, TookKeys, Start, Finish, Close, HandleRead, WriteKey, FlushSchedule,
           FlushWait, Flushed, keyVars
  <2>3. QED
    BY <2>1, <2>2
<1>4. winch' \in BOOLEAN /\ cont' \in BOOLEAN
  BY DEF Types, Flags, Next, MainStep, UIStep, Attach, MainCall, SuspendCall, SuspendWait,
       SuspendReturn, Stop, Stopped, Joined, TakeKeys, TookKeys, Refresh, ReadKey, Start, Poll,
       HandleCall, HandleSuspend, SuspendEvent, HandleCont, Resume, HandleWinch, HandleStop,
       Finish, Close, HandleRead, WriteKey, FlushBegin, FlushSchedule, FlushWait, Flushed, Type,
       ChangeSize, Fg, vars, mainVars, bridgeVars, keyVars, uiVars, worldVars
<1>5. QED
  BY <1>1, <1>2, <1>3, <1>4 DEF Flags

LEMMA CallTypesStep ==
  ASSUME Types, [Next]_vars
  PROVE  CallTypes'
<1>1. fast \in Seq(FastEvent) /\ uiq \in Seq(Call) /\ made \in Nat /\ ran \in Nat
  BY DEF Types, CallTypes
<1>2. fast' \in Seq(FastEvent)
  <2>1. CASE UNCHANGED fast
    BY <1>1, <2>1
  <2>2. CASE Poll
    BY <2>2, PollFacts
  <2>3. CASE HandleSuspend
    BY <1>1, <2>3, SuspendPush
  <2>4. CASE Handles
    BY <1>1, <2>4, HandlesFacts, TailFacts
  <2>5. QED
    BY <2>1, <2>2, <2>3, <2>4, WhoChangesFast
<1>3. uiq' \in Seq(Call) /\ made' \in Nat
  <2>1. CASE UNCHANGED <<made, uiq>>
    BY <1>1, <2>1
  <2>2. CASE Poll
    BY <1>1, <2>2 DEF Poll
  <2>3. CASE CallMade
    <3>1. PICK kind \in {"call", "suspend", "stop"} :
                 made' = made + 1 /\ uiq' = Append(uiq, [kind |-> kind, n |-> made + 1])
      BY <2>3, CallMadeFacts
    <3>2. [kind |-> kind, n |-> made + 1] \in Call
      BY <1>1 DEF Call
    <3>3. QED
      BY <1>1, <3>1, <3>2
  <2>4. QED
    BY <2>1, <2>2, <2>3, WhoCalls
<1>4. ran' \in Nat
  <2>1. ran' = ran \/ HandleCall \/ HandleSuspend \/ HandleStop
    BY WhoRuns
  <2>2. CASE HandleCall \/ HandleSuspend \/ HandleStop
    <3>1. fast # <<>> /\ Head(fast).kind \in {"call", "suspend", "stop"} /\ ran' = Head(fast).n
      BY <2>2 DEF HandleCall, HandleSuspend, HandleStop, Handling
    <3>2. QED
      BY <1>1, <3>1, TailFacts, EventFacts
  <2>3. QED
    BY <1>1, <2>1, <2>2
<1>5. QED
  BY <1>2, <1>3, <1>4 DEF CallTypes

\* rbuffer_consumed and the end of flush_input's wait.
LEMMA TookFacts ==
  ASSUME Types, TookKeys
  PROVE  /\ taking >= 0 /\ upc # "lock" /\ taking' = -1 /\ waiting' = FALSE /\ UNCHANGED upc
         /\ keyBuffer' = SubSeq(keyBuffer, taking + 1, Len(keyBuffer))
         /\ UNCHANGED <<input, typedIn, todo, tty, typed, fast, mainq>>
BY DEF TookKeys, worldVars

LEMMA KeyTypesStep ==
  ASSUME Types, [Next]_vars
  PROVE  KeyTypes'
<1>1. /\ input \in Seq(Key) /\ typedIn \in Seq(Key) /\ todo \in Seq(Key)
      /\ keyBuffer \in Seq(Key) /\ tty \in Seq(Key) /\ typed \in 0 .. MaxKeys
      /\ Len(input) <= InputSize /\ Len(keyBuffer) <= KeyBufferSize
      /\ InputSize \in Nat /\ KeyBufferSize \in Nat /\ MaxKeys \in Nat
      /\ taking \in -1 .. KeyBufferSize
      /\ fast \in Seq(FastEvent)
  BY BridgeAssumption DEF Types, MainTypes, KeyTypes, CallTypes
<1>2. CASE UNCHANGED keyState
  BY <1>1, <1>2 DEF keyState, KeyTypes
<1>3. CASE TakeKeys
  BY <1>1, <1>3, TakenFacts DEF KeyTypes
<1>4. CASE TookKeys
  <2>1. /\ keyBuffer' = SubSeq(keyBuffer, taking + 1, Len(keyBuffer)) /\ taking \in Nat
        /\ UNCHANGED <<input, typedIn, todo, tty, typed>>
    BY <1>1, <1>4, TookFacts
  <2>2. keyBuffer' \in Seq(Key) /\ Len(keyBuffer') <= Len(keyBuffer)
    BY <1>1, <2>1
  <2>3. Len(keyBuffer') <= KeyBufferSize
    BY <1>1, <2>2
  <2>4. QED
    BY <1>1, <2>1, <2>2, <2>3 DEF KeyTypes
<1>5. CASE ReadKey
  <2>1. /\ input # <<>> /\ input' = Tail(input) /\ typedIn' = Append(typedIn, Head(input))
        /\ UNCHANGED <<todo, keyBuffer, tty, typed>>
    BY <1>5 DEF ReadKey, uiVars, keyVars, worldVars
  <2>2. input' \in Seq(Key) /\ Len(input') = Len(input) - 1 /\ Head(input) \in Key
    BY <1>1, <2>1, HeadTailFacts
  <2>3. typedIn' \in Seq(Key) /\ Len(input') <= InputSize
    BY <1>1, <2>1, <2>2
  <2>4. QED
    BY <1>1, <2>1, <2>2, <2>3 DEF KeyTypes
<1>6. CASE Poll
  <2>1. tty' \in {<<>>, tty} /\ UNCHANGED <<input, typedIn, todo, keyBuffer, typed>>
    BY <1>6 DEF Poll, mainVars, keyVars
  <2>2. tty' \in Seq(Key)
    BY <1>1, <2>1, ConcatEmpty
  <2>3. QED
    BY <1>1, <2>1, <2>2 DEF KeyTypes
<1>7. CASE HandleRead
  <2>1. /\ fast # <<>> /\ Head(fast).kind = "read" /\ todo' = Head(fast).keys
        /\ UNCHANGED <<input, typedIn, keyBuffer, tty, typed>>
    BY <1>7 DEF HandleRead, Handling, mainVars, worldVars
  <2>2. todo' \in Seq(Key)
    BY <1>1, <2>1, TailFacts, EventFacts
  <2>3. QED
    BY <1>1, <2>1, <2>2 DEF KeyTypes
<1>8. CASE WriteKey
  <2>1. /\ todo # <<>> /\ Len(keyBuffer) < KeyBufferSize
        /\ keyBuffer' = Append(keyBuffer, Head(todo)) /\ todo' = Tail(todo)
        /\ UNCHANGED <<input, typedIn, tty, typed>>
    BY <1>8 DEF WriteKey, mainVars, worldVars
  <2>2. Head(todo) \in Key /\ todo' \in Seq(Key)
    BY <1>1, <2>1, HeadTailFacts
  <2>3. keyBuffer' \in Seq(Key) /\ Len(keyBuffer') <= KeyBufferSize
    BY <1>1, <2>1, <2>2
  <2>4. QED
    BY <1>1, <2>1, <2>2, <2>3 DEF KeyTypes
<1>9. CASE Type
  <2>1. /\ typed < MaxKeys /\ typed' = typed + 1 /\ tty' = Append(tty, typed + 1)
        /\ UNCHANGED <<input, typedIn, todo, keyBuffer>>
    BY <1>9 DEF Type, mainVars, uiVars, keyVars
  <2>2. typed' \in 0 .. MaxKeys /\ typed + 1 \in Key
    BY <1>1, <2>1 DEF Key
  <2>3. tty' \in Seq(Key)
    BY <1>1, <2>1, <2>2
  <2>4. QED
    BY <1>1, <2>1, <2>2, <2>3 DEF KeyTypes
<1>10. QED
  BY <1>2, <1>3, <1>4, <1>5, <1>6, <1>7, <1>8, <1>9, WhoMovesKeys

LEMMA TypesStep ==
  ASSUME Types, [Next]_vars
  PROVE  Types'
BY MainTypesStep, FlagsStep, CallTypesStep, KeyTypesStep DEF Types

-----------------------------------------------------------------------------
(***************************************************************************)
(* The keys                                                                *)
(***************************************************************************)
\* There is one event of flush_input at a time.
LEMMA KeysTaken ==
  ASSUME NEW S, NEW q \in Seq(S), q # <<>>, \A i, j \in KeysAt(q) : i = j
  PROVE  /\ \A i, j \in KeysAt(Tail(q)) : i = j
         /\ KeysAt(Tail(q)) # {} => KeysAt(q) # {} /\ Head(q) # "keys"
         /\ Head(q) = "keys" => KeysAt(q) # {}
<1>1. /\ Len(q) \in Nat \ {0} /\ DOMAIN q = 1 .. Len(q) /\ q[1] = Head(q)
      /\ DOMAIN Tail(q) = 1 .. Len(q) - 1 /\ \A i \in 1 .. Len(q) - 1 : Tail(q)[i] = q[i + 1]
  OBVIOUS
<1>2. ASSUME NEW i \in KeysAt(Tail(q))
      PROVE  i \in Nat \ {0} /\ i + 1 \in KeysAt(q)
  <2>1. i \in 1 .. Len(q) - 1 /\ q[i + 1] = "keys"
    BY <1>1 DEF KeysAt
  <2>2. i + 1 \in 1 .. Len(q) /\ i \in Nat \ {0}
    BY <1>1, <2>1
  <2>3. QED
    BY <1>1, <2>1, <2>2 DEF KeysAt
<1>3. Head(q) = "keys" => 1 \in KeysAt(q)
  BY <1>1 DEF KeysAt
<1>4. ASSUME NEW i \in KeysAt(Tail(q)), NEW j \in KeysAt(Tail(q)) PROVE i = j
  <2>1. i + 1 = j + 1 /\ i \in Nat /\ j \in Nat
    BY <1>2
  <2>2. QED
    BY <2>1
<1>5. ASSUME NEW i \in KeysAt(Tail(q)), Head(q) = "keys" PROVE FALSE
  <2>1. i + 1 = 1 /\ i \in Nat \ {0}
    BY <1>2, <1>3, <1>5
  <2>2. QED
    BY <2>1
<1>6. QED
  BY <1>2, <1>3, <1>4, <1>5

LEMMA KeysPushed ==
  ASSUME NEW S, NEW q \in Seq(S), NEW e \in S
  PROVE  /\ e # "keys" => KeysAt(Append(q, e)) = KeysAt(q)
         /\ KeysAt(q) = {} => \A i, j \in KeysAt(Append(q, e)) : i = j
<1>1. /\ Len(q) \in Nat /\ DOMAIN q = 1 .. Len(q)
      /\ DOMAIN Append(q, e) = 1 .. Len(q) + 1 /\ Append(q, e)[Len(q) + 1] = e
      /\ \A i \in 1 .. Len(q) : Append(q, e)[i] = q[i]
  BY AppendFacts
<1>2. KeysAt(q) \subseteq KeysAt(Append(q, e))
  BY <1>1 DEF KeysAt
<1>3. ASSUME NEW i \in KeysAt(Append(q, e))
      PROVE  i \in KeysAt(q) \/ (i = Len(q) + 1 /\ e = "keys")
  <2>1. i \in 1 .. Len(q) + 1 /\ Append(q, e)[i] = "keys"
    BY <1>1 DEF KeysAt
  <2>2. CASE i = Len(q) + 1
    BY <1>1, <2>1, <2>2
  <2>3. CASE i # Len(q) + 1
    <3>1. i \in 1 .. Len(q)
      BY <1>1, <2>1, <2>3
    <3>2. QED
      BY <1>1, <2>1, <3>1 DEF KeysAt
  <2>4. QED
    BY <2>2, <2>3
<1>4. QED
  BY <1>2, <1>3

LEMMA HandingStep ==
  ASSUME Types, Handing, [Next]_vars
  PROVE  Handing'
<1>1. /\ mainq \in Seq({"keys", "refresh"}) /\ taking \in Int
      /\ upc \in {"start", "poll", "write", "flush", "lock", "wait", "closing", "gone"}
      /\ \A i, j \in KeysAt(mainq) : i = j
      /\ taking >= 0 => KeysAt(mainq) = {}
      /\ taking >= 0 \/ KeysAt(mainq) # {} => Given
  BY BridgeAssumption DEF Types, MainTypes, Handing
<1>2. CASE TakeKeys
  <2>1. /\ mainq # <<>> /\ mainq' = Tail(mainq) /\ Head(mainq) = "keys"
        /\ UNCHANGED <<upc, waiting>>
    BY <1>2, TakenFacts DEF TakeKeys, uiVars, keyVars
  <2>2. KeysAt(Tail(mainq)) = {} /\ KeysAt(mainq) # {}
    BY <1>1, <2>1, KeysTaken
  <2>3. Given' /\ KeysAt(mainq') = {}
    BY <1>1, <2>1, <2>2 DEF Given
  <2>4. QED
    BY <2>3 DEF Handing
<1>3. CASE TookKeys
  <2>1. taking >= 0 /\ taking' = -1 /\ mainq' = mainq
    BY <1>3, TookFacts
  <2>2. KeysAt(mainq') = {} /\ ~(taking' >= 0)
    BY <1>1, <2>1
  <2>3. QED
    BY <2>2 DEF Handing
<1>4. CASE Refresh \/ HandleWinch
  <2>1. UNCHANGED <<taking, upc, waiting>>
    BY <1>4 DEF Refresh, HandleWinch, mainVars, uiVars, keyVars
  <2>2. \/ mainq # <<>> /\ mainq' = Tail(mainq)
        \/ mainq' = Append(mainq, "refresh")
    BY <1>4 DEF Refresh, HandleWinch, Polls
  <2>3. (\A i, j \in KeysAt(mainq') : i = j) /\ (KeysAt(mainq') # {} => KeysAt(mainq) # {})
    <3>1. CASE mainq # <<>> /\ mainq' = Tail(mainq)
      BY <1>1, <3>1, KeysTaken
    <3>2. CASE mainq' = Append(mainq, "refresh")
      <4>1. KeysAt(Append(mainq, "refresh")) = KeysAt(mainq)
        BY <1>1, KeysPushed
      <4>2. QED
        BY <1>1, <3>2, <4>1
    <3>3. QED
      BY <2>2, <3>1, <3>2
  <2>4. Given' <=> Given
    BY <2>1 DEF Given
  <2>5. QED
    BY <1>1, <2>1, <2>3, <2>4 DEF Handing
<1>5. CASE FlushSchedule
  <2>1. upc = "flush" /\ upc' = "lock" /\ mainq' = Append(mainq, "keys") /\ taking' = taking
    BY <1>5 DEF FlushSchedule, mainVars
  <2>2. ~(taking >= 0) /\ KeysAt(mainq) = {}
    BY <1>1, <2>1 DEF Given
  <2>3. \A i, j \in KeysAt(mainq') : i = j
    BY <1>1, <2>1, <2>2, KeysPushed
  <2>4. Given'
    BY <2>1 DEF Given
  <2>5. QED
    BY <2>1, <2>2, <2>3, <2>4 DEF Handing
<1>6. CASE UNCHANGED <<mainq, taking>>
  <2>1. CASE UNCHANGED <<upc, waiting>>
    <3>1. Given' <=> Given
      BY <2>1 DEF Given
    <3>2. QED
      BY <1>1, <1>6, <3>1 DEF Handing
  <2>2. CASE FlushWait
    <3>1. Given'
      BY <2>2, Zenon DEF FlushWait, Given
    <3>2. QED
      BY <1>1, <1>6, <3>1 DEF Handing
  <2>3. CASE ~FlushWait /\ ~UNCHANGED <<upc, waiting>> /\ ~TookKeys /\ ~FlushSchedule
    <3>1. \/ Start \/ Finish \/ Close \/ HandleRead \/ WriteKey \/ FlushBegin \/ Flushed
      BY <2>3, WhoChangesFlush, Zenon
    <3>2. ~Given
      BY <3>1 DEF Start, Finish, Close, HandleRead, WriteKey, FlushBegin, Flushed, Handling, Given
    <3>3. QED
      BY <1>1, <1>6, <3>2 DEF Handing
  <2>4. QED
    BY <1>3, <1>5, <2>1, <2>2, <2>3
<1>7. QED
  <2>1. \/ UNCHANGED mainq \/ TakeKeys \/ Refresh \/ HandleWinch \/ FlushSchedule
    BY WhoChangesMainq
  <2>2. taking' = taking \/ TakeKeys \/ TookKeys
    BY WhoMovesKeys DEF keyState, ReadKey, Poll, HandleRead, WriteKey, Type, mainVars
  <2>3. QED
    BY <1>2, <1>3, <1>4, <1>5, <1>6, <2>1, <2>2

\* No handler but read_cb takes keys.
LEMMA PendingKept ==
  ASSUME Types, OneRead(fast), [Next]_vars, ~HandleRead, ~Poll
  PROVE  OneRead(fast') /\ Pending(fast') = Pending(fast)
<1>1. fast \in Seq(FastEvent)
  BY DEF Types, CallTypes
<1>2. CASE UNCHANGED fast
  BY <1>2
<1>3. CASE HandleSuspend
  BY <1>1, <1>3, SuspendPush
<1>4. CASE Handles
  <2>1. fast # <<>> /\ fast' = Tail(fast)
    BY <1>4, HandlesFacts
  <2>2. Head(fast).kind # "read"
    BY <1>4 DEF Handles, HandleCall, SuspendEvent, HandleCont, HandleWinch, HandleStop, Handling
  <2>3. QED
    BY <1>1, <2>1, <2>2, TailFacts
<1>5. QED
  BY <1>2, <1>3, <1>4, WhoChangesFast

\* read_cb finds that all keys were forwarded.
LEMMA ReadFacts ==
  ASSUME Types, Forwarding, HandleRead
  PROVE  /\ upc = "poll" /\ upc' = "write" /\ todo = <<>> /\ todo' = Pending(fast)
         /\ OneRead(fast') /\ Pending(fast') = <<>>
         /\ UNCHANGED <<taking, input, typedIn, keyBuffer, tty, typed>>
<1>1. /\ fast \in Seq(FastEvent) /\ OneRead(fast)
      /\ upc \notin {"write", "flush", "lock", "wait"} => todo = <<>>
  BY DEF Types, CallTypes, Forwarding, OneRead
<1>2. /\ fast # <<>> /\ Head(fast).kind = "read" /\ todo' = Head(fast).keys
      /\ upc = "poll" /\ upc' = "write" /\ fast' = Tail(fast)
      /\ UNCHANGED <<taking, input, typedIn, keyBuffer, tty, typed>>
  BY DEF HandleRead, Handling, mainVars, worldVars
<1>3. Reads(Tail(fast)) = {} /\ Pending(fast) = Head(fast).keys
  BY <1>1, <1>2, TailFacts
<1>4. OneRead(fast') /\ Pending(fast') = <<>>
  BY <1>2, <1>3 DEF OneRead, Pending
<1>5. QED
  BY <1>1, <1>2, <1>3, <1>4

LEMMA ForwardingStep ==
  ASSUME Types, Forwarding, [Next]_vars
  PROVE  Forwarding'
<1>1. /\ upc \in {"start", "poll", "write", "flush", "lock", "wait", "closing", "gone"}
      /\ upc \notin {"write", "flush", "lock", "wait"} => todo = <<>>
      /\ upc \in {"flush", "lock", "wait"} /\ untilEmpty => todo = <<>>
  BY DEF Types, MainTypes, Forwarding
<1>2. OneRead(fast')
  <2>1. OneRead(fast)
    BY DEF Forwarding, OneRead
  <2>2. QED
    BY <2>1, PendingKept, PollFacts, ReadFacts
<1>3. /\ upc' \notin {"write", "flush", "lock", "wait"} => todo' = <<>>
      /\ upc' \in {"flush", "lock", "wait"} /\ untilEmpty' => todo' = <<>>
  <2>1. CASE UNCHANGED <<upc, waiting, untilEmpty, todo>> \/ TookKeys
    <3>1. UNCHANGED <<upc, untilEmpty, todo>>
      BY <2>1 DEF TookKeys
    <3>2. QED
      BY <1>1, <3>1
  <2>2. CASE Start \/ Finish \/ Close
    BY <1>1, <2>2 DEF Start, Finish, Close, keyVars
  <2>3. CASE HandleRead \/ WriteKey
    BY <1>1, <2>3 DEF HandleRead, WriteKey
  <2>4. CASE FlushBegin
    <3>1. upc' = "flush" /\ todo' = todo /\ (untilEmpty' <=> todo = <<>>)
      BY <2>4 DEF FlushBegin
    <3>2. QED
      BY <3>1
  <2>5. CASE FlushSchedule \/ FlushWait
    <3>1. UNCHANGED <<untilEmpty, todo>> /\ upc \in {"flush", "lock"} /\ upc' \in {"lock", "wait"}
      BY <2>5 DEF FlushSchedule, FlushWait, keyVars
    <3>2. QED
      BY <1>1, <3>1
  <2>6. CASE Flushed
    <3>1. /\ UNCHANGED <<untilEmpty, todo>> /\ upc = "wait"
          /\ upc' \in {"flush", "poll", "write"} /\ (upc' = "poll" => untilEmpty)
      BY <2>6 DEF Flushed, keyVars
    <3>2. QED
      BY <1>1, <3>1
  <2>7. QED
    BY <2>1, <2>2, <2>3, <2>4, <2>5, <2>6, WhoChangesFlush
<1>4. QED
  BY <1>2, <1>3 DEF Forwarding, OneRead

\* What wait_input_enqueue took and did not consume is in input_buffer.
LEMMA ReadFromFacts ==
  ASSUME Types
  PROVE  ReadFrom \in Seq(Key) /\ (taking <= 0 => ReadFrom = keyBuffer)
<1>1. keyBuffer \in Seq(Key) /\ taking \in Int /\ taking >= -1 /\ Len(keyBuffer) \in Nat
  BY BridgeAssumption DEF Types, MainTypes, KeyTypes
<1>2. CASE taking > 0
  <2>1. ReadFrom = SubSeq(keyBuffer, 1 + taking, Len(keyBuffer)) /\ 1 + taking \in Nat \ {0}
    BY <1>1, <1>2 DEF ReadFrom
  <2>2. QED
    BY <1>1, <1>2, <2>1
<1>3. CASE ~(taking > 0)
  <2>1. ReadFrom = SubSeq(keyBuffer, 1, Len(keyBuffer))
    BY <1>3 DEF ReadFrom
  <2>2. SubSeq(keyBuffer, 1, Len(keyBuffer)) = keyBuffer
    BY <1>1
  <2>3. QED
    BY <1>1, <2>1, <2>2
<1>4. QED
  BY <1>2, <1>3

Whole == typedIn \o input \o ReadFrom \o todo \o Pending(fast) \o tty

LEMMA PartsAreKeys ==
  ASSUME Types
  PROVE  /\ typedIn \in Seq(Key) /\ input \in Seq(Key) /\ ReadFrom \in Seq(Key)
         /\ todo \in Seq(Key) /\ Pending(fast) \in Seq(Key) /\ tty \in Seq(Key)
         /\ typedIn \o input \in Seq(Key)
         /\ typedIn \o input \o ReadFrom \in Seq(Key)
         /\ typedIn \o input \o ReadFrom \o todo \in Seq(Key)
         /\ typedIn \o input \o ReadFrom \o todo \o Pending(fast) \in Seq(Key)
<1>1. /\ typedIn \in Seq(Key) /\ input \in Seq(Key) /\ todo \in Seq(Key) /\ tty \in Seq(Key)
      /\ ReadFrom \in Seq(Key) /\ Pending(fast) \in Seq(Key)
  BY ReadFromFacts, PendingIsSeq DEF Types, KeyTypes, CallTypes
<1>2. typedIn \o input \in Seq(Key)
  BY <1>1, ConcatFacts
<1>3. typedIn \o input \o ReadFrom \in Seq(Key)
  BY <1>1, <1>2, ConcatFacts
<1>4. typedIn \o input \o ReadFrom \o todo \in Seq(Key)
  BY <1>1, <1>3, ConcatFacts
<1>5. typedIn \o input \o ReadFrom \o todo \o Pending(fast) \in Seq(Key)
  BY <1>1, <1>4, ConcatFacts
<1>6. QED
  BY <1>1, <1>2, <1>3, <1>4, <1>5

\* wait_input_enqueue: what it takes goes from one buffer to the other.
LEMMA TakeMoves ==
  ASSUME Types, Forwarding, TakeKeys
  PROVE  Whole' = Whole
<1> DEFINE front == SubSeq(keyBuffer, 1, taking')
           back == SubSeq(keyBuffer, taking' + 1, Len(keyBuffer))
<1>1. /\ taking = -1 /\ taking' \in 0 .. Len(keyBuffer) /\ input' = input \o front
      /\ UNCHANGED <<typedIn, todo, keyBuffer, tty, fast>>
  BY TakenFacts
<1>2. /\ ReadFrom = keyBuffer /\ keyBuffer \in Seq(Key) /\ Len(keyBuffer) \in Nat
      /\ input \in Seq(Key) /\ typedIn \in Seq(Key)
  BY <1>1, ReadFromFacts DEF Types, KeyTypes
<1>3. front \in Seq(Key) /\ back \in Seq(Key) /\ front \o back = keyBuffer
  BY <1>1, <1>2, SplitFacts
<1>4. ReadFrom' = back
  <2>1. CASE taking' > 0
    <3>1. 1 + taking' = taking' + 1 /\ keyBuffer' = keyBuffer
      BY <1>1, <1>2, <2>1
    <3>2. QED
      BY <2>1, <3>1 DEF ReadFrom
  <2>2. CASE ~(taking' > 0)
    <3>1. taking' = 0 /\ keyBuffer' = keyBuffer
      BY <1>1, <1>2, <2>2
    <3>2. QED
      BY <3>1 DEF ReadFrom
  <2>3. QED
    BY <2>1, <2>2
<1> HIDE DEF front, back
<1>5. (typedIn \o (input \o front)) \o back = (typedIn \o input) \o (front \o back)
  <2>1. typedIn \in Seq(Key) /\ input \in Seq(Key) /\ front \in Seq(Key) /\ back \in Seq(Key)
    BY <1>2, <1>3
  <2>2. typedIn \o (input \o front) = (typedIn \o input) \o front
    BY <2>1, ConcatAssoc, SMTT(60)
  <2>3. typedIn \o input \in Seq(Key)
    BY <2>1, ConcatFacts
  <2>4. ((typedIn \o input) \o front) \o back = (typedIn \o input) \o (front \o back)
    BY <2>1, <2>3, ConcatAssoc, SMTT(60)
  <2>5. QED
    BY <2>2, <2>4
<1>6. typedIn' \o input' \o ReadFrom' = typedIn \o input \o ReadFrom
  BY <1>1, <1>2, <1>3, <1>4, <1>5
<1>7. todo' = todo /\ Pending(fast') = Pending(fast) /\ tty' = tty
  BY <1>1
<1>8. QED
  BY <1>6, <1>7, Zenon DEF Whole

\* Then it consumes just that.
LEMMA TookMoves ==
  ASSUME Types, TookKeys
  PROVE  Whole' = Whole
<1>1. /\ taking >= 0 /\ taking' = -1
      /\ keyBuffer' = SubSeq(keyBuffer, taking + 1, Len(keyBuffer))
      /\ UNCHANGED <<input, typedIn, todo, tty, fast>>
      /\ taking \in Int /\ keyBuffer \in Seq(Key) /\ Types'
  <2>1. Types'
    BY TypesStep DEF Next, MainStep
  <2>2. QED
    <3>1. taking \in Int /\ keyBuffer \in Seq(Key)
      BY BridgeAssumption DEF Types, MainTypes, KeyTypes
    <3>2. QED
      BY <2>1, <3>1, TookFacts
<1>2. ReadFrom' = keyBuffer'
  <2>1. /\ ~(taking' > 0) /\ keyBuffer' \in Seq(Key)
    BY <1>1 DEF Types, KeyTypes
  <2>2. SubSeq(keyBuffer', 1, Len(keyBuffer')) = keyBuffer'
    BY <2>1
  <2>3. QED
    BY <2>1, <2>2 DEF ReadFrom
<1>3. ReadFrom = keyBuffer'
  <2>1. CASE taking > 0
    <3>1. 1 + taking = taking + 1
      BY <1>1
    <3>2. QED
      BY <1>1, <2>1, <3>1 DEF ReadFrom
  <2>2. CASE ~(taking > 0)
    <3>1. taking = 0
      BY <1>1, <2>2
    <3>2. QED
      BY <1>1, <2>2, <3>1 DEF ReadFrom
  <2>3. QED
    BY <2>1, <2>2
<1>4. QED
  BY <1>1, <1>2, <1>3 DEF Whole

\* os_inchar
LEMMA ReadKeyMoves ==
  ASSUME Types, ReadKey
  PROVE  Whole' = Whole
<1>1. /\ input # <<>> /\ input' = Tail(input) /\ typedIn' = Append(typedIn, Head(input))
      /\ UNCHANGED <<taking, keyBuffer, todo, tty, fast>>
  BY DEF ReadKey, uiVars, keyVars, worldVars
<1>2. /\ typedIn \in Seq(Key) /\ input \in Seq(Key)
      /\ Head(input) \in Key /\ Tail(input) \in Seq(Key)
      /\ <<Head(input)>> \in Seq(Key) /\ <<Head(input)>> \o Tail(input) = input
  BY <1>1, HeadTailFacts DEF Types, KeyTypes
<1>3. typedIn' = typedIn \o <<Head(input)>>
  BY <1>1, <1>2, PushFacts
<1>4. (typedIn \o <<Head(input)>>) \o Tail(input) = typedIn \o (<<Head(input)>> \o Tail(input))
  BY <1>2, ConcatAssoc
<1>5. typedIn' \o input' = typedIn \o input
  BY <1>1, <1>2, <1>3, <1>4
<1>6. ReadFrom' = ReadFrom
  BY <1>1 DEF ReadFrom
<1>7. QED
  BY <1>1, <1>5, <1>6 DEF Whole

\* loop_poll_events: what was typed is given to read_cb.
LEMMA PollMoves ==
  ASSUME Types, Poll
  PROVE  Whole' = Whole
<1> DEFINE before == typedIn \o input \o ReadFrom \o todo
<1>1. /\ before \in Seq(Key) /\ Pending(fast') \in Seq(Key) /\ tty \in Seq(Key)
      /\ fast = <<>> /\ Pending(fast') \o tty' = tty
      /\ UNCHANGED <<taking, input, typedIn, todo, keyBuffer>>
  BY PartsAreKeys, PollFacts, PendingIsSeq DEF Poll, mainVars, keyVars
<1>2. Pending(fast) = <<>>
  BY <1>1 DEF Pending, Reads
<1>3. before' = before
  BY <1>1 DEF ReadFrom
<1>4. tty' \in Seq(Key)
  BY <1>1, ConcatEmpty DEF Poll
<1> HIDE DEF before
<1>5. (before \o Pending(fast')) \o tty' = before \o (Pending(fast') \o tty')
  <2>1. before \in Seq(Key) /\ Pending(fast') \in Seq(Key) /\ tty' \in Seq(Key)
    BY <1>1, <1>4
  <2>2. QED
    BY <2>1, ConcatAssoc
<1>6. before \o Pending(fast) = before
  BY <1>1, <1>2, ConcatEmpty
<1>7. Whole = (before \o Pending(fast)) \o tty
  BY DEF Whole, before
<1>8. Whole' = (before' \o Pending(fast')) \o tty'
  BY DEF Whole, before
<1>9. QED
  BY <1>1, <1>3, <1>5, <1>6, <1>7, <1>8

\* read_cb
LEMMA HandleReadMoves ==
  ASSUME Types, Forwarding, HandleRead
  PROVE  Whole' = Whole
<1> DEFINE before == typedIn \o input \o ReadFrom
<1>1. /\ todo = <<>> /\ todo' = Pending(fast) /\ Pending(fast') = <<>>
      /\ UNCHANGED <<taking, input, typedIn, keyBuffer, tty>>
  BY ReadFacts
<1>2. before \in Seq(Key) /\ before' = before /\ Pending(fast) \in Seq(Key)
  BY <1>1, PartsAreKeys DEF ReadFrom
<1>3. Whole = before \o todo \o Pending(fast) \o tty
  BY DEF Whole, before
<1>4. Whole' = before' \o todo' \o Pending(fast') \o tty'
  BY DEF Whole, before
<1> HIDE DEF before
<1>5. before \o <<>> = before /\ before \o Pending(fast) \in Seq(Key)
  BY <1>2, ConcatEmpty, ConcatFacts
<1>6. (before \o Pending(fast)) \o <<>> = before \o Pending(fast)
  BY <1>5, ConcatEmpty
<1>7. QED
  BY <1>1, <1>2, <1>3, <1>4, <1>5, <1>6

\* enqueue_input: the main thread takes nothing from key_buffer meanwhile.
LEMMA WriteKeyMoves ==
  ASSUME Types, Handing, WriteKey
  PROVE  Whole' = Whole
<1> DEFINE before == typedIn \o input
<1>1. /\ upc = "write" /\ todo # <<>>
      /\ keyBuffer' = Append(keyBuffer, Head(todo)) /\ todo' = Tail(todo)
      /\ UNCHANGED <<taking, input, typedIn, tty, fast>>
  BY DEF WriteKey, mainVars, worldVars
<1>2. taking \in Int /\ ~(taking >= 0)
  <2>1. ~Given
    BY <1>1 DEF Given
  <2>2. QED
    BY <2>1, BridgeAssumption DEF Types, MainTypes, Handing
<1>3. ReadFrom = keyBuffer /\ keyBuffer \in Seq(Key) /\ todo \in Seq(Key) /\ before \in Seq(Key)
  BY <1>2, ReadFromFacts, PartsAreKeys DEF Types, KeyTypes
<1>4. /\ Head(todo) \in Key /\ Tail(todo) \in Seq(Key)
      /\ <<Head(todo)>> \in Seq(Key) /\ <<Head(todo)>> \o Tail(todo) = todo
  BY <1>1, <1>3, HeadTailFacts
<1>5. keyBuffer' = keyBuffer \o <<Head(todo)>> /\ keyBuffer' \in Seq(Key)
  BY <1>1, <1>3, <1>4, PushFacts, ZenonT(60)
<1>6. ReadFrom' = keyBuffer'
  <2>1. SubSeq(keyBuffer', 1, Len(keyBuffer')) = keyBuffer'
    BY <1>5
  <2>2. ~(taking' > 0)
    BY <1>1, <1>2
  <2>3. QED
    BY <2>1, <2>2 DEF ReadFrom
<1>7. before' = before
  BY <1>1
<1> HIDE DEF before
<1>8. (before \o (keyBuffer \o <<Head(todo)>>)) \o Tail(todo)
        = (before \o keyBuffer) \o (<<Head(todo)>> \o Tail(todo))
  BY <1>3, <1>4, ConcatMoves, SMTT(60)
<1>9. before' \o ReadFrom' \o todo' = before \o ReadFrom \o todo
  BY <1>1, <1>3, <1>4, <1>5, <1>6, <1>7, <1>8
<1>10. QED
  BY <1>1, <1>9 DEF Whole, before

LEMMA TypeGrows ==
  ASSUME Types, AllKeys, Type
  PROVE  AllKeys'
<1> DEFINE before == typedIn \o input \o ReadFrom \o todo \o Pending(fast)
<1>1. /\ typed' = typed + 1 /\ tty' = Append(tty, typed + 1) /\ typed < MaxKeys
      /\ UNCHANGED <<taking, input, typedIn, todo, keyBuffer, fast>>
  BY DEF Type, mainVars, uiVars, keyVars
<1>2. /\ before \in Seq(Key) /\ before' = before /\ tty \in Seq(Key)
      /\ typed \in Nat /\ typed + 1 \in Key
      /\ before \o tty = [i \in 1 .. typed |-> i]
  <2>1. before \in Seq(Key) /\ before' = before /\ before \o tty = [i \in 1 .. typed |-> i]
    BY <1>1, PartsAreKeys DEF ReadFrom, AllKeys
  <2>2. tty \in Seq(Key) /\ typed \in Nat /\ MaxKeys \in Nat
    BY BridgeAssumption DEF Types, KeyTypes
  <2>3. typed + 1 \in Key
    BY <1>1, <2>2 DEF Key
  <2>4. QED
    BY <2>1, <2>2, <2>3
<1>3. AllKeys' <=> before' \o tty' = [i \in 1 .. typed' |-> i]
  BY DEF AllKeys, before
<1> HIDE DEF before
<1>4. tty' = tty \o <<typed + 1>> /\ <<typed + 1>> \in Seq(Key)
  BY <1>1, <1>2, PushFacts
<1>5. before \o (tty \o <<typed + 1>>) = (before \o tty) \o <<typed + 1>>
  <2>1. before \in Seq(Key) /\ tty \in Seq(Key) /\ <<typed + 1>> \in Seq(Key)
    BY <1>2, <1>4
  <2>2. QED
    BY <2>1, ConcatAssoc
<1>6. (before \o tty) \o <<typed + 1>> = [i \in 1 .. typed + 1 |-> i]
  <2> DEFINE keys == [i \in 1 .. typed |-> i]
  <2>1. keys \in Seq(Nat) /\ Len(keys) = typed /\ \A i \in 1 .. typed : keys[i] = i
    BY <1>2
  <2> HIDE DEF keys
  <2>2. /\ Append(keys, typed + 1) = keys \o <<typed + 1>>
    BY <1>2, <2>1, PushFacts
  <2>3. /\ Append(keys, typed + 1) \in Seq(Nat) /\ Len(Append(keys, typed + 1)) = typed + 1
        /\ \A i \in 1 .. typed + 1 : Append(keys, typed + 1)[i] = i
    BY <1>2, <2>1
  <2>4. Append(keys, typed + 1) = [i \in 1 .. typed + 1 |-> i]
    BY <1>2, <2>3
  <2>5. QED
    BY <1>2, <2>2, <2>4 DEF keys
<1>7. QED
  BY <1>1, <1>2, <1>3, <1>4, <1>5, <1>6

LEMMA AllKeysStep ==
  ASSUME Types, Handing, Forwarding, AllKeys, [Next]_vars
  PROVE  AllKeys'
<1>1. CASE Type
  BY <1>1, TypeGrows
<1>2. CASE ~Type
  <2>1. Whole' = Whole
    <3>1. CASE UNCHANGED keyState /\ ~HandleRead /\ ~Poll
      <4>1. Pending(fast') = Pending(fast)
        BY <3>1, PendingKept DEF Forwarding, OneRead
      <4>2. UNCHANGED <<taking, input, typedIn, todo, keyBuffer, tty>>
        BY <3>1 DEF keyState
      <4>3. QED
        BY <4>1, <4>2 DEF Whole, ReadFrom
    <3>2. QED
      BY <1>2, <3>1, WhoMovesKeys, TakeMoves, TookMoves, ReadKeyMoves, PollMoves,
         HandleReadMoves, WriteKeyMoves
  <2>2. typed' = typed
    BY <1>2, WhoMovesKeys
       DEF keyState, TakeKeys, TookKeys, ReadKey, Poll, HandleRead, WriteKey, worldVars
  <2>3. QED
    BY <2>1, <2>2 DEF Whole, AllKeys
<1>3. QED
  BY <1>1, <1>2

-----------------------------------------------------------------------------
(***************************************************************************)
(* The calls                                                               *)
(***************************************************************************)
IsCall(e) == e.kind \in {"call", "suspend", "stop"}

\* A call that is the first one is the next one.
LEMMA NumbersTaken ==
  ASSUME NEW q \in Seq(FastEvent), q # <<>>, NEW last \in Nat, NEW end \in Nat,
         NumbersOf(q, last, end)
  PROVE  /\ ~IsCall(Head(q)) => NumbersOf(Tail(q), last, end)
         /\ IsCall(Head(q)) => /\ Head(q).n = last + 1 /\ Head(q).n <= end
                               /\ NumbersOf(Tail(q), last + 1, end)
<1>1. /\ Len(q) \in Nat \ {0} /\ DOMAIN q = 1 .. Len(q) /\ q[1] = Head(q)
      /\ DOMAIN Tail(q) = 1 .. Len(q) - 1 /\ \A i \in 1 .. Len(q) - 1 : Tail(q)[i] = q[i + 1]
  OBVIOUS
<1>2. /\ \A i \in CallsAt(q) : q[i].n \in last + 1 .. end
      /\ \A i, j \in CallsAt(q) : i < j => q[i].n < q[j].n
      /\ \A m \in last + 1 .. end : \E i \in CallsAt(q) : q[i].n = m
  BY DEF NumbersOf
<1>3. ASSUME NEW i \in CallsAt(Tail(q))
      PROVE  i \in Nat \ {0} /\ i + 1 \in CallsAt(q) /\ Tail(q)[i] = q[i + 1]
  <2>1. i \in 1 .. Len(q) - 1 /\ Tail(q)[i] = q[i + 1] /\ IsCall(Tail(q)[i])
    BY <1>1 DEF CallsAt, IsCall
  <2>2. i + 1 \in 1 .. Len(q) /\ i \in Nat \ {0}
    BY <1>1, <2>1
  <2>3. QED
    BY <1>1, <2>1, <2>2 DEF CallsAt, IsCall
<1>4. ASSUME NEW k \in CallsAt(q), k # 1
      PROVE  k - 1 \in CallsAt(Tail(q)) /\ Tail(q)[k - 1] = q[k] /\ k \in Nat /\ k > 1
  <2>1. k \in 1 .. Len(q) /\ IsCall(q[k])
    BY <1>1 DEF CallsAt, IsCall
  <2>2. k - 1 \in 1 .. Len(q) - 1 /\ (k - 1) + 1 = k /\ k \in Nat /\ k > 1
    BY <1>1, <1>4, <2>1
  <2>3. Tail(q)[k - 1] = q[k]
    BY <1>1, <2>2
  <2>4. QED
    BY <1>1, <2>1, <2>2, <2>3 DEF CallsAt, IsCall
<1>5. ASSUME NEW i \in CallsAt(Tail(q)), NEW j \in CallsAt(Tail(q)), i < j
      PROVE  Tail(q)[i].n < Tail(q)[j].n
  <2>1. i + 1 < j + 1
    BY <1>3, <1>5
  <2>2. QED
    BY <1>2, <1>3, <2>1
<1>6. CASE ~IsCall(Head(q))
  <2>1. 1 \notin CallsAt(q)
    BY <1>1, <1>6 DEF CallsAt, IsCall
  <2>2. \A i \in CallsAt(Tail(q)) : Tail(q)[i].n \in last + 1 .. end
    BY <1>2, <1>3
  <2>3. ASSUME NEW m \in last + 1 .. end PROVE \E i \in CallsAt(Tail(q)) : Tail(q)[i].n = m
    <3>1. PICK k \in CallsAt(q) : q[k].n = m
      BY <1>2
    <3>2. QED
      BY <1>4, <2>1, <3>1
  <2>4. NumbersOf(Tail(q), last, end)
    BY <1>5, <2>2, <2>3 DEF NumbersOf
  <2>5. QED
    BY <1>6, <2>4
<1>7. CASE IsCall(Head(q))
  <2>1. 1 \in CallsAt(q)
    BY <1>1, <1>7 DEF CallsAt, IsCall
  <2>2. Head(q).n \in last + 1 .. end
    BY <1>1, <1>2, <2>1
  <2>3. \A k \in CallsAt(q) : k # 1 => Head(q).n < q[k].n
    BY <1>1, <1>2, <1>4, <2>1
  <2>4. Head(q).n = last + 1
    <3>1. PICK k \in CallsAt(q) : q[k].n = last + 1
      BY <1>2, <2>2
    <3>2. CASE k = 1
      BY <1>1, <3>1, <3>2
    <3>3. CASE k # 1
      BY <2>2, <2>3, <3>1, <3>3
    <3>4. QED
      BY <3>2, <3>3
  <2>5. ASSUME NEW i \in CallsAt(Tail(q)) PROVE Tail(q)[i].n \in (last + 1) + 1 .. end
    <3>1. i \in Nat \ {0} /\ i + 1 \in CallsAt(q) /\ Tail(q)[i] = q[i + 1]
      BY <1>3
    <3>2. i + 1 # 1
      BY <3>1
    <3>3. q[i + 1].n \in last + 1 .. end /\ last + 1 < q[i + 1].n
      BY <1>2, <2>3, <2>4, <3>1, <3>2
    <3> DEFINE m == q[i + 1].n
    <3> HIDE DEF m
    <3>4. m \in last + 1 .. end /\ last + 1 < m
      BY <3>3 DEF m
    <3>5. m \in (last + 1) + 1 .. end
      BY <3>4
    <3>6. QED
      BY <3>1, <3>5 DEF m
  <2>6. ASSUME NEW m \in (last + 1) + 1 .. end
        PROVE  \E i \in CallsAt(Tail(q)) : Tail(q)[i].n = m
    <3>1. m \in last + 1 .. end /\ m # last + 1
      OBVIOUS
    <3>2. PICK k \in CallsAt(q) : q[k].n = m
      BY <1>2, <3>1
    <3>3. k # 1
      BY <1>1, <2>4, <3>1, <3>2
    <3>4. QED
      BY <1>4, <3>2, <3>3
  <2>7. NumbersOf(Tail(q), last + 1, end)
    BY <1>5, <2>5, <2>6 DEF NumbersOf
  <2>8. QED
    BY <1>7, <2>2, <2>4, <2>7
<1>8. QED
  BY <1>6, <1>7

\* Other events may stand behind the calls.
LEMMA NumbersPushed ==
  ASSUME NEW q \in Seq(FastEvent), NEW e \in FastEvent, ~IsCall(e),
         NEW last \in Nat, NEW end \in Nat, NumbersOf(q, last, end)
  PROVE  NumbersOf(Append(q, e), last, end)
<1>1. /\ Len(q) \in Nat /\ DOMAIN q = 1 .. Len(q)
      /\ DOMAIN Append(q, e) = 1 .. Len(q) + 1 /\ Append(q, e)[Len(q) + 1] = e
      /\ \A i \in 1 .. Len(q) : Append(q, e)[i] = q[i]
  BY AppendFacts
<1>2. CallsAt(Append(q, e)) = CallsAt(q)
  <2>1. ASSUME NEW i \in CallsAt(Append(q, e)) PROVE i \in CallsAt(q)
    <3>1. i \in 1 .. Len(q) + 1 /\ IsCall(Append(q, e)[i])
      BY <1>1 DEF CallsAt, IsCall
    <3>2. i # Len(q) + 1
      BY <1>1, <3>1
    <3>3. i \in 1 .. Len(q)
      BY <1>1, <3>1, <3>2
    <3>4. QED
      BY <1>1, <3>1, <3>3 DEF CallsAt, IsCall
  <2>2. ASSUME NEW i \in CallsAt(q) PROVE i \in CallsAt(Append(q, e))
    <3>1. i \in 1 .. Len(q) /\ IsCall(q[i])
      BY <1>1 DEF CallsAt, IsCall
    <3>2. i \in 1 .. Len(q) + 1
      BY <1>1, <3>1
    <3>3. QED
      BY <1>1, <3>1, <3>2 DEF CallsAt, IsCall
  <2>3. QED
    BY <2>1, <2>2
<1>3. \A i \in CallsAt(q) : Append(q, e)[i] = q[i]
  BY <1>1 DEF CallsAt
<1>4. QED
  BY <1>2, <1>3 DEF NumbersOf

\* Where the calls of the loop's queue are after loop_poll_events.
Placed(q, d) ==
  /\ d \in Nat
  /\ CallsAt(q) = {d + i : i \in 1 .. Len(uiq)}
  /\ \A i \in 1 .. Len(uiq) : q[d + i] = uiq[i]
  /\ EventsIn(q) = {}

LEMMA CallsPlaced ==
  ASSUME Types, Poll
  PROVE  /\ \E d \in Nat : Placed(fast', d)
         /\ ~winch => \A i \in DOMAIN fast' : fast'[i].kind # "winch"
<1> DEFINE r == Ready(tty)
<1>1. /\ r \in Seq(FastEvent) /\ CallsAt(r) = {} /\ EventsIn(r) = {}
      /\ ~winch => \A i \in DOMAIN r : r[i].kind # "winch"
  BY ReadyFacts DEF Types, KeyTypes
<1>2. uiq \in Seq(Call) /\ uiq \in Seq(FastEvent) /\ Len(uiq) \in Nat
      /\ DOMAIN uiq = 1 .. Len(uiq)
  BY CallFacts DEF Types, CallTypes
<1>3. \A i \in 1 .. Len(uiq) : IsCall(uiq[i])
  <2>1. \A i \in 1 .. Len(uiq) : uiq[i] \in Call
    BY <1>2
  <2>2. QED
    BY <2>1 DEF Call, IsCall
<1> HIDE DEF r
<1>4. CASE fast' = uiq \o r
  <2>1. /\ Len(r) \in Nat /\ DOMAIN r = 1 .. Len(r)
        /\ DOMAIN (uiq \o r) = 1 .. Len(uiq) + Len(r)
        /\ \A i \in 1 .. Len(uiq) : (uiq \o r)[i] = uiq[i]
        /\ \A i \in 1 .. Len(r) : (uiq \o r)[Len(uiq) + i] = r[i]
    BY <1>1, <1>2, ConcatFacts
  <2>2. ASSUME NEW k \in DOMAIN (uiq \o r)
        PROVE  k \in 1 .. Len(uiq) \/ \E i \in 1 .. Len(r) : (uiq \o r)[k] = r[i]
    <3>1. CASE k > Len(uiq)
      <4>1. k - Len(uiq) \in 1 .. Len(r) /\ Len(uiq) + (k - Len(uiq)) = k
        BY <1>2, <2>1, <3>1
      <4>2. (uiq \o r)[Len(uiq) + (k - Len(uiq))] = r[k - Len(uiq)]
        BY <2>1, <4>1
      <4>3. QED
        BY <4>1, <4>2
    <3>2. CASE ~(k > Len(uiq))
      BY <1>2, <2>1, <3>2
    <3>3. QED
      BY <3>1, <3>2
  <2>3. \A i \in 1 .. Len(r) : ~IsCall(r[i]) /\ r[i].kind # "suspend_event"
    BY <1>1, <2>1 DEF CallsAt, EventsIn, IsCall
  <2>4. \A i \in 1 .. Len(uiq) : i \in DOMAIN (uiq \o r)
    BY <1>2, <2>1
  <2>5. CallsAt(uiq \o r) = 1 .. Len(uiq)
    BY <1>3, <2>1, <2>2, <2>3, <2>4 DEF CallsAt, IsCall
  <2>6. EventsIn(uiq \o r) = {}
    BY <1>3, <2>1, <2>2, <2>3 DEF EventsIn, IsCall
  <2>7. CallsAt(uiq \o r) = {0 + i : i \in 1 .. Len(uiq)}
    BY <1>2, <2>5
  <2>8. \A i \in 1 .. Len(uiq) : (uiq \o r)[0 + i] = uiq[i]
    BY <1>2, <2>1
  <2>9. Placed(uiq \o r, 0)
    BY <2>6, <2>7, <2>8 DEF Placed
  <2>10. ~winch => \A i \in DOMAIN (uiq \o r) : (uiq \o r)[i].kind # "winch"
    <3>1. ASSUME ~winch, NEW k \in DOMAIN (uiq \o r) PROVE (uiq \o r)[k].kind # "winch"
      <4>1. CASE k \in 1 .. Len(uiq)
        BY <1>3, <2>1, <4>1 DEF IsCall
      <4>2. ASSUME NEW i \in 1 .. Len(r), (uiq \o r)[k] = r[i]
            PROVE  (uiq \o r)[k].kind # "winch"
        BY <1>1, <2>1, <3>1, <4>2
      <4>3. QED
        BY <2>2, <4>1, <4>2
    <3>2. QED
      BY <3>1
  <2>11. QED
    BY <1>4, <2>9, <2>10
<1>5. CASE fast' = r \o uiq
  <2>1. /\ Len(r) \in Nat /\ DOMAIN r = 1 .. Len(r)
        /\ DOMAIN (r \o uiq) = 1 .. Len(r) + Len(uiq)
        /\ \A i \in 1 .. Len(r) : (r \o uiq)[i] = r[i]
        /\ \A i \in 1 .. Len(uiq) : (r \o uiq)[Len(r) + i] = uiq[i]
    BY <1>1, <1>2, ConcatFacts
  <2>2. ASSUME NEW k \in DOMAIN (r \o uiq)
        PROVE  k \in 1 .. Len(r) \/ \E i \in 1 .. Len(uiq) : k = Len(r) + i
    <3>1. CASE k > Len(r)
      <4>1. k - Len(r) \in 1 .. Len(uiq) /\ k = Len(r) + (k - Len(r))
        BY <1>2, <2>1, <3>1
      <4>2. QED
        BY <4>1
    <3>2. CASE ~(k > Len(r))
      BY <1>2, <2>1, <3>2
    <3>3. QED
      BY <3>1, <3>2
  <2>3. \A i \in 1 .. Len(r) : ~IsCall(r[i]) /\ r[i].kind # "suspend_event"
    BY <1>1, <2>1 DEF CallsAt, EventsIn, IsCall
  <2>4. \A i \in 1 .. Len(uiq) : Len(r) + i \in DOMAIN (r \o uiq)
    BY <1>2, <2>1
  <2>5. CallsAt(r \o uiq) = {Len(r) + i : i \in 1 .. Len(uiq)}
    <3>1. ASSUME NEW k \in CallsAt(r \o uiq) PROVE \E i \in 1 .. Len(uiq) : k = Len(r) + i
      <4>1. k \in DOMAIN (r \o uiq) /\ IsCall((r \o uiq)[k])
        BY DEF CallsAt, IsCall
      <4>2. QED
        BY <2>1, <2>2, <2>3, <4>1
    <3>2. ASSUME NEW i \in 1 .. Len(uiq) PROVE Len(r) + i \in CallsAt(r \o uiq)
      <4>1. IsCall((r \o uiq)[Len(r) + i])
        BY <1>3, <2>1
      <4>2. QED
        BY <2>4, <4>1 DEF CallsAt, IsCall
    <3>3. QED
      BY <3>1, <3>2
  <2>6. EventsIn(r \o uiq) = {}
    <3>1. ASSUME NEW k \in DOMAIN (r \o uiq) PROVE (r \o uiq)[k].kind # "suspend_event"
      <4>1. CASE k \in 1 .. Len(r)
        BY <2>1, <2>3, <4>1
      <4>2. ASSUME NEW i \in 1 .. Len(uiq), k = Len(r) + i
            PROVE  (r \o uiq)[k].kind # "suspend_event"
        BY <1>3, <2>1, <4>2 DEF IsCall
      <4>3. QED
        BY <2>2, <4>1, <4>2
    <3>2. QED
      BY <3>1 DEF EventsIn
  <2>7. Placed(r \o uiq, Len(r))
    BY <2>1, <2>5, <2>6 DEF Placed
  <2>8. ~winch => \A i \in DOMAIN (r \o uiq) : (r \o uiq)[i].kind # "winch"
    <3>1. ASSUME ~winch, NEW k \in DOMAIN (r \o uiq) PROVE (r \o uiq)[k].kind # "winch"
      <4>1. CASE k \in 1 .. Len(r)
        BY <1>1, <2>1, <3>1, <4>1
      <4>2. ASSUME NEW i \in 1 .. Len(uiq), k = Len(r) + i
            PROVE  (r \o uiq)[k].kind # "winch"
        BY <1>3, <2>1, <4>2 DEF IsCall
      <4>3. QED
        BY <2>2, <4>1, <4>2
    <3>2. QED
      BY <3>1
  <2>9. QED
    BY <1>5, <2>1, <2>7, <2>8
<1>6. QED
  BY <1>4, <1>5 DEF Poll, r

\* The call that is handled is the next one, and not the last one made.
LEMMA RanFacts ==
  ASSUME Types, Numbered, HandleCall \/ HandleSuspend \/ HandleStop
  PROVE  /\ upc = "poll" /\ fast # <<>> /\ fast \in Seq(FastEvent)
         /\ 1 \in CallsAt(fast) /\ fast[1] = Head(fast) /\ IsCall(Head(fast))
         /\ Head(fast).n = ran + 1 /\ ran' = ran + 1
         /\ ran < made /\ ran \in Nat /\ made \in Nat
         /\ UNCHANGED <<made, uiq>>
         /\ NumbersOf(Tail(fast), ran', made - Len(uiq))
<1>1. /\ upc = "poll" /\ fast # <<>> /\ IsCall(Head(fast)) /\ ran' = Head(fast).n
      /\ UNCHANGED <<made, uiq>>
  BY DEF HandleCall, HandleSuspend, HandleStop, Handling, IsCall
<1>2. /\ fast \in Seq(FastEvent) /\ ran \in Nat /\ made \in Nat /\ Len(uiq) \in Nat
      /\ Len(uiq) <= made /\ NumbersOf(fast, ran, made - Len(uiq))
  BY DEF Types, CallTypes, Numbered
<1>3. made - Len(uiq) \in Nat
  BY <1>2
<1>4. /\ Head(fast).n = ran + 1 /\ Head(fast).n <= made - Len(uiq)
      /\ NumbersOf(Tail(fast), ran + 1, made - Len(uiq))
  BY <1>1, <1>2, <1>3, NumbersTaken
<1>5. 1 \in DOMAIN fast /\ fast[1] = Head(fast)
  BY <1>1, <1>2
<1>6. 1 \in CallsAt(fast)
  BY <1>1, <1>5 DEF CallsAt, IsCall
<1>7. ran < made
  BY <1>2, <1>4
<1>8. ran' = ran + 1
  BY <1>1, <1>4
<1>9. QED
  BY <1>1, <1>2, <1>4, <1>5, <1>6, <1>7, <1>8

\* The calls that loop_poll_events takes over are all that there are.
LEMMA PollNumbers ==
  ASSUME Types, Numbered, Poll
  PROVE  NumbersOf(fast', ran, made)
<1>1. /\ ran \in Nat /\ made \in Nat /\ Len(uiq) \in Nat /\ Len(uiq) <= made
      /\ \A i \in 1 .. Len(uiq) : uiq[i].n = made - Len(uiq) + i
      /\ ran <= made - Len(uiq) /\ NumbersOf(fast, ran, made - Len(uiq))
  BY DEF Types, CallTypes, Numbered
<1>2. ran = made - Len(uiq)
  <2>1. CallsAt(fast) = {}
    BY DEF Poll, CallsAt
  <2>2. ~(made - Len(uiq) \in ran + 1 .. made - Len(uiq))
    BY <1>1, <2>1 DEF NumbersOf
  <2>3. QED
    BY <1>1, <2>2
<1>3. PICK d \in Nat : Placed(fast', d)
  BY CallsPlaced
<1>4. CallsAt(fast') = {d + i : i \in 1 .. Len(uiq)}
      /\ \A i \in 1 .. Len(uiq) : fast'[d + i] = uiq[i]
  BY <1>3 DEF Placed
<1>5. \A i \in 1 .. Len(uiq) : fast'[d + i].n = ran + i
  BY <1>1, <1>2, <1>4
<1>6. ASSUME NEW k \in CallsAt(fast')
      PROVE  k - d \in 1 .. Len(uiq) /\ k = d + (k - d) /\ fast'[k].n = ran + (k - d)
  <2>1. PICK i \in 1 .. Len(uiq) : k = d + i
    BY <1>4
  <2>2. k - d = i /\ fast'[k].n = ran + i
    BY <1>1, <1>5, <2>1
  <2>3. QED
    BY <2>1, <2>2
<1>7. \A k \in CallsAt(fast') : fast'[k].n \in ran + 1 .. made
  <2>1. ASSUME NEW k \in CallsAt(fast') PROVE fast'[k].n \in ran + 1 .. made
    <3>1. k - d \in 1 .. Len(uiq) /\ fast'[k].n = ran + (k - d)
      BY <1>6
    <3>2. ran + (k - d) \in ran + 1 .. made
      BY <1>1, <1>2, <3>1
    <3>3. QED
      BY <3>1, <3>2
  <2>2. QED
    BY <2>1
<1>8. \A j, k \in CallsAt(fast') : j < k => fast'[j].n < fast'[k].n
  <2>1. ASSUME NEW j \in CallsAt(fast'), NEW k \in CallsAt(fast'), j < k
        PROVE  fast'[j].n < fast'[k].n
    <3>1. /\ j - d \in 1 .. Len(uiq) /\ fast'[j].n = ran + (j - d) /\ j = d + (j - d)
          /\ k - d \in 1 .. Len(uiq) /\ fast'[k].n = ran + (k - d) /\ k = d + (k - d)
      BY <1>6
    <3>2. ran + (j - d) < ran + (k - d)
      BY <1>1, <2>1, <3>1
    <3>3. QED
      BY <3>1, <3>2
  <2>2. QED
    BY <2>1
<1>9. \A m \in ran + 1 .. made : \E k \in CallsAt(fast') : fast'[k].n = m
  <2>1. ASSUME NEW m \in ran + 1 .. made PROVE \E k \in CallsAt(fast') : fast'[k].n = m
    <3>1. m - ran \in 1 .. Len(uiq) /\ ran + (m - ran) = m
      BY <1>1, <1>2
    <3>2. d + (m - ran) \in CallsAt(fast') /\ fast'[d + (m - ran)].n = m
      BY <1>4, <1>5, <3>1
    <3>3. QED
      BY <3>2
  <2>2. QED
    BY <2>1
<1>10. QED
  BY <1>7, <1>8, <1>9 DEF NumbersOf

LEMMA NumberedStep ==
  ASSUME Types, Numbered, [Next]_vars
  PROVE  Numbered'
<1>1. /\ ran \in Nat /\ made \in Nat /\ uiq \in Seq(Call) /\ Len(uiq) \in Nat
      /\ Len(uiq) <= made /\ fast \in Seq(FastEvent)
      /\ \A i \in 1 .. Len(uiq) : uiq[i].n = made - Len(uiq) + i
      /\ ran <= made - Len(uiq) /\ NumbersOf(fast, ran, made - Len(uiq))
      /\ made - Len(uiq) \in Nat
  BY DEF Types, CallTypes, Numbered
<1>2. CASE Poll
  <2>1. uiq' = <<>> /\ made' = made /\ ran' = ran
    BY <1>2 DEF Poll
  <2>2. NumbersOf(fast', ran, made)
    BY <1>2, PollNumbers
  <2>3. Len(uiq') = 0 /\ made - 0 = made /\ ran <= made
    BY <1>1, <2>1
  <2>4. QED
    BY <1>1, <2>1, <2>2, <2>3 DEF Numbered
<1>3. CASE CallMade
  <2>1. PICK kind \in {"call", "suspend", "stop"} :
               made' = made + 1 /\ uiq' = Append(uiq, [kind |-> kind, n |-> made + 1])
               /\ UNCHANGED uiVars
    BY <1>3, CallMadeFacts
  <2>2. UNCHANGED <<ran, fast>>
    BY <2>1 DEF uiVars
  <2>3. [kind |-> kind, n |-> made + 1] \in Call
    BY <1>1 DEF Call
  <2>4. /\ Len(uiq') = Len(uiq) + 1 /\ uiq'[Len(uiq) + 1].n = made + 1
        /\ \A i \in 1 .. Len(uiq) : uiq'[i] = uiq[i]
    BY <1>1, <2>1, <2>3
  <2>5. made' - Len(uiq') = made - Len(uiq) /\ Len(uiq') <= made'
    BY <1>1, <2>1, <2>4
  <2>6. ASSUME NEW i \in 1 .. Len(uiq') PROVE uiq'[i].n = made' - Len(uiq') + i
    <3>1. CASE i = Len(uiq) + 1
      <4>1. made - Len(uiq) + i = made + 1
        BY <1>1, <3>1
      <4>2. QED
        BY <2>4, <2>5, <3>1, <4>1
    <3>2. CASE i # Len(uiq) + 1
      <4>1. i \in 1 .. Len(uiq)
        BY <1>1, <2>4, <3>2
      <4>2. QED
        BY <1>1, <2>4, <2>5, <4>1
    <3>3. QED
      BY <3>1, <3>2
  <2>7. QED
    BY <1>1, <2>2, <2>5, <2>6 DEF Numbered
<1>4. CASE UNCHANGED <<made, uiq>> /\ ~Poll
  <2>1. ran' <= made - Len(uiq) /\ NumbersOf(fast', ran', made - Len(uiq))
    <3>1. CASE UNCHANGED <<ran, fast>>
      BY <1>1, <3>1
    <3>2. CASE HandleCall \/ HandleStop
      <4>1. fast' = Tail(fast)
        BY <3>2 DEF HandleCall, HandleStop
      <4>2. NumbersOf(fast', ran', made - Len(uiq)) /\ ran' = ran + 1
        BY <3>2, <4>1, RanFacts
      <4>3. Head(fast).n = ran + 1 /\ Head(fast).n <= made - Len(uiq)
        BY <1>1, <3>2, RanFacts, NumbersTaken
      <4>4. QED
        BY <4>2, <4>3
    <3>3. CASE HandleSuspend
      <4>1. fast' = Append(Tail(fast), [kind |-> "suspend_event"])
        BY <3>3 DEF HandleSuspend
      <4>2. /\ NumbersOf(Tail(fast), ran', made - Len(uiq)) /\ ran' = ran + 1 /\ ran' \in Nat
            /\ Tail(fast) \in Seq(FastEvent)
        BY <1>1, <3>3, RanFacts
      <4>3. [kind |-> "suspend_event"] \in FastEvent /\ ~IsCall([kind |-> "suspend_event"])
        BY DEF FastEvent, IsCall
      <4>4. NumbersOf(fast', ran', made - Len(uiq))
        BY <1>1, <4>1, <4>2, <4>3, NumbersPushed
      <4>5. Head(fast).n = ran + 1 /\ Head(fast).n <= made - Len(uiq)
        BY <1>1, <3>3, RanFacts, NumbersTaken
      <4>6. QED
        BY <4>2, <4>4, <4>5
    <3>4. CASE Handles /\ ~HandleCall /\ ~HandleStop
      <4>1. fast # <<>> /\ fast' = Tail(fast) /\ ran' = ran /\ ~IsCall(Head(fast))
        BY <3>4 DEF Handles, SuspendEvent, HandleCont, HandleWinch, HandleRead, Handling, IsCall
      <4>2. QED
        BY <1>1, <4>1, NumbersTaken
    <3>5. QED
      <4>1. UNCHANGED fast => ran' = ran \/ HandleCall \/ HandleSuspend \/ HandleStop
        BY WhoRuns
      <4>2. UNCHANGED fast \/ Poll \/ HandleSuspend \/ Handles
        BY WhoChangesFast
      <4>3. QED
        BY <1>4, <3>1, <3>2, <3>3, <3>4, <4>1, <4>2
  <2>2. QED
    BY <1>1, <1>4, <2>1 DEF Numbered
<1>5. QED
  BY <1>2, <1>3, <1>4, WhoCalls

\* The head of the queue leaves, and suspend_event is all that comes without
\* loop_poll_events.
LEMMA OldEvents ==
  ASSUME Types, [Next]_vars, ~Poll, NEW i \in DOMAIN fast'
  PROVE  \/ \E j \in DOMAIN fast : fast'[i] = fast[j]
         \/ HandleSuspend /\ fast'[i].kind = "suspend_event"
<1>1. fast \in Seq(FastEvent)
  BY DEF Types, CallTypes
<1>2. ASSUME fast # <<>>
      PROVE  /\ Len(fast) \in Nat \ {0} /\ DOMAIN Tail(fast) = 1 .. Len(fast) - 1
             /\ \A k \in 1 .. Len(fast) - 1 : k + 1 \in DOMAIN fast /\ Tail(fast)[k] = fast[k + 1]
  BY <1>1, <1>2
<1>3. CASE UNCHANGED fast
  BY <1>3
<1>4. CASE Handles
  BY <1>2, <1>4, HandlesFacts
<1>5. CASE HandleSuspend
  <2>1. fast # <<>> /\ fast' = Append(Tail(fast), [kind |-> "suspend_event"])
    BY <1>5 DEF HandleSuspend, Handling
  <2>2. Tail(fast) \in Seq(FastEvent) /\ [kind |-> "suspend_event"] \in FastEvent
    BY <1>1, <2>1, TailFacts DEF FastEvent
  <2>3. Len(Tail(fast)) = Len(fast) - 1
    BY <1>1, <2>1
  <2>4. /\ DOMAIN fast' = 1 .. Len(fast)
        /\ fast'[Len(fast)].kind = "suspend_event"
        /\ \A k \in 1 .. Len(fast) - 1 : fast'[k] = Tail(fast)[k]
    <3>1. /\ DOMAIN fast' = 1 .. Len(Tail(fast)) + 1
          /\ fast'[Len(Tail(fast)) + 1] = [kind |-> "suspend_event"]
          /\ \A k \in 1 .. Len(Tail(fast)) : fast'[k] = Tail(fast)[k]
      BY <2>1, <2>2, AppendFacts
    <3>2. Len(Tail(fast)) + 1 = Len(fast)
      BY <1>2, <2>1, <2>3
    <3>3. QED
      BY <2>3, <3>1, <3>2
  <2>5. i \in 1 .. Len(fast) - 1 \/ i = Len(fast)
    BY <1>2, <2>1, <2>4
  <2>6. QED
    BY <1>2, <1>5, <2>1, <2>4, <2>5
<1>6. QED
  BY <1>3, <1>4, <1>5, WhoChangesFast

LEMMA EventsTaken ==
  ASSUME NEW q \in Seq(FastEvent), q # <<>>, \A i, j \in EventsIn(q) : i = j
  PROVE  /\ \A i, j \in EventsIn(Tail(q)) : i = j
         /\ EventsIn(Tail(q)) # {} => EventsIn(q) # {} /\ Head(q).kind # "suspend_event"
         /\ Head(q).kind = "suspend_event" => EventsIn(q) # {}
<1>1. /\ Len(q) \in Nat \ {0} /\ DOMAIN q = 1 .. Len(q) /\ q[1] = Head(q)
      /\ DOMAIN Tail(q) = 1 .. Len(q) - 1 /\ \A i \in 1 .. Len(q) - 1 : Tail(q)[i] = q[i + 1]
  OBVIOUS
<1>2. ASSUME NEW i \in EventsIn(Tail(q))
      PROVE  i \in Nat \ {0} /\ i + 1 \in EventsIn(q)
  <2>1. i \in 1 .. Len(q) - 1 /\ q[i + 1].kind = "suspend_event"
    BY <1>1 DEF EventsIn
  <2>2. i + 1 \in 1 .. Len(q) /\ i \in Nat \ {0}
    BY <1>1, <2>1
  <2>3. QED
    BY <1>1, <2>1, <2>2 DEF EventsIn
<1>3. Head(q).kind = "suspend_event" => 1 \in EventsIn(q)
  BY <1>1 DEF EventsIn
<1>4. ASSUME NEW i \in EventsIn(Tail(q)), NEW j \in EventsIn(Tail(q)) PROVE i = j
  <2>1. i + 1 = j + 1 /\ i \in Nat /\ j \in Nat
    BY <1>2
  <2>2. QED
    BY <2>1
<1>5. ASSUME NEW i \in EventsIn(Tail(q)), Head(q).kind = "suspend_event" PROVE FALSE
  <2>1. i + 1 = 1 /\ i \in Nat \ {0}
    BY <1>2, <1>3, <1>5
  <2>2. QED
    BY <2>1
<1>6. QED
  BY <1>2, <1>3, <1>4, <1>5

\* The first element is in the set of the elements.
LEMMA HeadInSet ==
  ASSUME NEW S, NEW q \in Seq(S), q # <<>>
  PROVE  Head(q) \in ToSet(q) /\ ToSet(Tail(q)) \subseteq ToSet(q)
<1>1. /\ 1 \in DOMAIN q /\ q[1] = Head(q) /\ Len(q) \in Nat \ {0} /\ DOMAIN q = 1 .. Len(q)
      /\ DOMAIN Tail(q) = 1 .. Len(q) - 1 /\ \A i \in 1 .. Len(q) - 1 : Tail(q)[i] = q[i + 1]
  OBVIOUS
<1>2. ASSUME NEW i \in DOMAIN Tail(q) PROVE i + 1 \in DOMAIN q /\ Tail(q)[i] = q[i + 1]
  BY <1>1
<1>3. QED
  BY <1>1, <1>2 DEF ToSet

\* No call is made while the main thread is held, and none to a UI that was
\* told to stop.
LEMMA MadeFree ==
  ASSUME Careful, Types, Stops, CallMade
  PROVE  ~Held /\ ~Stopping
<1>1. CASE Attach \/ SuspendCall \/ Stop
  BY <1>1 DEF Attach, SuspendCall, Stop, Held, Stopping
<1>2. CASE MainCall
  BY <1>2 DEF MainCall, Held, Stopping, Stops
<1>3. CASE Refresh
  <2>1. mpc \in {"run", "stop"} /\ mainq # <<>> /\ Head(mainq) = "refresh"
    BY <1>3 DEF Refresh, Polls
  <2>2. "refresh" \in ToSet(mainq)
    BY <2>1, HeadInSet DEF Types, MainTypes
  <2>3. ~Stopping
    BY <2>2 DEF Stops, NoWinch
  <2>4. QED
    BY <2>1, <2>3 DEF Held
<1>4. QED
  BY <1>1, <1>2, <1>3 DEF CallMade

\* Only SIGCONT lets the main thread go on.
LEMMA HeldKept ==
  ASSUME Stops, [Next]_vars, Held, ~Resume
  PROVE  Held'
BY WhoMoves
   DEF Attach, SuspendCall, SuspendWait, SuspendReturn, Stop, Stopped, Joined, Start, Held, Stops

LEMMA StoppingKept ==
  ASSUME [Next]_vars, Stopping
  PROVE  Stopping'
BY WhoMoves
   DEF Attach, SuspendCall, SuspendWait, SuspendReturn, Stop, Stopped, Joined, Start, Resume,
       Stopping, mainVars

\* What is suspended goes on with an empty queue.
LEMMA ResumeFacts ==
  ASSUME Types, Numbered, Suspension, Resume
  PROVE  /\ fast = <<>> /\ fast' = fast /\ uiq' = uiq /\ uiq = <<>>
         /\ suspended' = FALSE /\ up' = TRUE
         /\ UNCHANGED <<made, ran, stop, upc, mpc, mutex>>
<1>1. /\ fast = <<>> /\ fast' = fast /\ uiq' = uiq /\ suspended /\ suspended' = FALSE
      /\ up' = TRUE /\ UNCHANGED <<made, ran, stop, upc, mpc, mutex>>
  BY DEF Resume, Continue, mainVars
<1>2. ran = made /\ ran \in Nat /\ Len(uiq) \in Nat /\ ran <= made - Len(uiq) /\ uiq \in Seq(Call)
  BY <1>1 DEF Suspension, Types, CallTypes, Numbered
<1>3. Len(uiq) = 0
  BY <1>2
<1>4. QED
  BY <1>1, <1>2, <1>3

SuspendLast ==
  /\ \A i \in CallsAt(fast) : fast[i].kind = "suspend" => fast[i].n = made /\ Held
  /\ \A i \in DOMAIN uiq : uiq[i].kind = "suspend" => uiq[i].n = made /\ Held

\* The events that are calls are calls of the queue, or old ones.
LEMMA OldCalls ==
  ASSUME Types, [Next]_vars, NEW i \in CallsAt(fast')
  PROVE  \/ Poll /\ \E j \in DOMAIN uiq : fast'[i] = uiq[j]
         \/ ~Poll /\ \E j \in CallsAt(fast) : fast'[i] = fast[j]
<1>1. i \in DOMAIN fast' /\ IsCall(fast'[i])
  BY DEF CallsAt, IsCall
<1>2. CASE Poll
  <2>1. PICK d \in Nat : Placed(fast', d)
    BY <1>2, CallsPlaced
  <2>2. PICK j \in 1 .. Len(uiq) : i = d + j
    BY <2>1 DEF Placed
  <2>3. fast'[i] = uiq[j] /\ j \in DOMAIN uiq
    <3>1. uiq \in Seq(Call)
      BY DEF Types, CallTypes
    <3>2. QED
      BY <2>1, <2>2, <3>1 DEF Placed
  <2>4. QED
    BY <1>2, <2>3
<1>3. CASE ~Poll
  <2>1. fast'[i].kind # "suspend_event"
    BY <1>1 DEF IsCall
  <2>2. PICK j \in DOMAIN fast : fast'[i] = fast[j]
    BY <1>1, <1>3, <2>1, OldEvents
  <2>3. j \in CallsAt(fast)
    BY <1>1, <2>2 DEF CallsAt, IsCall
  <2>4. QED
    BY <1>3, <2>2, <2>3
<1>4. QED
  BY <1>2, <1>3

\* The queue of the calls grows by the one that is made.
LEMMA OldQueue ==
  ASSUME Types, [Next]_vars, NEW i \in DOMAIN uiq'
  PROVE  \/ ~Poll /\ i \in DOMAIN uiq /\ uiq'[i] = uiq[i]
         \/ /\ CallMade /\ ~Poll /\ uiq'[i].n = made'
            /\ uiq'[i].kind = "suspend" => SuspendCall
            /\ uiq'[i].kind = "stop" => Stop
<1>1. uiq \in Seq(Call) /\ made \in Nat
  BY DEF Types, CallTypes
<1>2. CASE Poll
  <2>1. uiq' = <<>>
    BY <1>2 DEF Poll
  <2>2. QED
    BY <2>1
<1>3. CASE UNCHANGED uiq /\ ~Poll
  BY <1>3
<1>4. CASE CallMade
  <2>1. PICK kind \in {"call", "suspend", "stop"} :
               /\ made' = made + 1
               /\ uiq' = Append(uiq, [kind |-> kind, n |-> made + 1])
               /\ kind = "suspend" => SuspendCall
               /\ kind = "stop" => Stop
    BY <1>4, CallMadeFacts
  <2>2. [kind |-> kind, n |-> made + 1] \in Call
    BY <1>1 DEF Call
  <2>3. /\ Len(uiq) \in Nat /\ DOMAIN uiq = 1 .. Len(uiq) /\ DOMAIN uiq' = 1 .. Len(uiq) + 1
        /\ uiq'[Len(uiq) + 1] = [kind |-> kind, n |-> made + 1]
        /\ \A k \in 1 .. Len(uiq) : uiq'[k] = uiq[k]
    BY <1>1, <2>1, <2>2, AppendFacts
  <2>4. ~Poll
    <3>1. CASE Poll
      <4>1. made' = made
        BY <3>1 DEF Poll
      <4>2. QED
        BY <1>1, <2>1, <4>1
    <3>2. QED
      BY <3>1
  <2>5. CASE i = Len(uiq) + 1
    BY <1>4, <2>1, <2>3, <2>4, <2>5
  <2>6. CASE i # Len(uiq) + 1
    <3>1. i \in 1 .. Len(uiq)
      BY <2>3, <2>6
    <3>2. QED
      BY <2>3, <2>4, <3>1
  <2>7. QED
    BY <2>5, <2>6
<1>5. QED
  BY <1>2, <1>3, <1>4, WhoCalls

LEMMA SuspendLastStep ==
  ASSUME Careful, Types, Numbered, Suspension, Stops, [Next]_vars
  PROVE  SuspendLast'
<1>1. /\ \A i \in CallsAt(fast) : fast[i].kind = "suspend" => fast[i].n = made /\ Held
      /\ \A i \in DOMAIN uiq : uiq[i].kind = "suspend" => uiq[i].n = made /\ Held
  BY DEF Suspension
<1>2. CASE Resume
  <2>1. fast' = <<>> /\ uiq' = <<>>
    BY <1>2, ResumeFacts
  <2>2. QED
    BY <2>1 DEF SuspendLast, CallsAt
<1>3. CASE ~Resume
  <2>1. ASSUME Held PROVE Held' /\ made' = made
    <3>1. Held' /\ ~CallMade
      BY <1>3, <2>1, HeldKept, MadeFree
    <3>2. made' = made
      BY <3>1, WhoCalls DEF Poll
    <3>3. QED
      BY <3>1, <3>2
  <2>2. ASSUME NEW i \in CallsAt(fast'), fast'[i].kind = "suspend"
        PROVE  fast'[i].n = made' /\ Held'
    BY <1>1, <2>1, <2>2, OldCalls
  <2>3. ASSUME NEW i \in DOMAIN uiq', uiq'[i].kind = "suspend"
        PROVE  uiq'[i].n = made' /\ Held'
    <3>1. CASE i \in DOMAIN uiq /\ uiq'[i] = uiq[i]
      BY <1>1, <2>1, <2>3, <3>1
    <3>2. CASE SuspendCall /\ uiq'[i].n = made'
      BY <3>2 DEF SuspendCall, Held
    <3>3. QED
      BY <2>3, <3>1, <3>2, OldQueue
  <2>4. QED
    BY <2>2, <2>3 DEF SuspendLast
<1>4. QED
  BY <1>2, <1>3

LEMMA SuspensionStep ==
  ASSUME Careful, Types, Numbered, Suspension, Stops, [Next]_vars
  PROVE  Suspension'
<1>1. /\ fast \in Seq(FastEvent) /\ Flags /\ ran \in Nat /\ made \in Nat
      /\ mutex = "main" <=> mpc = "suspend"
      /\ EventsIn(fast) # {} \/ suspended => ran = made /\ Held
      /\ \A i, j \in EventsIn(fast) : i = j
      /\ suspended => EventsIn(fast) = {} /\ ~up
  BY DEF Types, CallTypes, Suspension
<1>2. mutex' = "main" <=> mpc' = "suspend"
  BY <1>1, WhoMoves
     DEF Attach, SuspendCall, SuspendWait, SuspendReturn, Stop, Stopped, Joined, Start, Resume,
         Continue, mainVars, bridgeVars
<1>3. /\ Handles /\ ~HandleCall /\ ~HandleStop => ran' = ran
      /\ HandleSuspend => Head(fast).kind = "suspend"
      /\ SuspendEvent => Head(fast).kind = "suspend_event" /\ Handles
  BY DEF Handles, SuspendEvent, HandleCont, HandleWinch, HandleRead, HandleSuspend, Handling
\* The handlers that take a call find no suspension under way.
<1>4. ASSUME HandleCall \/ HandleSuspend \/ HandleStop
      PROVE  EventsIn(fast) = {} /\ ~suspended
  <2>1. ran # made
    BY <1>1, <1>4, RanFacts
  <2>2. QED
    BY <1>1, <2>1
<1>5. CASE Poll
  <2>1. EventsIn(fast') = {}
    BY <1>5, CallsPlaced DEF Placed
  <2>2. UNCHANGED <<ran, made, suspended, up, mpc, ready>>
    BY <1>5 DEF Poll, mainVars, bridgeVars
  <2>3. Held' <=> Held
    BY <2>2 DEF Held
  <2>4. QED
    BY <1>1, <1>2, <2>1, <2>2, <2>3, SuspendLastStep DEF Suspension, SuspendLast
<1>6. CASE Resume
  <2>1. fast' = <<>> /\ suspended' = FALSE
    BY <1>6, ResumeFacts
  <2>2. EventsIn(fast') = {}
    BY <2>1 DEF EventsIn
  <2>3. QED
    BY <1>2, <2>1, <2>2, SuspendLastStep DEF Suspension, SuspendLast
<1>7. CASE ~Poll /\ ~Resume
  <2>1. EventsIn(fast') # {} =>
          EventsIn(fast) # {} \/ HandleSuspend
    <3>1. ASSUME NEW i \in EventsIn(fast'), ~HandleSuspend PROVE EventsIn(fast) # {}
      <4>1. i \in DOMAIN fast' /\ fast'[i].kind = "suspend_event"
        BY DEF EventsIn
      <4>2. PICK j \in DOMAIN fast : fast'[i] = fast[j]
        BY <1>7, <3>1, <4>1, OldEvents
      <4>3. j \in EventsIn(fast)
        BY <4>1, <4>2 DEF EventsIn
      <4>4. QED
        BY <4>3
    <3>2. QED
      BY <3>1
  <2>2. suspended' => suspended \/ SuspendEvent
    BY <1>7, WhoStops DEF Start, HandleStop
  <2>3. SuspendEvent => EventsIn(fast) # {}
    <3>1. SuspendEvent => fast # <<>>
      BY DEF SuspendEvent, Handling
    <3>2. QED
      BY <1>1, <1>3, <3>1, EventsTaken
  <2>4. ASSUME EventsIn(fast) # {} \/ suspended PROVE ran' = made' /\ Held'
    <3>1. ran = made /\ Held /\ ~HandleCall /\ ~HandleSuspend /\ ~HandleStop
      BY <1>1, <1>4, <2>4
    <3>2. Held' /\ ~CallMade
      BY <1>7, <3>1, HeldKept, MadeFree
    <3>3. made' = made /\ ran' = ran
      BY <1>7, <3>1, <3>2, WhoCalls, WhoRuns
    <3>4. QED
      BY <3>1, <3>2, <3>3
  <2>5. ASSUME HandleSuspend PROVE ran' = made' /\ Held'
    <3>1. /\ 1 \in CallsAt(fast) /\ fast[1] = Head(fast) /\ Head(fast).kind = "suspend"
          /\ ran' = Head(fast).n /\ made' = made
      BY <1>3, <2>5, RanFacts
    <3>2. Head(fast).n = made /\ Held
      BY <3>1 DEF Suspension
    <3>3. Held'
      BY <1>7, <3>2, HeldKept
    <3>4. QED
      BY <3>1, <3>2, <3>3
  <2>6. EventsIn(fast') # {} \/ suspended' => ran' = made' /\ Held'
    BY <2>1, <2>2, <2>3, <2>4, <2>5
  <2>7. (\A i, j \in EventsIn(fast') : i = j) /\ (suspended' => EventsIn(fast') = {})
    <3>1. CASE HandleSuspend
      <4>1. ASSUME NEW i \in EventsIn(fast') PROVE i = Len(fast')
        <5>1. fast' = Append(Tail(fast), [kind |-> "suspend_event"]) /\ Tail(fast) \in Seq(FastEvent)
              /\ fast # <<>>
          BY <1>1, <3>1, TailFacts DEF HandleSuspend, Handling
        <5>2. EventsIn(Tail(fast)) = {}
          BY <1>1, <1>4, <3>1, <5>1, EventsTaken
        <5>3. [kind |-> "suspend_event"] \in FastEvent
          BY DEF FastEvent
        <5>4. /\ DOMAIN fast' = 1 .. Len(Tail(fast)) + 1 /\ Len(Tail(fast)) \in Nat
              /\ DOMAIN Tail(fast) = 1 .. Len(Tail(fast))
              /\ \A k \in 1 .. Len(Tail(fast)) : fast'[k] = Tail(fast)[k]
              /\ Len(fast') = Len(Tail(fast)) + 1
          BY <5>1, <5>3, AppendFacts, PushFacts
        <5>5. i \in DOMAIN fast' /\ fast'[i].kind = "suspend_event"
          BY DEF EventsIn
        <5>6. ~(i \in 1 .. Len(Tail(fast)))
          BY <5>2, <5>4, <5>5 DEF EventsIn
        <5>7. QED
          BY <5>4, <5>5, <5>6
      <4>2. ~suspended'
        BY <1>4, <3>1 DEF HandleSuspend
      <4>3. QED
        BY <4>1, <4>2
    <3>2. CASE Handles
      <4>1. fast # <<>> /\ fast' = Tail(fast)
        BY <3>2, HandlesFacts
      <4>2. /\ \A i, j \in EventsIn(fast') : i = j
            /\ EventsIn(fast') # {} => EventsIn(fast) # {} /\ Head(fast).kind # "suspend_event"
        BY <1>1, <4>1, EventsTaken
      <4>3. QED
        BY <1>1, <1>3, <2>2, <4>2
    <3>3. CASE UNCHANGED fast /\ ~Handles
      BY <1>1, <1>3, <2>2, <3>3
    <3>4. QED
      BY <1>7, <3>1, <3>2, <3>3, WhoChangesFast
  <2>8. suspended' => ~up'
    <3>1. CASE SuspendEvent \/ HandleStop
      BY <3>1 DEF SuspendEvent, HandleStop
    <3>2. CASE Start
      <4>1. ~suspended /\ suspended' = suspended
        BY <3>2 DEF Start, Stops
      <4>2. QED
        BY <4>1
    <3>3. CASE UNCHANGED <<suspended, up, stop>>
      BY <1>1, <3>3
    <3>4. QED
      BY <1>7, <3>1, <3>2, <3>3, WhoStops
  <2>9. QED
    BY <1>2, <2>6, <2>7, <2>8, SuspendLastStep DEF Suspension, SuspendLast
<1>8. QED
  BY <1>5, <1>6, <1>7

\* Once it stops, the user changes nothing: see Careful.
LEMMA NoWinchKept ==
  ASSUME Careful, Types, [Next]_vars, Stopping, NoWinch
  PROVE  NoWinch'
<1>1. /\ winch = FALSE /\ "refresh" \notin ToSet(mainq)
      /\ \A i \in DOMAIN fast : fast[i].kind # "winch"
      /\ mainq \in Seq({"keys", "refresh"}) /\ fast \in Seq(FastEvent)
  BY DEF NoWinch, Types, Flags, MainTypes, CallTypes
<1>2. winch' = FALSE
  BY <1>1, WhoSignals DEF Poll, ChangeSize, Stopping
<1>3. \A i \in DOMAIN fast' : fast'[i].kind # "winch"
  BY <1>1, CallsPlaced, OldEvents
<1>4. "refresh" \notin ToSet(mainq')
  <2>1. CASE TakeKeys \/ Refresh
    <3>1. mainq # <<>> /\ mainq' = Tail(mainq)
      BY <2>1 DEF TakeKeys, Refresh, Polls
    <3>2. QED
      BY <1>1, <3>1, HeadInSet
  <2>2. CASE FlushSchedule
    <3>1. mainq' = Append(mainq, "keys")
      BY <2>2 DEF FlushSchedule
    <3>2. /\ Len(mainq) \in Nat /\ DOMAIN mainq = 1 .. Len(mainq)
          /\ DOMAIN mainq' = 1 .. Len(mainq) + 1 /\ mainq'[Len(mainq) + 1] = "keys"
          /\ \A i \in 1 .. Len(mainq) : mainq'[i] = mainq[i]
      BY <1>1, <3>1, AppendFacts
    <3>3. ASSUME NEW i \in DOMAIN mainq' PROVE mainq'[i] # "refresh"
      BY <1>1, <3>2, <3>3 DEF ToSet
    <3>4. QED
      BY <3>3 DEF ToSet
  <2>3. CASE HandleWinch
    <3>1. fast # <<>> /\ Head(fast).kind = "winch"
      BY <2>3 DEF HandleWinch, Handling
    <3>2. 1 \in DOMAIN fast /\ fast[1] = Head(fast)
      BY <1>1, <3>1
    <3>3. QED
      BY <1>1, <3>1, <3>2
  <2>4. QED
    BY <1>1, <2>1, <2>2, <2>3, WhoChangesMainq
<1>5. QED
  BY <1>2, <1>3, <1>4 DEF NoWinch

StopLast ==
  /\ \A i \in CallsAt(fast) : fast[i].kind = "stop" => fast[i].n = made /\ Stopping
  /\ \A i \in DOMAIN uiq : uiq[i].kind = "stop" => uiq[i].n = made /\ Stopping

LEMMA StopLastStep ==
  ASSUME Careful, Types, Stops, [Next]_vars
  PROVE  StopLast'
<1>1. /\ \A i \in CallsAt(fast) : fast[i].kind = "stop" => fast[i].n = made /\ Stopping
      /\ \A i \in DOMAIN uiq : uiq[i].kind = "stop" => uiq[i].n = made /\ Stopping
  BY DEF Stops
<1>2. ASSUME Stopping PROVE Stopping' /\ made' = made
  <2>1. Stopping' /\ ~CallMade
    BY <1>2, StoppingKept, MadeFree
  <2>2. made' = made
    BY <2>1, WhoCalls DEF Poll
  <2>3. QED
    BY <2>1, <2>2
<1>3. ASSUME NEW i \in CallsAt(fast'), fast'[i].kind = "stop"
      PROVE  fast'[i].n = made' /\ Stopping'
  BY <1>1, <1>2, <1>3, OldCalls
<1>4. ASSUME NEW i \in DOMAIN uiq', uiq'[i].kind = "stop"
      PROVE  uiq'[i].n = made' /\ Stopping'
  <2>1. CASE i \in DOMAIN uiq /\ uiq'[i] = uiq[i]
    BY <1>1, <1>2, <1>4, <2>1
  <2>2. CASE Stop /\ uiq'[i].n = made'
    BY <2>2 DEF Stop, Stopping
  <2>3. QED
    BY <1>4, <2>1, <2>2, OldQueue
<1>5. QED
  BY <1>3, <1>4 DEF StopLast

\* Before the thread of the UI has started, nothing has.
LEMMA StartedStep ==
  ASSUME Types, Stops, [Next]_vars
  PROVE  /\ upc' = "start" => /\ mpc' = "attach" /\ ~ready' /\ made' = 0 /\ ~suspended'
                              /\ fast' = <<>> /\ ~stop'
         /\ mpc' = "attach" => made' = 0
<1>1. mpc' = "attach" => made' = 0
  <2>1. ASSUME mpc' = "attach" PROVE mpc = "attach" /\ ~CallMade
    <3>1. mpc = "attach"
      BY <2>1, WhoMoves
         DEF Attach, SuspendCall, SuspendWait, SuspendReturn, Stop, Stopped, Joined, Start, Resume,
             mainVars
    <3>2. ~CallMade
      BY <2>1, <3>1 DEF CallMade, Attach, MainCall, SuspendCall, Stop, Refresh, Polls
    <3>3. QED
      BY <3>1, <3>2
  <2>2. QED
    BY <2>1, WhoCalls DEF Stops, Poll
<1>2. ASSUME upc' = "start"
      PROVE  mpc' = "attach" /\ ~ready' /\ ~suspended' /\ fast' = <<>> /\ ~stop'
  <2>1. upc = "start" /\ ~Start
    BY <1>2, WhoChangesFlush
       DEF TookKeys, Start, Finish, Close, HandleRead, WriteKey, FlushBegin, FlushSchedule,
           FlushWait, Flushed
  <2>2. mpc = "attach" /\ ~ready /\ ~suspended /\ fast = <<>> /\ ~stop
    BY <2>1 DEF Stops
  <2>3. ~Poll /\ ~HandleSuspend /\ ~Handles /\ ~SuspendEvent /\ ~Resume /\ ~HandleStop
    BY <2>1
       DEF Poll, HandleSuspend, Handles, HandleCall, SuspendEvent, HandleCont, HandleWinch,
           HandleStop, HandleRead, Handling, Resume
  <2>4. mpc' = "attach" /\ (ready' <=> ready)
    BY <2>1, <2>2, <2>3, WhoMoves
       DEF Attach, SuspendCall, SuspendWait, SuspendReturn, Stop, Stopped, Joined
  <2>5. fast' = fast
    BY <2>3, WhoChangesFast
  <2>6. (suspended' <=> suspended) /\ (stop' <=> stop)
    BY <2>1, <2>3, WhoStops
  <2>7. QED
    BY <2>2, <2>4, <2>5, <2>6
<1>3. QED
  <2>1. upc' = "start" => made' = 0
    BY <1>1, <1>2
  <2>2. QED
    BY <1>1, <1>2, <2>1

LEMMA StopsStep ==
  ASSUME Careful, Types, Numbered, Suspension, Stops, [Next]_vars
  PROVE  Stops'
<1>1. /\ stop => Stopping /\ ran = made
      /\ Stopping => NoWinch
      /\ stopped \/ upc \in {"closing", "gone"} => upc \in {"closing", "gone"} /\ stop
      /\ mpc = "exit" => ~attached
      /\ up \/ suspended \/ stop \/ upc = "start"
      /\ upc = "start" => ~stop
  BY DEF Stops
<1>2. stop' => Stopping' /\ ran' = made'
  <2>1. CASE stop
    <3>1. Stopping /\ ran = made /\ ~HandleCall /\ ~HandleSuspend /\ ~HandleStop
      BY <1>1, <2>1, RanFacts
    <3>2. Stopping' /\ ~CallMade
      BY <3>1, StoppingKept, MadeFree
    <3>3. made' = made /\ ran' = ran
      BY <3>1, <3>2, WhoCalls, WhoRuns DEF Poll
    <3>4. QED
      BY <3>1, <3>2, <3>3
  <2>2. CASE HandleStop
    <3>1. /\ 1 \in CallsAt(fast) /\ fast[1] = Head(fast) /\ Head(fast).kind = "stop"
          /\ ran' = Head(fast).n /\ made' = made
      BY <2>2, RanFacts DEF HandleStop, Handling
    <3>2. Head(fast).n = made /\ Stopping
      BY <3>1 DEF Stops
    <3>3. QED
      BY <3>1, <3>2, StoppingKept
  <2>3. CASE ~stop /\ ~HandleStop
    BY <2>3, WhoStops DEF Start, SuspendEvent, Resume
  <2>4. QED
    BY <2>1, <2>2, <2>3
<1>3. Stopping' => NoWinch'
  <2>1. CASE Stopping
    BY <1>1, <2>1, NoWinchKept
  <2>2. CASE Stop
    <3>1. NoWinch /\ UNCHANGED <<mainq, winch, fast>>
      BY <2>2 DEF Stop, uiVars, worldVars
    <3>2. QED
      BY <3>1 DEF NoWinch
  <2>3. CASE ~Stopping /\ ~Stop
    BY <2>3, WhoMoves
       DEF Attach, SuspendCall, SuspendWait, SuspendReturn, Stopped, Joined, Start, Resume,
           Stopping, mainVars
  <2>4. QED
    BY <2>1, <2>2, <2>3
<1>4. stopped' \/ upc' \in {"closing", "gone"} => upc' \in {"closing", "gone"} /\ stop'
  <2>1. CASE upc \in {"closing", "gone"}
    <3>1. stop /\ ~Start
      BY <1>1, <2>1 DEF Start
    <3>2. stop'
      BY <3>1, WhoStops DEF SuspendEvent, Resume, HandleStop
    <3>3. upc' \in {"closing", "gone"}
      BY <2>1, WhoChangesFlush
         DEF TookKeys, Start, Finish, Close, HandleRead, WriteKey, FlushBegin, FlushSchedule,
             FlushWait, Flushed, Handling
    <3>4. QED
      BY <3>2, <3>3
  <2>2. CASE Finish
    BY <2>2 DEF Finish
  <2>3. CASE upc \notin {"closing", "gone"} /\ ~Finish
    <3>1. ~stopped /\ ~stopped'
      BY <1>1, <2>3, WhoTells DEF Stop
    <3>2. upc' \notin {"closing", "gone"}
      BY <2>3, WhoChangesFlush
         DEF TookKeys, Start, Close, HandleRead, WriteKey, FlushBegin, FlushSchedule,
             FlushWait, Flushed
    <3>3. QED
      BY <3>1, <3>2
  <2>4. QED
    BY <2>1, <2>2, <2>3
<1>5. mpc' = "exit" => ~attached'
  BY <1>1, WhoMoves
     DEF Attach, SuspendCall, SuspendWait, SuspendReturn, Stop, Stopped, Joined, Start, Resume,
         mainVars
<1>6. up' \/ suspended' \/ stop' \/ upc' = "start"
  <2>1. CASE Start \/ Resume
    BY <2>1 DEF Start, Resume
  <2>2. CASE SuspendEvent
    BY <2>2 DEF SuspendEvent
  <2>3. CASE HandleStop
    BY <2>3 DEF HandleStop
  <2>4. CASE UNCHANGED <<suspended, up, stop>> /\ ~Start
    <3>1. upc = "start" => upc' = "start"
      BY <2>4, WhoChangesFlush
         DEF TookKeys, Finish, Close, HandleRead, WriteKey, FlushBegin, FlushSchedule,
             FlushWait, Flushed, Handling
    <3>2. QED
      BY <1>1, <2>4, <3>1
  <2>5. QED
    BY <2>1, <2>2, <2>3, <2>4, WhoStops
<1>7. QED
  BY <1>2, <1>3, <1>4, <1>5, <1>6, StartedStep, StopLastStep DEF Stops, StopLast

-----------------------------------------------------------------------------
(***************************************************************************)
(* Theorems                                                                *)
(***************************************************************************)
KeysInv == Types /\ Handing /\ Forwarding /\ AllKeys
CallsInv == Types /\ Numbered /\ Suspension /\ Stops

LEMMA InitKeys == Init => KeysInv
<1>1. ASSUME Init PROVE KeysInv
  <2>1. MainTypes
    BY <1>1, BridgeAssumption DEF Init, MainTypes
  <2>2. Flags
    BY <1>1 DEF Init, Flags
  <2>3. CallTypes /\ KeyTypes
    BY <1>1, BridgeAssumption DEF Init, CallTypes, KeyTypes
  <2>4. Types
    BY <2>1, <2>2, <2>3 DEF Types
  <2>5. Handing /\ Forwarding
    BY <1>1 DEF Init, Handing, Forwarding, KeysAt, Reads
  <2>6. AllKeys
    <3>1. ReadFrom = <<>> /\ Pending(fast) = <<>>
      BY <1>1, <2>4, ReadFromFacts DEF Init, Pending, Reads
    <3>2. [i \in 1 .. 0 |-> i] = <<>>
      OBVIOUS
    <3>3. <<>> \o <<>> = <<>>
      OBVIOUS
    <3>4. QED
      BY <1>1, <3>1, <3>2, <3>3 DEF Init, AllKeys
  <2>7. QED
    BY <2>4, <2>5, <2>6 DEF KeysInv
<1>2. QED
  BY <1>1

LEMMA KeysInductive == Spec => []KeysInv
<1>1. KeysInv /\ [Next]_vars => KeysInv'
  BY TypesStep, HandingStep, ForwardingStep, AllKeysStep DEF KeysInv
<1>2. QED
  BY <1>1, InitKeys, PTL DEF Spec

LEMMA InitCalls == Init => CallsInv
<1>1. ASSUME Init PROVE CallsInv
  <2>1. Types
    BY <1>1, InitKeys DEF KeysInv
  <2>2. Numbered
    BY <1>1 DEF Init, Numbered, NumbersOf, CallsAt
  <2>3. Suspension
    BY <1>1 DEF Init, Suspension, CallsAt, EventsIn
  <2>4. Stops
    BY <1>1 DEF Init, Stops, CallsAt, Stopping
  <2>5. QED
    BY <2>1, <2>2, <2>3, <2>4 DEF CallsInv
<1>2. QED
  BY <1>1

LEMMA CallsInductive ==
  ASSUME Careful
  PROVE  Spec => []CallsInv
<1>1. CallsInv /\ [Next]_vars => CallsInv'
  BY TypesStep, NumberedStep, SuspensionStep, StopsStep DEF CallsInv
<1>2. QED
  BY <1>1, InitCalls, PTL DEF Spec

\* The buffers of the keys keep within their sizes, and whatever is scheduled
\* is one of the calls and events that the loops have.
THEOREM TypeCorrect == Spec => []TypeOK
<1>1. KeysInv => TypeOK
  <2>1. ASSUME KeysInv PROVE TypeOK
    <3>1. MainTypes /\ Flags /\ CallTypes /\ KeyTypes
      BY <2>1 DEF KeysInv, Types
    <3>2. fast \in Seq(Event)
      <4>1. Seq(Key) \subseteq Seq(Nat)
        <5> DEFINE N == Nat
        <5>1. Key \subseteq N
          BY BridgeAssumption DEF Key
        <5> HIDE DEF N
        <5>2. \A s \in Seq(Key) : s \in Seq(N)
          BY <5>1
        <5>3. QED
          BY <5>2 DEF N
      <4>2. FastEvent \subseteq Event
        BY <4>1 DEF FastEvent, Event
      <4>3. QED
        BY <3>1, <4>2 DEF CallTypes
    <3>3. {attached, ready, stopped, suspended, contReceived, stop, up, waiting, untilEmpty, winch,
           cont} \subseteq BOOLEAN
      BY <3>1 DEF Flags
    <3>4. {input, typedIn, todo, keyBuffer, tty} \subseteq Seq(1 .. MaxKeys)
      BY <3>1 DEF KeyTypes, Key
    <3>5. QED
      BY <3>1, <3>2, <3>3, <3>4 DEF TypeOK, MainTypes, CallTypes, KeyTypes
  <2>2. QED
    BY <2>1
<1>2. QED
  BY <1>1, KeysInductive, PTL

\* tui/input.c and os/input.c: no key is lost, doubled or overtaken on its way
\* from the terminal to the editor, through the buffers of two threads of
\* which each may be full.
THEOREM KeysArrive == Spec => []KeysInOrder
<1>1. KeysInv /\ TypeOK => KeysInOrder
  <2>1. ASSUME KeysInv, TypeOK PROVE KeysInOrder
    <3>1. AllKeys /\ Handing
      BY <2>1 DEF KeysInv
    <3>2. taking >= 0 => upc \in {"lock", "wait"}
      BY <3>1 DEF Handing, Given
    <3>3. QED
      BY <2>1, <3>1, <3>2 DEF KeysInOrder, AllKeys, ReadFrom
  <2>2. QED
    BY <2>1
<1>2. QED
  BY <1>1, KeysInductive, TypeCorrect, PTL

(***************************************************************************)
(* The mailbox                                                             *)
(***************************************************************************)

\* Only loop_close ends the loop of the UI, and no step opens it again.
LEMMA WhoCloses ==
  [Next]_vars => (upc' = "gone" <=> upc = "gone") \/ Close
BY DEF Next, MainStep, UIStep, Attach, MainCall, SuspendCall, SuspendWait, SuspendReturn, Stop,
       Stopped, Joined, TakeKeys, TookKeys, Refresh, ReadKey, Start, Poll, HandleCall,
       HandleSuspend, SuspendEvent, HandleCont, Resume, HandleWinch, HandleStop, Finish,
       HandleRead, WriteKey, FlushBegin, FlushSchedule, FlushWait, Flushed, Handling, Type,
       ChangeSize, Fg, vars, mainVars, bridgeVars, keyVars, uiVars, worldVars

\* Every step of the two threads is a step of the mailbox of the UI or none.
LEMMA MailStep ==
  ASSUME Careful, CallsInv, [Next]_vars
  PROVE  [Mail!Next]_(Mail!mailVars)
<1>1. Types /\ Numbered /\ Stops
  BY DEF CallsInv
<1>2. CASE Close
  <2>1. upc = "closing" /\ upc' = "gone" /\ UNCHANGED <<made, ran>>
    BY <1>2 DEF Close
  <2>2. QED
    BY <2>1 DEF Mail!Next, Mail!Close
<1>3. CASE HandleCall \/ HandleSuspend \/ HandleStop
  <2>1. ran' = ran + 1 /\ ran < made /\ made' = made /\ upc = "poll"
    BY <1>1, <1>3, RanFacts
  <2>2. upc' = upc
    BY <1>3 DEF HandleCall, HandleSuspend, HandleStop
  <2>3. QED
    BY <2>1, <2>2 DEF Mail!Next, Mail!Handle
<1>4. CASE CallMade
  <2>1. ~Stopping
    BY <1>1, <1>4, MadeFree
  <2>2. upc # "gone"
    BY <1>1, <2>1 DEF Stops
  <2>3. made' = made + 1 /\ UNCHANGED <<upc, ran>>
    BY <1>4, CallMadeFacts DEF uiVars
  <2>4. QED
    BY <2>2, <2>3 DEF Mail!Next, Mail!Post
<1>5. CASE UNCHANGED <<made, ran>> /\ ~Close
  BY <1>5, WhoCloses DEF Mail!mailVars
<1>6. UNCHANGED made \/ CallMade
  BY WhoCalls DEF Poll
<1>7. QED
  BY <1>2, <1>3, <1>4, <1>5, <1>6, WhoRuns

\* ui_bridge.c and the exit of mch_exit: for the main thread the loop of the UI
\* is a mailbox, each call handled once and in order and none scheduled after
\* its loop_close, if the user does what Careful says.
THEOREM MailRefinement ==
  ASSUME Careful
  PROVE  Spec => ImplementsMailbox
<1>1. Init => Mail!Init
  BY DEF Init, Mail!Init
<1>2. CallsInv /\ [Next]_vars => [Mail!Next]_(Mail!mailVars)
  BY MailStep
<1>3. Spec => []CallsInv
  BY CallsInductive
<1>4. QED
  BY <1>1, <1>2, <1>3, PTL DEF Spec, ImplementsMailbox, Mail!Spec

\* ui_bridge.c: the calls are handled as those of a mailbox are, none while the
\* terminal is given back to the shell, and after `stopped` neither thread sends
\* to the other, if the user does what Careful says.
THEOREM CallsArrive ==
  ASSUME Careful
  PROVE  Spec => CallsReachTheTerminal
<1> DEFINE Step == /\ ran' # ran => up
                   /\ stopped \/ upc = "gone" => made' = made /\ Len(mainq') <= Len(mainq)
<1>1. CallsInv /\ [Next]_vars => Step
  <2> SUFFICES ASSUME CallsInv, [Next]_vars PROVE Step
    OBVIOUS
  <2>1. Types /\ Numbered /\ Suspension /\ Stops
    BY DEF CallsInv
  <2>2. ran' # ran => up
    <3>1. ASSUME HandleCall \/ HandleSuspend \/ HandleStop PROVE up
      <4>1. ran # made /\ upc = "poll"
        BY <2>1, <3>1, RanFacts
      <4>2. ~suspended /\ ~stop
        BY <2>1, <4>1 DEF Suspension, Stops
      <4>3. QED
        BY <2>1, <4>1, <4>2 DEF Stops
    <3>2. QED
      BY <3>1, WhoRuns
  <2>3. ASSUME stopped \/ upc = "gone" PROVE made' = made /\ Len(mainq') <= Len(mainq)
    <3>1. upc \in {"closing", "gone"} /\ Stopping
      BY <2>1, <2>3 DEF Stops
    <3>2. ~CallMade
      BY <2>1, <3>1, MadeFree
    <3>3. made' = made
      BY <3>2, WhoCalls DEF Poll
    <3>4. ~HandleWinch /\ ~FlushSchedule
      BY <3>1 DEF HandleWinch, FlushSchedule, Handling
    <3>5. mainq' = mainq \/ (mainq # <<>> /\ mainq' = Tail(mainq))
      BY <3>4, WhoChangesMainq DEF TakeKeys, Refresh, Polls
    <3>6. mainq \in Seq({"keys", "refresh"})
      BY <2>1 DEF Types, MainTypes
    <3>7. Len(mainq') <= Len(mainq)
      BY <3>5, <3>6
    <3>8. QED
      BY <3>3, <3>7
  <2>4. QED
    BY <2>2, <2>3
<1>2. Spec => []CallsInv
  BY CallsInductive
<1>3. Spec => ImplementsMailbox
  BY MailRefinement
<1>4. QED
  BY <1>1, <1>2, <1>3, PTL DEF Spec, CallsReachTheTerminal
=============================================================================

--------------------------- MODULE ChannelProofs ---------------------------
(***************************************************************************)
(* Theorems about Channel, for any channels, types, messages and bounds.   *)
(*                                                                         *)
(* The argument: the fields of one channel agree with each other (Sound),  *)
(* whatever the static functions make of them; the references that its     *)
(* own fields do not explain (Slack) are those of the C stack and of the   *)
(* parser; and the call stack of a channel mirrors its calls on the C      *)
(* stack (Matches).                                                        *)
(***************************************************************************)
EXTENDS Channel, SequenceLemmas, TLAPS

ChannelTypes == {"socket", "proc", "stdio"}

StackFrame == [kind : {"call", "handler"}, chan : Channels, id : Nat, busy : BOOLEAN]

\* The fields of channel c.
Fields(c) ==
  [refs : Nat, closed : BOOLEAN, frames : Seq(Frame), nextId : 1 .. MaxCalls[c] + 1,
   delayed : Seq(1 .. MaxNotes[c]), queue : Seq(Message), unpacker : Seq(Message),
   subscribed : BOOLEAN, writes : 0 .. MaxMem + 1, writer : {"open", "closing", "closed"},
   reader : {"open", "eof", "closed"}, exitEvent : BOOLEAN, received : Nat,
   notes : 0 .. MaxNotes[c], sent : Seq(1 .. MaxNotes[c])]

\* The references that the fields explain, and the others.
OfMaker(t, k) == Count(~k.closed \/ t = "stdio")
OfStreams(t, k) == Count(t = "stdio" \/ k.writer # "closed")
Slack(t, k) == k.refs - (OfMaker(t, k) + OfStreams(t, k) + Len(k.queue))

\* An open socket can be written; a process whose output is not closed has its
\* input not closed, either.  Only a stdio channel has an exit event.
Linked(t, k) ==
  /\ t = "socket" /\ ~k.closed => k.writer = "open"
  /\ t = "proc" /\ k.reader # "closed" => k.writer # "closed"
  /\ k.exitEvent => t = "stdio"

Answered(k) ==
  \A i \in 1 .. Len(k.frames) :
    k.frames[i].returned /\ ~k.frames[i].errored => k.frames[i].result = k.frames[i].id

AllReturned(k) == \A i \in 1 .. Len(k.frames) : k.frames[i].returned
Told(k) == k.reader = "eof" => k.closed /\ AllReturned(k)

\* The notifications have numbers: first those written, then those delayed.
InTurn(k) ==
  /\ \A i \in 1 .. Len(k.sent) : k.sent[i] = i
  /\ ~k.closed => /\ k.notes = Len(k.sent) + Len(k.delayed)
                  /\ \A i \in 1 .. Len(k.delayed) : k.delayed[i] = Len(k.sent) + i
HeldBack(k) == k.frames = <<>> => k.delayed = <<>>

\* What holds of the fields of every channel.
Consistent(t, k) == Linked(t, k) /\ Answered(k) /\ InTurn(k)
Sound(t, k) == Consistent(t, k) /\ Told(k) /\ HeldBack(k)

\* What most functions leave as it was.
SameInput(k, j) ==
  j.queue = k.queue /\ j.unpacker = k.unpacker /\ j.nextId = k.nextId /\ j.received = k.received
SameNotes(k, j) == j.delayed = k.delayed /\ j.notes = k.notes /\ j.sent = k.sent
SameLinks(k, j) ==
  j.closed = k.closed /\ j.writer = k.writer /\ j.reader = k.reader /\ j.exitEvent = k.exitEvent
SameIds(k, j) ==
  Len(j.frames) = Len(k.frames) /\ \A i \in 1 .. Len(k.frames) : j.frames[i].id = k.frames[i].id


\* What a function makes of the fields, but for the notifications: its calls
\* stay what they are, and by d more references are held by others.
Effect(c, t, k, j, d) ==
  /\ j \in Fields(c) /\ SameInput(k, j) /\ SameIds(k, j) /\ Slack(t, j) = Slack(t, k) + d
  /\ j.reader = "eof" => k.reader = "eof"

-----------------------------------------------------------------------------
(***************************************************************************)
(* One channel                                                             *)
(***************************************************************************)
LEMMA TypeOfChannel ==
  ASSUME type \in Types, NEW c \in Channels
  PROVE  type[c] \in ChannelTypes
  BY ChannelAssumption DEF ChannelTypes

LEMMA BoundTypes ==
  ASSUME NEW c \in Channels
  PROVE  MaxCalls[c] \in Nat /\ MaxMessages[c] \in Nat /\ MaxNotes[c] \in Nat /\ MaxMem \in Nat
  BY ChannelAssumption

LEMMA SlackFacts ==
  ASSUME NEW c \in Channels, NEW t \in ChannelTypes, NEW k \in Fields(c)
  PROVE  /\ k.refs \in Nat /\ Len(k.queue) \in Nat
         /\ OfMaker(t, k) \in 0 .. 1
         /\ OfStreams(t, k) \in 0 .. 1
         /\ Slack(t, k) \in Int
         /\ k.refs = Slack(t, k) + OfMaker(t, k) + OfStreams(t, k) + Len(k.queue)
<1>1. k.refs \in Nat /\ k.queue \in Seq(Message)
  BY DEF Fields
<1>2. Len(k.queue) \in Nat
  BY <1>1
<1>3. OfMaker(t, k) \in 0 .. 1 /\ OfStreams(t, k) \in 0 .. 1
  BY DEF OfMaker, OfStreams, Count
<1> HIDE DEF OfMaker, OfStreams
<1>4. QED
  BY <1>1, <1>2, <1>3 DEF Slack

LEMMA SlackOfSame ==
  ASSUME NEW c \in Channels, NEW t \in ChannelTypes, NEW k \in Fields(c), NEW j \in Fields(c),
         SameLinks(k, j)
  PROVE  /\ j.queue = k.queue => Slack(t, j) = Slack(t, k) + (j.refs - k.refs)
         /\ Len(j.queue) = Len(k.queue) - 1 =>
              Slack(t, j) = (Slack(t, k) + (j.refs - k.refs)) + 1
         /\ Len(j.queue) = Len(k.queue) + 1 =>
              Slack(t, j) = (Slack(t, k) + (j.refs - k.refs)) - 1
<1> DEFINE m == OfMaker(t, k)
           o == OfStreams(t, k)
           l == Len(k.queue)
           p == Len(j.queue)
           sk == Slack(t, k)
           sj == Slack(t, j)
           rk == k.refs
           rj == j.refs
<1>1. OfMaker(t, j) = m /\ OfStreams(t, j) = o
  BY DEF OfMaker, OfStreams, SameLinks
<1>2. /\ m \in Int /\ o \in Int /\ l \in Int /\ p \in Int
      /\ sk \in Int /\ sj \in Int /\ rk \in Int /\ rj \in Int
  BY SlackFacts
<1>3. rk = sk + m + o + l /\ rj = sj + m + o + p
  BY <1>1, SlackFacts
<1>4. j.queue = k.queue => p = l
  OBVIOUS
<1> HIDE DEF m, o, l, p, sk, sj, rk, rj
<1>5. /\ p = l => sj = sk + (rj - rk)
      /\ p = l - 1 => sj = (sk + (rj - rk)) + 1
      /\ p = l + 1 => sj = (sk + (rj - rk)) - 1
  BY <1>2, <1>3
<1>6. QED
  BY <1>4, <1>5 DEF l, p, sk, sj, rk, rj

\* incref and decref change nothing that a peer could see.
LEMMA IncrefFacts ==
  ASSUME NEW c \in Channels, NEW t \in ChannelTypes, NEW k \in Fields(c),
         NEW j, j = Incref(k)
  PROVE  /\ Effect(c, t, k, j, 1) /\ j.frames = k.frames
         /\ SameNotes(k, j) /\ SameLinks(k, j) /\ j.writes = k.writes
<1> DEFINE n == k.refs + 1
<1>1. n \in Nat
  BY DEF Fields
<1>2. j = [k EXCEPT !.refs = n]
  BY DEF Incref
<1> HIDE DEF n
<1>3. j \in Fields(c)
  BY <1>1, <1>2 DEF Fields
<1>4. /\ j.frames = k.frames /\ j.refs = n /\ j.writes = k.writes
      /\ SameInput(k, j) /\ SameNotes(k, j) /\ SameLinks(k, j)
  BY <1>2 DEF Fields, SameInput, SameNotes, SameLinks
<1>5. Slack(t, j) = Slack(t, k) + 1
  <2>1. Slack(t, j) = Slack(t, k) + (j.refs - k.refs)
    BY <1>3, <1>4, SlackOfSame DEF SameInput
  <2>2. j.refs - k.refs = 1
    BY <1>4, SlackFacts DEF n
  <2>3. QED
    BY <2>1, <2>2, SlackFacts
<1>6. QED
  BY <1>3, <1>4, <1>5 DEF Effect, SameIds, SameLinks

LEMMA DecrefFacts ==
  ASSUME NEW c \in Channels, NEW t \in ChannelTypes, NEW k \in Fields(c), k.refs > 0,
         NEW j, j = Decref(k)
  PROVE  /\ Effect(c, t, k, j, -1) /\ j.frames = k.frames
         /\ SameNotes(k, j) /\ SameLinks(k, j) /\ j.writes = k.writes
<1> DEFINE n == k.refs - 1
           b == k.subscribed /\ k.refs # 1
<1>1. n \in Nat /\ b \in BOOLEAN
  BY DEF Fields
<1>2. j = [k EXCEPT !.refs = n, !.subscribed = b]
  BY DEF Decref
<1> HIDE DEF n, b
<1>3. j \in Fields(c)
  BY <1>1, <1>2 DEF Fields
<1>4. /\ j.frames = k.frames /\ j.refs = n /\ j.writes = k.writes
      /\ SameInput(k, j) /\ SameNotes(k, j) /\ SameLinks(k, j)
  BY <1>2 DEF Fields, SameInput, SameNotes, SameLinks
<1>5. Slack(t, j) = Slack(t, k) - 1
  <2>1. Slack(t, j) = Slack(t, k) + (j.refs - k.refs)
    BY <1>3, <1>4, SlackOfSame DEF SameInput
  <2>2. j.refs - k.refs = (-1)
    BY <1>4, SlackFacts DEF n
  <2>3. QED
    BY <2>1, <2>2, SlackFacts
<1>6. QED
  BY <1>3, <1>4, <1>5 DEF Effect, SameIds, SameLinks

\* What is sound stays so if nothing that soundness speaks of changes.
LEMMA SoundSame ==
  ASSUME NEW t, NEW k, NEW j, j.frames = k.frames, SameNotes(k, j), SameLinks(k, j)
  PROVE  /\ Linked(t, k) => Linked(t, j)
         /\ Answered(k) => Answered(j)
         /\ InTurn(k) => InTurn(j)
         /\ Told(k) => Told(j)
         /\ HeldBack(k) => HeldBack(j)
  BY DEF SameNotes, SameLinks, Linked, Answered, InTurn, Told, AllReturned, HeldBack

LEMMA EffectTwice ==
  ASSUME NEW c \in Channels, NEW t \in ChannelTypes, NEW k \in Fields(c), NEW j, NEW l,
         NEW d \in Int, NEW e \in Int, Effect(c, t, k, j, d), Effect(c, t, j, l, e)
  PROVE  Effect(c, t, k, l, d + e)
<1>1. j \in Fields(c) /\ l \in Fields(c)
  BY DEF Effect
<1>2. Slack(t, l) = Slack(t, k) + (d + e)
  BY <1>1, SlackFacts DEF Effect
<1>3. SameInput(k, l)
  BY DEF Effect, SameInput
<1>4. SameIds(k, l)
  BY DEF Effect, SameIds, SameLinks
<1>5. QED
  BY <1>1, <1>2, <1>3, <1>4 DEF Effect

\* A channel is closed: the reference of its maker is given back, the streams
\* keep theirs until they are closed.
LEMMA ClosedFacts ==
  ASSUME NEW c \in Channels, NEW t \in ChannelTypes, NEW k \in Fields(c),
         Linked(t, k), Slack(t, k) >= 0, NEW j, j = Closed(t, k)
  PROVE  /\ Effect(c, t, k, j, 0) /\ j.frames = k.frames /\ j.closed
         /\ SameNotes(k, j) /\ j.writes = k.writes /\ Linked(t, j)
<1>1. CASE k.closed
  <2>1. j = k
    BY <1>1 DEF Closed
  <2>2. QED
    BY <1>1, <2>1, SlackFacts DEF Effect, SameInput, SameIds, SameNotes
<1>2. CASE ~k.closed /\ t \in {"socket", "proc"}
  <2> DEFINE w == IF t = "socket" \/ k.writer = "open" THEN "closing" ELSE k.writer
             r == IF t = "socket" /\ k.reader = "open" THEN "closed" ELSE k.reader
             m == [k EXCEPT !.closed = TRUE, !.writer = w, !.reader = r]
  <2>1. /\ w \in {"open", "closing", "closed"} /\ r \in {"open", "eof", "closed"}
        /\ w = "closed" <=> k.writer = "closed"
        /\ t = "proc" => r = k.reader
        /\ r = "eof" => k.reader = "eof"
    BY <1>2 DEF Fields, Linked
  <2>2. j = Decref(m)
    <3>1. CASE t = "socket"
      BY <1>2, <3>1 DEF Closed, Fields
    <3>2. CASE t = "proc"
      BY <1>2, <3>2 DEF Closed, Fields
    <3>3. QED
      BY <1>2, <3>1, <3>2
  <2> HIDE DEF w, r
  <2>3. m \in Fields(c)
    BY <2>1 DEF Fields
  <2>4. /\ m.frames = k.frames /\ m.refs = k.refs /\ m.writes = k.writes /\ m.closed
        /\ SameInput(k, m) /\ SameNotes(k, m) /\ m.writer = w /\ m.reader = r
        /\ m.exitEvent = k.exitEvent
    BY DEF Fields, SameInput, SameNotes
  <2> HIDE DEF m
  <2>5. OfMaker(t, k) = 1 /\ OfMaker(t, m) = 0 /\ OfStreams(t, m) = OfStreams(t, k)
    BY <1>2, <2>1, <2>4 DEF OfMaker, OfStreams, Count
  <2>6. Slack(t, m) = Slack(t, k) + 1 /\ m.refs > 0
    BY <2>3, <2>4, <2>5, SlackFacts DEF SameInput
  <2>7. Effect(c, t, k, m, 1)
    BY <2>1, <2>3, <2>4, <2>6 DEF Effect, SameIds
  <2>8. Linked(t, m)
    BY <1>2, <2>1, <2>4 DEF Linked
  <2>9. /\ Effect(c, t, m, j, -1) /\ j.frames = m.frames
        /\ SameNotes(m, j) /\ SameLinks(m, j) /\ j.writes = m.writes
    BY <2>2, <2>3, <2>6, DecrefFacts
  <2>10. Effect(c, t, k, j, 1 + (-1))
    BY <2>7, <2>9, EffectTwice
  <2>11. Linked(t, j)
    BY <2>8, <2>9, SoundSame
  <2>12. QED
    BY <2>4, <2>9, <2>10, <2>11 DEF SameNotes, SameLinks
<1>3. CASE ~k.closed /\ t = "stdio"
  <2> DEFINE r == IF k.reader = "open" THEN "closed" ELSE k.reader
  <2>1. r \in {"open", "eof", "closed"} /\ (r = "eof" => k.reader = "eof")
    BY DEF Fields
  <2>2. j = [k EXCEPT !.closed = TRUE, !.writer = "closing", !.exitEvent = TRUE, !.reader = r]
    BY <1>3 DEF Closed, Fields
  <2> HIDE DEF r
  <2>3. j \in Fields(c)
    BY <2>1, <2>2 DEF Fields
  <2>4. /\ j.frames = k.frames /\ j.refs = k.refs /\ j.writes = k.writes /\ j.closed
        /\ SameInput(k, j) /\ SameNotes(k, j) /\ j.reader = r
    BY <2>2 DEF Fields, SameInput, SameNotes
  <2>5. OfMaker(t, k) = 1 /\ OfMaker(t, j) = 1 /\ OfStreams(t, k) = 1 /\ OfStreams(t, j) = 1
    BY <1>3 DEF OfMaker, OfStreams, Count
  <2>6. Slack(t, j) = Slack(t, k) + 0
    BY <2>3, <2>4, <2>5, SlackFacts DEF SameInput
  <2>7. Linked(t, j)
    BY <1>3 DEF Linked
  <2>8. QED
    BY <2>1, <2>3, <2>4, <2>6, <2>7 DEF Effect, SameIds
<1>4. QED
  BY <1>1, <1>2, <1>3 DEF ChannelTypes

\* The calls that wait on a channel are told that it is no more.
LEMMA ErroredFacts ==
  ASSUME NEW c \in Channels, NEW t \in ChannelTypes, NEW k \in Fields(c),
         Linked(t, k), Slack(t, k) >= 0, NEW j, j = Errored(t, k)
  PROVE  /\ Effect(c, t, k, j, 0) /\ j.closed /\ AllReturned(j) /\ Answered(j)
         /\ SameNotes(k, j) /\ j.writes = k.writes /\ Linked(t, j)
<1> DEFINE fs == [i \in DOMAIN k.frames |->
                    [k.frames[i] EXCEPT !.returned = TRUE, !.errored = TRUE]]
           m == [k EXCEPT !.frames = fs]
<1>1. k.frames \in Seq(Frame)
  BY DEF Fields
<1>2. \A i \in DOMAIN k.frames :
        fs[i] \in Frame /\ fs[i].returned /\ fs[i].errored /\ fs[i].id = k.frames[i].id
  <2> TAKE i \in DOMAIN k.frames
  <2>1. k.frames[i] \in Frame
    BY <1>1
  <2>2. fs[i] = [k.frames[i] EXCEPT !.returned = TRUE, !.errored = TRUE]
    OBVIOUS
  <2>3. QED
    BY <2>1, <2>2 DEF Frame
<1>3. DOMAIN fs = 1 .. Len(k.frames) /\ DOMAIN k.frames = 1 .. Len(k.frames) /\ Len(k.frames) \in Nat
  BY <1>1
<1>4. fs \in Seq(Frame) /\ Len(fs) = Len(k.frames)
  <2>1. fs = [i \in 1 .. Len(k.frames) |-> fs[i]]
    BY <1>3, ZenonT(60)
  <2>2. fs \in [1 .. Len(k.frames) -> Frame]
    BY <1>2, <1>3, <2>1
  <2> HIDE DEF fs
  <2>3. QED
    BY <1>3, <2>2
<1>5. j = Closed(t, m)
  BY DEF Errored
<1> HIDE DEF fs
<1>6. m \in Fields(c)
  BY <1>4 DEF Fields
<1>7. /\ m.frames = fs /\ m.refs = k.refs /\ m.writes = k.writes
      /\ SameInput(k, m) /\ SameNotes(k, m) /\ SameLinks(k, m)
  BY DEF Fields, SameInput, SameNotes, SameLinks
<1> HIDE DEF m
<1>8. Effect(c, t, k, m, 0)
  <2>1. SameIds(k, m)
    BY <1>2, <1>3, <1>4, <1>7 DEF SameIds
  <2>2. Slack(t, m) = Slack(t, k) + (m.refs - k.refs)
    BY <1>6, <1>7, SlackOfSame DEF SameInput
  <2>3. Slack(t, m) = Slack(t, k) + 0
    BY <1>6, <1>7, <2>2, SlackFacts
  <2>4. QED
    BY <1>6, <1>7, <2>1, <2>3 DEF Effect, SameLinks
<1>9. Slack(t, m) >= 0 /\ Linked(t, m)
  BY <1>6, <1>7, <1>8, SlackFacts DEF Effect, Linked, SameLinks
<1>10. /\ Effect(c, t, m, j, 0) /\ j.frames = m.frames /\ j.closed
       /\ SameNotes(m, j) /\ j.writes = m.writes /\ Linked(t, j)
  BY <1>5, <1>6, <1>9, ClosedFacts
<1>11. Effect(c, t, k, j, 0 + 0)
  BY <1>8, <1>10, EffectTwice
<1>12. AllReturned(j) /\ Answered(j)
  BY <1>2, <1>3, <1>4, <1>7, <1>10 DEF AllReturned, Answered
<1>13. QED
  BY <1>7, <1>10, <1>11, <1>12 DEF SameNotes

\* What closes a channel and tells its calls makes it sound.
LEMMA ErroredSound ==
  ASSUME NEW t, NEW k, NEW j, j.closed, AllReturned(j), Answered(j), SameNotes(k, j),
         Linked(t, j), InTurn(k), HeldBack(k), SameIds(k, j)
  PROVE  Sound(t, j)
<1>1. InTurn(j)
  BY DEF InTurn, SameNotes
<1>2. HeldBack(j)
  BY DEF HeldBack, SameIds, SameNotes
<1>3. QED
  BY <1>1, <1>2 DEF Sound, Consistent, Told

\* A message is written, or the channel is closed.
LEMMA WrittenFacts ==
  ASSUME NEW c \in Channels, NEW t \in ChannelTypes, NEW k \in Fields(c),
         Linked(t, k), Slack(t, k) >= 0, Answered(k), Told(k),
         NEW notes \in Seq(1 .. MaxNotes[c]), NEW j, j = Written(t, k, notes)
  PROVE  /\ Effect(c, t, k, j, 0) /\ Linked(t, j) /\ Answered(j) /\ Told(j)
         /\ j.delayed = k.delayed /\ j.notes = k.notes
         /\ \/ ~k.closed /\ ~j.closed /\ j.sent = k.sent \o notes
            \/ j.closed /\ j.sent = k.sent
<1>1. k.writes \in Nat /\ k.writes <= MaxMem + 1 /\ MaxMem \in Nat /\ k.sent \in Seq(1 .. MaxNotes[c])
  BY BoundTypes DEF Fields
<1>2. CASE k.closed
  <2>1. j = k
    BY <1>2 DEF Written
  <2>2. QED
    BY <1>2, <2>1, SlackFacts DEF Effect, SameInput, SameIds
<1>3. CASE ~k.closed /\ k.writes > MaxMem
  <2>1. j = Errored(t, k)
    BY <1>1, <1>3 DEF Written
  <2>2. QED
    BY <2>1, ErroredFacts DEF Told, SameNotes
<1>4. CASE ~k.closed /\ k.writes <= MaxMem
  <2> DEFINE w == k.writes + 1
             s == k.sent \o notes
  <2>1. w \in 0 .. MaxMem + 1 /\ s \in Seq(1 .. MaxNotes[c])
    BY <1>1, <1>4
  <2>2. j = [k EXCEPT !.writes = w, !.sent = s]
    BY <1>1, <1>4 DEF Written, Fields
  <2> HIDE DEF w, s
  <2>3. j \in Fields(c)
    BY <2>1, <2>2 DEF Fields
  <2>4. /\ j.frames = k.frames /\ j.refs = k.refs /\ j.sent = s /\ j.delayed = k.delayed
        /\ j.notes = k.notes /\ SameInput(k, j) /\ SameLinks(k, j)
    BY <2>2 DEF Fields, SameInput, SameLinks
  <2>5. Slack(t, j) = Slack(t, k) + (j.refs - k.refs)
    BY <2>3, <2>4, SlackOfSame DEF SameInput
  <2>6. Slack(t, j) = Slack(t, k) + 0
    BY <2>3, <2>4, <2>5, SlackFacts
  <2>7. Effect(c, t, k, j, 0)
    BY <2>3, <2>4, <2>6 DEF Effect, SameIds, SameLinks
  <2>8. Linked(t, j) /\ Answered(j) /\ Told(j)
    BY <2>4 DEF Linked, Answered, Told, AllReturned, SameLinks
  <2>9. QED
    BY <1>4, <2>4, <2>7, <2>8 DEF SameLinks, s
<1>5. QED
  BY <1>1, <1>2, <1>3, <1>4

\* A message that is no notification.
LEMMA WrittenNothing ==
  ASSUME NEW c \in Channels, NEW t \in ChannelTypes, NEW k \in Fields(c),
         Sound(t, k), Slack(t, k) >= 0, NEW j, j = Written(t, k, <<>>)
  PROVE  Effect(c, t, k, j, 0) /\ Sound(t, j) /\ j.sent = k.sent
<1> DEFINE none == <<>>
<1>1. k.sent \in Seq(1 .. MaxNotes[c]) /\ none \in Seq(1 .. MaxNotes[c]) /\ k.sent \o none = k.sent
  BY ConcatEmpty DEF Fields
<1>0. j = Written(t, k, none)
  OBVIOUS
<1> HIDE DEF none
<1>2. Linked(t, k) /\ Answered(k) /\ Told(k) /\ InTurn(k) /\ HeldBack(k)
  BY DEF Sound, Consistent
<1>3. /\ Effect(c, t, k, j, 0) /\ Linked(t, j) /\ Answered(j) /\ Told(j)
      /\ j.delayed = k.delayed /\ j.notes = k.notes
      /\ \/ ~k.closed /\ ~j.closed /\ j.sent = k.sent \o none
         \/ j.closed /\ j.sent = k.sent
  BY <1>0, <1>1, <1>2, WrittenFacts
<1>4. InTurn(j)
  BY <1>1, <1>2, <1>3 DEF InTurn
<1>5. HeldBack(j)
  BY <1>2, <1>3 DEF HeldBack, Effect, SameIds
<1>6. QED
  BY <1>1, <1>3, <1>4, <1>5 DEF Sound, Consistent

LEMMA RespondedFacts ==
  ASSUME NEW c \in Channels, NEW t \in ChannelTypes, NEW k \in Fields(c),
         Sound(t, k), Slack(t, k) >= 1, NEW id, NEW j, j = Responded(t, k, id)
  PROVE  Effect(c, t, k, j, -1) /\ Sound(t, j) /\ j.sent = k.sent
<1> DEFINE w == IF id # NoResponse THEN Written(t, k, <<>>) ELSE k
<1>1. Effect(c, t, k, w, 0) /\ Sound(t, w) /\ w.sent = k.sent
  <2>1. Slack(t, k) \in Int /\ Slack(t, k) >= 0
    BY SlackFacts
  <2>2. CASE id = NoResponse
    <3>1. w = k
      BY <2>2
    <3> HIDE DEF w
    <3>2. QED
      BY <2>1, <3>1 DEF Effect, SameIds, SameInput
  <2>3. CASE id # NoResponse
    <3>1. w = Written(t, k, <<>>)
      BY <2>3
    <3> HIDE DEF w
    <3>2. QED
      BY <2>1, <3>1, WrittenNothing
  <2>4. QED
    BY <2>2, <2>3
<1>2. j = Decref(w)
  BY DEF Responded
<1> HIDE DEF w
<1>3. w \in Fields(c) /\ Slack(t, w) >= 1
  BY <1>1, SlackFacts DEF Effect
<1>4. w.refs > 0
  BY <1>3, SlackFacts
<1>5. /\ Effect(c, t, w, j, -1) /\ j.frames = w.frames
      /\ SameNotes(w, j) /\ SameLinks(w, j)
  BY <1>2, <1>3, <1>4, DecrefFacts
<1>6. Sound(t, j)
  BY <1>1, <1>5, SoundSame DEF Sound, Consistent
<1>7. Effect(c, t, k, j, 0 + (-1))
  BY <1>1, <1>5, EffectTwice
<1>8. QED
  BY <1>1, <1>5, <1>6, <1>7 DEF SameNotes

\* A notification is next in turn, whether it is delayed or written.
LEMMA NotedFacts ==
  ASSUME NEW c \in Channels, NEW t \in ChannelTypes, NEW k \in Fields(c),
         Sound(t, k), Slack(t, k) >= 0, k.notes < MaxNotes[c], NEW j, j = Noted(t, k)
  PROVE  Effect(c, t, k, j, 0) /\ Sound(t, j) /\ (k.frames # <<>> => j.sent = k.sent)
<1> DEFINE note == k.notes + 1
           asked == [k EXCEPT !.notes = note]
<1>1. /\ note \in 1 .. MaxNotes[c] /\ note \in 0 .. MaxNotes[c]
      /\ k.notes \in Nat /\ k.delayed \in Seq(1 .. MaxNotes[c]) /\ k.sent \in Seq(1 .. MaxNotes[c])
  BY BoundTypes, SMTT(60) DEF Fields
<1>2. Linked(t, k) /\ Answered(k) /\ Told(k) /\ InTurn(k) /\ HeldBack(k)
  BY DEF Sound, Consistent
<1>3. j = IF k.frames # <<>> THEN [asked EXCEPT !.delayed = Append(@, note)]
                             ELSE Written(t, asked, <<note>>)
  BY DEF Noted, Fields
<1>4. note = k.notes + 1
  OBVIOUS
<1> HIDE DEF note
<1>5. CASE k.frames # <<>>
  <2> DEFINE d == Append(k.delayed, note)
  <2>1. /\ d \in Seq(1 .. MaxNotes[c]) /\ Len(d) = Len(k.delayed) + 1
        /\ d[Len(k.delayed) + 1] = note /\ \A i \in 1 .. Len(k.delayed) : d[i] = k.delayed[i]
        /\ Len(k.delayed) \in Nat /\ Len(k.sent) \in Nat
    BY <1>1, PushFacts
  <2>2. j = [k EXCEPT !.notes = note, !.delayed = d]
    BY <1>3, <1>5 DEF Fields
  <2> HIDE DEF d
  <2>3. j \in Fields(c)
    BY <1>1, <2>1, <2>2 DEF Fields
  <2>4. /\ j.frames = k.frames /\ j.refs = k.refs /\ j.sent = k.sent /\ j.delayed = d
        /\ j.notes = note /\ SameInput(k, j) /\ SameLinks(k, j)
    BY <2>2 DEF Fields, SameInput, SameLinks
  <2>5. Slack(t, j) = Slack(t, k) + (j.refs - k.refs)
    BY <2>3, <2>4, SlackOfSame DEF SameInput
  <2>6. Slack(t, j) = Slack(t, k) + 0
    BY <2>3, <2>4, <2>5, SlackFacts
  <2>7. Effect(c, t, k, j, 0)
    BY <2>3, <2>4, <2>6 DEF Effect, SameIds, SameLinks
  <2>8. Linked(t, j) /\ Answered(j) /\ Told(j) /\ HeldBack(j)
    BY <1>2, <1>5, <2>4 DEF Linked, Answered, Told, AllReturned, SameLinks, HeldBack
  <2>9. InTurn(j)
    <3> SUFFICES ASSUME ~j.closed
                 PROVE  /\ j.notes = Len(j.sent) + Len(j.delayed)
                        /\ \A i \in 1 .. Len(j.delayed) : j.delayed[i] = Len(j.sent) + i
      BY <1>2, <2>4 DEF InTurn
    <3>1. /\ k.notes = Len(k.sent) + Len(k.delayed)
          /\ \A i \in 1 .. Len(k.delayed) : k.delayed[i] = Len(k.sent) + i
      BY <1>2, <2>4 DEF InTurn, SameLinks
    <3>2. note = Len(k.sent) + (Len(k.delayed) + 1)
      <4> DEFINE a == Len(k.sent)
                 b == Len(k.delayed)
      <4>1. a \in Nat /\ b \in Nat /\ note = (a + b) + 1
        BY <1>4, <2>1, <3>1
      <4> HIDE DEF a, b
      <4>2. note = a + (b + 1)
        BY <4>1
      <4>3. QED
        BY <4>2 DEF a, b
    <3>3. ASSUME NEW i \in 1 .. Len(d)
          PROVE  d[i] = Len(k.sent) + i
      <4>1. CASE i \in 1 .. Len(k.delayed)
        BY <2>1, <3>1, <4>1
      <4>2. CASE i = Len(k.delayed) + 1
        BY <2>1, <3>2, <4>2
      <4>3. QED
        BY <2>1, <4>1, <4>2
    <3>4. QED
      BY <2>1, <2>4, <3>2, <3>3
  <2>10. QED
    BY <2>4, <2>7, <2>8, <2>9 DEF Sound, Consistent
<1>6. CASE k.frames = <<>>
  <2>1. asked \in Fields(c)
    BY <1>1 DEF Fields
  <2>2. /\ asked.frames = k.frames /\ asked.refs = k.refs /\ asked.sent = k.sent
        /\ asked.delayed = k.delayed /\ asked.notes = note
        /\ SameInput(k, asked) /\ SameLinks(k, asked)
    BY DEF Fields, SameInput, SameLinks
  <2> HIDE DEF asked
  <2>3. Slack(t, asked) = Slack(t, k) + (asked.refs - k.refs)
    BY <2>1, <2>2, SlackOfSame DEF SameInput
  <2>4. Slack(t, asked) = Slack(t, k) + 0 /\ Slack(t, asked) >= 0
    BY <2>1, <2>2, <2>3, SlackFacts
  <2>5. Effect(c, t, k, asked, 0)
    BY <2>1, <2>2, <2>4 DEF Effect, SameIds, SameLinks
  <2>6. Linked(t, asked) /\ Answered(asked) /\ Told(asked)
    BY <1>2, <2>2 DEF Linked, Answered, Told, AllReturned, SameLinks
  <2> DEFINE one == <<note>>
  <2>7. one \in Seq(1 .. MaxNotes[c]) /\ j = Written(t, asked, one)
    BY <1>1, <1>3, <1>6
  <2>7a. one = <<note>>
    OBVIOUS
  <2> HIDE DEF one
  <2>8. /\ Effect(c, t, asked, j, 0) /\ Linked(t, j) /\ Answered(j) /\ Told(j)
        /\ j.delayed = asked.delayed /\ j.notes = asked.notes
        /\ \/ ~asked.closed /\ ~j.closed /\ j.sent = asked.sent \o one
           \/ j.closed /\ j.sent = asked.sent
    BY <2>1, <2>4, <2>6, <2>7, WrittenFacts
  <2>9. Effect(c, t, k, j, 0 + 0)
    BY <2>5, <2>8, EffectTwice
  <2>10. k.delayed = <<>> /\ j.delayed = <<>> /\ HeldBack(j)
    BY <1>2, <1>6, <2>2, <2>8 DEF HeldBack
  <2>11. InTurn(j)
    <3>1. CASE j.closed /\ j.sent = asked.sent
      BY <1>2, <2>2, <3>1 DEF InTurn
    <3>2. CASE ~asked.closed /\ ~j.closed /\ j.sent = asked.sent \o one
      <4>1. j.sent = Append(k.sent, note)
        BY <1>1, <2>2, <2>7a, <3>2, PushFacts
      <4>2. /\ Len(j.sent) = Len(k.sent) + 1 /\ j.sent[Len(k.sent) + 1] = note
            /\ \A i \in 1 .. Len(k.sent) : j.sent[i] = k.sent[i]
            /\ Len(k.sent) \in Nat
        BY <1>1, <4>1, PushFacts
      <4>3. k.notes = Len(k.sent) + Len(k.delayed) /\ \A i \in 1 .. Len(k.sent) : k.sent[i] = i
        BY <1>2, <2>2, <3>2 DEF InTurn, SameLinks
      <4>4. Len(k.delayed) = 0 /\ Len(j.delayed) = 0
        BY <2>10
      <4>5. note = Len(k.sent) + 1
        BY <1>1, <1>4, <4>2, <4>3, <4>4
      <4>6. ASSUME NEW i \in 1 .. Len(j.sent)
            PROVE  j.sent[i] = i
        <5>1. CASE i \in 1 .. Len(k.sent)
          BY <4>2, <4>3, <5>1
        <5>2. CASE i = Len(k.sent) + 1
          BY <4>2, <4>5, <5>2
        <5>3. QED
          BY <4>2, <5>1, <5>2
      <4>7. j.notes = Len(j.sent) + Len(j.delayed)
        BY <2>2, <2>8, <4>2, <4>4, <4>5
      <4>8. QED
        BY <4>4, <4>6, <4>7 DEF InTurn
    <3>3. QED
      BY <2>8, <3>1, <3>2
  <2>12. QED
    BY <1>6, <2>8, <2>9, <2>10, <2>11 DEF Sound, Consistent
<1>7. QED
  BY <1>5, <1>6

\* The delayed notifications are no more: written, as many as there is room
\* for, or dropped with the channel.
LEMMA UndelayedFacts ==
  ASSUME NEW c \in Channels, NEW t \in ChannelTypes, NEW k \in Fields(c),
         NEW j, j = [k EXCEPT !.delayed = <<>>]
  PROVE  /\ Effect(c, t, k, j, 0) /\ j.frames = k.frames /\ SameLinks(k, j)
         /\ j.delayed = <<>> /\ j.notes = k.notes /\ j.sent = k.sent
<1> DEFINE none == <<>>
<1>1. none \in Seq(1 .. MaxNotes[c]) /\ j = [k EXCEPT !.delayed = none]
  OBVIOUS
<1>2. none = <<>>
  OBVIOUS
<1> HIDE DEF none
<1>3. j \in Fields(c)
  BY <1>1 DEF Fields
<1>4. /\ j.frames = k.frames /\ j.refs = k.refs /\ j.sent = k.sent /\ j.delayed = none
      /\ j.notes = k.notes /\ SameInput(k, j) /\ SameLinks(k, j)
  BY <1>1 DEF Fields, SameInput, SameLinks
<1>5. Slack(t, j) = Slack(t, k) + (j.refs - k.refs)
  BY <1>3, <1>4, SlackOfSame DEF SameInput
<1>6. Slack(t, j) = Slack(t, k) + 0
  BY <1>3, <1>4, <1>5, SlackFacts
<1>7. QED
  BY <1>2, <1>3, <1>4, <1>6 DEF Effect, SameIds, SameLinks

LEMMA FlushedFacts ==
  ASSUME NEW c \in Channels, NEW t \in ChannelTypes, NEW k \in Fields(c),
         Consistent(t, k), Told(k), Slack(t, k) >= 0, NEW j, j = Flushed(t, k)
  PROVE  Effect(c, t, k, j, 0) /\ Sound(t, j)
<1> DEFINE room == MaxMem + 1 - k.writes
           n == IF Len(k.delayed) <= room THEN Len(k.delayed) ELSE room
           wrote == [k EXCEPT !.writes = @ + n, !.sent = @ \o SubSeq(k.delayed, 1, n)]
           done == IF k.closed THEN k
                   ELSE IF n < Len(k.delayed) THEN Errored(t, wrote) ELSE wrote
<1>1. j = [done EXCEPT !.delayed = <<>>]
  BY DEF Flushed
<1>2. /\ k.writes \in 0 .. MaxMem + 1 /\ MaxMem \in Nat
      /\ k.delayed \in Seq(1 .. MaxNotes[c]) /\ k.sent \in Seq(1 .. MaxNotes[c])
      /\ Len(k.delayed) \in Nat /\ Len(k.sent) \in Nat
  BY BoundTypes DEF Fields
<1>3. room \in Nat /\ n \in 0 .. Len(k.delayed) /\ k.writes + n \in 0 .. MaxMem + 1
  BY <1>2
<1>4. Linked(t, k) /\ Answered(k) /\ InTurn(k)
  BY DEF Consistent
<1> HIDE DEF room, n
<1> DEFINE w == k.writes + n
           s == k.sent \o SubSeq(k.delayed, 1, n)
<1>5. wrote = [k EXCEPT !.writes = w, !.sent = s]
  BY DEF Fields
<1>6. /\ SubSeq(k.delayed, 1, n) \in Seq(1 .. MaxNotes[c]) /\ Len(SubSeq(k.delayed, 1, n)) = n
      /\ \A i \in 1 .. n : SubSeq(k.delayed, 1, n)[i] = k.delayed[i]
  BY <1>2, <1>3, PrefixFacts
<1>7. /\ s \in Seq(1 .. MaxNotes[c]) /\ Len(s) = Len(k.sent) + n
      /\ \A i \in 1 .. Len(k.sent) : s[i] = k.sent[i]
      /\ \A i \in 1 .. n : s[Len(k.sent) + i] = k.delayed[i]
  <2> DEFINE u == SubSeq(k.delayed, 1, n)
             x == k.sent
             S == 1 .. MaxNotes[c]
  <2>1. x \in Seq(S) /\ u \in Seq(S) /\ Len(u) = n /\ \A i \in 1 .. n : u[i] = k.delayed[i]
    BY <1>2, <1>6
  <2>2. s = x \o u
    BY DEF s
  <2> HIDE DEF s, u, x, S
  <2>3. /\ s \in Seq(S) /\ Len(s) = Len(x) + Len(u)
        /\ \A i \in 1 .. Len(x) : s[i] = x[i]
        /\ \A i \in 1 .. Len(u) : s[Len(x) + i] = u[i]
    <3>1. x \in Seq(S) /\ u \in Seq(S)
      BY <2>1
    <3>2. /\ x \o u \in Seq(S)
          /\ \A i \in 1 .. Len(x) : (x \o u)[i] = x[i]
          /\ \A i \in 1 .. Len(u) : (x \o u)[Len(x) + i] = u[i]
      BY <3>1, ConcatFacts
    <3>3. Len(x \o u) = Len(x) + Len(u)
      BY <3>1, ConcatLength
    <3>4. QED
      BY <2>2, <3>2, <3>3
  <2>4. QED
    BY <2>1, <2>3 DEF x, S
<1>8. w \in 0 .. MaxMem + 1
  BY <1>3
<1> HIDE DEF w, s, wrote
<1>9. wrote \in Fields(c)
  BY <1>5, <1>7, <1>8 DEF Fields
<1>10. /\ wrote.frames = k.frames /\ wrote.refs = k.refs /\ wrote.delayed = k.delayed
       /\ wrote.notes = k.notes /\ wrote.sent = s /\ SameInput(k, wrote) /\ SameLinks(k, wrote)
  BY <1>5 DEF Fields, SameInput, SameLinks
<1>11. Slack(t, wrote) = Slack(t, k) + (wrote.refs - k.refs)
  BY <1>9, <1>10, SlackOfSame DEF SameInput
<1>12. Slack(t, wrote) = Slack(t, k) + 0 /\ Slack(t, wrote) >= 0
  BY <1>9, <1>10, <1>11, SlackFacts
<1>13. Effect(c, t, k, wrote, 0)
  BY <1>9, <1>10, <1>12 DEF Effect, SameIds, SameLinks
<1>14. Linked(t, wrote) /\ Answered(wrote) /\ Told(wrote)
  BY <1>4, <1>10 DEF Linked, Answered, Told, AllReturned, SameLinks
\* However many were written, they were next.
<1>15. ASSUME ~k.closed
       PROVE  \A i \in 1 .. Len(s) : s[i] = i
  <2> TAKE i \in 1 .. Len(s)
  <2>1. /\ \A m \in 1 .. Len(k.sent) : k.sent[m] = m
        /\ \A m \in 1 .. Len(k.delayed) : k.delayed[m] = Len(k.sent) + m
    BY <1>4, <1>15 DEF InTurn
  <2>2. CASE i \in 1 .. Len(k.sent)
    BY <1>7, <2>1, <2>2
  <2>3. CASE i > Len(k.sent)
    <3>1. i - Len(k.sent) \in 1 .. n /\ i - Len(k.sent) \in 1 .. Len(k.delayed)
      BY <1>2, <1>3, <1>7, <2>3
    <3>2. i = Len(k.sent) + (i - Len(k.sent))
      BY <1>2
    <3>3. QED
      BY <1>7, <2>1, <3>1, <3>2
  <2>4. QED
    BY <1>2, <1>7, <2>2, <2>3
<1>16. /\ Effect(c, t, k, done, 0) /\ Linked(t, done) /\ Answered(done) /\ Told(done)
       /\ done.notes = k.notes
       /\ \A i \in 1 .. Len(done.sent) : done.sent[i] = i
       /\ ~done.closed => done.notes = Len(done.sent)
  <2>1. CASE k.closed
    <3>1. done = k
      BY <2>1
    <3> HIDE DEF done
    <3>2. Effect(c, t, k, k, 0)
      BY SlackFacts DEF Effect, SameIds, SameInput
    <3>3. QED
      BY <1>4, <2>1, <3>1, <3>2 DEF InTurn
  <2>2. CASE ~k.closed /\ n < Len(k.delayed)
    <3>1. done = Errored(t, wrote)
      BY <2>2
    <3> HIDE DEF done
    <3>2. /\ Effect(c, t, wrote, done, 0) /\ done.closed /\ AllReturned(done) /\ Answered(done)
          /\ SameNotes(wrote, done) /\ Linked(t, done)
      BY <1>9, <1>12, <1>14, <3>1, ErroredFacts
    <3>3. Effect(c, t, k, done, 0 + 0)
      BY <1>13, <3>2, EffectTwice
    <3>4. QED
      BY <1>10, <1>15, <2>2, <3>2, <3>3 DEF Told, SameNotes
  <2>3. CASE ~k.closed /\ ~(n < Len(k.delayed))
    <3>1. done = wrote
      BY <2>3
    <3> HIDE DEF done
    <3>2. k.notes = Len(k.sent) + Len(k.delayed)
      BY <1>4, <2>3 DEF InTurn
    <3>2a. n = Len(k.delayed)
      BY <1>2, <1>3, <2>3
    <3>3. wrote.notes = Len(s)
      BY <1>7, <1>10, <3>2, <3>2a
    <3>4. QED
      BY <1>10, <1>13, <1>14, <1>15, <2>3, <3>1, <3>3
  <2>4. QED
    BY <2>1, <2>2, <2>3
<1> HIDE DEF done
<1>17. done \in Fields(c) /\ Len(done.sent) \in Nat
  BY <1>16 DEF Effect, Fields
<1>18. /\ Effect(c, t, done, j, 0) /\ j.frames = done.frames /\ SameLinks(done, j)
       /\ j.delayed = <<>> /\ j.notes = done.notes /\ j.sent = done.sent
  BY <1>1, <1>17, UndelayedFacts
<1>19. Effect(c, t, k, j, 0 + 0)
  BY <1>16, <1>18, EffectTwice
<1>20. Linked(t, j) /\ Answered(j) /\ Told(j) /\ HeldBack(j)
  BY <1>16, <1>18 DEF Linked, Answered, Told, AllReturned, SameLinks, HeldBack
<1>21. InTurn(j)
  <2>1. Len(j.delayed) = 0
    BY <1>18
  <2>2. ~j.closed => j.notes = Len(j.sent) + Len(j.delayed)
    BY <1>16, <1>17, <1>18, <2>1 DEF SameLinks
  <2>3. QED
    BY <1>16, <1>18, <2>1, <2>2 DEF InTurn
<1>22. QED
  BY <1>19, <1>20, <1>21 DEF Sound, Consistent

\* The innermost call has its answer.
LEMMA CompletedFacts ==
  ASSUME NEW c \in Channels, NEW t \in ChannelTypes, NEW k \in Fields(c), Sound(t, k),
         NEW m \in Message, IsValidRpcResponse(m, k), NEW j, j = Completed(m, k)
  PROVE  Effect(c, t, k, j, 0) /\ Sound(t, j) /\ j.sent = k.sent
<1> DEFINE f == k.frames
           l == Len(f)
           x == [f[l] EXCEPT !.returned = TRUE, !.result = m.id, !.errored = m.kind = "error"]
           fs == Append(Front(f), x)
<1>1. f \in Seq(Frame) /\ f # <<>> /\ m.id \in Nat /\ m.id = Last(f).id
  BY DEF Fields, Message, IsValidRpcResponse
<1>2. /\ l \in Nat \ {0} /\ Last(f) = f[l] /\ f[l] \in Frame
      /\ Front(f) \in Seq(Frame) /\ Len(Front(f)) = l - 1
      /\ \A i \in 1 .. l - 1 : Front(f)[i] = f[i]
  BY <1>1, PopFacts
<1>3. x \in Frame /\ x.id = f[l].id /\ x.returned /\ x.result = x.id
  BY <1>1, <1>2 DEF Frame
<1>4. j = [k EXCEPT !.frames = fs]
  BY <1>2 DEF Completed
<1> HIDE DEF x
<1>5. /\ fs \in Seq(Frame) /\ Len(fs) = l /\ fs[l] = x
      /\ \A i \in 1 .. l - 1 : fs[i] = f[i]
  <2>1. /\ fs \in Seq(Frame) /\ Len(fs) = (l - 1) + 1 /\ fs[(l - 1) + 1] = x
        /\ \A i \in 1 .. l - 1 : fs[i] = Front(f)[i]
    BY <1>2, <1>3, PushFacts
  <2>2. (l - 1) + 1 = l
    BY <1>2
  <2>3. QED
    BY <1>2, <2>1, <2>2
<1> HIDE DEF fs
<1>6. j \in Fields(c)
  BY <1>4, <1>5 DEF Fields
<1>7. /\ j.frames = fs /\ j.refs = k.refs
      /\ SameInput(k, j) /\ SameNotes(k, j) /\ SameLinks(k, j)
  BY <1>4 DEF Fields, SameInput, SameNotes, SameLinks
<1>8. Slack(t, j) = Slack(t, k) + (j.refs - k.refs)
  BY <1>6, <1>7, SlackOfSame DEF SameInput
<1>9. Slack(t, j) = Slack(t, k) + 0
  BY <1>6, <1>7, <1>8, SlackFacts
<1>10. \A i \in 1 .. l : i = l \/ i \in 1 .. l - 1
  BY <1>2
<1>11. SameIds(k, j)
  BY <1>3, <1>5, <1>7, <1>10 DEF SameIds
<1>12. Answered(j)
  BY <1>3, <1>5, <1>7, <1>10 DEF Answered, Sound, Consistent
<1>13. Told(j)
  BY <1>3, <1>5, <1>7, <1>10 DEF Told, AllReturned, Sound, SameLinks
<1>14. HeldBack(j)
  BY <1>2, <1>5, <1>7 DEF HeldBack
<1>15. Linked(t, j) /\ InTurn(j)
  BY <1>7 DEF Linked, InTurn, Sound, Consistent, SameLinks, SameNotes
<1>16. QED
  BY <1>6, <1>7, <1>9, <1>11, <1>12, <1>13, <1>14, <1>15 DEF Effect, Sound, Consistent, SameNotes, SameLinks

\* The event of a request holds the channel.
LEMMA RequestedFacts ==
  ASSUME NEW c \in Channels, NEW t \in ChannelTypes, NEW k \in Fields(c), Sound(t, k),
         NEW m \in Message, NEW j, j = Requested(t, k, m)
  PROVE  /\ j \in Fields(c) /\ SameIds(k, j) /\ Slack(t, j) = Slack(t, k)
         /\ Sound(t, j) /\ j.sent = k.sent
<1> DEFINE i == Incref(k)
           q == Append(i.queue, m)
<1>1. Effect(c, t, k, i, 1) /\ i.frames = k.frames /\ SameNotes(k, i) /\ SameLinks(k, i)
  BY IncrefFacts
<1>2. j = [i EXCEPT !.queue = q]
  BY DEF Requested
<1> HIDE DEF i
<1>3. i \in Fields(c)
  BY <1>1 DEF Effect
<1>4. q \in Seq(Message) /\ Len(q) = Len(i.queue) + 1
  BY <1>3 DEF Fields
<1> HIDE DEF q
<1>5. j \in Fields(c)
  BY <1>2, <1>3, <1>4 DEF Fields
<1>6. /\ j.frames = i.frames /\ j.refs = i.refs /\ j.queue = q
      /\ SameNotes(i, j) /\ SameLinks(i, j)
  BY <1>2, <1>3 DEF Fields, SameNotes, SameLinks
<1>7. Slack(t, j) = (Slack(t, i) + (j.refs - i.refs)) - 1
  BY <1>3, <1>4, <1>5, <1>6, SlackOfSame
<1>8. Slack(t, j) = Slack(t, k)
  BY <1>1, <1>3, <1>5, <1>6, <1>7, SlackFacts DEF Effect
<1>9. Sound(t, i)
  BY <1>1, SoundSame DEF Sound, Consistent
<1>10. Sound(t, j)
  BY <1>6, <1>9, SoundSame DEF Sound, Consistent
<1>11. QED
  BY <1>1, <1>5, <1>6, <1>8, <1>10 DEF SameIds, SameNotes

-----------------------------------------------------------------------------
(***************************************************************************)
(* The C stack                                                             *)
(***************************************************************************)
LEMMA HeldFacts ==
  ASSUME NEW s \in Seq(StackFrame), NEW c
  PROVE  /\ HeldBy(s, c) \subseteq 1 .. Len(s) /\ CallsOf(s, c) \subseteq 1 .. Len(s)
         /\ IsFiniteSet(HeldBy(s, c)) /\ Cardinality(HeldBy(s, c)) \in Nat
         /\ IsFiniteSet(CallsOf(s, c)) /\ Cardinality(CallsOf(s, c)) \in Nat
<1>1. Len(s) \in Nat /\ DOMAIN s = 1 .. Len(s) /\ IsFiniteSet(1 .. Len(s))
  BY FS_Interval
<1>2. HeldBy(s, c) \in SUBSET (1 .. Len(s)) /\ CallsOf(s, c) \in SUBSET (1 .. Len(s))
  BY <1>1 DEF HeldBy, CallsOf
<1>3. IsFiniteSet(HeldBy(s, c)) /\ IsFiniteSet(CallsOf(s, c))
  BY <1>1, <1>2, FS_Subset
<1>4. QED
  BY <1>2, <1>3, FS_CardinalityType

\* Where among the calls of a channel a call on the stack is.
LEMMA DepthRange ==
  ASSUME NEW s \in Seq(StackFrame), NEW c, NEW i \in CallsOf(s, c)
  PROVE  Depth(s, c, i) \in 1 .. Cardinality(CallsOf(s, c))
<1> DEFINE D == {j \in CallsOf(s, c) : j <= i}
<1>1. IsFiniteSet(CallsOf(s, c)) /\ Cardinality(CallsOf(s, c)) \in Nat /\ i \in 1 .. Len(s)
  BY HeldFacts
<1>2. D \in SUBSET CallsOf(s, c) /\ i \in D
  BY <1>1
<1> HIDE DEF D
<1>3. IsFiniteSet(D) /\ Cardinality(D) <= Cardinality(CallsOf(s, c))
  BY <1>1, <1>2, FS_Subset
<1>4. Cardinality(D) \in Nat /\ Cardinality(D) # 0
  BY <1>2, <1>3, FS_CardinalityType, FS_EmptySet
<1>5. QED
  BY <1>1, <1>3, <1>4 DEF Depth, D

\* A stack that differs only in which calls are busy.
LEMMA SameHeld ==
  ASSUME NEW s, NEW u, NEW c, DOMAIN u = DOMAIN s,
         \A i \in DOMAIN s : u[i].chan = s[i].chan /\ u[i].kind = s[i].kind
  PROVE  /\ HeldBy(u, c) = HeldBy(s, c) /\ CallsOf(u, c) = CallsOf(s, c)
         /\ \A i : Depth(u, c, i) = Depth(s, c, i)
<1>1. HeldBy(u, c) = HeldBy(s, c)
  BY DEF HeldBy
<1>2. CallsOf(u, c) = CallsOf(s, c)
  <2>1. \A i \in HeldBy(s, c) : u[i].kind = s[i].kind
    BY DEF HeldBy
  <2>2. QED
    BY <1>1, <2>1 DEF CallsOf
<1>3. QED
  BY <1>1, <1>2 DEF Depth

LEMMA SetBusyFacts ==
  ASSUME stack \in Seq(StackFrame), NEW busy \in BOOLEAN
  PROVE  /\ SetBusy(busy) \in Seq(StackFrame) /\ Len(SetBusy(busy)) = Len(stack)
         /\ \A i \in 1 .. Len(stack) : /\ SetBusy(busy)[i].chan = stack[i].chan
                                       /\ SetBusy(busy)[i].kind = stack[i].kind
                                       /\ SetBusy(busy)[i].id = stack[i].id
<1>1. CASE stack = <<>>
  BY <1>1 DEF SetBusy
<1>2. CASE stack # <<>>
  <2> DEFINE n == Len(stack)
             f == [stack[n] EXCEPT !.busy = busy]
             u == Append(Front(stack), f)
  <2>1. /\ n \in Nat \ {0} /\ Last(stack) = stack[n] /\ stack[n] \in StackFrame
        /\ Front(stack) \in Seq(StackFrame) /\ Len(Front(stack)) = n - 1
        /\ \A i \in 1 .. n - 1 : Front(stack)[i] = stack[i]
    BY <1>2, PopFacts
  <2>2. SetBusy(busy) = u
    BY <1>2, <2>1 DEF SetBusy, Top
  <2>3. /\ f \in StackFrame /\ f.chan = stack[n].chan /\ f.kind = stack[n].kind
        /\ f.id = stack[n].id
    BY <2>1 DEF StackFrame
  <2> HIDE DEF f
  <2>4. /\ u \in Seq(StackFrame) /\ Len(u) = (n - 1) + 1 /\ u[(n - 1) + 1] = f
        /\ \A i \in 1 .. n - 1 : u[i] = Front(stack)[i]
    BY <2>1, <2>3, PushFacts
  <2> HIDE DEF u
  <2>5. (n - 1) + 1 = n /\ \A i \in 1 .. n : i = n \/ i \in 1 .. n - 1
    BY <2>1
  <2>6. QED
    BY <2>1, <2>2, <2>3, <2>4, <2>5
<1>3. QED
  BY <1>1, <1>2

LEMMA GrownHeld ==
  ASSUME NEW s \in Seq(StackFrame), NEW u \in Seq(StackFrame), NEW f, Grown(s, f, u), NEW c
  PROVE  /\ f.chan # c => HeldBy(u, c) = HeldBy(s, c) /\ CallsOf(u, c) = CallsOf(s, c)
         /\ f.chan = c => HeldBy(u, c) = HeldBy(s, c) \union {Len(u)} /\ Len(u) \notin HeldBy(s, c)
         /\ f.chan = c /\ f.kind # "call" => CallsOf(u, c) = CallsOf(s, c)
         /\ f.chan = c /\ f.kind = "call" =>
              CallsOf(u, c) = CallsOf(s, c) \union {Len(u)} /\ Len(u) \notin CallsOf(s, c)
<1> DEFINE n == Len(u)
<1>1. /\ Len(s) \in Nat /\ DOMAIN s = 1 .. Len(s) /\ DOMAIN u = 1 .. Len(u) /\ n = Len(s) + 1
      /\ u[n] = f /\ \A i \in 1 .. Len(s) : u[i] = s[i]
  BY DEF Grown
<1>2. /\ DOMAIN u = (DOMAIN s) \union {n} /\ n \notin DOMAIN s
      /\ u[n] = f /\ \A i \in DOMAIN s : u[i] = s[i]
  BY <1>1
<1> HIDE DEF n
<1>3. /\ f.chan # c => HeldBy(u, c) = HeldBy(s, c)
      /\ f.chan = c => HeldBy(u, c) = HeldBy(s, c) \union {n} /\ n \notin HeldBy(s, c)
  BY <1>2 DEF HeldBy
<1>4. \A i \in HeldBy(s, c) : u[i] = s[i] /\ i # n
  BY <1>2 DEF HeldBy
<1>5. /\ f.chan # c => CallsOf(u, c) = CallsOf(s, c)
      /\ f.chan = c /\ f.kind # "call" => CallsOf(u, c) = CallsOf(s, c)
      /\ f.chan = c /\ f.kind = "call" =>
           CallsOf(u, c) = CallsOf(s, c) \union {n} /\ n \notin CallsOf(s, c)
  BY <1>2, <1>3, <1>4 DEF CallsOf
<1>6. QED
  BY <1>3, <1>5 DEF n

LEMMA GrownCount ==
  ASSUME NEW s \in Seq(StackFrame), NEW u \in Seq(StackFrame), NEW f, Grown(s, f, u), NEW c
  PROVE  /\ f.chan # c => Cardinality(HeldBy(u, c)) = Cardinality(HeldBy(s, c))
         /\ f.chan = c => Cardinality(HeldBy(u, c)) = Cardinality(HeldBy(s, c)) + 1
<1>1. CASE f.chan # c
  BY <1>1, GrownHeld
<1>2. CASE f.chan = c
  <2>1. HeldBy(u, c) = HeldBy(s, c) \union {Len(u)} /\ Len(u) \notin HeldBy(s, c)
    BY <1>2, GrownHeld
  <2>2. IsFiniteSet(HeldBy(s, c))
    BY HeldFacts
  <2>3. QED
    BY <1>2, <2>1, <2>2, FS_AddElement
<1>3. QED
  BY <1>1, <1>2

\* The frames of the calls of a channel with fields k are those of its calls on
\* the stack s.
Matches(s, c, k) ==
  /\ Len(k.frames) = Cardinality(CallsOf(s, c))
  /\ \A i \in CallsOf(s, c) : s[i].id = k.frames[Depth(s, c, i)].id

LEMMA MatchesSame ==
  ASSUME NEW s \in Seq(StackFrame), NEW c, NEW k, NEW j, Matches(s, c, k), SameIds(k, j)
  PROVE  Matches(s, c, j)
<1>1. \A i \in CallsOf(s, c) : Depth(s, c, i) \in 1 .. Len(k.frames)
  BY DepthRange DEF Matches
<1>2. QED
  BY <1>1 DEF Matches, SameIds

\* SetBusy is of no matter.
LEMMA MatchesBusy ==
  ASSUME stack \in Seq(StackFrame), NEW busy \in BOOLEAN, NEW c, NEW k
  PROVE  /\ HeldBy(SetBusy(busy), c) = HeldBy(stack, c)
         /\ Matches(SetBusy(busy), c, k) <=> Matches(stack, c, k)
<1> DEFINE u == SetBusy(busy)
<1>1. /\ u \in Seq(StackFrame) /\ Len(u) = Len(stack)
      /\ \A i \in 1 .. Len(stack) :
           u[i].chan = stack[i].chan /\ u[i].kind = stack[i].kind /\ u[i].id = stack[i].id
  BY SetBusyFacts
<1> HIDE DEF u
<1>2. DOMAIN u = 1 .. Len(stack) /\ DOMAIN stack = 1 .. Len(stack)
  BY <1>1
<1>3. /\ HeldBy(u, c) = HeldBy(stack, c) /\ CallsOf(u, c) = CallsOf(stack, c)
      /\ \A i : Depth(u, c, i) = Depth(stack, c, i)
  BY <1>1, <1>2, SameHeld
<1>4. \A i \in CallsOf(stack, c) : u[i].id = stack[i].id
  BY <1>1, HeldFacts
<1>5. QED
  BY <1>3, <1>4 DEF Matches, u

\* A frame of another channel, or of a handler, hides no call.
LEMMA MatchesOther ==
  ASSUME NEW s \in Seq(StackFrame), NEW u \in Seq(StackFrame), NEW f, Grown(s, f, u),
         NEW c, f.chan # c \/ f.kind # "call", NEW k
  PROVE  Matches(u, c, k) <=> Matches(s, c, k)
<1>1. CallsOf(u, c) = CallsOf(s, c)
  BY GrownHeld
<1>2. \A i : Depth(u, c, i) = Depth(s, c, i)
  BY <1>1 DEF Depth
<1>3. \A i \in CallsOf(s, c) : u[i] = s[i]
  BY HeldFacts DEF Grown
<1>4. QED
  BY <1>1, <1>2, <1>3 DEF Matches

\* How deep the calls are when one more is on the stack.
LEMMA GrownDepth ==
  ASSUME NEW s \in Seq(StackFrame), NEW u \in Seq(StackFrame), NEW f, Grown(s, f, u),
         NEW c, f.chan = c, f.kind = "call"
  PROVE  /\ CallsOf(u, c) = CallsOf(s, c) \union {Len(u)} /\ u[Len(u)] = f
         /\ Cardinality(CallsOf(u, c)) = Cardinality(CallsOf(s, c)) + 1
         /\ Depth(u, c, Len(u)) = Cardinality(CallsOf(s, c)) + 1
         /\ \A i \in CallsOf(s, c) : Depth(u, c, i) = Depth(s, c, i) /\ u[i] = s[i]
<1> DEFINE n == Len(u)
<1>1. Len(s) \in Nat /\ n = Len(s) + 1 /\ u[n] = f /\ \A i \in 1 .. Len(s) : u[i] = s[i]
  BY DEF Grown
<1>2. CallsOf(u, c) = CallsOf(s, c) \union {n} /\ n \notin CallsOf(s, c)
  BY GrownHeld
<1>3. /\ IsFiniteSet(CallsOf(s, c)) /\ CallsOf(s, c) \subseteq 1 .. Len(s)
      /\ Cardinality(CallsOf(s, c)) \in Nat
  BY HeldFacts
<1>4. Cardinality(CallsOf(u, c)) = Cardinality(CallsOf(s, c)) + 1
  BY <1>2, <1>3, FS_AddElement
<1>5. \A i \in CallsOf(s, c) : i \in 1 .. Len(s) /\ ~(n <= i) /\ i <= n
  BY <1>1, <1>3
<1>6. \A i \in CallsOf(s, c) : {j \in CallsOf(u, c) : j <= i} = {j \in CallsOf(s, c) : j <= i}
  BY <1>2, <1>5
<1>7. {j \in CallsOf(u, c) : j <= n} = CallsOf(u, c)
  <2>1. n <= n
    BY <1>1
  <2>2. \A j \in CallsOf(u, c) : j <= n
    BY <1>2, <1>5, <2>1
  <2>3. QED
    BY <2>2
<1>8. \A i \in CallsOf(s, c) : Depth(u, c, i) = Depth(s, c, i)
  BY <1>6 DEF Depth
<1>9. Depth(u, c, n) = Cardinality(CallsOf(s, c)) + 1
  BY <1>4, <1>7 DEF Depth
<1>10. QED
  BY <1>1, <1>2, <1>4, <1>5, <1>8, <1>9

\* A call begins, or, the other way round, returns.
LEMMA MatchesCall ==
  ASSUME NEW s \in Seq(StackFrame), NEW u \in Seq(StackFrame), NEW f, Grown(s, f, u),
         NEW c, f.chan = c, f.kind = "call",
         NEW k, k.frames \in Seq(Frame), NEW j, j.frames \in Seq(Frame), NEW g,
         Grown(k.frames, g, j.frames)
  PROVE  /\ Matches(s, c, k) /\ g.id = f.id => Matches(u, c, j)
         /\ Matches(u, c, j) => Matches(s, c, k)
<1> DEFINE l == Len(k.frames)
           m == Cardinality(CallsOf(s, c))
<1>1. /\ CallsOf(u, c) = CallsOf(s, c) \union {Len(u)} /\ u[Len(u)] = f
      /\ Cardinality(CallsOf(u, c)) = m + 1
      /\ Depth(u, c, Len(u)) = m + 1
      /\ \A i \in CallsOf(s, c) : Depth(u, c, i) = Depth(s, c, i) /\ u[i] = s[i]
  BY GrownDepth
<1>2. /\ l \in Nat /\ m \in Nat /\ Len(j.frames) = l + 1 /\ j.frames[l + 1] = g
      /\ \A i \in 1 .. l : j.frames[i] = k.frames[i]
  BY HeldFacts DEF Grown
<1>3. \A i \in CallsOf(s, c) : Depth(s, c, i) \in 1 .. m
  BY DepthRange
<1>4. ASSUME Matches(s, c, k), g.id = f.id
      PROVE  Matches(u, c, j)
  <2>1. l = m /\ \A i \in CallsOf(s, c) : s[i].id = k.frames[Depth(s, c, i)].id
    BY <1>4 DEF Matches
  <2> HIDE DEF l, m
  <2>2. \A i \in CallsOf(s, c) : u[i].id = j.frames[Depth(u, c, i)].id
    BY <1>1, <1>2, <1>3, <2>1, SMTT(60)
  <2>3. u[Len(u)].id = j.frames[Depth(u, c, Len(u))].id
    BY <1>1, <1>2, <1>4, <2>1
  <2>4. QED
    BY <1>1, <1>2, <2>1, <2>2, <2>3 DEF Matches
<1>5. ASSUME Matches(u, c, j)
      PROVE  Matches(s, c, k)
  <2>1. l + 1 = m + 1 /\ \A i \in CallsOf(u, c) : u[i].id = j.frames[Depth(u, c, i)].id
    BY <1>1, <1>2, <1>5 DEF Matches
  <2>2. l = m
    BY <1>2, <2>1
  <2> HIDE DEF l, m
  <2>3. \A i \in CallsOf(s, c) : s[i].id = k.frames[Depth(s, c, i)].id
    BY <1>1, <1>2, <1>3, <2>1, <2>2, SMTT(60)
  <2>4. QED
    BY <2>2, <2>3 DEF Matches, l, m
<1>6. QED
  BY <1>4, <1>5

\* A waiting call has a frame.
LEMMA CallHasFrame ==
  ASSUME NEW s \in Seq(StackFrame), NEW u \in Seq(StackFrame), NEW f, Grown(s, f, u),
         NEW c, f.chan = c, f.kind = "call", NEW k, k.frames \in Seq(Frame), Matches(u, c, k)
  PROVE  k.frames # <<>>
<1>1. Cardinality(CallsOf(u, c)) = Cardinality(CallsOf(s, c)) + 1
  BY GrownDepth
<1>2. Cardinality(CallsOf(s, c)) \in Nat
  BY HeldFacts
<1>3. Len(k.frames) = Cardinality(CallsOf(u, c))
  BY DEF Matches
<1>4. Len(k.frames) # 0
  BY <1>1, <1>2, <1>3
<1>5. QED
  BY <1>4

\* The innermost frame, and the stack without it.
LEMMA TopFacts ==
  ASSUME stack \in Seq(StackFrame), Top.chan \in Channels
  PROVE  /\ Top \in StackFrame /\ Front(stack) \in Seq(StackFrame)
         /\ Grown(Front(stack), Top, stack)
<1>1. stack # <<>>
  BY ChannelAssumption DEF Top
<1>2. Top = Last(stack)
  BY <1>1 DEF Top
<1>3. QED
  BY <1>1, <1>2, FrontGrows

-----------------------------------------------------------------------------
(***************************************************************************)
(* The inductive invariant                                                 *)
(***************************************************************************)

\* A channel c with fields k, the C stack s, parser p and end o.
ChannelInv(c, t, k, s, p, o) ==
  /\ k \in Fields(c) /\ Sound(t, k) /\ Matches(s, c, k)
  /\ o # "exit" => Slack(t, k) = Cardinality(HeldBy(s, c)) + Count(p = c)

IndInv ==
  /\ type \in Types /\ polling \in BOOLEAN
  /\ parser \in Channels \union {NoChannel} /\ over \in {"no", "exit", "write", "subscribe"}
  /\ over = "exit" => parser = NoChannel
  /\ stack \in Seq(StackFrame)
  /\ ch = [c \in Channels |-> ch[c]]
  /\ \A c \in Channels : ChannelInv(c, type[c], ch[c], stack, parser, over)

\* The second part of NotesInOrder.
SentKept ==
  \A c \in Channels : ch[c].frames # <<>> /\ ch'[c].frames # <<>> => ch'[c].sent = ch[c].sent

\* What a step makes of the fields of a channel, unless a call begins or returns.
Becomes(c, t, k, j, d) ==
  /\ j \in Fields(c) /\ SameIds(k, j) /\ Slack(t, j) = Slack(t, k) + d /\ Sound(t, j)
  /\ k.frames # <<>> => j.sent = k.sent

LEMMA BecomesTwice ==
  ASSUME NEW c \in Channels, NEW t \in ChannelTypes, NEW k \in Fields(c), NEW j, NEW l,
         NEW d \in Int, NEW e \in Int, Becomes(c, t, k, j, d), Becomes(c, t, j, l, e)
  PROVE  Becomes(c, t, k, l, d + e)
<1>1. j \in Fields(c) /\ l \in Fields(c)
  BY DEF Becomes
<1>2. Slack(t, l) = Slack(t, k) + (d + e)
  BY <1>1, SlackFacts DEF Becomes
<1>3. SameIds(k, l)
  BY DEF Becomes, SameIds
<1>4. k.frames # <<>> => l.sent = k.sent
  <2>1. k.frames \in Seq(Frame) /\ j.frames \in Seq(Frame) /\ Len(j.frames) = Len(k.frames)
    BY <1>1 DEF Becomes, SameIds, Fields
  <2>2. k.frames # <<>> => j.frames # <<>>
    BY <2>1
  <2>3. QED
    BY <2>2 DEF Becomes
<1>5. QED
  BY <1>1, <1>2, <1>3, <1>4 DEF Becomes

\* What changes none of the calls, links and notes.
LEMMA BecomesSame ==
  ASSUME NEW c \in Channels, NEW t \in ChannelTypes, NEW k \in Fields(c), Sound(t, k),
         NEW j \in Fields(c), j.frames = k.frames, SameNotes(k, j), SameLinks(k, j)
  PROVE  /\ j.queue = k.queue => Becomes(c, t, k, j, j.refs - k.refs)
         /\ k.queue # <<>> /\ j.queue = Tail(k.queue) /\ j.refs = k.refs => Becomes(c, t, k, j, 1)
<1>1. Sound(t, j) /\ SameIds(k, j) /\ j.sent = k.sent
  BY SoundSame DEF Sound, Consistent, SameIds, SameNotes
<1>2. ASSUME j.queue = k.queue
      PROVE  Becomes(c, t, k, j, j.refs - k.refs)
  BY <1>1, <1>2, SlackOfSame DEF Becomes
<1>3. ASSUME k.queue # <<>>, j.queue = Tail(k.queue), j.refs = k.refs
      PROVE  Becomes(c, t, k, j, 1)
  <2>1. k.queue \in Seq(Message)
    BY DEF Fields
  <2>2. Len(j.queue) = Len(k.queue) - 1
    BY <1>3, <2>1, HeadTailFacts
  <2>3. Slack(t, j) = (Slack(t, k) + (j.refs - k.refs)) + 1
    BY <2>2, SlackOfSame
  <2>4. Slack(t, j) = Slack(t, k) + 1
    BY <1>3, <2>3, SlackFacts
  <2>5. QED
    BY <1>1, <2>4 DEF Becomes
<1>4. QED
  BY <1>2, <1>3

LEMMA EffectBecomes ==
  ASSUME NEW c, NEW t, NEW k, NEW j, NEW d, Effect(c, t, k, j, d), Sound(t, j),
         k.frames # <<>> => j.sent = k.sent
  PROVE  Becomes(c, t, k, j, d)
BY DEF Effect, Becomes

LEMMA IncrefBecomes ==
  ASSUME NEW c \in Channels, NEW t \in ChannelTypes, NEW k \in Fields(c), Sound(t, k),
         NEW j, j = Incref(k)
  PROVE  Becomes(c, t, k, j, 1)
<1>1. /\ Effect(c, t, k, j, 1) /\ j.frames = k.frames
      /\ SameNotes(k, j) /\ SameLinks(k, j)
  BY IncrefFacts
<1>2. Sound(t, j) /\ j.sent = k.sent
  BY <1>1, SoundSame DEF Sound, Consistent, SameNotes
<1>3. QED
  BY <1>1, <1>2, EffectBecomes

LEMMA DecrefBecomes ==
  ASSUME NEW c \in Channels, NEW t \in ChannelTypes, NEW k \in Fields(c), Sound(t, k),
         Slack(t, k) >= 1, NEW j, j = Decref(k)
  PROVE  Becomes(c, t, k, j, -1)
<1>1. k.refs > 0
  BY SlackFacts
<1>2. /\ Effect(c, t, k, j, -1) /\ j.frames = k.frames
      /\ SameNotes(k, j) /\ SameLinks(k, j)
  BY <1>1, DecrefFacts
<1>3. Sound(t, j) /\ j.sent = k.sent
  BY <1>2, SoundSame DEF Sound, Consistent, SameNotes
<1>4. QED
  BY <1>2, <1>3, EffectBecomes

LEMMA RespondedBecomes ==
  ASSUME NEW c \in Channels, NEW t \in ChannelTypes, NEW k \in Fields(c), Sound(t, k),
         Slack(t, k) >= 1, NEW id, NEW j, j = Responded(t, k, id)
  PROVE  Becomes(c, t, k, j, -1)
<1>1. Effect(c, t, k, j, -1) /\ Sound(t, j) /\ j.sent = k.sent
  BY RespondedFacts
<1>2. QED
  BY <1>1, EffectBecomes

LEMMA ErroredBecomes ==
  ASSUME NEW c \in Channels, NEW t \in ChannelTypes, NEW k \in Fields(c), Sound(t, k),
         Slack(t, k) >= 0, NEW j, j = Errored(t, k)
  PROVE  Becomes(c, t, k, j, 0)
<1>1. Linked(t, k) /\ InTurn(k) /\ HeldBack(k)
  BY DEF Sound, Consistent
<1>2. /\ Effect(c, t, k, j, 0) /\ j.closed /\ AllReturned(j) /\ Answered(j)
      /\ SameNotes(k, j) /\ Linked(t, j)
  BY <1>1, ErroredFacts
<1>3. SameIds(k, j)
  BY <1>2 DEF Effect
<1>4. Sound(t, j)
  BY <1>1, <1>2, <1>3, ErroredSound
<1>5. QED
  BY <1>2, <1>4, EffectBecomes DEF SameNotes

\* A channel is closed that was open.
LEMMA ClosedBecomes ==
  ASSUME NEW c \in Channels, NEW t \in ChannelTypes, NEW k \in Fields(c), Sound(t, k),
         Slack(t, k) >= 0, ~k.closed, NEW j, j = Closed(t, k)
  PROVE  Becomes(c, t, k, j, 0)
<1>1. /\ Effect(c, t, k, j, 0) /\ j.frames = k.frames /\ j.closed
      /\ SameNotes(k, j) /\ Linked(t, j)
  BY ClosedFacts DEF Sound, Consistent
<1>2. Answered(j) /\ InTurn(j) /\ HeldBack(j)
  BY <1>1 DEF Sound, Consistent, Answered, InTurn, HeldBack, SameNotes
<1>3. Told(j)
  BY <1>1 DEF Sound, Told, Effect
<1>4. QED
  BY <1>1, <1>2, <1>3, EffectBecomes DEF Sound, Consistent, SameNotes

\* A message is taken out of the unpacker.
LEMMA UnpackedBecomes ==
  ASSUME NEW c \in Channels, NEW t \in ChannelTypes, NEW k \in Fields(c), Sound(t, k),
         k.unpacker # <<>>, NEW j, j = [k EXCEPT !.unpacker = Tail(@)]
  PROVE  Becomes(c, t, k, j, 0) /\ Head(k.unpacker) \in Message
<1> DEFINE u == Tail(k.unpacker)
<1>1. k.unpacker \in Seq(Message) /\ j = [k EXCEPT !.unpacker = u]
  BY DEF Fields
<1>2. u \in Seq(Message) /\ Head(k.unpacker) \in Message
  BY <1>1, HeadTailFacts
<1> HIDE DEF u
<1>3. j \in Fields(c)
  BY <1>1, <1>2 DEF Fields
<1>4. /\ j.frames = k.frames /\ j.refs = k.refs /\ j.queue = k.queue
      /\ SameNotes(k, j) /\ SameLinks(k, j)
  BY <1>1 DEF Fields, SameNotes, SameLinks
<1>5. Becomes(c, t, k, j, j.refs - k.refs)
  BY <1>3, <1>4, BecomesSame
<1>6. j.refs - k.refs = 0
  BY <1>4, SlackFacts
<1>7. QED
  BY <1>2, <1>5, <1>6

\* A request is taken out of the queue; it may be one to subscribe.
LEMMA UnqueuedBecomes ==
  ASSUME NEW c \in Channels, NEW t \in ChannelTypes, NEW k \in Fields(c), Sound(t, k),
         k.queue # <<>>, NEW b \in BOOLEAN, NEW j,
         j \in {[k EXCEPT !.queue = Tail(@)], [k EXCEPT !.queue = Tail(@), !.subscribed = b]}
  PROVE  Becomes(c, t, k, j, 1)
<1> DEFINE q == Tail(k.queue)
<1>1. k.queue \in Seq(Message)
  BY DEF Fields
<1>2. q \in Seq(Message)
  BY <1>1, HeadTailFacts
<1>3. j = [k EXCEPT !.queue = q] \/ j = [k EXCEPT !.queue = q, !.subscribed = b]
  BY DEF Fields
<1>4. q = Tail(k.queue)
  OBVIOUS
<1> HIDE DEF q
<1>5. j \in Fields(c)
  <2>1. CASE j = [k EXCEPT !.queue = q]
    BY <1>2, <2>1 DEF Fields
  <2>2. CASE j = [k EXCEPT !.queue = q, !.subscribed = b]
    BY <1>2, <2>2 DEF Fields
  <2>3. QED
    BY <1>3, <2>1, <2>2
<1>6. /\ j.frames = k.frames /\ j.refs = k.refs /\ j.queue = q
      /\ SameNotes(k, j) /\ SameLinks(k, j)
  <2>1. CASE j = [k EXCEPT !.queue = q]
    BY <2>1 DEF Fields, SameNotes, SameLinks
  <2>2. CASE j = [k EXCEPT !.queue = q, !.subscribed = b]
    BY <2>2 DEF Fields, SameNotes, SameLinks
  <2>3. QED
    BY <1>3, <2>1, <2>2
<1>7. QED
  BY <1>4, <1>5, <1>6, BecomesSame

\* What was read is given to the unpacker.
LEMMA ReceivedBecomes ==
  ASSUME NEW c \in Channels, NEW t \in ChannelTypes, NEW k \in Fields(c), Sound(t, k),
         NEW chunk \in Seq(Message), NEW j,
         j = [Incref(k) EXCEPT !.unpacker = @ \o chunk, !.received = @ + Len(chunk)]
  PROVE  Becomes(c, t, k, j, 1)
<1> DEFINE i == Incref(k)
           u == i.unpacker \o chunk
           r == i.received + Len(chunk)
<1>1. Becomes(c, t, k, i, 1)
  BY IncrefBecomes
<1>2. j = [i EXCEPT !.unpacker = u, !.received = r]
  OBVIOUS
<1> HIDE DEF i
<1>3. i \in Fields(c) /\ Sound(t, i)
  BY <1>1 DEF Becomes
<1>4. u \in Seq(Message) /\ r \in Nat
  <2>1. i.unpacker \in Seq(Message) /\ i.received \in Nat /\ Len(chunk) \in Nat
    BY <1>3 DEF Fields
  <2>2. QED
    BY <2>1, ConcatFacts
<1> HIDE DEF u, r
<1>5. j \in Fields(c)
  BY <1>2, <1>3, <1>4, ZenonT(60) DEF Fields
<1>6. /\ j.frames = i.frames /\ j.refs = i.refs /\ j.queue = i.queue
      /\ SameNotes(i, j) /\ SameLinks(i, j)
  BY <1>2, <1>3 DEF Fields, SameNotes, SameLinks
<1>7. Becomes(c, t, i, j, j.refs - i.refs)
  BY <1>3, <1>5, <1>6, BecomesSame
<1>8. j.refs - i.refs = 0
  BY <1>3, <1>6, SlackFacts
<1>9. Becomes(c, t, k, j, 1 + 0)
  BY <1>1, <1>7, <1>8, BecomesTwice
<1>10. QED
  BY <1>9

\* The end of the input: all calls of the channel are told.
LEMMA EofBecomes ==
  ASSUME NEW c \in Channels, NEW t \in ChannelTypes, NEW k \in Fields(c), Sound(t, k),
         Slack(t, k) >= 0, k.reader = "open",
         NEW j, j = Decref(Errored(t, Incref([k EXCEPT !.reader = "eof"])))
  PROVE  Becomes(c, t, k, j, 0)
<1> DEFINE a == [k EXCEPT !.reader = "eof"]
           b == Incref(a)
           e == Errored(t, b)
<1>1. a \in Fields(c)
  BY DEF Fields
<1>2. /\ a.frames = k.frames /\ a.refs = k.refs /\ a.closed = k.closed /\ a.writer = k.writer
      /\ a.reader = "eof" /\ a.exitEvent = k.exitEvent /\ SameInput(k, a) /\ SameNotes(k, a)
  BY DEF Fields, SameInput, SameNotes
<1> HIDE DEF a
<1>3. Slack(t, a) = Slack(t, k)
  BY <1>2 DEF Slack, OfMaker, OfStreams, SameInput
<1>4. Linked(t, k) /\ Answered(k) /\ InTurn(k) /\ HeldBack(k)
  BY DEF Sound, Consistent
<1>5. Linked(t, a) /\ InTurn(a) /\ HeldBack(a)
  BY <1>2, <1>4 DEF Linked, InTurn, HeldBack, SameNotes
<1>6. /\ Effect(c, t, a, b, 1) /\ b.frames = a.frames /\ SameNotes(a, b) /\ SameLinks(a, b)
  BY <1>1, IncrefFacts
<1> HIDE DEF b
<1>7. b \in Fields(c) /\ Slack(t, b) = Slack(t, k) + 1 /\ Slack(t, b) >= 0
  BY <1>3, <1>6, SlackFacts DEF Effect
<1>8. Linked(t, b) /\ InTurn(b) /\ HeldBack(b)
  BY <1>5, <1>6, SoundSame
<1>9. /\ Effect(c, t, b, e, 0) /\ e.closed /\ AllReturned(e) /\ Answered(e)
      /\ SameNotes(b, e) /\ Linked(t, e)
  BY <1>7, <1>8, ErroredFacts
<1> HIDE DEF e
<1>10. e \in Fields(c) /\ SameIds(b, e) /\ Slack(t, e) = Slack(t, b) + 0
  BY <1>9 DEF Effect
<1>11. Sound(t, e)
  BY <1>8, <1>9, <1>10, ErroredSound
<1>12. Becomes(c, t, k, e, 1)
  <2>1. SameIds(k, e) /\ e.sent = k.sent
    BY <1>2, <1>6, <1>9, <1>10 DEF SameIds, SameNotes
  <2>2. Slack(t, e) = Slack(t, k) + 1
    BY <1>7, <1>10, SlackFacts
  <2>3. QED
    BY <1>10, <1>11, <2>1, <2>2 DEF Becomes
<1>13. Slack(t, e) >= 1
  BY <1>12, SlackFacts DEF Becomes
<1>14. Becomes(c, t, e, j, -1)
  BY <1>10, <1>11, <1>13, DecrefBecomes DEF e, b, a
<1>15. Becomes(c, t, k, j, 1 + (-1))
  BY <1>12, <1>14, BecomesTwice
<1>16. QED
  BY <1>15

\* A write is done.
LEMMA WriteDoneBecomes ==
  ASSUME NEW c \in Channels, NEW t \in ChannelTypes, NEW k \in Fields(c), Sound(t, k),
         k.writes > 0, NEW j, j = [k EXCEPT !.writes = @ - 1]
  PROVE  Becomes(c, t, k, j, 0)
<1> DEFINE w == k.writes - 1
<1>1. w \in 0 .. MaxMem + 1 /\ j = [k EXCEPT !.writes = w]
  BY BoundTypes, SMTT(60) DEF Fields
<1> HIDE DEF w
<1>2. j \in Fields(c)
  BY <1>1 DEF Fields
<1>3. /\ j.frames = k.frames /\ j.refs = k.refs /\ j.queue = k.queue
      /\ SameNotes(k, j) /\ SameLinks(k, j)
  BY <1>1 DEF Fields, SameNotes, SameLinks
<1>4. Becomes(c, t, k, j, j.refs - k.refs)
  BY <1>2, <1>3, BecomesSame
<1>5. j.refs - k.refs = 0
  BY <1>3, SlackFacts
<1>6. QED
  BY <1>4, <1>5

\* A process exits: its output was open, and so its input was not closed.
LEMMA ExitedBecomes ==
  ASSUME NEW c \in Channels, NEW k \in Fields(c), Sound("proc", k), k.reader # "closed",
         NEW j, j = [k EXCEPT !.reader = "closed", !.writer = "closing"]
  PROVE  Becomes(c, "proc", k, j, 0)
<1> DEFINE t == "proc"
<1>1. j \in Fields(c)
  BY DEF Fields
<1>2. /\ j.frames = k.frames /\ j.refs = k.refs /\ j.closed = k.closed /\ j.writer = "closing"
      /\ j.reader = "closed" /\ j.exitEvent = k.exitEvent /\ j.queue = k.queue /\ SameNotes(k, j)
  BY DEF Fields, SameNotes
<1>3. k.writer # "closed" /\ ~k.exitEvent
  BY DEF Sound, Consistent, Linked
<1>4. Slack(t, j) = Slack(t, k)
  BY <1>2, <1>3 DEF Slack, OfMaker, OfStreams
<1>5. Linked(t, j) /\ Told(j)
  BY <1>2, <1>3 DEF Linked, Told
<1>6. Answered(j) /\ InTurn(j) /\ HeldBack(j)
  BY <1>2, ZenonT(60) DEF Sound, Consistent, Answered, InTurn, HeldBack, SameNotes
<1>7. Slack(t, j) = Slack(t, k) + 0
  BY <1>4, SlackFacts DEF ChannelTypes
<1>8. SameIds(k, j) /\ j.sent = k.sent
  BY <1>2 DEF SameIds, SameNotes
<1>9. QED
  BY <1>1, <1>5, <1>6, <1>7, <1>8 DEF Becomes, Sound, Consistent

\* The streams are closed and give back their reference, unless they are those
\* of the program.
LEMMA StreamsClosedBecomes ==
  ASSUME NEW c \in Channels, NEW t \in ChannelTypes, NEW k \in Fields(c), Sound(t, k),
         Slack(t, k) >= 0, k.writer = "closing", t = "proc" => k.reader = "closed",
         NEW m, m = [k EXCEPT !.writer = "closed"],
         NEW j, j = IF t = "stdio" THEN m ELSE Decref(m)
  PROVE  Becomes(c, t, k, j, 0)
<1>1. m \in Fields(c)
  BY DEF Fields
<1>2. /\ m.frames = k.frames /\ m.refs = k.refs /\ m.closed = k.closed /\ m.writer = "closed"
      /\ m.reader = k.reader /\ m.exitEvent = k.exitEvent /\ m.queue = k.queue /\ SameNotes(k, m)
  BY DEF Fields, SameNotes
<1>3. t = "socket" => k.closed
  BY DEF Sound, Consistent, Linked
<1>4. Sound(t, m) /\ SameIds(k, m) /\ m.sent = k.sent
  <2>1. Linked(t, m)
    BY <1>2, <1>3 DEF Sound, Consistent, Linked
  <2>2. Answered(m) /\ Told(m)
    BY <1>2 DEF Sound, Consistent, Answered, Told, AllReturned
  <2>2a. InTurn(m) /\ HeldBack(m)
    BY <1>2 DEF Sound, Consistent, InTurn, HeldBack, SameNotes
  <2>3. QED
    BY <1>2, <2>1, <2>2, <2>2a DEF Sound, Consistent, SameIds, SameNotes
<1>5. CASE t = "stdio"
  <2>1. Slack(t, m) = Slack(t, k)
    BY <1>2, <1>5 DEF Slack, OfMaker, OfStreams
  <2>2. Slack(t, m) = Slack(t, k) + 0
    BY <2>1, SlackFacts
  <2>3. j = m
    BY <1>5
  <2>4. QED
    BY <1>1, <1>4, <2>2, <2>3 DEF Becomes
<1>6. CASE t # "stdio"
  <2>1. OfMaker(t, m) = OfMaker(t, k) /\ OfStreams(t, k) = 1 /\ OfStreams(t, m) = 0
    BY <1>2, <1>6 DEF OfMaker, OfStreams, Count
  <2>2. Slack(t, m) = Slack(t, k) + 1
    <3> DEFINE o == OfMaker(t, k)
               l == Len(k.queue)
               sk == Slack(t, k)
               sm == Slack(t, m)
               r == k.refs
    <3>1. o \in Int /\ l \in Int /\ sk \in Int /\ sm \in Int /\ r \in Int
      BY <1>1, SlackFacts
    <3>2. r = sk + o + 1 + l /\ r = sm + o + 0 + l
      BY <1>1, <1>2, <2>1, SlackFacts
    <3> HIDE DEF o, l, sk, sm, r
    <3>3. sm = sk + 1
      BY <3>1, <3>2
    <3>4. QED
      BY <3>3 DEF sk, sm
  <2>3. Becomes(c, t, k, m, 1)
    BY <1>1, <1>4, <2>2 DEF Becomes
  <2>4. Slack(t, m) >= 1 /\ j = Decref(m)
    BY <1>6, <2>2, SlackFacts
  <2>5. Becomes(c, t, m, j, -1)
    BY <1>1, <1>4, <2>4, DecrefBecomes
  <2>6. Becomes(c, t, k, j, 1 + (-1))
    BY <2>3, <2>5, BecomesTwice
  <2>7. QED
    BY <2>6
<1>7. QED
  BY <1>5, <1>6

\* A request of a peer.
LEMMA RequestBecomes ==
  ASSUME NEW c \in Channels, NEW t \in ChannelTypes, NEW k \in Fields(c), Sound(t, k),
         Slack(t, k) >= 0, NEW m \in Message, NEW j,
         j \in {Responded(t, Incref(k), m.id), k, Errored(t, Written(t, k, <<>>)), Requested(t, k, m)}
  PROVE  Becomes(c, t, k, j, 0)
<1>1. CASE j = Responded(t, Incref(k), m.id)
  <2> DEFINE i == Incref(k)
  <2>1. Becomes(c, t, k, i, 1)
    BY IncrefBecomes
  <2>2. j = Responded(t, i, m.id)
    BY <1>1
  <2> HIDE DEF i
  <2>3. i \in Fields(c) /\ Sound(t, i) /\ Slack(t, i) >= 1
    BY <2>1, SlackFacts DEF Becomes
  <2>4. Becomes(c, t, i, j, -1)
    BY <2>2, <2>3, RespondedBecomes
  <2>5. Becomes(c, t, k, j, 1 + (-1))
    BY <2>1, <2>4, BecomesTwice
  <2>6. QED
    BY <2>5
<1>2. CASE j = k
  BY <1>2, SlackFacts DEF Becomes, SameIds
<1>3. CASE j = Errored(t, Written(t, k, <<>>))
  <2> DEFINE w == Written(t, k, <<>>)
  <2>1. Effect(c, t, k, w, 0) /\ Sound(t, w) /\ w.sent = k.sent
    BY WrittenNothing
  <2>2. j = Errored(t, w)
    BY <1>3
  <2> HIDE DEF w
  <2>3. Becomes(c, t, k, w, 0)
    BY <2>1, EffectBecomes
  <2>4. w \in Fields(c) /\ Slack(t, w) >= 0
    BY <2>1, SlackFacts DEF Effect
  <2>5. Becomes(c, t, w, j, 0)
    BY <2>1, <2>2, <2>4, ErroredBecomes
  <2>6. Becomes(c, t, k, j, 0 + 0)
    BY <2>3, <2>5, BecomesTwice
  <2>7. QED
    BY <2>6
<1>4. CASE j = Requested(t, k, m)
  <2>1. /\ j \in Fields(c) /\ SameIds(k, j) /\ Slack(t, j) = Slack(t, k)
        /\ Sound(t, j) /\ j.sent = k.sent
    BY <1>4, RequestedFacts
  <2>2. Slack(t, j) = Slack(t, k) + 0
    BY <2>1, SlackFacts
  <2>3. QED
    BY <2>1, <2>2 DEF Becomes
<1>5. QED
  BY <1>1, <1>2, <1>3, <1>4

\* The frame of a call is pushed on the call stack.
LEMMA FramePushed ==
  ASSUME NEW c \in Channels, NEW t \in ChannelTypes, NEW w \in Fields(c), Sound(t, w),
         w.reader # "eof", NEW g \in Frame, ~g.returned,
         NEW j, j = [w EXCEPT !.frames = Append(@, g)]
  PROVE  /\ j \in Fields(c) /\ Sound(t, j) /\ Slack(t, j) = Slack(t, w)
         /\ j.sent = w.sent /\ Grown(w.frames, g, j.frames)
<1> DEFINE f == w.frames
           fs == Append(f, g)
<1>1. f \in Seq(Frame) /\ Len(f) \in Nat
  BY DEF Fields
<1>2. fs \in Seq(Frame) /\ fs # <<>> /\ Grown(f, g, fs)
  BY <1>1, PushFacts, AppendGrows
<1>3. j = [w EXCEPT !.frames = fs]
  OBVIOUS
<1> HIDE DEF fs
<1>4. j \in Fields(c)
  BY <1>2, <1>3 DEF Fields
<1>5. /\ j.frames = fs /\ j.refs = w.refs /\ j.queue = w.queue
      /\ SameNotes(w, j) /\ SameLinks(w, j)
  BY <1>3 DEF Fields, SameNotes, SameLinks
<1>6. Slack(t, j) = Slack(t, w)
  BY <1>5 DEF Slack, OfMaker, OfStreams, SameLinks
<1>7. Answered(j)
  <2> SUFFICES ASSUME NEW x \in 1 .. Len(fs), fs[x].returned /\ ~fs[x].errored
               PROVE  fs[x].result = fs[x].id
    BY <1>5 DEF Answered
  <2>1. Len(fs) = Len(f) + 1 /\ fs[Len(f) + 1] = g /\ \A i \in 1 .. Len(f) : fs[i] = f[i]
    BY <1>2 DEF Grown
  <2>2. x \in 1 .. Len(f) \/ x = Len(f) + 1
    BY <1>1, <2>1
  <2>3. QED
    BY <2>1, <2>2 DEF Answered, Sound, Consistent
<1>8. Linked(t, j) /\ InTurn(j)
  BY <1>5 DEF Sound, Consistent, Linked, InTurn, SameNotes, SameLinks
<1>9. Told(j) /\ HeldBack(j)
  BY <1>2, <1>5 DEF Told, HeldBack, SameLinks
<1>10. QED
  BY <1>2, <1>4, <1>5, <1>6, <1>7, <1>8, <1>9 DEF Sound, Consistent, SameNotes

\* The request is sent before; it may find the channel at the end of its memory
\* and close it, but not at the end of its input.
LEMMA RequestSent ==
  ASSUME NEW c \in Channels, NEW t \in ChannelTypes, NEW k \in Fields(c), Sound(t, k),
         Slack(t, k) >= 0, ~k.closed, k.nextId <= MaxCalls[c],
         NEW w, w = Written(t, [Incref(k) EXCEPT !.nextId = @ + 1], <<>>)
  PROVE  /\ w \in Fields(c) /\ Sound(t, w) /\ Slack(t, w) = Slack(t, k) + 1
         /\ w.sent = k.sent /\ SameIds(k, w) /\ w.reader # "eof" /\ k.nextId \in Nat \ {0}
<1> DEFINE i == Incref(k)
           n == i.nextId + 1
           a == [i EXCEPT !.nextId = n]
<1>1. Effect(c, t, k, i, 1) /\ i.frames = k.frames /\ SameNotes(k, i) /\ SameLinks(k, i)
  BY IncrefFacts
<1>2. w = Written(t, a, <<>>)
  OBVIOUS
<1> HIDE DEF i
<1>3. i \in Fields(c) /\ Slack(t, i) = Slack(t, k) + 1 /\ i.nextId = k.nextId /\ ~i.closed
  BY <1>1 DEF Effect, SameInput, SameLinks
<1>4. k.nextId \in Nat \ {0} /\ n \in 1 .. MaxCalls[c] + 1
  <2>1. MaxCalls[c] \in Nat
    BY BoundTypes
  <2>2. k.nextId \in 1 .. MaxCalls[c] + 1
    BY DEF Fields
  <2>3. QED
    BY <1>3, <2>1, <2>2
<1> HIDE DEF n
<1>5. a \in Fields(c)
  BY <1>3, <1>4 DEF Fields
<1>6. /\ a.frames = i.frames /\ a.refs = i.refs /\ a.queue = i.queue
      /\ SameNotes(i, a) /\ SameLinks(i, a)
  BY <1>3 DEF Fields, SameNotes, SameLinks
<1> HIDE DEF a
<1>7. Slack(t, a) = Slack(t, i)
  BY <1>6 DEF Slack, OfMaker, OfStreams, SameLinks
<1>8. Slack(t, a) >= 0
  BY <1>3, <1>7, SlackFacts
<1>9. Sound(t, i)
  BY <1>1, SoundSame DEF Sound, Consistent
<1>10. Sound(t, a)
  BY <1>6, <1>9, SoundSame DEF Sound, Consistent
<1>11. Effect(c, t, a, w, 0) /\ Sound(t, w) /\ w.sent = a.sent
  BY <1>2, <1>5, <1>8, <1>10, WrittenNothing
<1>12. /\ w \in Fields(c) /\ SameIds(a, w) /\ Slack(t, w) = Slack(t, a) + 0
       /\ w.reader = "eof" => a.reader = "eof"
  BY <1>11 DEF Effect
<1>13. Slack(t, w) = Slack(t, k) + 1
  BY <1>3, <1>7, <1>12, SlackFacts
<1>14. SameIds(k, w) /\ w.sent = k.sent
  BY <1>1, <1>6, <1>11, <1>12 DEF SameIds, SameNotes
<1>15. w.reader # "eof"
  BY <1>1, <1>6, <1>12 DEF SameLinks, Sound, Told
<1>16. QED
  BY <1>4, <1>11, <1>12, <1>13, <1>14, <1>15

\* The frame of a call is popped; with the last one the notifications that
\* waited are sent.
LEMMA ReturnBecomes ==
  ASSUME NEW c \in Channels, NEW t \in ChannelTypes, NEW k \in Fields(c), Sound(t, k),
         Slack(t, k) >= 1, k.frames # <<>>,
         NEW p, p = [k EXCEPT !.frames = Front(@)],
         NEW j, j = Decref(IF p.frames = <<>> THEN Flushed(t, p) ELSE p)
  PROVE  /\ j \in Fields(c) /\ Sound(t, j) /\ Slack(t, j) = Slack(t, k) - 1
         /\ p.frames = Front(k.frames) /\ SameIds(p, j)
         /\ j.frames # <<>> => j.sent = k.sent
<1> DEFINE fs == Front(k.frames)
<1>1. /\ k.frames \in Seq(Frame) /\ fs \in Seq(Frame) /\ Len(k.frames) \in Nat
      /\ Len(fs) = Len(k.frames) - 1 /\ \A i \in 1 .. Len(k.frames) - 1 : fs[i] = k.frames[i]
  BY PopFacts DEF Fields
<1>2. p = [k EXCEPT !.frames = fs] /\ fs = Front(k.frames)
  BY DEF Fields
<1> HIDE DEF fs
<1>3. p \in Fields(c)
  BY <1>1, <1>2 DEF Fields
<1>4. /\ p.frames = fs /\ p.refs = k.refs /\ p.queue = k.queue
      /\ SameNotes(k, p) /\ SameLinks(k, p)
  BY <1>2 DEF Fields, SameNotes, SameLinks
<1>5. Slack(t, p) = Slack(t, k) + (p.refs - k.refs)
  BY <1>3, <1>4, SlackOfSame
<1>6. Slack(t, p) = Slack(t, k) /\ Slack(t, p) >= 0
  BY <1>3, <1>4, <1>5, SlackFacts
<1>7. \A i \in 1 .. Len(fs) : i \in 1 .. Len(k.frames) /\ fs[i] = k.frames[i]
  BY <1>1
<1>8. Answered(p) /\ Told(p)
  BY <1>4, <1>7 DEF Answered, Told, AllReturned, Sound, Consistent, SameLinks
<1>9. Linked(t, p) /\ InTurn(p)
  BY <1>4 DEF Sound, Consistent, Linked, InTurn, SameNotes, SameLinks
<1> DEFINE q == IF p.frames = <<>> THEN Flushed(t, p) ELSE p
<1>10. /\ q \in Fields(c) /\ Sound(t, q) /\ Slack(t, q) = Slack(t, k) /\ SameIds(p, q)
       /\ q.frames # <<>> => q.sent = k.sent
  <2>1. CASE p.frames = <<>>
    <3>1. q = Flushed(t, p)
      BY <2>1
    <3> HIDE DEF q
    <3>2. Effect(c, t, p, q, 0) /\ Sound(t, q)
      BY <1>3, <1>6, <1>8, <1>9, <3>1, FlushedFacts DEF Consistent
    <3>3. q \in Fields(c) /\ SameIds(p, q) /\ Slack(t, q) = Slack(t, p) + 0
      BY <3>2 DEF Effect
    <3>4. q.frames = <<>>
      <4>1. q.frames \in Seq(Frame) /\ Len(q.frames) = 0
        BY <2>1, <3>3 DEF SameIds, Fields
      <4>2. QED
        BY <4>1
    <3>5. QED
      BY <1>6, <3>2, <3>3, <3>4, SlackFacts
  <2>2. CASE p.frames # <<>>
    <3>1. q = p
      BY <2>2
    <3> HIDE DEF q
    <3>2. HeldBack(p) /\ SameIds(p, p) /\ p.sent = k.sent
      BY <1>4, <2>2 DEF HeldBack, SameIds, SameNotes
    <3>3. QED
      BY <1>3, <1>6, <1>8, <1>9, <3>1, <3>2 DEF Sound, Consistent
  <2>3. QED
    BY <2>1, <2>2
<1>11. j = Decref(q)
  OBVIOUS
<1> HIDE DEF q
<1>12. q.refs > 0
  BY <1>6, <1>10, SlackFacts
<1>13. /\ Effect(c, t, q, j, -1) /\ j.frames = q.frames
       /\ SameNotes(q, j) /\ SameLinks(q, j)
  BY <1>10, <1>11, <1>12, DecrefFacts
<1>14. Sound(t, j)
  BY <1>10, <1>13, SoundSame DEF Sound, Consistent
<1>15. Slack(t, j) = Slack(t, k) - 1
  BY <1>10, <1>13, SlackFacts DEF Effect
<1>16. SameIds(p, j) /\ (j.frames # <<>> => j.sent = k.sent)
  BY <1>10, <1>13 DEF SameIds, SameNotes
<1>17. QED
  BY <1>2, <1>4, <1>13, <1>14, <1>15, <1>16 DEF Effect

-----------------------------------------------------------------------------
(***************************************************************************)
(* The steps                                                               *)
(***************************************************************************)
LEMMA InvOf ==
  ASSUME IndInv, NEW c \in Channels
  PROVE  /\ type[c] \in ChannelTypes /\ ch[c] \in Fields(c) /\ Sound(type[c], ch[c])
         /\ Matches(stack, c, ch[c]) /\ stack \in Seq(StackFrame)
         /\ over # "exit" =>
              /\ Slack(type[c], ch[c]) = Cardinality(HeldBy(stack, c)) + Count(parser = c)
              /\ Slack(type[c], ch[c]) >= 0 /\ Cardinality(HeldBy(stack, c)) \in Nat
<1>1. /\ type \in Types /\ stack \in Seq(StackFrame)
      /\ ChannelInv(c, type[c], ch[c], stack, parser, over)
  BY DEF IndInv
<1>2. type[c] \in ChannelTypes
  BY <1>1, TypeOfChannel
<1>3. Cardinality(HeldBy(stack, c)) \in Nat /\ Count(parser = c) \in Nat
  BY <1>1, HeldFacts DEF Count
<1>4. Cardinality(HeldBy(stack, c)) + Count(parser = c) >= 0
  BY <1>3
<1>5. QED
  BY <1>1, <1>2, <1>3, <1>4 DEF ChannelInv

\* A step of one channel, of the stack and of the parser.
LEMMA OneChannel ==
  ASSUME IndInv, NEW c \in Channels, NEW k, Update(c, k), type' = type, polling' \in BOOLEAN,
         parser' \in Channels \union {NoChannel}, over' \in {"no", "exit", "write", "subscribe"},
         over' = "exit" => parser' = NoChannel, over' # "exit" => over # "exit",
         stack' \in Seq(StackFrame),
         ChannelInv(c, type[c], k, stack', parser', over'),
         \A d \in Channels : d # c =>
           /\ Cardinality(HeldBy(stack', d)) = Cardinality(HeldBy(stack, d))
           /\ Matches(stack, d, ch[d]) => Matches(stack', d, ch[d])
           /\ parser' = d <=> parser = d,
         ch[c].frames # <<>> /\ k.frames # <<>> => k.sent = ch[c].sent
  PROVE  IndInv' /\ SentKept
<1>1. /\ ch = [d \in Channels |-> ch[d]] /\ ch' = [ch EXCEPT ![c] = k]
      /\ type \in Types /\ \A d \in Channels : ChannelInv(d, type[d], ch[d], stack, parser, over)
  BY DEF IndInv, Update
<1>2. /\ ch' = [d \in Channels |-> ch'[d]] /\ ch'[c] = k
      /\ \A d \in Channels : d # c => ch'[d] = ch[d]
  BY <1>1
<1>3. ASSUME NEW d \in Channels
      PROVE  ChannelInv(d, type'[d], ch'[d], stack', parser', over')
  <2>1. CASE d = c
    BY <1>2, <2>1
  <2>2. CASE d # c
    <3>1. ch'[d] = ch[d] /\ type'[d] = type[d] /\ ChannelInv(d, type[d], ch[d], stack, parser, over)
      BY <1>1, <1>2, <2>2
    <3>2. /\ Cardinality(HeldBy(stack', d)) = Cardinality(HeldBy(stack, d))
          /\ Matches(stack, d, ch[d]) => Matches(stack', d, ch[d])
          /\ Count(parser' = d) = Count(parser = d)
      BY <2>2 DEF Count
    <3>3. QED
      BY <3>1, <3>2 DEF ChannelInv
  <2>3. QED
    BY <2>1, <2>2
<1>4. SentKept
  BY <1>2 DEF SentKept
<1>5. IndInv'
  BY <1>1, <1>2, <1>3 DEF IndInv
<1>6. QED
  BY <1>4, <1>5

\* A step of the fields of a channel, and of the parser if that takes or gives
\* back the reference.
LEMMA BecomesInv ==
  ASSUME IndInv, over # "exit", NEW c \in Channels, NEW k, Update(c, k),
         UNCHANGED <<type, stack, polling, over>>,
         NEW d \in Int, Becomes(c, type[c], ch[c], k, d),
         \/ d = 0 /\ parser' = parser
         \/ d = 1 /\ parser = NoChannel /\ parser' = c
         \/ d = -1 /\ parser = c /\ parser' = NoChannel
  PROVE  IndInv' /\ SentKept
<1>1. /\ ch[c] \in Fields(c) /\ Matches(stack, c, ch[c]) /\ stack \in Seq(StackFrame)
      /\ type[c] \in ChannelTypes
      /\ Slack(type[c], ch[c]) = Cardinality(HeldBy(stack, c)) + Count(parser = c)
      /\ Cardinality(HeldBy(stack, c)) \in Nat
  BY InvOf
<1>2. /\ k \in Fields(c) /\ SameIds(ch[c], k) /\ Slack(type[c], k) = Slack(type[c], ch[c]) + d
      /\ Sound(type[c], k) /\ (ch[c].frames # <<>> => k.sent = ch[c].sent)
  BY DEF Becomes
<1>3. Matches(stack, c, k)
  BY <1>1, <1>2, MatchesSame
<1>4. Count(parser' = c) = Count(parser = c) + d
  BY ChannelAssumption DEF Count
<1>5. Slack(type[c], k) = Cardinality(HeldBy(stack, c)) + Count(parser' = c)
  <2> DEFINE h == Cardinality(HeldBy(stack, c))
             p == Count(parser = c)
             q == Count(parser' = c)
             sc == Slack(type[c], ch[c])
  <2>1. h \in Int /\ p \in Int /\ q \in Int /\ sc = h + p /\ q = p + d
    BY <1>1, <1>4 DEF Count
  <2> HIDE DEF h, p, q, sc
  <2>2. sc + d = h + q
    BY <2>1
  <2>3. QED
    BY <1>2, <2>2 DEF h, q, sc
<1>6. ChannelInv(c, type[c], k, stack', parser', over')
  BY <1>2, <1>3, <1>5 DEF ChannelInv
<1>7. /\ polling \in BOOLEAN /\ parser \in Channels \union {NoChannel}
      /\ over \in {"no", "exit", "write", "subscribe"}
  BY DEF IndInv
<1>8. \A e \in Channels : e # c => (parser' = e <=> parser = e)
  BY ChannelAssumption
<1>9. /\ type' = type /\ polling' \in BOOLEAN /\ over' \in {"no", "exit", "write", "subscribe"}
      /\ over' # "exit" /\ over # "exit" /\ stack' = stack
      /\ parser' \in Channels \union {NoChannel}
  BY <1>7
<1>10. \A e \in Channels : e # c =>
         /\ Cardinality(HeldBy(stack', e)) = Cardinality(HeldBy(stack, e))
         /\ Matches(stack, e, ch[e]) => Matches(stack', e, ch[e])
         /\ parser' = e <=> parser = e
  BY <1>8, <1>9
<1>11. stack' \in Seq(StackFrame)
  BY <1>1, <1>9
<1>12. QED
  BY <1>2, <1>6, <1>9, <1>10, <1>11, OneChannel

\* The program ends by an assertion.
LEMMA AbortInv ==
  ASSUME IndInv, over # "exit", NEW why \in {"write", "subscribe"}, Abort(why)
  PROVE  IndInv' /\ SentKept
<1>1. over' # "exit" /\ over' \in {"no", "exit", "write", "subscribe"}
      /\ UNCHANGED <<type, ch, stack, polling, parser>>
  BY DEF Abort
<1>2. \A c \in Channels : ChannelInv(c, type[c], ch[c], stack, parser, over')
  BY <1>1 DEF IndInv, ChannelInv
<1>3. IndInv'
  BY <1>1, <1>2 DEF IndInv
<1>4. SentKept
  BY <1>1 DEF SentKept
<1>5. QED
  BY <1>3, <1>4

\* Only which calls are busy changes.
LEMMA BusyInv ==
  ASSUME IndInv, UNCHANGED <<type, ch, parser, over>>, polling' \in BOOLEAN,
         NEW busy \in BOOLEAN, stack' \in {stack, SetBusy(busy)}
  PROVE  IndInv' /\ SentKept
<1>1. stack \in Seq(StackFrame) /\ \A c \in Channels : ChannelInv(c, type[c], ch[c], stack, parser, over)
  BY DEF IndInv
<1>2. stack' \in Seq(StackFrame)
  BY <1>1, SetBusyFacts
<1>3. ASSUME NEW c \in Channels
      PROVE  ChannelInv(c, type[c], ch[c], stack', parser, over)
  <2>1. HeldBy(stack', c) = HeldBy(stack, c) /\ (Matches(stack', c, ch[c]) <=> Matches(stack, c, ch[c]))
    <3>1. CASE stack' = stack
      BY <3>1
    <3>2. CASE stack' = SetBusy(busy)
      BY <1>1, <3>2, MatchesBusy
    <3>3. QED
      BY <3>1, <3>2
  <2>2. QED
    BY <1>1, <2>1 DEF ChannelInv
<1>4. IndInv'
  BY <1>2, <1>3 DEF IndInv
<1>5. SentKept
  BY DEF SentKept
<1>6. QED
  BY <1>4, <1>5

LEMMA ParserAlive ==
  ASSUME IndInv, NEW c \in Channels, parser = c
  PROVE  over # "exit" /\ Slack(type[c], ch[c]) >= 1
<1>1. over # "exit" /\ Count(parser = c) = 1
  BY ChannelAssumption DEF IndInv, Count
<1>2. /\ Slack(type[c], ch[c]) = Cardinality(HeldBy(stack, c)) + Count(parser = c)
      /\ Cardinality(HeldBy(stack, c)) \in Nat
  BY <1>1, InvOf
<1>3. QED
  BY <1>1, <1>2

\* A frame is pushed on a stack that is the present one but for busy calls.
LEMMA PushInv ==
  ASSUME IndInv, over # "exit", NEW c \in Channels, NEW k, Update(c, k),
         UNCHANGED <<type, polling, parser, over>>,
         NEW s \in Seq(StackFrame),
         \A d \in Channels : HeldBy(s, d) = HeldBy(stack, d)
                               /\ \A j : Matches(s, d, j) <=> Matches(stack, d, j),
         NEW f \in StackFrame, f.chan = c, stack' \in Seq(StackFrame), Grown(s, f, stack'),
         k \in Fields(c), Sound(type[c], k), Matches(stack', c, k),
         Slack(type[c], k) = Slack(type[c], ch[c]) + 1,
         ch[c].frames # <<>> /\ k.frames # <<>> => k.sent = ch[c].sent
  PROVE  IndInv' /\ SentKept
<1>2. /\ Slack(type[c], ch[c]) = Cardinality(HeldBy(stack, c)) + Count(parser = c)
      /\ Cardinality(HeldBy(stack, c)) \in Nat
  BY InvOf
<1>3. Cardinality(HeldBy(stack', c)) = Cardinality(HeldBy(stack, c)) + 1
  <2>1. Cardinality(HeldBy(stack', c)) = Cardinality(HeldBy(s, c)) + 1
    BY GrownCount
  <2>2. QED
    BY <2>1
<1>4. Slack(type[c], k) = Cardinality(HeldBy(stack', c)) + Count(parser' = c)
  <2> DEFINE h == Cardinality(HeldBy(stack, c))
             p == Count(parser = c)
  <2>1. h \in Int /\ p \in Int /\ Slack(type[c], k) = (h + p) + 1
    BY <1>2 DEF Count
  <2>2. Cardinality(HeldBy(stack', c)) = h + 1 /\ Count(parser' = c) = p
    BY <1>3
  <2> HIDE DEF h, p
  <2>3. (h + p) + 1 = (h + 1) + p
    BY <2>1
  <2>4. QED
    BY <2>1, <2>2, <2>3
<1>5. ChannelInv(c, type[c], k, stack', parser', over')
  BY <1>4 DEF ChannelInv
<1>6. ASSUME NEW d \in Channels, d # c
      PROVE  /\ Cardinality(HeldBy(stack', d)) = Cardinality(HeldBy(stack, d))
             /\ Matches(stack, d, ch[d]) => Matches(stack', d, ch[d])
             /\ parser' = d <=> parser = d
  <2>1. Cardinality(HeldBy(stack', d)) = Cardinality(HeldBy(s, d))
    BY <1>6, GrownCount
  <2>2. Matches(stack', d, ch[d]) <=> Matches(s, d, ch[d])
    BY <1>6, MatchesOther
  <2>3. QED
    BY <2>1, <2>2
<1>7. /\ type' = type /\ polling' \in BOOLEAN /\ over' \in {"no", "exit", "write", "subscribe"}
      /\ over' # "exit" /\ parser' \in Channels \union {NoChannel}
  BY DEF IndInv
<1>8. QED
  BY <1>5, <1>6, <1>7, OneChannel

\* The innermost frame is popped.
LEMMA PopInv ==
  ASSUME IndInv, over # "exit", NEW c \in Channels, NEW k, Update(c, k),
         UNCHANGED <<type, polling, parser, over>>,
         Top.chan = c, stack' = Front(stack),
         k \in Fields(c), Sound(type[c], k), Matches(stack', c, k),
         Slack(type[c], k) = Slack(type[c], ch[c]) - 1,
         ch[c].frames # <<>> /\ k.frames # <<>> => k.sent = ch[c].sent
  PROVE  IndInv' /\ SentKept
<1>0. stack \in Seq(StackFrame)
  BY DEF IndInv
<1>1. stack' \in Seq(StackFrame) /\ Grown(stack', Top, stack)
  BY <1>0, TopFacts
<1>2. /\ Slack(type[c], ch[c]) = Cardinality(HeldBy(stack, c)) + Count(parser = c)
      /\ Cardinality(HeldBy(stack, c)) \in Nat
  BY InvOf
<1>3. /\ Cardinality(HeldBy(stack, c)) = Cardinality(HeldBy(stack', c)) + 1
      /\ Cardinality(HeldBy(stack', c)) \in Nat
  BY <1>0, <1>1, GrownCount, HeldFacts
<1>4. Slack(type[c], k) = Cardinality(HeldBy(stack', c)) + Count(parser' = c)
  <2> DEFINE h == Cardinality(HeldBy(stack', c))
             p == Count(parser = c)
  <2>1. h \in Int /\ p \in Int /\ Slack(type[c], k) = ((h + 1) + p) - 1
    BY <1>2, <1>3 DEF Count
  <2>2. Count(parser' = c) = p
    OBVIOUS
  <2> HIDE DEF h, p
  <2>3. ((h + 1) + p) - 1 = h + p
    BY <2>1
  <2>4. QED
    BY <2>1, <2>2, <2>3 DEF h
<1>5. ChannelInv(c, type[c], k, stack', parser', over')
  BY <1>4 DEF ChannelInv
<1>6. ASSUME NEW d \in Channels, d # c
      PROVE  /\ Cardinality(HeldBy(stack', d)) = Cardinality(HeldBy(stack, d))
             /\ Matches(stack, d, ch[d]) => Matches(stack', d, ch[d])
             /\ parser' = d <=> parser = d
  <2>1. Cardinality(HeldBy(stack, d)) = Cardinality(HeldBy(stack', d))
    BY <1>0, <1>1, <1>6, GrownCount
  <2>2. Matches(stack, d, ch[d]) <=> Matches(stack', d, ch[d])
    BY <1>0, <1>1, <1>6, MatchesOther
  <2>3. QED
    BY <2>1, <2>2
<1>7. /\ type' = type /\ polling' \in BOOLEAN /\ over' \in {"no", "exit", "write", "subscribe"}
      /\ over' # "exit" /\ parser' \in Channels \union {NoChannel}
  BY DEF IndInv
<1>8. QED
  BY <1>1, <1>5, <1>6, <1>7, OneChannel

LEMMA CallBeginInv ==
  ASSUME IndInv, NEW c \in Channels, CallBegin(c)
  PROVE  IndInv' /\ SentKept
<1> DEFINE id == ch[c].nextId
           t == type[c]
           w == Written(t, [Incref(ch[c]) EXCEPT !.nextId = @ + 1], <<>>)
           g == [id |-> id, returned |-> FALSE, errored |-> FALSE, result |-> 0]
           k == [w EXCEPT !.frames = Append(@, g)]
           f == [kind |-> "call", chan |-> c, id |-> id, busy |-> FALSE]
<1>1. over = "no" /\ ~ch[c].closed /\ ch[c].nextId <= MaxCalls[c]
  BY DEF CallBegin, InCode, Alone
<1>2. CASE Abort("write")
  BY <1>1, <1>2, AbortInv
<1>3. CASE ~Abort("write")
  <2>1. Update(c, k) /\ stack' = Append(stack, f) /\ UNCHANGED <<type, polling, parser, over>>
    BY <1>3 DEF CallBegin
  <2>2. /\ t \in ChannelTypes /\ ch[c] \in Fields(c) /\ Sound(t, ch[c]) /\ Slack(t, ch[c]) >= 0
        /\ Matches(stack, c, ch[c]) /\ stack \in Seq(StackFrame)
    BY <1>1, InvOf
  <2>3. /\ w \in Fields(c) /\ Sound(t, w) /\ Slack(t, w) = Slack(t, ch[c]) + 1
        /\ w.sent = ch[c].sent /\ SameIds(ch[c], w) /\ w.reader # "eof" /\ id \in Nat \ {0}
    BY <1>1, <2>2, RequestSent
  <2>4. g \in Frame /\ ~g.returned /\ g.id = id
    BY <2>3 DEF Frame
  <2>5. f \in StackFrame /\ f.chan = c /\ f.kind = "call" /\ f.id = id
    BY <2>3 DEF StackFrame
  <2> HIDE DEF w, g, f
  <2>6. /\ k \in Fields(c) /\ Sound(t, k) /\ Slack(t, k) = Slack(t, w)
        /\ k.sent = w.sent /\ Grown(w.frames, g, k.frames)
    BY <2>2, <2>3, <2>4, FramePushed
  <2> HIDE DEF k
  <2>7. stack' \in Seq(StackFrame) /\ Grown(stack, f, stack')
    BY <2>1, <2>2, <2>5, AppendGrows
  <2>8. Matches(stack, c, w)
    BY <2>2, <2>3, MatchesSame
  <2>9. w.frames \in Seq(Frame) /\ k.frames \in Seq(Frame)
    BY <2>3, <2>6 DEF Fields
  <2>10. Matches(stack', c, k)
    BY <2>2, <2>4, <2>5, <2>6, <2>7, <2>8, <2>9, MatchesCall
  <2>11. Slack(t, k) = Slack(t, ch[c]) + 1 /\ k.sent = ch[c].sent
    BY <2>3, <2>6
  <2> HIDE DEF id
  <2>12. QED
    BY <1>1, <2>1, <2>2, <2>5, <2>6, <2>7, <2>10, <2>11, PushInv
<1>4. QED
  BY <1>2, <1>3

LEMMA CallReturnInv ==
  ASSUME IndInv, NEW c \in Channels, CallReturn(c)
  PROVE  IndInv' /\ SentKept
<1> DEFINE t == type[c]
           p == [ch[c] EXCEPT !.frames = Front(@)]
           k == Decref(IF p.frames = <<>> THEN Flushed(t, p) ELSE p)
<1>1. over = "no" /\ Top.kind = "call" /\ Top.chan = c
  BY DEF CallReturn, Alone, Waiting
<1>2. CASE Abort("write")
  BY <1>1, <1>2, AbortInv
<1>3. CASE ~Abort("write")
  <2>1. Update(c, k) /\ stack' = Front(stack) /\ UNCHANGED <<type, polling, parser, over>>
    BY <1>3 DEF CallReturn
  <2>2. /\ t \in ChannelTypes /\ ch[c] \in Fields(c) /\ Sound(t, ch[c])
        /\ Matches(stack, c, ch[c]) /\ stack \in Seq(StackFrame)
        /\ Slack(t, ch[c]) = Cardinality(HeldBy(stack, c)) + Count(parser = c)
    BY <1>1, InvOf
  <2>3. stack' \in Seq(StackFrame) /\ Grown(stack', Top, stack)
    BY <1>1, <2>1, <2>2, TopFacts
  <2>4. Slack(t, ch[c]) >= 1
    <3>1. /\ Cardinality(HeldBy(stack, c)) = Cardinality(HeldBy(stack', c)) + 1
          /\ Cardinality(HeldBy(stack', c)) \in Nat
      BY <1>1, <2>2, <2>3, GrownCount, HeldFacts
    <3>2. QED
      BY <2>2, <3>1 DEF Count
  <2>5. ch[c].frames \in Seq(Frame)
    BY <2>2 DEF Fields
  <2>6. ch[c].frames # <<>>
    BY <1>1, <2>2, <2>3, <2>5, CallHasFrame
  <2>7. /\ k \in Fields(c) /\ Sound(t, k) /\ Slack(t, k) = Slack(t, ch[c]) - 1
        /\ p.frames = Front(ch[c].frames) /\ SameIds(p, k)
        /\ k.frames # <<>> => k.sent = ch[c].sent
    BY <2>2, <2>4, <2>6, ReturnBecomes
  <2> HIDE DEF p, k
  <2>8. p.frames \in Seq(Frame) /\ Grown(p.frames, Last(ch[c].frames), ch[c].frames)
    BY <2>5, <2>6, <2>7, FrontGrows
  <2>9. Matches(stack', c, p)
    <3> DEFINE top == Top
               j == ch[c]
               u == stack
               s == stack'
    <3>1. /\ s \in Seq(StackFrame) /\ u \in Seq(StackFrame) /\ Grown(s, top, u)
          /\ top.chan = c /\ top.kind = "call" /\ p.frames \in Seq(Frame)
          /\ j.frames \in Seq(Frame) /\ Grown(p.frames, Last(j.frames), j.frames) /\ Matches(u, c, j)
      BY <1>1, <2>2, <2>3, <2>5, <2>8
    <3> HIDE DEF top, j, u, s
    <3>2. Matches(s, c, p)
      BY <3>1, MatchesCall
    <3>3. QED
      BY <3>2 DEF s
  <2>10. Matches(stack', c, k)
    BY <2>3, <2>7, <2>9, MatchesSame
  <2>11. QED
    BY <1>1, <2>1, <2>7, <2>10, PopInv
<1>4. QED
  BY <1>2, <1>3

LEMMA HandlerBeginInv ==
  ASSUME IndInv, NEW c \in Channels, HandlerBegin(c)
  PROVE  IndInv' /\ SentKept
<1> DEFINE t == type[c]
           k == [ch[c] EXCEPT !.queue = Tail(@)]
           s == SetBusy(TRUE)
           f == [kind |-> "handler", chan |-> c, id |-> Head(ch[c].queue).id, busy |-> FALSE]
<1>1. /\ over = "no" /\ ch[c].queue # <<>> /\ Update(c, k) /\ stack' = Append(s, f)
      /\ UNCHANGED <<type, polling, parser, over>>
  BY DEF HandlerBegin, Alone
<1>2. /\ t \in ChannelTypes /\ ch[c] \in Fields(c) /\ Sound(t, ch[c])
      /\ Matches(stack, c, ch[c]) /\ stack \in Seq(StackFrame)
  BY InvOf
<1>3. Becomes(c, t, ch[c], k, 1)
  BY <1>1, <1>2, UnqueuedBecomes
<1>4. f \in StackFrame /\ f.chan = c /\ f.kind # "call"
  <2>1. ch[c].queue \in Seq(Message)
    BY <1>2 DEF Fields
  <2>2. Head(ch[c].queue).id \in Nat
    <3>1. Head(ch[c].queue) \in Message
      <4> HIDE DEF Message
      <4>1. QED
        BY <1>1, <2>1
    <3>2. QED
      BY <3>1 DEF Message
  <2>3. QED
    BY <2>2 DEF StackFrame
<1> HIDE DEF k, f
<1>5. s \in Seq(StackFrame)
  BY <1>2, SetBusyFacts
<1>6. \A d \in Channels : HeldBy(s, d) = HeldBy(stack, d)
                            /\ \A j : Matches(s, d, j) <=> Matches(stack, d, j)
  BY <1>2, MatchesBusy
<1> HIDE DEF s
<1>7. /\ k \in Fields(c) /\ Sound(t, k) /\ Slack(t, k) = Slack(t, ch[c]) + 1 /\ SameIds(ch[c], k)
      /\ ch[c].frames # <<>> => k.sent = ch[c].sent
  BY <1>3 DEF Becomes
<1>8. stack' \in Seq(StackFrame) /\ Grown(s, f, stack')
  BY <1>1, <1>4, <1>5, AppendGrows
<1>9. Matches(stack, c, k)
  BY <1>2, <1>7, MatchesSame
<1>10. Matches(stack', c, k)
  BY <1>4, <1>5, <1>6, <1>8, <1>9, MatchesOther
<1>11. QED
  BY <1>1, <1>4, <1>5, <1>6, <1>7, <1>8, <1>10, PushInv

LEMMA HandlerEndInv ==
  ASSUME IndInv, NEW c \in Channels, HandlerEnd(c)
  PROVE  IndInv' /\ SentKept
<1> DEFINE t == type[c]
           k == Responded(t, ch[c], Top.id)
<1>1. over = "no" /\ Top.kind # "call" /\ Top.chan = c
  BY DEF HandlerEnd, InCode, Alone
<1>2. CASE Abort("write")
  BY <1>1, <1>2, AbortInv
<1>3. CASE ~Abort("write")
  <2>1. Update(c, k) /\ stack' = Front(stack) /\ UNCHANGED <<type, polling, parser, over>>
    BY <1>3 DEF HandlerEnd
  <2>2. /\ t \in ChannelTypes /\ ch[c] \in Fields(c) /\ Sound(t, ch[c])
        /\ Matches(stack, c, ch[c]) /\ stack \in Seq(StackFrame)
        /\ Slack(t, ch[c]) = Cardinality(HeldBy(stack, c)) + Count(parser = c)
    BY <1>1, InvOf
  <2>3. stack' \in Seq(StackFrame) /\ Grown(stack', Top, stack)
    BY <1>1, <2>1, <2>2, TopFacts
  <2>4. Slack(t, ch[c]) >= 1
    <3>1. /\ Cardinality(HeldBy(stack, c)) = Cardinality(HeldBy(stack', c)) + 1
          /\ Cardinality(HeldBy(stack', c)) \in Nat
      BY <1>1, <2>2, <2>3, GrownCount, HeldFacts
    <3>2. QED
      BY <2>2, <3>1 DEF Count
  <2>5. Becomes(c, t, ch[c], k, -1)
    BY <2>2, <2>4, RespondedBecomes
  <2> HIDE DEF k
  <2>6. /\ k \in Fields(c) /\ Sound(t, k) /\ Slack(t, k) = Slack(t, ch[c]) + (-1) /\ SameIds(ch[c], k)
        /\ ch[c].frames # <<>> => k.sent = ch[c].sent
    BY <2>5 DEF Becomes
  <2>7. Matches(stack', c, ch[c])
    BY <1>1, <2>2, <2>3, MatchesOther
  <2>8. Matches(stack', c, k)
    BY <2>3, <2>6, <2>7, MatchesSame
  <2>9. Slack(t, k) = Slack(t, ch[c]) - 1
    BY <2>2, <2>6, SlackFacts
  <2>10. QED
    BY <1>1, <2>1, <2>6, <2>8, <2>9, PopInv
<1>4. QED
  BY <1>2, <1>3

LEMMA NotifyInv ==
  ASSUME IndInv, NEW c \in Channels, Notify(c)
  PROVE  IndInv' /\ SentKept
<1>1. over = "no" /\ ch[c].notes < MaxNotes[c]
  BY DEF Notify, InCode, Alone
<1>2. CASE Abort("write")
  BY <1>1, <1>2, AbortInv
<1>3. CASE ~Abort("write")
  <2> DEFINE k == Noted(type[c], ch[c])
  <2>1. Update(c, k) /\ UNCHANGED <<type, stack, polling, parser, over>>
    BY <1>3 DEF Notify
  <2>2. /\ type[c] \in ChannelTypes /\ ch[c] \in Fields(c) /\ Sound(type[c], ch[c])
        /\ Slack(type[c], ch[c]) >= 0
    BY <1>1, InvOf
  <2>3. /\ Effect(c, type[c], ch[c], k, 0) /\ Sound(type[c], k)
        /\ ch[c].frames # <<>> => k.sent = ch[c].sent
    BY <1>1, <2>2, NotedFacts
  <2> HIDE DEF k
  <2>4. Becomes(c, type[c], ch[c], k, 0)
    BY <2>3, EffectBecomes
  <2>5. QED
    BY <1>1, <2>1, <2>4, BecomesInv
<1>4. QED
  BY <1>2, <1>3

LEMMA BroadcastInv ==
  ASSUME IndInv, Broadcast
  PROVE  IndInv' /\ SentKept
<1>1. over = "no" /\ \A c \in Subscribers : ch[c].notes < MaxNotes[c]
  BY DEF Broadcast, InCode, Alone
<1>2. CASE Abort("write")
  BY <1>1, <1>2, AbortInv
<1>3. CASE ~Abort("write")
  <2>1. /\ ch' = [c \in Channels |-> IF c \in Subscribers THEN Noted(type[c], ch[c]) ELSE ch[c]]
        /\ UNCHANGED <<type, stack, polling, parser, over>>
    BY <1>3 DEF Broadcast
  <2>2. ASSUME NEW c \in Channels
        PROVE  /\ ChannelInv(c, type[c], ch'[c], stack, parser, over)
               /\ ch[c].frames # <<>> => ch'[c].sent = ch[c].sent
    <3>1. /\ type[c] \in ChannelTypes /\ ch[c] \in Fields(c) /\ Sound(type[c], ch[c])
          /\ Slack(type[c], ch[c]) >= 0 /\ Matches(stack, c, ch[c]) /\ stack \in Seq(StackFrame)
          /\ ChannelInv(c, type[c], ch[c], stack, parser, over)
      BY <1>1, InvOf DEF IndInv
    <3>2. CASE c \in Subscribers
      <4> DEFINE k == ch'[c]
      <4>1. k = Noted(type[c], ch[c]) /\ ch[c].notes < MaxNotes[c]
        BY <1>1, <2>1, <3>2
      <4> HIDE DEF k
      <4>2. /\ Effect(c, type[c], ch[c], k, 0) /\ Sound(type[c], k)
            /\ ch[c].frames # <<>> => k.sent = ch[c].sent
        BY <3>1, <4>1, NotedFacts
      <4>3. k \in Fields(c) /\ SameIds(ch[c], k) /\ Slack(type[c], k) = Slack(type[c], ch[c]) + 0
        BY <4>2 DEF Effect
      <4>4. Matches(stack, c, k)
        BY <3>1, <4>3, MatchesSame
      <4>5. Slack(type[c], k) = Slack(type[c], ch[c])
        BY <3>1, <4>3, SlackFacts
      <4>6. ChannelInv(c, type[c], k, stack, parser, over)
        BY <3>1, <4>2, <4>3, <4>4, <4>5 DEF ChannelInv
      <4>7. QED
        BY <4>2, <4>6 DEF k
    <3>3. CASE c \notin Subscribers
      <4>1. ch'[c] = ch[c]
        BY <2>1, <3>3
      <4>2. QED
        BY <3>1, <4>1
    <3>4. QED
      BY <3>2, <3>3
  <2>3. ch' = [c \in Channels |-> ch'[c]]
    BY <2>1
  <2>4. /\ type' = type /\ stack' = stack /\ polling' = polling /\ parser' = parser /\ over' = over
    BY <2>1
  <2>5. IndInv'
    BY <2>2, <2>3, <2>4 DEF IndInv
  <2>6. SentKept
    BY <2>2 DEF SentKept
  <2>7. QED
    BY <2>5, <2>6
<1>4. QED
  BY <1>2, <1>3

LEMMA CloseInv ==
  ASSUME IndInv, NEW c \in Channels, Close(c)
  PROVE  IndInv' /\ SentKept
<1> DEFINE k == Closed(type[c], ch[c])
<1>1. /\ over = "no" /\ ~ch[c].closed /\ Update(c, k)
      /\ UNCHANGED <<type, stack, polling, parser, over>>
  BY DEF Close, InCode, Alone
<1>2. /\ type[c] \in ChannelTypes /\ ch[c] \in Fields(c) /\ Sound(type[c], ch[c])
      /\ Slack(type[c], ch[c]) >= 0
  BY <1>1, InvOf
<1>3. Becomes(c, type[c], ch[c], k, 0)
  BY <1>1, <1>2, ClosedBecomes
<1> HIDE DEF k
<1>4. QED
  BY <1>1, <1>3, BecomesInv

LEMMA HandleSubscriptionInv ==
  ASSUME IndInv, NEW c \in Channels, HandleSubscription(c)
  PROVE  IndInv' /\ SentKept
<1> DEFINE t == type[c]
           b == Head(ch[c].queue).kind = "subscribe"
           m == [ch[c] EXCEPT !.queue = Tail(@), !.subscribed = b]
           k == Responded(t, m, Head(ch[c].queue).id)
<1>1. over = "no" /\ ch[c].queue # <<>>
  BY DEF HandleSubscription, Alone
<1>2. CASE Abort("write") \/ Abort("subscribe")
  BY <1>1, <1>2, AbortInv
<1>3. CASE ~(Abort("write") \/ Abort("subscribe"))
  <2>1. Update(c, k) /\ stack' = SetBusy(TRUE) /\ UNCHANGED <<type, polling, parser, over>>
    BY <1>3 DEF HandleSubscription
  <2>2. /\ t \in ChannelTypes /\ ch[c] \in Fields(c) /\ Sound(t, ch[c]) /\ Slack(t, ch[c]) >= 0
        /\ Matches(stack, c, ch[c]) /\ stack \in Seq(StackFrame)
        /\ Slack(t, ch[c]) = Cardinality(HeldBy(stack, c)) + Count(parser = c)
    BY <1>1, InvOf
  <2>3. b \in BOOLEAN
    OBVIOUS
  <2> HIDE DEF b
  <2>4. Becomes(c, t, ch[c], m, 1)
    BY <1>1, <2>2, <2>3, UnqueuedBecomes
  <2> HIDE DEF m
  <2>5. m \in Fields(c) /\ Sound(t, m) /\ Slack(t, m) >= 1
    BY <2>2, <2>4, SlackFacts DEF Becomes
  <2>6. Becomes(c, t, m, k, -1)
    BY <2>2, <2>5, RespondedBecomes
  <2> HIDE DEF k
  <2>7. Becomes(c, t, ch[c], k, 1 + (-1))
    BY <2>2, <2>4, <2>6, BecomesTwice
  <2>8. /\ k \in Fields(c) /\ Sound(t, k) /\ SameIds(ch[c], k)
        /\ Slack(t, k) = Slack(t, ch[c]) + (1 + (-1))
        /\ ch[c].frames # <<>> => k.sent = ch[c].sent
    BY <2>7 DEF Becomes
  <2>9. Slack(t, k) = Slack(t, ch[c])
    BY <2>2, <2>8, SlackFacts
  <2>10. /\ stack' \in Seq(StackFrame)
         /\ \A d \in Channels : HeldBy(stack', d) = HeldBy(stack, d)
                                  /\ \A j : Matches(stack', d, j) <=> Matches(stack, d, j)
    BY <2>1, <2>2, SetBusyFacts, MatchesBusy
  <2>11. Matches(stack', c, k)
    BY <2>2, <2>8, <2>10, MatchesSame
  <2>12. ChannelInv(c, t, k, stack', parser', over')
    BY <2>1, <2>2, <2>8, <2>9, <2>10, <2>11 DEF ChannelInv
  <2>13. \A d \in Channels : d # c =>
           /\ Cardinality(HeldBy(stack', d)) = Cardinality(HeldBy(stack, d))
           /\ Matches(stack, d, ch[d]) => Matches(stack', d, ch[d])
           /\ parser' = d <=> parser = d
    BY <2>1, <2>10
  <2>14. /\ type' = type /\ polling' \in BOOLEAN /\ over' \in {"no", "exit", "write", "subscribe"}
         /\ over' # "exit" /\ over # "exit" /\ parser' \in Channels \union {NoChannel}
    BY <1>1, <2>1 DEF IndInv
  <2>15. QED
    BY <2>1, <2>8, <2>10, <2>12, <2>13, <2>14, OneChannel
<1>4. QED
  BY <1>2, <1>3

LEMMA ChunkTypes ==
  ASSUME NEW c \in Channels, ch[c] \in Fields(c), NEW chunk \in Chunks(c)
  PROVE  chunk \in Seq(Message)
<1>1. Kinds[c] \subseteq AllKinds
  BY ChannelAssumption
<1>2. MaxCalls[c] \in Nat /\ ch[c].nextId \in 1 .. MaxCalls[c] + 1
  BY BoundTypes DEF Fields
<1>3. \A i \in 0 .. ch[c].nextId - 1 : i \in Nat
  OBVIOUS
<1>4. Messages(c) \subseteq Message
  BY <1>1, <1>3 DEF Messages, Message, NoResponse
<1> HIDE DEF Message
<1>5. PICK n \in 0 .. 2 : chunk \in [1 .. n -> Messages(c)]
  BY DEF Chunks, BoundedSeq, SeqOf
<1>6. n \in Nat /\ chunk \in [1 .. n -> Message]
  BY <1>4, <1>5
<1>7. QED
  BY <1>6

LEMMA ParseBeginInv ==
  ASSUME IndInv, NEW c \in Channels, ParseBegin(c)
  PROVE  IndInv' /\ SentKept
<1>1. /\ over = "no" /\ parser = NoChannel /\ parser' = c
      /\ UNCHANGED <<type, stack, polling, over>>
  BY DEF ParseBegin, InPoll
<1>2. PICK chunk \in Chunks(c) :
        Update(c, [Incref(ch[c]) EXCEPT !.unpacker = @ \o chunk, !.received = @ + Len(chunk)])
  BY DEF ParseBegin
<1> DEFINE k == [Incref(ch[c]) EXCEPT !.unpacker = @ \o chunk, !.received = @ + Len(chunk)]
<1>3. type[c] \in ChannelTypes /\ ch[c] \in Fields(c) /\ Sound(type[c], ch[c])
  BY InvOf
<1>4. chunk \in Seq(Message)
  BY <1>3, ChunkTypes
<1>5. Becomes(c, type[c], ch[c], k, 1) /\ Update(c, k)
  BY <1>2, <1>3, <1>4, ReceivedBecomes
<1> HIDE DEF k
<1>6. QED
  BY <1>1, <1>5, BecomesInv

LEMMA ParseEofInv ==
  ASSUME IndInv, NEW c \in Channels, ParseEof(c)
  PROVE  IndInv' /\ SentKept
<1> DEFINE k == Decref(Errored(type[c], Incref([ch[c] EXCEPT !.reader = "eof"])))
<1>1. /\ over = "no" /\ ch[c].reader = "open" /\ Update(c, k)
      /\ UNCHANGED <<type, stack, polling, parser, over>>
  BY DEF ParseEof, InPoll
<1>2. /\ type[c] \in ChannelTypes /\ ch[c] \in Fields(c) /\ Sound(type[c], ch[c])
      /\ Slack(type[c], ch[c]) >= 0
  BY <1>1, InvOf
<1>3. Becomes(c, type[c], ch[c], k, 0)
  BY <1>1, <1>2, EofBecomes
<1> HIDE DEF k
<1>4. QED
  BY <1>1, <1>3, BecomesInv

LEMMA ParseResponseInv ==
  ASSUME IndInv, NEW c \in Channels, ParseResponse(c)
  PROVE  IndInv' /\ SentKept
<1> DEFINE t == type[c]
           m == Head(ch[c].unpacker)
           k == [ch[c] EXCEPT !.unpacker = Tail(@)]
           l == IF IsValidRpcResponse(m, k) THEN Completed(m, k) ELSE Errored(t, k)
           j == Decref(l)
<1>1. /\ parser = c /\ parser' = NoChannel /\ ch[c].unpacker # <<>> /\ Update(c, j)
      /\ UNCHANGED <<type, stack, polling, over>>
  BY DEF ParseResponse
<1>2. /\ t \in ChannelTypes /\ ch[c] \in Fields(c) /\ Sound(t, ch[c])
      /\ over # "exit" /\ Slack(t, ch[c]) >= 1
  BY <1>1, InvOf, ParserAlive
<1>3. Becomes(c, t, ch[c], k, 0) /\ m \in Message
  BY <1>1, <1>2, UnpackedBecomes
<1> HIDE DEF k, m
<1>4. k \in Fields(c) /\ Sound(t, k) /\ Slack(t, k) >= 1 /\ Slack(t, k) >= 0
  BY <1>2, <1>3, SlackFacts DEF Becomes
<1>5. Becomes(c, t, k, l, 0)
  <2>1. CASE IsValidRpcResponse(m, k)
    <3>1. l = Completed(m, k)
      BY <2>1
    <3> HIDE DEF l
    <3>2. Effect(c, t, k, l, 0) /\ Sound(t, l) /\ l.sent = k.sent
      BY <1>2, <1>3, <1>4, <2>1, <3>1, CompletedFacts
    <3>3. QED
      BY <3>2, EffectBecomes
  <2>2. CASE ~IsValidRpcResponse(m, k)
    <3>1. l = Errored(t, k)
      BY <2>2
    <3> HIDE DEF l
    <3>2. QED
      BY <1>2, <1>4, <3>1, ErroredBecomes
  <2>3. QED
    BY <2>1, <2>2
<1> HIDE DEF l
<1>6. l \in Fields(c) /\ Sound(t, l) /\ Slack(t, l) >= 1
  BY <1>2, <1>4, <1>5, SlackFacts DEF Becomes
<1>7. Becomes(c, t, l, j, -1)
  BY <1>2, <1>6, DecrefBecomes
<1> HIDE DEF j
<1>8. Becomes(c, t, ch[c], l, 0 + 0)
  BY <1>2, <1>3, <1>5, BecomesTwice
<1>9. Becomes(c, t, ch[c], j, (0 + 0) + (-1))
  BY <1>2, <1>7, <1>8, BecomesTwice
<1>10. Becomes(c, t, ch[c], j, -1)
  BY <1>9
<1>11. QED
  BY <1>1, <1>2, <1>10, BecomesInv

LEMMA HandleRequestInv ==
  ASSUME IndInv, NEW c \in Channels, HandleRequest(c)
  PROVE  IndInv' /\ SentKept
<1> DEFINE t == type[c]
           m == Head(ch[c].unpacker)
           k == [ch[c] EXCEPT !.unpacker = Tail(@)]
           j == ch'[c]
<1>1. parser = c /\ ch[c].unpacker # <<>>
  BY DEF HandleRequest
<1>2. /\ t \in ChannelTypes /\ ch[c] \in Fields(c) /\ Sound(t, ch[c])
      /\ over # "exit" /\ Slack(t, ch[c]) >= 1
  BY <1>1, InvOf, ParserAlive
<1>3. CASE Abort("write")
  BY <1>2, <1>3, AbortInv
<1>4. CASE ~Abort("write")
  <2> DEFINE l == CASE m.kind = "async" -> Responded(t, Incref(k), m.id)
                    [] m.kind = "invalid" ->
                         IF k.closed THEN k ELSE Errored(t, Written(t, k, <<>>))
                    [] OTHER -> Requested(t, k, m)
  <2>1. Update(c, l) /\ UNCHANGED <<type, stack, polling, parser, over>>
    BY <1>4 DEF HandleRequest
  <2>2. Becomes(c, t, ch[c], k, 0) /\ m \in Message
    BY <1>1, <1>2, UnpackedBecomes
  <2> HIDE DEF k, m
  <2>3. l \in {Responded(t, Incref(k), m.id), k, Errored(t, Written(t, k, <<>>)), Requested(t, k, m)}
    <3>1. CASE m.kind = "async"
      BY <3>1
    <3>2. CASE m.kind = "invalid"
      BY <3>2
    <3>3. CASE m.kind \notin {"async", "invalid"}
      BY <3>3
    <3>4. QED
      BY <3>1, <3>2, <3>3
  <2> HIDE DEF l
  <2>4. k \in Fields(c) /\ Sound(t, k) /\ Slack(t, k) >= 0
    BY <1>2, <2>2, SlackFacts DEF Becomes
  <2>5. Becomes(c, t, k, l, 0)
    BY <1>2, <2>2, <2>3, <2>4, RequestBecomes
  <2>6. Becomes(c, t, ch[c], l, 0 + 0)
    BY <1>2, <2>2, <2>5, BecomesTwice
  <2>7. Becomes(c, t, ch[c], l, 0)
    BY <2>6
  <2>8. QED
    BY <1>2, <2>1, <2>7, BecomesInv
<1>5. QED
  BY <1>3, <1>4

LEMMA ParseEndInv ==
  ASSUME IndInv, NEW c \in Channels, ParseEnd(c)
  PROVE  IndInv' /\ SentKept
<1> DEFINE k == Decref(ch[c])
<1>1. /\ parser = c /\ parser' = NoChannel /\ Update(c, k)
      /\ UNCHANGED <<type, stack, polling, over>>
  BY DEF ParseEnd
<1>2. /\ type[c] \in ChannelTypes /\ ch[c] \in Fields(c) /\ Sound(type[c], ch[c])
      /\ over # "exit" /\ Slack(type[c], ch[c]) >= 1
  BY <1>1, InvOf, ParserAlive
<1>3. Becomes(c, type[c], ch[c], k, -1)
  BY <1>2, DecrefBecomes
<1> HIDE DEF k
<1>4. QED
  BY <1>1, <1>2, <1>3, BecomesInv

LEMMA WriteCbInv ==
  ASSUME IndInv, NEW c \in Channels, WriteCb(c)
  PROVE  IndInv' /\ SentKept
<1> DEFINE k == [ch[c] EXCEPT !.writes = @ - 1]
<1>1. /\ over = "no" /\ ch[c].writes > 0 /\ Update(c, k)
      /\ UNCHANGED <<type, stack, polling, parser, over>>
  BY DEF WriteCb, InPoll
<1>2. type[c] \in ChannelTypes /\ ch[c] \in Fields(c) /\ Sound(type[c], ch[c])
  BY InvOf
<1>3. Becomes(c, type[c], ch[c], k, 0)
  BY <1>1, <1>2, WriteDoneBecomes
<1> HIDE DEF k
<1>4. QED
  BY <1>1, <1>3, BecomesInv

LEMMA ProcessExitsInv ==
  ASSUME IndInv, NEW c \in Channels, ProcessExits(c)
  PROVE  IndInv' /\ SentKept
<1> DEFINE k == [ch[c] EXCEPT !.reader = "closed", !.writer = "closing"]
<1>1. /\ over = "no" /\ type[c] = "proc" /\ ch[c].reader # "closed" /\ Update(c, k)
      /\ UNCHANGED <<type, stack, polling, parser, over>>
  BY DEF ProcessExits, InPoll
<1>2. ch[c] \in Fields(c) /\ Sound("proc", ch[c])
  BY <1>1, InvOf
<1>3. Becomes(c, "proc", ch[c], k, 0)
  BY <1>1, <1>2, ExitedBecomes
<1> HIDE DEF k
<1>4. Becomes(c, type[c], ch[c], k, 0)
  BY <1>1, <1>3
<1>5. QED
  BY <1>1, <1>4, BecomesInv

LEMMA StreamsClosedInv ==
  ASSUME IndInv, NEW c \in Channels, StreamsClosed(c)
  PROVE  IndInv' /\ SentKept
<1> DEFINE t == type[c]
           m == [ch[c] EXCEPT !.writer = "closed"]
           k == IF t = "stdio" THEN m ELSE Decref(m)
<1>1. /\ over = "no" /\ ch[c].writer = "closing" /\ (t = "proc" => ch[c].reader = "closed")
      /\ Update(c, k) /\ UNCHANGED <<type, stack, polling, parser, over>>
  BY DEF StreamsClosed, InPoll
<1>2. t \in ChannelTypes /\ ch[c] \in Fields(c) /\ Sound(t, ch[c]) /\ Slack(t, ch[c]) >= 0
  BY <1>1, InvOf
<1>3. Becomes(c, t, ch[c], k, 0)
  BY <1>1, <1>2, StreamsClosedBecomes
<1> HIDE DEF k
<1>4. QED
  BY <1>1, <1>3, BecomesInv

LEMMA ExitEventInv ==
  ASSUME IndInv, NEW c \in Channels, ExitEvent(c)
  PROVE  IndInv' /\ SentKept
<1> DEFINE t == type[c]
           m == [ch[c] EXCEPT !.exitEvent = FALSE]
           k == Decref(m)
<1>1. /\ over = "no" /\ parser = NoChannel /\ ch[c].exitEvent /\ Update(c, k) /\ over' = "exit"
      /\ UNCHANGED <<type, stack, polling, parser>>
  BY DEF ExitEvent, InPoll
<1>2. /\ t \in ChannelTypes /\ ch[c] \in Fields(c) /\ Sound(t, ch[c])
      /\ Matches(stack, c, ch[c]) /\ stack \in Seq(StackFrame) /\ Slack(t, ch[c]) >= 0
  BY <1>1, InvOf
<1>3. t = "stdio"
  BY <1>1, <1>2 DEF Sound, Consistent, Linked
<1>4. m \in Fields(c)
  BY <1>2 DEF Fields
<1>5. /\ m.frames = ch[c].frames /\ m.refs = ch[c].refs /\ m.closed = ch[c].closed
      /\ m.writer = ch[c].writer /\ m.reader = ch[c].reader /\ ~m.exitEvent
      /\ m.queue = ch[c].queue /\ SameNotes(ch[c], m)
  BY <1>2 DEF Fields, SameNotes
<1> HIDE DEF m
<1>6. Linked(t, m) /\ Answered(m) /\ Told(m)
  BY <1>2, <1>5 DEF Sound, Consistent, Linked, Answered, Told, AllReturned
<1>7. InTurn(m) /\ HeldBack(m)
  BY <1>2, <1>5 DEF Sound, Consistent, InTurn, HeldBack, SameNotes
<1>8. Sound(t, m)
  BY <1>6, <1>7 DEF Sound, Consistent
<1>9. Slack(t, m) = Slack(t, ch[c])
  BY <1>5 DEF Slack, OfMaker, OfStreams
<1>10. OfMaker(t, m) = 1
  BY <1>3 DEF OfMaker, Count
<1>11. m.refs > 0
  BY <1>2, <1>4, <1>9, <1>10, SlackFacts
<1>12. /\ Effect(c, t, m, k, -1) /\ k.frames = m.frames /\ SameNotes(m, k) /\ SameLinks(m, k)
  BY <1>2, <1>4, <1>11, DecrefFacts
<1> HIDE DEF k
<1>13. Sound(t, k)
  BY <1>8, <1>12, SoundSame DEF Sound, Consistent
<1>14. k \in Fields(c) /\ SameIds(ch[c], k) /\ k.sent = ch[c].sent
  BY <1>5, <1>12 DEF Effect, SameIds, SameNotes
<1>15. Matches(stack, c, k)
  BY <1>2, <1>14, MatchesSame
<1>16. stack' = stack /\ parser' = parser /\ type' = type /\ polling' = polling
  BY <1>1
<1>17. ChannelInv(c, t, k, stack', parser', over')
  BY <1>1, <1>13, <1>14, <1>15, <1>16 DEF ChannelInv
<1>18. \A d \in Channels : d # c =>
         /\ Cardinality(HeldBy(stack', d)) = Cardinality(HeldBy(stack, d))
         /\ Matches(stack, d, ch[d]) => Matches(stack', d, ch[d])
         /\ parser' = d <=> parser = d
  BY <1>16
<1>19. /\ polling' \in BOOLEAN /\ parser' \in Channels \union {NoChannel} /\ stack' \in Seq(StackFrame)
  BY <1>1, <1>2, <1>16 DEF IndInv
<1>20. QED
  BY <1>1, <1>14, <1>16, <1>17, <1>18, <1>19, OneChannel

LEMMA PollBeginInv ==
  ASSUME IndInv, PollBegin
  PROVE  IndInv' /\ SentKept
<1>1. UNCHANGED <<type, ch, parser, over>> /\ polling' \in BOOLEAN /\ stack' = SetBusy(FALSE)
  BY DEF PollBegin
<1>2. QED
  BY <1>1, BusyInv

LEMMA PollEndInv ==
  ASSUME IndInv, PollEnd
  PROVE  IndInv' /\ SentKept
<1>1. UNCHANGED <<type, ch, parser, over>> /\ polling' \in BOOLEAN /\ stack' = stack
  BY DEF PollEnd
<1>2. QED
  BY <1>1, BusyInv

-----------------------------------------------------------------------------
(***************************************************************************)
(* The theorems                                                            *)
(***************************************************************************)
LEMMA NewChannelFacts ==
  ASSUME NEW c \in Channels, NEW t \in ChannelTypes
  PROVE  /\ NewChannel \in Fields(c) /\ Sound(t, NewChannel) /\ NewChannel.frames = <<>>
         /\ Slack(t, NewChannel) = 0
<1>1. MaxCalls[c] \in Nat /\ MaxNotes[c] \in Nat /\ MaxMem \in Nat
  BY BoundTypes
<1>2. NewChannel \in Fields(c)
  <2>1. /\ <<>> \in Seq(Frame) /\ <<>> \in Seq(Message) /\ <<>> \in Seq(1 .. MaxNotes[c])
        /\ 1 \in 1 .. MaxCalls[c] + 1 /\ 0 \in 0 .. MaxNotes[c] /\ 0 \in 0 .. MaxMem + 1
        /\ 2 \in Nat /\ 0 \in Nat
    BY <1>1
  <2>2. QED
    BY <2>1 DEF NewChannel, Fields
<1>3. /\ NewChannel.refs = 2 /\ NewChannel.closed = FALSE /\ NewChannel.queue = <<>>
      /\ NewChannel.writer = "open" /\ NewChannel.reader = "open" /\ NewChannel.exitEvent = FALSE
      /\ NewChannel.frames = <<>> /\ NewChannel.delayed = <<>> /\ NewChannel.sent = <<>>
      /\ NewChannel.notes = 0
  BY DEF NewChannel
<1>4. Slack(t, NewChannel) = 0
  <2>1. OfMaker(t, NewChannel) = 1 /\ OfStreams(t, NewChannel) = 1 /\ Len(NewChannel.queue) = 0
    BY <1>3 DEF OfMaker, OfStreams, Count
  <2> DEFINE r == NewChannel.refs
             m == OfMaker(t, NewChannel)
             s == OfStreams(t, NewChannel)
             q == Len(NewChannel.queue)
  <2>2. r = 2 /\ m = 1 /\ s = 1 /\ q = 0
    BY <1>3, <2>1
  <2> HIDE DEF r, m, s, q
  <2>3. r - (m + s + q) = 0
    BY <2>2
  <2>4. QED
    BY <2>3 DEF r, m, s, q, Slack
<1>5. Len(NewChannel.frames) = 0 /\ Len(NewChannel.sent) = 0 /\ Len(NewChannel.delayed) = 0
  BY <1>3
<1>6. Answered(NewChannel) /\ Told(NewChannel) /\ HeldBack(NewChannel)
  BY <1>3, <1>5 DEF Answered, Told, HeldBack
<1>7. InTurn(NewChannel)
  BY <1>3, <1>5 DEF InTurn
<1>8. Linked(t, NewChannel)
  BY <1>3 DEF Linked
<1>9. QED
  BY <1>2, <1>3, <1>4, <1>6, <1>7, <1>8 DEF Sound, Consistent

LEMMA InitInv ==
  ASSUME Init
  PROVE  IndInv
<1>1. /\ type \in Types /\ ch = [c \in Channels |-> NewChannel] /\ stack = <<>>
      /\ polling = FALSE /\ parser = NoChannel /\ over = "no"
  BY DEF Init
<1>2. stack \in Seq(StackFrame) /\ DOMAIN stack = {}
  BY <1>1
<1>3. ASSUME NEW c \in Channels
      PROVE  ChannelInv(c, type[c], ch[c], stack, parser, over)
  <2>1. /\ ch[c] \in Fields(c) /\ Sound(type[c], ch[c]) /\ ch[c].frames = <<>>
        /\ Slack(type[c], ch[c]) = 0
    BY <1>1, NewChannelFacts, TypeOfChannel
  <2>2. HeldBy(stack, c) = {} /\ CallsOf(stack, c) = {}
    BY <1>2 DEF HeldBy, CallsOf
  <2>3. Cardinality({}) = 0 /\ Count(parser = c) = 0
    BY <1>1, FS_EmptySet, ChannelAssumption DEF Count
  <2>4. Matches(stack, c, ch[c])
    <3>1. Len(ch[c].frames) = 0
      BY <2>1
    <3>2. QED
      BY <2>2, <2>3, <3>1 DEF Matches
  <2>5. QED
    BY <2>1, <2>2, <2>3, <2>4 DEF ChannelInv
<1>4. QED
  BY <1>1, <1>2, <1>3 DEF IndInv

LEMMA StutterInv ==
  ASSUME IndInv, UNCHANGED vars
  PROVE  IndInv' /\ SentKept
<1>1. UNCHANGED <<type, ch, stack, polling, parser, over>>
  BY DEF vars
<1>2. IndInv'
  BY <1>1 DEF IndInv
<1>3. SentKept
  BY <1>1 DEF SentKept
<1>4. QED
  BY <1>2, <1>3

LEMMA NextInv ==
  ASSUME IndInv, [Next]_vars
  PROVE  IndInv' /\ SentKept
<1>1. CASE UNCHANGED vars
  BY <1>1, StutterInv
<1>2. CASE Next
  <2>1. ASSUME NEW c \in Channels, CallBegin(c) PROVE IndInv' /\ SentKept
    BY <2>1, CallBeginInv
  <2>2. ASSUME NEW c \in Channels, CallReturn(c) PROVE IndInv' /\ SentKept
    BY <2>2, CallReturnInv
  <2>3. ASSUME NEW c \in Channels, Notify(c) PROVE IndInv' /\ SentKept
    BY <2>3, NotifyInv
  <2>4. ASSUME NEW c \in Channels, Close(c) PROVE IndInv' /\ SentKept
    BY <2>4, CloseInv
  <2>5. ASSUME NEW c \in Channels, HandlerBegin(c) PROVE IndInv' /\ SentKept
    BY <2>5, HandlerBeginInv
  <2>6. ASSUME NEW c \in Channels, HandlerEnd(c) PROVE IndInv' /\ SentKept
    BY <2>6, HandlerEndInv
  <2>7. ASSUME NEW c \in Channels, HandleSubscription(c) PROVE IndInv' /\ SentKept
    BY <2>7, HandleSubscriptionInv
  <2>8. ASSUME NEW c \in Channels, ParseBegin(c) PROVE IndInv' /\ SentKept
    BY <2>8, ParseBeginInv
  <2>9. ASSUME NEW c \in Channels, ParseEof(c) PROVE IndInv' /\ SentKept
    BY <2>9, ParseEofInv
  <2>10. ASSUME NEW c \in Channels, ParseResponse(c) PROVE IndInv' /\ SentKept
    BY <2>10, ParseResponseInv
  <2>11. ASSUME NEW c \in Channels, HandleRequest(c) PROVE IndInv' /\ SentKept
    BY <2>11, HandleRequestInv
  <2>12. ASSUME NEW c \in Channels, ParseEnd(c) PROVE IndInv' /\ SentKept
    BY <2>12, ParseEndInv
  <2>13. ASSUME NEW c \in Channels, WriteCb(c) PROVE IndInv' /\ SentKept
    BY <2>13, WriteCbInv
  <2>14. ASSUME NEW c \in Channels, ProcessExits(c) PROVE IndInv' /\ SentKept
    BY <2>14, ProcessExitsInv
  <2>15. ASSUME NEW c \in Channels, StreamsClosed(c) PROVE IndInv' /\ SentKept
    BY <2>15, StreamsClosedInv
  <2>16. ASSUME NEW c \in Channels, ExitEvent(c) PROVE IndInv' /\ SentKept
    BY <2>16, ExitEventInv
  <2>17. CASE Broadcast
    BY <2>17, BroadcastInv
  <2>18. CASE PollBegin
    BY <2>18, PollBeginInv
  <2>19. CASE PollEnd
    BY <2>19, PollEndInv
  <2>20. QED
    BY <1>2, <2>1, <2>2, <2>3, <2>4, <2>5, <2>6, <2>7, <2>8, <2>9, <2>10, <2>11, <2>12, <2>13,
       <2>14, <2>15, <2>16, <2>17, <2>18, <2>19 DEF Next
<1>3. QED
  BY <1>1, <1>2

\* The inductive invariant holds: what is said of each channel's fields, of
\* the references it is held by and of the calls on the C stack.
THEOREM Inductive == Spec => []IndInv
<1>1. Init => IndInv
  BY InitInv
<1>2. IndInv /\ [Next]_vars => IndInv'
  BY NextInv
<1>3. QED
  BY <1>1, <1>2, PTL DEF Spec

\* The variables have their types; the calls, the writes under way and the
\* notifications of a channel stay within their bounds.
THEOREM TypeCorrect == Spec => []TypeOK
<1>1. ASSUME IndInv PROVE TypeOK
  <2>1. /\ type \in Types /\ polling \in BOOLEAN /\ parser \in Channels \union {NoChannel}
        /\ over \in {"no", "exit", "write", "subscribe"}
    BY <1>1 DEF IndInv
  <2>2. ASSUME NEW c \in Channels, NEW k, k = ch[c]
        PROVE  /\ k.refs \in Nat /\ k.frames \in Seq(Frame) /\ k.nextId \in 1 .. MaxCalls[c] + 1
               /\ {k.closed, k.subscribed, k.exitEvent} \subseteq BOOLEAN
               /\ {k.queue, k.unpacker} \subseteq Seq(Message)
               /\ {k.delayed, k.sent} \subseteq Seq(1 .. MaxNotes[c])
               /\ k.writes \in 0 .. MaxMem + 1
               /\ k.writer \in {"open", "closing", "closed"}
               /\ k.reader \in {"open", "eof", "closed"}
    <3>1. k \in Fields(c)
      BY <1>1, <2>2, InvOf
    <3>2. /\ k.refs \in Nat /\ k.frames \in Seq(Frame) /\ k.nextId \in 1 .. MaxCalls[c] + 1
          /\ k.closed \in BOOLEAN /\ k.subscribed \in BOOLEAN /\ k.exitEvent \in BOOLEAN
          /\ k.queue \in Seq(Message) /\ k.unpacker \in Seq(Message)
          /\ k.delayed \in Seq(1 .. MaxNotes[c]) /\ k.sent \in Seq(1 .. MaxNotes[c])
          /\ k.writes \in 0 .. MaxMem + 1
          /\ k.writer \in {"open", "closing", "closed"}
          /\ k.reader \in {"open", "eof", "closed"}
      BY <3>1 DEF Fields
    <3>3. QED
      BY <3>2, Zenon
  <2>3. QED
    BY <2>1, <2>2, Zenon DEF TypeOK
<1>2. QED
  BY <1>1, Inductive, PTL

\* The references to a channel are exactly those that its maker, its streams,
\* the events queued, the frames of the C stack and the parser hold.
THEOREM RefsExact == Spec => []RefsAreExact
<1>1. ASSUME IndInv, over # "exit", NEW c \in Channels
      PROVE  ch[c].refs = Count(~ch[c].closed \/ type[c] = "stdio")
                          + Count(type[c] = "stdio" \/ ch[c].writer # "closed")
                          + Len(ch[c].queue)
                          + Cardinality(HeldBy(stack, c))
                          + Count(parser = c)
  <2> DEFINE r == ch[c].refs
             m == OfMaker(type[c], ch[c])
             s == OfStreams(type[c], ch[c])
             q == Len(ch[c].queue)
             h == Cardinality(HeldBy(stack, c))
             p == Count(parser = c)
  <2>1. /\ type[c] \in ChannelTypes /\ ch[c] \in Fields(c)
        /\ Slack(type[c], ch[c]) = h + p /\ h \in Nat
    BY <1>1, InvOf
  <2>2. r \in Nat /\ q \in Nat /\ m \in 0 .. 1 /\ s \in 0 .. 1
    BY <2>1, SlackFacts
  <2>3. r - (m + s + q) = h + p /\ p \in Nat
    BY <2>1 DEF Slack, Count
  <2> HIDE DEF r, m, s, q, h, p
  <2>4. r = m + s + q + h + p
    BY <2>1, <2>2, <2>3
  <2>5. QED
    BY <2>4 DEF r, m, s, q, h, p, OfMaker, OfStreams
<1>2. ASSUME IndInv, TypeOK PROVE RefsAreExact
  BY <1>1, <1>2 DEF RefsAreExact
<1>3. QED
  BY <1>2, Inductive, TypeCorrect, PTL

\* The call stack of a channel mirrors its calls on the C stack, and they have
\* all returned when the peer is gone.
THEOREM FramesMatch == Spec => []FramesAreOnTheStack
<1>1. ASSUME IndInv, NEW c \in Channels
      PROVE  /\ Len(ch[c].frames) = Cardinality(CallsOf(stack, c))
             /\ \A i \in CallsOf(stack, c) : stack[i].id = ch[c].frames[Depth(stack, c, i)].id
             /\ ch[c].reader = "eof" => \A i \in DOMAIN ch[c].frames : ch[c].frames[i].returned
  <2>1. Matches(stack, c, ch[c]) /\ Told(ch[c]) /\ ch[c] \in Fields(c)
    BY <1>1, InvOf DEF Sound
  <2>2. DOMAIN ch[c].frames = 1 .. Len(ch[c].frames)
    BY <2>1 DEF Fields
  <2>3. ch[c].reader = "eof" => \A i \in DOMAIN ch[c].frames : ch[c].frames[i].returned
    BY <2>1, <2>2 DEF Told, AllReturned
  <2>4. QED
    BY <2>1, <2>3 DEF Matches
<1>2. ASSUME IndInv PROVE FramesAreOnTheStack
  BY <1>1, <1>2 DEF FramesAreOnTheStack
<1>3. QED
  BY <1>2, Inductive, PTL

\* A call that succeeds returns the answer to its own request.
THEOREM AnswersOwn == Spec => []AnswersOwnRequest
<1>1. ASSUME IndInv PROVE AnswersOwnRequest
  <2>1. \A c \in Channels : Answered(ch[c])
    BY <1>1, InvOf DEF Sound, Consistent
  <2>2. QED
    BY <2>1 DEF Answered, AnswersOwnRequest
<1>2. QED
  BY <1>1, Inductive, PTL

\* What NotesInOrder says of every state.
NotesOfState ==
  \A c \in Channels :
    /\ ~ch[c].closed => ch[c].sent \o ch[c].delayed = [i \in 1 .. ch[c].notes |-> i]
    /\ \A i, j \in DOMAIN ch[c].sent : i < j => ch[c].sent[i] < ch[c].sent[j]
    /\ ch[c].delayed # <<>> => ch[c].frames # <<>>

LEMMA NotesFollow ==
  ASSUME IndInv
  PROVE  NotesOfState
<1> SUFFICES ASSUME NEW c \in Channels, NEW k, k = ch[c]
             PROVE  /\ ~k.closed => k.sent \o k.delayed = [i \in 1 .. k.notes |-> i]
                    /\ \A i, j \in DOMAIN k.sent : i < j => k.sent[i] < k.sent[j]
                    /\ k.delayed # <<>> => k.frames # <<>>
  BY Zenon DEF NotesOfState
<1> DEFINE S == 1 .. MaxNotes[c]
           a == k.sent
           b == k.delayed
           n == k.notes
<1>1. k \in Fields(c) /\ InTurn(k) /\ HeldBack(k)
  BY InvOf DEF Sound, Consistent
<1>2. a \in Seq(S) /\ b \in Seq(S) /\ n \in 0 .. MaxNotes[c] /\ MaxNotes[c] \in Nat
  BY <1>1, BoundTypes DEF Fields
<1>3. /\ \A i \in 1 .. Len(a) : a[i] = i
      /\ ~k.closed => /\ n = Len(a) + Len(b)
                      /\ \A i \in 1 .. Len(b) : b[i] = Len(a) + i
  BY <1>1 DEF InTurn
<1> HIDE DEF S, a, b, n
<1>4. /\ a \o b \in Seq(S) /\ Len(a) \in Nat /\ Len(b) \in Nat /\ DOMAIN a = 1 .. Len(a)
      /\ DOMAIN (a \o b) = 1 .. Len(a) + Len(b)
      /\ \A i \in 1 .. Len(a) : (a \o b)[i] = a[i]
      /\ \A i \in 1 .. Len(b) : (a \o b)[Len(a) + i] = b[i]
  BY <1>2, ConcatFacts
<1>5. ASSUME ~k.closed PROVE a \o b = [i \in 1 .. n |-> i]
  <2> DEFINE w == a \o b
             l == Len(a)
             m == Len(b)
  <2>1. /\ l \in Nat /\ m \in Nat /\ n = l + m /\ DOMAIN w = 1 .. l + m
        /\ \A i \in 1 .. l : w[i] = i
        /\ \A i \in 1 .. m : w[l + i] = l + i
    BY <1>3, <1>4, <1>5
  <2>2. w \in Seq(S)
    BY <1>4
  <2> HIDE DEF w, l, m
  <2>3. ASSUME NEW i \in 1 .. n PROVE w[i] = i
    <3>1. i \in 1 .. l \/ (i - l \in 1 .. m /\ l + (i - l) = i)
      BY <2>1
    <3>2. QED
      BY <2>1, <3>1
  <2>4. DOMAIN w = 1 .. n
    BY <2>1
  <2>5. w = [i \in 1 .. n |-> i]
    <3>1. w = [i \in DOMAIN w |-> w[i]]
      BY <2>2
    <3>2. QED
      BY <2>3, <2>4, <3>1
  <2>6. QED
    BY <2>5 DEF w
<1>6. \A i, j \in DOMAIN a : i < j => a[i] < a[j]
  BY <1>3, <1>4
<1>7. b # <<>> => k.frames # <<>>
  BY <1>1 DEF HeldBack, b
<1>8. QED
  BY <1>5, <1>6, <1>7 DEF a, b, n

\* Notifications reach the peer in the order they were asked for, and none is
\* written while the peer owes an answer.
THEOREM Notes == Spec => NotesInOrder
<1>1. IndInv => NotesOfState
  BY NotesFollow
<1>2. IndInv /\ [Next]_vars =>
        [\A c \in Channels :
           ch[c].frames # <<>> /\ ch'[c].frames # <<>> => ch'[c].sent = ch[c].sent]_vars
  BY NextInv DEF SentKept
<1>3. QED
  BY <1>1, <1>2, Inductive, PTL DEF Spec, NotesInOrder, NotesOfState
==============================================================================

--------------------------- MODULE RStreamProofs ---------------------------
(***************************************************************************)
(* Theorems about RStream and the RBuffer it extends, for any capacity,    *)
(* bytes and setups.                                                       *)
(*                                                                         *)
(* The argument: the ring holds the bytes from fpos - size on (Bytes), so  *)
(* what a consumer takes from its front is what comes next.  A job goes by *)
(* the counts of its events instead: each stands for a stretch of bytes,   *)
(* one behind the other (the cuts), that the ring holds in one piece,      *)
(* wherever the wrap is by the time the event is handled (Order).  A       *)
(* stream that reads is not full (Ends), so that a file that reads nothing *)
(* is at its end.  The handle is closed with the last pending request      *)
(* (Handles).                                                              *)
(***************************************************************************)
EXTENDS RStream, SequenceTheorems, SequenceLemmas, TLAPS

Event == [count : 0 .. Capacity, eof : BOOLEAN]

PeerTypes == setup \in Setups /\ sent \in 0 .. MaxBytes /\ fpos \in 0 .. sent

Flags == hungUp \in BOOLEAN /\ reading \in BOOLEAN /\ closed \in BOOLEAN

QueueTypes ==
  /\ events \in Seq(Event)
  /\ frames \in Seq(0 .. Capacity)
  /\ pendingReqs = Len(events) + Len(frames)

EndTypes ==
  /\ handle \in {"open", "closing", "closed"} /\ closes \in Nat
  /\ shown \in Seq(Byte \union {NoByte}) /\ eofs \in Nat

Types == PeerTypes /\ Flags /\ QueueTypes /\ EndTypes

\* The bytes that left the ring, and those that are in it.
Base == fpos - size
Bytes == Base \in Nat /\ \A i \in 1 .. size : Content[i] = Base + i

\* The handle is open as long as anything is pending.
Handles ==
  /\ ~closed => handle = "open"
  /\ closes = IF handle = "open" THEN 0 ELSE 1
  /\ closed => (handle = "open" <=> pendingReqs # 0)

\* The end is announced once, when nothing is left to read or to restart.
EofAt(q) == {i \in DOMAIN q : q[i].eof}
Announced == eofs > 0 \/ EofAt(events) # {}

Ends ==
  /\ reading => ~stopped
  /\ Announced => ~reading /\ ~stopped /\ hungUp /\ fpos = sent
  /\ eofs <= 1 /\ (eofs > 0 => EofAt(events) = {})
  /\ \A i, j \in EofAt(events) : i = j

\* What the handler under way is about to take.
Taking == IF frames = <<>> THEN 0 ELSE frames[1]

\* cut[i] bytes come before those of the i-th event.  Until the wrap, and
\* behind it, the ring has a stretch of bytes in one piece.
Unwrapped(b) == rp + (b - Base)
InOnePiece(b, count) == Unwrapped(b) + count <= Capacity \/ Unwrapped(b) >= Capacity

CutsOf(cut, q) ==
  /\ cut \in [1 .. Len(q) + 1 -> Nat]
  /\ \A i \in 1 .. Len(q) : cut[i + 1] = cut[i] + q[i].count
  /\ \A i, j \in 1 .. Len(q) + 1 : i <= j => cut[i] <= cut[j]

Cuts(cut) ==
  /\ CutsOf(cut, events)
  /\ cut[1] = Base + Taking
  /\ cut[Len(events) + 1] <= fpos
  /\ ~closed => cut[Len(events) + 1] = fpos
  /\ \A i \in 1 .. Len(events) : InOnePiece(cut[i], events[i].count)

\* How much was shown.
ShownLen ==
  CASE Consumer = "job" -> Base + Taking
    [] Consumer \in {"read", "shell"} -> Base
    [] Consumer = "none" -> 0

Order ==
  /\ Consumer # "job" => \A i \in 1 .. Len(frames) : frames[i] = 0
  /\ ~Nested =>
       /\ Len(frames) <= 1
       /\ Len(shown) = ShownLen
       /\ \A i \in 1 .. Len(shown) : shown[i] = i
       /\ Consumer = "job" => \E cut : Cuts(cut)

IndInv == Types /\ RBufferInv /\ Bytes /\ Handles /\ Ends /\ Order

-----------------------------------------------------------------------------
(***************************************************************************)
(* The ring buffer: the theorems of RBuffer, for any capacity and any      *)
(* bytes, and the lemmas that the stream takes from it.                    *)
(*                                                                         *)
(* The argument: the n bytes from the write pointer on, and the size bytes *)
(* from the read pointer on, are disjoint arcs of the ring because the     *)
(* pointers are size apart (PointersAgree) and n does not exceed the       *)
(* space; so a production changes no byte of the content, and the content  *)
(* is extended at its end.                                                 *)
(***************************************************************************)

\* The arithmetic of the ring.
LEMMA RingArithmetic ==
  ASSUME RBufferInv
  PROVE  /\ Capacity \in Nat \ {0} /\ rp \in Nat /\ wp \in Nat /\ size \in Nat
         /\ rp < Capacity /\ wp < Capacity /\ size <= Capacity
         /\ wp = Wrapped(rp + size)
         /\ WriteCount \in Nat /\ WriteCount <= Space /\ wp + WriteCount <= Capacity
         /\ ReadCount \in Nat /\ ReadCount <= size /\ rp + ReadCount <= Capacity
         /\ (size > 0 => ReadCount > 0) /\ (size < Capacity => WriteCount > 0)
         /\ (WriteCount < Space => wp + WriteCount = Capacity)
         /\ (ReadCount < size => rp + ReadCount = Capacity)
<1>1. /\ Capacity \in Nat \ {0} /\ rp \in Nat /\ wp \in Nat /\ size \in Nat
      /\ rp < Capacity /\ wp < Capacity /\ size <= Capacity
  BY RBufferAssumption DEF RBufferInv, RBufferTypeOK, Offsets
<1>2. wp = IF rp + size >= Capacity THEN rp + size - Capacity ELSE rp + size
  BY <1>1 DEF RBufferInv, PointersAgree, Wrapped
<1>3. /\ WriteCount \in Nat /\ WriteCount <= Space /\ wp + WriteCount <= Capacity
      /\ (size < Capacity => WriteCount > 0)
      /\ (WriteCount < Space => wp + WriteCount = Capacity)
  BY <1>1, <1>2 DEF WriteCount, Space
<1>4. /\ ReadCount \in Nat /\ ReadCount <= size /\ rp + ReadCount <= Capacity
      /\ (size > 0 => ReadCount > 0)
      /\ (ReadCount < size => rp + ReadCount = Capacity)
  BY <1>1, <1>2 DEF ReadCount
<1>5. QED
  BY <1>1, <1>2, <1>3, <1>4 DEF Wrapped

\* The pointers and the counts.
LEMMA RingNumbers ==
  ASSUME RBufferInv
  PROVE  /\ Capacity \in Nat \ {0} /\ rp \in Nat /\ wp \in Nat /\ size \in Nat
         /\ rp < Capacity /\ wp < Capacity /\ size <= Capacity
         /\ wp = IF rp + size >= Capacity THEN rp + size - Capacity ELSE rp + size
         /\ WriteCount \in Nat /\ wp + WriteCount <= Capacity
         /\ WriteCount <= Capacity - size
         /\ ReadCount \in Nat /\ ReadCount <= size /\ rp + ReadCount <= Capacity
         /\ (size < Capacity => WriteCount > 0)
         /\ stopped = (size = Capacity) /\ stopped \in BOOLEAN
         /\ mem \in [0 .. Capacity - 1 -> Byte \union {NoByte}]
<1>1. stopped = (size = Capacity) /\ stopped \in BOOLEAN
      /\ mem \in [0 .. Capacity - 1 -> Byte \union {NoByte}]
  BY DEF RBufferInv, StoppedIffFull, RBufferTypeOK, Offsets
<1>2. QED
  BY <1>1, RingArithmetic DEF Wrapped, Space

\* What is copied is found at the end of the content, and nowhere else.
LEMMA RingCopied ==
  ASSUME RBufferInv,
         NEW n \in 1 .. Space, NEW bytes, \A k \in 1 .. n : bytes[k] \in Byte,
         NEW head \in 0 .. n,
         head <= WriteCount, head < n => wp + head = Capacity,
         mem' = Copied(bytes, head, n),
         wp' = Wrapped(wp + n), rp' = rp, size' = size + n,
         stopped' = (stopped \/ size' = Capacity),
         out' = out
  PROVE  RBufferInv' /\ Content' = Content \o [k \in 1 .. n |-> bytes[k]]
<1>1. /\ Capacity \in Nat \ {0} /\ rp \in Nat /\ wp \in Nat /\ size \in Nat
      /\ rp < Capacity /\ wp < Capacity /\ size <= Capacity
      /\ wp = IF rp + size >= Capacity THEN rp + size - Capacity ELSE rp + size
      /\ WriteCount \in Nat /\ wp + WriteCount <= Capacity
      /\ n \in Nat /\ n >= 1 /\ n <= Capacity - size /\ head \in Nat /\ head <= n
      /\ wp + head <= Capacity
  BY RingArithmetic DEF Wrapped, Space
<1> DEFINE At(i) == mem'[Wrapped(rp + i)]
           t == [k \in 1 .. n |-> bytes[k]]
<1>2. ASSUME NEW i \in 0 .. size - 1 PROVE At(i) = Get(i)
  <2> DEFINE o == Wrapped(rp + i)
  <2>1. o \in Offsets /\ o \notin wp .. wp + head - 1 /\ ~(o < n - head)
    BY <1>1 DEF Wrapped, Offsets
  <2> HIDE DEF o
  <2>2. mem'[o] = mem[o]
    BY <2>1 DEF Copied
  <2>3. QED
    BY <2>2 DEF Get, o
<1>3. ASSUME NEW k \in 1 .. n PROVE At(size + k - 1) = bytes[k]
  <2> DEFINE o == Wrapped(rp + (size + k - 1))
  <2>1. /\ o \in Offsets
        /\ o = IF wp + k - 1 >= Capacity THEN wp + k - 1 - Capacity ELSE wp + k - 1
    BY <1>1 DEF Wrapped, Offsets
  <2> HIDE DEF o
  <2>2. CASE k <= head
    <3>1. o = wp + k - 1 /\ o \in wp .. wp + head - 1 /\ o - wp + 1 = k
      BY <1>1, <2>1, <2>2
    <3>2. mem'[o] = bytes[k]
      BY <2>1, <3>1 DEF Copied
    <3>3. QED
      BY <3>2 DEF o
  <2>3. CASE k > head
    <3>1. o = k - head - 1 /\ o \notin wp .. wp + head - 1 /\ o < n - head /\ head + o + 1 = k
      BY <1>1, <2>1, <2>3
    <3>2. mem'[o] = bytes[k]
      BY <2>1, <3>1 DEF Copied
    <3>3. QED
      BY <3>2 DEF o
  <2>4. QED
    BY <1>1, <2>2, <2>3
<1> HIDE DEF At
<1>4. ASSUME NEW i \in 0 .. size + n - 1
      PROVE  At(i) = IF i < size THEN Get(i) ELSE bytes[i - size + 1]
  <2>1. CASE i < size
    BY <1>1, <1>2, <2>1
  <2>2. CASE i >= size
    <3> DEFINE k == i - size + 1
    <3>1. k \in 1 .. n /\ size + k - 1 = i
      BY <1>1, <2>2
    <3> HIDE DEF k
    <3>2. At(size + k - 1) = bytes[k]
      BY <1>3, <3>1
    <3>3. At(i) = bytes[k] /\ ~(i < size)
      BY <1>1, <2>2, <3>1, <3>2
    <3>4. QED
      BY <3>3 DEF k
  <2>3. QED
    BY <1>1, <2>1, <2>2
<1>5. Content' = Content \o t
  <2>1. t \in Seq(Byte) /\ Len(t) = n /\ \A k \in 1 .. n : t[k] = bytes[k]
    BY <1>1
  <2>2. ASSUME NEW i \in 1 .. size PROVE Get(i - 1) \in Byte
    BY <1>1, i - 1 \in 0 .. size - 1 DEF RBufferInv, ContentWritten
  <2>3. /\ Content \in Seq(Byte) /\ Len(Content) = size
        /\ \A i \in 1 .. size : Content[i] = Get(i - 1)
    BY <1>1, <2>2 DEF Content
  <2> HIDE DEF t
  <2> DEFINE c == [i \in 1 .. size + n |-> At(i - 1)]
  <2>4. ASSUME NEW i \in 1 .. size + n
        PROVE  c[i] = IF i <= size THEN Content[i] ELSE t[i - size]
    <3>1. i - 1 \in 0 .. size + n - 1 /\ (i - 1) - size + 1 = i - size
      BY <1>1
    <3>2. At(i - 1) = IF i - 1 < size THEN Get(i - 1) ELSE bytes[i - size]
      BY <1>4, <3>1
    <3>3. CASE i <= size
      BY <1>1, <2>3, <3>2, <3>3
    <3>4. CASE i > size
      <4>1. i - size \in 1 .. n
        BY <1>1, <3>4
      <4>2. QED
        BY <1>1, <2>1, <3>2, <3>4, <4>1
    <3>5. QED
      BY <1>1, <3>3, <3>4
  <2>5. c = Content \o t
    <3>1. /\ Content \o t \in Seq(Byte) /\ Len(Content \o t) = size + n
          /\ \A i \in 1 .. size + n :
               (Content \o t)[i] = IF i <= size THEN Content[i] ELSE t[i - size]
      BY <2>1, <2>3, ConcatProperties
    <3>2. ASSUME NEW i \in 1 .. size + n PROVE c[i] \in Byte
      <4>1. CASE i <= size
        <5>1. i \in 1 .. size
          BY <1>1, <4>1
        <5>2. Content[i] \in Byte
          BY <2>2, <2>3, <5>1
        <5>3. c[i] = Content[i]
          BY <2>4, <4>1
        <5>4. QED
          BY <5>2, <5>3
      <4>2. CASE i > size
        <5>1. i - size \in 1 .. n
          BY <1>1, <4>2
        <5>2. t[i - size] \in Byte
          BY <2>1, <5>1, ElementOfSeq
        <5>3. c[i] = t[i - size]
          BY <1>1, <2>4, <4>2
        <5>4. QED
          BY <5>2, <5>3
      <4>3. QED
        BY <1>1, <4>1, <4>2
    <3>3. c \in Seq(Byte) /\ Len(c) = size + n
      BY <1>1, <3>2
    <3> HIDE DEF c
    <3>4. QED
      BY <2>4, <3>1, <3>3, SeqEqual
  <2>6. Content' = c
    BY DEF Content, Get, At
  <2>7. QED
    BY <2>5, <2>6
<1>6. RBufferTypeOK'
  <2>1. ASSUME NEW o \in Offsets PROVE mem'[o] \in Byte \union {NoByte}
    <3>1. CASE o \in wp .. wp + head - 1
      <4>1. o - wp + 1 \in 1 .. n
        BY <1>1, <3>1 DEF Offsets
      <4>2. QED
        BY <3>1, <4>1 DEF Copied
    <3>2. CASE o \notin wp .. wp + head - 1 /\ o < n - head
      <4>1. head + o + 1 \in 1 .. n
        BY <1>1, <3>2 DEF Offsets
      <4>2. QED
        BY <3>2, <4>1 DEF Copied
    <3>3. CASE o \notin wp .. wp + head - 1 /\ ~(o < n - head)
      BY <3>3 DEF Copied, RBufferInv, RBufferTypeOK
    <3>4. QED
      BY <3>1, <3>2, <3>3
  <2>2. mem' \in [Offsets -> Byte \union {NoByte}]
    BY <2>1 DEF Copied
  <2>3. wp' \in Offsets /\ size' \in 0 .. Capacity
    BY <1>1 DEF Wrapped, Offsets
  <2>4. QED
    BY <2>2, <2>3 DEF RBufferInv, RBufferTypeOK
<1>7. PointersAgree'
  BY <1>1 DEF PointersAgree, Wrapped
<1>8. ContentWritten'
  <2>1. ASSUME NEW i \in 0 .. size' - 1 PROVE At(i) \in Byte
    <3>1. i \in 0 .. size + n - 1
      BY <1>1
    <3>2. At(i) = IF i < size THEN Get(i) ELSE bytes[i - size + 1]
      BY <1>4, <3>1
    <3>3. i < size => Get(i) \in Byte
      BY <1>1, <3>1 DEF RBufferInv, ContentWritten
    <3>4. i >= size => i - size + 1 \in 1 .. n
      BY <1>1, <3>1
    <3>5. QED
      BY <1>1, <3>1, <3>2, <3>3, <3>4
  <2>2. QED
    BY <2>1 DEF ContentWritten, Get, At
<1>9. StoppedIffFull'
  <2>1. size # Capacity
    BY <1>1
  <2>2. QED
    BY <2>1, Zenon DEF StoppedIffFull, RBufferInv
<1>10. QED
  BY <1>5, <1>6, <1>7, <1>8, <1>9 DEF RBufferInv

\* The content is a sequence of size bytes.
LEMMA RingContent ==
  ASSUME RBufferInv
  PROVE  /\ Content \in Seq(Byte) /\ Len(Content) = size
         /\ \A i \in 1 .. size : Content[i] = Get(i - 1)
<1>1. size \in Nat
  BY RingArithmetic
<1>2. ASSUME NEW i \in 1 .. size PROVE Get(i - 1) \in Byte
  BY <1>1, i - 1 \in 0 .. size - 1 DEF RBufferInv, ContentWritten
<1>3. QED
  BY <1>1, <1>2 DEF Content

\* The three ways to get at the first n bytes, all of one result.
LEMMA RingFront ==
  ASSUME RBufferInv, NEW n \in 1 .. size
  PROVE  /\ n <= ReadCount => ReadContiguous(n) = SubSeq(Content, 1, n)
         /\ [i \in 1 .. n |-> Get(i - 1)] = SubSeq(Content, 1, n)
         /\ n > ReadCount =>
              [i \in 1 .. n |-> IF i <= ReadCount THEN mem[rp + i - 1]
                                ELSE mem[i - ReadCount - 1]] = SubSeq(Content, 1, n)
<1>1. /\ rp \in Nat /\ size \in Nat /\ n \in Nat /\ rp < Capacity /\ size <= Capacity
      /\ Capacity \in Nat /\ ReadCount \in Nat /\ rp + ReadCount <= Capacity
      /\ (ReadCount < size => rp + ReadCount = Capacity)
  BY RingArithmetic
<1>2. SubSeq(Content, 1, n) = [i \in 1 .. n |-> Get(i - 1)]
  <2>1. SubSeq(Content, 1, n) = [i \in 1 .. n |-> Content[i]]
    <3>1. /\ Content \in Seq(Byte) /\ Len(Content) = size
      BY RingContent
    <3>2. SubSeq(Content, 1, n) = [i \in 1 .. n |-> Content[1 + i - 1]]
      BY <1>1, <3>1
    <3>3. ASSUME NEW i \in 1 .. n PROVE Content[1 + i - 1] = Content[i]
      BY <1>1, 1 + i - 1 = i
    <3>4. QED
      BY <3>2, <3>3
  <2>2. QED
    BY <1>1, <2>1, RingContent
<1>3. ASSUME NEW i \in 1 .. n, i <= ReadCount PROVE Get(i - 1) = mem[rp + i - 1]
  <2>1. Wrapped(rp + (i - 1)) = rp + i - 1
    BY <1>1, <1>3 DEF Wrapped
  <2>2. QED
    BY <2>1 DEF Get
<1>4. ASSUME NEW i \in 1 .. n, i > ReadCount PROVE Get(i - 1) = mem[i - ReadCount - 1]
  <2>1. Wrapped(rp + (i - 1)) = i - ReadCount - 1
    BY <1>1, <1>4 DEF Wrapped
  <2>2. QED
    BY <2>1 DEF Get
<1>5. QED
  BY <1>1, <1>2, <1>3, <1>4 DEF ReadContiguous

\* Consuming removes the bytes from the front and changes no other.
LEMMA RingShrinks ==
  ASSUME RBufferInv, NEW n, NEW bytes, Consume(n, bytes),
         bytes = SubSeq(Content, 1, n)
  PROVE  RBufferInv' /\ Content' = SubSeq(Content, n + 1, size)
<1>1. /\ Capacity \in Nat \ {0} /\ rp \in Nat /\ wp \in Nat /\ size \in Nat
      /\ rp < Capacity /\ wp < Capacity /\ size <= Capacity /\ n \in 1 .. size
      /\ wp = IF rp + size >= Capacity THEN rp + size - Capacity ELSE rp + size
      /\ rp' = IF rp + n >= Capacity THEN rp + n - Capacity ELSE rp + n
      /\ size' = size - n /\ mem' = mem /\ wp' = wp /\ out' = bytes
      /\ stopped' = (stopped /\ size # Capacity)
  BY RingArithmetic, SMTT(30) DEF Wrapped, Consume
<1> DEFINE At(i) == mem'[Wrapped(rp' + i)]
<1>2. ASSUME NEW i \in 0 .. size' - 1 PROVE At(i) = Get(n + i) /\ n + i \in 0 .. size - 1
  <2>1. Wrapped(rp' + i) = Wrapped(rp + (n + i)) /\ n + i \in 0 .. size - 1
    BY <1>1 DEF Wrapped
  <2>2. QED
    BY <1>1, <2>1 DEF Get
<1>3. Content' = SubSeq(Content, n + 1, size)
  <2>1. /\ Content \in Seq(Byte) /\ Len(Content) = size
        /\ \A i \in 1 .. size : Content[i] = Get(i - 1)
    BY RingContent
  <2>2. \A i \in n + 1 .. size : Content[i] \in Byte
    BY <1>1, <2>1, ElementOfSeq
  <2>3. /\ SubSeq(Content, n + 1, size) \in Seq(Byte)
        /\ Len(SubSeq(Content, n + 1, size)) = size - n
        /\ \A i \in 1 .. size - n : SubSeq(Content, n + 1, size)[i] = Content[n + 1 + i - 1]
    <3>1. n + 1 \in Int /\ size \in Int
      BY <1>1
    <3>2. /\ SubSeq(Content, n + 1, size) \in Seq(Byte)
          /\ Len(SubSeq(Content, n + 1, size)) = IF n + 1 <= size THEN size - (n + 1) + 1 ELSE 0
          /\ \A i \in 1 .. size - (n + 1) + 1 :
               SubSeq(Content, n + 1, size)[i] = Content[n + 1 + i - 1]
      BY <2>2, <3>1, SubSeqProperties
    <3>3. /\ size - (n + 1) + 1 = size - n
          /\ (IF n + 1 <= size THEN size - (n + 1) + 1 ELSE 0) = size - n
      BY <1>1
    <3>4. Len(SubSeq(Content, n + 1, size)) = size - n
      BY <3>2, <3>3
    <3>5. \A i \in 1 .. size - n : SubSeq(Content, n + 1, size)[i] = Content[n + 1 + i - 1]
      BY <3>2, <3>3
    <3>6. QED
      BY <3>2, <3>4, <3>5
  <2> DEFINE c == [i \in 1 .. size - n |-> At(i - 1)]
  <2>4. ASSUME NEW i \in 1 .. size - n PROVE c[i] = Content[n + 1 + i - 1] /\ c[i] \in Byte
    <3>1. i - 1 \in 0 .. size' - 1 /\ n + 1 + i - 1 \in 1 .. size
          /\ n + (i - 1) = (n + 1 + i - 1) - 1
      BY <1>1
    <3>2. At(i - 1) = Get((n + 1 + i - 1) - 1)
      BY <1>2, <3>1
    <3>3. c[i] = Content[n + 1 + i - 1]
      BY <2>1, <3>1, <3>2
    <3>4. QED
      BY <2>1, <3>1, <3>3, ElementOfSeq
  <2>5. c \in Seq(Byte) /\ Len(c) = size - n
    <3>1. \A i \in 1 .. size - n : At(i - 1) \in Byte
      BY <2>4
    <3>2. size - n \in Nat
      BY <1>1
    <3> HIDE DEF At
    <3>3. QED
      BY <3>1, <3>2
  <2>6. Content' = c
    BY <1>1 DEF Content, Get
  <2> HIDE DEF c
  <2>7. QED
    BY <2>3, <2>4, <2>5, <2>6, SeqEqual
<1>4. RBufferTypeOK'
  <2>1. bytes \in Seq(Byte)
    <3>1. /\ Content \in Seq(Byte) /\ Len(Content) = size
      BY RingContent
    <3>2. \A i \in 1 .. n : Content[i] \in Byte
      BY <1>1, <3>1, ElementOfSeq
    <3>3. QED
      BY <1>1, <3>2, SubSeqProperties
  <2>2. rp' \in Offsets /\ size' \in 0 .. Capacity
    BY <1>1 DEF Offsets
  <2>3. QED
    BY <1>1, <2>1, <2>2 DEF RBufferInv, RBufferTypeOK
<1>5. PointersAgree'
  BY <1>1 DEF PointersAgree, Wrapped
<1>6. ContentWritten'
  <2>1. ASSUME NEW i \in 0 .. size' - 1 PROVE At(i) \in Byte
    BY <1>2 DEF RBufferInv, ContentWritten
  <2>2. QED
    BY <2>1 DEF ContentWritten, Get
<1>7. StoppedIffFull'
  <2>1. size' # Capacity
    BY <1>1
  <2>2. stopped = (size = Capacity) /\ stopped' = (stopped /\ size # Capacity)
    BY <1>1 DEF RBufferInv, StoppedIffFull
  <2>3. QED
    BY <2>1, <2>2, Zenon DEF StoppedIffFull
<1>8. QED
  BY <1>3, <1>4, <1>5, <1>6, <1>7 DEF RBufferInv

\* Linearizing keeps the content.
LEMMA RingReset ==
  ASSUME RBufferInv, Reset
  PROVE  RBufferInv' /\ Content' = Content
<1>1. /\ Capacity \in Nat \ {0} /\ size \in Nat /\ size <= Capacity
  BY RingArithmetic
<1>2. /\ mem' = [o \in Offsets |-> IF o < size THEN Content[o + 1] ELSE mem[o]]
      /\ rp' = 0 /\ wp' = Wrapped(size) /\ size' = size /\ out' = out
      /\ stopped' = (size = Capacity)
  BY DEF Reset
<1>3. /\ Content \in Seq(Byte) /\ Len(Content) = size
  BY RingContent
<1> DEFINE At(i) == mem'[Wrapped(0 + i)]
<1>4. ASSUME NEW i \in 0 .. size - 1 PROVE At(i) = Content[i + 1] /\ At(i) \in Byte
  <2>1. Wrapped(0 + i) = i /\ i \in Offsets /\ i < size /\ i + 1 \in 1 .. size
    BY <1>1 DEF Wrapped, Offsets
  <2>2. At(i) = Content[i + 1]
    BY <1>2, <2>1
  <2>3. QED
    BY <1>3, <2>1, <2>2, ElementOfSeq
<1>5. Content' = Content
  <2> DEFINE c == [i \in 1 .. size |-> At(i - 1)]
  <2>1. ASSUME NEW i \in 1 .. size PROVE c[i] = Content[i] /\ c[i] \in Byte
    <3>1. i - 1 \in 0 .. size - 1 /\ (i - 1) + 1 = i
      BY <1>1
    <3>2. At(i - 1) = Content[i] /\ At(i - 1) \in Byte
      BY <1>4, <3>1
    <3>3. QED
      BY <3>2
  <2>2. c \in Seq(Byte) /\ Len(c) = size
    <3>1. \A i \in 1 .. size : At(i - 1) \in Byte
      BY <2>1
    <3>2. size \in Nat
      BY <1>1
    <3> HIDE DEF At
    <3>3. QED
      BY <3>1, <3>2
  <2>3. Content' = c
    BY <1>2 DEF Content, Get
  <2> HIDE DEF c
  <2>4. QED
    BY <1>3, <2>1, <2>2, <2>3, SeqEqual
<1>6. RBufferTypeOK'
  <2>1. ASSUME NEW o \in Offsets PROVE mem'[o] \in Byte \union {NoByte}
    <3>1. CASE o < size
      <4>1. o + 1 \in 1 .. Len(Content)
        BY <1>1, <1>3, <3>1 DEF Offsets
      <4>2. Content[o + 1] \in Byte
        BY <1>3, <4>1, ElementOfSeq
      <4>3. QED
        BY <1>2, <3>1, <4>2
    <3>2. CASE ~(o < size)
      BY <1>2, <3>2 DEF RBufferInv, RBufferTypeOK
    <3>3. QED
      BY <3>1, <3>2
  <2>2. mem' \in [Offsets -> Byte \union {NoByte}]
    BY <1>2, <2>1
  <2>3. rp' \in Offsets /\ wp' \in Offsets
    BY <1>1, <1>2 DEF Offsets, Wrapped
  <2>4. QED
    BY <1>2, <2>2, <2>3 DEF RBufferInv, RBufferTypeOK
<1>7. PointersAgree'
  BY <1>1, <1>2 DEF PointersAgree, Wrapped
<1>8. ContentWritten'
  BY <1>2, <1>4 DEF ContentWritten, Get
<1>9. StoppedIffFull'
  BY <1>2, Zenon DEF StoppedIffFull
<1>10. QED
  BY <1>5, <1>6, <1>7, <1>8, <1>9 DEF RBufferInv

-----------------------------------------------------------------------------
LEMMA RingStarts ==
  ASSUME RBufferInit
  PROVE  RBufferInv /\ Content = <<>>
<1>1. Capacity \in Nat \ {0}
  BY RBufferAssumption
<1>2. mem \in [Offsets -> Byte \union {NoByte}] /\ rp = 0 /\ wp = 0 /\ size = 0 /\ out = <<>>
  BY DEF RBufferInit
<1>3. stopped = FALSE
  BY DEF RBufferInit
<1>4. RBufferTypeOK
  <2>1. out \in Seq(Byte)
    BY <1>2
  <2>2. stopped \in BOOLEAN
    BY <1>3
  <2>3. QED
    BY <1>1, <1>2, <2>1, <2>2 DEF RBufferTypeOK, Offsets
<1>5. PointersAgree /\ ContentWritten
  BY <1>1, <1>2 DEF PointersAgree, ContentWritten, Wrapped
<1>6. StoppedIffFull
  BY <1>1, <1>2, <1>3 DEF StoppedIffFull
<1>7. RBufferInv
  BY <1>4, <1>5, <1>6 DEF RBufferInv
<1>8. Content = <<>>
  <2>1. Content \in Seq(Byte) /\ Len(Content) = 0
    BY <1>2, <1>7, RingContent
  <2>2. QED
    BY <2>1, EmptySeq
<1>9. QED
  BY <1>7, <1>8

\* rbuffer_produced: the chunk never reaches the wrap.
LEMMA RingGrows ==
  ASSUME RBufferInv, NEW bytes \in Seq(Byte), Produced(bytes)
  PROVE  RBufferInv' /\ Content' = Content \o bytes /\ Len(bytes) \in 1 .. Capacity
<1> DEFINE n == Len(bytes)
<1>1. /\ Capacity \in Nat \ {0} /\ size \in Nat /\ size <= Capacity
      /\ WriteCount \in Nat /\ WriteCount <= Space
  BY RingArithmetic
<1>2. /\ n \in 1 .. WriteCount /\ n \in 1 .. Space /\ n \in 1 .. Capacity
      /\ n \in 0 .. n /\ n <= WriteCount
  BY <1>1 DEF Produced, Space
<1>3. \A k \in 1 .. n : bytes[k] \in Byte
  BY ElementOfSeq
<1>4. /\ mem' = Copied(bytes, n, n) /\ wp' = Wrapped(wp + n) /\ rp' = rp
      /\ size' = size + n /\ stopped' = (stopped \/ size' = Capacity) /\ out' = out
  BY DEF Produced
<1>5. ~(n < n)
  BY <1>2
<1>6. bytes = [k \in 1 .. n |-> bytes[k]]
  BY LenProperties
<1> HIDE DEF n
<1>7. RBufferInv' /\ Content' = Content \o [k \in 1 .. n |-> bytes[k]]
  BY <1>2, <1>3, <1>4, <1>5, RingCopied
<1>8. QED
  BY <1>2, <1>6, <1>7 DEF n

\* rbuffer_write: the prefix that fits.
LEMMA RingWrites ==
  ASSUME RBufferInv, NEW bytes \in Seq(Byte), Write(bytes)
  PROVE  /\ RBufferInv'
         /\ \E n \in 1 .. Capacity : /\ n <= Len(bytes)
                                     /\ Content' = Content \o [k \in 1 .. n |-> bytes[k]]
<1>1. /\ Capacity \in Nat \ {0} /\ size \in Nat /\ size <= Capacity /\ wp \in Nat
      /\ WriteCount \in Nat /\ WriteCount <= Space
      /\ (WriteCount < Space => wp + WriteCount = Capacity)
  BY RingArithmetic
<1> DEFINE n == IF Len(bytes) <= Space THEN Len(bytes) ELSE Space
           head == IF n <= WriteCount THEN n ELSE WriteCount
<1>2. /\ n >= 1 /\ mem' = Copied(bytes, head, n) /\ wp' = Wrapped(wp + n) /\ rp' = rp
      /\ size' = size + n /\ stopped' = (stopped \/ size' = Capacity) /\ out' = out
  BY DEF Write
<1>3. Len(bytes) \in Nat
  OBVIOUS
<1>4. n \in 1 .. Space /\ n \in 1 .. Capacity /\ n <= Len(bytes)
  BY <1>1, <1>2, <1>3 DEF Space
<1>5. n <= Space
  BY <1>4, <1>1 DEF Space
<1> HIDE DEF n
<1>6. head \in 0 .. n /\ head <= WriteCount /\ (head < n => wp + head = Capacity)
  BY <1>1, <1>4, <1>5 DEF Space
<1> HIDE DEF head
<1>7. \A k \in 1 .. n : bytes[k] \in Byte
  <2>1. \A k \in 1 .. n : k \in 1 .. Len(bytes)
    BY <1>3, <1>4
  <2>2. QED
    BY <2>1, ElementOfSeq
<1>8. RBufferInv' /\ Content' = Content \o [k \in 1 .. n |-> bytes[k]]
  BY <1>2, <1>4, <1>6, <1>7, RingCopied
<1>9. QED
  BY <1>4, <1>8

\* The consumers: some n bytes leave from the front.
LEMMA RingReads ==
  ASSUME RBufferInv, NEW want \in Nat, Read(want)
  PROVE  \E n \in 1 .. size : Consume(n, SubSeq(Content, 1, n))
<1>1. ReadCount \in Nat /\ size \in Nat /\ ReadCount <= size
  BY RingArithmetic
<1> DEFINE n == IF want <= size THEN want ELSE size
           head == IF n <= ReadCount THEN n ELSE ReadCount
           bytes == [i \in 1 .. n |-> IF i <= head THEN mem[rp + i - 1] ELSE mem[i - head - 1]]
<1>2. Consume(n, bytes)
  BY DEF Read
<1>3. n \in 1 .. size
  BY <1>1, <1>2 DEF Consume
<1> HIDE DEF n
<1>4. bytes = SubSeq(Content, 1, n)
  <2>1. CASE n <= ReadCount
    <3>1. bytes = ReadContiguous(n)
      BY <1>1, <1>3, <2>1 DEF ReadContiguous
    <3>2. QED
      BY <1>3, <2>1, <3>1, RingFront
  <2>2. CASE n > ReadCount
    <3>1. head = ReadCount
      BY <1>1, <1>3, <2>2
    <3>2. QED
      BY <1>3, <2>2, <3>1, RingFront
  <2>3. QED
    BY <1>1, <1>3, <2>1, <2>2
<1>5. QED
  BY <1>2, <1>3, <1>4

LEMMA RingConsumed ==
  ASSUME RBufferInv, NEW n \in Nat, Consumed(n) \/ ConsumedBytes(n)
  PROVE  n \in 1 .. size /\ Consume(n, SubSeq(Content, 1, n))
<1>1. n \in 1 .. size
  BY DEF Consumed, ConsumedBytes, Consume
<1>2. QED
  BY <1>1, RingFront DEF Consumed, ConsumedBytes

\* One step of the buffer keeps the invariant and is a step of the FIFO.
LEMMA RingSimulates ==
  ASSUME RBufferInv, [RBufferNext]_rbufferVars
  PROVE  RBufferInv' /\ [Fifo!Next]_(Fifo!fifoVars)
<1>1. /\ Capacity \in Nat \ {0} /\ size \in Nat /\ size <= Capacity
  BY RingArithmetic
<1>2. /\ Content \in Seq(Byte) /\ Len(Content) = size
  BY RingContent
<1>3. ASSUME RBufferInv', NEW n \in 1 .. Capacity, NEW bytes \in [1 .. n -> Byte],
             Content' = Content \o bytes, out' = out
      PROVE  Fifo!Put(bytes) /\ Fifo!Next
  <2>1. /\ Len(Content') = size' /\ size' <= Capacity
    <3>1. (Content \in Seq(Byte) /\ Len(Content) = size)'
      BY <1>3, RingContent, PTL
    <3>2. QED
      BY <1>3, <3>1 DEF RBufferInv, RBufferTypeOK
  <2>2. stopped' = (size' = Capacity)
    BY <1>3 DEF RBufferInv, StoppedIffFull
  <2>3. Fifo!Put(bytes)
    BY <1>3, <2>1, <2>2 DEF Fifo!Put
  <2>4. QED
    BY <2>3 DEF Fifo!Next
<1>4. ASSUME NEW n \in 1 .. size, Consume(n, SubSeq(Content, 1, n))
      PROVE  RBufferInv' /\ Fifo!Next
  <2>1. RBufferInv' /\ Content' = SubSeq(Content, n + 1, size)
    BY <1>4, RingShrinks
  <2>2. stopped' = FALSE
    <3>1. size' # Capacity
      BY <1>1, <1>4 DEF Consume
    <3>2. QED
      BY <2>1, <3>1, Zenon DEF RBufferInv, StoppedIffFull
  <2>3. Fifo!Take(n)
    BY <1>2, <1>4, <2>1, <2>2 DEF Fifo!Take, Consume
  <2>4. n \in 1 .. Capacity
    BY <1>1
  <2>5. QED
    BY <2>1, <2>3, <2>4 DEF Fifo!Next
<1>5. ASSUME NEW bytes \in Strings(Capacity), Produced(bytes)
      PROVE  RBufferInv' /\ Fifo!Next
  <2>1. bytes \in Seq(Byte) /\ bytes \in [1 .. Len(bytes) -> Byte]
    BY <1>1 DEF Strings
  <2>2. RBufferInv' /\ Content' = Content \o bytes /\ Len(bytes) \in 1 .. Capacity
    BY <1>5, <2>1, RingGrows
  <2>3. out' = out
    BY <1>5 DEF Produced
  <2>4. QED
    BY <1>3, <2>1, <2>2, <2>3
<1>6. ASSUME NEW bytes \in Strings(Capacity + 1), Write(bytes)
      PROVE  RBufferInv' /\ Fifo!Next
  <2>1. bytes \in Seq(Byte) /\ Len(bytes) \in Nat
    BY <1>1 DEF Strings
  <2>2. PICK n \in 1 .. Capacity : /\ n <= Len(bytes)
                                   /\ Content' = Content \o [k \in 1 .. n |-> bytes[k]]
    BY <1>6, <2>1, RingWrites
  <2>3. RBufferInv' /\ out' = out
    BY <1>6, <2>1, RingWrites DEF Write
  <2>4. [k \in 1 .. n |-> bytes[k]] \in [1 .. n -> Byte]
    <3>1. \A k \in 1 .. n : k \in 1 .. Len(bytes)
      BY <1>1, <2>1, <2>2
    <3>2. QED
      BY <2>1, <3>1, ElementOfSeq
  <2>5. QED
    BY <1>3, <2>2, <2>3, <2>4
<1>7. ASSUME NEW n \in 1 .. Capacity, Consumed(n) \/ ConsumedBytes(n)
      PROVE  RBufferInv' /\ Fifo!Next
  <2>1. n \in Nat
    BY <1>1
  <2>2. QED
    BY <1>4, <1>7, <2>1, RingConsumed
<1>8. ASSUME NEW n \in 1 .. Capacity + 1, Read(n)
      PROVE  RBufferInv' /\ Fifo!Next
  <2>1. n \in Nat
    BY <1>1
  <2>2. QED
    BY <1>4, <1>8, <2>1, RingReads
<1>9. ASSUME Reset
      PROVE  RBufferInv' /\ UNCHANGED Fifo!fifoVars
  <2>1. RBufferInv' /\ Content' = Content
    BY <1>9, RingReset
  <2>2. out' = out /\ stopped' = (size = Capacity) /\ stopped = (size = Capacity)
    BY <1>9 DEF Reset, RBufferInv, StoppedIffFull
  <2>3. stopped' = stopped
    BY <2>2
  <2>4. QED
    BY <2>1, <2>2, <2>3 DEF Fifo!fifoVars
<1>10. ASSUME UNCHANGED rbufferVars
       PROVE  RBufferInv' /\ UNCHANGED Fifo!fifoVars
  <2>1. RBufferInv'
    BY <1>10 DEF rbufferVars, RBufferInv, RBufferTypeOK, PointersAgree, ContentWritten,
                 StoppedIffFull, Get
  <2>2. Content' = Content
    BY <1>10 DEF rbufferVars, Content, Get
  <2>3. QED
    BY <1>10, <2>1, <2>2 DEF rbufferVars, Fifo!fifoVars
<1>11. QED
  BY <1>5, <1>6, <1>7, <1>8, <1>9, <1>10 DEF RBufferNext

\* The bytes up to the end of the memory, and those after the wrap.
LEMMA RingInPieces ==
  ASSUME RBufferInv
  PROVE  /\ \A i \in 1 .. ReadCount : Get(i - 1) = mem[rp + i - 1]
         /\ \A i \in 1 .. size - ReadCount : Get(ReadCount + i - 1) = mem[i - 1]
<1>1. /\ rp \in Nat /\ size \in Nat /\ rp < Capacity /\ size <= Capacity
      /\ Capacity \in Nat /\ ReadCount \in Nat /\ ReadCount <= size /\ rp + ReadCount <= Capacity
      /\ (ReadCount < size => rp + ReadCount = Capacity)
  BY RingArithmetic
<1> DEFINE r == ReadCount
<1> HIDE DEF r
<1>2. ASSUME NEW i \in 1 .. r PROVE Get(i - 1) = mem[rp + i - 1]
  <2>1. Wrapped(rp + (i - 1)) = rp + i - 1
    BY <1>1 DEF Wrapped, r
  <2>2. QED
    BY <2>1 DEF Get
<1>3. ASSUME NEW i \in 1 .. size - r PROVE Get(r + i - 1) = mem[i - 1]
  <2>1. Wrapped(rp + (r + i - 1)) = i - 1
    BY <1>1 DEF Wrapped, r
  <2>2. QED
    BY <2>1 DEF Get
<1>4. QED
  BY <1>2, <1>3 DEF r

\* rbuffer_cmp looks at every byte once.
LEMMA RingCmpLooksAtAll ==
  ASSUME RBufferInv,
         NEW str \in Seq(Byte), Len(str) <= size
  PROVE  CmpDiffers(str) <=> \E i \in 1 .. Len(str) : str[i] # Get(i - 1)
<1> DEFINE l == Len(str)
           r == ReadCount
           n == IF l <= r THEN l ELSE r
           f == [i \in 1 .. n |-> mem[rp + i - 1]]
           g == [i \in 1 .. l - n |-> mem[i - 1]]
           front == SubSeq(str, 1, n) # f
           back == SubSeq(str, n + 1, l) # g
<1>1. l \in Nat /\ r \in Nat /\ r <= size /\ size \in Nat /\ l <= size
  BY RingArithmetic
<1>2. CmpDiffers(str) <=> IF front \/ l = n \/ size = r THEN front ELSE back
  BY DEF CmpDiffers, Differ
<1>3. /\ \A i \in 1 .. r : Get(i - 1) = mem[rp + i - 1]
      /\ \A i \in 1 .. size - r : Get(r + i - 1) = mem[i - 1]
  BY RingInPieces
<1> HIDE DEF r
<1>4. n \in 0 .. l /\ n <= r /\ (n = l \/ n = r) /\ l - n \in Nat
  BY <1>1
<1>5. front <=> \E i \in 1 .. n : str[i] # Get(i - 1)
  <2> DEFINE z == 0
  <2>1. z \in Nat /\ n \in Nat /\ z + n = n /\ n <= Len(str) /\ z + 1 = 1
    BY <1>4
  <2> HIDE DEF n
  <2>2. \A i \in 1 .. n : f[i] = Get(i - 1)
    <3>1. \A i \in 1 .. n : f[i] = mem[rp + i - 1]
      OBVIOUS
    <3>2. \A i \in 1 .. n : i \in 1 .. r
      BY <1>1, <1>4
    <3> HIDE DEF f
    <3>3. QED
      BY <1>3, <3>1, <3>2
  <2>3. f \in [1 .. n -> Byte \union {NoByte}]
    <3>1. \A i \in 1 .. n : rp + i - 1 \in Offsets
      BY <1>1, <1>4, RingArithmetic DEF Offsets, r
    <3>2. QED
      BY <3>1 DEF RBufferInv, RBufferTypeOK
  <2>4. \A i \in 1 .. n : z + i = i
    BY <2>1
  <2> HIDE DEF f, z
  <2>5. SubSeq(str, z + 1, n) # f <=> \E i \in 1 .. n : str[z + i] # f[i]
    BY <2>1, <2>3, PieceDiffers
  <2>6. SubSeq(str, 1, n) # f <=> \E i \in 1 .. n : str[i] # f[i]
    BY <2>1, <2>4, <2>5
  <2>7. QED
    BY <2>2, <2>6
<1>6. CASE n = l
  <2> HIDE DEF f, g
  <2>1. CmpDiffers(str) <=> front
    BY <1>2, <1>6
  <2>2. QED
    BY <1>5, <1>6, <2>1
<1>7. CASE n # l
  <2>1. n = r /\ size # r
    BY <1>1, <1>4, <1>7
  <2>2. back <=> \E i \in 1 .. l - n : str[n + i] # Get(n + i - 1)
    <3> DEFINE m == l - n
    <3>1. n \in Nat /\ m \in Nat /\ n + m = l /\ l <= Len(str) /\ l \in Nat
      BY <1>1, <1>4
    <3> HIDE DEF n
    <3>2. \A i \in 1 .. m : i - 1 \in Offsets /\ g[i] = Get(n + i - 1)
      <4>1. \A i \in 1 .. m : i \in 1 .. size - r
        BY <1>1, <2>1, <3>1
      <4>2. \A i \in 1 .. m : i - 1 \in Offsets
        BY <1>1, <3>1, <4>1, RingArithmetic DEF Offsets
      <4>3. QED
        BY <1>3, <2>1, <4>1, <4>2
    <3>3. g \in [1 .. m -> Byte \union {NoByte}]
      BY <3>2 DEF RBufferInv, RBufferTypeOK
    <3> HIDE DEF g, m, l
    <3>4. SubSeq(str, n + 1, l) # g <=> \E i \in 1 .. m : str[n + i] # g[i]
      BY <3>1, <3>3, PieceDiffers
    <3>5. QED
      BY <3>2, <3>4 DEF m
  <2> HIDE DEF f, g, front, back, n
  <2>3. CmpDiffers(str) <=> front \/ back
    BY <1>2, <1>7, <2>1
  <2>4. \A i \in 1 .. l - n : n + i \in 1 .. l /\ n + i - 1 = (n + i) - 1
    BY <1>1, <1>4
  <2>5. \A i \in 1 .. l : i \in 1 .. n \/ (i - n \in 1 .. l - n /\ n + (i - n) = i)
    BY <1>1, <1>4
  <2>6. 1 .. n \subseteq 1 .. l
    BY <1>1, <1>4
  <2>7. ASSUME NEW i \in 1 .. l, str[i] # Get(i - 1) PROVE front \/ back
    <3>1. CASE i \in 1 .. n
      BY <1>5, <2>7, <3>1
    <3>2. CASE i \notin 1 .. n
      <4> DEFINE j == i - n
      <4>1. j \in 1 .. l - n /\ n + j = i
        BY <2>5, <3>2
      <4> HIDE DEF j
      <4>2. str[n + j] # Get((n + j) - 1)
        BY <2>7, <4>1
      <4>3. QED
        BY <2>2, <2>4, <4>1, <4>2
    <3>3. QED
      BY <3>1, <3>2
  <2>8. ASSUME front \/ back PROVE \E i \in 1 .. l : str[i] # Get(i - 1)
    BY <1>5, <2>2, <2>4, <2>6, <2>8
  <2>9. QED
    BY <2>3, <2>7, <2>8
<1>8. QED
  BY <1>6, <1>7

-----------------------------------------------------------------------------

\* The invariant of the ring.
THEOREM RingInvariance == RBufferSpec => []RBufferInv
<1>1. RBufferInit => RBufferInv
  BY RingStarts
<1>2. RBufferInv /\ [RBufferNext]_rbufferVars => RBufferInv'
  BY RingSimulates
<1>3. QED
  BY <1>1, <1>2, PTL DEF RBufferSpec

\* Offsets stay in the memory and size within the capacity.
THEOREM RingTypeCorrect == RBufferSpec => []RBufferTypeOK
BY RingInvariance, PTL DEF RBufferInv

\* The pointers are size apart, so a full buffer is told from an empty one.
THEOREM RingPointers == RBufferSpec => []PointersAgree
BY RingInvariance, PTL DEF RBufferInv

\* full_cb and nonfull_cb alternate, and follow the fill level.
THEOREM RingCallbacks == RBufferSpec => []StoppedIffFull
BY RingInvariance, PTL DEF RBufferInv

\* rbuffer.c implements the bounded FIFO: across every wrap, partial write,
\* partial read and rbuffer_reset.
THEOREM RingRefinement == RBufferSpec => ImplementsFifo
<1>1. RBufferInit => Fifo!Init
  BY RingStarts DEF RBufferInit, Fifo!Init
<1>2. RBufferInv /\ [RBufferNext]_rbufferVars => [Fifo!Next]_(Fifo!fifoVars)
  BY RingSimulates
<1>3. QED
  BY <1>1, <1>2, RingInvariance, PTL DEF RBufferSpec, ImplementsFifo, Fifo!Spec

\* rbuffer_cmp agrees with a comparison of the bytes one by one, wherever the
\* ring wraps.
THEOREM RingCmpExact == RBufferSpec => []CmpIsByteWise
<1>1. ASSUME RBufferInv PROVE CmpIsByteWise
  <2>1. ASSUME NEW str \in Strings(Capacity)
        PROVE  str \in Seq(Byte)
    BY <2>1, RBufferAssumption DEF Strings
  <2>2. QED
    BY <1>1, <2>1, RingCmpLooksAtAll DEF CmpIsByteWise
<1>2. QED
  BY <1>1, RingInvariance, PTL

-----------------------------------------------------------------------------
(***************************************************************************)
(* What the actions do to the ring.                                        *)
(***************************************************************************)

LEMMA SetupFacts ==
  ASSUME Types
  PROVE  /\ Consumer \in Consumers /\ IsFile \in BOOLEAN /\ Nested \in BOOLEAN
         /\ MaxBytes \in Nat \ {0} /\ Capacity \in Nat \ {0}
         /\ sent \in Nat /\ fpos \in Nat /\ fpos <= sent /\ sent <= MaxBytes
<1>1. setup \in Setup
  BY RStreamAssumption, RBufferAssumption DEF Types, PeerTypes
<1>2. Consumer \in Consumers /\ IsFile \in BOOLEAN /\ Nested \in BOOLEAN
  BY <1>1 DEF Setup, Consumer, IsFile, Nested
<1>3. QED
  BY <1>2, RStreamAssumption, RBufferAssumption DEF Types, PeerTypes

LEMMA RingStays ==
  ASSUME RBufferInv, Bytes, UNCHANGED rbufferVars, fpos' = fpos
  PROVE  RBufferInv' /\ Bytes' /\ Base' = Base /\ size' = size /\ stopped' = stopped
<1>1. RBufferInv'
  BY DEF rbufferVars, RBufferInv, RBufferTypeOK, PointersAgree, ContentWritten,
         StoppedIffFull, Get
<1>2. Content' = Content
  BY DEF rbufferVars, Content, Get
<1>3. size' = size /\ stopped' = stopped
  BY DEF rbufferVars
<1>4. Base' = Base
  BY <1>3 DEF Base
<1>5. Bytes'
  BY <1>2, <1>3, <1>4 DEF Bytes
<1>6. QED
  BY <1>1, <1>3, <1>4, <1>5

\* The front of the ring is what comes next.
LEMMA FrontIsNext ==
  ASSUME RBufferInv, Bytes, NEW k \in 0 .. size
  PROVE  LET front == SubSeq(Content, 1, k)
         IN  front \in Seq(Byte) /\ Len(front) = k /\ \A i \in 1 .. k : front[i] = Base + i
<1>1. size \in Nat /\ Content \in Seq(Byte) /\ Len(Content) = size
  BY RingNumbers, RingContent
<1> DEFINE front == SubSeq(Content, 1, k)
<1>2. front \in Seq(Byte) /\ Len(front) = k /\ \A i \in 1 .. k : front[i] = Content[i]
  BY <1>1
<1>3. QED
  BY <1>1, <1>2 DEF Bytes

\* Bytes that leave the ring.
LEMMA Leaves ==
  ASSUME RBufferInv, Bytes, fpos \in Nat, fpos' = fpos,
         NEW n, NEW bytes, Consume(n, bytes), bytes = SubSeq(Content, 1, n)
  PROVE  /\ RBufferInv' /\ Bytes'
         /\ n \in 1 .. size /\ size' = size - n /\ Base' = Base + n /\ stopped' = FALSE
<1>1. n \in 1 .. size /\ size' = size - n
  BY DEF Consume
<1>2. RBufferInv' /\ Content' = SubSeq(Content, n + 1, size)
  BY RingShrinks
<1>3. size \in Nat /\ Content \in Seq(Byte) /\ Len(Content) = size
  BY RingNumbers, RingContent
<1>4. \A i \in 1 .. size - n : Content'[i] = Content[n + i]
  BY <1>1, <1>2, <1>3
<1>5. Base \in Nat /\ Base' = Base + n
  BY <1>1, <1>3 DEF Base, Bytes
<1>6. ASSUME NEW i \in 1 .. size - n PROVE Content'[i] = Base' + i
  <2>1. Content'[i] = Base + (n + i)
    BY <1>1, <1>3, <1>4, n + i \in 1 .. size DEF Bytes
  <2>2. QED
    BY <1>1, <1>3, <1>5, <2>1
<1>7. Bytes'
  BY <1>1, <1>5, <1>6 DEF Bytes
<1>8. stopped' = FALSE
  BY RingNumbers DEF Consume
<1>9. QED
  BY <1>1, <1>2, <1>5, <1>7, <1>8

\* Bytes that a consumer took in one go.
LEMMA TookFacts ==
  ASSUME RBufferInv, Bytes, fpos \in Nat, fpos' = fpos, reading \in BOOLEAN,
         NEW k \in 0 .. size, NEW bytes, bytes = SubSeq(Content, 1, k), Took(bytes)
  PROVE  /\ RBufferInv' /\ Bytes' /\ Base' = Base + k
         /\ shown' = shown \o bytes
         /\ stopped' => stopped
         /\ reading' = (reading \/ (stopped /\ ~stopped'))
<1>1. bytes \in Seq(Byte) /\ Len(bytes) = k
  BY FrontIsNext
<1>2. shown' = shown \o bytes
  BY DEF Took
<1>3. size \in Nat /\ stopped \in BOOLEAN
  BY RingNumbers
<1>4. CASE k = 0
  <2>1. bytes = <<>>
    BY <1>1, <1>4
  <2>2. UNCHANGED rbufferVars /\ reading' = reading
    BY <2>1 DEF Took
  <2>3. RBufferInv' /\ Bytes' /\ Base' = Base /\ stopped' = stopped
    BY <2>2, RingStays
  <2>4. Base' = Base + k
    BY <1>4, <2>3 DEF Bytes
  <2>5. reading' = (reading \/ (stopped /\ ~stopped'))
    BY <2>2, <2>3, Zenon
  <2>6. QED
    BY <1>2, <2>3, <2>4, <2>5
<1>5. CASE k # 0
  <2>1. bytes # <<>>
    BY <1>1, <1>5
  <2>2. Consume(k, bytes) /\ Restarted
    BY <1>1, <2>1 DEF Took
  <2>3. RBufferInv' /\ Bytes' /\ Base' = Base + k /\ stopped' = FALSE
    BY <2>2, Leaves
  <2>4. QED
    BY <1>2, <2>2, <2>3 DEF Restarted
<1>6. QED
  BY <1>4, <1>5

\* What the shell takes is the front of the ring, too.
LEMMA ShellTakesFront ==
  ASSUME RBufferInv, NEW eof
  PROVE  \E k \in 0 .. size : ShellTakes(eof) = SubSeq(Content, 1, k)
<1> DEFINE n == ReadCount
           chunk == ReadContiguous(n)
           ends == {i \in 1 .. Len(chunk) : chunk[i] \in NewLines}
           last == CHOOSE i \in ends : \A j \in ends : j <= i
           written == IF eof \/ (ends = {} /\ size = Capacity) THEN Len(chunk)
                      ELSE IF ends = {} THEN 0 ELSE last
<1>1. n \in Nat /\ size \in Nat /\ n <= size
      /\ Content \in Seq(Byte) /\ Len(Content) = size
  BY RingNumbers, RingContent
<1>2. Len(chunk) = n
  BY <1>1 DEF ReadContiguous
<1>3. written \in 0 .. n
  <2>1. ASSUME ends # {} PROVE \E i \in ends : \A j \in ends : j <= i
    BY <1>1, <1>2, <2>1, LastExists
  <2>2. ends # {} => last \in ends
    BY <2>1
  <2>3. ends \subseteq 1 .. n
    BY <1>2
  <2> HIDE DEF ends, chunk, n, last
  <2>4. CASE eof \/ (ends = {} /\ size = Capacity)
    BY <1>1, <1>2, <2>4
  <2>5. CASE ~(eof \/ (ends = {} /\ size = Capacity)) /\ ends = {}
    <3>1. written = 0
      BY <2>5, Zenon
    <3>2. QED
      BY <1>1, <3>1
  <2>6. CASE ~(eof \/ (ends = {} /\ size = Capacity)) /\ ends # {}
    <3>1. written = last
      BY <2>6, Zenon
    <3>2. QED
      <4>1. last \in ends
        BY <2>2, <2>6, Zenon
      <4>2. last \in 1 .. n
        BY <2>3, <4>1, Zenon
      <4>3. last \in 0 .. n
        BY <1>1, <4>2
      <4>4. QED
        BY <3>1, <4>3, Zenon
  <2>7. QED
    BY <2>4, <2>5, <2>6
<1>4. ShellTakes(eof) = SubSeq(chunk, 1, written)
  BY Zenon DEF ShellTakes
<1>5. chunk = SubSeq(Content, 1, n)
  <2>1. CASE n = 0
    BY <1>1, <2>1 DEF ReadContiguous
  <2>2. CASE n # 0
    BY <1>1, <2>2, n \in 1 .. size, RingFront
  <2>3. QED
    BY <2>1, <2>2
<1> HIDE DEF written, chunk, n
<1>6. SubSeq(SubSeq(Content, 1, n), 1, written) = SubSeq(Content, 1, written)
  <2> DEFINE whole == SubSeq(Content, 1, n)
  <2>1. whole \in Seq(Byte) /\ Len(whole) = n /\ \A i \in 1 .. n : whole[i] = Content[i]
    BY <1>1
  <2> HIDE DEF whole
  <2>2. /\ SubSeq(whole, 1, written) = [i \in 1 .. written |-> whole[i]]
        /\ SubSeq(Content, 1, written) = [i \in 1 .. written |-> Content[i]]
    BY <1>1, <1>3, <2>1
  <2>3. \A i \in 1 .. written : whole[i] = Content[i]
    BY <1>1, <1>3, <2>1
  <2>4. SubSeq(whole, 1, written) = SubSeq(Content, 1, written)
    BY <2>2, <2>3
  <2>5. QED
    BY <2>4 DEF whole
<1>7. written \in 0 .. size
  BY <1>1, <1>3
<1>8. QED
  BY <1>4, <1>5, <1>6, <1>7

\* What a handler shows the consumer, and what of it leaves the ring at once.
Given(bytes, k) ==
  /\ shown' = shown \o bytes
  /\ Base' = Base + k
  /\ Consumer \in {"read", "shell"} => Len(bytes) = k /\ \A i \in 1 .. k : bytes[i] = Base + i
  /\ Consumer = "job" => k = 0 /\ bytes = AtReadPtr(Head(events).count) /\ rp' = rp
  /\ Consumer = "none" => k = 0 /\ bytes = <<>>

LEMMA DispatchFacts ==
  ASSUME Types, RBufferInv, Bytes, DispatchBegin
  PROVE  /\ RBufferInv' /\ Bytes'
         /\ reading' = (reading \/ (stopped /\ ~stopped')) /\ (stopped' => stopped)
         /\ \E bytes \in Seq(Byte \union {NoByte}), k \in 0 .. size : Given(bytes, k)
<1>1. /\ Consumer \in Consumers /\ Capacity \in Nat \ {0} /\ fpos \in Nat
      /\ reading \in BOOLEAN /\ shown \in Seq(Byte \union {NoByte}) /\ Base \in Nat
      /\ events \in Seq(Event) /\ events # <<>>
  BY SetupFacts DEF Types, PeerTypes, Flags, QueueTypes, EndTypes, Bytes, DispatchBegin
<1>2. fpos' = fpos
  BY DEF DispatchBegin
<1>3. /\ size \in Nat /\ rp \in Nat /\ rp < Capacity /\ stopped \in BOOLEAN
      /\ mem \in [0 .. Capacity - 1 -> Byte \union {NoByte}]
  BY RingNumbers
<1> DEFINE e == Head(events)
<1>4. e \in Event
  BY <1>1
<1>5. ASSUME NEW k \in 0 .. size, NEW front, front = SubSeq(Content, 1, k),
             Took(front), Consumer \in {"read", "shell"}
      PROVE  /\ RBufferInv' /\ Bytes'
             /\ reading' = (reading \/ (stopped /\ ~stopped')) /\ (stopped' => stopped)
             /\ \E bytes \in Seq(Byte \union {NoByte}), j \in 0 .. size : Given(bytes, j)
  <2>1. front \in Seq(Byte) /\ Len(front) = k /\ \A i \in 1 .. k : front[i] = Base + i
    BY <1>5, FrontIsNext
  <2>2. /\ RBufferInv' /\ Bytes' /\ Base' = Base + k /\ shown' = shown \o front
        /\ reading' = (reading \/ (stopped /\ ~stopped')) /\ (stopped' => stopped)
    BY <1>1, <1>2, <1>5, TookFacts
  <2>3. front \in Seq(Byte \union {NoByte})
    BY <2>1
  <2>4. Given(front, k)
    BY <1>5, <2>1, <2>2 DEF Given
  <2>5. QED
    BY <2>2, <2>3, <2>4
<1>6. CASE Consumer = "read"
  <2>1. Took(Content)
    BY <1>6 DEF DispatchBegin
  <2>2. Content = SubSeq(Content, 1, size)
    BY <1>3, RingContent
  <2>3. size \in 0 .. size
    BY <1>3
  <2>4. QED
    BY <1>5, <1>6, <2>1, <2>2, <2>3
<1>7. CASE Consumer = "shell"
  <2>1. Took(ShellTakes(e.eof))
    BY <1>7 DEF DispatchBegin
  <2>2. PICK k \in 0 .. size : ShellTakes(e.eof) = SubSeq(Content, 1, k)
    BY ShellTakesFront
  <2>3. QED
    BY <1>5, <1>7, <2>1, <2>2
<1>8. ASSUME UNCHANGED rbufferVars, reading' = reading
      PROVE  /\ RBufferInv' /\ Bytes' /\ Base' = Base + 0 /\ rp' = rp
             /\ reading' = (reading \/ (stopped /\ ~stopped')) /\ (stopped' => stopped)
  <2>1. RBufferInv' /\ Bytes' /\ Base' = Base /\ stopped' = stopped
    BY <1>2, <1>8, RingStays
  <2>2. reading' = (reading \/ (stopped /\ ~stopped'))
    BY <1>1, <1>8, <2>1, Zenon
  <2>3. QED
    BY <1>1, <1>8, <2>1, <2>2 DEF rbufferVars
<1>9. CASE Consumer = "job"
  <2> DEFINE bytes == AtReadPtr(e.count)
  <2>1. shown' = shown \o bytes /\ UNCHANGED rbufferVars /\ reading' = reading
    BY <1>9 DEF DispatchBegin
  <2>2. e.count \in 0 .. Capacity
    BY <1>4 DEF Event
  <2>3. ASSUME NEW i \in 1 .. e.count, rp + i - 1 < Capacity
        PROVE  mem[rp + i - 1] \in Byte \union {NoByte}
    BY <1>1, <1>3, <2>2, <2>3, rp + i - 1 \in 0 .. Capacity - 1
  <2>4. bytes \in Seq(Byte \union {NoByte})
    BY <2>2, <2>3 DEF AtReadPtr
  <2>5. Given(bytes, 0)
    BY <1>8, <1>9, <2>1 DEF Given
  <2>6. QED
    BY <1>3, <1>8, <2>1, <2>4, <2>5, 0 \in 0 .. size
<1>10. CASE Consumer = "none"
  <2>1. UNCHANGED rbufferVars /\ reading' = reading /\ shown' = shown
    BY <1>10 DEF DispatchBegin
  <2>2. Given(<<>>, 0)
    <3>1. shown' = shown \o <<>>
      BY <1>1, <2>1
    <3>2. QED
      BY <1>8, <1>10, <2>1, <3>1 DEF Given
  <2>3. <<>> \in Seq(Byte \union {NoByte})
    OBVIOUS
  <2>4. QED
    BY <1>3, <1>8, <2>1, <2>2, <2>3, 0 \in 0 .. size
<1>11. QED
  BY <1>1, <1>6, <1>7, <1>9, <1>10 DEF Consumers

\* What the end of a handler consumes.
LEMMA EndFacts ==
  ASSUME Types, RBufferInv, Bytes, DispatchEnd
  PROVE  /\ RBufferInv' /\ Bytes'
         /\ reading' = (reading \/ (stopped /\ ~stopped')) /\ (stopped' => stopped)
         /\ frames[1] \in 0 .. size /\ frames[1] \in 0 .. Capacity
         /\ Base' = Base + frames[1] /\ size' = size - frames[1]
         /\ rp' = IF rp + frames[1] >= Capacity THEN rp + frames[1] - Capacity
                  ELSE rp + frames[1]
<1>1. /\ fpos \in Nat /\ reading \in BOOLEAN /\ Base \in Nat
      /\ frames \in Seq(0 .. Capacity) /\ frames # <<>> /\ fpos' = fpos
  BY SetupFacts DEF Types, PeerTypes, Flags, QueueTypes, Bytes, DispatchEnd
<1>2. size \in Nat /\ rp \in Nat /\ rp < Capacity /\ stopped \in BOOLEAN /\ Capacity \in Nat
  BY RingNumbers
<1> DEFINE c == frames[1]
<1>3. c = Head(frames) /\ c \in 0 .. Capacity
  BY <1>1, HeadIsElement
<1>4. ConsumeAfterCallback(c)
  BY <1>3 DEF DispatchEnd
<1> HIDE DEF c
<1>5. CASE c = 0
  <2>1. UNCHANGED rbufferVars /\ reading' = reading
    BY <1>4, <1>5 DEF ConsumeAfterCallback
  <2>2. RBufferInv' /\ Bytes' /\ Base' = Base /\ stopped' = stopped /\ size' = size
    BY <1>1, <2>1, RingStays
  <2>3. reading' = (reading \/ (stopped /\ ~stopped'))
    BY <1>1, <2>1, <2>2, Zenon
  <2>4. rp' = rp
    BY <2>1 DEF rbufferVars
  <2>5. Base' = Base + c /\ size' = size - c /\ c \in 0 .. size
        /\ rp' = IF rp + c >= Capacity THEN rp + c - Capacity ELSE rp + c
    BY <1>1, <1>2, <1>5, <2>2, <2>4
  <2>6. QED
    BY <1>3, <2>2, <2>3, <2>5 DEF c
<1>6. CASE c # 0
  <2> DEFINE bytes == [i \in 1 .. c |-> Get(i - 1)]
  <2>1. Consume(c, bytes) /\ Restarted
    BY <1>4, <1>6 DEF ConsumeAfterCallback
  <2>2. c \in 1 .. size /\ rp' = Wrapped(rp + c)
    BY <2>1 DEF Consume
  <2>3. bytes = SubSeq(Content, 1, c)
    BY <2>2, RingFront
  <2>4. /\ RBufferInv' /\ Bytes' /\ size' = size - c /\ Base' = Base + c
        /\ stopped' = FALSE
    BY <1>1, <2>1, <2>3, Leaves
  <2>5. rp' = IF rp + c >= Capacity THEN rp + c - Capacity ELSE rp + c
    BY <1>2, <1>3, <2>2 DEF Wrapped
  <2>6. c \in 0 .. size
    BY <1>2, <2>2
  <2>7. QED
    BY <1>3, <2>1, <2>4, <2>5, <2>6 DEF Restarted, c
<1>7. QED
  BY <1>5, <1>6

\* What libuv reads goes to the end of the ring, in one piece.
LEMMA ReadFacts ==
  ASSUME Types, RBufferInv, Bytes, Ends, NEW n \in 1 .. Capacity, ReadCb(n)
  PROVE  /\ RBufferInv' /\ Bytes'
         /\ n \in Nat \ {0} /\ n <= sent - fpos /\ fpos' = fpos + n
         /\ Base' = Base /\ size' = size + n /\ rp' = rp
         /\ wp + n <= Capacity
         /\ reading /\ reading' = ~stopped'
<1>1. /\ MaxBytes \in Nat /\ Capacity \in Nat /\ fpos \in Nat /\ sent \in Nat
      /\ fpos <= sent /\ sent <= MaxBytes /\ Base \in Nat /\ reading \in BOOLEAN
  BY SetupFacts DEF Bytes, Types, PeerTypes, Flags
<1>2. n \in Nat \ {0} /\ n <= sent - fpos /\ fpos' = fpos + n
  BY <1>1 DEF ReadCb
<1> DEFINE bytes == [i \in 1 .. n |-> fpos + i]
<1>3. bytes \in Seq(Byte) /\ Len(bytes) = n
  <2>1. \A i \in 1 .. n : fpos + i \in 1 .. MaxBytes
    BY <1>1, <1>2
  <2>2. QED
    BY <1>2, <2>1, RStreamAssumption
<1>4. Produced(bytes)
  BY DEF ReadCb
<1> HIDE DEF bytes
<1>5. RBufferInv' /\ Content' = Content \o bytes
  BY <1>3, <1>4, RingGrows
<1>6. n <= WriteCount /\ size' = size + n /\ rp' = rp
  BY <1>1, <1>2, <1>3, <1>4, RingNumbers DEF Produced
<1>7. /\ size \in Nat /\ wp \in Nat /\ WriteCount \in Nat /\ wp + WriteCount <= Capacity
      /\ Content \in Seq(Byte) /\ Len(Content) = size
  BY RingNumbers, RingContent
<1>8. Base' = Base
  BY <1>1, <1>2, <1>6, <1>7 DEF Base
<1>9. ASSUME NEW i \in 1 .. size + n PROVE Content'[i] = Base + i
  <2>1. /\ \A j \in 1 .. size : (Content \o bytes)[j] = Content[j]
        /\ \A j \in 1 .. n : (Content \o bytes)[size + j] = bytes[j]
    <3>1. /\ \A j \in 1 .. Len(Content) : (Content \o bytes)[j] = Content[j]
          /\ \A j \in 1 .. Len(bytes) : (Content \o bytes)[Len(Content) + j] = bytes[j]
      <4>1. Content \in Seq(Byte) /\ bytes \in Seq(Byte)
        BY <1>3, <1>7
      <4>2. QED
        BY <4>1, ConcatFacts
    <3>2. QED
      BY <1>3, <1>7, <3>1
  <2>2. CASE i <= size
    BY <1>2, <1>5, <1>7, <2>1, <2>2, i \in 1 .. size DEF Bytes
  <2>3. CASE i > size
    <3>1. i - size \in 1 .. n /\ size + (i - size) = i
      BY <1>2, <1>7, <2>3
    <3>2. Content'[i] = bytes[i - size]
      BY <1>5, <2>1, <3>1
    <3>3. bytes[i - size] = fpos + (i - size)
      BY <3>1 DEF bytes
    <3>4. QED
      BY <1>1, <1>7, <3>1, <3>2, <3>3 DEF Base
  <2>4. QED
    BY <1>7, <2>2, <2>3
<1>10. Bytes'
  BY <1>1, <1>6, <1>8, <1>9 DEF Bytes
<1>11. reading /\ reading' = ~stopped'
  BY DEF ReadCb, FullStops
<1>12. QED
  BY <1>1, <1>2, <1>5, <1>6, <1>7, <1>8, <1>10, <1>11

\* The other actions leave the ring alone.
LEMMA RingStep ==
  ASSUME Types, RBufferInv, Bytes, Ends, Next
  PROVE  RBufferInv' /\ Bytes'
<1>1. ASSUME PeerWrite \/ PeerClose \/ ReadEof \/ Close \/ CloseCb
      PROVE  UNCHANGED rbufferVars /\ fpos' = fpos
  BY <1>1 DEF PeerWrite, PeerClose, ReadEof, Close, CloseCb
<1>2. CASE \E n \in 1 .. Capacity : ReadCb(n)
  BY <1>2, ReadFacts
<1>3. CASE DispatchBegin
  BY <1>3, DispatchFacts
<1>4. CASE DispatchEnd
  BY <1>4, EndFacts
<1>5. QED
  BY <1>1, <1>2, <1>3, <1>4, RingStays DEF Next

-----------------------------------------------------------------------------
(***************************************************************************)
(* The queue, the handlers and the handle.                                 *)
(***************************************************************************)

\* invoke_read_cb.
LEMMA InvokeFacts ==
  ASSUME Types, NEW count \in 0 .. Capacity, NEW eof \in BOOLEAN, Invoke(count, eof)
  PROVE  /\ events' \in Seq(Event)
         /\ pendingReqs' = Len(events') + Len(frames)
         /\ closed => events' = events /\ pendingReqs' = pendingReqs
         /\ ~closed => events' = Append(events, [count |-> count, eof |-> eof])
<1> DEFINE e == [count |-> count, eof |-> eof]
<1>1. events \in Seq(Event) /\ e \in Event /\ pendingReqs = Len(events) + Len(frames)
      /\ frames \in Seq(0 .. Capacity)
  BY DEF Types, QueueTypes, Event
<1>2. Append(events, e) \in Seq(Event) /\ Len(Append(events, e)) = Len(events) + 1
  BY <1>1
<1>3. Len(events) \in Nat /\ Len(frames) \in Nat
  BY <1>1
<1>4. CASE closed
  BY <1>1, <1>4 DEF Invoke
<1>5. CASE ~closed
  <2>1. events' = Append(events, e) /\ pendingReqs' = pendingReqs + 1
    BY <1>5 DEF Invoke
  <2> HIDE DEF e
  <2>2. events' \in Seq(Event) /\ pendingReqs' = Len(events') + Len(frames)
    BY <1>1, <1>2, <1>3, <2>1
  <2>3. QED
    BY <1>5, <2>1, <2>2 DEF e
<1>6. QED
  BY <1>4, <1>5

LEMMA ReadInvokes ==
  ASSUME Types, NEW n \in 1 .. Capacity, ReadCb(n)
  PROVE  /\ events' \in Seq(Event) /\ frames' = frames
         /\ pendingReqs' = Len(events') + Len(frames)
         /\ closed => events' = events /\ pendingReqs' = pendingReqs
         /\ ~closed => events' = Append(events, [count |-> n, eof |-> FALSE])
<1>1. Invoke(n, FALSE)
  BY Zenon DEF ReadCb
<1>2. n \in 0 .. Capacity
  BY RStreamAssumption, RBufferAssumption
<1>3. FALSE \in BOOLEAN
  OBVIOUS
<1>4. frames' = frames
  BY DEF ReadCb
<1>5. QED
  BY <1>1, <1>2, <1>3, <1>4, InvokeFacts

LEMMA EofInvokes ==
  ASSUME Types, ReadEof
  PROVE  /\ events' \in Seq(Event) /\ frames' = frames
         /\ pendingReqs' = Len(events') + Len(frames)
         /\ closed => events' = events /\ pendingReqs' = pendingReqs
         /\ ~closed => events' = Append(events, [count |-> 0, eof |-> TRUE])
<1>1. Invoke(0, TRUE)
  BY Zenon DEF ReadEof
<1>2. 0 \in 0 .. Capacity
  BY RStreamAssumption, RBufferAssumption
<1>3. TRUE \in BOOLEAN
  OBVIOUS
<1>4. frames' = frames
  BY DEF ReadEof
<1>5. QED
  BY <1>1, <1>2, <1>3, <1>4, InvokeFacts

\* The event that is handled becomes a handler under way.
TakenBy(e) == IF Consumer = "job" THEN e.count ELSE 0

LEMMA FrameFacts ==
  ASSUME Types, DispatchBegin
  PROVE  /\ events # <<>> /\ Head(events) = events[1] /\ events[1] \in Event
         /\ events' = Tail(events) /\ events' \in Seq(Event)
         /\ Len(events') = Len(events) - 1 /\ Len(events) \in Nat /\ Len(frames) \in Nat
         /\ TakenBy(events[1]) \in 0 .. Capacity
         /\ frames' = <<TakenBy(events[1])>> \o frames
         /\ frames' \in Seq(0 .. Capacity) /\ Len(frames') = Len(frames) + 1
<1>1. /\ events \in Seq(Event) /\ events # <<>> /\ events' = Tail(events)
      /\ frames \in Seq(0 .. Capacity) /\ frames' = <<TakenBy(Head(events))>> \o frames
  BY DEF Types, QueueTypes, DispatchBegin, TakenBy
<1>2. Head(events) = events[1] /\ events[1] \in Event
  BY <1>1, HeadIsElement
<1>3. Tail(events) \in Seq(Event) /\ Len(Tail(events)) = Len(events) - 1
      /\ Len(events) \in Nat /\ Len(frames) \in Nat
  BY <1>1
<1> DEFINE c == TakenBy(events[1])
<1>4. c \in 0 .. Capacity
  <2>1. events[1].count \in 0 .. Capacity
    BY <1>2 DEF Event
  <2>2. 0 \in 0 .. Capacity
    BY RStreamAssumption, RBufferAssumption
  <2>3. QED
    BY <2>1, <2>2 DEF TakenBy
<1>5. frames' = <<c>> \o frames
  BY <1>1, <1>2
<1> HIDE DEF c
<1>6. <<c>> \in Seq(0 .. Capacity) /\ Len(<<c>>) = 1
  BY <1>4
<1>7. <<c>> \o frames \in Seq(0 .. Capacity) /\ Len(<<c>> \o frames) = Len(frames) + 1
  BY <1>1, <1>6
<1>8. frames' \in Seq(0 .. Capacity) /\ Len(frames') = Len(frames) + 1
  BY <1>5, <1>7
<1>9. QED
  BY <1>1, <1>2, <1>3, <1>4, <1>5, <1>8 DEF c

LEMMA FlagsStep ==
  ASSUME Types, RBufferInv, Bytes, Ends, Next
  PROVE  Flags'
<1>1. Flags
  BY DEF Types
<1>2. ASSUME NEW n \in 1 .. Capacity, ReadCb(n) PROVE Flags'
  BY <1>1, <1>2, ReadFacts DEF ReadCb, Flags, peerVars, closeVars
<1>3. CASE DispatchBegin
  BY <1>1, <1>3, DispatchFacts DEF DispatchBegin, Flags, peerVars, closeVars
<1>4. CASE DispatchEnd
  BY <1>1, <1>4, EndFacts DEF DispatchEnd, Flags, peerVars
<1>5. CASE PeerWrite \/ PeerClose
  BY <1>1, <1>5 DEF PeerWrite, PeerClose, Flags, closeVars
<1>6. CASE ReadEof
  BY <1>1, <1>6 DEF ReadEof, Flags, peerVars, closeVars
<1>7. CASE Close \/ CloseCb
  BY <1>1, <1>7 DEF Close, CloseCb, Flags, peerVars
<1>8. QED
  BY <1>2, <1>3, <1>4, <1>5, <1>6, <1>7 DEF Next

LEMMA PeerTypesStep ==
  ASSUME Types, RBufferInv, Bytes, Ends, Next
  PROVE  PeerTypes'
<1>1. /\ setup \in Setups /\ sent \in Nat /\ fpos \in Nat /\ fpos <= sent /\ sent <= MaxBytes
      /\ MaxBytes \in Nat
  BY SetupFacts DEF Types, PeerTypes
<1>2. CASE PeerWrite
  <2>1. setup' = setup /\ sent' = sent + 1 /\ fpos' = fpos /\ sent < MaxBytes
    BY <1>2 DEF PeerWrite
  <2>2. QED
    BY <1>1, <2>1 DEF PeerTypes
<1>3. ASSUME NEW n \in 1 .. Capacity, ReadCb(n) PROVE PeerTypes'
  <2>1. setup' = setup /\ sent' = sent
    BY <1>3 DEF ReadCb, peerVars
  <2>2. n \in Nat \ {0} /\ n <= sent - fpos /\ fpos' = fpos + n
    BY <1>3, ReadFacts
  <2>3. QED
    BY <1>1, <2>1, <2>2 DEF PeerTypes
<1>4. ASSUME PeerClose \/ ReadEof \/ DispatchBegin \/ DispatchEnd \/ Close \/ CloseCb
      PROVE  setup' = setup /\ sent' = sent /\ fpos' = fpos
  BY <1>4 DEF PeerClose, ReadEof, DispatchBegin, DispatchEnd, Close, CloseCb, peerVars
<1>5. QED
  BY <1>1, <1>2, <1>3, <1>4 DEF Next, PeerTypes

LEMMA QueueTypesStep ==
  ASSUME Types, Next
  PROVE  QueueTypes'
<1>1. /\ events \in Seq(Event) /\ frames \in Seq(0 .. Capacity)
      /\ pendingReqs = Len(events) + Len(frames) /\ Capacity \in Nat
  BY SetupFacts DEF Types, QueueTypes
<1>2. ASSUME NEW n \in 1 .. Capacity, ReadCb(n) PROVE QueueTypes'
  BY <1>1, <1>2, ReadInvokes DEF QueueTypes
<1>3. CASE ReadEof
  BY <1>1, <1>3, EofInvokes DEF QueueTypes
<1>4. CASE DispatchBegin
  <2>1. pendingReqs' = pendingReqs
    BY <1>4 DEF DispatchBegin
  <2>2. /\ events' \in Seq(Event) /\ frames' \in Seq(0 .. Capacity)
        /\ Len(events') = Len(events) - 1 /\ Len(frames') = Len(frames) + 1
        /\ Len(events) \in Nat /\ Len(frames) \in Nat
    BY <1>4, FrameFacts
  <2>3. QED
    BY <1>1, <2>1, <2>2 DEF QueueTypes
<1>5. CASE DispatchEnd
  <2>1. frames # <<>> /\ frames' = Tail(frames) /\ pendingReqs' = pendingReqs - 1
        /\ events' = events
    BY <1>5 DEF DispatchEnd
  <2>2. Tail(frames) \in Seq(0 .. Capacity) /\ Len(Tail(frames)) = Len(frames) - 1
    BY <1>1, <2>1
  <2>3. Len(frames) \in Nat /\ Len(events) \in Nat
    BY <1>1
  <2>4. QED
    BY <1>1, <2>1, <2>2, <2>3 DEF QueueTypes
<1>6. ASSUME PeerWrite \/ PeerClose \/ Close \/ CloseCb
      PROVE  events' = events /\ frames' = frames /\ pendingReqs' = pendingReqs
  BY <1>6 DEF PeerWrite, PeerClose, Close, CloseCb, queueVars
<1>7. QED
  BY <1>1, <1>2, <1>3, <1>4, <1>5, <1>6 DEF Next, QueueTypes

LEMMA EndTypesStep ==
  ASSUME Types, RBufferInv, Bytes, Next
  PROVE  EndTypes'
<1>1. EndTypes
  BY DEF Types
<1>2. CASE DispatchBegin
  <2>1. UNCHANGED <<handle, closes>> /\ (eofs' = eofs \/ eofs' = eofs + 1)
    BY <1>2 DEF DispatchBegin, closeVars
  <2>2. PICK bytes \in Seq(Byte \union {NoByte}), k \in 0 .. size : Given(bytes, k)
    BY <1>2, DispatchFacts
  <2>3. shown' \in Seq(Byte \union {NoByte})
    <3>1. shown \o bytes \in Seq(Byte \union {NoByte})
      BY <1>1, ConcatFacts DEF EndTypes
    <3>2. QED
      BY <2>2, <3>1 DEF Given
  <2>4. QED
    BY <1>1, <2>1, <2>3 DEF EndTypes
<1>3. ASSUME \/ PeerWrite \/ PeerClose \/ ReadEof \/ \E n \in 1 .. Capacity : ReadCb(n)
      PROVE  UNCHANGED <<handle, closes, shown, eofs>>
  BY <1>3 DEF PeerWrite, PeerClose, ReadEof, ReadCb, closeVars, consumerVars
<1>4. CASE DispatchEnd \/ Close \/ CloseCb
  BY <1>1, <1>4 DEF DispatchEnd, Close, CloseCb, CloseHandle, EndTypes, consumerVars
<1>5. QED
  BY <1>1, <1>2, <1>3, <1>4 DEF Next, EndTypes

LEMMA TypesStep ==
  ASSUME Types, RBufferInv, Bytes, Ends, Next
  PROVE  Types'
BY PeerTypesStep, FlagsStep, QueueTypesStep, EndTypesStep DEF Types

\* The last request that ends closes the handle of a closed stream.
LEMMA HandlesStep ==
  ASSUME Types, Handles, Next
  PROVE  Handles'
<1>1. /\ closed \in BOOLEAN /\ pendingReqs = Len(events) + Len(frames)
      /\ Len(events) \in Nat /\ Len(frames) \in Nat
      /\ handle \in {"open", "closing", "closed"} /\ closes \in Nat
      /\ Capacity \in Nat \ {0}
      /\ frames \in Seq(0 .. Capacity)
  BY SetupFacts DEF Types, PeerTypes, Flags, QueueTypes, EndTypes
<1>2. ASSUME PeerWrite \/ PeerClose \/ DispatchBegin
      PROVE  UNCHANGED <<pendingReqs, closed, handle, closes>>
  BY <1>2 DEF PeerWrite, PeerClose, DispatchBegin, queueVars, closeVars
<1>3. ASSUME NEW n \in 1 .. Capacity, ReadCb(n) PROVE Handles'
  <2>1. UNCHANGED <<closed, handle, closes>>
    BY <1>3 DEF ReadCb, closeVars
  <2>2. closed => pendingReqs' = pendingReqs
    BY <1>3, ReadInvokes
  <2>3. QED
    BY <2>1, <2>2 DEF Handles
<1>4. CASE ReadEof
  <2>1. UNCHANGED <<closed, handle, closes>>
    BY <1>4 DEF ReadEof, closeVars
  <2>2. closed => pendingReqs' = pendingReqs
    BY <1>4, EofInvokes
  <2>3. QED
    BY <2>1, <2>2 DEF Handles
<1>5. CASE DispatchEnd
  <2>1. /\ frames # <<>> /\ pendingReqs' = pendingReqs - 1 /\ closed' = closed
        /\ IF closed /\ pendingReqs' = 0 THEN CloseHandle ELSE UNCHANGED <<handle, closes>>
    BY <1>5 DEF DispatchEnd
  <2>2. pendingReqs \in Nat \ {0}
    BY <1>1, <2>1, HeadIsElement
  <2>3. QED
    BY <1>1, <2>1, <2>2 DEF Handles, CloseHandle
<1>6. CASE Close
  BY <1>1, <1>6 DEF Close, CloseHandle, Handles, queueVars
<1>7. CASE CloseCb
  BY <1>1, <1>7 DEF CloseCb, Handles, queueVars
<1>8. QED
  BY <1>2, <1>3, <1>4, <1>5, <1>6, <1>7 DEF Next, Handles

-----------------------------------------------------------------------------
(***************************************************************************)
(* The end of the file.                                                    *)
(***************************************************************************)

LEMMA EofAppended ==
  ASSUME NEW q \in Seq(Event), NEW count \in 0 .. Capacity, NEW eof \in BOOLEAN
  PROVE  EofAt(Append(q, [count |-> count, eof |-> eof]))
           = EofAt(q) \union (IF eof THEN {Len(q) + 1} ELSE {})
<1> DEFINE e == [count |-> count, eof |-> eof]
           a == Append(q, e)
<1>1. e \in Event /\ e.eof = eof
  BY DEF Event
<1> HIDE DEF e
<1>2. /\ Len(q) \in Nat /\ DOMAIN q = 1 .. Len(q) /\ DOMAIN a = 1 .. Len(q) + 1
      /\ a[Len(q) + 1] = e /\ \A i \in 1 .. Len(q) : a[i] = q[i]
  BY <1>1, AppendFacts
<1> HIDE DEF a
<1>3. \A i \in 1 .. Len(q) + 1 : i \in 1 .. Len(q) \/ i = Len(q) + 1
  BY <1>2
<1>4. 1 .. Len(q) \subseteq 1 .. Len(q) + 1 /\ Len(q) + 1 \in 1 .. Len(q) + 1
  BY <1>2
<1>5. EofAt(a) = EofAt(q) \union (IF eof THEN {Len(q) + 1} ELSE {})
  <2>1. ASSUME NEW i \in EofAt(a) PROVE i \in EofAt(q) \/ (eof /\ i = Len(q) + 1)
    BY <1>1, <1>2, <1>3, <2>1, Zenon DEF EofAt
  <2>2. ASSUME NEW i \in EofAt(q) PROVE i \in EofAt(a)
    BY <1>2, <1>4, <2>2, Zenon DEF EofAt
  <2>3. ASSUME eof PROVE Len(q) + 1 \in EofAt(a)
    BY <1>1, <1>2, <1>4, <2>3, Zenon DEF EofAt
  <2>4. CASE eof
    BY <2>1, <2>2, <2>3, <2>4, Zenon
  <2>5. CASE ~eof
    BY <2>1, <2>2, <2>5, Zenon
  <2>6. QED
    BY <2>4, <2>5
<1>6. QED
  BY <1>5 DEF a, e

LEMMA EofTaken ==
  ASSUME NEW q \in Seq(Event), q # <<>>
  PROVE  /\ \A i \in EofAt(Tail(q)) : i + 1 \in EofAt(q) /\ i \in Nat \ {0}
         /\ q[1].eof <=> 1 \in EofAt(q)
<1> DEFINE t == Tail(q)
<1>1. Len(q) \in Nat \ {0} /\ DOMAIN q = 1 .. Len(q) /\ DOMAIN t = 1 .. Len(q) - 1
      /\ \A i \in 1 .. Len(q) - 1 : t[i] = q[i + 1]
  BY HeadIsElement
<1> HIDE DEF t
<1>2. ASSUME NEW i \in EofAt(t) PROVE i + 1 \in EofAt(q) /\ i \in Nat \ {0}
  <2>1. i \in 1 .. Len(q) - 1 /\ t[i].eof
    BY <1>1, <1>2 DEF EofAt
  <2>2. i + 1 \in 1 .. Len(q) /\ i \in Nat \ {0}
    BY <1>1, <2>1
  <2>3. q[i + 1].eof
    BY <1>1, <2>1
  <2>4. QED
    BY <1>1, <2>2, <2>3 DEF EofAt
<1>3. 1 \in DOMAIN q
  BY <1>1
<1>4. q[1].eof <=> 1 \in EofAt(q)
  BY <1>3 DEF EofAt
<1>5. QED
  BY <1>2, <1>4 DEF t

LEMMA EndsStep ==
  ASSUME Types, RBufferInv, Bytes, Ends, Next
  PROVE  Ends'
<1>1. /\ eofs \in Nat /\ events \in Seq(Event) /\ Capacity \in Nat \ {0}
      /\ hungUp \in BOOLEAN /\ reading \in BOOLEAN
  BY SetupFacts DEF Types, Flags, QueueTypes, EndTypes
<1>2. ASSUME reading PROVE ~stopped /\ ~Announced /\ eofs = 0 /\ EofAt(events) = {}
  <2>1. ~stopped /\ ~Announced
    BY <1>2 DEF Ends
  <2>2. eofs = 0 /\ EofAt(events) = {}
    BY <1>1, <2>1 DEF Announced
  <2>3. QED
    BY <2>1, <2>2
<1>3. ASSUME NEW n \in 1 .. Capacity, ReadCb(n) PROVE Ends'
  <2>1. reading /\ reading' = ~stopped'
    BY <1>3, ReadFacts
  <2>2. eofs' = eofs
    BY <1>3 DEF ReadCb, consumerVars
  <2>3. EofAt(events') = {}
    <3>1. CASE closed
      BY <1>2, <1>3, <2>1, <3>1, ReadInvokes
    <3>2. CASE ~closed
      <4>1. events' = Append(events, [count |-> n, eof |-> FALSE])
        BY <1>3, <3>2, ReadInvokes
      <4>2. n \in 0 .. Capacity
        BY <1>1
      <4>3. EofAt(events') = EofAt(events) \union (IF FALSE THEN {Len(events) + 1} ELSE {})
        BY <1>1, <4>1, <4>2, EofAppended
      <4>4. QED
        BY <1>2, <2>1, <4>3
    <3>3. QED
      BY <3>1, <3>2
  <2>4. ~Announced' /\ eofs' = 0
    BY <1>2, <2>1, <2>2, <2>3 DEF Announced
  <2>5. reading' => ~stopped'
    BY <2>1, Zenon
  <2>6. eofs' <= 1 /\ \A i, j \in EofAt(events') : i = j
    BY <2>3, <2>4
  <2>7. QED
    BY <2>3, <2>4, <2>5, <2>6, Zenon DEF Ends
<1>4. CASE ReadEof
  <2>1. reading /\ reading' = FALSE /\ UNCHANGED <<stopped, hungUp, fpos, sent, eofs>>
    BY <1>4 DEF ReadEof, rbufferVars, peerVars, consumerVars
  <2>2. hungUp /\ fpos = sent
    <3>1. WriteCount # 0
      <4>1. ~stopped
        BY <1>2, <2>1
      <4>2. size # Capacity
        BY <4>1, Zenon DEF RBufferInv, StoppedIffFull
      <4>3. QED
        BY <4>2, RingNumbers
    <3>2. QED
      BY <1>4, <3>1 DEF ReadEof, NothingRead
  <2>3. EofAt(events') \subseteq {Len(events) + 1}
    <3>1. CASE closed
      BY <1>2, <1>4, <2>1, <3>1, EofInvokes
    <3>2. CASE ~closed
      <4>1. events' = Append(events, [count |-> 0, eof |-> TRUE])
        BY <1>4, <3>2, EofInvokes
      <4>2. 0 \in 0 .. Capacity
        BY <1>1
      <4>3. EofAt(events') = EofAt(events) \union (IF TRUE THEN {Len(events) + 1} ELSE {})
        BY <1>1, <4>1, <4>2, EofAppended
      <4>4. QED
        BY <1>2, <2>1, <4>3
    <3>3. QED
      BY <3>1, <3>2
  <2>4. eofs' = 0 /\ ~stopped'
    BY <1>2, <2>1
  <2>5. ~reading' /\ ~stopped' /\ hungUp' /\ fpos' = sent'
    BY <2>1, <2>2, <2>4, Zenon
  <2>6. eofs' <= 1 /\ ~(eofs' > 0) /\ \A i, j \in EofAt(events') : i = j
    BY <2>3, <2>4
  <2>7. QED
    BY <2>5, <2>6, Zenon DEF Ends
<1>5. CASE DispatchBegin
  <2>1. /\ events # <<>> /\ events' = Tail(events) /\ Head(events) = events[1]
    BY <1>5, FrameFacts
  <2>2. /\ eofs' = IF events[1].eof THEN eofs + 1 ELSE eofs
        /\ UNCHANGED <<hungUp, fpos, sent>>
    BY <1>5, <2>1 DEF DispatchBegin, peerVars
  <2>3. reading' = (reading \/ (stopped /\ ~stopped')) /\ (stopped' => stopped)
    BY <1>5, DispatchFacts
  <2>4. /\ \A i \in EofAt(events') : i + 1 \in EofAt(events) /\ i \in Nat \ {0}
        /\ events[1].eof <=> 1 \in EofAt(events)
    BY <1>1, <2>1, EofTaken
  <2>5. Announced' => Announced
    BY <2>2, <2>4 DEF Announced
  <2>6. reading' => ~stopped'
    BY <2>3 DEF Ends
  <2>7. Announced' => ~reading' /\ ~stopped' /\ hungUp' /\ fpos' = sent'
    BY <2>2, <2>3, <2>5, Zenon DEF Ends
  <2>8. CASE events[1].eof
    <3>1. eofs = 0
      BY <1>1, <2>4, <2>8 DEF Ends
    <3>2. EofAt(events') = {}
      <4>1. ASSUME NEW i \in EofAt(events') PROVE FALSE
        <5>1. i + 1 = 1 /\ i \in Nat \ {0}
          BY <2>4, <2>8, <4>1 DEF Ends
        <5>2. QED
          BY <5>1
      <4>2. QED
        BY <4>1
    <3>3. eofs' = 1
      BY <2>2, <2>8, <3>1
    <3>4. QED
      BY <2>6, <2>7, <3>2, <3>3 DEF Ends
  <2>9. CASE ~events[1].eof
    <3>1. eofs' = eofs
      BY <2>2, <2>9
    <3>2. \A i, j \in EofAt(events') : i = j
      <4>1. ASSUME NEW i \in EofAt(events'), NEW j \in EofAt(events') PROVE i = j
        <5>1. i + 1 = j + 1 /\ i \in Nat /\ j \in Nat
          BY <2>4, <4>1 DEF Ends
        <5>2. QED
          BY <5>1
      <4>2. QED
        BY <4>1
    <3>3. eofs' <= 1 /\ (eofs' > 0 => EofAt(events') = {})
      BY <2>4, <3>1 DEF Ends
    <3>4. QED
      BY <2>6, <2>7, <3>2, <3>3 DEF Ends
  <2>10. QED
    BY <2>8, <2>9
<1>6. CASE DispatchEnd
  <2>1. UNCHANGED <<hungUp, fpos, sent, events, eofs>>
    BY <1>6 DEF DispatchEnd, peerVars, consumerVars
  <2>2. reading' = (reading \/ (stopped /\ ~stopped')) /\ (stopped' => stopped)
    BY <1>6, EndFacts
  <2>3. Announced' = Announced /\ EofAt(events') = EofAt(events)
    BY <2>1 DEF Announced
  <2>4. reading' => ~stopped'
    BY <2>2 DEF Ends
  <2>5. Announced' => ~reading' /\ ~stopped' /\ hungUp' /\ fpos' = sent'
    BY <2>1, <2>2, <2>3, Zenon DEF Ends
  <2>6. QED
    BY <2>1, <2>3, <2>4, <2>5 DEF Ends
<1>7. CASE PeerWrite \/ PeerClose
  <2>1. ~hungUp /\ UNCHANGED <<events, eofs, reading, stopped>>
    BY <1>7 DEF PeerWrite, PeerClose, rbufferVars, queueVars, consumerVars
  <2>2. ~Announced' /\ EofAt(events') = EofAt(events)
    BY <2>1 DEF Ends, Announced
  <2>3. QED
    BY <2>1, <2>2 DEF Ends
<1>8. CASE Close \/ CloseCb
  <2>1. /\ UNCHANGED <<events, eofs, stopped, hungUp, fpos, sent>>
        /\ (reading' = FALSE \/ reading' = reading)
    BY <1>8 DEF Close, CloseCb, rbufferVars, peerVars, queueVars, consumerVars
  <2>2. Announced' = Announced /\ EofAt(events') = EofAt(events)
    BY <2>1 DEF Announced
  <2>3. QED
    BY <2>1, <2>2 DEF Ends
<1>9. QED
  BY <1>3, <1>4, <1>5, <1>6, <1>7, <1>8 DEF Next

-----------------------------------------------------------------------------
(***************************************************************************)
(* The order of the bytes.                                                 *)
(***************************************************************************)

\* One more event, behind the others.
LEMMA CutsAppended ==
  ASSUME NEW q \in Seq(Event), NEW e \in Event, NEW cut, CutsOf(cut, q)
  PROVE  \E c : /\ CutsOf(c, Append(q, e))
                /\ \A i \in 1 .. Len(q) + 1 : c[i] = cut[i]
                /\ c[Len(q) + 2] = cut[Len(q) + 1] + e.count
<1> DEFINE n == Len(q)
           a == Append(q, e)
           c == [i \in 1 .. n + 2 |-> IF i <= n + 1 THEN cut[i] ELSE cut[n + 1] + e.count]
<1>1. n \in Nat /\ Len(a) = n + 1 /\ a[n + 1] = e /\ \A i \in 1 .. n : a[i] = q[i]
  BY AppendFacts
<1>2. e.count \in Nat
  BY RStreamAssumption, RBufferAssumption DEF Event
<1> HIDE DEF n, a
<1>3. /\ cut \in [1 .. n + 1 -> Nat]
      /\ \A i \in 1 .. n : cut[i + 1] = cut[i] + q[i].count
      /\ \A i, j \in 1 .. n + 1 : i <= j => cut[i] <= cut[j]
  BY DEF CutsOf, n
<1>4. c \in [1 .. n + 2 -> Nat]
  BY <1>1, <1>2, <1>3
<1>5. /\ \A i \in 1 .. n + 1 : c[i] = cut[i]
      /\ c[n + 2] = cut[n + 1] + e.count
  BY <1>1
<1> HIDE DEF c
<1>6. ASSUME NEW i \in 1 .. n + 1 PROVE c[i + 1] = c[i] + a[i].count
  <2>1. CASE i = n + 1
    <3>1. i + 1 = n + 2 /\ n + 1 \in 1 .. n + 1
      BY <1>1, <2>1
    <3>2. QED
      BY <1>1, <1>5, <2>1, <3>1
  <2>2. CASE i # n + 1
    <3>1. i \in 1 .. n /\ i + 1 \in 1 .. n + 1
      BY <1>1, <2>2
    <3>2. QED
      BY <1>1, <1>3, <1>5, <3>1
  <2>3. QED
    BY <2>1, <2>2
<1>7. ASSUME NEW i \in 1 .. n + 2, NEW j \in 1 .. n + 2, i <= j PROVE c[i] <= c[j]
  <2>1. n + 1 \in 1 .. n + 1 /\ cut[n + 1] \in Nat
    BY <1>1, <1>3
  <2>2. CASE j <= n + 1
    BY <1>1, <1>3, <1>5, <1>7, <2>2, i \in 1 .. n + 1, j \in 1 .. n + 1
  <2>3. CASE j = n + 2
    <3>1. CASE i = n + 2
      BY <1>4, <2>3, <3>1
    <3>2. CASE i # n + 2
      <4>1. i \in 1 .. n + 1 /\ i <= n + 1
        BY <1>1, <3>2
      <4>2. cut[i] <= cut[n + 1] /\ cut[i] \in Nat
        BY <1>3, <2>1, <4>1
      <4>3. QED
        BY <1>2, <1>5, <2>1, <2>3, <4>1, <4>2
    <3>3. QED
      BY <3>1, <3>2
  <2>4. QED
    BY <1>1, <2>2, <2>3
<1>8. CutsOf(c, a)
  <2>1. n + 1 + 1 = n + 2
    BY <1>1
  <2>2. QED
    BY <1>1, <1>4, <1>6, <1>7, <2>1 DEF CutsOf
<1>9. QED
  BY <1>5, <1>8 DEF n, a

\* The first event is taken.
LEMMA CutsTaken ==
  ASSUME NEW q \in Seq(Event), q # <<>>, NEW cut, CutsOf(cut, q)
  PROVE  \E c : /\ CutsOf(c, Tail(q))
                /\ c[1] = cut[1] + q[1].count
                /\ \A i \in 1 .. Len(q) : c[i] = cut[i + 1]
                /\ \A i \in 1 .. Len(q) - 1 : Tail(q)[i] = q[i + 1]
<1> DEFINE n == Len(q)
           t == Tail(q)
           c == [i \in 1 .. n |-> cut[i + 1]]
<1>1. n \in Nat \ {0}
  BY HeadIsElement
<1>2. Len(t) = n - 1 /\ \A i \in 1 .. n - 1 : t[i] = q[i + 1]
  OBVIOUS
<1> HIDE DEF n, t
<1>3. /\ cut \in [1 .. n + 1 -> Nat]
      /\ \A i \in 1 .. n : cut[i + 1] = cut[i] + q[i].count
      /\ \A i, j \in 1 .. n + 1 : i <= j => cut[i] <= cut[j]
  BY DEF CutsOf, n
<1>4. c \in [1 .. n -> Nat]
  BY <1>1, <1>3
<1>5. \A i \in 1 .. n : c[i] = cut[i + 1]
  OBVIOUS
<1> HIDE DEF c
<1>6. ASSUME NEW i \in 1 .. n - 1 PROVE c[i + 1] = c[i] + t[i].count
  <2>1. i \in 1 .. n /\ i + 1 \in 1 .. n
    BY <1>1
  <2>2. cut[(i + 1) + 1] = cut[i + 1] + q[i + 1].count
    BY <1>3, <2>1
  <2>3. QED
    BY <1>2, <1>5, <2>1, <2>2
<1>7. ASSUME NEW i \in 1 .. n, NEW j \in 1 .. n, i <= j PROVE c[i] <= c[j]
  <2>1. i + 1 \in 1 .. n + 1 /\ j + 1 \in 1 .. n + 1 /\ i + 1 <= j + 1
    BY <1>1, <1>7
  <2>2. QED
    BY <1>3, <1>5, <2>1
<1>8. CutsOf(c, t)
  <2>1. (n - 1) + 1 = n
    BY <1>1
  <2>2. QED
    BY <1>2, <1>4, <1>6, <1>7, <2>1 DEF CutsOf
<1>9. c[1] = cut[1] + q[1].count
  BY <1>1, <1>3, <1>5, 1 \in 1 .. n
<1>10. QED
  BY <1>2, <1>5, <1>8, <1>9 DEF n, t

\* The cuts are all of the bytes that are in the ring, or of the one behind.
LEMMA CutsInRing ==
  ASSUME Types, Bytes, RBufferInv, NEW cut, Cuts(cut), NEW i \in 1 .. Len(events)
  PROVE  /\ Len(events) \in Nat /\ cut[i] \in Nat /\ cut[i + 1] \in Nat
         /\ Base + Taking <= cut[i] /\ cut[i + 1] <= fpos
         /\ cut[i + 1] = cut[i] + events[i].count
         /\ events[i].count \in Nat /\ Base \in Nat /\ Base + size = fpos
         /\ cut[i] + events[i].count <= Base + size
<1>1. events \in Seq(Event) /\ Len(events) \in Nat /\ fpos \in Nat /\ Base \in Nat
      /\ size \in Nat
  BY SetupFacts, RingNumbers DEF Types, QueueTypes, Bytes
<1>2. 1 \in 1 .. Len(events) + 1 /\ Len(events) + 1 \in 1 .. Len(events) + 1
      /\ i \in 1 .. Len(events) + 1 /\ i + 1 \in 1 .. Len(events) + 1
      /\ 1 <= i /\ i + 1 <= Len(events) + 1
  BY <1>1
<1>3. /\ cut[i] \in Nat /\ cut[i + 1] \in Nat /\ cut[Len(events) + 1] \in Nat
      /\ cut[1] <= cut[i] /\ cut[i + 1] <= cut[Len(events) + 1]
      /\ cut[i + 1] = cut[i] + events[i].count
  BY <1>2 DEF Cuts, CutsOf
<1>4. cut[1] = Base + Taking /\ cut[Len(events) + 1] <= fpos
  BY DEF Cuts
<1>5. events[i] \in Event
  BY <1>1
<1>6. events[i].count \in Nat
  BY <1>5, RStreamAssumption, RBufferAssumption DEF Event
<1>7. Base + size = fpos
  BY <1>1 DEF Base
<1>8. QED
  BY <1>1, <1>3, <1>4, <1>6, <1>7

\* Nothing that the order is about changes, but more may have been read into
\* the ring of a stream that announces nothing any more.
LEMMA OrderKept ==
  ASSUME Types, Order, UNCHANGED <<setup, shown, events, frames, rp>>, Base' = Base,
         fpos \in Nat, fpos' \in Nat, fpos <= fpos',
         closed => closed', ~closed' => fpos' = fpos
  PROVE  Order'
<1>1. Consumer' = Consumer /\ Nested' = Nested
  BY DEF Consumer, Nested
<1>2. Taking' = Taking /\ ShownLen' = ShownLen
  BY <1>1 DEF Taking, ShownLen
<1>3. ASSUME NEW cut, Cuts(cut) PROVE Cuts(cut)'
  <2>1. CutsOf(cut, events)'
    BY <1>3 DEF Cuts, CutsOf
  <2>2. cut[1] = Base' + Taking' /\ (~closed' => cut[Len(events') + 1] = fpos')
    BY <1>2, <1>3 DEF Cuts
  <2>3. cut[Len(events') + 1] <= fpos'
    <3>1. events \in Seq(Event) /\ Len(events) + 1 \in 1 .. Len(events) + 1
      BY DEF Types, QueueTypes
    <3>2. cut[Len(events) + 1] \in Nat /\ cut[Len(events) + 1] <= fpos
      BY <1>3, <3>1 DEF Cuts, CutsOf
    <3>3. QED
      BY <3>2
  <2>4. ASSUME NEW i \in 1 .. Len(events) PROVE InOnePiece(cut[i], events[i].count)'
    BY <1>3 DEF Cuts, InOnePiece, Unwrapped
  <2>5. QED
    BY <2>1, <2>2, <2>3, <2>4 DEF Cuts
<1>4. (\E cut : Cuts(cut)) => (\E cut : Cuts(cut)')
  BY <1>3
<1>5. QED
  BY <1>1, <1>2, <1>4 DEF Order

\* An event is queued for what was put at the write pointer.
LEMMA OrderAppended ==
  ASSUME Types, RBufferInv, Bytes, Order, ~closed,
         UNCHANGED <<setup, shown, frames, rp, closed>>, Base' = Base,
         NEW count \in 0 .. Capacity, NEW eof \in BOOLEAN,
         events' = Append(events, [count |-> count, eof |-> eof]),
         fpos' = fpos + count, wp + count <= Capacity
  PROVE  Order'
<1> DEFINE e == [count |-> count, eof |-> eof]
<1>1. Consumer' = Consumer /\ Nested' = Nested
  BY DEF Consumer, Nested
<1>2. Taking' = Taking /\ ShownLen' = ShownLen
  BY <1>1 DEF Taking, ShownLen
<1>3. /\ events \in Seq(Event) /\ e \in Event /\ e.count = count /\ Len(events) \in Nat
      /\ fpos \in Nat /\ count \in Nat
  BY SetupFacts DEF Types, QueueTypes, Event
<1> DEFINE n == Len(events)
<1>4. events' = Append(events, e)
  OBVIOUS
<1> HIDE DEF e
<1>5. Len(events') = n + 1 /\ events'[n + 1] = e /\ \A i \in 1 .. n : events'[i] = events[i]
  BY <1>3, <1>4, AppendFacts
<1>6. ASSUME NEW cut, Cuts(cut) PROVE \E c : Cuts(c)'
  <2>1. PICK c : /\ CutsOf(c, Append(events, e))
                 /\ \A i \in 1 .. n + 1 : c[i] = cut[i]
                 /\ c[n + 2] = cut[n + 1] + e.count
    BY <1>3, <1>6, CutsAppended DEF Cuts
  <2>2. /\ cut[1] = Base + Taking /\ cut[n + 1] = fpos
        /\ \A i \in 1 .. n : InOnePiece(cut[i], events[i].count)
    BY <1>6 DEF Cuts
  <2> HIDE DEF n
  <2>3. n \in Nat /\ 1 \in 1 .. n + 1 /\ n + 1 \in 1 .. n + 1 /\ (n + 1) + 1 = n + 2
    BY <1>3 DEF n
  <2>4. CutsOf(c, events')
    BY <1>4, <2>1
  <2>5. c[1] = Base' + Taking'
    BY <1>2, <2>1, <2>2, <2>3
  <2>6. c[Len(events') + 1] = fpos'
    BY <1>3, <1>5, <2>1, <2>2, <2>3
  <2>7. fpos' <= fpos'
    BY <1>3
  <2>8. ASSUME NEW i \in 1 .. n + 1
        PROVE  \/ rp + (c[i] - Base) + events'[i].count <= Capacity
               \/ rp + (c[i] - Base) >= Capacity
    <3>1. CASE i \in 1 .. n
      <4>1. c[i] = cut[i] /\ events'[i] = events[i]
        BY <1>5, <2>1, <2>3, <3>1
      <4>2. QED
        BY <2>2, <3>1, <4>1 DEF InOnePiece, Unwrapped
    <3>2. CASE i = n + 1
      <4>1. c[i] = fpos /\ events'[i].count = count
        BY <1>3, <1>5, <2>1, <2>2, <2>3, <3>2
      <4>2. /\ rp \in Nat /\ size \in Nat /\ Capacity \in Nat
            /\ wp = IF rp + size >= Capacity THEN rp + size - Capacity ELSE rp + size
        BY RingNumbers
      <4>3. rp + (fpos - Base) = rp + size
        BY <1>3, <4>2 DEF Base
      <4>4. QED
        BY <1>3, <4>1, <4>2, <4>3
    <3>3. i \in 1 .. n \/ i = n + 1
      BY <2>3
    <3>4. QED
      BY <3>1, <3>2, <3>3
  <2>9. (\A i \in 1 .. Len(events) : InOnePiece(c[i], events[i].count))'
    BY <1>5, <2>8 DEF InOnePiece, Unwrapped
  <2>10. Cuts(c)'
    <3>1. CutsOf(c, events)'
      BY <2>4 DEF CutsOf
    <3>2. QED
      BY <2>5, <2>6, <2>7, <2>9, <3>1 DEF Cuts
  <2>11. QED
    BY <2>10
<1>7. (\E cut : Cuts(cut)) => (\E cut : Cuts(cut)')
  BY <1>6
<1>8. QED
  BY <1>1, <1>2, <1>7 DEF Order

\* The bytes that come next are shown behind the others.
LEMMA ShownGrows ==
  ASSUME Types, Base \in Nat, Len(shown) = Base, \A i \in 1 .. Len(shown) : shown[i] = i,
         NEW bytes \in Seq(Byte \union {NoByte}), NEW m \in Nat, Len(bytes) = m,
         \A i \in 1 .. m : bytes[i] = Base + i,
         shown' = shown \o bytes
  PROVE  Len(shown') = Base + m /\ \A i \in 1 .. Len(shown') : shown'[i] = i
<1>1. shown \in Seq(Byte \union {NoByte})
  BY DEF Types, EndTypes
<1>2. /\ \A i \in 1 .. Len(shown) : (shown \o bytes)[i] = shown[i]
      /\ \A i \in 1 .. Len(bytes) : (shown \o bytes)[Len(shown) + i] = bytes[i]
  BY <1>1, ConcatFacts
<1> DEFINE s == shown \o bytes
<1>3. /\ \A i \in 1 .. Base : s[i] = i
      /\ \A i \in 1 .. m : s[Base + i] = Base + i
      /\ Len(s) = Base + m
  <2>1. \A i \in 1 .. Base : s[i] = i
    BY <1>2
  <2>2. \A i \in 1 .. m : s[Base + i] = Base + i
    BY <1>2
  <2>3. Len(s) = Len(shown) + Len(bytes)
    BY <1>1, ConcatLength
  <2>4. QED
    BY <2>1, <2>2, <2>3
<1> HIDE DEF s
<1>4. ASSUME NEW i \in 1 .. Base + m PROVE s[i] = i
  <2>1. CASE i <= Base
    BY <1>3, <2>1, i \in 1 .. Base
  <2>2. CASE i > Base
    <3>1. i - Base \in 1 .. m /\ Base + (i - Base) = i
      BY <2>2
    <3>2. QED
      BY <1>3, <3>1
  <2>3. QED
    BY <2>1, <2>2
<1>5. shown' = s
  BY DEF s
<1>6. QED
  BY <1>3, <1>4, <1>5

\* What a job is shown lies in one piece at the read pointer.
LEMMA JobSees ==
  ASSUME Types, RBufferInv, Bytes, events # <<>>, frames = <<>>,
         NEW cut, Cuts(cut)
  PROVE  LET c == events[1].count
         IN  /\ c \in 0 .. size
             /\ Len(AtReadPtr(c)) = c
             /\ \A i \in 1 .. c : AtReadPtr(c)[i] = Base + i
<1> DEFINE c == events[1].count
<1>1. 1 \in 1 .. Len(events)
  BY HeadIsElement DEF Types, QueueTypes
<1>2. Taking = 0
  BY DEF Taking
<1>3. cut[1] = Base + Taking /\ InOnePiece(cut[1], c)
  BY <1>1 DEF Cuts
<1>4. cut[1] \in Nat /\ c \in Nat /\ Base \in Nat /\ cut[1] + c <= Base + size
  BY <1>1, CutsInRing
<1>5. /\ rp \in Nat /\ rp < Capacity /\ Capacity \in Nat /\ size \in Nat
      /\ \A i \in 1 .. size : Content[i] = Get(i - 1)
  BY RingNumbers, RingContent
<1> HIDE DEF c
<1>6. c \in 0 .. size /\ rp + c <= Capacity
  BY <1>2, <1>3, <1>4, <1>5 DEF InOnePiece, Unwrapped
<1>7. Len(AtReadPtr(c)) = c
  BY <1>4 DEF AtReadPtr
<1>8. ASSUME NEW i \in 1 .. c PROVE AtReadPtr(c)[i] = Base + i
  <2>1. i \in 1 .. size /\ rp + i - 1 < Capacity /\ rp + (i - 1) = rp + i - 1
    BY <1>4, <1>5, <1>6
  <2>2. AtReadPtr(c)[i] = mem[rp + i - 1]
    BY <2>1 DEF AtReadPtr
  <2>3. Get(i - 1) = mem[rp + i - 1]
    <3>1. Wrapped(rp + (i - 1)) = rp + i - 1
      BY <1>5, <2>1 DEF Wrapped
    <3>2. QED
      BY <3>1 DEF Get
  <2>4. Content[i] = Get(i - 1) /\ Content[i] = Base + i
    BY <1>5, <2>1 DEF Bytes
  <2>5. QED
    BY <2>2, <2>3, <2>4
<1>9. QED
  BY <1>6, <1>7, <1>8 DEF c

LEMMA OrderBegin ==
  ASSUME Types, RBufferInv, Bytes, Order, DispatchBegin
  PROVE  Order'
<1> DEFINE c == TakenBy(events[1])
           n == Len(events)
<1>1. /\ events # <<>> /\ Head(events) = events[1] /\ events' = Tail(events)
      /\ Len(events') = n - 1 /\ n \in Nat /\ c \in 0 .. Capacity
      /\ frames' = <<c>> \o frames
      /\ frames' \in Seq(0 .. Capacity) /\ Len(frames') = Len(frames) + 1
  BY FrameFacts
<1>2. /\ events \in Seq(Event) /\ frames \in Seq(0 .. Capacity) /\ Capacity \in Nat
      /\ Consumer \in Consumers /\ Base \in Nat /\ fpos \in Nat
  BY SetupFacts DEF Types, QueueTypes, Bytes
<1>3. setup' = setup /\ fpos' = fpos /\ closed' = closed
  BY DEF DispatchBegin, peerVars, closeVars
<1>4. Consumer' = Consumer /\ Nested' = Nested
  BY <1>3 DEF Consumer, Nested
<1> HIDE DEF c, n
<1>5. ASSUME Consumer # "job" PROVE \A i \in 1 .. Len(frames') : frames'[i] = 0
  <2>1. c = 0 /\ \A i \in 1 .. Len(frames) : frames[i] = 0
    BY <1>5 DEF Order, c, TakenBy
  <2>2. <<c>> \in Seq(0 .. Capacity) /\ Len(<<c>>) = 1 /\ <<c>>[1] = c
    BY <1>1
  <2>3. /\ (<<c>> \o frames)[1] = c
        /\ \A i \in 1 .. Len(frames) : (<<c>> \o frames)[1 + i] = frames[i]
    BY <1>2, <2>2, ConcatFacts, 1 \in 1 .. 1
  <2>4. ASSUME NEW i \in 1 .. Len(frames) + 1 PROVE (<<c>> \o frames)[i] = 0
    <3>1. Len(frames) \in Nat
      BY <1>2
    <3>2. i = 1 \/ (i - 1 \in 1 .. Len(frames) /\ 1 + (i - 1) = i)
      BY <3>1
    <3>3. QED
      BY <2>1, <2>3, <3>2
  <2>5. QED
    BY <1>1, <2>4
<1>6. ASSUME ~Nested
      PROVE  /\ Len(frames') <= 1 /\ Len(shown') = ShownLen'
             /\ \A i \in 1 .. Len(shown') : shown'[i] = i
             /\ Consumer = "job" => (\E cut : Cuts(cut))'
  <2>1. frames = <<>>
    BY <1>6 DEF DispatchBegin
  <2>2. Len(frames') = 1 /\ frames' = <<c>>
    BY <1>1, <2>1
  <2>3. Taking = 0 /\ Taking' = c
    <3>1. frames' # <<>> /\ frames'[1] = c
      BY <2>2
    <3>2. QED
      BY <2>1, <3>1 DEF Taking
  <2>4. Len(shown) = ShownLen /\ \A i \in 1 .. Len(shown) : shown[i] = i
    BY <1>6 DEF Order
  <2>5. PICK bytes \in Seq(Byte \union {NoByte}), k \in 0 .. size : Given(bytes, k)
    BY DispatchFacts
  <2>6. size \in Nat /\ k \in Nat
    BY RingNumbers
  <2>7. shown' = shown \o bytes /\ Base' = Base + k
    BY <2>5 DEF Given
  <2>8. CASE Consumer \in {"read", "shell"}
    <3>1. Len(shown) = Base
      BY <2>4, <2>8 DEF ShownLen
    <3>2. Len(bytes) = k /\ \A i \in 1 .. k : bytes[i] = Base + i
      BY <2>5, <2>8 DEF Given
    <3>3. Len(shown') = Base + k /\ \A i \in 1 .. Len(shown') : shown'[i] = i
      BY <1>2, <2>4, <2>6, <2>7, <3>1, <3>2, ShownGrows
    <3>4. ShownLen' = Base'
      BY <1>4, <2>8 DEF ShownLen
    <3>5. QED
      BY <2>2, <2>7, <2>8, <3>3, <3>4
  <2>9. CASE Consumer = "none"
    <3>1. Len(shown) = 0 /\ bytes = <<>> /\ shown \in Seq(Byte \union {NoByte})
      BY <2>4, <2>5, <2>9 DEF ShownLen, Given, Types, EndTypes
    <3>2. shown' = shown
      BY <2>7, <3>1
    <3>3. ShownLen' = 0
      BY <1>4, <2>9 DEF ShownLen
    <3>4. QED
      BY <2>2, <2>4, <2>9, <3>1, <3>2, <3>3
  <2>10. CASE Consumer = "job"
    <3>1. c = events[1].count /\ k = 0 /\ bytes = AtReadPtr(c) /\ rp' = rp
      BY <1>1, <2>5, <2>10 DEF Given, c, TakenBy
    <3>2. PICK cut : Cuts(cut)
      BY <1>6, <2>10 DEF Order
    <3>3. /\ c \in 0 .. size /\ Len(bytes) = c /\ \A i \in 1 .. c : bytes[i] = Base + i
      BY <1>1, <2>1, <3>1, <3>2, JobSees
    <3>4. Len(shown) = Base
      BY <1>2, <2>3, <2>4, <2>10 DEF ShownLen
    <3>5. Len(shown') = Base + c /\ \A i \in 1 .. Len(shown') : shown'[i] = i
      <4>1. c \in Nat
        BY <2>6, <3>3
      <4>2. QED
        BY <1>2, <2>4, <2>7, <3>3, <3>4, <4>1, ShownGrows
    <3>6. Base' = Base
      BY <1>2, <2>7, <3>1
    <3>7. ShownLen' = Base + c
      BY <1>4, <2>3, <2>10, <3>6 DEF ShownLen
    <3>8. (\E x : Cuts(x))'
      <4>1. PICK d : /\ CutsOf(d, Tail(events))
                     /\ d[1] = cut[1] + events[1].count
                     /\ \A i \in 1 .. n : d[i] = cut[i + 1]
                     /\ \A i \in 1 .. n - 1 : Tail(events)[i] = events[i + 1]
        BY <1>1, <1>2, <3>2, CutsTaken DEF Cuts, n
      <4>2. n \in Nat \ {0} /\ n \in 1 .. n
        BY <1>1, <1>2, HeadIsElement DEF n
      <4>3. /\ cut[1] = Base + Taking /\ cut[n + 1] <= fpos
            /\ (~closed => cut[n + 1] = fpos)
            /\ \A i \in 1 .. n : InOnePiece(cut[i], events[i].count)
        BY <3>2 DEF Cuts, n
      <4>4. CutsOf(d, events)'
        BY <1>1, <4>1 DEF CutsOf
      <4>5. d[1] = Base' + Taking'
        BY <1>2, <2>3, <3>1, <3>6, <4>1, <4>3
      <4>6. d[Len(events') + 1] = cut[n + 1]
        BY <1>1, <4>1, <4>2
      <4>7. ASSUME NEW i \in 1 .. n - 1
            PROVE  \/ rp' + (d[i] - Base') + events'[i].count <= Capacity
                   \/ rp' + (d[i] - Base') >= Capacity
        <5>1. i + 1 \in 1 .. n /\ i \in 1 .. n
          BY <4>2
        <5>2. InOnePiece(cut[i + 1], events[i + 1].count)
          BY <4>3, <5>1
        <5>3. d[i] = cut[i + 1] /\ events'[i] = events[i + 1]
          BY <1>1, <4>1, <5>1
        <5>4. QED
          BY <3>1, <3>6, <5>2, <5>3 DEF InOnePiece, Unwrapped
      <4>8. (\A i \in 1 .. Len(events) : InOnePiece(d[i], events[i].count))'
        BY <1>1, <4>7 DEF InOnePiece, Unwrapped
      <4>9. Cuts(d)'
        BY <1>3, <4>3, <4>4, <4>5, <4>6, <4>8 DEF Cuts
      <4>10. QED
        BY <4>9
    <3>9. QED
      BY <2>2, <3>5, <3>7, <3>8
  <2>11. QED
    BY <1>2, <2>8, <2>9, <2>10 DEF Consumers
<1>7. QED
  BY <1>4, <1>5, <1>6 DEF Order

LEMMA OrderEnd ==
  ASSUME Types, RBufferInv, Bytes, Order, DispatchEnd
  PROVE  Order'
<1> DEFINE c == frames[1]
           n == Len(events)
<1>1. /\ frames # <<>> /\ frames' = Tail(frames)
      /\ UNCHANGED <<setup, fpos, events, closed, shown>>
  BY DEF DispatchEnd, peerVars, consumerVars
<1>2. /\ frames \in Seq(0 .. Capacity) /\ Consumer \in Consumers /\ Base \in Nat
  BY SetupFacts DEF Types, QueueTypes, Bytes
<1>3. Consumer' = Consumer /\ Nested' = Nested
  BY <1>1 DEF Consumer, Nested
<1>4. /\ c \in 0 .. size /\ Base' = Base + c
      /\ rp' = IF rp + c >= Capacity THEN rp + c - Capacity ELSE rp + c
  BY EndFacts
<1>5. Len(frames') = Len(frames) - 1 /\ Len(frames) \in Nat \ {0}
      /\ \A i \in 1 .. Len(frames) - 1 : frames'[i] = frames[i + 1]
  BY <1>1, <1>2, HeadIsElement
<1>6. Taking = c
  BY <1>1 DEF Taking
<1> HIDE DEF c, n
<1>7. ASSUME Consumer # "job" PROVE c = 0 /\ \A i \in 1 .. Len(frames') : frames'[i] = 0
  <2>1. \A i \in 1 .. Len(frames) : frames[i] = 0
    BY <1>7 DEF Order
  <2>2. \A i \in 1 .. Len(frames) - 1 : i + 1 \in 1 .. Len(frames)
    BY <1>5
  <2>3. 1 \in 1 .. Len(frames)
    BY <1>5
  <2>4. c = 0
    BY <2>1, <2>3 DEF c
  <2>5. QED
    BY <1>5, <2>1, <2>2, <2>4
<1>8. ASSUME ~Nested
      PROVE  /\ Len(frames') <= 1 /\ Len(shown') = ShownLen'
             /\ \A i \in 1 .. Len(shown') : shown'[i] = i
             /\ Consumer = "job" => (\E cut : Cuts(cut))'
  <2>1. /\ Len(frames) <= 1 /\ Len(shown) = ShownLen
        /\ \A i \in 1 .. Len(shown) : shown[i] = i
    BY <1>8 DEF Order
  <2>2. Len(frames') = 0 /\ Taking' = 0
    <3>1. Len(frames') = 0
      BY <1>5, <2>1
    <3>2. frames' \in Seq(0 .. Capacity)
      BY <1>1, <1>2
    <3>3. frames' = <<>>
      BY <3>1, <3>2
    <3>4. QED
      BY <3>1, <3>3 DEF Taking
  <2>3. size \in Nat /\ c \in Nat
    BY <1>4, RingNumbers
  <2>4. ShownLen' = ShownLen
    <3>1. CASE Consumer = "job"
      <4>1. ShownLen = Base + c /\ ShownLen' = Base' + 0
        BY <1>3, <1>6, <2>2, <3>1 DEF ShownLen
      <4>2. QED
        BY <1>2, <1>4, <2>3, <4>1
    <3>2. CASE Consumer \in {"read", "shell"}
      <4>1. ShownLen = Base /\ ShownLen' = Base'
        BY <1>3, <3>2 DEF ShownLen
      <4>2. QED
        BY <1>2, <1>4, <1>7, <3>2, <4>1
    <3>3. CASE Consumer = "none"
      BY <1>3, <3>3 DEF ShownLen
    <3>4. QED
      BY <1>2, <3>1, <3>2, <3>3 DEF Consumers
  <2>5. ASSUME Consumer = "job" PROVE (\E cut : Cuts(cut))'
    <3>1. PICK cut : Cuts(cut)
      BY <1>8, <2>5 DEF Order
    <3>2. /\ CutsOf(cut, events) /\ cut[1] = Base + Taking
          /\ cut[Len(events) + 1] <= fpos /\ (~closed => cut[Len(events) + 1] = fpos)
          /\ \A i \in 1 .. Len(events) : InOnePiece(cut[i], events[i].count)
      BY <3>1 DEF Cuts
    <3>3. CutsOf(cut, events)'
      BY <1>1, <3>2 DEF CutsOf
    <3>4. cut[1] = Base' + Taking'
      BY <1>2, <1>4, <1>6, <2>2, <2>3, <3>2
    <3>5. ASSUME NEW i \in 1 .. Len(events)
          PROVE  \/ rp' + (cut[i] - Base') + events[i].count <= Capacity
                 \/ rp' + (cut[i] - Base') >= Capacity
      <4>1. /\ cut[i] \in Nat /\ events[i].count \in Nat /\ Base + c <= cut[i]
            /\ cut[i] + events[i].count <= Base + size
        BY <1>6, <3>1, CutsInRing
      <4>2. rp \in Nat /\ Capacity \in Nat /\ size <= Capacity /\ rp < Capacity
        BY RingNumbers
      <4>3. InOnePiece(cut[i], events[i].count)
        BY <3>2
      <4> DEFINE b == cut[i]
                 k == events[i].count
      <4>4. rp + (b - Base) + k <= Capacity \/ rp + (b - Base) >= Capacity
        BY <4>3 DEF InOnePiece, Unwrapped
      <4> HIDE DEF b, k
      <4>5. b \in Nat /\ k \in Nat /\ Base + c <= b /\ b + k <= Base + size
        BY <4>1 DEF b, k
      <4>6. rp' + (b - Base') + k <= Capacity \/ rp' + (b - Base') >= Capacity
        <5>1. CASE rp + c >= Capacity
          <6>1. rp' + (b - Base') = rp + (b - Base) - Capacity
            BY <1>2, <1>4, <2>3, <4>2, <4>5, <5>1
          <6>2. QED
            BY <1>2, <2>3, <4>2, <4>5, <5>1, <6>1
        <5>2. CASE ~(rp + c >= Capacity)
          <6>1. rp' + (b - Base') = rp + (b - Base)
            BY <1>2, <1>4, <2>3, <4>2, <4>5, <5>2
          <6>2. QED
            BY <4>4, <6>1
        <5>3. QED
          BY <5>1, <5>2
      <4>7. QED
        BY <4>6 DEF b, k
    <3>6. (\A i \in 1 .. Len(events) : InOnePiece(cut[i], events[i].count))'
      BY <1>1, <3>5 DEF InOnePiece, Unwrapped
    <3>7. Cuts(cut)'
      BY <1>1, <3>2, <3>3, <3>4, <3>6 DEF Cuts
    <3>8. QED
      BY <3>7
  <2>6. QED
    BY <1>1, <2>1, <2>2, <2>4, <2>5
<1>9. QED
  BY <1>3, <1>7, <1>8 DEF Order

LEMMA OrderStep ==
  ASSUME Types, RBufferInv, Bytes, Ends, Order, Next
  PROVE  Order'
<1>1. fpos \in Nat /\ Capacity \in Nat \ {0}
  BY SetupFacts
<1>2. ASSUME NEW n \in 1 .. Capacity, ReadCb(n) PROVE Order'
  <2>1. /\ n \in Nat \ {0} /\ fpos' = fpos + n /\ Base' = Base /\ rp' = rp
        /\ wp + n <= Capacity
    BY <1>2, ReadFacts
  <2>2. UNCHANGED <<setup, shown, frames, closed>>
    BY <1>2 DEF ReadCb, peerVars, closeVars, consumerVars
  <2>3. CASE closed
    <3>1. events' = events
      BY <1>2, <2>3, ReadInvokes
    <3>2. fpos' \in Nat /\ fpos <= fpos'
      BY <1>1, <2>1
    <3>3. QED
      BY <1>1, <2>1, <2>2, <2>3, <3>1, <3>2, OrderKept
  <2>4. CASE ~closed
    <3>1. events' = Append(events, [count |-> n, eof |-> FALSE])
      BY <1>2, <2>4, ReadInvokes
    <3>2. n \in 0 .. Capacity
      BY <1>1
    <3>3. FALSE \in BOOLEAN
      OBVIOUS
    <3>4. QED
      BY <2>1, <2>2, <2>4, <3>1, <3>2, <3>3, OrderAppended
  <2>5. QED
    BY <2>3, <2>4
<1>3. CASE ReadEof
  <2>1. UNCHANGED <<setup, shown, frames, closed, fpos, rp, size>>
    BY <1>3 DEF ReadEof, rbufferVars, peerVars, closeVars, consumerVars
  <2>2. Base' = Base
    BY <2>1 DEF Base
  <2>3. CASE closed
    <3>1. events' = events
      BY <1>3, <2>3, EofInvokes
    <3>2. fpos' \in Nat /\ fpos <= fpos'
      BY <1>1, <2>1
    <3>3. QED
      BY <1>1, <2>1, <2>2, <2>3, <3>1, <3>2, OrderKept
  <2>4. CASE ~closed
    <3>1. events' = Append(events, [count |-> 0, eof |-> TRUE])
      BY <1>3, <2>4, EofInvokes
    <3>2. 0 \in 0 .. Capacity /\ fpos' = fpos + 0 /\ wp + 0 <= Capacity
      BY <1>1, <2>1, RingNumbers
    <3>3. TRUE \in BOOLEAN
      OBVIOUS
    <3>4. QED
      BY <2>1, <2>2, <2>4, <3>1, <3>2, <3>3, OrderAppended
  <2>5. QED
    BY <2>3, <2>4
<1>4. CASE PeerWrite \/ PeerClose \/ Close \/ CloseCb
  <2>1. UNCHANGED <<setup, shown, events, frames, rp, fpos, size>>
    BY <1>4 DEF PeerWrite, PeerClose, Close, CloseCb, rbufferVars, peerVars, queueVars,
                consumerVars
  <2>2. closed => closed'
    BY <1>4 DEF PeerWrite, PeerClose, Close, CloseCb, closeVars
  <2>3. Base' = Base
    BY <2>1 DEF Base
  <2>4. fpos' \in Nat /\ fpos <= fpos'
    BY <1>1, <2>1
  <2>5. QED
    BY <1>1, <2>1, <2>2, <2>3, <2>4, OrderKept
<1>5. QED
  BY <1>2, <1>3, <1>4, OrderBegin, OrderEnd DEF Next

-----------------------------------------------------------------------------
(***************************************************************************)
(* The induction.                                                          *)
(***************************************************************************)

LEMMA InitInv == Init => IndInv
<1> SUFFICES ASSUME Init PROVE IndInv
  OBVIOUS
<1>1. RBufferInv /\ size = 0 /\ stopped = FALSE
  <2>1. RBufferInv
    BY RingStarts DEF Init
  <2>2. size = 0 /\ stopped = FALSE
    BY DEF Init, RBufferInit
  <2>3. QED
    BY <2>1, <2>2
<1>2. /\ setup \in Setups /\ fpos = 0 /\ reading = TRUE /\ hungUp = IsFile
      /\ sent = IF IsFile THEN MaxBytes ELSE 0
      /\ events = <<>> /\ frames = <<>> /\ pendingReqs = 0
      /\ closed = FALSE /\ handle = "open" /\ closes = 0 /\ shown = <<>> /\ eofs = 0
  BY DEF Init
<1>3. setup \in Setup
  BY <1>2, RStreamAssumption, RBufferAssumption
<1>4. Consumer \in Consumers /\ IsFile \in BOOLEAN
  BY <1>3 DEF Setup, Consumer, IsFile
<1>5. MaxBytes \in Nat /\ Capacity \in Nat
  BY RStreamAssumption, RBufferAssumption
<1>6. Types
  <2>1. PeerTypes
    BY <1>2, <1>5 DEF PeerTypes
  <2>2. Flags
    BY <1>2, <1>4 DEF Flags
  <2>3. QueueTypes
    BY <1>2 DEF QueueTypes
  <2>4. EndTypes
    BY <1>2 DEF EndTypes
  <2>5. QED
    BY <2>1, <2>2, <2>3, <2>4 DEF Types
<1>7. Base = 0 /\ Bytes
  BY <1>1, <1>2 DEF Base, Bytes
<1>8. Handles
  BY <1>2 DEF Handles
<1>9. Ends
  <2>1. EofAt(events) = {}
    BY <1>2 DEF EofAt
  <2>2. ~Announced /\ eofs <= 1
    BY <1>2, <2>1 DEF Announced
  <2>3. QED
    BY <1>1, <2>1, <2>2 DEF Ends
<1>10. Order
  <2>1. Len(frames) = 0 /\ Len(shown) = 0 /\ Len(events) = 0
    BY <1>2
  <2>2. Taking = 0
    BY <1>2 DEF Taking
  <2>3. ShownLen = 0
    BY <1>4, <1>7, <2>2 DEF ShownLen, Consumers
  <2>4. \E cut : Cuts(cut)
    <3> DEFINE cut == [i \in 1 .. 1 |-> 0]
    <3>1. cut \in [1 .. 0 + 1 -> Nat] /\ cut[1] = 0 /\ cut[0 + 1] = 0
          /\ \A i, j \in 1 .. 0 + 1 : cut[i] <= cut[j]
      OBVIOUS
    <3> HIDE DEF cut
    <3>2. CutsOf(cut, events)
      BY <2>1, <3>1 DEF CutsOf
    <3>3. Cuts(cut)
      BY <1>2, <1>7, <2>1, <2>2, <3>1, <3>2 DEF Cuts
    <3>4. QED
      BY <3>3
  <2>5. QED
    BY <2>1, <2>3, <2>4 DEF Order
<1>11. QED
  BY <1>1, <1>6, <1>7, <1>8, <1>9, <1>10 DEF IndInv

LEMMA StutterInv ==
  ASSUME IndInv, UNCHANGED rstreamVars
  PROVE  IndInv'
<1>1. /\ UNCHANGED <<setup, sent, hungUp, fpos, reading, events, frames, pendingReqs>>
      /\ UNCHANGED <<closed, handle, closes, shown, eofs>>
      /\ UNCHANGED rbufferVars
  BY DEF rstreamVars, peerVars, queueVars, closeVars, consumerVars
<1>2. RBufferInv' /\ Bytes' /\ Base' = Base /\ stopped' = stopped
  BY <1>1, RingStays DEF IndInv
<1>3. Types'
  BY <1>1 DEF IndInv, Types, PeerTypes, Flags, QueueTypes, EndTypes
<1>4. Handles'
  BY <1>1 DEF IndInv, Handles
<1>5. Ends'
  BY <1>1, <1>2 DEF IndInv, Ends, Announced
<1>6. Order'
  <2>1. fpos \in Nat /\ fpos <= fpos' /\ fpos' \in Nat /\ rp' = rp
    BY <1>1, SetupFacts DEF IndInv, rbufferVars
  <2>2. QED
    BY <1>1, <1>2, <2>1, OrderKept DEF IndInv
<1>7. QED
  BY <1>2, <1>3, <1>4, <1>5, <1>6 DEF IndInv

LEMMA Inductive == Spec => []IndInv
<1>1. IndInv /\ [Next]_rstreamVars => IndInv'
  <2>1. ASSUME IndInv, Next PROVE IndInv'
    <3>1. Types /\ RBufferInv /\ Bytes /\ Handles /\ Ends /\ Order
      BY <2>1 DEF IndInv
    <3>2. Types' /\ RBufferInv' /\ Bytes'
      BY <2>1, <3>1, TypesStep, RingStep
    <3>3. Handles' /\ Ends' /\ Order'
      BY <2>1, <3>1, HandlesStep, EndsStep, OrderStep
    <3>4. QED
      BY <3>2, <3>3 DEF IndInv
  <2>2. QED
    BY <2>1, StutterInv
<1>2. QED
  BY <1>1, InitInv, PTL DEF Spec

-----------------------------------------------------------------------------
(***************************************************************************)
(* The counts: what is in the ring is what the events announced.           *)
(***************************************************************************)

\* The recursive sum is the last of the partial sums.
LEMMA TotalIs ==
  ASSUME NEW s \in Seq(Nat), NEW g, PartialSums(g, s, Len(s))
  PROVE  Total(s) = g[Len(s)] /\ Total(s) \in Nat
<1> DEFINE l == Len(s)
           Step(f) == [n \in 0 .. l |-> IF n = 0 THEN 0 ELSE f[n - 1] + s[n]]
           f == CHOOSE f : f = Step(f)
<1>1. l \in Nat /\ \A n \in 1 .. l : s[n] \in Nat
  OBVIOUS
<1> HIDE DEF l
<1>2. g = Step(g)
  <2>1. g = [n \in 0 .. l |-> g[n]]
    BY DEF PartialSums, l
  <2>2. ASSUME NEW n \in 0 .. l PROVE g[n] = IF n = 0 THEN 0 ELSE g[n - 1] + s[n]
    <3>1. n = 0 \/ n \in 1 .. l
      BY <1>1
    <3>2. QED
      BY <3>1 DEF PartialSums, l
  <2>3. QED
    BY <2>1, <2>2
<1>3. f = Step(f)
  BY <1>2
<1>4. Total(s) = f[l]
  BY DEF Total, l
<1>5. /\ f[0] = 0
      /\ \A i \in 1 .. l : f[i] = f[i - 1] + s[i]
  <2> HIDE DEF f
  <2>1. \A n \in 0 .. l : f[n] = IF n = 0 THEN 0 ELSE f[n - 1] + s[n]
    BY <1>3
  <2>2. QED
    BY <1>1, <2>1
<1> HIDE DEF f
<1>6. f[l] = g[l]
  BY <1>1, <1>5, SumsAgree DEF l
<1>7. QED
  BY <1>1, <1>4, <1>6 DEF PartialSums, l

LEMMA TotalIsNumber ==
  ASSUME NEW s \in Seq(Nat)
  PROVE  Total(s) \in Nat
BY SumsExist, TotalIs

LEMMA TotalEmpty ==
  Total(<<>>) = 0
<1> DEFINE s == <<>>
           g == [i \in 0 .. 0 |-> 0]
<1>1. s \in Seq(Nat) /\ Len(s) = 0
  OBVIOUS
<1>2. PartialSums(g, s, 0)
  BY DEF PartialSums
<1> HIDE DEF s
<1>3. Total(s) = g[0]
  BY <1>1, <1>2, TotalIs
<1>4. QED
  BY <1>3 DEF s

\* One element more, at the end.
LEMMA TotalGrows ==
  ASSUME NEW s \in Seq(Nat), NEW e \in Nat, NEW u \in Seq(Nat), Len(u) = Len(s) + 1,
         u[Len(s) + 1] = e, \A i \in 1 .. Len(s) : u[i] = s[i]
  PROVE  Total(u) = Total(s) + e
<1> DEFINE l == Len(s)
<1>1. l \in Nat
  OBVIOUS
<1>2. PICK g : PartialSums(g, s, l)
  BY SumsExist
<1> DEFINE h == [i \in 0 .. l + 1 |-> IF i <= l THEN g[i] ELSE g[l] + u[l + 1]]
<1>3. PartialSums(g, u, l)
  BY <1>2 DEF PartialSums
<1>4. PartialSums(h, u, l + 1)
  BY <1>1, <1>3, SumsGrow
<1>5. h[l + 1] = g[l] + e
  BY <1>1
<1>6. Total(s) = g[l] /\ Total(u) = h[l + 1]
  BY <1>2, <1>4, TotalIs
<1>7. QED
  BY <1>5, <1>6

\* One element more, at the front.
LEMMA TotalPushed ==
  ASSUME NEW s \in Seq(Nat), NEW e \in Nat, NEW u \in Seq(Nat), Len(u) = Len(s) + 1,
         u[1] = e, \A i \in 1 .. Len(s) : u[i + 1] = s[i]
  PROVE  Total(u) = e + Total(s)
<1> DEFINE l == Len(s)
<1>1. l \in Nat /\ Len(u) = l + 1
  OBVIOUS
<1>2. PICK g : PartialSums(g, s, l)
  BY SumsExist
<1> DEFINE h == [i \in 0 .. l + 1 |-> IF i = 0 THEN 0 ELSE e + g[i - 1]]
<1>3. \A i \in 1 .. l + 1 : i - 1 \in 0 .. l /\ g[i - 1] \in Nat
  <2> HIDE DEF l
  <2>1. \A i \in 1 .. l + 1 : i - 1 \in 0 .. l
    BY <1>1
  <2>2. g \in [0 .. l -> Nat]
    BY <1>2 DEF PartialSums
  <2>3. QED
    BY <2>1, <2>2
<1>4. h \in [0 .. l + 1 -> Nat] /\ h[0] = 0
  BY <1>3, SMTT(60)
<1>5. ASSUME NEW i \in 1 .. l + 1 PROVE h[i] = h[i - 1] + u[i]
  <2>1. CASE i = 1
    <3>1. g[0] = 0
      BY <1>2 DEF PartialSums
    <3>2. h[1] = e + g[0] /\ h[0] = 0
      BY <1>1
    <3>3. QED
      BY <2>1, <3>1, <3>2
  <2>2. CASE i # 1
    <3> DEFINE j == i - 1
    <3>1. j \in 1 .. l /\ i = j + 1
      BY <1>1, <2>2
    <3> HIDE DEF j
    <3>2. u[i] = s[j] /\ g[j] = g[j - 1] + s[j]
      BY <1>2, <3>1 DEF PartialSums
    <3>3. h[i] = e + g[j] /\ h[i - 1] = e + g[j - 1]
      BY <1>1, <3>1, SMTT(60)
    <3>4. s[j] \in Nat /\ g[j - 1] \in Nat
      BY <1>3, <3>1
    <3>5. QED
      BY <3>2, <3>3, <3>4
  <2>3. QED
    BY <2>1, <2>2
<1>6. PartialSums(h, u, l + 1)
  BY <1>4, <1>5 DEF PartialSums
<1>7. h[l + 1] = e + g[l]
  BY <1>1
<1> HIDE DEF h
<1>8. Total(s) = g[l] /\ Total(u) = h[l + 1]
  BY <1>1, <1>2, <1>6, TotalIs
<1>9. QED
  BY <1>7, <1>8

\* The counts of the events add up with those of the handlers.
Counted == Consumer = "job" /\ ~closed => size = Total(Counts(events)) + Total(frames)

LEMMA CountsFacts ==
  ASSUME NEW q \in Seq(Event)
  PROVE  /\ Counts(q) \in Seq(Nat) /\ Len(Counts(q)) = Len(q) /\ Len(q) \in Nat
         /\ \A i \in 1 .. Len(q) : Counts(q)[i] = q[i].count
<1>1. DOMAIN q = 1 .. Len(q) /\ Len(q) \in Nat /\ \A i \in 1 .. Len(q) : q[i].count \in Nat
  <2>1. DOMAIN q = 1 .. Len(q) /\ Len(q) \in Nat /\ \A i \in 1 .. Len(q) : q[i] \in Event
    OBVIOUS
  <2>2. \A e \in Event : e.count \in Nat
    BY RStreamAssumption, RBufferAssumption DEF Event
  <2>3. QED
    BY <2>1, <2>2
<1>2. Counts(q) = [i \in 1 .. Len(q) |-> q[i].count]
  BY <1>1 DEF Counts
<1>3. QED
  BY <1>1, <1>2

LEMMA FramesAreCounts ==
  ASSUME Types
  PROVE  frames \in Seq(Nat) /\ Len(frames) \in Nat
<1>1. frames \in Seq(0 .. Capacity) /\ Capacity \in Nat
  BY RStreamAssumption, RBufferAssumption DEF Types, QueueTypes
<1>2. QED
  BY <1>1

\* An event is queued.
LEMMA CountsGrow ==
  ASSUME Types, NEW n \in Nat, NEW e \in Event, e.count = n, events' = Append(events, e)
  PROVE  Total(Counts(events')) = Total(Counts(events)) + n
<1> DEFINE p == events
           q == events'
<1>1. p \in Seq(Event)
  BY DEF Types, QueueTypes
<1>2. /\ q \in Seq(Event) /\ Len(q) = Len(p) + 1 /\ q[Len(p) + 1] = e
      /\ \A i \in 1 .. Len(p) : q[i] = p[i]
  BY <1>1, PushFacts
<1> HIDE DEF p, q
<1>3. /\ Counts(p) \in Seq(Nat) /\ Len(Counts(p)) = Len(p) /\ Len(p) \in Nat
      /\ \A i \in 1 .. Len(p) : Counts(p)[i] = p[i].count
  BY <1>1, CountsFacts
<1>4. /\ Counts(q) \in Seq(Nat) /\ Len(Counts(q)) = Len(q)
      /\ \A i \in 1 .. Len(q) : Counts(q)[i] = q[i].count
  BY <1>2, CountsFacts
<1>5. Counts(q)[Len(p) + 1] = n /\ \A i \in 1 .. Len(p) : Counts(q)[i] = Counts(p)[i]
  BY <1>2, <1>3, <1>4
<1>6. Total(Counts(q)) = Total(Counts(p)) + n
  BY <1>2, <1>3, <1>4, <1>5, TotalGrows, ZenonT(60)
<1>7. QED
  BY <1>6 DEF p, q

\* The first event is taken.
LEMMA CountsShrink ==
  ASSUME Types, events # <<>>, events' = Tail(events)
  PROVE  Total(Counts(events)) = events[1].count + Total(Counts(events')) /\ events[1].count \in Nat
<1> DEFINE p == events
           q == events'
           e == p[1].count
<1>1. p \in Seq(Event)
  BY DEF Types, QueueTypes
<1>2. /\ q \in Seq(Event) /\ Len(p) = Len(q) + 1
      /\ \A i \in 1 .. Len(q) : p[i + 1] = q[i]
  BY <1>1
<1> HIDE DEF p, q
<1>3. /\ Counts(p) \in Seq(Nat) /\ Len(Counts(p)) = Len(p) /\ Len(p) \in Nat
      /\ \A i \in 1 .. Len(p) : Counts(p)[i] = p[i].count
  BY <1>1, CountsFacts
<1>4. /\ Counts(q) \in Seq(Nat) /\ Len(Counts(q)) = Len(q) /\ Len(q) \in Nat
      /\ \A i \in 1 .. Len(q) : Counts(q)[i] = q[i].count
  BY <1>2, CountsFacts
<1>5. /\ Counts(p)[1] = e /\ e \in Nat
      /\ \A i \in 1 .. Len(q) : Counts(p)[i + 1] = Counts(q)[i]
  <2>1. 1 \in 1 .. Len(p) /\ \A i \in 1 .. Len(q) : i + 1 \in 1 .. Len(p)
    BY <1>2, <1>4
  <2>2. Counts(p)[1] \in Nat
    BY <1>3, <2>1
  <2>3. QED
    BY <1>2, <1>3, <1>4, <2>1, <2>2
<1> HIDE DEF e
<1>6. Total(Counts(p)) = e + Total(Counts(q))
  BY <1>2, <1>3, <1>4, <1>5, TotalPushed, ZenonT(60)
<1>7. QED
  BY <1>5, <1>6 DEF p, q, e

\* A handler begins, and one ends.
LEMMA FramesGrow ==
  ASSUME Types, NEW n \in 0 .. Capacity, frames' = <<n>> \o frames
  PROVE  Total(frames') = n + Total(frames)
<1>1. frames \in Seq(Nat) /\ Len(frames) \in Nat /\ n \in Nat
  BY FramesAreCounts, RStreamAssumption, RBufferAssumption
<1> DEFINE p == frames
           q == frames'
<1>2. <<n>> \in Seq(Nat) /\ Len(<<n>>) = 1 /\ <<n>>[1] = n
  BY <1>1
<1>3. /\ q \in Seq(Nat) /\ Len(q) = 1 + Len(p) /\ q[1] = n
      /\ \A i \in 1 .. Len(p) : q[1 + i] = p[i]
  BY <1>1, <1>2, ConcatFacts, ConcatLength
<1> HIDE DEF p, q
<1>4. Len(q) = Len(p) + 1 /\ \A i \in 1 .. Len(p) : q[i + 1] = p[i]
  BY <1>1, <1>3 DEF p
<1>5. QED
  BY <1>1, <1>3, <1>4, TotalPushed DEF p, q

LEMMA FramesShrink ==
  ASSUME Types, frames # <<>>, frames' = Tail(frames)
  PROVE  Total(frames) = frames[1] + Total(frames')
<1>1. frames \in Seq(Nat)
  BY FramesAreCounts
<1> DEFINE p == frames
           q == frames'
<1>2. /\ q \in Seq(Nat) /\ Len(p) = Len(q) + 1 /\ p[1] \in Nat
      /\ \A i \in 1 .. Len(q) : p[i + 1] = q[i]
  BY <1>1
<1> HIDE DEF p, q
<1>3. Total(p) = p[1] + Total(q)
  BY <1>1, <1>2, TotalPushed DEF p
<1>4. QED
  BY <1>3 DEF p, q

LEMMA TotalsAreNumbers ==
  ASSUME Types
  PROVE  Total(Counts(events)) \in Nat /\ Total(frames) \in Nat
<1>1. events \in Seq(Event)
  BY DEF Types, QueueTypes
<1>2. Counts(events) \in Seq(Nat) /\ frames \in Seq(Nat)
  BY <1>1, CountsFacts, FramesAreCounts
<1>3. QED
  BY <1>2, TotalIsNumber

LEMMA CountedStep ==
  ASSUME Types, RBufferInv, Bytes, Ends, Counted, Next
  PROVE  Counted'
<1> DEFINE t == Total(Counts(events))
           u == Total(frames)
<1>1. size \in Nat /\ t \in Nat /\ u \in Nat
  BY RingNumbers, TotalsAreNumbers
<1>2. CASE PeerWrite \/ PeerClose \/ Close \/ CloseCb
  <2>1. /\ size' = size /\ events' = events /\ frames' = frames /\ setup' = setup
        /\ closed => closed'
    BY <1>2 DEF PeerWrite, PeerClose, Close, CloseCb, rbufferVars, queueVars, closeVars, peerVars
  <2>2. QED
    BY <2>1 DEF Counted, Consumer
<1>3. ASSUME NEW n \in 1 .. Capacity, ReadCb(n) PROVE Counted'
  <2>1. /\ size' = size + n /\ n \in Nat
        /\ frames' = frames /\ setup' = setup /\ closed' = closed
    BY <1>3, ReadFacts, ReadInvokes DEF ReadCb, peerVars, closeVars
  <2>2. CASE closed
    BY <2>1, <2>2 DEF Counted
  <2>3. CASE ~closed
    <3> DEFINE e == [count |-> n, eof |-> FALSE]
    <3>1. events' = Append(events, e)
      BY <1>3, <2>3, ReadInvokes
    <3>2. e \in Event /\ e.count = n
      BY RStreamAssumption, RBufferAssumption DEF Event
    <3> HIDE DEF e
    <3>3. Total(Counts(events')) = t + n
      BY <2>1, <3>1, <3>2, CountsGrow
    <3>4. Total(frames') = u /\ Consumer' = Consumer
      BY <2>1 DEF Consumer
    <3> HIDE DEF t, u
    <3>5. size = t + u => size + n = (t + n) + u
      BY <1>1, <2>1
    <3>6. QED
      BY <2>1, <2>3, <3>3, <3>4, <3>5 DEF Counted, t, u
  <2>4. QED
    BY <2>2, <2>3
<1>4. CASE ReadEof
  <2>1. /\ size' = size /\ frames' = frames /\ setup' = setup /\ closed' = closed
    BY <1>4 DEF ReadEof, peerVars, closeVars, rbufferVars
  <2>2. CASE closed
    BY <2>1, <2>2 DEF Counted
  <2>3. CASE ~closed
    <3> DEFINE e == [count |-> 0, eof |-> TRUE]
    <3>1. events' = Append(events, e)
      BY <1>4, <2>3, EofInvokes
    <3>2. e \in Event /\ e.count = 0
      BY RStreamAssumption, RBufferAssumption DEF Event
    <3> HIDE DEF e
    <3>3. Total(Counts(events')) = t + 0
      BY <3>1, <3>2, CountsGrow
    <3>4. t + 0 = t
      BY <1>1
    <3>5. Total(frames') = u /\ Consumer' = Consumer
      BY <2>1 DEF Consumer
    <3>6. QED
      BY <2>1, <2>3, <3>3, <3>4, <3>5 DEF Counted
  <2>4. QED
    BY <2>2, <2>3
<1>5. CASE DispatchBegin
  <2>1. SUFFICES ASSUME Consumer = "job", ~closed
                 PROVE  size' = Total(Counts(events')) + Total(frames')
    <3>1. Consumer' = Consumer /\ closed' = closed
      BY <1>5 DEF DispatchBegin, Consumer, peerVars, closeVars
    <3>2. QED
      BY <3>1 DEF Counted
  <2> DEFINE n == events[1].count
  <2>2. size' = size
    BY <1>5, <2>1 DEF DispatchBegin, rbufferVars
  <2>3. /\ events # <<>> /\ events' = Tail(events) /\ n \in 0 .. Capacity
        /\ frames' = <<n>> \o frames
    BY <1>5, <2>1, FrameFacts DEF TakenBy
  <2>4. t = n + Total(Counts(events')) /\ n \in Nat
    BY <2>3, CountsShrink
  <2> HIDE DEF n
  <2>5. Total(frames') = n + u
    BY <2>3, FramesGrow
  <2> DEFINE v == Total(Counts(events'))
  <2>6. v \in Nat
    <3>1. events' \in Seq(Event)
      BY <1>5, FrameFacts
    <3>2. Counts(events') \in Seq(Nat)
      BY <3>1, CountsFacts
    <3>3. QED
      BY <3>2, TotalIsNumber
  <2>7. size = t + u
    BY <2>1 DEF Counted
  <2> HIDE DEF t, u, v
  <2>8. size = v + (n + u)
    BY <1>1, <2>4, <2>6, <2>7 DEF v
  <2>9. QED
    BY <2>2, <2>5, <2>8 DEF v
<1>6. CASE DispatchEnd
  <2>1. SUFFICES ASSUME Consumer = "job", ~closed
                 PROVE  size' = Total(Counts(events')) + Total(frames')
    <3>1. Consumer' = Consumer /\ closed' = closed
      BY <1>6 DEF DispatchEnd, Consumer, peerVars
    <3>2. QED
      BY <3>1 DEF Counted
  <2> DEFINE n == frames[1]
  <2>2. frames # <<>> /\ frames' = Tail(frames) /\ events' = events
    BY <1>6 DEF DispatchEnd
  <2>3. size' = size - n /\ n \in 0 .. Capacity /\ n \in Nat
    BY <1>6, EndFacts, RStreamAssumption, RBufferAssumption
  <2>4. u = n + Total(frames')
    BY <2>2, FramesShrink
  <2> DEFINE v == Total(frames')
  <2>5. v \in Nat
    <3>1. Tail(frames) \in Seq(Nat)
      BY <2>2, FramesAreCounts
    <3>2. QED
      BY <2>2, <3>1, TotalIsNumber
  <2>6. size = t + u
    BY <2>1 DEF Counted
  <2> HIDE DEF n, t, u, v
  <2>7. size - n = t + v
    BY <1>1, <2>3, <2>4, <2>5, <2>6 DEF v
  <2>8. QED
    BY <2>2, <2>3, <2>7 DEF t, v
<1>7. QED
  BY <1>2, <1>3, <1>4, <1>5, <1>6 DEF Next

LEMMA CountedInductive == Spec => []Counted
<1>1. Init => Counted
  <2> SUFFICES ASSUME Init PROVE Counted
    OBVIOUS
  <2>1. size = 0 /\ events = <<>> /\ frames = <<>>
    BY DEF Init, RBufferInit
  <2>2. Counts(events) = <<>>
    BY <2>1 DEF Counts
  <2>3. QED
    BY <2>1, <2>2, TotalEmpty DEF Counted
<1>2. IndInv /\ Counted /\ [Next]_rstreamVars => Counted'
  <2>1. ASSUME IndInv, Counted, Next PROVE Counted'
    BY <2>1, CountedStep DEF IndInv
  <2>2. ASSUME Counted, UNCHANGED rstreamVars PROVE Counted'
    <3>1. UNCHANGED <<size, events, frames, closed, setup>>
      BY <2>2 DEF rstreamVars, rbufferVars, queueVars, closeVars, peerVars
    <3>2. QED
      BY <2>2, <3>1 DEF Counted, Consumer
  <2>3. QED
    BY <2>1, <2>2
<1>3. QED
  BY <1>1, <1>2, Inductive, PTL DEF Spec

-----------------------------------------------------------------------------
(***************************************************************************)
(* Theorems                                                                *)
(***************************************************************************)

\* The counts of the events and of the handlers, and the offsets, stay within
\* the ring and the bytes that the peer wrote, and pending_reqs is the number
\* of events and handlers that point to the stream.
THEOREM TypeCorrect == Spec => []TypeOK
<1>1. IndInv => TypeOK
  <2>1. ASSUME IndInv PROVE TypeOK
    <3>1. RBufferTypeOK /\ Types
      BY <2>1 DEF IndInv, RBufferInv
    <3>2. {hungUp, reading, closed} \subseteq BOOLEAN
      BY <3>1 DEF Types, Flags
    <3>3. QED
      BY <3>1, <3>2 DEF TypeOK, Types, PeerTypes, QueueTypes, EndTypes, Event
  <2>2. QED
    BY <2>1
<1>2. QED
  BY <1>1, Inductive, PTL

\* stream_close and read_event: the ring is freed behind the last event and
\* the last handler that point to it, and uv_close is called once.
THEOREM FreedAfterLast == Spec => []FreedLast
<1>1. IndInv => FreedLast
  <2>1. ASSUME IndInv PROVE FreedLast
    <3>1. /\ events \in Seq(Event) /\ frames \in Seq(0 .. Capacity)
          /\ pendingReqs = Len(events) + Len(frames)
      BY <2>1 DEF IndInv, Types, QueueTypes
    <3>2. closes <= 1 /\ (handle # "open" => pendingReqs = 0)
      BY <2>1 DEF IndInv, Handles
    <3>3. pendingReqs = 0 => events = <<>> /\ frames = <<>>
      <4>1. Len(events) \in Nat /\ Len(frames) \in Nat
        BY <3>1
      <4>2. pendingReqs = 0 => Len(events) = 0 /\ Len(frames) = 0
        BY <3>1, <4>1
      <4>3. QED
        BY <3>1, <4>2
    <3>4. QED
      BY <3>2, <3>3 DEF FreedLast
  <2>2. QED
    BY <2>1
<1>2. QED
  BY <1>1, Inductive, PTL

\* read_cb and fread_idle_cb: the end that is announced is the end, once, also
\* when a file is read into what is left of the ring.
THEOREM EndIsReal == Spec => []EofIsReal
<1>1. IndInv => EofIsReal
  <2>1. ASSUME IndInv PROVE EofIsReal
    <3>1. events \in Seq(Event) /\ DOMAIN events = 1 .. Len(events)
      BY <2>1 DEF IndInv, Types, QueueTypes
    <3>2. (\E i \in 1 .. Len(events) : events[i].eof) => EofAt(events) # {}
      BY <3>1 DEF EofAt
    <3>3. QED
      BY <2>1, <3>2 DEF IndInv, Ends, Announced, EofIsReal
  <2>2. QED
    BY <2>1
<1>2. QED
  BY <1>1, Inductive, PTL

\* rstream.c over rbuffer.c, and its consumers: the bytes that were read are
\* shown in their order, none twice, none skipped, none from beyond the wrap.
THEOREM InOrder == Spec => []ShownInOrder
<1>1. IndInv => (~Nested => \A i \in 1 .. Len(shown) : shown[i] = i)
  BY DEF IndInv, Order
<1>2. QED
  BY <1>1, Inductive, EndIsReal, PTL DEF ShownInOrder

\* read_event and on_job_output: the bytes in the ring of a job are those that
\* its events and its handlers have counts of, so that no rbuffer_consumed takes
\* more than there is.
THEOREM CountsExact == Spec => []CountsAreExact
<1>1. Counted /\ TypeOK => CountsAreExact
  BY DEF Counted, CountsAreExact
<1>2. QED
  BY <1>1, CountedInductive, TypeCorrect, PTL
=============================================================================

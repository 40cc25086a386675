------------------------------- MODULE RBuffer -------------------------------
(***************************************************************************)
(* rbuffer.c: the ring buffer between a stream and its consumer.  Pointers *)
(* are offsets from start_ptr.  A producer copies into the space that      *)
(* rbuffer_write_ptr returned and calls rbuffer_produced; a consumer reads *)
(* the bytes that rbuffer_read_ptr returned and calls rbuffer_consumed;    *)
(* rbuffer_write and rbuffer_read do so in at most two chunks, the second  *)
(* one after the wrap.  full_cb and nonfull_cb stop and start the stream.  *)
(***************************************************************************)
EXTENDS Integers, Sequences

CONSTANTS Byte,       \* the bytes
          Capacity,   \* rbuffer_capacity
          NoByte      \* what memory holds before it is written

ASSUME RBufferAssumption == Capacity \in Nat \ {0}

VARIABLES mem,        \* the memory from start_ptr to end_ptr
          rp,         \* read_ptr
          wp,         \* write_ptr
          size,       \* size
          stopped,    \* full_cb was called, nonfull_cb not yet since
          out         \* the bytes the last consumer copied out

rbufferVars == <<mem, rp, wp, size, stopped, out>>

Offsets == 0 .. Capacity - 1

\* A pointer that reached end_ptr is wrapped; it never goes a full turn beyond.

Wrapped(ptr) == IF ptr >= Capacity THEN ptr - Capacity ELSE ptr

Space == Capacity - size

\* What rbuffer_write_ptr and rbuffer_read_ptr store in their second argument.
WriteCount ==
  IF size = Capacity THEN 0 ELSE IF wp >= rp THEN Capacity - wp ELSE rp - wp

ReadCount ==
  IF size = 0 THEN 0 ELSE IF rp < wp THEN wp - rp ELSE Capacity - rp

\* rbuffer_get: the byte at an index from the read pointer.
Get(index) == mem[Wrapped(rp + index)]

Content == [i \in 1 .. size |-> Get(i - 1)]

RBufferInit ==
  /\ mem = [o \in Offsets |-> NoByte]
  /\ rp = 0 /\ wp = 0 /\ size = 0
  /\ stopped = FALSE
  /\ out = <<>>

\* memcpy of the first head bytes to the write pointer, and of the others, up
\* to the n-th, to start_ptr.
Copied(bytes, head, n) ==
  [o \in Offsets |-> IF o \in wp .. wp + head - 1 THEN bytes[o - wp + 1]
                     ELSE IF o < n - head THEN bytes[head + o + 1]
                     ELSE mem[o]]

\* A producer fills the space that write_ptr gave it, in part or in full.
Produced(bytes) ==
  /\ Len(bytes) \in 1 .. WriteCount
  /\ mem' = Copied(bytes, Len(bytes), Len(bytes))
  /\ wp' = Wrapped(wp + Len(bytes))
  /\ size' = size + Len(bytes)
  /\ stopped' = (stopped \/ size' = Capacity)
  /\ UNCHANGED <<rp, out>>

\* rbuffer_consumed, after the bytes were copied from read_ptr ...
ReadContiguous(n) == [i \in 1 .. n |-> mem[rp + i - 1]]

\* Mutant: was_full is computed after the size changed.
ConsumeWasFullLate(n, bytes) ==
  /\ n \in 1 .. size
  /\ out' = bytes
  /\ rp' = Wrapped(rp + n)
  /\ size' = size - n
  /\ UNCHANGED <<mem, wp, stopped>>

\* ... or looked at one by one with rbuffer_get or rbuffer_cmp.
Consume(n, bytes) ==
  /\ n \in 1 .. size
  /\ out' = bytes
  /\ rp' = Wrapped(rp + n)
  /\ size' = size - n
  /\ stopped' = (stopped /\ size # Capacity)
  /\ UNCHANGED <<mem, wp>>

Consumed(n) == n <= ReadCount /\ Consume(n, ReadContiguous(n))
ConsumedBytes(n) == Consume(n, [i \in 1 .. n |-> Get(i - 1)])

\* rbuffer_write: all of it or until the buffer is full; what does not fit
\* before end_ptr goes to start_ptr.
Write(bytes) ==
  /\ Len(bytes) >= 1
  /\ LET n == IF Len(bytes) <= Space THEN Len(bytes) ELSE Space
         head == IF n <= WriteCount THEN n ELSE WriteCount
     IN  /\ n >= 1
         /\ mem' = Copied(bytes, head, n)
         /\ wp' = Wrapped(wp + n)
         /\ size' = size + n
  /\ stopped' = (stopped \/ size' = Capacity)
  /\ UNCHANGED <<rp, out>>

\* Mutant: the second chunk is read after the first one, beyond the wrap.
ReadUnwrapped(want) ==
  /\ want >= 1
  /\ LET n == IF want <= size THEN want ELSE size
         head == IF n <= ReadCount THEN n ELSE ReadCount
     IN  Consume(n, [i \in 1 .. n |-> IF i <= head THEN mem[rp + i - 1] ELSE mem[i - 1]])

\* rbuffer_read: as much as there is, in one or two chunks.
Read(want) ==
  /\ want >= 1
  /\ LET n == IF want <= size THEN want ELSE size
         head == IF n <= ReadCount THEN n ELSE ReadCount
     IN  Consume(n, [i \in 1 .. n |-> IF i <= head THEN mem[rp + i - 1] ELSE mem[i - head - 1]])

\* Mutant: the write pointer keeps its place.
ResetReadOnly ==
  /\ mem' = [o \in Offsets |-> IF o < size THEN Content[o + 1] ELSE mem[o]]
  /\ rp' = 0
  /\ stopped' = (size = Capacity)
  /\ UNCHANGED <<wp, size, out>>

\* rbuffer_reset: everything is read into temp, the pointers go to the start,
\* and everything is written again.  A full buffer calls nonfull_cb and then
\* full_cb.
Reset ==
  /\ mem' = [o \in Offsets |-> IF o < size THEN Content[o + 1] ELSE mem[o]]
  /\ rp' = 0
  /\ wp' = Wrapped(size)
  /\ stopped' = (size = Capacity)
  /\ UNCHANGED <<size, out>>

\* rbuffer_cmp: memcmp of the bytes up to the end of the memory, then of the
\* rest from start_ptr.
Differ(s, t) == s # t

\* Mutant: the bytes after the wrap are not compared.
CmpFirstChunk(str) ==
  LET n == IF Len(str) <= ReadCount THEN Len(str) ELSE ReadCount
  IN  Differ(SubSeq(str, 1, n), [i \in 1 .. n |-> mem[rp + i - 1]])

CmpDiffers(str) ==
  LET count == Len(str)
      n == IF count <= ReadCount THEN count ELSE ReadCount
      front == Differ(SubSeq(str, 1, n), [i \in 1 .. n |-> mem[rp + i - 1]])
  IN  IF front \/ count = n \/ size = ReadCount
      THEN front
      ELSE Differ(SubSeq(str, n + 1, count), [i \in 1 .. count - n |-> mem[i - 1]])

Strings(max) == UNION {[1 .. n -> Byte] : n \in 1 .. max}

RBufferNext ==
  \/ \E bytes \in Strings(Capacity) : Produced(bytes)
  \/ \E bytes \in Strings(Capacity + 1) : Write(bytes)
  \/ \E n \in 1 .. Capacity : Consumed(n) \/ ConsumedBytes(n)
  \/ \E n \in 1 .. Capacity + 1 : Read(n)
  \/ Reset

RBufferSpec == RBufferInit /\ [][RBufferNext]_rbufferVars

-----------------------------------------------------------------------------
(***************************************************************************)
(* Properties                                                              *)
(***************************************************************************)

\* The types of the variables.
RBufferTypeOK ==
  /\ mem \in [Offsets -> Byte \union {NoByte}]
  /\ rp \in Offsets /\ wp \in Offsets
  /\ size \in 0 .. Capacity
  /\ stopped \in BOOLEAN
  /\ out \in Seq(Byte)

\* The pointers are size apart, on the ring: with rp = wp only size tells a
\* full buffer from an empty one.
PointersAgree == wp = Wrapped(rp + size)

\* Memory between the pointers was written.
ContentWritten == \A i \in 0 .. size - 1 : Get(i) \in Byte

\* The producer is stopped exactly while the buffer is full: a missed
\* nonfull_cb would stall the stream for ever, a missed full_cb lose bytes.
StoppedIffFull == stopped = (size = Capacity)

\* The inductive invariant.
RBufferInv == RBufferTypeOK /\ PointersAgree /\ ContentWritten /\ StoppedIffFull

\* rbuffer_cmp agrees with a comparison of the bytes that rbuffer_get returns,
\* across the wrap.
CmpIsByteWise ==
  \A str \in Strings(Capacity) :
    Len(str) <= size =>
      (CmpDiffers(str) <=> \E i \in 1 .. Len(str) : str[i] # Get(i - 1))

\* Whatever mix of the two interfaces is used, the buffer is a bounded FIFO:
\* bytes come out in the order they went in, none lost, none twice.
Fifo == INSTANCE BoundedFifo WITH content <- Content
ImplementsFifo == Fifo!Spec
=============================================================================

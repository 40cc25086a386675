----------------------------- MODULE BoundedFifo -----------------------------
(***************************************************************************)
(* What an RBuffer promises: a bounded first-in first-out sequence of      *)
(* bytes that tells its producer to stop exactly while it is full.         *)
(***************************************************************************)
EXTENDS Integers, Sequences

CONSTANTS Byte, Capacity

VARIABLES content,   \* the bytes produced and not yet consumed
          stopped,   \* the producer was told to stop
          out        \* the bytes the last consumer got

fifoVars == <<content, stopped, out>>

Init == content = <<>> /\ stopped = FALSE /\ out = <<>>

Put(bytes) ==
  /\ content' = content \o bytes
  /\ Len(content') <= Capacity
  /\ stopped' = (Len(content') = Capacity)
  /\ UNCHANGED out

Take(n) ==
  /\ n \in 1 .. Len(content)
  /\ out' = SubSeq(content, 1, n)
  /\ content' = SubSeq(content, n + 1, Len(content))
  /\ stopped' = FALSE

Next ==
  \/ \E n \in 1 .. Capacity : \E bytes \in [1 .. n -> Byte] : Put(bytes)
  \/ \E n \in 1 .. Capacity : Take(n)

Spec == Init /\ [][Next]_fifoVars
=============================================================================

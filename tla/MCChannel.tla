----------------------------- MODULE MCChannel -----------------------------
\* Two channels: a peer on a socket or a process that was started, which sends
\* all there is to send, but does not unsubscribe, and is called twice; and
\* another that is called in between: the program that embeds this one, or a
\* peer on a socket.
EXTENDS Channel

CONSTANTS c1, c2

MCChannels == {c1, c2}
First(i, j) == [c \in MCChannels |-> IF c = c1 THEN i ELSE j]

MCTypes == {First("socket", "stdio"), First("proc", "socket")}
MCKinds == First(AllKinds \ {"unsubscribe"}, {})
MCCalls == First(2, 1)
MCMessages == First(2, 0)
MCNotes == First(2, 0)
=============================================================================

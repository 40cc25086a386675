----------------------------- MODULE MCRStream -----------------------------
\* The streams of the program that differ in how they are read.
EXTENDS RStream

Job == [isFile |-> FALSE, consumer |-> "job", direct |-> FALSE, nested |-> FALSE]
Channel == [isFile |-> FALSE, consumer |-> "read", direct |-> TRUE, nested |-> FALSE]
Stdin == [Channel EXCEPT !.isFile = TRUE]
Shell == [isFile |-> FALSE, consumer |-> "shell", direct |-> TRUE, nested |-> FALSE]

\* shell.c with its output parameter NULL: read_cb is NULL.
Ignored == [Shell EXCEPT !.consumer = "none"]

\* A job whose callback waits, so that its events are handled inside it.
JobThatWaits == [Job EXCEPT !.nested = TRUE]

MCSetups == {Job, JobThatWaits, Channel, Stdin, Shell, Ignored}
=============================================================================

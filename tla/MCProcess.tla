------------------------------ MODULE MCProcess ------------------------------
\* Children that are stopped and closed at any time; a wait that lasts; waits
\* with a time; the exit of nvim.
EXTENDS Process

CONSTANTS a, b

Plain == [pty |-> {}, detached |-> {}, waits |-> {}, closes |-> {}, stops |-> Proc,
          late |-> FALSE, exits |-> FALSE]

Wait(p, ms) == [proc |-> p, ms |-> ms]

MCSetups == {[Plain EXCEPT !.pty = {b}, !.closes = {"out"}, !.late = TRUE],
             [Plain EXCEPT !.pty = {b}, !.waits = {Wait(b, "forever")}, !.stops = {a}],
             [Plain EXCEPT !.pty = {b}, !.waits = {Wait(a, "timed")}, !.stops = {}, !.exits = TRUE],
             [Plain EXCEPT !.pty = {b}, !.waits = {Wait(b, "timed")}, !.stops = {}, !.exits = TRUE],
             [Plain EXCEPT !.detached = {b}, !.exits = TRUE]}
=============================================================================

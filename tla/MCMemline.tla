------------------------------ MODULE MCMemline ------------------------------
\* Changes with few blocks in memory; changes and updates of the swap file with
\* room for all blocks, and with looks at lines between them; and one change
\* with faults.
EXTENDS Memline

MCFiles == {<<1, 1, 1, 1, 1>>, <<2, 2, 2>>}
MCPlans ==
  {[edits |-> 3, gets |-> 0, syncs |-> 0, faults |-> FALSE, usedMax |-> 4],
   [edits |-> 2, gets |-> 0, syncs |-> 1, faults |-> FALSE, usedMax |-> 7],
   [edits |-> 1, gets |-> 2, syncs |-> 2, faults |-> FALSE, usedMax |-> 7],
   [edits |-> 1, gets |-> 1, syncs |-> 1, faults |-> TRUE, usedMax |-> 4]}
=============================================================================

-------------------------------- MODULE MCUndo --------------------------------
\* Few changes of every form, and more changes of one line that make a tree,
\* with one write and a setting or with two writes between them.
EXTENDS Undo

MCPlans ==
  {[edits |-> 3, writes |-> 0, options |-> 1, levels |-> {9},
    forms |-> {"save", "sub", "ins", "del"}, jumps |-> FALSE],
   [edits |-> 4, writes |-> 1, options |-> 1, levels |-> {2, 9}, forms |-> {"sub"}, jumps |-> TRUE],
   [edits |-> 4, writes |-> 2, options |-> 0, levels |-> {2, 9}, forms |-> {"sub"}, jumps |-> TRUE]}
=============================================================================

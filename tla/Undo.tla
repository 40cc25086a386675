--------------------------------- MODULE Undo ---------------------------------
(***************************************************************************)
(* undo.c: the undo tree of one buffer.                                    *)
(*                                                                         *)
(* A header is known by its uh_seq and a text is a sequence of lines.      *)
(* What a change saves, what undo and redo replace, the branches, the      *)
(* headers that 'undolevels' frees, and the search of :undo N, g-, g+ and  *)
(* :earlier Nf are the program's; the cursor, the marks, the messages and  *)
(* the times are left out.  buf holds the fields of buf_T that undo.c      *)
(* uses.  uh_getbot_entry is NULL or the first entry: u_getbot clears it   *)
(* before another entry becomes the first.                                 *)
(***************************************************************************)
EXTENDS Integers, Sequences, FiniteSets, SequencesExt, FiniteSetsExt

CONSTANTS Plans,     \* the bounds of the model, see UndoAssumption
          MaxLines,  \* bound: lines of the buffer
          MaxNew     \* bound: lines that one change puts

\* A plan bounds the changes, the writes, and the settings of 'undolevels' and
\* uses of :undojoin, and says which forms of change and which values of
\* 'undolevels' there are (not 0, with which u undoes itself), and whether
\* there are jumps.
ASSUME UndoAssumption ==
  /\ {MaxLines, MaxNew} \subseteq Nat
  /\ \A p \in Plans : /\ {p.edits, p.writes, p.options} \subseteq Nat
                      /\ p.levels \subseteq Int \ {0}
                      /\ p.forms \subseteq {"save", "sub", "ins", "del"}
                      /\ p.jumps \in BOOLEAN

NULL == 0    \* a pointer to no header
Blank == 0   \* the empty line of an empty buffer

VARIABLES buf,       \* the fields of buf_T, see TypeOK
          plan,      \* the bounds of this behaviour
          ul,        \* 'undolevels'
          edits, writes, options,
          before,    \* for each header, the text before its change
          after,     \* and after it
          written,   \* the text of the file
          last       \* the last command, and where it was to go

vars == <<buf, plan, ul, edits, writes, options, before, after, written, last>>

FirstText == <<Blank>>

Init ==
  /\ buf = [lines |-> FirstText, heads |-> [h \in {} |-> 0], oldhead |-> NULL,
            newhead |-> NULL, curhead |-> NULL, numhead |-> 0, synced |-> TRUE,
            seqLast |-> 0, seqCur |-> 0, saveLast |-> 0, saveCur |-> 0,
            changed |-> FALSE, oldCurhead |-> NULL, err |-> FALSE]
  /\ plan \in Plans
  /\ ul \in plan.levels
  /\ edits = 0 /\ writes = 0 /\ options = 0
  /\ before = <<>> /\ after = <<>>
  /\ written = FirstText
  /\ last = [cmd |-> "none", to |-> 0]

-----------------------------------------------------------------------------
(***************************************************************************)
(* Pointers.  A store through a null pointer is one the code guards.       *)
(***************************************************************************)
SetPrev(b, h, x) == IF h = NULL THEN b ELSE [b EXCEPT !.heads[h].prev = x]
SetAltNext(b, h, x) == IF h = NULL THEN b ELSE [b EXCEPT !.heads[h].altNext = x]
SetAltPrev(b, h, x) == IF h = NULL THEN b ELSE [b EXCEPT !.heads[h].altPrev = x]

Len1(b) == Len(b.lines) + 1

\* The lines between top and bot are replaced; an empty buffer has one line.
Replaced(text, top, bot, new) ==
  LET t == SubSeq(text, 1, top) \o new \o SubSeq(text, bot, Len(text))
  IN  IF t = <<>> THEN <<Blank>> ELSE t

-----------------------------------------------------------------------------
(***************************************************************************)
(* Freeing.  oldCurhead is the variable of u_savecommon that the callees   *)
(* reset through uhpp.                                                     *)
(***************************************************************************)
RECURSIVE FreeBranch(_, _), FreeAll(_), FreeChain(_, _), Alternates(_, _)

\* u_freeentries
FreeEntries(b, h) ==
  [b EXCEPT !.heads = [x \in DOMAIN b.heads \ {h} |-> b.heads[x]],
            !.curhead = IF @ = h THEN NULL ELSE @,
            !.newhead = IF @ = h THEN NULL ELSE @,
            !.oldCurhead = IF @ = h THEN NULL ELSE @,
            !.numhead = @ - 1]

\* h and the branches that follow it.
Alternates(b, h) == IF h = NULL THEN {} ELSE {h} \union Alternates(b, b.heads[h].altNext)

FreeAlternates(b, h) ==
  IF b.heads[h].altNext = NULL THEN b ELSE FreeBranch(b, b.heads[h].altNext)

UnlinkOlder(b, x) ==
  IF x.next = NULL THEN [b EXCEPT !.oldhead = x.prev] ELSE SetPrev(b, x.next, x.prev)

UnlinkNewer(b, x) ==
  IF x.prev = NULL THEN [b EXCEPT !.newhead = x.next]
  ELSE [b EXCEPT !.heads = [y \in DOMAIN @ |->
          IF y \in Alternates(b, x.prev) THEN [@[y] EXCEPT !.next = x.next] ELSE @[y]]]

Unlinked(b, h, x) ==
  FreeEntries(UnlinkNewer(UnlinkOlder(SetAltNext(b, x.altPrev, NULL), x), x), h)
FreeAlone(b, h) == Unlinked(b, h, b.heads[h])

\* u_freeheader
FreeHeader(b, h) == FreeAlone(FreeAlternates(b, h), h)

FreeAll(b) == IF b.oldhead = NULL THEN b ELSE FreeAll(FreeHeader(b, b.oldhead))

FreeChain(b, h) ==
  IF h = NULL THEN b ELSE FreeChain(FreeEntries(FreeAlternates(b, h), h), b.heads[h].prev)

\* u_freebranch
FreeBranch(b, h) ==
  IF h = b.oldhead THEN FreeAll(b)
  ELSE FreeChain(SetAltNext(b, b.heads[h].altPrev, NULL), h)

RECURSIVE Trimmed(_, _), LastAlternate(_, _), FirstAlternate(_, _)
LastAlternate(b, h) ==
  IF b.heads[h].altNext = NULL THEN h ELSE LastAlternate(b, b.heads[h].altNext)
FirstAlternate(b, h) ==
  IF b.heads[h].altPrev = NULL THEN h ELSE FirstAlternate(b, b.heads[h].altPrev)

\* The loop of u_savecommon that keeps the number of headers right.
Trimmed(b, level) ==
  IF b.numhead <= level \/ b.oldhead = NULL THEN b
  ELSE Trimmed(IF b.oldhead # b.oldCurhead /\ b.heads[b.oldhead].altNext = NULL
               THEN FreeHeader(b, b.oldhead)
               ELSE FreeBranch(b, IF b.oldhead = b.oldCurhead THEN b.oldhead
                                  ELSE LastAlternate(b, b.oldhead)), level)

-----------------------------------------------------------------------------
(***************************************************************************)
(* Saving                                                                  *)
(***************************************************************************)
Entries(b) == b.heads[b.newhead].entries

\* u_getbot: the bottom of the entry e is where bot lines follow it.
BotFound(b, e, bot) ==
  [b EXCEPT !.heads[b.newhead].entries[1].bot = IF bot \in 1 .. Len(b.lines) THEN bot ELSE e.top + 1,
            !.heads[b.newhead].getbot = FALSE,
            !.err = @ \/ bot \notin 1 .. Len(b.lines),
            !.synced = TRUE]
BotOf(b, e) == BotFound(b, e, e.top + Len(e.lines) + 1 + Len(b.lines) - e.lcount)

GetBot(b) ==
  IF b.newhead = NULL \/ Entries(b) = <<>> THEN [b EXCEPT !.err = TRUE]
  ELSE IF ~b.heads[b.newhead].getbot THEN [b EXCEPT !.synced = TRUE]
  ELSE BotOf(b, Head(Entries(b)))

\* u_sync(TRUE)
Sync(b) ==
  IF b.synced THEN b
  ELSE IF ul < 0 THEN [b EXCEPT !.synced = TRUE]
  ELSE [GetBot(b) EXCEPT !.curhead = NULL]

\* The new header of u_savecommon; what was undone becomes its alternate.
HeaderOf(b, alt) ==
  [next |-> b.newhead, prev |-> NULL, altNext |-> alt,
   altPrev |-> IF alt = NULL THEN NULL ELSE b.heads[alt].altPrev,
   entries |-> <<>>, getbot |-> FALSE, changed |-> b.changed, saveNr |-> 0]
Linked(b, seq, x) == SetPrev(SetAltPrev(SetAltNext(b, x.altPrev, seq), x.altNext, seq), x.next, seq)
Added(b, seq, x) ==
  Linked([b EXCEPT !.heads = [h \in DOMAIN @ \union {seq} |-> IF h = seq THEN x ELSE @[h]],
                   !.oldhead = IF @ \in {NULL, x.altNext} THEN seq ELSE @,
                   !.newhead = seq, !.numhead = @ + 1, !.seqLast = seq, !.seqCur = seq,
                   !.oldCurhead = NULL],
         seq, x)
NewHeader(b) == Added(b, b.seqLast + 1, HeaderOf(b, b.oldCurhead))

\* u_getbot has to compute the bottom line.
ComputesBot(b, bot, newbot) == newbot = 0 /\ bot <= Len(b.lines)

Pushed(b, top, bot, newbot) ==
  LET e == [top |-> top, bot |-> newbot,
            lcount |-> IF ComputesBot(b, bot, newbot) THEN Len(b.lines) ELSE 0,
            lines |-> SubSeq(b.lines, top + 1, bot - 1)]
  IN  [b EXCEPT !.heads[b.newhead].entries = <<e>> \o @,
                !.heads[b.newhead].getbot = ComputesBot(b, bot, newbot),
                !.synced = FALSE]

\* Where the search for an entry of the same line stops.
LineCountChanged(b, i) ==
  LET e == Entries(b)[i] IN
  IF b.heads[b.newhead].getbot /\ i = 1 THEN e.lcount # Len(b.lines)
  ELSE e.top + Len(e.lines) + 1 # (IF e.bot = 0 THEN Len1(b) ELSE e.bot)

\* Mutant: the number of lines is not looked at.
GivesUpOverlapOnly(b, top, i) ==
  LET e == Entries(b)[i] IN
  Len(e.lines) > 1 /\ top >= e.top /\ top + 2 <= e.top + Len(e.lines) + 1

GivesUp(b, top, i) ==
  LET e == Entries(b)[i] IN
  \/ LineCountChanged(b, i)
  \/ Len(e.lines) > 1 /\ top >= e.top /\ top + 2 <= e.top + Len(e.lines) + 1

SameLine(b, top, i) == Len(Entries(b)[i].lines) = 1 /\ Entries(b)[i].top = top

\* The entry, among the ten last, that saved this line just before; or 0.
Reusable(b, top, bot) ==
  LET stops == {i \in 1 .. (IF Len(Entries(b)) < 10 THEN Len(Entries(b)) ELSE 10) :
                  GivesUp(b, top, i) \/ SameLine(b, top, i)}
  IN  IF bot - top - 1 # 1 \/ stops = {} \/ GivesUp(b, top, Min(stops)) THEN 0 ELSE Min(stops)

ReusedEntry(b, i, e, bot, newbot) ==
  [b EXCEPT !.synced = FALSE,
            !.heads[b.newhead].entries =
              <<IF newbot # 0 THEN [e EXCEPT !.bot = newbot]
                ELSE IF bot > Len(b.lines) THEN [e EXCEPT !.bot = 0]
                ELSE [e EXCEPT !.lcount = Len(b.lines)]>> \o RemoveAt(@, i),
            !.heads[b.newhead].getbot = @ \/ ComputesBot(b, bot, newbot)]
ReusedAt(b, i, bot, newbot) == ReusedEntry(b, i, Entries(b)[i], bot, newbot)
Reused(b, i, bot, newbot) == ReusedAt(IF i > 1 THEN GetBot(b) ELSE b, i, bot, newbot)

\* Nothing of the tree stays when there is no undo.
Forgotten(b) ==
  [(IF b.oldCurhead = NULL THEN b ELSE FreeBranch(b, b.oldCurhead)) EXCEPT !.synced = FALSE]

\* The header that was to be redone is the old one.
LeaveCurhead(b) ==
  IF b.curhead = NULL THEN b
  ELSE [b EXCEPT !.newhead = b.heads[b.curhead].next, !.curhead = NULL, !.oldCurhead = b.curhead]

SavedAgain(b, i, top, bot, newbot) ==
  IF i # 0 THEN Reused(b, i, bot, newbot) ELSE Pushed(GetBot(b), top, bot, newbot)

\* u_savecommon
Saved(b, top, bot, newbot) ==
  IF b.synced /\ ul < 0 THEN Forgotten(Trimmed(LeaveCurhead(b), ul))
  ELSE IF b.synced THEN Pushed(NewHeader(Trimmed(LeaveCurhead(b), ul)), top, bot, newbot)
  ELSE IF ul < 0 THEN b
  ELSE SavedAgain(b, Reusable(b, top, bot), top, bot, newbot)

-----------------------------------------------------------------------------
(***************************************************************************)
(* Undo and redo                                                           *)
(***************************************************************************)
RECURSIVE Swapped(_, _, _), SwappedEntry(_, _, _, _, _)

\* The entries are exchanged with the text, each with what it replaced, and
\* the list is reversed.
Swapped(text, entries, list) ==
  IF entries = <<>> THEN [lines |-> text, list |-> list, ok |-> TRUE]
  ELSE SwappedEntry(text, entries, list, Head(entries),
                    IF Head(entries).bot = 0 THEN Len(text) + 1 ELSE Head(entries).bot)

SwappedEntry(text, entries, list, e, bot) ==
  IF e.top > Len(text) \/ e.top >= bot \/ bot > Len(text) + 1
  THEN [lines |-> text, list |-> list, ok |-> FALSE]
  ELSE Swapped(Replaced(text, e.top, bot, e.lines), Tail(entries),
               <<[e EXCEPT !.lines = SubSeq(text, e.top + 1, bot - 1),
                           !.bot = e.top + Len(e.lines) + 1]>> \o list)

\* The header h, that was x, and the numbers after the exchange s.
Exchanged(b, isUndo, h, x, s) ==
  IF ~s.ok THEN [b EXCEPT !.lines = s.lines, !.changed = TRUE, !.err = TRUE]
  ELSE [b EXCEPT !.lines = s.lines,
                 !.heads[h].entries = s.list,
                 !.heads[h].changed = b.changed,
                 !.changed = x.changed,
                 !.seqCur = IF isUndo THEN h - 1 ELSE h,
                 !.saveCur = IF x.saveNr = 0 THEN @ ELSE IF isUndo THEN x.saveNr - 1 ELSE x.saveNr]

\* u_undoredo, for b_u_curhead.
UndoRedo(b, isUndo) ==
  Exchanged(b, isUndo, b.curhead, b.heads[b.curhead],
            Swapped(b.lines, b.heads[b.curhead].entries, <<>>))

\* u_undo: a step of u_doit, of the header h.
UndoneHeader(b, h) ==
  IF b.numhead = 0 \/ h = NULL THEN [b EXCEPT !.curhead = b.oldhead]
  ELSE UndoRedo([b EXCEPT !.curhead = h], TRUE)
UndoneSynced(b) ==
  UndoneHeader(b, IF b.curhead = NULL THEN b.newhead
                  ELSE IF ul > 0 THEN b.heads[b.curhead].next ELSE b.curhead)
Undone(b) == UndoneSynced(Sync(b))

\* Mutant: b_u_newhead is not moved to the end of the branch.
NextRedoKeepsNewhead(b, prev) == [b EXCEPT !.curhead = prev]

\* The header to be redone after this one, and the end of the branch.
NextRedo(b, prev) ==
  [b EXCEPT !.newhead = IF prev = NULL THEN b.curhead ELSE @, !.curhead = prev]

RedoCurhead(b) == NextRedo(UndoRedo(b, FALSE), b.heads[b.curhead].prev)

\* u_redo
Redone(b) == IF b.curhead = NULL \/ ul <= 0 THEN b ELSE RedoCurhead(b)

-----------------------------------------------------------------------------
(***************************************************************************)
(* undo_time.  uh_walk is a function of the call: each search has numbers  *)
(* of its own, "mark" and "nomark" here.                                   *)
(***************************************************************************)
RECURSIVE Search(_, _, _, _), SearchFrom(_, _, _, _, _), GoUp(_, _, _, _),
          FirstMarked(_, _, _), LastMarked(_, _, _), GoDown(_, _, _, _), GoDownFrom(_, _, _, _)

Abs(n) == IF n < 0 THEN -n ELSE n

\* The value that a search looks for: the number of a write or of a change.
Val(b, q, h) == IF q.file THEN b.heads[h].saveNr ELSE h

\* One more header was visited: is it the closest one, in the direction of
\* the search?
Closer(b, q, w, h, val) ==
  /\ q.first /\ ~(q.file /\ val = 0)
  /\ IF q.step < 0 THEN h <= b.seqCur ELSE h > b.seqCur
  /\ w.closest = q.start \/ Abs(val - q.target) <= Abs(w.closest - q.target)

Visited(b, q, w, h, val) ==
  IF Closer(b, q, w, h, val)
  THEN [w EXCEPT !.walk[h] = "mark", !.closest = val, !.closestSeq = h]
  ELSE [w EXCEPT !.walk[h] = "mark"]

NotVisited(w, h) == IF h = NULL THEN FALSE ELSE w.walk[h] = "none"

\* The walk: down, to the alternates, up, or back.
Search(b, q, w, h) ==
  IF h = NULL THEN [w EXCEPT !.found = NULL]
  ELSE IF Val(b, q, h) = q.target
  THEN [Visited(b, q, w, h, Val(b, q, h)) EXCEPT !.found = h]
  ELSE SearchFrom(b, q, Visited(b, q, w, h, Val(b, q, h)), h, b.heads[h])

SearchFrom(b, q, w, h, x) ==
  IF NotVisited(w, x.prev) THEN Search(b, q, w, x.prev)
  ELSE IF NotVisited(w, x.altNext) THEN Search(b, q, w, x.altNext)
  ELSE IF NotVisited(w, x.next) /\ x.altPrev = NULL
  THEN Search(b, q, IF h = b.curhead THEN [w EXCEPT !.walk[h] = "nomark"] ELSE w, x.next)
  ELSE Search(b, q, [w EXCEPT !.walk[h] = "nomark"], IF x.altPrev # NULL THEN x.altPrev ELSE x.next)

\* The header above the place of the buffer in the tree, or NULL.
Above(b) == IF b.curhead = NULL THEN b.newhead ELSE b.heads[b.curhead].next

\* First up the tree as much as needed.
GoUp(b, walk, target, above) ==
  IF Above(b) = NULL THEN [b |-> b, walk |-> walk]
  ELSE IF walk[Above(b)] # "mark" \/ (Above(b) = target /\ ~above) THEN [b |-> b, walk |-> walk]
  ELSE GoUp(UndoRedo([b EXCEPT !.curhead = Above(b)], TRUE),
            [walk EXCEPT ![Above(b)] = "nomark"], target, above)

IsMarked(walk, h) == IF h = NULL THEN FALSE ELSE walk[h] = "mark"
FirstMarked(b, walk, h) ==
  IF IsMarked(walk, b.heads[h].altPrev) THEN FirstMarked(b, walk, b.heads[h].altPrev) ELSE h
LastMarked(b, walk, h) ==
  IF IsMarked(walk, b.heads[h].altNext) THEN LastMarked(b, walk, b.heads[h].altNext) ELSE h

\* The branch x leaves its place among the alternates ...
TakenOut(b, x, n) == SetAltNext(SetAltPrev(b, n.altNext, n.altPrev), n.altPrev, n.altNext)
\* ... and comes before the first, f.
PutFirst(b, x, f) ==
  [SetAltPrev(SetAltNext(SetAltPrev(b, x, NULL), x, f), f, x)
     EXCEPT !.oldhead = IF @ = f THEN x ELSE @]

\* Mutant: the header above still leads to the branch used before.
MovedKeepsPrev(b, h, x) ==
  IF x = h THEN b ELSE PutFirst(TakenOut(b, x, b.heads[x]), x, FirstAlternate(b, h))

\* The branch x that is used becomes the first of the alternates of h.
Moved(b, h, x) ==
  IF x = h THEN b
  ELSE SetPrev(PutFirst(TakenOut(b, x, b.heads[x]), x, FirstAlternate(b, h)), b.heads[x].next, x)

\* And then down the tree, branching off where needed.
BranchOff(b, f, h) == [Moved(b, f, h) EXCEPT !.curhead = h]

GoDown(b, walk, target, above) ==
  IF b.curhead = NULL THEN b
  ELSE GoDownFrom(BranchOff(b, FirstMarked(b, walk, b.curhead),
                            LastMarked(b, walk, FirstMarked(b, walk, b.curhead))),
                  walk, target, above)

GoDownFrom(b, walk, target, above) ==
  IF walk[b.curhead] # "mark" THEN b
  ELSE IF b.curhead = target
  THEN IF above THEN [b EXCEPT !.seqCur = target - 1] ELSE RedoCurhead(b)
  ELSE IF IsMarked(walk, b.heads[b.curhead].prev) THEN GoDown(RedoCurhead(b), walk, target, above)
  ELSE [RedoCurhead(b) EXCEPT !.err = TRUE]

\* Where :undo N, g-, g+, :earlier Nf and :later Nf look first.
AbsoluteGoal(step) ==
  [file |-> FALSE, first |-> TRUE, step |-> step, start |-> -1,
   target |-> IF step = 0 THEN 1 ELSE step]

\* The write that counts as the last one, the changes since it being a step.
FileTarget(b, step) ==
  IF step > 0 \/ (IF Above(b) = NULL THEN FALSE ELSE b.heads[Above(b)].saveNr # 0) THEN b.saveCur + step
  ELSE b.saveCur + step + 1

\* By writes as far as there are any, and else to the first or last change.
Goal(b, step, target, byWrite, start) ==
  [file |-> byWrite, first |-> TRUE, step |-> step, start |-> start,
   target |-> IF step < 0 THEN (IF target < 0 THEN 0 ELSE target)
              ELSE IF target >= start THEN start - 1 ELSE target]
StepGoal(b, step, target) == Goal(b, step, target, FALSE, IF step < 0 THEN -1 ELSE b.seqLast + 2)
FileGoal(b, step, target) ==
  IF step < 0 THEN Goal(b, step, target, target > 0, -1)
  ELSE IF target <= b.saveLast THEN Goal(b, step, target, TRUE, b.saveLast + 2)
  ELSE StepGoal(b, step, b.seqLast + 1)

RelativeGoal(b, step, file) ==
  IF file THEN FileGoal(b, step, FileTarget(b, step)) ELSE StepGoal(b, step, b.seqCur + step)

Walked(b, q) ==
  Search(b, q, [walk |-> [h \in DOMAIN b.heads |-> "none"], found |-> NULL,
                closest |-> q.start, closestSeq |-> b.seqCur],
         IF b.curhead = NULL THEN b.newhead ELSE b.curhead)

\* Follow the path that a search found.
GoneDown(up, target, above) == GoDown(up.b, up.walk, target, above)
Gone(b, w, above) == GoneDown(GoUp(b, w.walk, w.found, above), w.found, above)

\* The second search is for the closest header that the first one met.
GoneClosest(b, w, step) == IF w.found = NULL THEN b ELSE Gone(b, w, step < 0)
Closest(q, w) == [q EXCEPT !.target = w.closestSeq, !.file = FALSE, !.first = FALSE]
TimedFound(b, q, w, step, absolute) ==
  IF w.found # NULL THEN Gone(b, w, absolute /\ step = 0)
  ELSE IF absolute \/ w.closest = q.start THEN b
  ELSE GoneClosest(b, Walked(b, Closest(q, w)), step)
TimedFor(b, q, step, absolute) == TimedFound(b, q, Walked(b, q), step, absolute)
TimedFrom(b, step, file, absolute) ==
  TimedFor(b, IF absolute THEN AbsoluteGoal(step) ELSE RelativeGoal(b, step, file), step, absolute)

\* undo_time
Timed(b, step, file, absolute) == TimedFrom(Sync(b), step, file, absolute)

-----------------------------------------------------------------------------
(***************************************************************************)
(* The commands of the user and of the callers                             *)
(***************************************************************************)
Does(cmd, to) == last' = [cmd |-> cmd, to |-> to]

\* The state after a change: of the tree, and of what the tree stands for.
With(f, h, text) == [x \in DOMAIN f \union {h} |-> IF x = h THEN text ELSE f[x]]
Changed(b, text) ==
  /\ buf' = [b EXCEPT !.lines = text, !.changed = TRUE]
  /\ after' = IF b.newhead = NULL THEN after ELSE With(after, b.newhead, text)
  /\ before' = IF b.newhead \in {NULL} \union DOMAIN before THEN before
               ELSE With(before, b.newhead, buf.lines)

\* A change: the lines between top and bot are saved and then replaced.
Change(top, bot, newbot, new) ==
  /\ edits < plan.edits
  /\ top < bot /\ bot <= Len(buf.lines) + 1
  /\ Len(buf.lines) - (bot - top - 1) + Len(new) <= MaxLines
  /\ edits' = edits + 1
  /\ Changed(Saved(buf, top, bot, newbot), Replaced(buf.lines, top, bot, new))
  /\ Does("change", 0)
  /\ UNCHANGED <<plan, ul, writes, options, written>>

\* What a change puts: n new lines.
New(n) == [i \in 1 .. n |-> 10 * (edits + 1) + i]

\* u_save: a command that may add and remove lines.
Save == \E top \in 0 .. MaxLines, bot \in 1 .. MaxLines + 1, n \in 0 .. MaxNew :
          /\ "save" \in plan.forms
          /\ n > 0 \/ bot > top + 1
          /\ Change(top, bot, 0, New(n))
\* u_savesub
SaveSub == "sub" \in plan.forms /\ \E l \in 1 .. MaxLines : Change(l - 1, l + 1, l + 1, New(1))
\* u_inssub
InsSub == "ins" \in plan.forms /\ \E l \in 1 .. MaxLines + 1 : Change(l - 1, l, l + 1, New(1))
\* u_savedel
SaveDel == "del" \in plan.forms /\ \E l \in 1 .. MaxLines, n \in 1 .. MaxLines :
             Change(l - 1, l + n, IF n = Len(buf.lines) THEN 2 ELSE l, <<>>)

\* The next key was typed.
SyncStep ==
  /\ ~buf.synced
  /\ buf' = Sync(buf)
  /\ Does("other", 0)
  /\ UNCHANGED <<plan, ul, edits, writes, options, before, after, written>>

\* ex_undojoin, which is a prefix of the change that it joins.
UndoJoin ==
  /\ options < plan.options
  /\ options' = options + 1
  /\ buf.newhead # NULL /\ buf.curhead = NULL /\ buf.synced /\ ul >= 0
  /\ buf' = [buf EXCEPT !.curhead = buf.newhead, !.synced = FALSE]
  /\ Does("other", 0)
  /\ UNCHANGED <<plan, ul, edits, writes, before, after, written>>

UndoStep ==
  /\ buf' = Undone(buf)
  /\ Does("other", 0)
  /\ UNCHANGED <<plan, ul, edits, writes, options, before, after, written>>

\* Typed: the key that was read has synced.
RedoStep ==
  /\ buf.synced
  /\ buf' = Redone(buf)
  /\ Does("other", 0)
  /\ UNCHANGED <<plan, ul, edits, writes, options, before, after, written>>

\* :undo N
UndoTo(n) ==
  /\ plan.jumps
  /\ buf' = Timed(buf, n, FALSE, TRUE)
  /\ Does("undo", n)
  /\ UNCHANGED <<plan, ul, edits, writes, options, before, after, written>>

\* g- and g+
Step(step) ==
  /\ plan.jumps
  /\ buf' = Timed(buf, step, FALSE, FALSE)
  /\ Does("step", RelativeGoal(Sync(buf), step, FALSE).target)
  /\ UNCHANGED <<plan, ul, edits, writes, options, before, after, written>>

\* :earlier Nf and :later Nf
FileStep(step) ==
  /\ plan.jumps
  /\ plan.writes > 0
  /\ buf' = Timed(buf, step, TRUE, FALSE)
  /\ \E q \in {RelativeGoal(Sync(buf), step, TRUE)} : Does(IF q.file THEN "file" ELSE "step", q.target)
  /\ UNCHANGED <<plan, ul, edits, writes, options, before, after, written>>

\* Mutant: only the branch in use is told that the file was written.
RECURSIVE UnchMain(_, _)
UnchMain(b, h) == IF h = NULL THEN {} ELSE {h} \union UnchMain(b, b.heads[h].prev)

RECURSIVE UnchBranch(_, _)
\* u_unch_branch
UnchBranch(b, h) ==
  IF h = NULL THEN {}
  ELSE {h} \union UnchBranch(b, b.heads[h].prev) \union UnchBranch(b, b.heads[h].altNext)

\* buf_write, when it was written: unchanged, u_unchanged, u_update_save_nr.
Write ==
  /\ writes < plan.writes
  /\ writes' = writes + 1
  /\ LET nr == buf.saveLast + 1
         h  == Above(buf)
         u  == UnchBranch(buf, buf.oldhead)
     IN  buf' = [buf EXCEPT !.changed = FALSE, !.saveLast = nr, !.saveCur = nr,
                            !.heads = [x \in DOMAIN @ |->
                                        [@[x] EXCEPT !.changed = @ \/ x \in u,
                                                     !.saveNr = IF x = h THEN nr ELSE @]]]
  /\ written' = buf.lines
  /\ Does("other", 0)
  /\ UNCHANGED <<plan, ul, edits, options, before, after>>

\* :set undolevels
SetLevels(level) ==
  /\ options < plan.options
  /\ options' = options + 1
  /\ buf' = Sync(buf)
  /\ ul' = level
  /\ Does("other", 0)
  /\ UNCHANGED <<plan, edits, writes, before, after, written>>

Next ==
  \/ Save \/ SaveSub \/ InsSub \/ SaveDel
  \/ SyncStep \/ UndoJoin \/ UndoStep \/ RedoStep \/ Write
  \/ \E n \in 0 .. buf.seqLast : UndoTo(n)
  \/ \E step \in {-2, -1, 1} : Step(step) \/ FileStep(step)
  \/ \E level \in plan.levels : SetLevels(level)

Spec == Init /\ [][Next]_vars

-----------------------------------------------------------------------------
(***************************************************************************)
(* Properties                                                              *)
(***************************************************************************)
Pointer == {NULL} \union DOMAIN buf.heads

\* No error that undo.c reports about its own data (E438, E439, E440, E685)
\* happens, every pointer leads to a header that is not freed, and there are
\* no more headers than 'undolevels' allows after a change.
TypeOK ==
  /\ ~buf.err /\ buf.oldCurhead = NULL
  /\ {buf.oldhead, buf.newhead, buf.curhead} \subseteq Pointer
  /\ \A h \in DOMAIN buf.heads :
       {buf.heads[h].next, buf.heads[h].prev, buf.heads[h].altNext, buf.heads[h].altPrev}
         \subseteq Pointer
  /\ last.cmd = "change" /\ ul >= 0 => buf.numhead <= ul + 1

RECURSIVE InTree(_, _, _)
\* u_check_tree: the headers seen from h, each with the pointers expected.
InTree(h, next, altPrev) ==
  IF h = NULL THEN <<>>
  ELSE LET x == buf.heads[h] IN
       <<[h |-> h, ok |-> x.next = next /\ x.altPrev = altPrev]>>
         \o InTree(x.altNext, x.next, h) \o InTree(x.prev, h, NULL)

\* u_check, the check of the program's own debugging build: the links of the
\* tree agree, every header is reached once, b_u_numhead counts them, and the
\* tree holds b_u_newhead and b_u_curhead.
TreeIsSound ==
  TypeOK /\ LET seen == InTree(buf.oldhead, NULL, NULL) IN
  /\ \A i \in DOMAIN seen : seen[i].ok
  /\ Len(seen) = buf.numhead /\ buf.numhead = Cardinality(DOMAIN buf.heads)
  /\ {seen[i].h : i \in DOMAIN seen} = DOMAIN buf.heads
  /\ buf.newhead = NULL => buf.oldhead = NULL \/ buf.curhead # NULL

\* The text is the one that belongs to the place in the tree: that before the
\* change to be redone, or that after the newest of the branch, whatever was
\* saved, joined, branched off and freed in between.
TextIsOfPosition ==
  IF buf.synced /\ buf.curhead # NULL THEN buf.lines = before[buf.curhead]
  ELSE buf.newhead # NULL /\ buf.curhead = NULL => buf.lines = after[buf.newhead]

\* A buffer that is not shown as modified has the text of the file, on
\* whichever branch it is.
NotModifiedIsWritten == ~buf.changed => buf.lines = written

\* undo.txt: a jump by number, by steps in time or by writes arrives at the
\* state that it names, if that is still in the tree, from any other one.
JumpsArrive ==
  LET n == last.to
      Saves == {h \in DOMAIN buf.heads : buf.heads[h].saveNr = n}
  IN  /\ last.cmd \in {"undo", "step"} /\ n \in DOMAIN buf.heads => buf.lines = after[n]
      /\ last.cmd \in {"undo", "step"} /\ n = 0 /\ 1 \in DOMAIN buf.heads => buf.lines = before[1]
      /\ last.cmd = "file" /\ n > 0 /\ Saves # {} => \E h \in Saves : buf.lines = after[h]
=============================================================================

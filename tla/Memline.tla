------------------------------- MODULE Memline -------------------------------
(***************************************************************************)
(* memline.c: the lines of a buffer, in a tree of blocks of Memfile, with  *)
(* the block used last kept locked and the line used last kept apart; the  *)
(* updates of the swap file and what ml_recover makes of it.               *)
(*                                                                         *)
(* A line is an identity and a size; a data block holds lines of DataSize  *)
(* together, a pointer block PtrMax entries.  Lines of a block, entries    *)
(* and places in the stack count from 1 here.                              *)
(***************************************************************************)
EXTENDS Memfile

CONSTANTS DataSize,   \* the size of the lines that fill a data block
          PtrMax,     \* pb_count_max
          Files,      \* the sizes of the lines of a file to edit: one of these
          Sizes,      \* the sizes of the lines that are put
          MaxLines,   \* bound: lines of the buffer
          Plans       \* the bounds of a behaviour, one of these

\* A plan bounds the changes, the times that a line is looked at and the
\* updates of the swap file, says whether others alter the file and fill the
\* disk, and gives the blocks in memory above which one is released.
\* A line that is pushed out of a block finds room in a new one.
ASSUME MemlineAssumption ==
  /\ PtrMax \in Nat \ {0, 1} /\ MaxLines \in Nat
  /\ \A p \in Plans : {p.edits, p.gets, p.syncs, p.usedMax} \subseteq Nat /\ p.faults \in BOOLEAN
  /\ \A f \in Files : f # <<>>
  /\ Sizes \union UNION {Range(f) : f \in Files} \subseteq 1 .. (DataSize + 1) \div 2

VARIABLES ml,       \* the memfile, with the fields of memline_T
          text,     \* the lines that the buffer should have
          orig,     \* the lines of the file that is edited
          altered,  \* the file was changed or deleted by someone else
          plan,     \* the bounds of this behaviour
          edits, gets, syncs,
          last      \* the last command

vars == <<ml, text, orig, altered, plan, edits, gets, syncs, last>>

None == -100
Blank == [id |-> 0, size |-> 1]
NoLine == [lnum |-> 0, dirty |-> FALSE, text |-> Blank]

SizeOf(lines) == FoldLeft(LAMBDA sum, l : sum + l.size, 0, lines)
CountOf(ents) == FoldLeft(LAMBDA sum, e : sum + e.count, 0, ents)
PtrBlock(ents) == [kind |-> "ptr", ents |-> ents]
DataBlock(lines) == [kind |-> "data", lines |-> lines]
Entry(b, count, old) == [bnum |-> b, count |-> count, old |-> old]

\* The lines of the locked block, and its db_free.
Lines(m) == m.mem[m.lock].lines
DbFree(m) == DataSize - SizeOf(Lines(m))

\* pe_old_lnum of an entry that is not given one.
Unknown == 0

-----------------------------------------------------------------------------
(***************************************************************************)
(* The tree                                                                *)
(***************************************************************************)
RECURSIVE LineAdd(_, _, _), LineAddAt(_, _, _, _)

\* ml_lineadd, for the first n blocks of the stack.
LineAdd(m, n, count) ==
  IF n = 0 THEN m ELSE LineAddAt(GetBlock(m, m.stack[n].bnum), n, m.stack[n], count)

LineAddAt(m, n, s, count) ==
  IF m.err THEN m
  ELSE LineAdd(PutBlock([m EXCEPT !.mem[s.bnum].ents[s.index].count = @ + count,
                                  !.stack[n].high = @ + count], s.bnum, TRUE, FALSE),
               n - 1, count)

\* ml_find_line(ML_FLUSH)
LockedPut(m) == IF m.lineadd = 0 THEN m ELSE LineAdd(m, Len(m.stack), m.lineadd)
Flush(m) ==
  IF m.lock = None THEN m
  ELSE LockedPut([PutBlock(m, m.lock, m.ldirty, m.lpos) EXCEPT !.lock = None])

\* What the action ML_INSERT, ML_DELETE or ML_FIND adds to the line counts.
Adds == [insert |-> 1, delete |-> -1, find |-> 0]

RECURSIVE Descend(_, _, _, _, _, _), DescendInto(_, _, _, _, _, _),
          DescendEntry(_, _, _, _, _, _, _), DescendChild(_, _, _, _, _, _, _)

\* The search downwards of ml_find_line: into block b, whose lines are those
\* from low to high.
Descend(m, b, lnum, low, high, action) ==
  DescendInto(GetBlock(m, b), b, lnum, low, high + Adds[action], action)

DescendInto(m, b, lnum, low, high, action) ==
  IF m.err THEN m
  ELSE IF m.mem[b].kind = "data"
  THEN [m EXCEPT !.lock = b, !.low = low, !.high = high, !.lineadd = 0, !.ldirty = FALSE, !.lpos = FALSE]
  ELSE DescendEntry(m, b, lnum, low, high, action,
                    SelectInSeq([i \in DOMAIN m.mem[b].ents |-> CountOf(SubSeq(m.mem[b].ents, 1, i))],
                                LAMBDA count : low + count > lnum))

DescendEntry(m, b, lnum, low, high, action, i) ==
  IF i = 0 THEN [m EXCEPT !.err = TRUE]
  ELSE DescendChild(
         [TransDel(m, m.mem[b].ents[i].bnum) EXCEPT
            !.stack = Append(@, [bnum |-> b, low |-> low, high |-> high, index |-> i])],
         b, i, lnum, low + CountOf(SubSeq(m.mem[b].ents, 1, i - 1)), action, m.mem[b].ents[i])

DescendChild(m, b, i, lnum, low, action, e) ==
  Descend(PutBlock([m EXCEPT !.mem[b].ents[i] = [e EXCEPT !.bnum = m.nr, !.count = @ + Adds[action]]],
                   b, m.nr # e.bnum \/ Adds[action] # 0, FALSE),
          m.nr, lnum, low, low + e.count - 1, action)

\* ml_find_line.  A line of the locked block is found at once, and the pointer
\* blocks learn later how many lines were added; a line that is only looked at
\* is searched from the last block of the stack that has it.
FindFrom(m, lnum, i) ==
  IF i = 0 THEN Descend([m EXCEPT !.stack = <<>>], 1, lnum, 1, m.count, "find")
  ELSE Descend([m EXCEPT !.stack = SubSeq(@, 1, i - 1)], m.stack[i].bnum, lnum,
               m.stack[i].low, m.stack[i].high, "find")

FindLine(m, lnum, action) ==
  IF m.lock # None /\ lnum \in m.low .. m.high
  THEN [m EXCEPT !.lineadd = @ + Adds[action], !.high = @ + Adds[action]]
  ELSE IF action = "find"
  THEN FindFrom(Flush(m), lnum,
                SelectLastInSeq(Flush(m).stack, LAMBDA s : lnum \in s.low .. s.high))
  ELSE Descend([Flush(m) EXCEPT !.stack = <<>>], 1, lnum, 1, m.count, action)

-----------------------------------------------------------------------------
(***************************************************************************)
(* Appending a line: ml_append_int                                         *)
(***************************************************************************)
RECURSIVE AddEntry(_, _, _, _, _), AddEntryAt(_, _, _, _, _, _, _)

\* pe_old_lnum is not written when it is unknown.
Placed(e, old) == IF e.old = Unknown THEN [e EXCEPT !.old = old] ELSE e

\* The entry i becomes two.  The second one has the place of the next entry,
\* that moved; a place that was not in use is taken to hold zero, where it may
\* hold what an earlier entry left there.
TwoEntries(ents, i, left, right) ==
  SubSeq(ents, 1, i - 1)
    \o <<Placed(left, ents[i].old), Placed(right, IF i < Len(ents) THEN ents[i + 1].old ELSE Unknown)>>
    \o SubSeq(ents, i + 1, Len(ents))

\* The pointer block has room.
EntryAdded(m, s, lineadd) ==
  IF lineadd = 0 THEN m ELSE [LineAdd(m, s - 1, lineadd) EXCEPT !.stack[s].high = @ + lineadd]
EntryPut(m, s, b, ents, lineadd) ==
  EntryAdded(PutBlock([m EXCEPT !.mem[b].ents = ents, !.stack = SubSeq(@, 1, s)], b, TRUE, FALSE),
             s, lineadd)

\* Block 1 is full: it points to a copy of itself, which is split then.
Rooted(m) ==
  PutBlock([m EXCEPT !.mem[1].ents = <<Entry(m.nr, m.count, 1)>>, !.stack[1].index = 1], 1, TRUE, FALSE)

\* The pointer block b is split: those behind the entry i go to the new block,
\* or the second of the two if there are none.
SplitEntries(m, s, b, new, l, r, lineadd) ==
  AddEntry(PutBlock(PutBlock([m EXCEPT !.mem[b].ents = l, !.mem[new].ents = r], b, TRUE, FALSE),
                    new, TRUE, FALSE),
           s, Entry(b, CountOf(l), Unknown), Entry(new, CountOf(r), Unknown), lineadd)

SplitPtr(m, s, b, new, i, two, lineadd) ==
  IF i + 1 = Len(two) THEN SplitEntries(m, s, b, new, SubSeq(two, 1, i), SubSeq(two, i + 1, i + 1), lineadd)
  ELSE SplitEntries(m, s, b, new, SubSeq(two, 1, i + 1), SubSeq(two, i + 2, Len(two)), lineadd)

SplitNew(m, s, b, i, two, lineadd) == SplitPtr(m, s, b, m.nr, i, two, lineadd)
NewPtr(m, s, b, i, two, lineadd) ==
  SplitNew(NewBlock(m, FALSE, PtrBlock(<<>>)), s, b, i, two, lineadd)
SplitRoot(m, i, two, lineadd) == NewPtr(m, 1, m.nr, i, two, lineadd)

\* The loop over the pointer blocks, from the one at place s of the stack.
AddEntry(m, s, left, right, lineadd) ==
  IF s = 0 THEN [m EXCEPT !.err = TRUE]
  ELSE AddEntryAt(GetBlock(m, m.stack[s].bnum), s, m.stack[s].bnum, m.stack[s].index,
                  left, right, lineadd)

AddEntryAt(m, s, b, i, left, right, lineadd) ==
  IF m.err THEN m
  ELSE IF Len(m.mem[b].ents) < PtrMax
  THEN EntryPut(m, s, b, TwoEntries(m.mem[b].ents, i, left, right), lineadd)
  ELSE IF b = 1
  THEN SplitRoot(Rooted(NewBlock(m, FALSE, m.mem[1])), i,
                 TwoEntries(m.mem[1].ents, i, left, right), lineadd)
  ELSE NewPtr(m, s - 1, b, i, TwoEntries(m.mem[b].ents, i, left, right), lineadd)

\* A data block was added to the locked one: this is flushed, without the
\* lines added, and the entry becomes two.
FlushUncounted(m) == Flush([m EXCEPT !.lineadd = 0])
BlockAdded(m, left, right, lineadd) == AddEntry(m, Len(m.stack), left, right, lineadd)

\* A new block in front of the locked one takes the line.
SplitFront(m, lnum) ==
  BlockAdded(FlushUncounted([PutBlock(m, m.nr, TRUE, FALSE) EXCEPT !.ldirty = TRUE]),
             Entry(m.nr, 1, lnum + 1), Entry(m.lock, Len(Lines(m)), Unknown), m.lineadd)

\* A new block behind the locked one takes the lines that follow; the line
\* goes where it has room.
SplitBehind(m, lnum, left, right, inLeft, newfile) ==
  BlockAdded(FlushUncounted([PutBlock(m, m.nr, TRUE, FALSE) EXCEPT
                         !.mem[m.lock].lines = left,
                         !.ldirty = @ \/ left # Lines(m),
                         !.lpos = @ \/ (~newfile /\ inLeft)]),
             Entry(m.lock, Len(left), Unknown),
             Entry(m.nr, Len(right), IF inLeft THEN lnum + 2 ELSE lnum + 1), m.lineadd)

SplitAt(m, lnum, line, newfile, l, r) ==
  IF r # <<>> /\ DbFree(m) + SizeOf(r) >= line.size
  THEN SplitBehind(NewBlock(m, newfile, DataBlock(r)), lnum, Append(l, line), r, TRUE, newfile)
  ELSE SplitBehind(NewBlock(m, newfile, DataBlock(<<line>> \o r)), lnum, l, <<line>> \o r, FALSE, newfile)

\* The line goes behind the first `at` lines of the locked block.
AppendIn(m, lnum, line, newfile, at) ==
  IF DbFree(m) >= line.size
  THEN [m EXCEPT !.mem[m.lock].lines = InsertAt(@, at + 1, line), !.ldirty = TRUE, !.lpos = @ \/ ~newfile]
  ELSE IF at = 0 THEN SplitFront(NewBlock(m, newfile, DataBlock(<<line>>)), lnum)
  ELSE SplitAt(m, lnum, line, newfile, SubSeq(Lines(m), 1, at), SubSeq(Lines(m), at + 1, Len(Lines(m))))

Counted(m) == [m EXCEPT !.count = @ + 1]
AppendNext(m, lnum, line, newfile) ==
  IF m.err THEN m ELSE AppendIn(Counted(m), lnum, line, newfile, 0)

\* Mutant: the first block keeps the count of a line that went to the next one.
AppendFoundKeepsCount(m, lnum, line, newfile) ==
  IF m.err THEN m
  ELSE IF DbFree(m) < line.size /\ lnum = m.high - 1 /\ lnum < m.count
  THEN AppendNext(FindLine([m EXCEPT !.high = @ - 1], lnum + 1, "insert"), lnum, line, newfile)
  ELSE AppendIn(Counted(m), lnum, line, newfile, IF lnum = 0 THEN 0 ELSE lnum - m.low + 1)

\* Without room behind the last line of a block it goes in front of the next.
AppendFound(m, lnum, line, newfile) ==
  IF m.err THEN m
  ELSE IF DbFree(m) < line.size /\ lnum = m.high - 1 /\ lnum < m.count
  THEN AppendNext(FindLine([m EXCEPT !.lineadd = @ - 1, !.high = @ - 1], lnum + 1, "insert"),
                  lnum, line, newfile)
  ELSE AppendIn(Counted(m), lnum, line, newfile, IF lnum = 0 THEN 0 ELSE lnum - m.low + 1)

AppendInt(m, lnum, line, newfile) ==
  AppendFound(FindLine(m, IF lnum = 0 THEN 1 ELSE lnum, "insert"), lnum, line, newfile)

-----------------------------------------------------------------------------
(***************************************************************************)
(* Deleting a line: ml_delete_int                                          *)
(***************************************************************************)
RECURSIVE DeleteEntry(_, _), DeleteEntryAt(_, _, _, _)

\* The data block is gone: its entry goes too, and every pointer block that
\* becomes empty.
EntryDeleted(m, s) ==
  IF m.lineadd = 0 THEN m ELSE [LineAdd(m, s - 1, m.lineadd) EXCEPT !.stack[s].high = @ + m.lineadd]

DeleteEntry(m, s) ==
  IF s = 0 THEN [m EXCEPT !.err = TRUE]
  ELSE DeleteEntryAt(GetBlock(m, m.stack[s].bnum), s, m.stack[s].bnum, m.stack[s].index)

DeleteEntryAt(m, s, b, i) ==
  IF m.err THEN m
  ELSE IF Len(m.mem[b].ents) = 1 THEN DeleteEntry(FreeBlock(m, b), s - 1)
  ELSE EntryDeleted(PutBlock([m EXCEPT !.mem[b].ents = RemoveAt(@, i), !.stack = SubSeq(@, 1, s)],
                             b, TRUE, FALSE), s)

DeleteFound(m, lnum) ==
  IF m.err THEN m
  ELSE IF Len(Lines(m)) = 1
  THEN DeleteEntry([FreeBlock(m, m.lock) EXCEPT !.lock = None, !.count = @ - 1], Len(m.stack))
  ELSE [m EXCEPT !.mem[m.lock].lines = RemoveAt(@, lnum - m.low + 1), !.count = @ - 1,
                 !.ldirty = TRUE, !.lpos = TRUE]

-----------------------------------------------------------------------------
(***************************************************************************)
(* The line used last: ml_flush_line, ml_replace, ml_get_buf               *)
(***************************************************************************)
Fits(m, i, line) == DbFree(m) >= line.size - Lines(m)[i].size

\* Mutant: the block is not put in the file.
FlushFoundStays(m, lnum, line) ==
  IF m.err THEN m
  ELSE IF Fits(m, lnum - m.low + 1, line)
  THEN [m EXCEPT !.mem[m.lock].lines[lnum - m.low + 1] = line, !.ldirty = TRUE]
  ELSE DeleteFound(FindLine(AppendInt(m, lnum, line, FALSE), lnum, "delete"), lnum)

FlushFound(m, lnum, line) ==
  IF m.err THEN m
  ELSE IF Fits(m, lnum - m.low + 1, line)
  THEN [m EXCEPT !.mem[m.lock].lines[lnum - m.low + 1] = line, !.ldirty = TRUE, !.lpos = TRUE]
  ELSE DeleteFound(FindLine(AppendInt(m, lnum, line, FALSE), lnum, "delete"), lnum)

FlushLine(m) ==
  IF m.line.dirty
  THEN [FlushFound(FindLine(m, m.line.lnum, "find"), m.line.lnum, m.line.text) EXCEPT !.line = NoLine]
  ELSE [m EXCEPT !.line = NoLine]

ReplaceLine(m, lnum, line) ==
  [(IF m.line.lnum = lnum THEN m ELSE FlushLine(m))
     EXCEPT !.line = [lnum |-> lnum, dirty |-> TRUE, text |-> line]]

\* The only line is replaced by an empty one.
DeleteLine(m, lnum) ==
  IF m.count = 1 THEN ReplaceLine(m, 1, Blank) ELSE DeleteFound(FindLine(m, lnum, "delete"), lnum)

Fetched(m, lnum) ==
  IF m.err THEN m
  ELSE [m EXCEPT !.line = [lnum |-> lnum, dirty |-> FALSE, text |-> Lines(m)[lnum - m.low + 1]]]
GetLine(m, lnum) ==
  IF m.line.lnum = lnum THEN m ELSE Fetched(FindLine(FlushLine(m), lnum, "find"), lnum)

\* A byte of the line is changed through the pointer: in the copy if there is
\* one, and else in the block.
WillChange(m, line) ==
  IF m.line.dirty THEN [m EXCEPT !.line.text = line, !.ldirty = TRUE, !.lpos = TRUE]
  ELSE [m EXCEPT !.line.text = line, !.mem[m.lock].lines[m.line.lnum - m.low + 1] = line,
                 !.ldirty = TRUE, !.lpos = TRUE]

-----------------------------------------------------------------------------
(***************************************************************************)
(* The swap file                                                           *)
(***************************************************************************)
RECURSIVE Visit(_, _)

\* The loop of ml_preserve over the data blocks.
Visit(m, lnum) ==
  IF m.err \/ ~NeedTrans(m) \/ lnum > m.count THEN m
  ELSE Visit(FindLine(m, lnum, "find"), FindLine(m, lnum, "find").high + 1)

StackGone(m, ok) == [m EXCEPT !.stack = <<>>, !.ok = ok]
PreservedAgain(m, ok) == StackGone(m, ok /\ m.ok)

\* Mutant: the pointer blocks are not told the new numbers.
PreservedNoVisit(m) == StackGone(m, m.ok)

Preserved(m) ==
  IF NeedTrans(m)
  THEN PreservedAgain(SyncBlocks(Flush(Visit(StackGone(m, m.ok), 1)), "all", Unlimited), m.ok)
  ELSE StackGone(m, m.ok)

\* ml_preserve
PreserveAll(m) == Preserved(SyncBlocks(Flush(FlushLine(m)), "all", Unlimited))

\* ml_sync_all for the buffer; with limit, see SyncBlocks.
SyncRest(m, limit) == IF m.mdirty THEN SyncBlocks(m, "positive", limit) ELSE m
SyncFlushed(m, checkFile, limit) ==
  SyncRest(IF edits > 0 /\ checkFile /\ NeedTrans(m) /\ altered THEN PreserveAll(m) ELSE m, limit)
SyncAllOf(m, checkFile, limit) == SyncFlushed(Flush(FlushLine(m)), checkFile, limit)

\* What ml_recover makes of the blocks in disk and of the lines of the file:
\* from block b, which should have count lines; any count for block 1.
Lost == [id |-> -1, size |-> 1]
RECURSIVE Recovered(_, _, _, _, _), RecoveredEnts(_, _, _, _)

\* The lines of the file, from old, for a block with a negative number; or
\* other lines than those of the buffer, or a message that lines are missing.
FromFile(file, old, count) ==
  IF old = Unknown \/ old + count - 1 > Len(file) THEN <<Lost>> ELSE SubSeq(file, old, old + count - 1)

RecoveredEnts(disk, file, ents, depth) ==
  IF ents = <<>> THEN <<>>
  ELSE (IF Head(ents).bnum < 0 THEN FromFile(file, Head(ents).old, Head(ents).count)
        ELSE Recovered(disk, file, Head(ents).bnum, Head(ents).count, depth - 1))
         \o RecoveredEnts(disk, file, Tail(ents), depth)

Recovered(disk, file, b, count, depth) ==
  IF depth = 0 \/ b \notin DOMAIN disk THEN <<Lost>>
  ELSE IF disk[b].kind = "data"
  THEN IF Len(disk[b].lines) = count THEN disk[b].lines ELSE <<Lost>> \o disk[b].lines \o <<Lost>>
  ELSE IF disk[b].kind = "ptr"
  THEN (IF disk[b].ents = <<>> \/ (count # 0 /\ CountOf(disk[b].ents) # count) THEN <<Lost>> ELSE <<>>)
         \o RecoveredEnts(disk, file, disk[b].ents, depth)
  ELSE <<Lost>>

MaxDepth == 6
Recover(disk, file) == Recovered(disk, file, 1, 0, MaxDepth)

-----------------------------------------------------------------------------
(***************************************************************************)
(* A buffer is opened: ml_open, and readfile, which appends the lines and  *)
(* deletes the empty line behind them.                                     *)
(***************************************************************************)
NewMemline(usedMax) ==
  NewMemfile(usedMax) @@ [count |-> 1, stack |-> <<>>, lock |-> None, low |-> 0, high |-> 0, lineadd |-> 0,
                 ldirty |-> FALSE, lpos |-> FALSE, line |-> NoLine]

\* Block 0, the root, and a data block that stays locked.
Block1(m) == PutBlock(NewBlock(m, FALSE, PtrBlock(<<Entry(2, 1, 1)>>)), 1, TRUE, FALSE)
Block2(m) == NewBlock(m, FALSE, DataBlock(<<Blank>>))
OpenMemline(usedMax) ==
  Block2(Block1(SyncBlocks(PutBlock(NewBlock(NewMemline(usedMax), FALSE, [kind |-> "zero"]), 0, TRUE, FALSE),
                           "positive", Unlimited)))

RECURSIVE ReadLines(_, _, _)
ReadLines(m, lines, lnum) ==
  IF lnum = Len(lines) THEN DeleteLine(FlushLine(m), lnum + 1)
  ELSE ReadLines(AppendInt(m, lnum, lines[lnum + 1], TRUE), lines, lnum + 1)

FileLines(sizes) == [i \in DOMAIN sizes |-> [id |-> i, size |-> sizes[i]]]

\* A file is read; without a swap file if it is read-only.
Init ==
  \E sizes \in Files, readonly \in BOOLEAN :
    /\ plan \in Plans
    /\ orig = FileLines(sizes) /\ text = FileLines(sizes) /\ altered = FALSE
    /\ ml = ReadLines(IF readonly THEN OpenMemline(plan.usedMax) ELSE OpenFile(OpenMemline(plan.usedMax)),
                      FileLines(sizes), 0)
    /\ edits = 0 /\ gets = 0 /\ syncs = 0 /\ last = "none"

-----------------------------------------------------------------------------
(***************************************************************************)
(* The commands                                                            *)
(***************************************************************************)
Edit ==
  /\ edits < plan.edits /\ edits' = edits + 1
  /\ last' = "edit"
  /\ UNCHANGED <<orig, altered, plan, gets, syncs>>
NewLine(size) == [id |-> 100 + edits, size |-> size]

\* ml_append
AppendLine(lnum, size) ==
  /\ Edit
  /\ Len(text) < MaxLines
  /\ ml' = AppendInt(FlushLine(ml), lnum, NewLine(size), FALSE)
  /\ text' = InsertAt(text, lnum + 1, NewLine(size))

\* ml_delete
Delete(lnum) ==
  /\ Edit
  /\ ml' = DeleteLine(FlushLine(ml), lnum)
  /\ text' = IF Len(text) = 1 THEN <<Blank>> ELSE RemoveAt(text, lnum)

\* ml_replace
Replace(lnum, size) ==
  /\ Edit
  /\ ml' = ReplaceLine(ml, lnum, NewLine(size))
  /\ text' = [text EXCEPT ![lnum] = NewLine(size)]

\* ml_get_buf with will_change, and the change.
Change(lnum) ==
  /\ Edit
  /\ ml' = WillChange(GetLine(ml, lnum), NewLine(text[lnum].size))
  /\ text' = [text EXCEPT ![lnum] = NewLine(text[lnum].size)]

\* ml_get
Get(lnum) ==
  /\ gets < plan.gets /\ gets' = gets + 1
  /\ ml' = GetLine(ml, lnum)
  /\ last' = "get"
  /\ UNCHANGED <<text, orig, altered, plan, edits, syncs>>

Swap(cmd) ==
  /\ syncs < plan.syncs /\ syncs' = syncs + 1
  /\ last' = cmd
  /\ UNCHANGED <<text, orig, altered, plan, edits, gets>>

\* changed: the first change of a read-only file opens a swap file.
OpenSwap ==
  /\ edits > 0 /\ ~ml.fd /\ ml.maySwap
  /\ ml' = OpenFile(ml)
  /\ last' = "open"
  /\ UNCHANGED <<text, orig, altered, plan, edits, gets, syncs>>

\* ml_sync_all: after a time without a key or many keys, until a key comes ...
SyncAll(limit) == ml.fd /\ Swap("sync") /\ ml' = SyncAllOf(ml, TRUE, limit)
\* ... and on a deadly signal.
SyncExit == ml.fd /\ Swap("exit") /\ ml' = SyncAllOf(ml, FALSE, Unlimited)

\* :preserve
Preserve == ml.fd /\ Swap("preserve") /\ ml' = PreserveAll(ml)

\* Others write or delete the file, or fill the disk.
AlterFile ==
  /\ plan.faults /\ ~altered /\ altered' = TRUE
  /\ UNCHANGED <<ml, text, orig, plan, edits, gets, syncs, last>>
DiskFull ==
  /\ plan.faults /\ ~ml.full /\ ml' = [ml EXCEPT !.full = TRUE]
  /\ UNCHANGED <<text, orig, altered, plan, edits, gets, syncs, last>>

Next ==
  \/ \E lnum \in 0 .. Len(text), size \in Sizes : AppendLine(lnum, size)
  \/ \E lnum \in 1 .. Len(text) : Delete(lnum) \/ Change(lnum) \/ Get(lnum)
  \/ \E lnum \in 1 .. Len(text), size \in Sizes : Replace(lnum, size)
  \/ OpenSwap \/ SyncExit \/ Preserve \/ AlterFile \/ DiskFull
  \/ \E limit \in {1, Unlimited} : SyncAll(limit)

Spec == Init /\ [][Next]_vars

-----------------------------------------------------------------------------
(***************************************************************************)
(* Properties                                                              *)
(***************************************************************************)
\* A block, wherever it is, and the number that an entry stands for.
BlockAt(b) == IF b \in DOMAIN ml.mem THEN ml.mem[b] ELSE IF b \in DOMAIN ml.disk THEN ml.disk[b] ELSE NullBlock
Number(b) == IF b \in DOMAIN ml.trans THEN ml.trans[b] ELSE b
Below(e) == Number(e.bnum)

RECURSIVE Tree(_)
\* Block b and those below it, in the order of the lines.
Tree(b) ==
  IF BlockAt(b).kind = "ptr"
  THEN <<b>> \o FlattenSeq([i \in DOMAIN BlockAt(b).ents |-> Tree(Below(BlockAt(b).ents[i]))])
  ELSE <<b>>

LinesAt(b) == IF BlockAt(b).kind = "data" THEN BlockAt(b).lines ELSE <<>>
LinesIn(blocks) == FlattenSeq([i \in DOMAIN blocks |-> LinesAt(blocks[i])])

\* The lines of the buffer are the lines of the tree, but for the one that was
\* replaced last, whatever was split, freed, written, evicted and read again;
\* and the line that was only looked at is in the block that is locked.
TextIsKept ==
  /\ ~ml.err /\ ml.count = Len(text)
  /\ text = IF ml.line.dirty THEN [LinesIn(Tree(1)) EXCEPT ![ml.line.lnum] = ml.line.text]
            ELSE LinesIn(Tree(1))
  /\ ml.line.lnum # 0 /\ ~ml.line.dirty =>
       ml.lock # None /\ ml.line.lnum \in ml.low .. ml.high /\ ml.line.text = text[ml.line.lnum]

PtrBlocks == {b \in Range(Tree(1)) : BlockAt(b).kind = "ptr"}
EntriesOf(b) == {[b |-> b, index |-> i, e |-> BlockAt(b).ents[i]] : i \in DOMAIN BlockAt(b).ents}
AllEntries == UNION {EntriesOf(b) : b \in PtrBlocks}

\* What the pointer blocks of the stack have not been told yet.
Pending == IF ml.lock = None THEN 0 ELSE ml.lineadd

\* Every entry counts the lines below it, but for those added to the locked
\* block, which only the entries of the stack lack; the stack has the lines of
\* its blocks; and mf_neg_count is the number of negative entries, each with a
\* block that is still negative or a number to replace it with.
TreeIsCounted ==
  /\ \A x \in AllEntries :
       Len(LinesIn(Tree(Below(x.e)))) =
         x.e.count + (IF \E i \in DOMAIN ml.stack : ml.stack[i].bnum = x.b /\ ml.stack[i].index = x.index
                      THEN Pending ELSE 0)
  /\ \A i \in DOMAIN ml.stack :
       Len(LinesIn(Tree(ml.stack[i].bnum))) = ml.stack[i].high - ml.stack[i].low + 1 + Pending
  /\ ml.lock # None => SubSeq(LinesIn(Tree(1)), ml.low, ml.high) = Lines(ml)
  /\ ml.neg = Cardinality({x \in AllEntries : x.e.bnum < 0})
  /\ DOMAIN ml.trans \subseteq {x.e.bnum : x \in AllEntries}

\* Every number of the file is that of block 0, of one block of the tree or of
\* one free block; a block that is not in memory is in the file; one that is
\* not dirty is there as it is; a block that is still negative has lines of
\* the file that was read; and no block stays locked but the one used last.
BlocksAreKept ==
  /\ Len(Tree(1)) = Cardinality(Range(Tree(1)))
  /\ Len(ml.free) = Cardinality(Range(ml.free))
  /\ {b \in Range(Tree(1)) : b >= 0} \union Range(ml.free) \union {0} = 0 .. ml.max - 1
  /\ Range(Tree(1)) \intersect (Range(ml.free) \union {0}) = {}
  /\ \A b \in Range(Tree(1)) : b \notin DOMAIN ml.mem => b \in 0 .. ml.infile - 1
  /\ \A b \in DOMAIN ml.mem : b \in ml.dirty \/ (b = ml.lock /\ ml.ldirty) \/ (b \in DOMAIN ml.disk /\ ml.mem[b] = ml.disk[b])
  /\ \A b \in DOMAIN ml.mem : b < 0 /\ ~(b = ml.lock /\ ml.lpos) =>
       \E i \in DOMAIN orig : ml.mem[b].lines = SubSeq(orig, i, i + Len(ml.mem[b].lines) - 1)
  /\ ml.locked = {ml.lock} \ {None}

\* After :preserve all the text is recovered from the swap file alone, also
\* when the disk is full but the command succeeded.  After a whole update of the
\* swap file, on a disk that is not, it is recovered from that and the original
\* file, if no entry waits for a new number and those with a negative one know
\* their lines.
OldLnumIsRight(e) == e.bnum < 0 /\ e.bnum \notin DOMAIN ml.trans \union {ml.lock} =>
  e.old # Unknown /\ LinesAt(e.bnum) = SubSeq(orig, e.old, e.old + e.count - 1)
SwapIsRecovered ==
  /\ last = "preserve" /\ ml.ok => Recover(ml.disk, <<>>) = text
  /\ last \in {"sync", "exit"} /\ ~ml.full /\ ~ml.mdirty /\ DOMAIN ml.trans = {}
       /\ (\A x \in AllEntries : OldLnumIsRight(x.e)) => Recover(ml.disk, orig) = text

\* misc1.c: "preserve all swap files", before a deadly signal ends nvim: what
\* was changed is recovered from the swap file and the original file.
ExitIsRecovered ==
  last = "exit" /\ ~ml.full /\ (\A x \in AllEntries : OldLnumIsRight(x.e)) =>
    Recover(ml.disk, orig) = text
=============================================================================

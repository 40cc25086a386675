------------------------------- MODULE Memfile -------------------------------
(***************************************************************************)
(* memfile.c: the blocks of a buffer, in memory and in its swap file.      *)
(*                                                                         *)
(* A block is known by its number.  Negative numbers are those of blocks   *)
(* that are not in the swap file: their lines are still those of the file  *)
(* that is edited.  A memfile m is a record, see NewMemfile; the module    *)
(* Memline adds fields of its own.  Every operation takes a memfile and    *)
(* returns the next one, with its result in ok and nr.  All blocks have    *)
(* one page.                                                               *)
(***************************************************************************)
EXTENDS Integers, Sequences, FiniteSets, SequencesExt, Functions

NullBlock == [kind |-> "null"]

\* mf_open without a file.
NewMemfile(usedMax) ==
  [usedMax|-> usedMax, \* mf_used_count_max
   mem    |-> [b \in {} |-> NullBlock],  \* mf_hash: the blocks in memory
   used   |-> <<>>,     \* mf_used_first ..., the one used last first
   dirty  |-> {},       \* BH_DIRTY
   locked |-> {},       \* BH_LOCKED
   free   |-> <<>>,     \* mf_free_first ...
   trans  |-> [b \in {} |-> 0],          \* mf_trans
   max    |-> 0,        \* mf_blocknr_max
   min    |-> -1,       \* mf_blocknr_min
   neg    |-> 0,        \* mf_neg_count
   infile |-> 0,        \* mf_infile_count
   mdirty |-> FALSE,    \* mf_dirty
   fd     |-> FALSE,    \* there is a swap file
   maySwap|-> TRUE,     \* b_may_swap
   full   |-> FALSE,    \* the disk is full
   disk   |-> [b \in {} |-> NullBlock],  \* the swap file
   nr     |-> 0,        \* the block number that the last operation returned
   ok     |-> TRUE,     \* what the last write returned
   err    |-> FALSE]    \* a block was not found

Without(f, b) == Restrict(f, DOMAIN f \ {b})
Renamed(set, a, b) == {IF x = a THEN b ELSE x : x \in set}

\* A number for a new block of the file.
Numbered(m) ==
  IF m.free # <<>> THEN [m EXCEPT !.nr = Head(m.free), !.free = Tail(m.free)]
  ELSE [m EXCEPT !.nr = m.max, !.max = @ + 1]

\* mf_trans_add: the block gets a number in the file; those who refer to it
\* learn it later, from trans.
Renumbered(m, b) ==
  [m EXCEPT !.mem = (m.nr :> @[b]) @@ Without(@, b),
            !.used = [i \in DOMAIN @ |-> IF @[i] = b THEN m.nr ELSE @[i]],
            !.dirty = Renamed(@, b, m.nr),
            !.locked = Renamed(@, b, m.nr),
            !.trans = (b :> m.nr) @@ @]
TransAdd(m, b) == IF b >= 0 THEN [m EXCEPT !.nr = b] ELSE Renumbered(Numbered(m), b)

\* mf_trans_del
TransDel(m, b) ==
  IF b \notin DOMAIN m.trans THEN [m EXCEPT !.nr = b]
  ELSE [m EXCEPT !.nr = m.trans[b], !.neg = @ - 1, !.trans = Without(@, b)]

\* mf_need_trans
NeedTrans(m) == m.fd /\ m.neg > 0

\* mf_write.  The file has no gaps: the blocks in front are written too, and
\* for those that were freed the data of this one.  On a full disk the blocks
\* that are in the file can still be written.
WrittenNrs(m, nrs) ==
  [m EXCEPT !.ok = TRUE,
            !.disk = [x \in nrs |-> IF x \in DOMAIN m.mem THEN m.mem[x] ELSE m.mem[m.nr]] @@ @,
            !.dirty = @ \ nrs,
            !.infile = IF m.nr >= @ THEN m.nr + 1 ELSE @]
Written(m) ==
  IF m.full /\ m.nr >= m.infile THEN [m EXCEPT !.ok = FALSE]
  ELSE WrittenNrs(m, {m.nr} \union m.infile .. m.nr - 1)
WriteBlock(m, b) == IF m.fd THEN Written(TransAdd(m, b)) ELSE [m EXCEPT !.ok = FALSE]

RECURSIVE SyncFrom(_, _, _, _, _), SyncNext(_, _, _, _, _)

\* mf_sync, from the last block used: all of them (MFS_ALL) or those with a
\* number in the file or block 0 only (MFS_ZERO); a character (MFS_STOP) or an
\* interrupt comes after `limit` writes.  A second failure ends it.
ToSync(m, b, which, ok) ==
  /\ b \in m.dirty
  /\ which = "all" \/ b >= 0
  /\ ok \/ b \in 0 .. m.infile - 1
  /\ which = "zero" => b = 0

SyncDone(m, ok, ended) == [m EXCEPT !.ok = ok, !.mdirty = @ /\ ok /\ ~ended]

SyncFrom(m, i, which, ok, limit) ==
  IF i = 0 THEN SyncDone(m, ok, TRUE)
  ELSE IF ToSync(m, m.used[i], which, ok)
  THEN SyncNext(WriteBlock(m, m.used[i]), i, which, ok, limit - 1)
  ELSE SyncFrom(m, i - 1, which, ok, limit)

SyncNext(m, i, which, ok, limit) ==
  IF (~ok /\ ~m.ok) \/ limit = 0 THEN SyncDone(m, ok /\ m.ok, FALSE)
  ELSE SyncFrom(m, i - 1, which, ok /\ m.ok, limit)

SyncBlocks(m, which, limit) ==
  IF m.fd THEN SyncFrom(m, Len(m.used), which, TRUE, limit)
  ELSE [m EXCEPT !.ok = FALSE, !.mdirty = FALSE]

Unlimited == 100   \* more writes than there are blocks

\* mf_set_dirty
SetDirty(m) == [m EXCEPT !.dirty = @ \union {b \in DOMAIN m.mem : b > 0}, !.mdirty = TRUE]

\* ml_open_file.  Block 0 is changed (ml_upd_block0) and written at once; if
\* that fails, in every directory, there is no swap file.
FileOpened(m) ==
  IF m.ok THEN [SetDirty(m) EXCEPT !.maySwap = FALSE] ELSE [m EXCEPT !.fd = FALSE, !.maySwap = FALSE]
OpenFile(m) ==
  IF m.fd THEN m
  ELSE FileOpened(SyncBlocks([m EXCEPT !.fd = TRUE, !.used = <<0>> \o Remove(@, 0),
                                       !.dirty = @ \union {0}, !.mdirty = TRUE],
                             "zero", Unlimited))

\* mf_release: with too many blocks in memory, the one that was used longest
\* ago and is not locked leaves, after it was written if it is dirty.
Dropped(m, b) == [m EXCEPT !.used = Remove(@, b), !.mem = Without(@, b)]

\* Mutant: the result of mf_write is not looked at.
DroppedWrittenUnchecked(m) == Dropped(m, m.nr)

DroppedWritten(m) == IF m.ok THEN Dropped(m, m.nr) ELSE m
Evicted(m, b) == IF b \in m.dirty THEN DroppedWritten(WriteBlock(m, b)) ELSE Dropped(m, b)
Unlocked(m) == SelectSeq(m.used, LAMBDA b : b \notin m.locked)
Evict(m) == IF ~m.fd \/ Unlocked(m) = <<>> THEN m ELSE Evicted(m, Last(Unlocked(m)))
Release(m) ==
  IF Len(m.used) < m.usedMax THEN m
  ELSE Evict(IF m.maySwap THEN OpenFile(m) ELSE m)

\* mf_new
NewAt(m, data) ==
  [m EXCEPT !.mem = (m.nr :> data) @@ @, !.used = <<m.nr>> \o @, !.dirty = @ \union {m.nr},
            !.locked = @ \union {m.nr}, !.mdirty = TRUE]
NewNegative(m) == [m EXCEPT !.nr = m.min, !.min = @ - 1, !.neg = @ + 1]
NewBlock(m, negative, data) ==
  IF negative THEN NewAt(NewNegative(Release(m)), data) ELSE NewAt(Numbered(Release(m)), data)

\* mf_get: the block is in memory and locked.
GotRead(m, b) ==
  [m EXCEPT !.mem = (b :> m.disk[b]) @@ @, !.locked = @ \union {b}, !.used = <<b>> \o @]
GetBlock(m, b) ==
  IF b \in DOMAIN m.mem THEN [m EXCEPT !.locked = @ \union {b}, !.used = <<b>> \o Remove(@, b)]
  ELSE IF m.fd /\ b \in 0 .. m.infile - 1 THEN GotRead(Release(m), b)
  ELSE [m EXCEPT !.err = TRUE]

\* mf_put
Put(m, b, dirtied) ==
  [m EXCEPT !.locked = @ \ {b}, !.dirty = IF dirtied THEN @ \union {b} ELSE @,
            !.mdirty = @ \/ dirtied]
PutBlock(m, b, dirtied, infile) == IF infile THEN TransAdd(Put(m, b, dirtied), b) ELSE Put(m, b, dirtied)

\* mf_free
FreeBlock(m, b) ==
  [m EXCEPT !.mem = Without(@, b), !.used = Remove(@, b), !.locked = @ \ {b}, !.dirty = @ \ {b},
            !.neg = IF b < 0 THEN @ - 1 ELSE @,
            !.free = IF b < 0 THEN @ ELSE <<b>> \o @]
=============================================================================

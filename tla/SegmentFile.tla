---------------------------- MODULE SegmentFile ----------------------------
(***************************************************************************)
(* One segment on disk: its log file, its memory-mapped index, its block   *)
(* table sidecar, and what segment.go, index.go, block_table_local.go and  *)
(* block.go do to keep the three describing one another through appends,   *)
(* flushes, the roll, a rewrite installed by two renames, a kill between   *)
(* any two of these, a power loss, and the open after it.                  *)
(*                                                                         *)
(* A log file is a sequence of blocks and a block a sequence of record     *)
(* offsets; a segment without block compression has a record per block.    *)
(* Every frame is W bytes long, so a partial one fits between two          *)
(* positions.  The segment is the oldest of its log: its base is 0.  Index *)
(* sizes are counted in entries.  This is the unix build, whose shrink     *)
(* does not unmap.                                                         *)
(***************************************************************************)
EXTENDS Integers, Sequences, SequencesExt, FiniteSetsExt

CONSTANTS
  Chunk,        \* entries an index is pre-allocated with and expanded by
  MaxOffset,    \* bound: offsets are 0..MaxOffset
  MaxFailures,  \* bound: file operations that fail
  None,         \* no file
  Settings      \* [block, batch, target, offsets, may]: the layout, the most
                \* records of an append, the records at which a rewrite flushes
                \* a block, the largest offset written, and what happens

\* "rewrite"      the sealed segment is compacted
\* "join"         the rewrite carries the next segment's first record too
\* "killInRename" a kill may fall between the renames of a rewrite
\* "map"          growing the index may fail
\* "rename"       renaming a rewrite's files may fail
\* "power"        the machine may lose power
\* "boundary"     and cut a block file between two blocks
\* "sidecar"      and leave the block table, which no fsync covers
\* "hole"         and write the index's pages back out of order
ASSUME FileAssumption ==
  /\ Chunk \in Nat \ {0} /\ MaxOffset \in Nat /\ MaxFailures \in Nat
  /\ \A x \in Settings :
       x.may \subseteq {"rewrite", "join", "killInRename", "map", "rename", "power",
                        "boundary", "sidecar", "hole"}

VARIABLES
  s,         \* the segment: its files and what is in memory
  st,        \* up, entries (owed to the index), renamed, installed, down,
             \* or refused (the open failed)
  work,      \* what a rewrite being installed still needs
  nextBase,  \* the next segment's base once this one has rolled, or None
  stable,    \* [log, index]: blocks and entries an fsync covered
  flush,     \* the index flush out: none, or pinned
  failures,  \* file operations that have failed
  acked,     \* the records the log owes: appended, and not compacted away
  setting

vars == <<s, st, work, nextBase, stable, flush, failures, acked, setting>>

May(what) == what \in setting.may
W == 2
Offset == 0..MaxOffset

-----------------------------------------------------------------------------
(* Layouts.                                                                *)

Records(log) == FlattenSeq(log)
Lens(log) == [i \in DOMAIN log |-> Len(log[i])]
Sum(lens) == FoldLeft(LAMBDA a, n : a + n, 0, lens)

\* Where a block starts in the logical bytes, given the blocks' lengths.
logicalStart(lens, i) == W * Sum(SubSeq(lens, 1, i - 1))

\* A header and the records; compression is left out.
physLen(n) == 1 + n
blockTableExtent(lens) == Sum([i \in DOMAIN lens |-> physLen(lens[i])])

findBlock(lens, pos) ==
  {i \in DOMAIN lens : logicalStart(lens, i) <= pos /\ pos < logicalStart(lens, i + 1)}

Entry(o, p) == [offset |-> o, pos |-> p, size |-> W]
Empty == [offset |-> 0, pos |-> 0, size |-> 0]

\* The entries the write path makes: one per record, or per block its first.
entriesFor(log) == [i \in DOMAIN log |-> Entry(log[i][1], logicalStart(Lens(log), i))]

\* A batch as the file holds it.
Batch(o, n) ==
  IF setting.block THEN <<[i \in 1..n |-> o + i - 1]>>
  ELSE [i \in 1..n |-> <<o + i - 1>>]

\* The blocks a rewrite packs records into.
blockWriter(recs) ==
  LET k == IF setting.block THEN setting.target ELSE 1
  IN [i \in 1..((Len(recs) + k - 1) \div k) |->
        SubSeq(recs, (i - 1) * k + 1, Min({i * k, Len(recs)}))]

\* A file of n entries, grown with zeros or cut.
Resize(slots, n) == [i \in 1..n |-> IF i <= Len(slots) THEN slots[i] ELSE Empty]

\* sort.Search: the least i of 0..n - 1 in yes, or n, when yes is upward closed,
\* and where the halving ends when it is not.
sortSearch(n, yes) ==
  LET f[i \in 0..n, j \in 0..n] ==
        IF i >= j THEN i
        ELSE LET h == (i + j) \div 2 IN IF h \in yes THEN f[i, h] ELSE f[h + 1, j]
  IN f[0, n]

-----------------------------------------------------------------------------
(* Opening a segment.                                                      *)

\* Variant for mutation: any table beside the file is believed.
TableFitsAny(seg) == seg.table # None

\* loadLocalBlockTable: the size is the whole staleness check.
TableFits(seg) ==
  /\ seg.table # None
  /\ blockTableExtent(seg.table) = blockTableExtent(Lens(seg.log)) + (IF seg.torn THEN 1 ELSE 0)

\* A walk of the block headers ends at a block cut short and drops it.
scanBlocks(seg) ==
  [seg EXCEPT !.blocks = Lens(seg.log), !.position = W * Len(Records(seg.log)),
              !.torn = FALSE, !.dropped = seg.torn]

\* Without blocks the position is the file's size, a partial frame included.
initPositions(seg) ==
  IF ~setting.block
  THEN [seg EXCEPT !.blocks = <<>>, !.dropped = FALSE,
                   !.position = W * Len(Records(seg.log)) + (IF seg.torn THEN 1 ELSE 0)]
  ELSE IF TableFits(seg)
  THEN [seg EXCEPT !.blocks = seg.table, !.position = W * Sum(seg.table), !.dropped = FALSE]
  ELSE scanBlocks(seg)

\* The first empty entry, by binary search.
InitializePosition(slots) ==
  sortSearch(Len(slots), {i \in 0..Len(slots) - 1 : slots[i + 1] = Empty})

\* The whole file is mapped, and an empty one pre-allocated.
newIndex(seg) ==
  LET slots == IF seg.slots = <<>> THEN Resize(<<>>, Chunk) ELSE seg.slots
  IN [seg EXCEPT !.slots = slots, !.size = Len(slots), !.mapped = Len(slots),
                 !.pos = InitializePosition(slots)]

lastEntry(seg) == seg.slots[seg.pos]

\* A block's anchor spans a frame, so only its start is comparable.
indexOvershootsLog(seg) ==
  IF setting.block THEN lastEntry(seg).pos >= seg.position
  ELSE lastEntry(seg).pos + lastEntry(seg).size > seg.position

\* The deepest entry that fits in the log names the frame it points at.
indexDescribesLog(seg) ==
  LET fits == {i \in 1..seg.pos : seg.slots[i].pos + seg.slots[i].size <= seg.position}
      e == seg.slots[Max(fits)]
  IN fits # {} /\ Records(seg.log)[e.pos \div W + 1] = e.offset

rebuildOverIndex(seg) == seg.dropped \/ ~setting.block \/ ~indexDescribesLog(seg)

\* writeAt has room for n more when file and mapping both do; a file grows by a
\* chunk, or by the write when that is more.
HasRoom(seg, n) == seg.pos + n < seg.size /\ seg.pos + n <= seg.mapped

\* Variant for mutation: always one chunk.
expandOneChunk(seg, n) == seg.size + Chunk

expandedSize(seg, n) ==
  IF seg.size + Chunk < seg.pos + n THEN seg.size + n ELSE seg.size + Chunk

copyEntries(seg, es) ==
  [seg EXCEPT !.slots = [i \in DOMAIN @ |-> IF i \in seg.pos + 1 .. seg.pos + Len(es)
                                            THEN es[i - seg.pos] ELSE @[i]],
              !.pos = @ + Len(es)]

expand(seg, n) ==
  LET size == expandedSize(seg, n)
  IN [seg EXCEPT !.slots = Resize(@, size), !.size = size, !.mapped = size]

writeEntries(seg, es) ==
  copyEntries(IF HasRoom(seg, Len(es)) THEN seg ELSE expand(seg, Len(es)), es)

\* A reconcile writes its entries one at a time.
writeEach(seg, es) == FoldLeft(LAMBDA g, e : writeEntries(g, <<e>>), seg, es)

reconcileStart(seg) == IF seg.pos = 0 THEN 0 ELSE lastEntry(seg).pos + lastEntry(seg).size

\* Variant for mutation: a walk that ends at the floor is refused too.
losesCommittedAtFloor(last, floor) == floor >= 0 /\ last <= floor

losesCommitted(last, floor) == floor >= 0 /\ last < floor

\* Variant for mutation: the tail of a per-record file is left as the index has it.
reconcileNothing(seg, committedThrough) == seg

\* The frames past the last indexed one get their entries, and a partial frame
\* is dropped unless a committed record would have to lie in it.
reconcileIndexTailRaw(seg, committedThrough) ==
  LET recs == Records(seg.log)
      start == reconcileStart(seg)
      new == SubSeq(entriesFor(seg.log), start \div W + 1, Len(recs))
      r == IF new = <<>> THEN seg
           ELSE [writeEach(seg, new) EXCEPT !.last = recs[Len(recs)]]
  IN IF start >= seg.position \/ ~seg.torn THEN r
     ELSE IF losesCommitted(r.last, committedThrough) THEN [r EXCEPT !.bad = TRUE]
     ELSE [r EXCEPT !.torn = FALSE, !.position = W * Len(recs)]

\* The last record of the block a position is in.  No block is corruption, and
\* so is a block the file ends before.
lastFrameInBlock(seg, pos) ==
  LET in == findBlock(seg.blocks, pos)
      n == logicalStart(seg.blocks, Max(in) + 1) \div W
  IN IF in = {} \/ n > Len(Records(seg.log)) THEN [seg EXCEPT !.bad = TRUE]
     ELSE [seg EXCEPT !.last = Records(seg.log)[n]]

\* Blocks beyond the number of anchors get theirs.
reconcileIndexTailBlocks(seg) ==
  LET new == SubSeq(entriesFor(seg.log), seg.pos + 1, Min({Len(seg.blocks), Len(seg.log)}))
  IN IF seg.pos >= Len(seg.blocks) THEN seg
     ELSE lastFrameInBlock(writeEach(seg, new), logicalStart(seg.blocks, Len(seg.blocks)))

reconcileIndexTail(seg, committedThrough) ==
  IF seg.bad THEN seg
  ELSE IF setting.block THEN reconcileIndexTailBlocks(seg)
  ELSE reconcileIndexTailRaw(seg, committedThrough)

\* The entries below the position are cleared.
reset(seg) ==
  [seg EXCEPT !.slots = [i \in DOMAIN @ |-> IF i <= seg.pos THEN Empty ELSE @[i]],
              !.pos = 0]

rebuildIndexFromLog(seg) == reconcileIndexTail([reset(seg) EXCEPT !.last = -1], -1)

setupIndex(seg0) ==
  LET seg == newIndex([seg0 EXCEPT !.last = -1, !.bad = FALSE])
  IN IF seg.pos = 0 THEN seg
     ELSE IF indexOvershootsLog(seg) /\ rebuildOverIndex(seg) THEN rebuildIndexFromLog(seg)
     ELSE IF setting.block THEN lastFrameInBlock(seg, lastEntry(seg).pos)
     ELSE [seg EXCEPT !.last = lastEntry(seg).offset]

reopenLocked(seg) == setupIndex(initPositions(seg))

writeLocalBlockTable(seg) == [seg EXCEPT !.table = seg.blocks]
removeLocalBlockTable(seg) == [seg EXCEPT !.table = None]

\* A table just walked for is written down for the next open.
newSegmentWith(seg) ==
  LET r == [initPositions(seg) EXCEPT !.sealed = FALSE]
      walked == setting.block /\ ~TableFits(seg) /\ r.blocks # <<>>
  IN setupIndex(IF walked THEN writeLocalBlockTable(r) ELSE r)

-----------------------------------------------------------------------------
(* Looking a record up.                                                    *)

ErrCorrupt == -2      \* errIndexCorrupt: the mapping ends before the entry
ErrEntryNotFound == -1

readable(seg, i) == i < seg.mapped

\* The first entry at or above o.  It is read again at the end: one the mapping
\* does not reach is an error.
searchEntries(seg, o) ==
  LET hits == {k \in 0..seg.pos - 1 : ~readable(seg, k) \/ seg.slots[k + 1].offset >= o}
      i == sortSearch(seg.pos, hits)
  IN IF i < seg.pos /\ ~readable(seg, i) THEN ErrCorrupt ELSE i

\* Variant for mutation: the block whose anchor is the target is stepped back from,
\* and one whose anchor follows it is not.
anchorPositionLate(seg, o) ==
  LET i == searchEntries(seg, o + 1)
  IN IF seg.pos = 0 \/ i < 0 THEN 0 ELSE seg.slots[Min({i + 1, seg.pos})].pos

\* An index that cannot be read starts the scan at the top.
anchorPosition(seg, o) ==
  LET i == searchEntries(seg, o + 1)
      k == IF i > 0 THEN i - 1 ELSE i
  IN IF seg.pos = 0 \/ i < 0 \/ ~readable(seg, k) THEN 0 ELSE seg.slots[k + 1].pos

scanForward(seg, start, o) ==
  LET recs == Records(seg.log)
      at == {i \in start \div W + 1 .. Len(recs) : recs[i] >= o}
  IN IF at = {} THEN ErrEntryNotFound ELSE recs[Min(at)]

\* The offset of the record a seek to o ends at.
findEntry(seg, o) ==
  LET i == searchEntries(seg, o)
      k == seg.slots[i + 1].pos \div W + 1
  IN IF setting.block THEN scanForward(seg, anchorPosition(seg, o), o)
     ELSE IF i < 0 THEN ErrCorrupt
     ELSE IF i = seg.pos \/ k > Len(Records(seg.log)) THEN ErrEntryNotFound
     ELSE Records(seg.log)[k]

-----------------------------------------------------------------------------
(* What the segment does.                                                  *)

emptySegment ==
  [log |-> <<>>, torn |-> FALSE, slots |-> <<>>, table |-> None,
   blocks |-> <<>>, position |-> 0, dropped |-> FALSE, size |-> 0, mapped |-> 0,
   pos |-> 0, last |-> -1, sealed |-> FALSE, bad |-> FALSE]

Init ==
  /\ setting \in Settings
  /\ s = newSegmentWith(emptySegment)
  /\ st = "up" /\ work = None /\ nextBase = None /\ flush = "none"
  /\ stable = [log |-> 0, index |-> 0]
  /\ failures = 0 /\ acked = {}

NextOffset == s.last + 1

\* write: the batch goes to the log, and position and tail move with it.
WriteMessageSet(n) ==
  /\ st = "up" /\ nextBase = None
  /\ NextOffset + n - 1 <= Min({MaxOffset, setting.offsets})
  /\ LET b == Batch(NextOffset, n)
     IN /\ s' = [s EXCEPT !.log = @ \o b, !.position = @ + W * n, !.last = @ + n,
                          !.blocks = IF setting.block THEN @ \o Lens(b) ELSE @]
        /\ work' = Len(b)
  /\ st' = "entries"
  /\ UNCHANGED <<nextBase, stable, flush, failures, acked>>

\* mapMu: a flush out holds off the teardown of its mapping.
Unmap == flush = "none" /\ UNCHANGED flush

\* The copy ends where the mapping does, whatever the position says after it.
Copied(seg) ==
  LET es == SubSeq(entriesFor(s.log), Len(s.log) - work + 1, Len(s.log))
      fit == Max({0, Min({work, seg.mapped - seg.pos})})
  IN /\ s' = [copyEntries(seg, SubSeq(es, 1, fit)) EXCEPT !.pos = seg.pos + work]
     /\ acked' = acked \cup ToSet(Records(SubSeq(s.log, Len(s.log) - work + 1, Len(s.log))))

\* The entries follow; without room the file is grown, unmapped and mapped.
WriteEntries ==
  /\ st = "entries"
  /\ \/ HasRoom(s, work) /\ Copied(s) /\ UNCHANGED flush
     \/ ~HasRoom(s, work) /\ Unmap /\ Copied(expand(s, work))
  /\ st' = "up" /\ work' = None
  /\ UNCHANGED <<nextBase, stable, failures>>

\* Growing the file, unmapping it or mapping it fails: the append is refused with
\* its records in the log, and the next write finds the size unchanged.
ExpandFails ==
  /\ st = "entries" /\ ~HasRoom(s, work)
  /\ May("map") /\ failures < MaxFailures /\ failures' = failures + 1
  /\ LET grown == Resize(s.slots, expandedSize(s, work))
     IN \/ UNCHANGED <<s, flush>>
        \/ s' = [s EXCEPT !.slots = grown] /\ Unmap
        \/ s' = [s EXCEPT !.slots = grown, !.mapped = 0] /\ Unmap
  /\ st' = "up" /\ work' = None
  /\ UNCHANGED <<nextBase, stable, acked>>

\* sync: the data file, which checkpointHW does alone.
SyncData ==
  /\ st = "up" /\ stable' = [stable EXCEPT !.log = Len(s.log)]
  /\ UNCHANGED <<s, st, work, nextBase, flush, failures, acked>>

\* index.Sync pins the mapping, lets go of mu, and flushes.
IndexSync ==
  /\ st = "up" /\ flush = "none" /\ flush' = "pinned"
  /\ stable' = [log |-> Len(s.log), index |-> s.pos]
  /\ UNCHANGED <<s, st, work, nextBase, failures, acked>>

IndexSyncReturns ==
  /\ flush = "pinned" /\ flush' = "none"
  /\ UNCHANGED <<s, st, work, nextBase, stable, failures, acked>>

\* shrink cuts the file to its entries and leaves the mapping.
shrink(seg) == [seg EXCEPT !.slots = Resize(@, seg.pos), !.size = seg.pos]

\* Once per segment opened, the index is cut and the block table written down.
seal(seg) ==
  LET r == [shrink(seg) EXCEPT !.sealed = TRUE]
  IN IF seg.sealed THEN seg
     ELSE IF setting.block /\ seg.blocks # <<>> THEN writeLocalBlockTable(r)
     ELSE r

\* The file is cut to its entries and the mapping released.
closeIndex(seg) == [shrink(seg) EXCEPT !.mapped = 0]

closeSegment(seg) == seal(closeIndex(seg))

\* The segment rolls.
Seal ==
  /\ st = "up" /\ nextBase = None /\ s.log # <<>>
  /\ nextBase' = NextOffset
  /\ s' = seal(s) /\ stable' = [stable EXCEPT !.index = s.pos]
  /\ UNCHANGED <<st, work, flush, failures, acked>>

\* A close cuts the index and releases the mapping, and flushes what it believes
\* dirty.
Close ==
  /\ st = "up" /\ Unmap
  /\ s' = closeSegment(s) /\ st' = "down"
  /\ \E n \in {stable.index, s.pos} : stable' = [stable EXCEPT !.index = n]
  /\ UNCHANGED <<work, nextBase, failures, acked>>

\* Open, as commitlog's open does it: the segment, then its tail, with the
\* watermark read from the checkpoint or the next segment's base as the floor.
Reopen(hw) ==
  /\ st = "down"
  /\ hw <= IF May("power") THEN Len(Records(SubSeq(s.log, 1, stable.log))) - 1
           ELSE Max(acked \cup {-1})
  /\ LET floor == IF nextBase = None THEN hw ELSE nextBase - 1
         r == reconcileIndexTail(newSegmentWith(s), floor)
     IN s' = r /\ st' = IF r.bad THEN "refused" ELSE "up"
  /\ stable' = [stable EXCEPT !.index = Min({@, s'.pos})]
  /\ UNCHANGED <<work, nextBase, flush, failures, acked>>

-----------------------------------------------------------------------------
(* Installing a rewrite.                                                   *)

\* A compaction drops records of the segment; a join drops none and carries the
\* next segment's.
Rewrites ==
  LET recs == Records(s.log)
      kept == {SelectSeq(recs, LAMBDA o : o \in keep) : keep \in SUBSET ToSet(recs)}
  IN (kept \ {<<>>, recs}) \cup IF May("join") THEN {recs \o <<nextBase>>} ELSE {}

\* Replace closes both segments and renames the rewrite's log over the source's.
Replace ==
  /\ st = "up" /\ nextBase # None /\ May("rewrite") /\ Unmap
  /\ \E recs \in Rewrites :
       LET log == blockWriter(recs) IN
       /\ recs[Len(recs)] <= MaxOffset
       /\ work' = [slots |-> entriesFor(log), base |-> nextBase]
       /\ s' = [closeSegment(s) EXCEPT !.log = log, !.torn = FALSE]
       /\ acked' = (acked \cap ToSet(recs)) \cup (ToSet(recs) \ ToSet(Records(s.log)))
       /\ nextBase' = Max({nextBase, recs[Len(recs)] + 1})
       /\ stable' = [log |-> Len(log), index |-> Len(log)]
  /\ st' = "renamed"
  /\ UNCHANGED <<flush, failures>>

\* The index follows.
RenameIndex ==
  /\ st = "renamed" /\ st' = "installed"
  /\ s' = [s EXCEPT !.slots = work.slots] /\ work' = None
  /\ UNCHANGED <<nextBase, stable, flush, failures, acked>>

\* The log's rename fails: the source is reopened over its own files.
RenameLogFails ==
  /\ st = "up" /\ nextBase # None /\ May("rewrite") /\ Unmap
  /\ May("rename") /\ failures < MaxFailures /\ failures' = failures + 1
  /\ s' = reopenLocked(closeSegment(s))
  /\ st' = IF s'.bad THEN "refused" ELSE "up"
  /\ UNCHANGED <<work, nextBase, stable, acked>>

\* The index's rename fails, with the source's log gone under the rewrite's: the
\* rewrite is moved away again, and the reopen creates an empty log where both were.
RenameIndexFails ==
  /\ st = "renamed" /\ May("rename") /\ failures < MaxFailures
  /\ failures' = failures + 1
  /\ s' = reopenLocked([s EXCEPT !.log = <<>>])
  /\ st' = IF s'.bad THEN "refused" ELSE "up"
  /\ nextBase' = work.base /\ acked' = {o \in acked : o < work.base}
  /\ stable' = [log |-> 0, index |-> 0]
  /\ work' = None /\ UNCHANGED flush

\* The source's block table goes, and the rewrite is reopened under its names.
InstallRewrite ==
  /\ st = "installed"
  /\ s' = reopenLocked(removeLocalBlockTable(s))
  /\ st' = IF s'.bad THEN "refused" ELSE "up"
  /\ UNCHANGED <<work, nextBase, stable, flush, failures, acked>>

-----------------------------------------------------------------------------
(* Faults.                                                                 *)

\* The process is killed; the files stay as they are.
Kill ==
  /\ st \in {"up", "entries", "renamed", "installed"}
  /\ st = "renamed" => May("killInRename")
  /\ st' = "down" /\ work' = None /\ flush' = "none"
  /\ UNCHANGED <<s, nextBase, stable, failures, acked>>

\* The kill comes inside an append's write: part of the batch, then a part of a
\* frame or of a block.
KillInWrite(n) ==
  /\ st = "up" /\ nextBase = None
  /\ NextOffset + n - 1 <= Min({MaxOffset, setting.offsets})
  /\ \E k \in 0..Len(Batch(NextOffset, n)) - 1 :
       s' = [s EXCEPT !.log = @ \o SubSeq(Batch(NextOffset, n), 1, k), !.torn = TRUE]
  /\ st' = "down" /\ flush' = "none"
  /\ UNCHANGED <<work, nextBase, stable, failures, acked>>

\* What no fsync covered may be gone: blocks from the end of the log, the last
\* of them in part, and entries of the index.
PowerLoss ==
  /\ May("power") /\ nextBase = None /\ st \in {"up", "entries", "down"}
  /\ \E k \in stable.log..Len(s.log) :
     \E t \in IF k = Len(s.log) THEN {s.torn}
              ELSE {TRUE} \cup IF setting.block /\ ~May("boundary") THEN {} ELSE {FALSE} :
     \E lost \in IF May("hole") THEN SUBSET (stable.index + 1..s.pos)
                 ELSE {j..s.pos : j \in stable.index + 1..s.pos + 1} :
       /\ s' = [s EXCEPT !.log = SubSeq(@, 1, k), !.torn = t,
                         !.table = IF May("sidecar") THEN @ ELSE None,
                         !.slots = [i \in DOMAIN @ |-> IF i \in lost THEN Empty ELSE @[i]]]
       /\ acked' = acked \cap ToSet(Records(SubSeq(s.log, 1, k)))
  /\ st' = "down" /\ work' = None /\ flush' = "none"
  /\ UNCHANGED <<nextBase, stable, failures>>

Act ==
  \/ \E n \in 1..setting.batch : WriteMessageSet(n) \/ KillInWrite(n)
  \/ WriteEntries \/ ExpandFails
  \/ SyncData \/ IndexSync \/ IndexSyncReturns
  \/ Seal \/ Close
  \/ \E hw \in -1..MaxOffset : Reopen(hw)
  \/ Replace \/ RenameLogFails \/ RenameIndex \/ InstallRewrite
  \/ Kill \/ PowerLoss

Next == Act /\ UNCHANGED setting

Spec == Init /\ [][Next]_vars

\* With the one failure that leaves nothing to go back to.
FailingSpec == Init /\ [][Next \/ (RenameIndexFails /\ UNCHANGED setting)]_vars

-----------------------------------------------------------------------------
(* Properties.                                                             *)

\* The types of the segment's files and of what is in memory: offsets in the log
\* ascend, whatever was appended, cut or rewritten.
TypeOK ==
  /\ st \in {"up", "entries", "renamed", "installed", "down", "refused"}
  /\ flush \in {"none", "pinned"}
  /\ failures \in 0..MaxFailures /\ acked \subseteq Offset
  /\ nextBase \in {None} \cup 0..MaxOffset + 1
  /\ stable.log \in 0..Len(s.log) /\ stable.index \in Nat
  /\ s.torn \in BOOLEAN /\ s.last \in -1..MaxOffset /\ s.pos \in Nat
  /\ \A i \in DOMAIN s.log : s.log[i] # <<>>
  /\ LET recs == Records(s.log)
     IN \A i, j \in DOMAIN recs : recs[i] \in Offset /\ (i < j => recs[i] < recs[j])

\* A seek to a record the log owes ends at that record, or fails because the
\* index is not mapped; it never ends at a later one or at none, whatever append
\* failed, whatever kill or power loss fell between writing a frame, its entry, the
\* block table and the two renames of a rewrite, and whatever the open rebuilt.
SeekFindsItsRecord == st = "up" => \A o \in acked : findEntry(s, o) \in {o, ErrCorrupt}

\* An open segment takes its tail from the last record its file holds, so that
\* the next append never lands on an offset the file already has: the duplicate a
\* tail taken from a short index makes.
TailIsTheFiles ==
  st = "up" => s.last = Max(ToSet(Records(s.log)) \cup {-1})

\* The block table in memory, walked or believed from its sidecar, is the file's:
\* a kill between a rewrite's renames and the removal of the source's table leaves
\* none that is believed.
TableDescribesTheFile == st = "up" /\ setting.block => s.blocks = Lens(s.log)

\* Every entry below the index's position is in its file and, when there is a
\* mapping at all, in the mapping, through every expansion that succeeds, fails at
\* the truncate, at the unmap or at the map, and is tried again: a write is never
\* cut short by a mapping believed longer than it is.
EntriesAreBacked ==
  st = "up" => s.pos <= Len(s.slots) /\ (s.mapped # 0 => s.pos <= s.mapped)

\* Whatever was killed, the segment opens again.
SegmentOpens == st # "refused"

=============================================================================

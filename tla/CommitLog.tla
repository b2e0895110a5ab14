----------------------------- MODULE CommitLog -----------------------------
(***************************************************************************)
(* The log on disk and in memory: append, roll, high watermark and its     *)
(* checkpoint, Sync, the two truncations, Close, a killed process, a power *)
(* loss, and what open() makes of the directory that is left               *)
(* (commitlog.go, segment.go).                                             *)
(*                                                                         *)
(* A segment is named by its base offset and holds the records             *)
(* base .. end - 1: the module models a log that was never compacted, in   *)
(* the uncompressed frame format.  The directory is `files`; what the      *)
(* running log lists is `list`; `end`, `idx`, `torn` and `stable` describe *)
(* a segment's bytes: whole frames, frames its index names, whether a      *)
(* partial frame follows them, and how much an fsync has made permanent.   *)
(* Directory changes (create, rename, unlink) and the atomically replaced  *)
(* checkpoint file are taken to be permanent at once; file contents only   *)
(* through an fsync.                                                       *)
(*                                                                         *)
(* Truncate and TruncateBefore are sequences of steps, because a crash can *)
(* fall between any two of them: Truncate holds cleanMu and appendMu       *)
(* throughout, TruncateBefore only cleanMu, so appends and rolls go on     *)
(* beside it.                                                              *)
(***************************************************************************)
EXTENDS Integers, FiniteSets, FiniteSetsExt

CONSTANTS
    MaxOffset,      \* offsets are 0 .. MaxOffset - 1
    MaxBatch,       \* the most records one Append writes
    MaxFailures,    \* how many file operations may fail
    Settings        \* the settings the log is looked at in, each one of
                    \* calls, those of Sync, SyncAll, Truncate, TruncateBefore
                    \* and OverrideHighWatermark that are made,
                    \* faults, power: the machine loses power; delete: an unlink
                    \* fails; write: an append fails half way through its write,
                    \* offsets, the offsets written: 0 .. offsets - 1, and
                    \* batch, the most records one Append writes

ASSUME LogAssumption ==
    /\ MaxOffset \in Nat \ {0}
    /\ MaxBatch \in Nat \ {0}
    /\ MaxFailures \in Nat
    /\ Settings \subseteq [calls : SUBSET {"Sync", "SyncAll", "Truncate", "TruncateBefore",
                                           "OverrideHighWatermark"},
                           faults : SUBSET {"power", "delete", "write"},
                           offsets : 1 .. MaxOffset, batch : 1 .. MaxBatch]

VARIABLES
    setting,    \* which of the settings this behaviour is in
    files,      \* the bases of the .log files in the directory
    end,        \* base -> the offset after the segment's last whole frame
    idx,        \* base -> the offset after the last frame its index names
    stable,     \* base -> the offset after the last frame an fsync covered
    torn,       \* the segments whose file goes on after its last whole frame
    garbled,    \* offsets whose frame is not where the index says it is
    ckpt,       \* the high watermark in the checkpoint file
    state,      \* "up", "down", or why open() refuses: "torn", "overlap"
    list,       \* l.segments, by base
    left,       \* the listed segments Delete was called on
    hw,         \* l.hw
    op,         \* the truncation in flight
    failures,   \* file operations that have failed
    live,       \* offsets returned by an append and not asked to be removed
    synced,     \* the live offsets a returned Sync covered
    committed   \* the watermark last in force before the log was last opened

vars == << setting, files, end, idx, stable, torn, garbled, ckpt, state, list, left, hw,
           op, failures, live, synced, committed >>

disk == << files, end, idx, stable, torn, garbled, ckpt >>
ghosts == << live, synced, committed >>

Offset == 0 .. MaxOffset - 1
Base == 0 .. MaxOffset

From(o) == { x \in Offset : x >= o }
Below(o) == { x \in Offset : x < o }

\* A segment that is gone is described as a new one at its base would be.
Of(segments, f) == [b \in Base |-> IF b \in segments THEN f[b] ELSE b]

Idle == [do |-> "none", seg |-> 0, at |-> 0, todo |-> {}, rewrite |-> FALSE]

Op == [do : {"none", "cut", "cutLog", "trim", "trimLog", "drop"}, seg : Base,
       at : Base, todo : SUBSET Base, rewrite : BOOLEAN]

-----------------------------------------------------------------------------
(* What the running log reads off its segments.                            *)

activeSegment == Max(list)

NewestOffset == end[activeSegment] - 1

\* The segment the listed base b stands for still has a file behind it.
current(b) == b \in files /\ b \notin left

\* findSegment answers with the lowest of these.
Reaching(o) == { b \in list : b \notin left /\ end[b] > o }

\* The segments a reader would find offset o in.
Holders(o) == { b \in list : current(b) /\ b <= o /\ o < end[b] }

\* Cutting takes appendMu, and a segment Delete has closed takes no writes.
Writable == state = "up" /\ op.do \notin {"cut", "cutLog"} /\ current(activeSegment)

\* The types of the files, of what memory says of them and of the step under way.
TypeOK ==
    /\ setting \in Settings
    /\ files \subseteq Base
    /\ end \in [Base -> Base] /\ idx \in [Base -> Base] /\ stable \in [Base -> Base]
    /\ \A b \in files : b <= end[b] /\ b <= stable[b] /\ stable[b] <= end[b]
    /\ torn \subseteq files
    /\ garbled \subseteq Offset
    /\ ckpt \in -1 .. MaxOffset - 1 /\ hw \in -1 .. MaxOffset - 1
    /\ committed \in -1 .. MaxOffset - 1
    /\ state \in {"up", "down", "torn", "overlap"}
    /\ list \subseteq Base /\ (list = {} <=> state # "up")
    /\ left \subseteq Base
    /\ op \in Op /\ failures \in 0 .. MaxFailures
    /\ synced \subseteq live /\ live \subseteq Offset

Init ==
    /\ setting \in Settings
    /\ files = {0} /\ list = {0}
    /\ end = [b \in Base |-> b] /\ idx = end /\ stable = end
    /\ torn = {} /\ garbled = {} /\ ckpt = -1
    /\ state = "up" /\ left = {} /\ hw = -1 /\ op = Idle /\ failures = 0
    /\ live = {} /\ synced = {} /\ committed = -1

-----------------------------------------------------------------------------
(* Appending.                                                              *)

\* split: a new, empty segment at the next offset becomes the active one.
\* A segment splits when it holds MaxSegmentBytes or is old enough, which an
\* empty one never is.
Splits == end[activeSegment] > activeSegment

split ==
    LET b == end[activeSegment]
    IN  /\ Writable /\ Splits
        /\ files' = files \cup {b} /\ list' = list \cup {b}
        /\ end' = [end EXCEPT ![b] = b]
        /\ idx' = [idx EXCEPT ![b] = b]
        /\ stable' = [stable EXCEPT ![b] = b]
        /\ UNCHANGED << torn, garbled, ckpt, state, left, hw, op, failures, ghosts >>

\* The batch goes to the end of the file the handle was opened on in append
\* mode.  A partial frame an earlier failure left there is not overwritten, so
\* from then on frames lie past the positions the index records.
Append(n) ==
    LET a == activeSegment
        batch == end[a] .. end[a] + n - 1
    IN  /\ Writable
        /\ end[a] + n <= setting.offsets
        /\ end' = [end EXCEPT ![a] = @ + n]
        /\ idx' = [idx EXCEPT ![a] = end'[a]]
        /\ garbled' = IF a \in torn THEN garbled \cup batch ELSE garbled \ batch
        /\ live' = live \cup batch
        /\ UNCHANGED << files, stable, torn, ckpt, state, list, left, hw, op, failures,
                        synced, committed >>

\* The write fails after some bytes of a frame went out (a full disk): Append
\* returns the error and nothing removes the bytes.
AppendFails ==
    /\ "write" \in setting.faults /\ failures < MaxFailures
    /\ Writable /\ end[activeSegment] < setting.offsets
    /\ torn' = torn \cup {activeSegment}
    /\ failures' = failures + 1
    /\ UNCHANGED << files, end, idx, stable, garbled, ckpt, state, list, left, hw, op, ghosts >>

-----------------------------------------------------------------------------
(* The high watermark, its checkpoint, and Sync.                           *)

\* Callers name a record of the log.
SetHighWatermark(h) ==
    /\ state = "up" /\ h > hw /\ h <= NewestOffset
    /\ hw' = h /\ committed' = h
    /\ UNCHANGED << disk, state, list, left, op, failures, live, synced >>

OverrideHighWatermark(h) ==
    /\ "OverrideHighWatermark" \in setting.calls
    /\ state = "up" /\ h # hw /\ h <= NewestOffset
    /\ hw' = h /\ committed' = h
    /\ UNCHANGED << disk, state, list, left, op, failures, live, synced >>

\* RecoverTail: every record open() left above the watermark reads back, so
\* RepairTail truncates nothing and answers with the newest offset.
RecoverTail ==
    /\ state = "up" /\ op = Idle /\ left = {} /\ garbled = {}
    /\ NewestOffset > hw
    /\ hw' = NewestOffset /\ committed' = hw'
    /\ UNCHANGED << disk, state, list, left, op, failures, live, synced >>

\* checkpointHW: the active segment's file is fsynced, no other, then the
\* watermark goes to the checkpoint file.  The fsync of a closed file fails.
checkpointHW ==
    IF current(activeSegment)
        THEN /\ stable' = [stable EXCEPT ![activeSegment] = end[activeSegment]]
             /\ ckpt' = hw
        ELSE UNCHANGED << stable, ckpt >>

checkpointHWTick ==
    /\ state = "up"
    /\ checkpointHW
    /\ UNCHANGED << files, end, idx, torn, garbled, state, list, left, hw, op, failures, ghosts >>

\* Mutant: only the active segment is flushed.
FlushedActive ==
    [b \in Base |-> IF b = activeSegment /\ current(b) THEN end[b] ELSE stable[b]]

\* Sync(NewestOffset()): every listed segment that is still open is fsynced.
\* The walk and its races are the subject of SyncBarrier.
FlushedTo == [b \in Base |-> IF b \in list /\ current(b) THEN end[b] ELSE stable[b]]

Sync ==
    /\ "Sync" \in setting.calls /\ state = "up"
    /\ stable' = FlushedTo
    /\ synced' = live
    /\ UNCHANGED << files, end, idx, torn, garbled, ckpt, state, list, left, hw, op, failures,
                    live, committed >>

SyncAll ==
    /\ "SyncAll" \in setting.calls /\ state = "up"
    /\ stable' = FlushedTo
    /\ synced' = live
    /\ ckpt' = IF current(activeSegment) THEN hw ELSE ckpt
    /\ UNCHANGED << files, end, idx, torn, garbled, state, list, left, hw, op, failures,
                    live, committed >>

-----------------------------------------------------------------------------
(* Deleting a segment: it is closed and marked left, then its file goes.   *)

\* Truncate deletes the segments after the cut upwards and the cut segment
\* itself last; TruncateBefore deletes upwards and its boundary is the last.
NextOut == IF op.todo = {op.seg} THEN op.seg ELSE Min(op.todo \ {op.seg})

Delete ==
    /\ state = "up" /\ op.do \in {"cut", "drop"} /\ op.todo # {}
    /\ files' = files \ {NextOut}
    /\ torn' = torn \ {NextOut}
    /\ left' = left \cup ({NextOut} \cap list)
    /\ end' = Of(files' \cup list, end)
    /\ idx' = Of(files', idx) /\ stable' = Of(files', stable)
    /\ op' = IF op.do = "drop" /\ op.todo = {NextOut}
                THEN Idle
                ELSE [op EXCEPT !.todo = @ \ {NextOut}]
    /\ UNCHANGED << garbled, ckpt, state, list, hw, failures, ghosts >>

\* The unlink fails: the call returns its error, and what it had already done
\* stays done.
DeleteFails ==
    /\ "delete" \in setting.faults /\ failures < MaxFailures
    /\ state = "up" /\ op.do \in {"cut", "drop"} /\ op.todo # {}
    /\ left' = left \cup ({NextOut} \cap list)
    /\ op' = Idle
    /\ failures' = failures + 1
    /\ UNCHANGED << disk, state, list, hw, ghosts >>

-----------------------------------------------------------------------------
(* Truncate(o): the records from o on go.                                  *)

\* The segment holding the cut is rewritten, unless the cut is at its base and
\* a segment before it can take over.  The rewrite goes to a working file
\* open() does not look at.
Truncate(o) ==
    LET seg == Min(Reaching(o))
        rewrite == seg # o \/ seg = Min(list)
    IN  /\ "Truncate" \in setting.calls
        /\ state = "up" /\ op = Idle
        /\ Reaching(o) # {}
        /\ op' = [do |-> "cut", seg |-> seg, at |-> o, rewrite |-> rewrite,
                  todo |-> { b \in list : b > seg } \cup (IF rewrite THEN {} ELSE {seg})]
        /\ live' = live \ From(o) /\ synced' = synced \ From(o)
        /\ UNCHANGED << disk, state, list, left, hw, failures, committed >>

\* Mutant: the rewrite stops one record early.
CutEndLow == Max({op.at - 1, op.seg})

\* Where the rewrite ends: it holds the cut segment's records below the cut.
CutEnd == Max({op.at, op.seg})

\* Replace, first rename: the shorter log is in place beside the old index.
\* Nothing has fsynced it.
ReplaceLog ==
    /\ state = "up" /\ op.do = "cut" /\ op.rewrite /\ op.todo = {}
    /\ end' = [end EXCEPT ![op.seg] = CutEnd]
    /\ stable' = [stable EXCEPT ![op.seg] = op.seg]
    /\ torn' = torn \ {op.seg}
    /\ op' = [op EXCEPT !.do = "cutLog"]
    /\ UNCHANGED << files, idx, garbled, ckpt, state, list, left, hw, failures, ghosts >>

\* Mutant: the watermark stays above the cut.
UncutWatermark(segments) == hw

CutWatermark(segments) == Min({hw, end[Max(segments)] - 1})

\* Replace, second rename, and the publish: the list ends at the cut, and the
\* watermark comes down to the new end of the log.
TruncatePublish ==
    /\ state = "up" /\ op.todo = {}
    /\ op.do = "cutLog" \/ (op.do = "cut" /\ ~op.rewrite)
    /\ idx' = IF op.rewrite THEN [idx EXCEPT ![op.seg] = end[op.seg]] ELSE idx
    /\ list' = { b \in list : b < op.seg } \cup (IF op.rewrite THEN {op.seg} ELSE {})
    /\ left' = left \cap (list' \ {op.seg})
    /\ end' = Of(files \cup list', end)
    /\ hw' = CutWatermark(list')
    /\ committed' = hw'
    /\ op' = Idle
    /\ UNCHANGED << files, stable, torn, garbled, ckpt, state, failures, live, synced >>

-----------------------------------------------------------------------------
(* TruncateBefore(m): sealed segments below m go, and the one m falls in   *)
(* is rewritten to begin at m.  The active segment is never touched.       *)

\* What TruncateBefore deletes once it has published.
Outgoing(boundary, trim) ==
    { b \in list : b < boundary } \cup (IF trim THEN {boundary} ELSE {})

TruncateBefore(m) ==
    LET sealed == list \ {activeSegment}
        keeping == { b \in sealed : end[b] > b /\ end[b] > m }
        boundary == IF keeping = {} THEN activeSegment ELSE Min(keeping)
        trim == keeping # {} /\ boundary < m
    IN  /\ "TruncateBefore" \in setting.calls
        /\ state = "up" /\ op = Idle /\ m > 0
        /\ trim \/ \E b \in list : b < boundary
        /\ trim => current(boundary)
        /\ op' = [do |-> "trim", seg |-> boundary, at |-> m, rewrite |-> trim,
                  todo |-> Outgoing(boundary, trim)]
        /\ live' = live \ Below(m) /\ synced' = synced \ Below(m)
        /\ UNCHANGED << disk, state, list, left, hw, failures, committed >>

\* Finalize, first rename: the trimmed log is in place under its new base, its
\* index is not there yet, and nothing has fsynced it.
FinalizeLog ==
    /\ state = "up" /\ op.do = "trim" /\ op.rewrite
    /\ files' = files \cup {op.at}
    /\ end' = [end EXCEPT ![op.at] = end[op.seg]]
    /\ idx' = [idx EXCEPT ![op.at] = op.at]
    /\ stable' = [stable EXCEPT ![op.at] = op.at]
    /\ op' = [op EXCEPT !.do = "trimLog"]
    /\ UNCHANGED << torn, garbled, ckpt, state, list, left, hw, failures, ghosts >>

\* The boundary, or the trim in its place, and everything listed after it.
Survivors == { b \in list : b > op.seg } \cup {IF op.rewrite THEN op.at ELSE op.seg}

\* Finalize, second rename, and the publish: the list begins at the boundary
\* and keeps what was rolled onto it meanwhile.
TruncateBeforePublish ==
    /\ state = "up"
    /\ op.do = "trimLog" \/ (op.do = "trim" /\ ~op.rewrite)
    /\ idx' = IF op.rewrite THEN [idx EXCEPT ![op.at] = end[op.at]] ELSE idx
    /\ list' = Survivors
    /\ left' = left \cap list'
    /\ op' = IF op.todo = {} THEN Idle ELSE [op EXCEPT !.do = "drop"]
    /\ UNCHANGED << files, end, stable, torn, garbled, ckpt, state, hw, failures, ghosts >>

-----------------------------------------------------------------------------
(* Stopping.                                                               *)

Down ==
    /\ state' = "down" /\ list' = {} /\ left' = {} /\ op' = Idle

Close ==
    /\ state = "up" /\ op = Idle
    /\ checkpointHW
    /\ Down
    /\ UNCHANGED << files, end, idx, torn, garbled, hw, failures, ghosts >>

\* The process is killed.  An append in flight has written some of its frames,
\* perhaps part of one more, and no index entry.  Behind a partial frame an
\* earlier failure left, no walk finds them.
Kill(n, cut) ==
    /\ state = "up"
    /\ n > 0 \/ cut => Writable /\ end[activeSegment] + n < setting.offsets
    /\ n > 0 => activeSegment \notin torn
    /\ end' = IF n = 0 THEN end ELSE [end EXCEPT ![activeSegment] = @ + n]
    /\ torn' = IF cut THEN torn \cup {activeSegment} ELSE torn
    /\ Down
    /\ UNCHANGED << files, idx, stable, garbled, ckpt, hw, failures, ghosts >>

\* Power is lost, the log running or not.  A file keeps what was fsynced and any
\* number of frames after it, perhaps part of the next.  Its index is a file of
\* its own: those in `ahead` were written back whole, the others name no frame
\* that their log lost.  Records no Sync covered may go.
PowerLoss(kept, ahead, cut) ==
    /\ "power" \in setting.faults
    /\ state \in {"up", "down"}
    /\ end' = [b \in Base |-> IF b \in files THEN kept[b] ELSE end[b]]
    /\ idx' = [b \in Base |-> IF b \in files \ ahead THEN Min({kept[b], idx[b]}) ELSE idx[b]]
    /\ torn' = { b \in torn : kept[b] = end[b] } \cup cut
    /\ live' = synced \cup { o \in live : \E b \in files : b <= o /\ o < kept[b] }
    /\ Down
    /\ UNCHANGED << files, stable, garbled, ckpt, hw, failures, synced, committed >>

-----------------------------------------------------------------------------
(* open().                                                                 *)

\* setupIndex: an index that reaches past its log is rebuilt from the log, and
\* the walk that rebuilds it drops a partial frame whatever is committed.
TornAtReconcile == { b \in torn : idx[b] <= end[b] }

\* Mutant: the floor is one too high.
RefusesTornAtFloor(b, committedThrough) ==
    /\ b \in TornAtReconcile
    /\ committedThrough >= b
    /\ end[b] - 1 <= committedThrough

\* reconcileIndexTail: a partial frame is dropped unless the floor the caller
\* passes says more than what is left was there.
RefusesTorn(b, committedThrough) ==
    /\ b \in TornAtReconcile
    /\ committedThrough >= b
    /\ end[b] - 1 < committedThrough

\* A sealed segment's floor is the offset before the next segment.
SealedRefused ==
    \E b \in files \ {Max(files)} :
        RefusesTorn(b, Min({ c \in files : c > b }) - 1)

\* resolveSegmentOverlaps: how far the segments before b reach.  A segment
\* that begins below that is dropped if it ends there too, and refused if not.
Reach(b) == Max({0} \cup { end[c] : c \in { f \in files : f < b } })

\* Mutant: the newer of two overlapping segments wins.
NewerWins == { b \in files : \A c \in files : c > b => c >= end[b] }

resolveSegmentOverlaps == { b \in files : b >= Reach(b) }

Overlapping == \E b \in files : b < Reach(b) /\ end[b] > Reach(b)

OpenRefused ==
    /\ state = "down" /\ files # {}
    /\ \/ SealedRefused /\ state' = "torn"
       \/ ~SealedRefused /\ Overlapping /\ state' = "overlap"
       \/ /\ ~SealedRefused /\ ~Overlapping
          /\ RefusesTorn(Max(resolveSegmentOverlaps), ckpt)
          /\ state' = "torn"
    /\ UNCHANGED << disk, list, left, hw, op, failures, ghosts >>

\* The checkpoint may claim more than the log holds.
ReopenedWatermark(kept) == Min({ckpt, end[Max(kept)] - 1})

open ==
    LET kept == resolveSegmentOverlaps
    IN  /\ state = "down" /\ files # {}
        /\ ~SealedRefused /\ ~Overlapping
        /\ ~RefusesTorn(Max(kept), ckpt)
        /\ state' = "up"
        /\ list' = kept /\ files' = kept
        /\ end' = Of(kept, end) /\ idx' = end'
        /\ stable' = Of(kept, [b \in Base |-> IF b \in torn THEN end[b] ELSE stable[b]])
        /\ torn' = {}
        /\ hw' = ReopenedWatermark(kept)
        /\ UNCHANGED << garbled, ckpt, left, op, failures, ghosts >>

\* A directory with no segment is a new log, whatever the checkpoint says.
openEmpty ==
    /\ state = "down" /\ files = {}
    /\ state' = "up"
    /\ list' = {0} /\ files' = {0}
    /\ end' = Of({}, end) /\ idx' = end' /\ stable' = end'
    /\ hw' = -1
    /\ UNCHANGED << torn, garbled, ckpt, left, op, failures, ghosts >>

-----------------------------------------------------------------------------

Step ==
    \/ split
    \/ \E n \in 1 .. setting.batch : Append(n)
    \/ AppendFails
    \/ \E h \in Offset : SetHighWatermark(h)
    \/ \E h \in -1 .. MaxOffset - 1 : OverrideHighWatermark(h)
    \/ RecoverTail
    \/ checkpointHWTick
    \/ Sync
    \/ SyncAll
    \/ \E o \in 0 .. setting.offsets - 1 : Truncate(o)
    \/ ReplaceLog
    \/ TruncatePublish
    \/ \E m \in 0 .. setting.offsets - 1 : TruncateBefore(m)
    \/ FinalizeLog
    \/ TruncateBeforePublish
    \/ Delete
    \/ DeleteFails
    \/ Close
    \/ \E n \in 0 .. setting.batch - 1, cut \in BOOLEAN : Kill(n, cut)
    \/ \E kept \in [files -> Base] :
          /\ \A b \in files : kept[b] \in stable[b] .. end[b]
          /\ LET lost == { b \in files : kept[b] < end[b] }
             IN  \E ahead, cut \in SUBSET lost : PowerLoss(kept, ahead, cut)
    \/ OpenRefused
    \/ open
    \/ openEmpty

Next == Step /\ UNCHANGED setting

Spec == Init /\ [][Next]_vars

-----------------------------------------------------------------------------
(* Properties.                                                             *)

\* What open() hands back has no gap: each segment ends where the next begins.
\* The recovery paths call a hole "the one outcome" they "consistently refuse"
\* (open, commitlog.go:1146).  Truncate's window, in which it is deleting, is
\* left out.
HoleFree ==
    state = "up" /\ op.do \notin {"cut", "cutLog"} =>
        \A b, c \in list : b < c => \E n \in list : n > b /\ n <= c /\ end[b] = n

\* The log's end and its watermark only move up, and no file operation fails.
Advancing ==
    setting.faults = {} /\ setting.calls \cap {"Truncate", "OverrideHighWatermark"} = {}

\* A log that is only trimmed from its front has no gap, across kills between
\* the steps of a trim and the reopens after them.
TrimsLeaveNoHole == Advancing => HoleFree

\* Every offset an append returned, and no truncation was asked to remove, is
\* found in exactly one segment, and its frame is where the index says: through
\* rolls, the steps of both truncations, kills between them and reopens.
LiveSurvives ==
    setting.faults = {} /\ state = "up" => \A o \in live : Cardinality(Holders(o)) = 1 /\ o \notin garbled

\* Every record a returned Sync covered is there after a power loss
\* (Sync: "a reopened log recovers every record up to and including offset").
SyncedSurvives ==
    state = "up" => \A o \in synced : Cardinality(Holders(o)) = 1

\* A killed log opens again.  No path leaves segments behind that overlap without
\* one containing the other, and where the log's end and watermark only moved up,
\* a partial frame is never one that open() takes for a committed record and
\* refuses over.
OpensAfterKill ==
    /\ setting.faults = {} => state # "overlap"
    /\ Advancing => state # "torn"

\* The watermark names no record above the end of the log, whatever truncation
\* or crash took away (the clamps of open and Truncate), and opening never
\* commits: where it only moved up, the watermark open() takes from the
\* checkpoint is at most the one in force when the log stopped.
WatermarkIsBacked ==
    /\ state = "up" /\ op.do \notin {"cut", "cutLog"} => hw <= NewestOffset
    /\ setting.calls \cap {"Truncate", "OverrideHighWatermark"} = {} /\ state = "up" =>
           hw <= committed

=============================================================================

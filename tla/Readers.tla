------------------------------ MODULE Readers ------------------------------
(***************************************************************************)
(* Readers beside a writer and a maintenance pass: reader.go, and the      *)
(* waiters of commitlog.go and segment.go that park them.                  *)
(*                                                                         *)
(* A committed reader serves up to the high watermark and parks in         *)
(* hwWaiters; an uncommitted one serves to the end of the log and parks on *)
(* its segment, as a NotifyLEO waiter does.  The writer's append is        *)
(* several steps, because readers run between them: roll (publish the new  *)
(* segment), seal the old one, write, and wake the committed readers.      *)
(* Compaction replaces a sealed segment under everyone: the old one stays  *)
(* in the lists readers hold, and answers "replaced".                      *)
(*                                                                         *)
(* A segment is its base offset and whether it is the rewrite or the       *)
(* original; a reader's place in one is an offset, and it serves the first *)
(* record from there on.  Truncation and retention are left out.           *)
(***************************************************************************)
EXTENDS Integers, FiniteSets, FiniteSetsExt

CONSTANTS
    Readers,        \* the readers
    MaxOffset,      \* offsets are 0 .. MaxOffset - 1
    MaxStart,       \* the highest offset a committed reader starts at
    Settings        \* which operations there are, over how many offsets, and
                    \* how many records fill a segment

ASSUME ReadersAssumption ==
    /\ MaxOffset \in Nat \ {0} /\ MaxStart \in Nat
    /\ \A s \in Settings : s.records \in Nat \ {0}

VARIABLES
    setting,    \* one of Settings
    bases,      \* the segments ever created, by base offset
    rewritten,  \* those that compaction replaced
    dropped,    \* the records their rewrites left out
    next,       \* NextOffset of the active segment
    writer,     \* what the holder of appendMu owes: "idle", "seal", "notify"
    hw,         \* l.hw
    readonly,   \* "no", "set": the flag is stored, "yes": waiters were told
    closed,     \* "no", "signalled": l.closed, "yes": the segments are shut
    cr,         \* the readers that are built as committed ones
    ur,         \* the readers that are built as uncommitted ones
    leo         \* a caller of NotifyLEO

log == << setting, bases, rewritten, dropped, next, writer >>
vars == << log, hw, readonly, closed, cr, ur, leo >>

May(what) == what \in setting.may

Offset == 0 .. MaxOffset - 1
Base == 0 .. MaxOffset
Segment == Base \X {0, 1}
None == << -1, 0 >>

activeSegment == Max(bases)

NewestOffset == next - 1

\* The first offset after the records a segment was written with.
End(b) == IF b = activeSegment THEN next ELSE Min({ c \in bases : c > b })

\* What a segment holds.
Records(s) == { o \in s[1] .. End(s[1]) - 1 : s[2] = 1 => o \notin dropped }

NextOffset(s) == IF Records(s) = {} THEN s[1] ELSE Max(Records(s)) + 1

\* The segment that stands for b now, and whether s has left the log.
current(b) == << b, IF b \in rewritten THEN 1 ELSE 0 >>

left(s) == s # current(s[1])

\* A segment of which the rewrite kept nothing has no replacement.
gone(b) == b \in rewritten /\ Records(current(b)) = {}

\* The first segment of a list that reaches offset o, as it is now.
findSegment(S, o) ==
    LET reaching == { b \in S : ~gone(b) /\ NextOffset(current(b)) > o }
    IN  IF reaching = {} THEN None ELSE current(Min(reaching))

\* The segment a roll left is sealed by a step of its own.
Sealed(b) ==
    /\ b # activeSegment
    /\ writer = "seal" => b # Max(bases \ {activeSegment})

Full(b) == End(b) - b >= setting.records

\* The last segment of the list bounds the watermark.
clampHW(S, h) == Min({h, End(Max(S)) - 1})

\* Mutant: one offset too far.
findSegmentPast(S, seg) == findSegment(S, NextOffset(seg) + 1)

\* The segment to read after seg.
findSegmentAfter(S, seg) ==
    LET after == findSegment(S, NextOffset(seg)) IN IF after = seg THEN None ELSE after

\* The records of a segment from offset o on.
From(s, o) == { x \in Records(s) : x >= o }

\* Reader and committedReader: the offset it asks for next, whether that is
\* still the one of a caller who asked above the watermark, its segment and
\* place in it, the bound it may serve and the segment holding that bound, the
\* watermark it last loaded, the list it walks, and whether it waits for more.
CommittedReader ==
    [pc : {"new", "list", "open", "openHW", "openSeg", "resolve",
           "read", "loop", "eof", "sync", "snapshot", "clamp", "locate", "locateHW", "locateSeg",
           "register", "parked", "readonly", "ended", "closed", "failed"},
     offset : Base, above : BOOLEAN, seg : Segment \cup {None}, at : Base,
     hw : Offset \cup {-1}, hwSeg : Segment \cup {None}, raw : Offset \cup {-1},
     snap : SUBSET Base, follow : BOOLEAN]

UncommittedReader ==
    [pc : {"new", "resolve", "openSeg", "loop", "eof", "wait", "parked", "ended", "closed", "failed"},
     offset : Base, seg : Segment, at : Base, follow : BOOLEAN]

Waiter == [pc : {"new", "newest", "wait", "parked", "woken"}, seg : Base,
           expected : Offset \cup {-1}, actual : Offset \cup {-1}]

\* Types; the bound of a committed reader lies on the log, however far above it
\* the watermark was set (clampHW).
TypeOK ==
    /\ setting \in Settings
    /\ bases \subseteq Base /\ 0 \in bases /\ rewritten \subseteq bases
    /\ dropped \subseteq Offset
    /\ next \in Base /\ activeSegment <= next
    /\ writer \in {"idle", "seal", "notify"}
    /\ hw \in Offset \cup {-1}
    /\ readonly \in {"no", "set", "yes"} /\ closed \in {"no", "signalled", "yes"}
    /\ cr \in [Readers -> CommittedReader]
    /\ \A r \in Readers : cr[r].hw < next
    /\ ur \in [Readers -> UncommittedReader]
    /\ leo \in Waiter

Init ==
    /\ setting \in Settings
    /\ bases = {0} /\ rewritten = {} /\ dropped = {} /\ next = 0 /\ writer = "idle"
    /\ hw = -1 /\ readonly = "no" /\ closed = "no"
    /\ cr = [r \in Readers |->
               [pc |-> "new", offset |-> 0, above |-> FALSE, seg |-> None, at |-> 0, hw |-> -1,
                hwSeg |-> None, raw |-> -1, snap |-> {}, follow |-> TRUE]]
    /\ ur = [r \in Readers |-> [pc |-> "new", offset |-> 0, seg |-> << 0, 0 >>, at |-> 0,
                                follow |-> TRUE]]
    /\ leo = [pc |-> "new", seg |-> 0, expected |-> -1, actual |-> -1]

-----------------------------------------------------------------------------
(* The waiters.                                                            *)

\* notifyHWChange: every parked committed reader looks again.
notifyHWChange ==
    [r \in Readers |-> IF cr[r].pc = "parked" THEN [cr[r] EXCEPT !.pc = "sync"] ELSE cr[r]]

\* The reader gives its place up: for good, or to be built anew.
Leaves(reader, to) ==
    [reader EXCEPT !.pc = to, !.seg = None, !.hwSeg = None, !.raw = -1, !.snap = {}]

\* A parked committed reader gets ErrCommitLogReadonly.
ToldReadonly ==
    [r \in Readers |-> IF cr[r].pc = "parked" THEN Leaves(cr[r], "readonly") ELSE cr[r]]

\* Mutant: only a watermark exactly at the tail.
notifyReadonlyAtTail == IF hw # NewestOffset THEN cr ELSE ToldReadonly

\* notifyReadonly: nothing is left to wait for, unless the watermark may still
\* come up to the tail.
notifyReadonly == IF hw < NewestOffset THEN cr ELSE ToldReadonly

Told == [leo EXCEPT !.pc = "woken", !.seg = 0, !.actual = -1]

\* Mutant: the waiters are dropped without a signal.
notifyNobody(b) == UNCHANGED << ur, leo >>

\* segment.notifyWaiters on the segment with base b.
notifyWaiters(b) ==
    /\ ur' = [r \in Readers |->
                IF ur[r].pc = "parked" /\ ur[r].seg[1] = b THEN [ur[r] EXCEPT !.pc = "loop"]
                ELSE ur[r]]
    /\ leo' = IF leo.pc = "parked" /\ leo.seg = b THEN Told ELSE leo

-----------------------------------------------------------------------------
(* The writer and the owner of the watermark.                              *)

\* split, before an append that finds the segment full or old, or by the
\* maintenance loop.  An empty segment is neither, and a closed log has none.
split ==
    /\ writer = "idle" /\ next > activeSegment /\ closed # "yes"
    /\ bases' = bases \cup {next}
    /\ writer' = "seal"
    /\ UNCHANGED << setting, rewritten, dropped, next, hw, readonly, closed, cr, ur, leo >>

Seal ==
    /\ writer = "seal"
    /\ writer' = "idle"
    /\ notifyWaiters(Max(bases \ {activeSegment}))
    /\ UNCHANGED << setting, bases, rewritten, dropped, next, hw, readonly, closed, cr >>

\* WriteMessageSet: the record and the segment's waiters, under its lock.
WriteMessageSet ==
    /\ writer = "idle" /\ ~Full(activeSegment) /\ closed # "yes"
    /\ next < MaxOffset /\ next < setting.offsets
    /\ next' = next + 1
    /\ notifyWaiters(activeSegment)
    /\ writer' = "notify"
    /\ UNCHANGED << setting, bases, rewritten, dropped, hw, readonly, closed, cr >>

\* The committed readers are woken when the watermark already covers the
\* record.
WokenByAppend == IF hw >= NewestOffset THEN notifyHWChange ELSE cr

appendWith ==
    /\ writer = "notify"
    /\ writer' = "idle"
    /\ cr' = WokenByAppend
    /\ UNCHANGED << setting, bases, rewritten, dropped, next, hw, readonly, closed, ur, leo >>

\* A caller may set the watermark ahead of the tail (a follower that was told
\* what its leader committed), and override it with a lower one.
Sets(h) ==
    /\ h > hw \/ (May("override") /\ h # hw)
    /\ h <= IF May("lead") THEN next ELSE NewestOffset

\* SetHighWatermark, OverrideHighWatermark
SetHighWatermark(h) ==
    /\ Sets(h)
    /\ hw' = h
    /\ cr' = notifyHWChange
    /\ UNCHANGED << log, readonly, closed, ur, leo >>

\* SetReadonly stores the flag, then takes the lock and tells the waiters.
\* AppendMessageSet goes on writing to a readonly log.
SetReadonly ==
    /\ May("readonly") /\ readonly = "no"
    /\ readonly' = "set"
    /\ UNCHANGED << log, hw, closed, cr, ur, leo >>

SetReadonlyNotify ==
    /\ readonly = "set"
    /\ readonly' = "yes"
    /\ cr' = notifyReadonly
    /\ UNCHANGED << log, hw, closed, ur, leo >>

\* Some committed reader is bounded in s and has yet to come to it, reads in s,
\* which reaches past the watermark, or walks a list that ends in s.
Relied(s) ==
    \E r \in Readers :
        \/ cr[r].hwSeg = s /\ cr[r].seg # s /\ cr[r].pc \notin {"openHW", "locateHW"}
        \/ cr[r].seg = s /\ NextOffset(s) > hw + 1
        \/ cr[r].snap # {} /\ Max(cr[r].snap) = s[1]

\* Compaction rewrites a sealed segment without some records below its ceiling,
\* the watermark: Replace, or the segment is deleted when none is left.
Replace(b, D) ==
    /\ May("compact") /\ closed # "yes"
    /\ b \in bases \ rewritten /\ Sealed(b)
    /\ D # {} /\ \A o \in D : o < hw
    /\ May("rewrite under a reader") \/ ~Relied(current(b))
    /\ rewritten' = rewritten \cup {b}
    /\ dropped' = dropped \cup D
    /\ UNCHANGED << setting, bases, next, writer, hw, readonly, closed, cr, ur, leo >>

\* Close signals l.closed, waits for the background loops, then shuts every
\* segment under the lock.
Close ==
    /\ May("close") /\ closed # "yes"
    /\ closed' = IF closed = "no" THEN "signalled" ELSE "yes"
    /\ UNCHANGED << log, hw, readonly, cr, ur, leo >>

-----------------------------------------------------------------------------
(* A committed reader.                                                     *)

Becomes(r, new) ==
    cr' = [cr EXCEPT ![r] = new] /\ UNCHANGED << log, hw, readonly, closed, ur, leo >>

\* A lookup or a read in a segment that was replaced or shut fails.
Unreadable(s) == left(s) \/ closed = "yes"

\* classifyReadError: the log's own state explains any error; otherwise the
\* reader is built anew for the offset it owes.
classifyReadError == IF closed # "no" THEN "closed" ELSE "resolve"

\* readOne and newSourceReader after an error.
Again(r) == [Leaves(cr[r], classifyReadError) EXCEPT !.hw = -1]

\* The result of findEntry(o) in segment s.
findEntry(r, s, o, found) ==
    IF Unreadable(s) THEN Again(r)
    ELSE IF From(s, o) = {} THEN [cr[r] EXCEPT !.pc = "failed"]
    ELSE found

\* NewReader: any offset, following or not.
NewReader(r, o, f) ==
    /\ May("committed") /\ cr[r].pc = "new" /\ ur[r].pc = "new"
    /\ o <= MaxStart
    /\ f \/ May("bounded")
    /\ Becomes(r, [cr[r] EXCEPT !.pc = "list", !.raw = hw, !.offset = o, !.follow = f])

\* newReaderCommitted loads the watermark, then the list,
newReaderCommitted(r) ==
    \/ /\ cr[r].pc = "resolve"
       /\ Becomes(r, [cr[r] EXCEPT !.pc = "list", !.raw = hw])
    \/ /\ cr[r].pc = "list"
       /\ Becomes(r, [cr[r] EXCEPT !.pc = "open", !.snap = bases])

\* and finds the bound and its place.  Above the bound it has none yet: the
\* reader will go on after the bound it was built with.
Position(r) ==
    LET h == clampHW(cr[r].snap, cr[r].raw)
        o == cr[r].offset
        hwSeg == findSegment(cr[r].snap, h)
        new == [cr[r] EXCEPT !.hw = h, !.raw = -1]
    IN  /\ cr[r].pc = "open"
        /\ \/ /\ h = -1 \/ o > h
              /\ Becomes(r, [new EXCEPT !.pc = "read", !.snap = {}, !.at = h + 1,
                                        !.above = o > h + 1])
           \/ /\ h # -1 /\ o <= h
              /\ Becomes(r, [new EXCEPT !.pc = IF hwSeg = None THEN "failed" ELSE "openHW",
                                        !.above = FALSE, !.hwSeg = hwSeg])

PositionSegment(r) ==
    LET o == cr[r].offset
        seg == findSegment(cr[r].snap, o)
        placed == [cr[r] EXCEPT !.pc = "read", !.snap = {}, !.at = Max({o, cr[r].seg[1]})]
    IN  \/ /\ cr[r].pc = "openHW"
           /\ Becomes(r, findEntry(r, cr[r].hwSeg, cr[r].hw, [cr[r] EXCEPT !.pc = "openSeg", !.seg = seg]))
        \/ /\ cr[r].pc = "openSeg"
           /\ Becomes(r, IF cr[r].seg[1] <= o THEN findEntry(r, cr[r].seg, o, placed) ELSE placed)

\* Read takes a snapshot and goes to the records, by way of the watermark when
\* it has no place.
Read(r) ==
    /\ cr[r].pc = "read"
    /\ Becomes(r, [cr[r] EXCEPT !.pc = IF cr[r].seg = None THEN "sync" ELSE "loop",
                                !.snap = bases])

\* Mutant: the limit is never applied.
UnlimitedReader(r) == FALSE

\* hwPos ends the first record at or above the bound.  It limits the read only
\* in the segment that holds it.
Limited(r) ==
    \/ cr[r].hwSeg = None
    \/ /\ cr[r].hwSeg = cr[r].seg
       /\ cr[r].at > Min(From(cr[r].hwSeg, cr[r].hw))

\* readLoop: at the limit, load the watermark again (syncHW); with bytes left, serve
\* a record; otherwise the segment is at its end.  A segment that was replaced
\* still serves what the reader has buffered of it.
readLoop(r) ==
    LET rest == From(cr[r].seg, cr[r].at)
    IN  /\ cr[r].pc = "loop"
        /\ \/ /\ Limited(r)
              /\ Becomes(r, [cr[r] EXCEPT !.pc = "snapshot", !.raw = hw, !.snap = {}])
           \/ /\ ~Limited(r) /\ rest # {}
              /\ Becomes(r, [cr[r] EXCEPT !.pc = "read", !.at = Min(rest) + 1,
                                          !.offset = Min(rest) + 1, !.above = FALSE, !.snap = {}])
           \/ /\ ~Limited(r) /\ rest = {} /\ ~Unreadable(cr[r].seg)
              /\ Becomes(r, [cr[r] EXCEPT !.pc = "eof"])
           \/ /\ ~Limited(r) /\ Unreadable(cr[r].seg)
              /\ Becomes(r, Again(r))

\* readLoop at the end of a segment: on to the next in the list being walked.
\* Without one the read fails ("no segment to consume").
Advance(r) ==
    LET after == findSegmentAfter(cr[r].snap, cr[r].seg)
    IN  /\ cr[r].pc = "eof"
        /\ Becomes(r, IF after = None THEN [cr[r] EXCEPT !.pc = "failed"]
                      ELSE [cr[r] EXCEPT !.pc = "loop", !.seg = after, !.at = after[1]])

\* Mutant: a bounded read parks for the watermark.
AtBoundParks(r) == [cr[r] EXCEPT !.pc = "register", !.snap = {}]

AtBound(r) ==
    IF cr[r].follow THEN [cr[r] EXCEPT !.pc = "register", !.snap = {}] ELSE Leaves(cr[r], "ended")

\* syncHW: the watermark first, then the list, then the list's tail.  A bound
\* that has not moved is waited for, or ends a read that does not wait.
syncHW(r) ==
    \/ /\ cr[r].pc = "sync"
       /\ Becomes(r, [cr[r] EXCEPT !.pc = "snapshot", !.raw = hw, !.snap = {}])
    \/ /\ cr[r].pc = "snapshot"
       /\ Becomes(r, [cr[r] EXCEPT !.pc = "clamp", !.snap = bases])
    \/ /\ cr[r].pc = "clamp" /\ clampHW(cr[r].snap, cr[r].raw) # cr[r].hw
       /\ Becomes(r, [cr[r] EXCEPT !.pc = "locate"])
    \/ /\ cr[r].pc = "clamp" /\ clampHW(cr[r].snap, cr[r].raw) = cr[r].hw
       /\ Becomes(r, AtBound(r))

\* One that has moved is clamped again and located, and a reader without a place
\* gets one.
getHWPos(r) ==
    LET h == clampHW(cr[r].snap, cr[r].raw)
        hwSeg == findSegment(cr[r].snap, h)
        seg == findSegment(cr[r].snap, cr[r].at)
        placed == [cr[r] EXCEPT !.pc = "loop", !.raw = -1]
    IN  \/ /\ cr[r].pc = "locate"
           /\ Becomes(r, [cr[r] EXCEPT !.pc = IF hwSeg = None THEN "failed" ELSE "locateHW",
                                       !.hw = h, !.hwSeg = hwSeg])
        \/ /\ cr[r].pc = "locateHW"
           /\ Becomes(r, findEntry(r, cr[r].hwSeg, cr[r].hw,
                            IF cr[r].seg # None THEN placed
                            ELSE [placed EXCEPT !.pc = IF seg = None THEN "failed" ELSE "locateSeg",
                                                !.seg = seg]))
        \/ /\ cr[r].pc = "locateSeg"
           /\ Becomes(r, findEntry(r, cr[r].seg, cr[r].at, placed))

\* Mutant: the reader parks without looking whether the watermark moved.
MovedNever(r) == FALSE

Moved(r) == hw # cr[r].raw

\* waitForHW, under the log's lock: a watermark that moved since it was loaded
\* is not waited for, a readonly log with nothing above it ends the read.
waitForHW(r) ==
    /\ cr[r].pc = "register"
    /\ \/ Moved(r) /\ Becomes(r, [cr[r] EXCEPT !.pc = "sync"])
       \/ /\ ~Moved(r) /\ hw >= NewestOffset /\ readonly # "no"
          /\ Becomes(r, Leaves(cr[r], "readonly"))
       \/ /\ ~Moved(r) /\ (hw < NewestOffset \/ readonly = "no")
          /\ Becomes(r, [cr[r] EXCEPT !.pc = "parked"])

\* Mutant: a wait does not watch l.closed.
NotHungUp == FALSE

HungUp == closed # "no"

\* A wait ends when the log closes,
HangUp(r) ==
    /\ cr[r].pc \in {"register", "parked"} /\ HungUp
    /\ Becomes(r, Leaves(cr[r], "closed"))

\* and when the caller gives up, who may read again.
Cancel(r) ==
    /\ May("cancel") /\ cr[r].pc = "parked"
    /\ Becomes(r, [cr[r] EXCEPT !.pc = "read", !.raw = -1])

CommittedStep(r) ==
    \/ newReaderCommitted(r) \/ Position(r) \/ PositionSegment(r)
    \/ Read(r) \/ readLoop(r) \/ Advance(r)
    \/ syncHW(r) \/ getHWPos(r) \/ waitForHW(r) \/ HangUp(r)

-----------------------------------------------------------------------------
(* An uncommitted reader.                                                  *)

Goes(r, new) ==
    ur' = [ur EXCEPT ![r] = new] /\ UNCHANGED << log, hw, readonly, closed, cr, leo >>

\* newReaderUncommitted, first half: the segment of a record of the log, or the
\* place of the record the next append will write for a reader that waits.
Place(r, o, f) ==
    LET seg == findSegment(bases, o)
        new == [ur[r] EXCEPT !.offset = o, !.follow = f]
    IN  IF seg # None THEN [new EXCEPT !.pc = "openSeg", !.seg = seg, !.at = Max({o, seg[1]})]
        ELSE IF f /\ o = next THEN [new EXCEPT !.pc = "loop", !.seg = current(activeSegment), !.at = o]
        ELSE [new EXCEPT !.pc = "failed"]

NewReaderUncommitted(r, o, f) ==
    /\ May("uncommitted") /\ ur[r].pc = "new" /\ cr[r].pc = "new"
    /\ o < next \/ (f /\ o = next)
    /\ f \/ May("bounded")
    /\ Goes(r, Place(r, o, f))

\* Second half: the lookup, when the segment contains the offset; and a reader
\* whose segment was replaced is built anew for the offset it owes.
newReaderUncommitted(r) ==
    \/ /\ ur[r].pc = "openSeg"
       /\ Goes(r, [ur[r] EXCEPT !.pc = IF ur[r].seg[1] <= ur[r].offset /\ Unreadable(ur[r].seg)
                                       THEN classifyReadError ELSE "loop"])
    \/ /\ ur[r].pc = "resolve"
       /\ Goes(r, Place(r, ur[r].offset, ur[r].follow))

\* One attempt to read: a record, the end of the segment's bytes, or an error.
ReadUncommitted(r) ==
    LET rest == From(ur[r].seg, ur[r].at)
    IN  /\ ur[r].pc = "loop"
        /\ \/ /\ rest # {}
              /\ Goes(r, [ur[r] EXCEPT !.at = Min(rest) + 1, !.offset = Min(rest) + 1])
           \/ /\ rest = {} /\ ~Unreadable(ur[r].seg)
              /\ Goes(r, [ur[r] EXCEPT !.pc = "eof"])
           \/ /\ Unreadable(ur[r].seg)
              /\ Goes(r, [ur[r] EXCEPT !.pc = classifyReadError])

\* After the end of a segment: on to the next one in a fresh snapshot, or wait.
AdvanceUncommitted(r) ==
    LET after == findSegmentAfter(bases, ur[r].seg)
    IN  /\ ur[r].pc = "eof"
        /\ Goes(r, IF after # None THEN [ur[r] EXCEPT !.pc = "loop", !.seg = after, !.at = after[1]]
                   ELSE [ur[r] EXCEPT !.pc = IF ur[r].follow THEN "wait" ELSE "ended"])

\* Mutant: new bytes are not looked for before parking.
ReadySealed(b, at) == Sealed(b) \/ Full(b)

\* segment.waitForData: nothing to wait for.
Ready(b, at) == Sealed(b) \/ End(b) > at \/ Full(b)

\* waitForData, under the segment's lock.
waitForData(r) ==
    /\ ur[r].pc = "wait"
    /\ Goes(r, [ur[r] EXCEPT !.pc = IF Ready(ur[r].seg[1], ur[r].at) THEN "loop" ELSE "parked"])

HangUpUncommitted(r) ==
    /\ ur[r].pc \in {"wait", "parked"} /\ HungUp
    /\ Goes(r, [ur[r] EXCEPT !.pc = "closed"])

CancelUncommitted(r) ==
    /\ May("cancel") /\ ur[r].pc = "parked"
    /\ Goes(r, [ur[r] EXCEPT !.pc = "loop"])

UncommittedStep(r) ==
    \/ newReaderUncommitted(r)
    \/ ReadUncommitted(r) \/ AdvanceUncommitted(r) \/ waitForData(r) \/ HangUpUncommitted(r)

-----------------------------------------------------------------------------
(* A caller that waits for the log to grow past what it has seen.          *)

Waits(new) == leo' = new /\ UNCHANGED << log, hw, readonly, closed, cr, ur >>

\* NotifyLEO loads the active segment, then the newest offset,
NotifyLEO ==
    \/ /\ May("leo") /\ leo.pc = "new"
       /\ \E e \in -1 .. NewestOffset :
              Waits([leo EXCEPT !.pc = "newest", !.seg = activeSegment, !.expected = e])
    \/ /\ leo.pc = "newest"
       /\ Waits([leo EXCEPT !.pc = "wait", !.actual = NewestOffset])

\* Mutant: a sealed segment is waited on.
LEOMovedUnsealed == leo.expected # leo.actual \/ Full(leo.seg)

\* WaitForLEO: the newest offset or the segment's own has moved, or nothing more
\* will be written to the segment.
LEOMoved ==
    \/ leo.expected # leo.actual
    \/ End(leo.seg) > leo.seg /\ leo.expected # End(leo.seg) - 1
    \/ Ready(leo.seg, End(leo.seg))

\* and waits under the segment's lock.
WaitForLEO ==
    /\ leo.pc = "wait"
    /\ Waits(IF LEOMoved THEN Told ELSE [leo EXCEPT !.pc = "parked"])

-----------------------------------------------------------------------------

Next ==
    \/ split \/ Seal \/ WriteMessageSet \/ appendWith
    \/ \E h \in Offset : SetHighWatermark(h)
    \/ SetReadonly \/ SetReadonlyNotify \/ Close
    \/ \E b \in bases : \E D \in SUBSET Records(<< b, 0 >>) : Replace(b, D)
    \/ \E r \in Readers, o \in Base, f \in BOOLEAN : NewReader(r, o, f)
    \/ \E r \in Readers : CommittedStep(r) \/ Cancel(r)
    \/ \E r \in Readers, o \in Base, f \in BOOLEAN : NewReaderUncommitted(r, o, f)
    \/ \E r \in Readers : UncommittedStep(r) \/ CancelUncommitted(r)
    \/ NotifyLEO \/ WaitForLEO

Spec == Init /\ [][Next]_vars

\* Readers are goroutines that run; a call that has begun is finished.  Nobody
\* has to append, roll, rewrite, close, give up, or move the watermark.
FairSpec ==
    /\ Spec
    /\ WF_vars(Seal \/ appendWith) /\ WF_vars(SetReadonlyNotify)
    /\ WF_vars((leo.pc = "newest" /\ NotifyLEO) \/ WaitForLEO)
    /\ \A r \in Readers : WF_vars(CommittedStep(r) \/ UncommittedStep(r))

-----------------------------------------------------------------------------
(* Properties.                                                             *)

\* The reader has been built and is at a record.
Built(r) == cr[r].pc \notin {"new", "list", "open", "openHW", "openSeg", "resolve", "closed"}

\* A committed reader serves every record that is kept once and in order, across
\* rolls and rewrites, and never fails on a healthy log: its place, and the record
\* it serves next, skip only what was dropped, whether it advances to the next
\* segment, gets its first place or is built anew (readLoop, syncHW, readOne).
CommittedInOrder ==
    \A r \in Readers :
        LET rest == From(cr[r].seg, cr[r].at) IN
        /\ cr[r].pc # "failed"
        /\ Built(r) /\ ~cr[r].above =>
              cr[r].offset <= cr[r].at /\ cr[r].offset .. cr[r].at - 1 \subseteq dropped
        /\ cr[r].pc = "loop" /\ ~cr[r].above /\ rest # {} =>
              cr[r].offset .. Min(rest) - 1 \subseteq dropped

\* It serves no record above the watermark, although it is limited only in the
\* segment holding its bound (readLoop, reader.go:689): a read "defaults to
\* committed-only" (read_options.go:95).
ServesOnlyCommitted == \A r \in Readers : cr[r].at <= hw + 1

\* A parked uncommitted reader has nothing to read, and the segment it is parked
\* on will still be written or sealed (waitForData, Seal).
ParkedAtTail ==
    \A r \in Readers : ur[r].pc = "parked" => ur[r].at = next /\ ~Sealed(ur[r].seg[1])

\* An uncommitted reader serves every record once and in order: at the end of a
\* segment "exactly two things can be true: the log rolled and the rest is in
\* the next segment, or nothing further has been written yet" (reader.go:496).
UncommittedInOrder ==
    \A r \in Readers : ur[r].pc \in {"loop", "eof", "wait", "parked"} =>
        ur[r].offset <= ur[r].at /\ ur[r].offset .. ur[r].at - 1 \subseteq dropped

\* Where the watermark is never set above the tail, every committed record reaches
\* every committed reader that follows, however often its segments are rewritten
\* or its caller gives up, unless the log is closed or the reader was told that
\* it is readonly: no wakeup is lost between syncHW and waitForHW.
CommittedDelivered ==
    \A r \in Readers :
        cr[r].pc # "new" /\ cr[r].follow /\ ~May("lead")
            ~> cr[r].at > hw \/ cr[r].pc \in {"readonly", "closed"}

\* On a readonly log committed up to its end, a reader is told so rather than
\* left parked (SetReadonly, waitForHW).
ReadonlyEnds ==
    \A r \in Readers :
        cr[r].pc # "new" /\ readonly = "yes" /\ hw >= NewestOffset
            ~> cr[r].pc \in {"readonly", "ended", "closed"} \/ hw < NewestOffset

\* No wakeup of an uncommitted reader is lost: whichever segment it parked on, it
\* goes on to the end of the log (waitForData, seal).  That it serves every record
\* on its way is UncommittedInOrder's claim.
UncommittedDelivered ==
    \A r \in Readers :
        ur[r].pc # "new" /\ ur[r].follow ~> ur[r].at = next \/ ur[r].pc = "closed"

\* Close leaves no reader behind: one that waits, reads or is being built is told
\* (waitForHW, waitForData, classifyReadError).
ClosedEnds ==
    \A r \in Readers :
        closed = "yes" ~> /\ cr[r].pc \in {"new", "closed", "readonly", "ended"}
                          /\ ur[r].pc \in {"new", "closed", "ended"}

\* A bounded read ends, and not before it served every record up to its bound:
\* "'committed data ran out' is an end condition for a bounded pass, not something
\* to wait through" (reader.go:644).
BoundedEnds ==
    \A r \in Readers :
        cr[r].pc # "new" /\ ~cr[r].follow
            ~> (cr[r].pc = "ended" /\ cr[r].at > cr[r].hw) \/ cr[r].pc = "closed"

\* A NotifyLEO caller is told of any record after the one it expected, although
\* the segment it waits on and the newest offset are loaded one after the other
\* and a roll may come in between (NotifyLEO, WaitForLEO, seal).
LEOWaiterWakes == leo.pc # "new" /\ NewestOffset > leo.expected ~> leo.pc = "woken"

=============================================================================

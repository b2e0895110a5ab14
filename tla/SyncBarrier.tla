---------------------------- MODULE SyncBarrier ----------------------------
(***************************************************************************)
(* The group-commit barrier: commitLog.Sync and SyncAll over segment.sync, *)
(* running beside appends, rolls, compaction, retention, the periodic      *)
(* high-watermark checkpoint, Truncate, TruncateBefore and Close.          *)
(*                                                                         *)
(* A segment object and the log file under its handle are one "file",      *)
(* numbered in the order the process creates them.  A file holds the       *)
(* records base..next-1; the first of them, up to stable-1, have reached   *)
(* stable storage.  Only fsync moves stable.  A rewrite (compaction,       *)
(* Truncate, TruncateBefore) is a new file under the old name, so what was *)
(* stable in the old one says nothing about the copy.                      *)
(*                                                                         *)
(* claim and promised are history: the records the contract of Sync and    *)
(* SyncAll covers for a call in flight, and for every call that returned   *)
(* nil.  Truncate takes the records it removes out of both.                *)
(***************************************************************************)
EXTENDS Integers, FiniteSets

CONSTANTS
  Callers,       \* goroutines calling Sync or SyncAll
  MaxOffset,     \* bound: offsets are 0..MaxOffset
  MaxFiles,      \* bound: segment files created in a behaviour
  MaxFailures,   \* bound: fsyncs that fail with an I/O error
  Settings       \* [races, offsets, files]: what may run beside Sync, besides
                 \* the plain operations, and the bounds that hold then

\* "SyncAll"   some callers use SyncAll
\* "Truncate"  Truncate may run
\* "trim"      TruncateBefore may name an offset inside a sealed segment
\* "Close"     Close may run
ASSUME SyncAssumption ==
  /\ MaxOffset \in Nat /\ MaxFiles \in Nat \ {0} /\ MaxFailures \in Nat
  /\ \A s \in Settings :
       s.races \subseteq {"SyncAll", "Truncate", "trim", "Close"}

VARIABLES
  segments,        \* commitLog.segments: the published files
  activeSegment,   \* commitLog.vActiveSegment
  created,         \* files 1..created exist
  base,            \* segment.BaseOffset
  next,            \* segment.NextOffset()
  stable,          \* records below it are on stable storage
  dirtyData,       \* the files with segment.dirtyData set
  closed,          \* the files with segment.closed set
  segmentsClosed,  \* commitLog.segmentsClosed
  failures,        \* fsyncs that have failed
  syncDurable,     \* commitLog.syncDurable
  syncFlushing,    \* commitLog.syncFlushing
  pc,              \* where each caller is
  all,             \* the callers in SyncAll; the others are in Sync
  offset,          \* Sync's argument
  target,          \* the tail the leader read before flushing
  todo,            \* files of the snapshot not flushed yet
  file, cover,     \* the file whose fsync is out, and the tail it covers
  claim, promised, \* history
  setting          \* the member of Settings this behaviour is about

fileVars == <<segments, activeSegment, created, base, next, closed,
              segmentsClosed>>
logVars == <<fileVars, stable, dirtyData, failures>>
barrier == <<syncDurable, syncFlushing>>
callVars == <<all, offset, target, todo, file, cover>>
vars == <<logVars, barrier, pc, callVars, claim, promised, setting>>

Races == setting.races

Files == 1..MaxFiles
Offset == 0..MaxOffset
TailOffset == -1..MaxOffset
Max2(a, b) == IF a >= b THEN a ELSE b
Min2(a, b) == IF a <= b THEN a ELSE b

NewestOffset == next[activeSegment] - 1

\* The first segment of S in list order.
IsFirst(f, S) == f \in S /\ \A g \in S : base[f] <= base[g]

Holds(f, o) == base[f] <= o /\ o < next[f]

\* The callers that took syncFlushing and have not published yet.
Flushing(c) ==
  c \notin all /\ pc[c] \in {"lead", "tail", "flush", "fsync", "failed"}

FilesOK ==
  /\ segments \subseteq Files /\ activeSegment \in segments
  /\ created \in Files /\ segments \subseteq 1..created
  /\ base \in [Files -> 0..MaxOffset + 1]
  /\ next \in [Files -> 0..MaxOffset + 1]
  /\ stable \in [Files -> 0..MaxOffset + 1]
  /\ \A f \in Files : base[f] <= stable[f] /\ stable[f] <= next[f]
  /\ dirtyData \subseteq Files /\ closed \subseteq Files

CallsOK ==
  /\ pc \in [Callers -> {"idle", "check", "wait", "lead", "tail", "flush",
                         "fsync", "failed"}]
  /\ all \subseteq Callers
  /\ offset \in [Callers -> Offset]
  /\ target \in [Callers -> TailOffset]
  /\ todo \in [Callers -> SUBSET Files]
  /\ file \in [Callers -> Files]
  /\ cover \in [Callers -> 0..MaxOffset + 1]
  /\ claim \in [Callers -> TailOffset]

\* The types of the segments, of the barrier and of every caller's progress.
TypeOK ==
  /\ FilesOK /\ CallsOK
  /\ segmentsClosed \in BOOLEAN /\ syncFlushing \in BOOLEAN
  /\ failures \in 0..MaxFailures
  /\ syncDurable \in TailOffset /\ promised \in TailOffset

\* A log just created: one empty segment, which newSegmentWith marks dirty.
Init ==
  /\ segments = {1} /\ activeSegment = 1 /\ created = 1
  /\ base = [f \in Files |-> 0]
  /\ next = [f \in Files |-> 0]
  /\ stable = [f \in Files |-> 0]
  /\ dirtyData = Files /\ closed = {}
  /\ segmentsClosed = FALSE /\ failures = 0
  /\ syncDurable = -1 /\ syncFlushing = FALSE
  /\ pc = [c \in Callers |-> "idle"]
  /\ all = {}
  /\ offset = [c \in Callers |-> 0]
  /\ target = [c \in Callers |-> -1]
  /\ todo = [c \in Callers |-> {}]
  /\ file = [c \in Callers |-> 1]
  /\ cover = [c \in Callers |-> 0]
  /\ claim = [c \in Callers |-> -1]
  /\ promised = -1
  /\ setting \in Settings

(***************************************************************************)
(* Everything that runs beside the barrier.                                *)
(***************************************************************************)

\* WriteMessageSet marks the segment dirty, writes and moves NextOffset under
\* one hold of the segment lock.
Append ==
  /\ activeSegment \notin closed
  /\ next[activeSegment] <= MaxOffset /\ next[activeSegment] <= setting.offsets
  /\ next' = [next EXCEPT ![activeSegment] = @ + 1]
  /\ dirtyData' = dirtyData \cup {activeSegment}
  /\ UNCHANGED <<segments, activeSegment, created, base, closed,
                 segmentsClosed, stable, failures>>
  /\ UNCHANGED <<barrier, pc, callVars, claim, promised>>

\* A new file with the records b..n-1, of which those below s are stable.
Create(b, n, s, d) ==
  /\ created < MaxFiles /\ created < setting.files
  /\ created' = created + 1
  /\ base' = [base EXCEPT ![created + 1] = b]
  /\ next' = [next EXCEPT ![created + 1] = n]
  /\ stable' = [stable EXCEPT ![created + 1] = s]
  /\ dirtyData' = IF d THEN dirtyData \cup {created + 1}
                  ELSE dirtyData \ {created + 1}

CreateNothing == UNCHANGED <<created, base, next, stable, dirtyData>>

Shut(D) == closed' = closed \cup D

\* checkAndPerformSplit: the active segment is full or old enough, so it has a
\* record.  Sealing the old one flushes its index, never its log bytes.
Split ==
  /\ ~segmentsClosed
  /\ base[activeSegment] < next[activeSegment]
  /\ Create(next[activeSegment], next[activeSegment], next[activeSegment],
            TRUE)
  /\ segments' = segments \cup {created + 1}
  /\ activeSegment' = created + 1
  /\ UNCHANGED <<closed, segmentsClosed, failures>>
  /\ UNCHANGED <<barrier, pc, callVars, claim, promised>>

\* Compaction rewrites a sealed segment: it syncs the copy, then Replace closes
\* the old file and puts the copy under its name.
cleanSegment(f) ==
  /\ ~segmentsClosed
  /\ f \in segments \ {activeSegment}
  /\ Create(base[f], next[f], next[f], FALSE)
  /\ segments' = (segments \ {f}) \cup {created + 1}
  /\ Shut({f})
  /\ UNCHANGED <<activeSegment, segmentsClosed, failures>>
  /\ UNCHANGED <<barrier, pc, callVars, claim, promised>>

\* Retention drops the sealed segments below m and, when m falls inside a
\* sealed segment, replaces that one by a copy of its records from m on.
\* Finalize renames the copy into place without flushing it.
TruncateBefore(m) ==
  LET sealed == segments \ {activeSegment}
      dead == {f \in sealed : next[f] <= m}
  IN /\ ~segmentsClosed
     /\ m > 0
     /\ \/ /\ \A f \in sealed : ~(base[f] < m /\ m < next[f])
           /\ dead # {}
           /\ segments' = segments \ dead
           /\ Shut(dead)
           /\ CreateNothing
        \/ /\ "trim" \in Races
           /\ \E f \in sealed :
                /\ base[f] < m /\ m < next[f]
                /\ Create(m, next[f], m, TRUE)
                /\ segments' = (segments \ (dead \cup {f}))
                               \cup {created + 1}
                /\ Shut(dead \cup {f})
     /\ UNCHANGED <<activeSegment, segmentsClosed, failures>>
     /\ UNCHANGED <<barrier, pc, callVars, claim, promised>>

\* The history after the records above the new tail are gone.
Forget ==
  /\ claim' = [c \in Callers |-> Min2(claim[c], next'[activeSegment'] - 1)]
  /\ promised' = Min2(promised, next'[activeSegment'] - 1)

\* Truncate copies the records below o out of the segment that holds o, unless
\* o is its base and a segment before it can become the active one.  The copy
\* is renamed into place without a flush, and syncDurable stays as it was.
Truncate(o) ==
  /\ "Truncate" \in Races
  /\ ~segmentsClosed
  /\ \E f \in segments :
       /\ IsFirst(f, {g \in segments : next[g] > o})
       /\ LET later == {g \in segments : base[g] > base[f]}
              earlier == {g \in segments : base[g] < base[f]}
          IN \/ /\ base[f] # o \/ earlier = {}
                /\ Create(base[f], Max2(base[f], o), base[f], TRUE)
                /\ segments' = earlier \cup {created + 1}
                /\ activeSegment' = created + 1
                /\ Shut(later \cup {f})
             \/ /\ base[f] = o
                /\ CreateNothing
                /\ segments' = earlier
                /\ activeSegment' \in earlier
                /\ \A g \in earlier : base[g] <= base[activeSegment']
                /\ Shut(later \cup {f})
  /\ Forget
  /\ UNCHANGED <<segmentsClosed, failures>>
  /\ UNCHANGED <<barrier, pc, callVars>>

\* checkpointHWTick fsyncs the active segment's file; the dirty mark stays.
checkpointHWTick ==
  /\ activeSegment \notin closed
  /\ stable' = [stable EXCEPT ![activeSegment] = next[activeSegment]]
  /\ UNCHANGED <<fileVars, dirtyData, failures>>
  /\ UNCHANGED <<barrier, pc, callVars, claim, promised>>

\* Close checkpoints, which fsyncs the active segment, then closes every one.
Close ==
  /\ "Close" \in Races
  /\ ~segmentsClosed
  /\ stable' = [stable EXCEPT ![activeSegment] = next[activeSegment]]
  /\ Shut(segments)
  /\ segmentsClosed' = TRUE
  /\ UNCHANGED <<segments, activeSegment, created, base, next, dirtyData,
                 failures>>
  /\ UNCHANGED <<barrier, pc, callVars, claim, promised>>

(***************************************************************************)
(* Sync and SyncAll.                                                       *)
(***************************************************************************)

Goto(c, l) == pc' = [pc EXCEPT ![c] = l]

\* The locals of a call end with it.
Leave(c) ==
  /\ all' = all \ {c}
  /\ offset' = [offset EXCEPT ![c] = 0]
  /\ target' = [target EXCEPT ![c] = -1]
  /\ todo' = [todo EXCEPT ![c] = {}]
  /\ claim' = [claim EXCEPT ![c] = -1]

\* A call that returns nil: from here on the contract holds for what it covered.
Promise(c) == promised' = Max2(promised, claim[c])

\* A caller passes an offset Append returned to it.
Sync(c, o) ==
  /\ pc[c] = "idle"
  /\ o <= NewestOffset
  /\ Goto(c, "check")
  /\ all' = all \ {c}
  /\ offset' = [offset EXCEPT ![c] = o]
  /\ claim' = [claim EXCEPT ![c] = o]
  /\ UNCHANGED <<logVars, barrier, target, todo, file, cover, promised>>

\* One hold of syncMu: covered already, wait for the flush in flight, or lead.
Enter(c) ==
  /\ pc[c] = "check"
  /\ \/ /\ offset[c] <= syncDurable
        /\ Goto(c, "idle") /\ Promise(c) /\ Leave(c)
        /\ UNCHANGED syncFlushing
     \/ /\ offset[c] > syncDurable /\ syncFlushing
        /\ Goto(c, "wait")
        /\ UNCHANGED <<syncFlushing, promised, claim, all, offset, target, todo>>
     \/ /\ offset[c] > syncDurable /\ ~syncFlushing
        /\ syncFlushing' = TRUE
        /\ Goto(c, "lead")
        /\ UNCHANGED <<promised, claim, all, offset, target, todo>>
  /\ UNCHANGED <<logVars, syncDurable, file, cover>>

\* The fsync that was out is over.
EndSync(c) ==
  /\ file' = [file EXCEPT ![c] = 1]
  /\ cover' = [cover EXCEPT ![c] = 0]

\* Variant for mutation: the offset the next append will get, not the newest.
ReadTailHigh(c) ==
  /\ pc[c] = "lead"
  /\ target' = [target EXCEPT ![c] = NewestOffset + 1]
  /\ Goto(c, "tail")
  /\ UNCHANGED <<logVars, barrier, all, offset, todo, file, cover, claim,
                 promised>>

\* The window is over: target := l.NewestOffset().
ReadTail(c) ==
  /\ pc[c] = "lead"
  /\ target' = [target EXCEPT ![c] = NewestOffset]
  /\ Goto(c, "tail")
  /\ UNCHANGED <<logVars, barrier, all, offset, todo, file, cover, claim,
                 promised>>

\* forEachSegment walks a snapshot of the list.
segmentsSnapshot(c) ==
  /\ pc[c] = "tail"
  /\ todo' = [todo EXCEPT ![c] = segments]
  /\ Goto(c, "flush")
  /\ UNCHANGED <<logVars, barrier, all, offset, target, file, cover, claim,
                 promised>>

\* SyncAll goes straight to its walk; it never touches the barrier.
SyncAll(c) ==
  /\ "SyncAll" \in Races
  /\ pc[c] = "idle"
  /\ Goto(c, "flush")
  /\ all' = all \cup {c}
  /\ todo' = [todo EXCEPT ![c] = segments]
  /\ claim' = [claim EXCEPT ![c] = NewestOffset]
  /\ UNCHANGED <<logVars, barrier, offset, target, file, cover, promised>>

\* segment.sync up to the unlock: nothing to do for a closed or clean segment,
\* otherwise take the mark and start the fsync.
BeginSync(c) ==
  /\ pc[c] = "flush"
  /\ \E f \in todo[c] :
       /\ IsFirst(f, todo[c])
       /\ todo' = [todo EXCEPT ![c] = @ \ {f}]
       /\ \/ /\ f \in closed \/ f \notin dirtyData
             /\ UNCHANGED <<pc, dirtyData, file, cover>>
          \/ /\ f \notin closed /\ f \in dirtyData
             /\ dirtyData' = dirtyData \ {f}
             /\ file' = [file EXCEPT ![c] = f]
             /\ cover' = [cover EXCEPT ![c] = next[f]]
             /\ Goto(c, "fsync")
  /\ UNCHANGED <<fileVars, stable, failures, barrier, all, offset, target,
                 claim, promised>>

\* The fsync succeeds; on a file closed meanwhile it may find a closed handle,
\* which counts as success.
Fsync(c) ==
  /\ pc[c] = "fsync"
  /\ \/ stable' = [stable EXCEPT ![file[c]] = Max2(@, cover[c])]
     \/ file[c] \in closed /\ UNCHANGED stable
  /\ Goto(c, "flush")
  /\ EndSync(c)
  /\ UNCHANGED <<fileVars, dirtyData, failures, barrier, all, offset, target,
                 todo, claim, promised>>

\* Variant for mutation: the dirty mark taken before the fsync is not restored.
FsyncFailsClean(c) ==
  /\ pc[c] = "fsync"
  /\ failures < MaxFailures
  /\ failures' = failures + 1
  /\ Goto(c, IF c \in all THEN "idle" ELSE "failed")
  /\ EndSync(c) /\ Leave(c)
  /\ UNCHANGED <<fileVars, stable, dirtyData, barrier, promised>>

\* The fsync fails: the mark is restored and the walk ends with the error,
\* which SyncAll returns.
FsyncFails(c) ==
  /\ pc[c] = "fsync"
  /\ failures < MaxFailures
  /\ failures' = failures + 1
  /\ dirtyData' = dirtyData \cup {file[c]}
  /\ Goto(c, IF c \in all THEN "idle" ELSE "failed")
  /\ EndSync(c) /\ Leave(c)
  /\ UNCHANGED <<fileVars, stable, barrier, promised>>

\* Variant for mutation: the callers waiting on the flush are not woken.
WakeNobody(c, l) == [pc EXCEPT ![c] = l]

\* Where close(done) leaves every caller, the leader c itself going to l.
Wake(c, l) ==
  [d \in Callers |-> IF d = c THEN l
                     ELSE IF pc[d] = "wait" THEN "check" ELSE pc[d]]

\* Variant for mutation: what is published is the tail after the flush.
PublishNewest(c) ==
  /\ pc[c] = "flush" /\ c \notin all /\ todo[c] = {}
  /\ syncDurable' = Max2(syncDurable, NewestOffset)
  /\ syncFlushing' = FALSE
  /\ \/ /\ target[c] < offset[c]
        /\ pc' = Wake(c, "idle") /\ Promise(c) /\ Leave(c)
     \/ /\ target[c] >= offset[c]
        /\ pc' = Wake(c, "check")
        /\ target' = [target EXCEPT ![c] = -1]
        /\ UNCHANGED <<promised, claim, all, offset, todo>>
  /\ UNCHANGED <<logVars, file, cover>>

\* The walk succeeded: one hold of syncMu publishes the tail read before it and
\* wakes the waiters.  A tail below the caller's offset means the records are
\* gone and the call returns nil; otherwise the caller checks again.
Publish(c) ==
  /\ pc[c] = "flush" /\ c \notin all /\ todo[c] = {}
  /\ syncDurable' = Max2(syncDurable, target[c])
  /\ syncFlushing' = FALSE
  /\ \/ /\ target[c] < offset[c]
        /\ pc' = Wake(c, "idle") /\ Promise(c) /\ Leave(c)
     \/ /\ target[c] >= offset[c]
        /\ pc' = Wake(c, "check")
        /\ target' = [target EXCEPT ![c] = -1]
        /\ UNCHANGED <<promised, claim, all, offset, todo>>
  /\ UNCHANGED <<logVars, file, cover>>

\* The walk failed: nothing is published, the waiters are woken all the same.
PublishError(c) ==
  /\ pc[c] = "failed"
  /\ syncFlushing' = FALSE
  /\ pc' = Wake(c, "idle")
  /\ UNCHANGED <<logVars, syncDurable, callVars, claim, promised>>

\* SyncAll ends with checkpointHW, which fsyncs the active segment and fails on
\* a closed one.
SyncAllCheckpoint(c) ==
  /\ pc[c] = "flush" /\ c \in all /\ todo[c] = {}
  /\ \/ /\ activeSegment \notin closed
        /\ stable' = [stable EXCEPT ![activeSegment] = next[activeSegment]]
        /\ Promise(c)
     \/ /\ activeSegment \in closed
        /\ UNCHANGED <<stable, promised>>
  /\ Goto(c, "idle") /\ Leave(c)
  /\ UNCHANGED <<fileVars, dirtyData, failures, barrier, file, cover>>

Step(c) ==
  \/ Enter(c) \/ ReadTail(c) \/ segmentsSnapshot(c) \/ BeginSync(c)
  \/ Fsync(c) \/ FsyncFails(c) \/ Publish(c) \/ PublishError(c)
  \/ SyncAllCheckpoint(c)

Act ==
  \/ Append \/ Split \/ checkpointHWTick \/ Close
  \/ \E f \in Files : cleanSegment(f)
  \/ \E o \in Offset : TruncateBefore(o) \/ Truncate(o)
  \/ \E c \in Callers : (\E o \in Offset : Sync(c, o)) \/ SyncAll(c) \/ Step(c)

Next == Act /\ UNCHANGED setting

Spec == Init /\ [][Next]_vars

\* A goroutine that can run keeps running: Go's scheduler is weakly fair, the
\* window timer fires and fsync returns.
FairSpec == Spec /\ \A c \in Callers : WF_vars(Step(c) /\ UNCHANGED setting)

(***************************************************************************)
(* Properties.                                                             *)
(***************************************************************************)

\* The contract of Sync ("once it returns, a reopened log recovers every record
\* up to and including offset"), with nothing of Races beside it: every record a
\* returned call covers is on stable storage in whichever published file holds it, from the
\* return on, whatever appends, rolls, rewrites and other flushes do since.
SyncKeepsItsPromise ==
  Races = {} => \A f \in segments, o \in Offset :
     o <= promised /\ Holds(f, o) => o < stable[f]

\* segment.sync clears dirtyData before its fsync and restores it on failure: an
\* open published segment that is not marked dirty has no byte left in OS
\* buffers, unless the fsync that will flush it is out.
CleanMeansFlushed ==
  \A f \in segments :
     f \notin closed /\ f \notin dirtyData
       => stable[f] = next[f]
          \/ \E c \in Callers : pc[c] = "fsync" /\ file[c] = f

\* Every call of Sync or SyncAll returns: a follower waiting on syncDone is
\* woken by every outcome of the flush it waits for, and a caller that a flush
\* did not cover gets to lead one or is covered by the next.
SyncReturns ==
  \A c \in Callers : pc[c] # "idle" ~> pc[c] = "idle"
============================================================================

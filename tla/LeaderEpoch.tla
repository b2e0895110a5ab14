---------------------------- MODULE LeaderEpoch ----------------------------
(***************************************************************************)
(* The leader epoch history of one log: leader_epoch_cache.go together     *)
(* with every caller in commitlog.go and clean.go that feeds it.           *)
(*                                                                         *)
(* An entry (epoch, anchor) says that the log's newest offset was anchor   *)
(* when the epoch opened.  LastOffsetForLeaderEpoch answers a follower's   *)
(* probe from these entries and the follower truncates to the answer, so   *)
(* an anchor that is too high keeps divergent records and one that is too  *)
(* low discards shared ones.                                               *)
(*                                                                         *)
(* The slice epochOffsets is kept as a function from the recorded epochs   *)
(* to their anchors: assign only ever appends a larger epoch, so the slice *)
(* is in epoch order and the function loses nothing.  Each record carries  *)
(* the epoch of the leader that wrote it; the code does not store that for *)
(* records appended by a leader (they are stamped 0), so recs is history   *)
(* the properties compare the cache with, not program state.               *)
(***************************************************************************)
EXTENDS Integers

CONSTANTS
  MaxEpoch,      \* epochs are 0..MaxEpoch
  MaxOffset,     \* offsets are 0..MaxOffset
  Settings       \* [may, offsets]: what may happen beyond the plain
                 \* protocol, and the largest offset written then

\* "unstamped"    replicated frames may carry no epoch
\* "trimActive"   TruncateBefore may name an offset above the active base
\* "trimEmpty"    retention may run while the active segment is empty
\* "trimInAssign" retention may publish between a read of the tail and the
\*                Assign that uses it
\* "cutInHole"    Truncate may leave the log ending below the offset it names,
\*                because the records just below it were compacted away
\* "cutLeading"   Truncate may be called on a leader, and while the Assign of
\*                its election is owed: no lock keeps the two calls apart
\* "flushFails"   writing the checkpoint file may fail
\* "crashInAssign" the process may die with an Assign still owed
ASSUME EpochAssumption == MaxEpoch \in Nat /\ MaxOffset \in Nat
ASSUME SettingAssumption ==
  \A s \in Settings :
    /\ s.offsets \in 0..MaxOffset
    /\ s.may \subseteq {"unstamped", "trimActive", "trimEmpty",
                        "trimInAssign", "cutInHole", "cutLeading",
                        "flushFails", "crashInAssign"}

VARIABLES
  bases,     \* base offsets of the segments
  active,    \* base offset of the active segment
  next,      \* its NextOffset
  recs,      \* the records: offset -> epoch of the leader that wrote it
  cache,     \* leaderEpochCache.epochOffsets: epoch -> assignedAtOffset
  file,      \* the leader-epoch-checkpoint file
  term,      \* largest epoch the cluster has told this log about
  leading,   \* this log leads term
  electing,  \* Assign a NewLeaderEpoch still owes: epoch -> offset it read
  pending,   \* Assigns the append in flight still owes: epoch -> anchor
  setting    \* the member of Settings this behaviour is about

vars == <<bases, active, next, recs, cache, file, term, leading, electing,
          pending, setting>>
logVars == <<bases, active, next, recs>>

May(what) == what \in setting.may

Epoch == 0..MaxEpoch
Offset == 0..MaxOffset
Anchor == -1..MaxOffset + 1

NoEntries == [e \in {} |-> -1]
History(S, T) == UNION {[D -> T] : D \in SUBSET S}

(***************************************************************************)
(* The cache.                                                              *)
(***************************************************************************)
Keep(c, D) == [e \in DOMAIN c \cap D |-> c[e]]

\* latestEpoch answers 0 on an empty cache.
LastLeaderEpochIs(c, e) ==
  IF DOMAIN c = {} THEN e = 0
  ELSE e \in DOMAIN c /\ \A d \in DOMAIN c : d <= e

\* Variant for mutation: an epoch opened where the log still stands is refused.
assignStrict(c, epoch, offset) ==
  IF \A d \in DOMAIN c : d < epoch /\ c[d] < offset
  THEN [e \in DOMAIN c \cup {epoch} |-> IF e = epoch THEN offset ELSE c[e]]
  ELSE c

\* Variant for mutation: the offset is not compared with the latest anchor.
assignAnyOffset(c, epoch, offset) ==
  IF \A d \in DOMAIN c : d < epoch
  THEN [e \in DOMAIN c \cup {epoch} |-> IF e = epoch THEN offset ELSE c[e]]
  ELSE c

\* Entries are in epoch order and anchors ascend with them (AnchorsAscend), so
\* being above the latest entry is being above every entry.
assign(c, epoch, offset) ==
  IF \A d \in DOMAIN c : d < epoch /\ c[d] <= offset
  THEN [e \in DOMAIN c \cup {epoch} |-> IF e = epoch THEN offset ELSE c[e]]
  ELSE c

ClearLatest(c, offset) == Keep(c, {e \in DOMAIN c : c[e] < offset})

\* The entries below the floor go, and the highest of them comes back anchored
\* at the floor unless the earliest survivor already sits there.
ClearEarliest(c, offset) ==
  LET removed == {e \in DOMAIN c : c[e] < offset}
      rest == DOMAIN c \ removed
  IN IF offset <= 0 \/ removed = {} THEN c
     ELSE IF \E e \in rest : c[e] = offset THEN Keep(c, rest)
     ELSE [e \in rest \cup {e \in removed : \A d \in removed : d <= e} |->
             IF e \in rest THEN c[e] ELSE offset]

\* flush runs only when an operation changed the entries.
Flushed(c) == cache' = c /\ file' = IF c = cache THEN file ELSE c

\* Its failure is returned to the caller with the change kept in memory.
FlushFails(c) == May("flushFails") /\ c # cache /\ cache' = c /\ file' = file

Flush(c) == Flushed(c) \/ FlushFails(c)

(***************************************************************************)
(* The log around it.                                                      *)
(***************************************************************************)
\* NextOffset of a segment based at b when the log's records are R.
EndOf(n, b, R) ==
  /\ n >= b
  /\ \A o \in R : o < n
  /\ n = b \/ n - 1 \in R

\* Variant for mutation: NextOffset taken for the offset after the next.
NewestOffsetLow == next - 2

NewestOffset == next - 1

Drop(D) == [o \in DOMAIN recs \ D |-> recs[o]]

\* OldestOffset: the first record, or -1 when there is none.
OldestIs(f, R) ==
  IF R = {} THEN f = -1 ELSE f \in R /\ \A o \in R : f <= o

\* No Assign is owed.
Settled == electing = NoEntries /\ pending = NoEntries

\* The types of the log's shape, of the history in memory and on file, and of the
\* Assigns that are owed.
TypeOK ==
  /\ bases \subseteq 0..MaxOffset + 1 /\ active \in bases
  /\ next \in 0..MaxOffset + 1
  /\ recs \in History(Offset, Epoch)
  /\ cache \in History(Epoch, Anchor)
  /\ file \in History(Epoch, Anchor)
  /\ term \in Epoch /\ leading \in BOOLEAN
  /\ electing \in History(Epoch, Anchor)
  /\ pending \in History(Epoch, Anchor)

Init ==
  /\ bases = {0} /\ active = 0 /\ next = 0
  /\ recs = NoEntries /\ cache = NoEntries /\ file = NoEntries
  /\ term = 0 /\ leading = FALSE
  /\ electing = NoEntries /\ pending = NoEntries
  /\ setting \in Settings

\* NewLeaderEpoch reads NewestOffset with no lock held; what it read is
\* assigned later, and appends may land in between.
NewLeaderEpoch(e) ==
  /\ electing = NoEntries /\ pending = NoEntries
  /\ e > term \/ (leading /\ e = term)
  /\ term' = e /\ leading' = TRUE
  /\ electing' = [x \in {e} |-> NewestOffset]
  /\ UNCHANGED <<logVars, cache, file, pending>>

NewLeaderEpochAssign ==
  /\ \E e \in DOMAIN electing : Flush(assign(cache, e, electing[e]))
  /\ electing' = NoEntries
  /\ UNCHANGED <<logVars, term, leading, pending>>

\* checkAndPerformSplit: a non-empty active segment may roll before a write.
Split(b) ==
  /\ b \in {active, next}
  /\ active' = b
  /\ bases' = bases \cup {b}

\* Append on a leader stamps 0, which never exceeds the latest epoch.
Append(b) ==
  /\ leading /\ pending = NoEntries
  /\ next <= MaxOffset /\ next <= setting.offsets
  /\ Split(b)
  /\ recs' = [o \in DOMAIN recs \cup {next} |->
                IF o = next THEN term ELSE recs[o]]
  /\ next' = next + 1
  /\ UNCHANGED <<cache, file, term, leading, electing, pending>>

\* Variant for mutation: an epoch is anchored at its own first record.
AnchorAtFirst(e, e1, o1, o2) == IF e = e1 THEN o1 ELSE o2

\* Variant for mutation: every epoch of a batch is anchored before the batch.
AnchorBeforeBatch(e, e1, o1, o2) == NewestOffset

\* The last record held before the epoch's first: the tail before the batch,
\* or the batch's preceding record.
AnchorOf(e, e1, o1, o2) == IF e = e1 THEN NewestOffset ELSE o1

\* AppendMessageSet of one record (o1 = o2) or two, written by leaders of
\* epochs e1 and e2, across a gap or not; stamped says whether the frames
\* carry the epochs or 0.  appendWith writes first and assigns afterwards.
AppendMessageSet(b, o1, e1, o2, e2, stamped) ==
  /\ stamped \/ May("unstamped")
  /\ ~leading \/ e1 > term
  /\ electing = NoEntries /\ pending = NoEntries
  /\ next <= o1 /\ o2 <= setting.offsets /\ term <= e1
  /\ (o1 = o2 /\ e1 = e2) \/ (o1 < o2 /\ e1 <= e2)
  /\ Split(b)
  /\ recs' = [o \in DOMAIN recs \cup {o1, o2} |->
                IF o = o1 THEN e1 ELSE IF o = o2 THEN e2 ELSE recs[o]]
  /\ next' = o2 + 1
  /\ term' = e2 /\ leading' = FALSE
  /\ \E last \in Epoch :
       /\ LastLeaderEpochIs(cache, last)
       /\ pending' = [e \in {x \in {e1, e2} : stamped /\ x > last} |->
                        AnchorOf(e, e1, o1, o2)]
  /\ UNCHANGED <<cache, file, electing>>

\* The append returns at the first Assign that fails, and those after it are
\* never made.
AppendAssign ==
  /\ \E e \in DOMAIN pending :
       /\ \A d \in DOMAIN pending : e <= d
       /\ \/ /\ Flushed(assign(cache, e, pending[e]))
             /\ pending' = Keep(pending, DOMAIN pending \ {e})
          \/ /\ FlushFails(assign(cache, e, pending[e]))
             /\ pending' = NoEntries
  /\ UNCHANGED <<logVars, term, leading, electing>>

\* A follower reconciling.  appendMu keeps it out of an append and the Assigns
\* the append makes.  The segment holding the first record at or above
\* the cut is rewritten without its tail, or goes whole when the cut is its
\* base and it is not the first.
Truncate(offset, b) ==
  /\ pending = NoEntries
  /\ May("cutLeading") \/ (~leading /\ electing = NoEntries)
  /\ next > offset
  /\ b \in bases
  /\ LET cut == {o \in DOMAIN recs : o >= offset}
         whole == b = offset /\ \E x \in bases : x < b
         left == {x \in bases : x < b \/ (x = b /\ ~whole)}
     IN /\ IF cut = {} THEN b = active
           ELSE /\ \A o \in cut : b <= o
                /\ \A x \in bases : (\A o \in cut : x <= o) => x <= b
        /\ recs' = Drop(cut)
        /\ bases' = left
        /\ active' \in left /\ \A x \in left : x <= active'
  /\ next' \in 0..MaxOffset + 1
  /\ EndOf(next', active', DOMAIN recs')
  /\ May("cutInHole") \/ next' >= offset
  /\ Flush(ClearLatest(cache, offset))
  /\ UNCHANGED <<term, leading, electing, pending>>

\* Only sealed segments are trimmed, but the epoch cache is told minOffset.
TruncateBefore(minOffset) ==
  /\ May("trimInAssign") \/ Settled
  /\ May("trimEmpty") \/ next > active
  /\ May("trimActive") \/ minOffset <= active
  /\ LET kept == {o \in DOMAIN recs : minOffset <= o /\ o < active}
         whole == {b \in bases : minOffset <= b \/ b = active}
         boundary == {o \in kept : /\ \A x \in kept : o <= x
                                   /\ \A b \in whole : o < b}
     IN /\ recs' = Drop({o \in DOMAIN recs : o < minOffset /\ o < active})
        /\ bases' = whole \cup boundary
  /\ Flush(ClearEarliest(cache, minOffset))
  /\ UNCHANGED <<active, next, term, leading, electing, pending>>

\* A maintenance pass: retention drops the segments below b, compaction may
\* drop sealed records, an emptied segment goes, and the floor moves to the
\* first surviving base.
Clean(b, D) ==
  /\ May("trimInAssign") \/ Settled
  /\ May("trimEmpty") \/ next > active
  /\ b \in bases
  /\ D \subseteq {o \in DOMAIN recs : b <= o /\ o < active}
  /\ recs' = Drop(D \cup {o \in DOMAIN recs : o < b})
  /\ bases' = {x \in bases : /\ b <= x
                            /\ \/ x = active
                               \/ \E o \in DOMAIN recs' :
                                    x <= o /\ \A y \in bases : x < y => o < y}
  /\ b \in bases'
  /\ Flush(ClearEarliest(cache, b))
  /\ UNCHANGED <<active, next, term, leading, electing, pending>>

\* The process dies and the log is reopened: unsynced records of the active
\* segment above k are lost, the checkpoint file is what was flushed last, and
\* openOrRelease trims it at both ends.
Reopen(k, f) ==
  /\ May("crashInAssign") \/ Settled
  /\ active <= k /\ k <= next
  /\ recs' = Drop({o \in DOMAIN recs : o >= k})
  /\ next' \in 0..MaxOffset + 1
  /\ EndOf(next', active, DOMAIN recs')
  /\ OldestIs(f, DOMAIN recs')
  /\ cache' = ClearEarliest(ClearLatest(file, next'), f)
  /\ file' = cache'
  /\ leading' = FALSE
  /\ electing' = NoEntries /\ pending' = NoEntries
  /\ UNCHANGED <<bases, active, term>>

Step ==
  \/ \E e \in Epoch : NewLeaderEpoch(e)
  \/ NewLeaderEpochAssign
  \/ \E b \in bases \cup {next} : Append(b)
  \/ \E b \in bases \cup {next}, o1, o2 \in Offset, e1, e2 \in Epoch,
        stamped \in BOOLEAN : AppendMessageSet(b, o1, e1, o2, e2, stamped)
  \/ AppendAssign
  \/ \E offset \in Offset, b \in bases : Truncate(offset, b)
  \/ \E minOffset \in 1..MaxOffset : TruncateBefore(minOffset)
  \/ \E b \in bases, D \in {{}} \cup {{o} : o \in Offset} : Clean(b, D)
  \/ \E k \in 0..MaxOffset + 1, f \in Anchor : Reopen(k, f)

Next == Step /\ UNCHANGED setting

Spec == Init /\ [][Next]_vars

(***************************************************************************)
(* Properties.                                                             *)
(***************************************************************************)
\* LastOffsetForLeaderEpoch: the anchor of the next recorded epoch, or the log
\* end when none is recorded above e.
AnswerIs(e, a) ==
  IF \E d \in DOMAIN cache : d > e
  THEN \E d \in DOMAIN cache :
         d > e /\ a = cache[d] /\ \A x \in DOMAIN cache : x > e => d <= x
  ELSE a = next - 1

\* Entries are in epoch order and in offset order at once.
Ascends(c) == \A d, e \in DOMAIN c : d < e => c[d] <= c[e]

\* Anchors ascend with their epochs.  assign checks only the latest entry and
\* ClearEarliest slices off a counted prefix: both are right only on entries
\* in this order, across every trim, truncation, failed flush and reopen.
AnchorsAscend == Ascends(cache)

\* A probe never tells a follower to discard a record this log shares with it:
\* everything written in epoch e or before lies at or below the answer for e,
\* whatever retention, truncation, a failed flush or a crash did to the cache.
ProbeKeepsSharedHistory ==
  \A e \in Epoch, a \in Anchor :
     AnswerIs(e, a) => \A o \in DOMAIN recs : recs[o] <= e => o <= a

\* In the plain protocol and with every Assign made, a probe for e is told to
\* keep no record of a later epoch, the oldest surviving record excepted:
\* retention re-anchors an entry at the floor itself.
ProbeCutsAboveFloor ==
  setting.may = {} /\ Settled => \A e \in Epoch, a \in Anchor :
     AnswerIs(e, a) => \A o \in DOMAIN recs :
        o <= a /\ ~OldestIs(o, DOMAIN recs) => recs[o] <= e

\* In the plain protocol, once NewLeaderEpoch has returned, LastLeaderEpoch is the
\* epoch it opened: assign refuses silently, so a refusal leaves a leader without
\* its epoch.
ElectionIsRecorded ==
  setting.may = {} /\ leading /\ electing = NoEntries => LastLeaderEpochIs(cache, term)
=============================================================================

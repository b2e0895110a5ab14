------------------------ MODULE CommitLogStepProofs -------------------------
(***************************************************************************)
(* The watermark of the log is backed by its records, in every setting; and*)
(* the steps that keep a log without faults whole.                         *)
(*                                                                         *)
(* Forward is what a log keeps whose end and watermark only move up: its   *)
(* last file is its active segment, and the checkpoint never claims more   *)
(* than an fsync of that file covered.  Whole is what a log keeps when no  *)
(* file operation fails and the machine keeps its power: each file is apart*)
(* from the others or is the end of another one, the live records are in   *)
(* them, and a running log lists all of them but those the truncation in   *)
(* flight has brought in or is about to remove.                            *)
(***************************************************************************)
EXTENDS CommitLogProofs

\* Leaves are first-order unless they cite SMT, which those with arithmetic do.
USE Zenon

\* The watermark is on the log, except while the shortened segment is in place
\* and the watermark has yet to follow.
Backed == state = "up" /\ op.do # "cutLog" => hw <= NewestOffset

\* The end of the log and its watermark only move up.
Forward == setting.calls \cap {"Truncate", "OverrideHighWatermark"} = {}

\* m is the last file, nothing reaches past its base, and an fsync of it covered
\* all that the checkpoint claims.
LastFile(m) ==
    /\ m \in files
    /\ \A f \in files : f <= m /\ (f < m => end[f] <= m)
    /\ ckpt < stable[m]
    /\ state = "up" => m \in list

ForwardInv ==
    Forward =>
        /\ op.do \notin {"cut", "cutLog"} /\ left = {}
        /\ hw <= committed /\ ckpt <= committed
        /\ state = "up" => ckpt <= hw
        /\ \E m \in Base : LastFile(m)

MarkInv == Sound /\ Backed /\ ForwardInv

\* The log starts with a watermark of -1.
LEMMA MarkInit == Init => MarkInv
<1> SUFFICES ASSUME Init PROVE MarkInv
  OBVIOUS
<1>1. Sound
  BY SoundInit
<1>2. 0 \in Base /\ list = {0} /\ files = {0} /\ end[0] = 0 /\ stable[0] = 0 /\ hw = -1
      /\ ckpt = -1 /\ committed = -1 /\ left = {} /\ op.do = "none"
  BY BasesAreNumbers, IdleIsOp, SMT DEF Init, Base
<1>3. Max(list) = 0
  BY <1>2, MaxIs, SMT
<1>4. Backed
  BY <1>2, <1>3, SMT DEF Backed, NewestOffset, activeSegment
<1>5. LastFile(0)
  BY <1>2, SMT DEF LastFile
<1>6. ForwardInv
  BY <1>2, <1>5, SMT DEF ForwardInv
<1> QED BY <1>1, <1>4, <1>6 DEF MarkInv

-----------------------------------------------------------------------------
(* The watermark is on the log.                                            *)

\* The end of the active segment does not come down.
LEMMA BackedKept ==
  ASSUME Sound, Backed, state = "up", op.do # "cutLog", hw' = hw,
         NEW m \in Base, Max(list') = m, end'[m] \in Base, end[activeSegment] <= end'[m]
  PROVE  Backed'
<1>1. hw <= end[activeSegment] - 1
  BY DEF Backed, NewestOffset
<1>2. end[activeSegment] \in Nat
  BY Active, BasesAreNumbers DEF Sound, TypeOK
<1>3. end'[m] \in Nat /\ hw \in Int
  BY BasesAreNumbers, SMT DEF Sound, TypeOK
<1>4. NewestOffset' = end'[m] - 1
  BY DEF NewestOffset, activeSegment
<1> QED BY <1>1, <1>2, <1>3, <1>4, SMT DEF Backed

\* A roll begins where the log ends.
LEMMA SplitBacked ==
  ASSUME Sound, Backed, split, Sound'
  PROVE  Backed' /\ Max(list') = end[activeSegment]
<1> DEFINE b == end[activeSegment]
<1>1. /\ list' = list \cup {b} /\ end' = [end EXCEPT ![b] = b] /\ hw' = hw
      /\ state = "up" /\ op.do # "cutLog" /\ activeSegment < b
  BY DEF split, Writable, Splits
<1>2. activeSegment \in Base /\ (\A c \in list : c <= activeSegment) /\ b \in Base
      /\ list \subseteq Base
  BY <1>1, Active DEF Sound, TypeOK
<1>3. \A c \in list : c <= b
  BY <1>1, <1>2, BasesAreNumbers, SMT
<1>4. list' \in SUBSET Int /\ b \in list' /\ \A c \in list' : c <= b
  BY <1>1, <1>2, <1>3, BasesAreNumbers, SMT
<1>5. Max(list') = b
  BY <1>4, MaxIs, ZenonT(30)
<1>6. end'[b] = b
  BY <1>1, <1>2 DEF Sound, TypeOK
<1> HIDE DEF b
<1>7. end[activeSegment] <= end'[b]
  BY <1>2, <1>6, BasesAreNumbers, SMT DEF b
<1>8. Backed'
  BY <1>1, <1>2, <1>5, <1>6, <1>7, BackedKept
<1> QED BY <1>5, <1>8 DEF b

\* The steps that leave the list and the end of its last segment alone.
LEMMA QuietBacked ==
  ASSUME Sound, Backed, UNCHANGED << list, hw >>, state = "up", op.do # "cutLog",
         end'[activeSegment] = end[activeSegment]
  PROVE  Backed'
<1>1. activeSegment \in Base /\ end[activeSegment] \in Base
  BY Active DEF Sound, TypeOK
<1>2. Max(list') = activeSegment
  BY DEF activeSegment
<1> DEFINE m == activeSegment
           e == end[m]
<1>3. e <= e
  BY <1>1, BasesAreNumbers, SMT
<1> HIDE DEF m
<1>4. m \in Base /\ end'[m] \in Base /\ end[activeSegment] <= end'[m] /\ Max(list') = m
  BY <1>1, <1>2, <1>3 DEF m
<1> QED BY <1>4, BackedKept

\* Every step keeps the watermark on the log.
LEMMA BackedNext ==
  ASSUME Sound, Backed, Next, Sound'
  PROVE  Backed'
<1>0. Step /\ UNCHANGED setting
  BY DEF Next
<1>1. CASE split
  BY <1>1, SplitBacked
<1>2. ASSUME NEW n \in 1 .. setting.batch, Append(n) PROVE Backed'
  <2> DEFINE a == activeSegment
  <2>1. /\ end' = [end EXCEPT ![a] = @ + n] /\ list' = list /\ hw' = hw /\ state = "up"
        /\ op.do # "cutLog"
    BY <1>2 DEF Append, Writable
  <2>2. a \in Base /\ Max(list') = a /\ end[a] \in Nat /\ n \in Nat
    BY <2>1, Active, SettingBounds, BasesAreNumbers, LogAssumption, SMT
    DEF Sound, TypeOK, activeSegment
  <2>3. end'[a] = end[a] + n /\ end'[a] \in Base
    BY <2>1, <2>2 DEF Sound, TypeOK
  <2>4. end[a] <= end'[a]
    BY <2>2, <2>3, SMT
  <2> HIDE DEF a
  <2>5. end[activeSegment] <= end'[a]
    BY <2>4 DEF a
  <2> QED BY <2>1, <2>2, <2>3, <2>5, BackedKept
<1>3. CASE \/ AppendFails \/ checkpointHWTick \/ Sync \/ SyncAll \/ DeleteFails
           \/ (\E o \in 0 .. setting.offsets - 1 : Truncate(o))
           \/ (\E m \in 0 .. setting.offsets - 1 : TruncateBefore(m))
  <2>1. UNCHANGED << list, hw, end >> /\ state = "up"
    <3>1. CASE AppendFails \/ checkpointHWTick \/ Sync \/ SyncAll \/ DeleteFails
      BY <3>1 DEF AppendFails, Writable, checkpointHWTick, Sync, SyncAll, DeleteFails, disk
    <3>2. ASSUME NEW o, Truncate(o) PROVE UNCHANGED << list, hw, end >> /\ state = "up"
      BY <3>2 DEF Truncate, disk
    <3>3. ASSUME NEW m, TruncateBefore(m) PROVE UNCHANGED << list, hw, end >> /\ state = "up"
      BY <3>3 DEF TruncateBefore, disk
    <3> QED BY <1>3, <3>1, <3>2, <3>3
  <2>2. UNCHANGED op \/ op.do # "cutLog"
    BY <1>3, IdleIsOp, ZenonT(30)
    DEF AppendFails, checkpointHWTick, Sync, SyncAll, DeleteFails, Truncate,
       TruncateBefore
  <2>3. CASE op.do # "cutLog"
    BY <2>1, <2>3, QuietBacked
  <2>4. CASE op.do = "cutLog" /\ UNCHANGED op
    BY <2>4 DEF Backed
  <2> QED BY <2>2, <2>3, <2>4
<1>4. CASE \/ (\E h \in Offset : SetHighWatermark(h))
           \/ (\E h \in -1 .. MaxOffset - 1 : OverrideHighWatermark(h))
           \/ RecoverTail
  <2>1. UNCHANGED << list, end, op >> /\ hw' <= NewestOffset
    <3>1. CASE RecoverTail
      <4>1. NewestOffset \in Int
        BY <3>1, NewestIsOffset, BasesAreNumbers, SMT DEF Sound, RecoverTail
      <4> QED BY <3>1, <4>1, SMT DEF RecoverTail, disk
    <3> QED BY <1>4, <3>1 DEF SetHighWatermark, OverrideHighWatermark, disk
  <2> QED BY <2>1 DEF Backed, NewestOffset, activeSegment
<1>5. CASE ReplaceLog
  <2>1. op'.do = "cutLog"
    BY <1>5 DEF ReplaceLog, Sound, TypeOK, Op
  <2> QED BY <2>1 DEF Backed
<1>6. CASE TruncatePublish
  <2>1. hw' = CutWatermark(list') /\ end' = Of(files \cup list', end)
    BY <1>6 DEF TruncatePublish
  <2>2. Max(list') \in list' /\ end[Max(list')] \in Base /\ list' \in SUBSET Base
    BY <1>6, CutList DEF Sound, TypeOK
  <2>3. hw' <= end[Max(list')] - 1
    BY <2>1, <2>2, CutWatermarkIs DEF Sound
  <2>4. end'[Max(list')] = end[Max(list')]
    BY <2>1, <2>2 DEF Of
  <2> QED BY <2>3, <2>4 DEF Backed, NewestOffset, activeSegment
<1>7. CASE FinalizeLog
  <2>1. /\ op.do = "trim" /\ op.rewrite /\ state = "up" /\ UNCHANGED << list, hw >>
        /\ end' = [end EXCEPT ![op.at] = end[op.seg]]
    BY <1>7 DEF FinalizeLog
  <2>2. op.at \notin list
    BY <2>1, TrimPlace
  <2>3. activeSegment \in list /\ activeSegment \in Base
    BY <2>1, Active DEF Sound
  <2>4. end'[activeSegment] = end[activeSegment]
    BY <2>1, <2>2, <2>3 DEF Sound, TypeOK
  <2> QED BY <2>1, <2>4, QuietBacked
<1>8. CASE TruncateBeforePublish
  <2>1. Max(list') = activeSegment
    BY <1>8, TrimList DEF activeSegment
  <2>2. UNCHANGED << hw, end >> /\ state = "up" /\ op.do # "cutLog"
    BY <1>8 DEF TruncateBeforePublish
  <2>3. hw <= NewestOffset
    BY <2>2 DEF Backed
  <2>4. NewestOffset' = NewestOffset
    BY <2>1, <2>2 DEF NewestOffset, activeSegment
  <2> QED BY <2>2, <2>3, <2>4 DEF Backed
<1>9. CASE Delete
  <2>1. /\ op.do # "cutLog" /\ state = "up" /\ UNCHANGED << list, hw >>
        /\ end' = Of(files' \cup list, end)
    BY <1>9 DEF Delete
  <2>2. activeSegment \in list /\ activeSegment \in Base
    BY <2>1, Active DEF Sound
  <2>3. end'[activeSegment] = end[activeSegment]
    BY <2>1, <2>2 DEF Of
  <2> QED BY <2>1, <2>3, QuietBacked
<1>10. CASE state' # "up"
  BY <1>10 DEF Backed
<1>11. CASE open
  <2> DEFINE S == resolveSegmentOverlaps
  <2>1. /\ files # {} /\ list' = S /\ end' = Of(S, end) /\ hw' = ReopenedWatermark(S)
    BY <1>11 DEF open
  <2>2. S # {} /\ S \in SUBSET Base
    BY <2>1, ResolvedIs DEF Sound, TypeOK
  <2> HIDE DEF S
  <2>3. Max(S) \in S /\ Max(S) \in Base
    BY <2>2, BaseMax
  <2>4. end[Max(S)] \in Base
    BY <2>3 DEF Sound, TypeOK
  <2>5. hw' <= end[Max(S)] - 1
    BY <2>1, <2>4, ReopenedWatermarkIs DEF Sound
  <2>6. end'[Max(S)] = end[Max(S)]
    BY <2>1, <2>3 DEF Of
  <2> QED BY <2>1, <2>5, <2>6 DEF Backed, NewestOffset, activeSegment
<1>12. CASE openEmpty
  <2>1. list' = {0} /\ end' = Of({}, end) /\ hw' = -1
    BY <1>12 DEF openEmpty
  <2>2. 0 \in Base /\ Max({0}) = 0
    BY MaxIs, BasesAreNumbers, SMT DEF Base
  <2>3. end'[0] = 0
    BY <2>1, <2>2 DEF Of
  <2> QED BY <2>1, <2>2, <2>3, SMT DEF Backed, NewestOffset, activeSegment
<1> QED
  BY <1>0, <1>1, <1>2, <1>3, <1>4, <1>5, <1>6, <1>7, <1>8, <1>9, <1>10, <1>11, <1>12
  DEF Step, Close, Kill, PowerLoss, Down, OpenRefused

-----------------------------------------------------------------------------
(* A log that only moves forward.                                          *)

\* The last file is the active segment.
LEMMA LastIsActive ==
  ASSUME Sound, left = {}, state = "up", NEW m \in Base, LastFile(m)
  PROVE  /\ activeSegment = m /\ current(m) /\ m \in list
         /\ \A c \in list : c <= m
<1>1. m \in list /\ m \in files /\ list \subseteq files /\ list \in SUBSET Int
  BY BasesAreNumbers, SMT DEF LastFile, Sound, Listed, TypeOK
<1>2. \A c \in list : c <= m
  BY <1>1 DEF LastFile
<1>3. activeSegment = m
  BY <1>1, <1>2, MaxIs DEF activeSegment
<1> QED BY <1>1, <1>2, <1>3 DEF current

\* A log that only moves forward, with its last file named.
Ahead(m) ==
    /\ m \in Base /\ LastFile(m)
    /\ op.do \notin {"cut", "cutLog"} /\ left = {}
    /\ hw <= committed /\ ckpt <= committed
    /\ state = "up" => ckpt <= hw

\* A step after which some file is the last one.
LEMMA AheadIsForward ==
  ASSUME NEW m, Ahead(m)'
  PROVE  ForwardInv'
BY DEF Ahead, ForwardInv, LastFile

\* A roll makes the new segment the last file.
LEMMA SplitAhead ==
  ASSUME Sound, Sound', NEW m, Ahead(m), split
  PROVE  ForwardInv'
<1>0. PICK b : b = end[m]
  OBVIOUS
<1>1. activeSegment = m /\ m \in Base /\ LastFile(m) /\ state = "up" /\ left = {}
  BY LastIsActive DEF Ahead, split, Writable
<1>2. /\ files' = files \cup {b} /\ list' = list \cup {b} /\ end' = [end EXCEPT ![b] = b]
      /\ stable' = [stable EXCEPT ![b] = b] /\ m < b
      /\ UNCHANGED << ckpt, state, left, hw, op, committed >>
  BY <1>0, <1>1 DEF split, Splits, ghosts
<1>3. b \in Base /\ \A f \in files : f \in Nat /\ end[f] \in Nat /\ stable[f] \in Nat
      /\ stable[f] <= end[f]
  BY <1>0, <1>1, BasesAreNumbers DEF Sound, TypeOK
<1>4. ckpt < stable[m] /\ m \in files /\ \A f \in files : f <= m /\ (f < m => end[f] <= m)
  BY <1>1 DEF LastFile
<1>5. ckpt \in Int /\ b \in Nat /\ m \in Nat /\ ckpt < b
  BY <1>0, <1>1, <1>3, <1>4, BasesAreNumbers, SMT DEF Sound, TypeOK
<1>6. end'[b] = b /\ stable'[b] = b /\ \A f \in files : f # b => end'[f] = end[f]
  BY <1>2, <1>3 DEF Sound, TypeOK
<1>7. \A f \in files : f < b /\ end[f] <= b
  <2> SUFFICES ASSUME NEW f \in files PROVE f < b /\ end[f] <= b
    OBVIOUS
  <2>1. f = m \/ (f < m /\ end[f] <= m)
    BY <1>3, <1>4, <1>5, SMT
  <2>2. f \in Nat /\ end[f] \in Nat /\ b = end[m]
    BY <1>0, <1>3
  <2> QED BY <1>2, <1>5, <2>1, <2>2, SMT
<1>8. LastFile(b)'
  <2>1. \A f \in files' : f <= b /\ (f < b => end'[f] <= b)
    BY <1>2, <1>3, <1>5, <1>6, <1>7, SMT
  <2>2. b \in files' /\ ckpt' < stable'[b] /\ b \in list'
    BY <1>2, <1>5, <1>6
  <2> QED BY <2>1, <2>2 DEF LastFile
<1>9. Ahead(b)'
  BY <1>2, <1>3, <1>8 DEF Ahead
<1> QED BY <1>9, AheadIsForward

\* The steps that change no file but the end of the last.
LEMMA TailAhead ==
  ASSUME NEW m, Ahead(m), Sound, Sound',
         UNCHANGED << files, ckpt, stable, hw, committed, left >>,
         state' = "up" => m \in list' /\ state = "up", op'.do \notin {"cut", "cutLog"},
         \A f \in files : f # m => end'[f] <= end[f]
  PROVE  Ahead(m)'
<1>1. \A f \in files : f < m => end'[f] <= m
  <2> SUFFICES ASSUME NEW f \in files, f < m PROVE end'[f] <= m
    OBVIOUS
  <2>1. f \in Nat /\ m \in Nat /\ end[f] \in Nat /\ end'[f] \in Nat
    BY BasesAreNumbers DEF Sound, TypeOK, Ahead
  <2>2. end[f] <= m /\ end'[f] <= end[f]
    BY <2>1, SMT DEF Ahead, LastFile
  <2> QED BY <2>1, <2>2, SMT
<1>2. LastFile(m)'
  BY <1>1 DEF Ahead, LastFile
<1> QED BY <1>2 DEF Ahead

\* The watermark moves up, and the checkpoint follows it.
LEMMA RaiseAhead ==
  ASSUME NEW m, Ahead(m), Sound, Forward,
         \/ (\E h \in Offset : SetHighWatermark(h))
         \/ (\E h \in -1 .. MaxOffset - 1 : OverrideHighWatermark(h))
         \/ RecoverTail
  PROVE  Ahead(m)'
<1>1. UNCHANGED << disk, state, list, left, op >> /\ hw' > hw /\ committed' = hw' /\ state = "up"
  BY DEF SetHighWatermark, OverrideHighWatermark, RecoverTail, Forward
<1>2. hw' \in Int /\ hw \in Int /\ ckpt \in Int
  <2>1. RecoverTail => NewestOffset \in Int
    BY NewestIsOffset, BasesAreNumbers, SMT DEF Sound, RecoverTail
  <2> QED BY <2>1, BasesAreNumbers, SMT
      DEF SetHighWatermark, OverrideHighWatermark, RecoverTail, Sound, TypeOK, Offset
<1>3. ckpt <= hw' /\ hw' <= committed'
  BY <1>1, <1>2, SMT DEF Ahead
<1>4. LastFile(m)'
  BY <1>1 DEF Ahead, LastFile, disk
<1> QED BY <1>1, <1>3, <1>4 DEF Ahead, disk

\* The checkpoint claims what the fsync before it covered.
LEMMA FlushAhead ==
  ASSUME NEW m, Ahead(m), Sound, Backed, Sound', checkpointHWTick \/ Sync \/ SyncAll \/ Close
  PROVE  Ahead(m)'
<1>1. state = "up" /\ UNCHANGED << files, end, hw, committed >>
      /\ (state' = "up" => UNCHANGED list) /\ left' \subseteq left
      /\ (op' = op \/ op' = Idle)
  BY DEF checkpointHWTick, Sync, SyncAll, Close, Down, ghosts
<1>2. activeSegment = m /\ current(m) /\ m \in list /\ m \in Base
  BY <1>1, LastIsActive DEF Ahead
<1>3. /\ hw < end[m] /\ ckpt < stable[m] /\ stable[m] <= end[m]
      /\ hw \in Int /\ ckpt \in Int /\ stable[m] \in Nat /\ end[m] \in Nat
  <2>1. hw <= end[m] - 1
    BY <1>1, <1>2 DEF Backed, NewestOffset, Ahead
  <2>2. m \in files /\ ckpt < stable[m]
    BY DEF Ahead, LastFile
  <2>3. hw \in Int /\ ckpt \in Int /\ stable[m] \in Nat /\ end[m] \in Nat /\ stable[m] <= end[m]
    BY <1>2, <2>2, BasesAreNumbers, SMT DEF Sound, TypeOK
  <2> QED BY <2>1, <2>2, <2>3, SMT
<1>4. ckpt' \in {ckpt, hw} /\ stable'[m] = end[m]
  BY <1>2 DEF checkpointHWTick, checkpointHW, Sync, SyncAll, FlushedTo, Close, Sound, TypeOK
<1>5. ckpt' < stable'[m] /\ ckpt' <= committed /\ ckpt' <= hw
  BY <1>1, <1>3, <1>4, SMT DEF Ahead
<1>6. LastFile(m)'
  BY <1>1, <1>2, <1>5 DEF Ahead, LastFile
<1>7. op'.do \notin {"cut", "cutLog"}
  BY <1>1, IdleIsOp DEF Ahead
<1> QED BY <1>1, <1>5, <1>6, <1>7 DEF Ahead

\* The steps of a trim leave the last file alone.
LEMMA TrimAhead ==
  ASSUME NEW m, Ahead(m), Sound, Sound',
         FinalizeLog \/ TruncateBeforePublish \/ Delete \/ DeleteFails
  PROVE  Ahead(m)'
<1>1. state = "up" /\ m \in Base /\ LastFile(m)
  BY DEF Ahead, FinalizeLog, TruncateBeforePublish, Delete, DeleteFails
<1>2. activeSegment = m /\ m \in list /\ (\A c \in list : c <= m) /\ m \in Nat
  BY <1>1, LastIsActive, BasesAreNumbers DEF Ahead
<1>3. CASE FinalizeLog
  <2>1. /\ op.do = "trim" /\ op.rewrite /\ files' = files \cup {op.at}
        /\ end' = [end EXCEPT ![op.at] = end[op.seg]]
        /\ stable' = [stable EXCEPT ![op.at] = op.at] /\ op' = [op EXCEPT !.do = "trimLog"]
        /\ UNCHANGED << ckpt, state, list, left, hw, committed >>
    BY <1>3 DEF FinalizeLog, ghosts
  <2>2. /\ op.at \in Base /\ op.at \notin list /\ op.seg \in list /\ op.at < end[op.seg]
        /\ end[op.seg] <= m
    <3>1. PICK c \in list : op.seg < c /\ end[op.seg] <= c
      BY <2>1, TrimPlace
    <3>2. c <= m /\ c \in Nat /\ op.seg \in list
      BY <1>2, <2>1, TrimPlace, BasesAreNumbers DEF Sound, TypeOK
    <3>3. end[op.seg] \in Nat
      BY <3>2, BasesAreNumbers, ZenonT(30) DEF Sound, TypeOK
    <3>4. end[op.seg] <= m
      BY <1>2, <3>1, <3>2, <3>3, SMT
    <3> QED BY <2>1, <3>4, TrimPlace
  <2>3. op.at \in Nat /\ end[op.seg] \in Nat /\ op.at # m
    BY <1>2, <2>2, BasesAreNumbers, ZenonT(30) DEF Sound, TypeOK
  <2>4. /\ end'[op.at] = end[op.seg] /\ stable'[m] = stable[m]
        /\ \A f \in files : f # op.at => end'[f] = end[f]
    BY <1>1, <2>1, <2>2, <2>3, SMT DEF Sound, TypeOK
  <2>5. \A f \in files' : f <= m /\ (f < m => end'[f] <= m)
    BY <1>1, <1>2, <2>1, <2>2, <2>3, <2>4, SMT DEF LastFile
  <2>6. LastFile(m)'
    BY <1>1, <1>2, <2>1, <2>4, <2>5 DEF LastFile
  <2>7. op'.do = "trimLog"
    BY <2>1 DEF Sound, TypeOK, Op
  <2> QED BY <2>1, <2>6, <2>7 DEF Ahead
<1>4. CASE TruncateBeforePublish
  <2>1. /\ UNCHANGED << files, end, ckpt, stable, hw, committed, state >> /\ left' = {}
        /\ op'.do \notin {"cut", "cutLog"}
    BY <1>4, IdleIsOp DEF TruncateBeforePublish, Ahead, ghosts, Sound, TypeOK, Op
  <2>2. Max(list') = m /\ list' # {} /\ list' \in SUBSET Base
    BY <1>2, <1>4, TrimList DEF activeSegment
  <2>3. m \in list'
    BY <2>2, BaseMax
  <2> QED BY <2>1, <2>3 DEF Ahead, LastFile
<1>5. CASE Delete \/ DeleteFails
  <2>1. op.do = "drop" /\ op.todo # {}
    BY <1>5 DEF Delete, DeleteFails, Ahead
  <2>2. NextOut \in op.todo
    BY <2>1, NextOutIsDue DEF Sound
  <2>3. NextOut \notin list
    BY <1>1, <2>1, <2>2, BasesAreNumbers, SMT DEF Sound, TypeOK, TrimShape
  <2>4. /\ UNCHANGED << ckpt, hw, committed, state, list >> /\ left' = {}
        /\ op'.do \notin {"cut", "cutLog"}
    BY <1>5, <2>1, <2>3, IdleIsOp, SMT
    DEF Delete, DeleteFails, Ahead, ghosts, disk, Sound, TypeOK, Op
  <2>5. CASE DeleteFails
    BY <2>4, <2>5 DEF DeleteFails, disk, Ahead, LastFile
  <2>6. CASE Delete
    <3>1. /\ files' = files \ {NextOut} /\ end' = Of(files' \cup list, end)
          /\ stable' = Of(files', stable)
      BY <2>6 DEF Delete
    <3>2. /\ m \in files'
          /\ \A f \in files' : f \in files /\ end'[f] = end[f] /\ stable'[f] = stable[f]
      BY <1>1, <1>2, <2>3, <3>1 DEF LastFile, Of, Sound, TypeOK
    <3>3. LastFile(m)'
      BY <1>1, <2>4, <3>2 DEF LastFile
    <3> QED BY <2>4, <3>3 DEF Ahead
  <2> QED BY <1>5, <2>5, <2>6
<1> QED BY <1>3, <1>4, <1>5

\* The last file is one open() keeps.
LEMMA LastIsKept ==
  ASSUME TypeOK, NEW m \in Base, m \in files,
         \A f \in files : f <= m /\ (f < m => end[f] <= m)
  PROVE  m \in resolveSegmentOverlaps /\ Max(resolveSegmentOverlaps) = m
<1>1. Reach(m) \in Base /\ (Reach(m) # 0 => \E c \in files : c < m /\ end[c] = Reach(m))
  BY ReachIs
<1>2. m >= Reach(m)
  BY <1>1, BasesAreNumbers
<1>3. m \in resolveSegmentOverlaps
  BY <1>2 DEF resolveSegmentOverlaps
<1>4. resolveSegmentOverlaps \in SUBSET files /\ files \in SUBSET Int
  BY BasesAreNumbers, SMT DEF resolveSegmentOverlaps, TypeOK
<1>5. Max(resolveSegmentOverlaps) = m
  BY <1>3, <1>4, MaxIs
<1> QED BY <1>3, <1>5

\* A log that is opened takes the checkpoint as it is.
LEMMA OpenAhead ==
  ASSUME NEW m, Ahead(m), Sound, Sound', open
  PROVE  Ahead(m)'
<1> DEFINE S == resolveSegmentOverlaps
<1>1. /\ list' = S /\ files' = S /\ end' = Of(S, end) /\ hw' = ReopenedWatermark(S)
      /\ stable' = Of(S, [b \in Base |-> IF b \in torn THEN end[b] ELSE stable[b]])
      /\ UNCHANGED << ckpt, left, op, committed >>
  BY DEF open, ghosts
<1>2. m \in Base /\ m \in files /\ (\A f \in files : f <= m /\ (f < m => end[f] <= m))
      /\ ckpt < stable[m] /\ ckpt <= committed
  BY DEF Ahead, LastFile
<1>3. m \in S /\ Max(S) = m /\ S \in SUBSET files /\ S \in SUBSET Base
  <2>1. m \in S /\ Max(S) = m
    BY <1>2, LastIsKept DEF Sound
  <2>2. S \in SUBSET files
    BY DEF resolveSegmentOverlaps
  <2>3. files \in SUBSET Base
    BY DEF Sound, TypeOK
  <2> QED BY <2>1, <2>2, <2>3
<1> HIDE DEF S
<1>4. stable[m] \in Nat /\ end[m] \in Nat /\ stable[m] <= end[m] /\ ckpt \in Int /\ end[m] \in Base
  BY <1>2, BasesAreNumbers, SMT DEF Sound, TypeOK
<1>5. hw' = ckpt
  BY <1>1, <1>2, <1>3, <1>4, ReopenedWatermarkIs, SMT DEF Sound
<1>6. (\A f \in S : end'[f] = end[f]) /\ stable'[m] \in {end[m], stable[m]}
  BY <1>1, <1>3 DEF Of
<1>7. ckpt' < stable'[m]
  BY <1>1, <1>2, <1>4, <1>6, SMT
<1>8. LastFile(m)'
  BY <1>1, <1>2, <1>3, <1>6, <1>7 DEF LastFile
<1> QED BY <1>1, <1>2, <1>4, <1>5, <1>8, SMT DEF Ahead

\* Every step of a log that only moves forward keeps its last file.
LEMMA ForwardNext ==
  ASSUME Sound, Backed, ForwardInv, Next, Sound'
  PROVE  ForwardInv'
<1>0. Step /\ UNCHANGED setting
  BY DEF Next
<1> SUFFICES ASSUME Forward PROVE ForwardInv'
  BY <1>0 DEF ForwardInv, Forward
<1>1. PICK m : Ahead(m)
  BY DEF ForwardInv, Ahead
<1>2. m \in Base /\ LastFile(m) /\ op.do \notin {"cut", "cutLog"} /\ left = {} /\ m \in files
  BY <1>1 DEF Ahead, LastFile
<1>3. SUFFICES ASSUME ~split PROVE Ahead(m)'
  BY <1>1, SplitAhead, AheadIsForward
<1>4. ASSUME NEW n \in 1 .. setting.batch, Append(n) PROVE Ahead(m)'
  <2>1. activeSegment = m
    BY <1>2, <1>4, LastIsActive DEF Append, Writable
  <2>2. /\ end' = [end EXCEPT ![m] = @ + n] /\ state = "up"
        /\ UNCHANGED << files, stable, ckpt, state, list, left, hw, op, committed >>
    BY <1>4, <2>1 DEF Append, Writable
  <2>3. \A f \in files : f # m => end'[f] <= end[f]
    BY <2>2, BasesAreNumbers, SMT DEF Sound, TypeOK
  <2> QED BY <1>1, <1>2, <2>2, <2>3, TailAhead DEF LastFile
<1>5. CASE \/ AppendFails
           \/ (\E o \in 0 .. setting.offsets - 1 : TruncateBefore(o))
  <2>1. UNCHANGED << files, end, stable, ckpt, state, list, left, hw, committed >>
    BY <1>5, ZenonT(30) DEF AppendFails, TruncateBefore, disk, ghosts
  <2>2. op'.do \notin {"cut", "cutLog"}
    BY <1>2, <1>5, Boundary DEF AppendFails
  <2> QED BY <1>1, <2>1, <2>2 DEF Ahead, LastFile
<1>6. CASE \/ (\E h \in Offset : SetHighWatermark(h))
           \/ (\E h \in -1 .. MaxOffset - 1 : OverrideHighWatermark(h))
           \/ RecoverTail
  BY <1>1, <1>6, RaiseAhead
<1>7. CASE checkpointHWTick \/ Sync \/ SyncAll \/ Close
  BY <1>1, <1>7, FlushAhead
<1>8. ASSUME NEW o \in 0 .. setting.offsets - 1, Truncate(o) PROVE FALSE
  BY <1>8 DEF Truncate, Forward
<1>9. ~ReplaceLog /\ ~TruncatePublish
  BY <1>2 DEF ReplaceLog, TruncatePublish
<1>10. CASE FinalizeLog \/ TruncateBeforePublish \/ Delete \/ DeleteFails
  BY <1>1, <1>10, TrimAhead
<1>11. ASSUME NEW n \in 0 .. setting.batch - 1, NEW cut \in BOOLEAN, Kill(n, cut) PROVE Ahead(m)'
  <2>1. activeSegment = m
    BY <1>2, <1>11, LastIsActive DEF Kill
  <2>2. /\ end' = (IF n = 0 THEN end ELSE [end EXCEPT ![m] = @ + n])
        /\ UNCHANGED << files, stable, ckpt, hw, committed >>
        /\ state' = "down" /\ left' = {} /\ op' = Idle
    BY <1>11, <2>1 DEF Kill, Down, ghosts
  <2>3. \A f \in files : f # m => end'[f] <= end[f]
    BY <2>2, BasesAreNumbers, SMT DEF Sound, TypeOK
  <2> QED BY <1>1, <1>2, <2>2, <2>3, TailAhead, IdleIsOp
<1>12. ASSUME NEW kept \in [files -> Base], \A b \in files : kept[b] \in stable[b] .. end[b],
              NEW ahead, NEW cut, PowerLoss(kept, ahead, cut)
       PROVE  Ahead(m)'
  <2>1. /\ end' = [b \in Base |-> IF b \in files THEN kept[b] ELSE end[b]]
        /\ UNCHANGED << files, stable, ckpt, hw, committed >>
        /\ state' = "down" /\ left' = {} /\ op' = Idle
    BY <1>12 DEF PowerLoss, Down
  <2>2. \A f \in files : end'[f] <= end[f]
    BY <1>12, <2>1, BasesAreNumbers, SMT DEF Sound, TypeOK
  <2> QED BY <1>1, <1>2, <2>1, <2>2, TailAhead, IdleIsOp
<1>13. CASE OpenRefused
  <2>1. UNCHANGED << files, end, stable, ckpt, left, hw, op, committed >> /\ state' # "up"
    BY <1>13 DEF OpenRefused, disk, ghosts
  <2> QED BY <1>1, <2>1 DEF Ahead, LastFile
<1>14. CASE open
  BY <1>1, <1>14, OpenAhead
<1>15. ~openEmpty
  BY <1>2 DEF openEmpty
<1>16. CASE \E kept \in [files -> Base] :
                /\ \A b \in files : kept[b] \in stable[b] .. end[b]
                /\ LET lost == { b \in files : kept[b] < end[b] }
                   IN  \E ahead, cut \in SUBSET lost : PowerLoss(kept, ahead, cut)
  BY <1>12, <1>16
<1> QED
  BY <1>0, <1>3, <1>4, <1>5, <1>6, <1>7, <1>8, <1>9, <1>10, <1>11, <1>13,
     <1>14, <1>15, <1>16, ZenonT(30) DEF Step

\* Every step keeps the watermark backed.
LEMMA MarkNext == MarkInv /\ [Next]_vars => MarkInv'
<1> SUFFICES ASSUME MarkInv, [Next]_vars PROVE MarkInv'
  OBVIOUS
<1>1. Sound'
  BY SoundNext DEF MarkInv
<1>2. CASE Next
  BY <1>1, <1>2, BackedNext, ForwardNext DEF MarkInv
<1>3. CASE UNCHANGED vars
  BY <1>1, <1>3
  DEF vars, MarkInv, Backed, NewestOffset, activeSegment, ForwardInv, Forward, LastFile
<1> QED BY <1>2, <1>3

\* Every reachable log keeps its watermark backed, with the facts that takes.
LEMMA MarkInvariance == Spec => []MarkInv
BY MarkInit, MarkNext, PTL DEF Spec

\* The watermark names no record above the end of the log, whatever truncation,
\* failed file operation, kill or power loss took away; and where it only moves
\* up, open() takes from the checkpoint none that was not in force before.
THEOREM WatermarkIsAlwaysBacked == Spec => []WatermarkIsBacked
<1>1. MarkInv => WatermarkIsBacked
  BY DEF MarkInv, Backed, ForwardInv, Forward, WatermarkIsBacked
<1> QED BY <1>1, MarkInvariance, PTL

-----------------------------------------------------------------------------
(* A log without faults.                                                   *)

\* No file operation fails and the machine keeps its power.
Calm == setting.faults = {}

Holds(b, o) == b <= o /\ o < end[b]

\* Two files are disjoint, or the later one is the end of the earlier one.
Nested == \A b, c \in files : b < c => end[b] <= c \/ end[c] = end[b]

\* Every live record is in a file.
LiveHeld == \A o \in live : \E b \in files : Holds(b, o)

\* No file reaches past the base of the active segment.
TailClear ==
    \A f \in files : f <= activeSegment /\ (f < activeSegment => end[f] <= activeSegment)

\* The log runs and all its files are listed.
AllListed == state = "up" /\ files \subseteq list

\* What is in the directory beside the list.
Extra == IF op.do = "trimLog" THEN {op.at} ELSE IF op.do = "drop" THEN op.todo ELSE {}

\* Outside Truncate every listed segment has its file and holds its live records,
\* those in the segment being trimmed above the trim.
InPlace ==
    /\ left = {} /\ files = list \cup Extra
    /\ TailClear
    /\ op.do \in {"trim", "trimLog"} => op.todo = Outgoing(op.seg, op.rewrite)
    /\ \A o \in live : \E b \in list :
          /\ Holds(b, o)
          /\ op.do \in {"trim", "trimLog"} => op.seg <= b /\ (op.rewrite => op.at <= o)

\* Truncate deletes upwards from the cut, and the live records lie before it.
InCut ==
    /\ files = list \ left /\ \A b \in left : op.seg <= b
    /\ op.todo = { b \in files : op.seg < b \/ (~op.rewrite /\ b = op.seg) }
    /\ \A o \in live : /\ o < op.at
                       /\ \E b \in list : Holds(b, o) /\ (b < op.seg \/ (op.rewrite /\ b = op.seg))

Running ==
    /\ torn = {}
    /\ op.do \in {"cut", "cutLog"} => InCut
    /\ op.do \notin {"cut", "cutLog"} => InPlace

Whole ==
    /\ garbled = {} /\ state # "overlap"
    /\ Nested /\ LiveHeld
    /\ state = "up" => Running

\* Numbers.
LEMMA Numbers ==
  ASSUME TypeOK
  PROVE  /\ \A b \in files : b \in Base /\ b \in Nat /\ end[b] \in Nat /\ stable[b] \in Nat
                             /\ b <= end[b] /\ stable[b] <= end[b]
         /\ \A b \in list : b \in Base /\ b \in Nat /\ end[b] \in Nat
         /\ \A o \in live : o \in Nat /\ o \in Offset
         /\ \A o \in synced : o \in Nat
         /\ end \in [Base -> Base] /\ stable \in [Base -> Base]
         /\ op.seg \in Nat /\ op.at \in Nat /\ op.seg \in Base /\ op.at \in Base
         /\ \A t \in op.todo : t \in Nat
         /\ \A b \in Base : b \in Nat /\ end[b] \in Nat
BY BasesAreNumbers, SMT DEF TypeOK, Op, Offset

\* Where the directory is the list, the last segment is the last file.
LEMMA ListIsTail == Sound /\ AllListed => TailClear /\ Nested
<1> SUFFICES ASSUME Sound, AllListed PROVE TailClear /\ Nested
  OBVIOUS
<1>1. activeSegment \in list /\ \A b \in list : b <= activeSegment
  BY Active DEF Sound, AllListed
<1>2. \A b, c \in list : b < c => end[b] <= c
  BY DEF Sound, Listed
<1> QED BY <1>1, <1>2 DEF Nested, TailClear, AllListed

\* A running log's live records are in its files.
LEMMA RunningHolds == Sound /\ Running => LiveHeld
<1> SUFFICES ASSUME Sound, Running PROVE LiveHeld
  OBVIOUS
<1>1. CASE op.do \notin {"cut", "cutLog"}
  BY <1>1 DEF Running, InPlace, LiveHeld
<1>2. CASE op.do \in {"cut", "cutLog"}
  <2> SUFFICES ASSUME NEW o \in live PROVE \E b \in files : Holds(b, o)
    BY DEF LiveHeld
  <2>1. PICK b \in list : Holds(b, o) /\ (b < op.seg \/ (op.rewrite /\ b = op.seg))
    BY <1>2 DEF Running, InCut
  <2>2. b \notin left
    <3>1. b \in Nat /\ op.seg \in Nat
      BY Numbers DEF Sound
    <3>2. (\A c \in left : op.seg <= c) /\ (op.rewrite => op.seg \notin left)
      BY <1>2 DEF Running, InCut, Sound, CutShape
    <3> QED BY <2>1, <3>1, <3>2, SMT
  <2>3. b \in files
    BY <1>2, <2>2 DEF Running, InCut
  <2> QED BY <2>1, <2>3
<1> QED BY <1>1, <1>2

\* What a log without faults consists of after a step, from its parts.
LEMMA WholeFrom ==
  ASSUME Sound', garbled' = {}, state' = "up", Nested', Running'
  PROVE  Whole'
<1>1. LiveHeld'
  BY RunningHolds, PTL
<1> QED BY <1>1 DEF Whole

\* The same where the directory is the list.
LEMMA ListedFrom ==
  ASSUME Sound', state' = "up", files' \subseteq list'
  PROVE  TailClear' /\ Nested'
<1>1. AllListed'
  BY DEF AllListed
<1> QED BY <1>1, ListIsTail, PTL

\* A new log holds nothing.
LEMMA WholeInit == Init => Whole
<1> SUFFICES ASSUME Init PROVE Whole
  OBVIOUS
<1>1. op.do = "none" /\ state = "up" /\ files = list /\ live = {} /\ garbled = {} /\ torn = {}
      /\ left = {}
  BY IdleIsOp DEF Init
<1>2. TailClear /\ Nested
  BY <1>1, SoundInit, ListIsTail DEF AllListed
<1> QED BY <1>1, <1>2 DEF Whole, Running, InPlace, Extra, LiveHeld

\* Steps that change none of what the parts speak of.
LEMMA WholeKept ==
  ASSUME Whole, UNCHANGED << files, end, torn, garbled, state, list, left, op, live >>
  PROVE  Whole'
BY DEF Whole, Nested, LiveHeld, Holds, Running, InPlace, InCut, Extra, TailClear, activeSegment,
       Outgoing

\* A roll begins after everything there is.
LEMMA SplitWhole ==
  ASSUME Sound, Sound', Backed, Whole, split
  PROVE  Whole'
<1>0. PICK b : b = end[activeSegment]
  OBVIOUS
<1>1. /\ files' = files \cup {b} /\ list' = list \cup {b} /\ end' = [end EXCEPT ![b] = b]
      /\ UNCHANGED << torn, garbled, state, left, op, live >> /\ state = "up"
      /\ activeSegment < b /\ op.do \notin {"cut", "cutLog"}
  BY <1>0 DEF split, Splits, Writable, ghosts
<1>2. activeSegment' = b
  BY <1>0, SplitBacked DEF activeSegment
<1>3. InPlace /\ torn = {} /\ Nested /\ garbled = {}
  BY <1>1 DEF Whole, Running
<1>4. activeSegment \in Nat /\ b \in Nat /\ b \in Base
  <2>1. activeSegment \in Base
    BY <1>1, Active DEF Sound
  <2> QED BY <1>0, <2>1, BasesAreNumbers DEF Sound, TypeOK
<1>5. \A f \in files : f \in Nat /\ end[f] \in Nat /\ f \in Base
  BY Numbers DEF Sound
<1>6. \A f \in files : f < b /\ end[f] <= b
  <2> SUFFICES ASSUME NEW f \in files PROVE f < b /\ end[f] <= b
    OBVIOUS
  <2>1. f <= activeSegment /\ (f < activeSegment => end[f] <= activeSegment)
    BY <1>3 DEF InPlace, TailClear
  <2>2. f = activeSegment => end[f] = b
    BY <1>0
  <2>3. f \in Nat /\ end[f] \in Nat
    BY <1>5
  <2> QED BY <1>1, <1>4, <2>1, <2>2, <2>3, SMT
<1>7. (\A f \in files : end'[f] = end[f]) /\ end'[b] = b
  BY <1>1, <1>4, <1>5, <1>6, SMT DEF Sound, TypeOK
<1>8. TailClear'
  <2> SUFFICES ASSUME NEW f \in files' PROVE f <= b /\ (f < b => end'[f] <= b)
    BY <1>2 DEF TailClear
  <2>1. CASE f \in files
    BY <1>4, <1>5, <1>6, <1>7, <2>1, SMT
  <2>2. CASE f = b
    BY <1>4, <2>2, SMT
  <2> QED BY <1>1, <2>1, <2>2
<1>9. Nested'
  BY <1>1, <1>3, <1>4, <1>5, <1>6, <1>7, SMT DEF Nested
<1>10. InPlace'
  <2>1. left' = {} /\ files' = list' \cup Extra'
    BY <1>1, <1>3 DEF InPlace, Extra
  <2>2. op.do \in {"trim", "trimLog"} => Outgoing(op.seg, op.rewrite)' = op.todo
    <3> SUFFICES ASSUME op.do \in {"trim", "trimLog"}
                 PROVE  Outgoing(op.seg, op.rewrite)' = op.todo
      OBVIOUS
    <3>1. op.seg \in list /\ op.todo = Outgoing(op.seg, op.rewrite) /\ op.seg \in Nat
      BY <1>3, Numbers, ZenonT(30) DEF InPlace, Sound, TrimShape
    <3>2. op.seg < b
      BY <1>3, <1>6, <3>1 DEF InPlace
    <3>3. { x \in list' : x < op.seg } = { x \in list : x < op.seg }
      BY <1>1, <1>4, <3>1, <3>2, SMT
    <3> QED BY <1>1, <3>1, <3>3 DEF Outgoing
  <2>3. \A x \in list : end'[x] = end[x] /\ x \in list'
    BY <1>1, <1>3, <1>7 DEF InPlace
  <2>4. \A o \in live : \E x \in list' :
          /\ Holds(x, o)'
          /\ op'.do \in {"trim", "trimLog"} => op'.seg <= x /\ (op'.rewrite => op'.at <= o)
    BY <1>1, <1>3, <2>3 DEF InPlace, Holds
  <2> QED BY <1>1, <1>8, <2>1, <2>2, <2>4 DEF InPlace
<1>11. Running'
  BY <1>1, <1>3, <1>10 DEF Running
<1> QED BY <1>1, <1>3, <1>9, <1>11, WholeFrom

\* The active segment grows, and nothing lies after it.
LEMMA GrowthNested ==
  ASSUME Sound, Nested, TailClear, state = "up", NEW e \in Nat, end[activeSegment] <= e,
         end' = [end EXCEPT ![activeSegment] = e], files' = files
  PROVE  Nested'
<1>1. activeSegment \in Base /\ activeSegment \in Nat
  BY Active, Numbers DEF Sound
<1>2. \A f \in files : f \in Nat /\ f \in Base /\ (f # activeSegment => end'[f] = end[f])
  BY <1>1, Numbers DEF Sound, TypeOK
<1>3. \A f \in files : f <= activeSegment /\ (f < activeSegment => end[f] <= activeSegment)
  BY DEF TailClear
<1> HIDE DEF activeSegment
<1> QED BY <1>1, <1>2, <1>3, SMT DEF Nested

\* The records of an append are in the active segment.
LEMMA AppendWhole ==
  ASSUME Sound, Sound', Whole, NEW n \in 1 .. setting.batch, Append(n)
  PROVE  Whole'
<1>0. PICK a : a = activeSegment
  OBVIOUS
<1>1. /\ end' = [end EXCEPT ![a] = end[a] + n] /\ live' = live \cup (end[a] .. end[a] + n - 1)
      /\ UNCHANGED << files, torn, state, list, left, op >> /\ state = "up"
      /\ op.do \notin {"cut", "cutLog"}
  BY <1>0 DEF Append, Writable
<1>2. InPlace /\ torn = {} /\ Nested /\ garbled = {}
  BY <1>1 DEF Whole, Running
<1>3. garbled' = {}
  BY <1>2 DEF Append
<1>4. a \in list /\ a \in Base /\ a \in Nat /\ end[a] \in Nat /\ n \in Nat /\ a <= end[a]
      /\ \A b \in list : b <= a
  <2>1. a \in list /\ a \in Base /\ \A b \in list : b <= a
    BY <1>0, <1>1, Active DEF Sound
  <2>2. n \in Nat
    BY SettingBounds, LogAssumption, SMT DEF Sound, TypeOK
  <2> QED BY <2>1, <2>2, Numbers DEF Sound, Listed
<1>5. end'[a] = end[a] + n /\ \A f \in Base : f # a => end'[f] = end[f]
  BY <1>1, <1>4, ZenonT(30) DEF Sound, TypeOK
<1>6. Nested'
  <2>1. end[a] + n \in Nat /\ end[a] <= end[a] + n
    BY <1>4, SMT
  <2> QED BY <1>0, <1>1, <1>2, <2>1, GrowthNested, ZenonT(30) DEF InPlace
<1>7. TailClear'
  <2>1. activeSegment' = a
    BY <1>0, <1>1 DEF activeSegment
  <2>2. \A f \in files : f < a => end'[f] = end[f]
    BY <1>4, <1>5, Numbers, SMT DEF Sound
  <2> QED BY <1>0, <1>1, <1>2, <2>1, <2>2 DEF InPlace, TailClear
<1>8. \A x \in list : end[x] <= end'[x] /\ end'[x] \in Nat
  BY <1>4, <1>5, Numbers, SMT DEF Sound
<1>9. ASSUME NEW o \in live'
      PROVE  \E x \in list' : /\ Holds(x, o)'
                              /\ op'.do \in {"trim", "trimLog"} =>
                                    op'.seg <= x /\ (op'.rewrite => op'.at <= o)
  <2>1. CASE o \in live
    <3>1. PICK x \in list :
            /\ Holds(x, o)
            /\ op.do \in {"trim", "trimLog"} => op.seg <= x /\ (op.rewrite => op.at <= o)
      BY <1>2, <2>1 DEF InPlace
    <3>2. o \in Nat /\ end[x] \in Nat /\ end[x] <= end'[x] /\ end'[x] \in Nat
      BY <1>8, <2>1, Numbers DEF Sound
    <3>3. Holds(x, o)'
      BY <3>1, <3>2, SMT DEF Holds
    <3> QED BY <1>1, <3>1, <3>3
  <2>2. CASE o \in end[a] .. end[a] + n - 1
    <3>1. Holds(a, o)'
      BY <1>4, <1>5, <2>2, SMT DEF Holds
    <3>2. ASSUME op.do \in {"trim", "trimLog"}, op.rewrite PROVE op.at <= o
      <4>1. PICK c \in list : op.seg < c
        BY <3>2, TrimPlace
      <4>2. op.seg \in Nat /\ c \in Nat /\ c <= a /\ op.seg \in list
        BY <1>4, <3>2, Numbers, TrimPlace DEF Sound
      <4>3. op.seg < a
        BY <1>4, <4>1, <4>2, SMT
      <4>4. end[op.seg] <= a /\ op.at < end[op.seg]
        BY <1>4, <3>2, <4>3, TrimPlace
      <4>5. end[op.seg] \in Nat /\ op.at \in Nat
        BY Numbers DEF Sound
      <4> QED BY <1>4, <2>2, <4>4, <4>5, SMT
    <3>3. op.do \in {"trim", "trimLog"} => op.seg <= a
      BY <1>4, ZenonT(30) DEF Sound, TrimShape
    <3> QED BY <1>1, <1>4, <3>1, <3>2, <3>3
  <2> QED BY <1>1, <2>1, <2>2
<1>10. InPlace'
  BY <1>1, <1>2, <1>7, <1>9 DEF InPlace, Extra, Outgoing
<1>11. Running'
  BY <1>1, <1>2, <1>10 DEF Running
<1> QED BY <1>1, <1>3, <1>6, <1>11, WholeFrom

\* Truncate begins: what is live lies before the cut.
LEMMA TruncateWhole ==
  ASSUME Sound, Sound', Whole, NEW o \in 0 .. setting.offsets - 1, Truncate(o)
  PROVE  Whole'
<1>0. PICK seg : seg = Min(Reaching(o))
  OBVIOUS
<1>r. PICK rewrite \in BOOLEAN : rewrite = (seg # o \/ seg = Min(list))
  BY ZenonT(30)
<1>1. /\ op' = [do |-> "cut", seg |-> seg, at |-> o, rewrite |-> rewrite,
                todo |-> { b \in list : b > seg } \cup (IF rewrite THEN {} ELSE {seg})]
      /\ live' = live \ From(o) /\ state = "up" /\ op = Idle /\ Reaching(o) # {}
      /\ UNCHANGED << files, end, torn, garbled, state, list, left >>
  BY <1>0, <1>r, ZenonT(30) DEF Truncate, disk
<1>2. seg \in list /\ o < end[seg] /\ o \in Nat
  BY <1>0, <1>1, CutSegment, SettingOffset DEF Sound
<1>3. op.do = "none" /\ InPlace /\ torn = {} /\ Nested /\ garbled = {}
  BY <1>1, IdleIsOp DEF Whole, Running
<1>4. left = {} /\ files = list
  BY <1>3 DEF InPlace, Extra
<1>5. /\ op'.do = "cut" /\ op'.seg = seg /\ op'.at = o /\ op'.rewrite = rewrite
      /\ op'.todo = { b \in list : b > seg } \cup (IF rewrite THEN {} ELSE {seg})
  BY <1>1
<1>6. seg \in Nat /\ end[seg] \in Nat /\ \A b \in list : b \in Nat
  BY <1>2, Numbers DEF Sound
<1>7. op'.todo = { b \in files : seg < b \/ (~rewrite /\ b = seg) }
  BY <1>2, <1>4, <1>5, <1>6
<1>8. ASSUME NEW x \in live'
      PROVE  x < o /\ \E b \in list : Holds(b, x) /\ (b < seg \/ (rewrite /\ b = seg))
  <2>1. x \in live /\ x \in Nat /\ x < o
    <3>1. x \in live /\ x \notin From(o)
      BY <1>1
    <3>2. x \in Nat /\ x \in Offset
      BY <3>1, Numbers DEF Sound
    <3> QED BY <1>2, <3>1, <3>2, SMT DEF From
  <2>2. PICK b \in list : Holds(b, x)
    BY <1>3, <2>1 DEF InPlace
  <2>3. b \in Nat /\ b <= x
    BY <2>2, Numbers DEF Holds, Sound
  <2>4. ~(seg < b)
    <3>1. seg < b => end[seg] <= b
      BY <1>2 DEF Sound, Listed
    <3> QED BY <1>2, <1>6, <2>1, <2>3, <3>1, SMT
  <2>5. b = seg => rewrite
    <3>1. b # o
      BY <1>2, <2>1, <2>3, SMT
    <3>2. seg # o => rewrite
      BY <1>r, ZenonT(30)
    <3> QED BY <3>1, <3>2
  <2> QED BY <1>6, <2>1, <2>2, <2>3, <2>4, <2>5, SMT
<1>9. InCut'
  BY <1>1, <1>4, <1>5, <1>7, <1>8 DEF InCut, Holds
<1>10. Nested' /\ Running'
  BY <1>1, <1>3, <1>5, <1>9 DEF Nested, Running
<1> QED BY <1>1, <1>3, <1>10, WholeFrom

\* The shorter segment holds what lies before the cut.
LEMMA ReplaceLogWhole ==
  ASSUME Sound, Sound', Whole, ReplaceLog
  PROVE  Whole'
<1>0. PICK s : s = op.seg
  OBVIOUS
<1>1. /\ op.do = "cut" /\ state = "up" /\ op' = [op EXCEPT !.do = "cutLog"]
      /\ end' = [end EXCEPT ![s] = CutEnd] /\ torn' = torn \ {s}
      /\ UNCHANGED << files, garbled, state, list, left, live >>
  BY <1>0 DEF ReplaceLog, ghosts
<1>2. InCut /\ torn = {} /\ garbled = {}
  BY <1>1 DEF Whole, Running
<1>3. /\ op'.do = "cutLog" /\ op'.seg = op.seg /\ op'.at = op.at /\ op'.rewrite = op.rewrite
      /\ op'.todo = op.todo
  BY <1>1 DEF Sound, TypeOK, Op
<1>4. CutEnd \in Base /\ op.at <= CutEnd /\ s \in Base
  BY <1>0, <1>1, CutEndIs DEF Sound, TypeOK, Op
<1>5. ASSUME NEW o \in live, NEW b \in list, Holds(b, o), b < op.seg \/ b = op.seg, o < op.at
      PROVE  Holds(b, o)'
  <2>1. b \in Base /\ b \in Nat /\ op.seg \in Nat /\ op.at \in Nat /\ o \in Nat
    BY Numbers DEF Sound
  <2>2. end'[b] = IF b = s THEN CutEnd ELSE end[b]
    BY <1>1, <2>1 DEF Sound, TypeOK
  <2>3. CutEnd \in Nat
    BY <1>4, BasesAreNumbers
  <2> QED BY <1>4, <1>5, <2>1, <2>2, <2>3, SMT DEF Holds
<1>6. InCut'
  BY <1>1, <1>2, <1>3, <1>5 DEF InCut
<1>7. Running'
  BY <1>1, <1>2, <1>3, <1>6 DEF Running
<1>8. Nested'
  <2>1. files' \subseteq list' /\ state' = "up"
    BY <1>1, <1>2 DEF InCut
  <2> QED BY <2>1, ListedFrom
<1> QED BY <1>1, <1>2, <1>7, <1>8, WholeFrom

\* The list that Truncate publishes is what it left in the directory.
LEMMA TruncatePublishWhole ==
  ASSUME Sound, Sound', Whole, TruncatePublish
  PROVE  Whole'
<1>1. /\ op.do \in {"cut", "cutLog"} /\ op.todo = {} /\ state = "up" /\ op' = Idle
      /\ list' = { b \in list : b < op.seg } \cup (IF op.rewrite THEN {op.seg} ELSE {})
      /\ left' = left \cap (list' \ {op.seg}) /\ end' = Of(files \cup list', end)
      /\ UNCHANGED << files, torn, garbled, state, live >>
  BY ZenonT(30) DEF TruncatePublish
<1>2. InCut /\ torn = {} /\ garbled = {}
  BY <1>1 DEF Whole, Running
<1>3. /\ op.seg \in list /\ op.seg \in Nat /\ (op.rewrite => op.seg \notin left)
      /\ list \subseteq Base /\ \A b \in list : b \in Nat
  <2>1. op.seg \in list /\ (op.rewrite => op.seg \notin left)
    BY <1>1, ZenonT(30) DEF Sound, CutShape
  <2>2. op.seg \in Nat /\ \A b \in list : b \in Nat /\ b \in Base
    BY Numbers DEF Sound
  <2> QED BY <2>1, <2>2
<1>l. list' = { b \in list : b < op.seg } \cup (IF op.rewrite THEN {op.seg} ELSE {})
  BY <1>1
<1>4. left' = {}
  <2> SUFFICES ASSUME NEW b \in left' PROVE FALSE
    OBVIOUS
  <2>1. b \in left /\ b \in list' /\ b # op.seg
    BY <1>1
  <2>2. op.seg <= b
    BY <1>2, <2>1 DEF InCut
  <2>3. b \in list /\ b < op.seg /\ b \in Nat
    BY <1>3, <1>l, <2>1
  <2> QED BY <1>3, <2>2, <2>3, SMT
<1>5. files = list'
  <2>1. ASSUME NEW b \in files PROVE b \in list'
    <3>1. b \in list /\ ~(op.seg < b \/ (~op.rewrite /\ b = op.seg)) /\ b \in Nat
      BY <1>1, <1>2, <1>3, <2>1 DEF InCut
    <3> QED BY <1>3, <1>l, <3>1, SMT
  <2>2. ASSUME NEW b \in list' PROVE b \in files
    <3>1. b \in list /\ b \in Nat /\ (b < op.seg \/ (op.rewrite /\ b = op.seg))
      BY <1>3, <1>l, <2>2
    <3>2. b \notin left
      BY <1>2, <1>3, <3>1, SMT DEF InCut
    <3> QED BY <1>2, <3>1, <3>2 DEF InCut
  <2> QED BY <2>1, <2>2
<1>6. \A b \in list' : end'[b] = end[b]
  BY <1>1, <1>3, <1>5 DEF Of
<1>7. ASSUME NEW o \in live PROVE \E b \in list' : Holds(b, o)'
  <2>1. PICK b \in list : Holds(b, o) /\ (b < op.seg \/ (op.rewrite /\ b = op.seg))
    BY <1>2 DEF InCut
  <2>2. b \in list'
    BY <1>l, <2>1
  <2> QED BY <1>6, <2>1, <2>2 DEF Holds
<1>8. TailClear' /\ Nested'
  BY <1>1, <1>5, ListedFrom
<1>9. op'.do = "none"
  BY <1>1, IdleIsOp
<1>10. InPlace'
  BY <1>1, <1>4, <1>5, <1>7, <1>8, <1>9 DEF InPlace, Extra
<1>11. Running'
  BY <1>1, <1>2, <1>9, <1>10 DEF Running
<1> QED BY <1>1, <1>2, <1>8, <1>11, WholeFrom

\* TruncateBefore begins: what is live lies from its boundary on.
LEMMA TruncateBeforeWhole ==
  ASSUME Sound, Sound', Whole, NEW m \in 0 .. setting.offsets - 1, TruncateBefore(m)
  PROVE  Whole'
<1>1. /\ op'.do = "trim" /\ op'.seg \in list /\ op'.at = m
      /\ op'.todo = Outgoing(op'.seg, op'.rewrite)
      /\ \A b \in list : b < op'.seg => end[b] = b \/ end[b] <= m
  BY Boundary
<1>2. /\ live' = live \ Below(m) /\ state = "up" /\ op = Idle
      /\ UNCHANGED << files, end, torn, garbled, state, list, left >>
  BY ZenonT(30) DEF TruncateBefore, disk
<1>3. op.do = "none" /\ InPlace /\ torn = {} /\ Nested /\ garbled = {}
  BY <1>2, IdleIsOp DEF Whole, Running
<1>4. ASSUME NEW o \in live' PROVE \E b \in list : Holds(b, o) /\ op'.seg <= b /\ m <= o
  <2>1. o \in live /\ o \in Nat /\ m \in Nat /\ m <= o
    <3>1. o \in live /\ o \notin Below(m)
      BY <1>2
    <3>2. o \in Nat /\ o \in Offset /\ m \in Nat
      BY <3>1, Numbers, SettingOffset DEF Sound
    <3> QED BY <3>1, <3>2, SMT DEF Below
  <2>2. PICK b \in list : Holds(b, o)
    BY <1>3, <2>1 DEF InPlace
  <2>3. b \in Nat /\ end[b] \in Nat /\ op'.seg \in Nat
    BY <1>1, Numbers DEF Sound
  <2>4. ~(b < op'.seg)
    BY <1>1, <2>1, <2>2, <2>3, SMT DEF Holds
  <2> QED BY <2>1, <2>2, <2>3, <2>4, SMT
<1>5. TailClear' /\ Nested'
  BY <1>2, <1>3 DEF TailClear, activeSegment, Nested, InPlace
<1>6. InPlace'
  <2>1. Extra' = {} /\ Extra = {}
    BY <1>1, <1>3 DEF Extra
  <2>2. Outgoing(op.seg, op.rewrite)' = op'.todo
    BY <1>1, <1>2 DEF Outgoing
  <2>3. \A o \in live' : \E b \in list' : Holds(b, o)' /\ op'.seg <= b /\ op'.at <= o
    BY <1>1, <1>2, <1>4 DEF Holds
  <2> QED BY <1>2, <1>3, <1>5, <2>1, <2>2, <2>3 DEF InPlace
<1>7. Running'
  BY <1>1, <1>2, <1>3, <1>6 DEF Running
<1> QED BY <1>2, <1>3, <1>5, <1>7, WholeFrom

\* The trimmed log is the end of the one it was made from.
LEMMA FinalizeLogWhole ==
  ASSUME Sound, Sound', Whole, FinalizeLog
  PROVE  Whole'
<1>0. PICK s, m : s = op.seg /\ m = op.at
  OBVIOUS
<1>1. /\ op.do = "trim" /\ op.rewrite /\ state = "up" /\ files' = files \cup {m}
      /\ end' = [end EXCEPT ![m] = end[s]] /\ op' = [op EXCEPT !.do = "trimLog"]
      /\ UNCHANGED << torn, garbled, state, list, left, live >>
  BY <1>0 DEF FinalizeLog, ghosts
<1>2. InPlace /\ torn = {} /\ Nested /\ garbled = {} /\ left = {} /\ files = list
  BY <1>1, ZenonT(30) DEF Whole, Running, InPlace, Extra
<1>3. /\ s \in list /\ m \in Base /\ m \notin list /\ s < m /\ m < end[s]
      /\ \A b \in list : b < s => b <= end[b] /\ end[b] <= s
      /\ \A c \in list : s < c => end[s] <= c
      /\ \E c \in list : s < c
  BY <1>0, <1>1, TrimPlace
<1>4. /\ op'.do = "trimLog" /\ op'.seg = op.seg /\ op'.at = op.at /\ op'.rewrite = op.rewrite
      /\ op'.todo = op.todo
  BY <1>1, ZenonT(30) DEF Sound, TypeOK, Op
<1>5. /\ s \in Nat /\ m \in Nat /\ end[s] \in Nat
      /\ \A b \in list : b \in Nat /\ end[b] \in Nat /\ b \in Base
  BY <1>3, Numbers DEF Sound
<1>6. end'[m] = end[s] /\ \A b \in list : end'[b] = end[b]
  BY <1>1, <1>3, <1>5, SMT DEF Sound, TypeOK
<1>7. ASSUME NEW b \in list PROVE (b < m => b <= s) /\ (m < b => end[s] <= b)
  BY <1>3, <1>5, SMT
<1>8. Nested'
  <2> SUFFICES ASSUME NEW b \in files', NEW c \in files', b < c
               PROVE  end'[b] <= c \/ end'[c] = end'[b]
    BY DEF Nested
  <2>1. CASE b \in list /\ c \in list
    BY <1>2, <1>6, <2>1 DEF Nested
  <2>2. CASE b \in list /\ c = m
    <3>1. b \in Nat /\ b <= s /\ end[b] \in Nat
      BY <1>5, <1>7, <2>2
    <3>2. CASE b = s
      BY <1>6, <2>2, <3>2
    <3>3. CASE b < s
      BY <1>3, <1>5, <1>6, <2>2, <3>1, <3>3, SMT
    <3> QED BY <1>5, <3>1, <3>2, <3>3, SMT
  <2>3. CASE b = m /\ c \in list
    BY <1>6, <1>7, <2>3
  <2>4. ~(b = m /\ c = m)
    BY <1>5, SMT
  <2> QED BY <1>1, <1>2, <2>1, <2>2, <2>3, <2>4
<1>9. TailClear'
  <2>0. PICK a : a = activeSegment
    OBVIOUS
  <2>1. a \in list /\ a \in Nat /\ \A b \in list : b <= a
    BY <1>1, <1>5, <2>0, Active DEF Sound
  <2>2. s < a
    BY <1>3, <1>5, <2>1, SMT
  <2>3. end[s] <= a /\ m < a
    BY <1>3, <1>5, <2>1, <2>2, SMT
  <2>4. activeSegment' = a
    BY <1>1, <2>0 DEF activeSegment
  <2>5. \A f \in list : f < a => end[f] <= a
    BY <1>2, <2>0 DEF InPlace, TailClear
  <2>6. \A f \in files' : f <= a /\ (f < a => end'[f] <= a)
    BY <1>1, <1>2, <1>5, <1>6, <2>1, <2>3, <2>5, SMT
  <2> QED BY <2>4, <2>6 DEF TailClear
<1>10. InPlace'
  <2>1. left' = {} /\ files' = list' \cup Extra'
    BY <1>0, <1>1, <1>2, <1>4 DEF Extra
  <2>2. op'.todo = Outgoing(op.seg, op.rewrite)'
    BY <1>1, <1>2, <1>4 DEF InPlace, Outgoing
  <2>3. \A o \in live' : \E b \in list' :
          /\ Holds(b, o)'
          /\ op'.seg <= b /\ (op'.rewrite => op'.at <= o)
    BY <1>1, <1>2, <1>4, <1>6 DEF InPlace, Holds
  <2> QED BY <1>4, <1>9, <2>1, <2>2, <2>3, ZenonT(30) DEF InPlace
<1>11. Running'
  BY <1>1, <1>2, <1>4, <1>10 DEF Running
<1> QED BY <1>1, <1>2, <1>8, <1>11, WholeFrom

\* The trim takes the place of its segment in the list.
LEMMA TruncateBeforePublishWhole ==
  ASSUME Sound, Sound', Whole, TruncateBeforePublish
  PROVE  Whole'
<1>1. /\ op.do \in {"trim", "trimLog"} /\ state = "up" /\ left' = left \cap list'
      /\ op' = IF op.todo = {} THEN Idle ELSE [op EXCEPT !.do = "drop"]
      /\ UNCHANGED << files, end, torn, garbled, state, live >>
      /\ op.rewrite <=> op.do = "trimLog"
  BY DEF TruncateBeforePublish, ghosts, Sound, TrimShape
<1>2. /\ Max(list') = Max(list)
      /\ IF op.rewrite
           THEN /\ list' = { b \in list : b > op.seg } \cup {op.at} /\ op.at \in files
                /\ end[op.at] = end[op.seg]
           ELSE list' = { b \in list : b > op.seg } \cup {op.seg} /\ op.seg \in list
  BY TrimList, ZenonT(30)
<1>3. InPlace /\ torn = {} /\ Nested /\ garbled = {} /\ left = {}
  BY <1>1 DEF Whole, Running, InPlace
<1>4. /\ op.todo = {} => op'.do = "none"
      /\ op.todo # {} => op'.do = "drop" /\ op'.todo = op.todo
  BY <1>1, IdleIsOp DEF Sound, TypeOK, Op
<1>5. Extra' = op.todo
  BY <1>4 DEF Extra
<1>6. op.seg \in list /\ op.seg \in Nat /\ \A b \in list : b \in Nat
  BY <1>1, Numbers DEF Sound, TrimShape
<1>7. files' = list' \cup Extra'
  <2>1. op.todo = { b \in list : b < op.seg } \cup (IF op.rewrite THEN {op.seg} ELSE {})
    BY <1>1, <1>3 DEF InPlace, Outgoing
  <2>2. files = list \cup (IF op.rewrite THEN {op.at} ELSE {})
    BY <1>1, <1>3 DEF InPlace, Extra
  <2>3. \A b \in list : b < op.seg \/ b = op.seg \/ b > op.seg
    BY <1>6, SMT
  <2>4. CASE op.rewrite
    BY <1>1, <1>2, <1>5, <1>6, <2>1, <2>2, <2>3, <2>4
  <2>5. CASE ~op.rewrite
    BY <1>1, <1>2, <1>5, <1>6, <2>1, <2>2, <2>3, <2>5
  <2> QED BY <2>4, <2>5
<1>8. ASSUME NEW o \in live PROVE \E b \in list' : Holds(b, o)
  <2>1. PICK b \in list : Holds(b, o) /\ op.seg <= b /\ (op.rewrite => op.at <= o)
    BY <1>1, <1>3 DEF InPlace
  <2>2. CASE b > op.seg
    BY <1>2, <2>1, <2>2
  <2>3. CASE b = op.seg /\ ~op.rewrite
    BY <1>2, <2>1, <2>3
  <2>4. CASE b = op.seg /\ op.rewrite
    <3>1. op.at \in list' /\ Holds(op.at, o)
      BY <1>2, <2>1, <2>4 DEF Holds
    <3> QED BY <3>1
  <2> QED BY <1>6, <2>1, <2>2, <2>3, <2>4, SMT
<1>9. TailClear' /\ Nested'
  BY <1>1, <1>2, <1>3 DEF InPlace, TailClear, activeSegment, Nested
<1>10. InPlace'
  <2>1. op'.do \notin {"trim", "trimLog"}
    BY <1>4
  <2>2. \A o \in live' : \E b \in list' : Holds(b, o)'
    BY <1>1, <1>8 DEF Holds
  <2> QED BY <1>1, <1>3, <1>7, <1>9, <2>1, <2>2 DEF InPlace
<1>11. Running'
  BY <1>1, <1>3, <1>4, <1>10 DEF Running
<1> QED BY <1>1, <1>3, <1>9, <1>11, WholeFrom
=============================================================================

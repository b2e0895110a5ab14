---------------------- MODULE CommitLogSurvivalProofs -----------------------
(***************************************************************************)
(* What is there again after the log was opened: every live record where no*)
(* file operation fails; a list without a hole, and no refusal, where the  *)
(* end of the log and its watermark only move up too; every synced record  *)
(* through losses of power where nothing is truncated.                     *)
(***************************************************************************)
EXTENDS CommitLogStepProofs

\* Leaves are first-order unless they cite SMT, which those with arithmetic do.
USE Zenon

\* A segment that is deleted holds nothing that is live.
LEMMA DeleteWhole ==
  ASSUME Sound, Sound', Whole, Delete
  PROVE  Whole'
<1>0. PICK x : x = NextOut
  OBVIOUS
<1>1. /\ op.do \in {"cut", "drop"} /\ op.todo # {} /\ state = "up"
      /\ files' = files \ {x} /\ torn' = torn \ {x} /\ left' = left \cup ({x} \cap list)
      /\ end' = Of(files' \cup list, end)
      /\ op' = IF op.do = "drop" /\ op.todo = {x} THEN Idle ELSE [op EXCEPT !.todo = @ \ {x}]
      /\ UNCHANGED << garbled, state, list, live >>
  BY <1>0 DEF Delete, ghosts
<1>2. x \in op.todo /\ torn = {} /\ Nested /\ garbled = {}
  BY <1>0, <1>1, NextOutIsDue DEF Sound, Whole, Running
<1>3. \A b \in files' \cup list : end'[b] = end[b] /\ b \in Nat
  BY <1>1, Numbers DEF Of, Sound, TypeOK
<1>4. Nested'
  <2> SUFFICES ASSUME NEW b \in files', NEW c \in files', b < c
               PROVE  end'[b] <= c \/ end'[c] = end'[b]
    BY DEF Nested
  <2>1. b \in files /\ c \in files /\ end'[b] = end[b] /\ end'[c] = end[c]
    BY <1>1, <1>3, ZenonT(30)
  <2> QED BY <1>2, <2>1 DEF Nested
<1>5. CASE op.do = "cut"
  <2>1. InCut
    BY <1>1, <1>5 DEF Whole, Running
  <2>2. /\ op'.do = "cut" /\ op'.seg = op.seg /\ op'.at = op.at /\ op'.rewrite = op.rewrite
        /\ op'.todo = op.todo \ {x}
    BY <1>1, <1>5 DEF Sound, TypeOK, Op
  <2>3. x \in list /\ x \in files /\ x \in Nat /\ op.seg \in Nat
        /\ (op.seg < x \/ (~op.rewrite /\ x = op.seg))
    BY <1>2, <2>1, Numbers DEF InCut, Sound
  <2>4. files' = list' \ left' /\ \A b \in left' : op'.seg <= b
    BY <1>1, <2>1, <2>2, <2>3, SMT DEF InCut
  <2>5. op'.todo = { b \in files' : op'.seg < b \/ (~op'.rewrite /\ b = op'.seg) }
    BY <1>1, <2>1, <2>2 DEF InCut
  <2>6. InCut'
    <3>1. ASSUME NEW o \in live, NEW b \in list, Holds(b, o) PROVE Holds(b, o)'
      BY <1>3, <3>1 DEF Holds
    <3>2. \A o \in live : /\ o < op'.at
                          /\ \E b \in list :
                                Holds(b, o)' /\ (b < op'.seg \/ (op'.rewrite /\ b = op'.seg))
      BY <2>1, <2>2, <3>1 DEF InCut
    <3> QED BY <1>1, <2>4, <2>5, <3>2 DEF InCut
  <2>7. Running'
    BY <1>1, <1>2, <2>2, <2>6 DEF Running
  <2> QED BY <1>1, <1>2, <1>4, <2>7, WholeFrom
<1>6. CASE op.do = "drop"
  <2>1. InPlace /\ left = {} /\ files = list \cup op.todo
    BY <1>1, <1>6 DEF Whole, Running, InPlace, Extra
  <2>2. x \notin list
    <3>1. \A b \in list : x < b /\ b \in Nat
      BY <1>2, <1>6, Numbers DEF Sound, TrimShape
    <3> QED BY <1>2, <3>1, Numbers, SMT DEF Sound
  <2>3. op'.do \in {"none", "drop"} /\ Extra' = op.todo \ {x}
    <3>1. CASE op.todo = {x}
      BY <1>1, <1>6, <3>1, IdleIsOp DEF Extra
    <3>2. CASE op.todo # {x}
      BY <1>1, <1>6, <3>2 DEF Extra, Sound, TypeOK, Op
    <3> QED BY <3>1, <3>2
  <2>4. left' = {} /\ files' = list' \cup Extra'
    BY <1>1, <2>1, <2>2, <2>3
  <2>5. TailClear'
    BY <1>1, <1>3, <2>1, ZenonT(30) DEF InPlace, TailClear, activeSegment
  <2>6. \A o \in live' : \E b \in list' : Holds(b, o)'
    BY <1>1, <1>3, <2>1 DEF InPlace, Holds
  <2>7. InPlace'
    BY <2>3, <2>4, <2>5, <2>6 DEF InPlace
  <2>8. Running'
    BY <1>1, <1>2, <2>3, <2>7 DEF Running
  <2> QED BY <1>1, <1>2, <1>4, <2>8, WholeFrom
<1> QED BY <1>1, <1>5, <1>6

\* A log that stops leaves its files behind.
LEMMA StopWhole ==
  ASSUME Sound, Sound', Whole,
         Close \/ \E n \in 0 .. setting.batch - 1, cut \in BOOLEAN : Kill(n, cut)
  PROVE  Whole'
<1>1. state = "up" /\ state' = "down" /\ UNCHANGED << files, garbled, live >>
  BY DEF Close, Kill, Down, ghosts
<1>2. CASE UNCHANGED end
  BY <1>1, <1>2 DEF Whole, Nested, LiveHeld, Holds
<1>3. ASSUME NEW n \in 0 .. setting.batch - 1, NEW cut \in BOOLEAN, Kill(n, cut), n > 0
      PROVE  Whole'
  <2>0. PICK a : a = activeSegment
    OBVIOUS
  <2>1. end' = [end EXCEPT ![a] = @ + n] /\ op.do \notin {"cut", "cutLog"}
    BY <1>3, <2>0, SMT DEF Kill, Writable
  <2>2. a \in Base /\ end[a] \in Nat /\ n \in Nat
    BY <1>1, <2>0, Active, Numbers, SMT DEF Sound
  <2>3. end[a] + n \in Nat /\ end[a] <= end[a] + n
    BY <2>2, SMT
  <2>4. TailClear /\ Nested
    BY <1>1, <2>1 DEF Whole, Running, InPlace
  <2>5. Nested'
    BY <1>1, <2>0, <2>1, <2>3, <2>4, GrowthNested, ZenonT(30)
  <2>6. \A b \in files : end[b] <= end'[b] /\ end[b] \in Nat /\ end'[b] \in Nat
    BY <2>1, <2>2, <2>3, Numbers, SMT DEF Sound, TypeOK
  <2>7. LiveHeld'
    <3> SUFFICES ASSUME NEW o \in live' PROVE \E b \in files' : Holds(b, o)'
      BY DEF LiveHeld
    <3>1. PICK b \in files : Holds(b, o)
      BY <1>1 DEF Whole, LiveHeld
    <3>2. Holds(b, o)'
      BY <1>1, <2>6, <3>1, Numbers, SMT DEF Holds, Sound
    <3> QED BY <1>1, <3>2
  <2> QED BY <1>1, <2>5, <2>7 DEF Whole
<1>4. ASSUME NEW n \in 0 .. setting.batch - 1, NEW cut \in BOOLEAN, Kill(n, cut)
      PROVE  n > 0 \/ UNCHANGED end
  <2>1. n \in Nat
    BY SettingBounds, LogAssumption, SMT DEF Sound, TypeOK
  <2> QED BY <1>4, <2>1, SMT DEF Kill
<1> QED BY <1>2, <1>3, <1>4 DEF Close

-----------------------------------------------------------------------------
(* Opening.                                                                *)

\* Of two segments that overlap one contains the other.
LEMMA NestedOpens == TypeOK /\ Nested => ~Overlapping
<1> SUFFICES ASSUME TypeOK, Nested, NEW b \in files, b < Reach(b), end[b] > Reach(b)
             PROVE  FALSE
  BY DEF Overlapping
<1>1. b \in Base /\ b \in Nat /\ end[b] \in Nat /\ Reach(b) \in Nat
  BY Numbers, ReachIs, BasesAreNumbers
<1>2. PICK c \in files : c < b /\ end[c] = Reach(b)
  BY <1>1, ReachIs, SMT
<1>3. end[c] <= b \/ end[b] = end[c]
  BY <1>2 DEF Nested
<1> QED BY <1>1, <1>2, <1>3, SMT

\* What a file that is dropped holds is in one that is kept.
LEMMA KeptHolds ==
  ASSUME TypeOK, Nested, NEW o \in live, LiveHeld
  PROVE  \E b \in resolveSegmentOverlaps : Holds(b, o)
<1> DEFINE S == { b \in files : Holds(b, o) }
<1>1. S # {} /\ S \in SUBSET Base
  BY DEF LiveHeld, TypeOK
<1>2. PICK b : b = Min(S)
  OBVIOUS
<1>3. b \in S /\ \A c \in S : b <= c
  BY <1>1, <1>2, BaseMin
<1>4. b \in files /\ Holds(b, o) /\ b \in Base /\ b \in Nat /\ end[b] \in Nat /\ o \in Nat
      /\ Reach(b) \in Nat
  BY <1>3, Numbers, ReachIs, BasesAreNumbers
<1>5. b >= Reach(b)
  <2> SUFFICES ASSUME b < Reach(b) PROVE FALSE
    BY <1>4, SMT
  <2>1. PICK c \in files : c < b /\ end[c] = Reach(b)
    BY <1>4, ReachIs, SMT
  <2>2. end[c] <= b \/ end[b] = end[c]
    BY <1>4, <2>1 DEF Nested
  <2>3. c \in Nat /\ end[c] \in Nat
    BY Numbers
  <2>4. Holds(c, o)
    BY <1>4, <2>1, <2>2, <2>3, SMT DEF Holds
  <2>5. b <= c
    BY <1>3, <2>4
  <2> QED BY <1>4, <2>1, <2>3, <2>5, SMT
<1> QED BY <1>4, <1>5 DEF resolveSegmentOverlaps

\* The log is opened, or refused for another reason than an overlap.
LEMMA OpenWhole ==
  ASSUME Sound, Sound', Whole, open \/ openEmpty \/ OpenRefused
  PROVE  Whole'
<1>1. state = "down" /\ op.do = "none" /\ left = {}
  BY IdleIsOp DEF open, openEmpty, OpenRefused, Sound, Listed, TypeOK
<1>2. CASE OpenRefused
  <2>1. ~Overlapping
    BY NestedOpens DEF Whole, Sound
  <2>2. UNCHANGED << files, end, garbled, live >> /\ state' = "torn"
    BY <1>2, <2>1 DEF OpenRefused, disk, ghosts
  <2> QED BY <2>2 DEF Whole, Nested, LiveHeld, Holds
<1>3. CASE open
  <2>0. PICK S : S = resolveSegmentOverlaps
    OBVIOUS
  <2>1. /\ state' = "up" /\ list' = S /\ files' = S /\ end' = Of(S, end) /\ torn' = {}
        /\ UNCHANGED << garbled, left, op, live >>
    BY <1>3, <2>0 DEF open, ghosts
  <2>2. S \in SUBSET files /\ S \in SUBSET Base
    BY <2>0 DEF resolveSegmentOverlaps, Sound, TypeOK
  <2>3. \A b \in S : end'[b] = end[b]
    BY <2>1, <2>2 DEF Of
  <2>4. \A o \in live : \E b \in S : Holds(b, o)
    BY <2>0, KeptHolds DEF Whole, Sound
  <2>5. \A o \in live' : \E b \in list' : Holds(b, o)'
    BY <2>1, <2>3, <2>4 DEF Holds
  <2>6. TailClear' /\ Nested'
    BY <2>1, ListedFrom
  <2>7. InPlace' /\ op'.do = "none"
    BY <1>1, <2>1, <2>5, <2>6 DEF InPlace, Extra
  <2>8. Running' /\ garbled' = {}
    BY <2>1, <2>7 DEF Running, Whole
  <2> QED BY <2>1, <2>6, <2>8, WholeFrom
<1>4. CASE openEmpty
  <2>1. /\ state' = "up" /\ list' = {0} /\ files' = {0} /\ files = {}
        /\ UNCHANGED << garbled, torn, left, op, live >>
    BY <1>4 DEF openEmpty, ghosts
  <2>2. live = {} /\ torn = {}
    BY <2>1 DEF Whole, LiveHeld, Sound, TypeOK
  <2>3. TailClear' /\ Nested'
    BY <2>1, ListedFrom
  <2>4. InPlace' /\ op'.do = "none"
    BY <1>1, <2>1, <2>2, <2>3 DEF InPlace, Extra
  <2>5. Running' /\ garbled' = {}
    BY <2>1, <2>2, <2>4 DEF Running, Whole
  <2> QED BY <2>1, <2>3, <2>5, WholeFrom
<1> QED BY <1>2, <1>3, <1>4

\* Every step of a log without faults keeps it whole.
LEMMA WholeNext ==
  ASSUME Sound, Sound', Backed, Whole, Calm, Next
  PROVE  Whole'
<1>0. Step
  BY DEF Next
<1>1. ~AppendFails /\ ~DeleteFails /\ \A kept, ahead, cut : ~PowerLoss(kept, ahead, cut)
  BY DEF Calm, AppendFails, DeleteFails, PowerLoss
<1>2. CASE \/ (\E h \in Offset : SetHighWatermark(h))
           \/ (\E h \in -1 .. MaxOffset - 1 : OverrideHighWatermark(h))
           \/ RecoverTail \/ checkpointHWTick \/ Sync \/ SyncAll
  <2>1. UNCHANGED << files, end, torn, garbled, state, list, left, op, live >>
    BY <1>2 DEF SetHighWatermark, OverrideHighWatermark, RecoverTail, checkpointHWTick, Sync,
       SyncAll, disk, ghosts
  <2> QED BY <2>1, WholeKept
<1>3. CASE \/ split \/ ReplaceLog \/ TruncatePublish \/ FinalizeLog \/ TruncateBeforePublish
           \/ Delete \/ Close \/ OpenRefused \/ open \/ openEmpty
           \/ \E n \in 0 .. setting.batch - 1, cut \in BOOLEAN : Kill(n, cut)
  BY <1>3, SplitWhole, ReplaceLogWhole, TruncatePublishWhole, FinalizeLogWhole,
     TruncateBeforePublishWhole, DeleteWhole, StopWhole, OpenWhole
<1>4. CASE \/ (\E n \in 1 .. setting.batch : Append(n))
           \/ (\E o \in 0 .. setting.offsets - 1 : Truncate(o))
           \/ (\E m \in 0 .. setting.offsets - 1 : TruncateBefore(m))
  BY <1>4, AppendWhole, TruncateWhole, TruncateBeforeWhole
<1> QED BY <1>0, <1>1, <1>2, <1>3, <1>4 DEF Step

\* A log without faults is whole.
LiveInv == MarkInv /\ (Calm => Whole)

\* Every step keeps it so.
LEMMA LiveNext == LiveInv /\ [Next]_vars => LiveInv'
<1> SUFFICES ASSUME LiveInv, [Next]_vars PROVE LiveInv'
  OBVIOUS
<1>1. MarkInv' /\ Sound' /\ Sound /\ Backed
  BY MarkNext DEF LiveInv, MarkInv
<1>2. setting' = setting
  BY DEF Next, vars
<1>3. CASE Next
  BY <1>1, <1>2, <1>3, WholeNext DEF LiveInv, Calm
<1>4. CASE UNCHANGED vars
  <2>1. Whole => Whole'
    BY <1>4, WholeKept DEF vars
  <2> QED BY <1>1, <1>2, <2>1 DEF LiveInv, Calm
<1> QED BY <1>3, <1>4

\* Every reachable log without faults is whole.
LEMMA LiveInvariance == Spec => []LiveInv
<1>1. Init => LiveInv
  BY MarkInit, WholeInit DEF LiveInv
<1> QED BY <1>1, LiveNext, PTL DEF Spec

\* A listed segment that holds a live record is the only one that does.
LEMMA SoleHolder ==
  ASSUME Sound, NEW o \in live, NEW b \in list, Holds(b, o), current(b)
  PROVE  Cardinality(Holders(o)) = 1
<1>1. ASSUME NEW c \in Holders(o) PROVE c = b
  <2>1. c \in list /\ c <= o /\ o < end[c]
    BY DEF Holders
  <2>2. b \in Nat /\ c \in Nat /\ o \in Nat /\ end[b] \in Nat /\ end[c] \in Nat
    BY <2>1, Numbers DEF Sound
  <2>3. (b < c => end[b] <= c) /\ (c < b => end[c] <= b)
    BY <2>1 DEF Sound, Listed
  <2> QED BY <2>1, <2>2, <2>3, SMT DEF Holds
<1>2. Holders(o) = {b}
  BY <1>1 DEF Holders, Holds
<1> QED BY <1>2, Singleton

\* A running log that is whole has exactly one segment for each live record.
LEMMA OneHolder ==
  ASSUME Sound, state = "up", Running, NEW o \in live
  PROVE  Cardinality(Holders(o)) = 1
<1>1. CASE op.do \notin {"cut", "cutLog"}
  <2>1. PICK b \in list : Holds(b, o) /\ current(b)
    BY <1>1 DEF Running, InPlace, current
  <2> QED BY <2>1, SoleHolder
<1>2. CASE op.do \in {"cut", "cutLog"}
  <2>1. PICK b \in list : Holds(b, o) /\ (b < op.seg \/ (op.rewrite /\ b = op.seg))
    BY <1>2 DEF Running, InCut
  <2>2. b \in Nat /\ op.seg \in Nat
    BY Numbers DEF Sound
  <2>3. b \notin left
    BY <1>2, <2>1, <2>2, SMT DEF Running, InCut, Sound, CutShape
  <2>4. current(b)
    BY <1>2, <2>1, <2>3 DEF Running, InCut, current
  <2> QED BY <2>1, <2>4, SoleHolder
<1> QED BY <1>1, <1>2

\* Every offset an append returned and no truncation was asked to remove is in
\* exactly one segment, and its frame is where the index says, through rolls,
\* both truncations, kills between their steps and reopens.
THEOREM LiveAlwaysSurvives == Spec => []LiveSurvives
<1>1. LiveInv => LiveSurvives
  BY OneHolder DEF LiveInv, MarkInv, Calm, Whole, LiveSurvives
<1> QED BY <1>1, LiveInvariance, PTL

-----------------------------------------------------------------------------
(* Holes.                                                                  *)

\* Each segment but the last ends where another one begins.
Chained(S) == \A b, c \in S : b < c => end[b] \in S /\ b < end[b]

\* A log that only moves forward and meets no fault has no hole in its files nor
\* in its list, and a partial frame at most in its last file.
Seamless ==
    /\ Chained(files)
    /\ state = "up" => Chained(list)
    /\ \A b \in torn, f \in files : f <= b
    /\ state # "torn"

\* A running log outside Truncate: its active segment is its last file.
LEMMA ActiveIsLast ==
  ASSUME Sound, state = "up", InPlace
  PROVE  /\ activeSegment \in list /\ activeSegment \in files /\ list \subseteq files
         /\ \A f \in files : f <= activeSegment /\ f \in Nat /\ f \in Base /\ end[f] \in Nat
         /\ \A f \in list : f <= activeSegment /\ f \in Nat /\ f \in Base /\ end[f] \in Nat
         /\ activeSegment \in Nat
<1>1. activeSegment \in list /\ list \subseteq files
  BY Active DEF Sound, InPlace
<1>2. \A f \in files : f <= activeSegment
  BY DEF InPlace, TailClear
<1> QED BY <1>1, <1>2, Numbers DEF Sound

\* A roll begins where the last segment ends.
LEMMA SplitSeamless ==
  ASSUME Sound, Sound', Whole, Seamless, split
  PROVE  Seamless'
<1>0. PICK a, b : a = activeSegment /\ b = end[a]
  OBVIOUS
<1>1. /\ files' = files \cup {b} /\ list' = list \cup {b} /\ end' = [end EXCEPT ![b] = b]
      /\ UNCHANGED << torn, state >> /\ state = "up" /\ a < b /\ op.do \notin {"cut", "cutLog"}
  BY <1>0 DEF split, Splits, Writable
<1>2. InPlace /\ torn = {}
  BY <1>1 DEF Whole, Running
<1>3. /\ a \in list /\ a \in files /\ list \subseteq files
      /\ \A f \in files : f <= a /\ f \in Nat /\ f \in Base /\ end[f] \in Nat
  BY <1>0, <1>1, <1>2, ActiveIsLast
<1>4. b \in Nat /\ \A f \in files : f < b /\ end'[f] = end[f]
  BY <1>0, <1>1, <1>3, SMT DEF Sound, TypeOK
<1>5. Chained(files) /\ Chained(list)
  BY <1>1 DEF Seamless
<1>6. ASSUME NEW S, S \subseteq files, a \in S, Chained(S), NEW f \in S \cup {b},
             NEW c \in S \cup {b}, f < c
      PROVE  end'[f] \in S \cup {b} /\ f < end'[f]
  <2>1. f \in S /\ f # b
    BY <1>3, <1>4, <1>6, SMT
  <2>2. CASE f = a
    BY <1>0, <1>1, <1>4, <2>1, <2>2, <1>6
  <2>3. CASE f # a
    <3>1. f < a
      BY <1>3, <1>6, <2>1, <2>3, SMT
    <3> QED BY <1>4, <1>6, <2>1, <3>1 DEF Chained
  <2> QED BY <2>2, <2>3
<1>7. Chained(files)' /\ Chained(list)'
  BY <1>1, <1>3, <1>5, <1>6, SMT DEF Chained
<1> QED BY <1>1, <1>2, <1>7 DEF Seamless

\* Only the last segment grows.
LEMMA GrowthSeamless ==
  ASSUME Sound, Whole, Seamless, state = "up", op.do \notin {"cut", "cutLog"}, files' = files,
         state' = "up" => list' = list, state' # "torn",
         \A f \in Base : f # activeSegment => end'[f] = end[f],
         torn' \subseteq {activeSegment}
  PROVE  Seamless'
<1>0. PICK a : a = activeSegment
  OBVIOUS
<1>1. InPlace
  BY DEF Whole, Running
<1>2. /\ a \in list /\ list \subseteq files
      /\ \A f \in files : f <= a /\ f \in Nat /\ f \in Base /\ end[f] \in Nat
  BY <1>0, <1>1, ActiveIsLast
<1>3. \A b, c \in files : b < c => end'[b] = end[b]
  BY <1>0, <1>2, SMT
<1>4. Chained(files)'
  BY <1>3 DEF Chained, Seamless
<1>5. state' = "up" => Chained(list)'
  BY <1>2, <1>3 DEF Chained, Seamless
<1>6. \A b \in torn', f \in files' : f <= b
  BY <1>0, <1>2
<1> QED BY <1>4, <1>5, <1>6 DEF Seamless

\* The trimmed log ends where its segment did.
LEMMA FinalizeLogSeamless ==
  ASSUME Sound, Sound', Whole, Seamless, FinalizeLog
  PROVE  Seamless'
<1>0. PICK s, m : s = op.seg /\ m = op.at
  OBVIOUS
<1>1. /\ op.do = "trim" /\ op.rewrite /\ state = "up" /\ files' = files \cup {m}
      /\ end' = [end EXCEPT ![m] = end[s]]
      /\ UNCHANGED << torn, state, list >>
  BY <1>0 DEF FinalizeLog, ghosts
<1>2. InPlace /\ torn = {} /\ files = list
  BY <1>1, ZenonT(30) DEF Whole, Running, InPlace, Extra
<1>3. /\ s \in list /\ m \in Base /\ m \notin list /\ s < m /\ m < end[s]
      /\ \E c \in list : s < c
  BY <1>0, <1>1, TrimPlace
<1>4. Chained(list)
  BY <1>1 DEF Seamless
<1>5. end[s] \in list
  BY <1>3, <1>4 DEF Chained
<1>6. end'[m] = end[s] /\ \A f \in list : end'[f] = end[f]
  BY <1>1, <1>3, Numbers DEF Sound
<1>7. Chained(list)'
  BY <1>1, <1>4, <1>6, SMT DEF Chained
<1>8. Chained(files)'
  <2> SUFFICES ASSUME NEW b \in files', NEW c \in files', b < c
               PROVE  end'[b] \in files' /\ b < end'[b]
    BY DEF Chained
  <2>1. CASE b = m
    BY <1>1, <1>2, <1>3, <1>5, <1>6, <2>1, SMT
  <2>2. CASE b \in list /\ c \in list
    BY <1>1, <1>2, <1>4, <1>6, <2>2, SMT DEF Chained
  <2>3. CASE b \in list /\ c = m
    <3>1. b < end[s] /\ end[s] \in list
      <4>1. b \in Nat /\ m \in Nat /\ end[s] \in Nat
        BY <1>3, <2>3, Numbers DEF Sound
      <4> QED BY <1>3, <1>5, <2>3, <4>1, SMT
    <3> QED BY <1>1, <1>2, <1>4, <1>6, <2>3, <3>1, SMT DEF Chained
  <2> QED BY <1>1, <1>2, <2>1, <2>2, <2>3
<1> QED BY <1>1, <1>2, <1>7, <1>8 DEF Seamless

\* The list begins at the trim and goes on as it did.
LEMMA TruncateBeforePublishSeamless ==
  ASSUME Sound, Sound', Whole, Seamless, TruncateBeforePublish
  PROVE  Seamless'
<1>1. /\ op.do \in {"trim", "trimLog"} /\ state = "up" /\ UNCHANGED << files, end, torn, state >>
  BY DEF TruncateBeforePublish, ghosts
<1>2. /\ IF op.rewrite
           THEN /\ list' = { b \in list : b > op.seg } \cup {op.at}
                /\ end[op.at] = end[op.seg]
           ELSE list' = { b \in list : b > op.seg } \cup {op.seg} /\ op.seg \in list
      /\ op.rewrite => op.seg < op.at /\ op.at < end[op.seg] /\ op.seg \in list
                       /\ \E c \in list : op.seg < c
  BY <1>1, TrimList, TrimPlace
<1>3. Chained(list)
  BY <1>1 DEF Seamless
<1>4. op.seg \in Nat /\ op.at \in Nat /\ end[op.seg] \in Nat
      /\ \A b \in list : b \in Nat /\ end[b] \in Nat
  BY Numbers DEF Sound
<1>5. Chained(list')
  <2> SUFFICES ASSUME NEW b \in list', NEW c \in list', b < c
               PROVE  end[b] \in list' /\ b < end[b]
    BY DEF Chained
  <2>1. CASE op.rewrite
    <3>1. end[op.seg] \in list
      BY <1>2, <1>3, <2>1 DEF Chained
    <3>2. end[op.seg] \in list'
      BY <1>2, <1>4, <2>1, <3>1, SMT
    <3>3. CASE b = op.at
      BY <1>2, <2>1, <3>2, <3>3
    <3>4. CASE b \in list /\ b > op.seg /\ c \in list
      <4>1. end[b] \in list /\ b < end[b]
        BY <1>3, <3>4 DEF Chained
      <4> QED BY <1>2, <1>4, <2>1, <3>4, <4>1, SMT
    <3>5. CASE b \in list /\ b > op.seg /\ c = op.at
      <4>1. end[op.seg] <= b
        BY <1>2, <2>1, <3>5 DEF Sound, Listed
      <4> QED BY <1>2, <1>4, <2>1, <3>5, <4>1, SMT
    <3> QED BY <1>2, <2>1, <3>3, <3>4, <3>5
  <2>2. CASE ~op.rewrite
    <3>1. b \in list /\ c \in list /\ op.seg <= b
      BY <1>2, <1>4, <2>2, SMT
    <3>2. end[b] \in list /\ b < end[b]
      BY <1>3, <3>1 DEF Chained
    <3> QED BY <1>2, <1>4, <2>2, <3>1, <3>2, SMT
  <2> QED BY <2>1, <2>2
<1>6. Chained(files)' /\ Chained(list)'
  BY <1>1, <1>5 DEF Chained, Seamless
<1> QED BY <1>1, <1>6 DEF Seamless

\* TruncateBefore deletes from the lowest file up.
LEMMA DeleteSeamless ==
  ASSUME Sound, Sound', Whole, Seamless, Delete, op.do = "drop"
  PROVE  Seamless'
<1>0. PICK x : x = NextOut
  OBVIOUS
<1>1. /\ op.todo # {} /\ state = "up" /\ files' = files \ {x} /\ torn' = torn \ {x}
      /\ end' = Of(files' \cup list, end) /\ UNCHANGED << state, list >>
  BY <1>0 DEF Delete, ghosts
<1>2. /\ x \in op.todo /\ x \in Nat /\ op.seg \in Nat
      /\ \A t \in op.todo : t < x => t = op.seg
      /\ x <= op.seg /\ \A b \in list : x < b
      /\ files = list \cup op.todo /\ torn = {}
  <2>1. x \in op.todo /\ \A t \in op.todo : t < x => t = op.seg
    BY <1>0, <1>1, NextOutIsDue DEF Sound
  <2>2. files = list \cup op.todo /\ torn = {}
    BY <1>1 DEF Whole, Running, InPlace, Extra
  <2>3. x <= op.seg /\ \A b \in list : x < b
    BY <2>1 DEF Sound, TrimShape
  <2> QED BY <2>1, <2>2, <2>3, Numbers DEF Sound
<1>3. \A b \in files' \cup list : end'[b] = end[b] /\ b \in Nat
  BY <1>1, Numbers DEF Of, Sound
<1>4. Chained(files) /\ Chained(list)
  BY <1>1 DEF Seamless
<1>5. Chained(list)'
  BY <1>1, <1>3, <1>4, ZenonT(30) DEF Chained
<1>6. Chained(files)'
  <2> SUFFICES ASSUME NEW b \in files', NEW c \in files', b < c
               PROVE  end'[b] \in files' /\ b < end'[b]
    BY DEF Chained
  <2>1. end[b] \in files /\ b < end[b] /\ end'[b] = end[b] /\ b \in Nat
    BY <1>1, <1>3, <1>4, ZenonT(30) DEF Chained
  <2>2. end[b] # x
    BY <1>1, <1>2, <2>1, SMT
  <2> QED BY <1>1, <2>1, <2>2
<1> QED BY <1>1, <1>2, <1>5, <1>6 DEF Seamless

\* What open() keeps of a directory without a hole has none.
LEMMA KeptChained ==
  ASSUME TypeOK, Nested, Chained(files)
  PROVE  Chained(resolveSegmentOverlaps)
<1> SUFFICES ASSUME NEW b \in resolveSegmentOverlaps, NEW d \in resolveSegmentOverlaps, b < d
             PROVE  end[b] \in resolveSegmentOverlaps /\ b < end[b]
  BY DEF Chained
<1>0. PICK n : n = end[b]
  OBVIOUS
<1>1. b \in files /\ d \in files
  BY DEF resolveSegmentOverlaps
<1>2. n \in files /\ b < n /\ n \in Nat /\ n \in Base /\ b \in Nat /\ Reach(n) \in Nat
  BY <1>0, <1>1, Numbers, ReachIs, BasesAreNumbers DEF Chained
<1>3. n >= Reach(n)
  <2> SUFFICES ASSUME n < Reach(n) PROVE FALSE
    BY <1>2, SMT
  <2>1. PICK c \in files : c < n /\ end[c] = Reach(n)
    BY <1>2, ReachIs, SMT
  <2>2. c \in Nat /\ end[c] \in Nat
    BY Numbers
  <2>3. (b < c => end[b] <= c \/ end[c] = end[b]) /\ (c < b => end[c] <= b \/ end[b] = end[c])
    BY <1>1, <2>1 DEF Nested
  <2> QED BY <1>0, <1>2, <2>1, <2>2, <2>3, SMT
<1> QED BY <1>0, <1>2, <1>3 DEF resolveSegmentOverlaps

\* Opening finds no partial frame it has to refuse.
LEMMA OpenSeamless ==
  ASSUME Sound, Sound', Whole, Seamless, NEW m, Ahead(m), open \/ openEmpty \/ OpenRefused
  PROVE  Seamless'
<1>1. /\ m \in files /\ m \in Base /\ (\A f \in files : f <= m /\ (f < m => end[f] <= m))
      /\ ckpt < stable[m] /\ files \in SUBSET Int /\ files # {}
  BY BasesAreNumbers, SMT DEF Ahead, LastFile, Sound, TypeOK
<1>2. /\ m \in Nat /\ end[m] \in Nat /\ stable[m] \in Nat /\ stable[m] <= end[m] /\ ckpt \in Int
  BY <1>1, Numbers, BasesAreNumbers, SMT DEF Sound, TypeOK
<1>3. Max(files) = m /\ Max(resolveSegmentOverlaps) = m
  BY <1>1, MaxIs, LastIsKept DEF Sound
<1>4. torn \subseteq {m}
  <2> SUFFICES ASSUME NEW b \in torn PROVE b = m
    OBVIOUS
  <2>1. b \in files /\ b <= m /\ m <= b
    BY <1>1 DEF Sound, TypeOK, Seamless
  <2> QED BY <1>1, <2>1, SMT
<1>5. ~SealedRefused
  BY <1>3, <1>4, ZenonT(30) DEF SealedRefused, RefusesTorn, TornAtReconcile
<1>6. ~RefusesTorn(Max(resolveSegmentOverlaps), ckpt)
  <2>1. ~(end[m] - 1 < ckpt)
    BY <1>1, <1>2, SMT
  <2> QED BY <1>3, <2>1 DEF RefusesTorn
<1>7. ~Overlapping
  BY NestedOpens DEF Whole, Sound
<1>8. CASE open
  <2>0. PICK S : S = resolveSegmentOverlaps
    OBVIOUS
  <2>1. state' = "up" /\ list' = S /\ files' = S /\ end' = Of(S, end) /\ torn' = {}
    BY <1>8, <2>0 DEF open
  <2>2. S \in SUBSET Base /\ Chained(S)
    BY <2>0, KeptChained DEF resolveSegmentOverlaps, Sound, TypeOK, Whole, Seamless
  <2>3. \A b \in S : end'[b] = end[b]
    BY <2>1, <2>2 DEF Of
  <2>4. Chained(files)' /\ Chained(list)'
    BY <2>1, <2>2, <2>3 DEF Chained
  <2> QED BY <2>1, <2>4 DEF Seamless
<1> QED BY <1>1, <1>5, <1>6, <1>7, <1>8 DEF OpenRefused, openEmpty

\* Every step of a log that only moves forward and meets no fault keeps it
\* without a hole.
LEMMA SeamlessNext ==
  ASSUME Sound, Sound', Whole, ForwardInv, Seamless, Advancing, Next
  PROVE  Seamless'
<1>0. Step
  BY DEF Next
<1>1. Calm /\ Forward
  BY DEF Advancing, Calm, Forward
<1>2. PICK m : Ahead(m)
  BY <1>1 DEF ForwardInv, Ahead
<1>3. op.do \notin {"cut", "cutLog"}
  BY <1>2 DEF Ahead
<1>4. ~AppendFails /\ ~DeleteFails /\ \A kept, ahead, cut : ~PowerLoss(kept, ahead, cut)
  BY <1>1 DEF Calm, AppendFails, DeleteFails, PowerLoss
<1>5. ~ReplaceLog /\ ~TruncatePublish /\ \A o : ~Truncate(o)
  BY <1>1, <1>3 DEF ReplaceLog, TruncatePublish, Truncate, Forward
<1>6. CASE \/ (\E h \in Offset : SetHighWatermark(h))
           \/ (\E h \in -1 .. MaxOffset - 1 : OverrideHighWatermark(h))
           \/ RecoverTail \/ checkpointHWTick \/ Sync \/ SyncAll
           \/ (\E o \in 0 .. setting.offsets - 1 : TruncateBefore(o))
  <2>1. UNCHANGED << files, end, torn, state, list >>
    BY <1>6, ZenonT(30) DEF SetHighWatermark, OverrideHighWatermark, RecoverTail, checkpointHWTick,
       Sync, SyncAll, TruncateBefore, disk
  <2> QED BY <2>1 DEF Seamless, Chained
<1>7. CASE \/ (\E n \in 1 .. setting.batch : Append(n)) \/ Close
           \/ \E n \in 0 .. setting.batch - 1, cut \in BOOLEAN : Kill(n, cut)
  <2>0. state = "up"
    BY <1>7, ZenonT(30) DEF Append, Writable, Close, Kill
  <2>1. state = "up" /\ torn = {} /\ activeSegment \in Base
    BY <2>0, Active DEF Whole, Running, Sound
  <2>2. /\ files' = files /\ (state' = "up" => list' = list) /\ state' # "torn"
        /\ torn' \subseteq {activeSegment}
    BY <1>7, <2>1 DEF Append, Close, Kill, Down
  <2>3. \A f \in Base : f # activeSegment => end'[f] = end[f]
    BY <1>7, <2>1, Numbers DEF Append, Close, Kill, Sound
  <2> QED BY <1>3, <2>1, <2>2, <2>3, GrowthSeamless
<1>8. CASE Delete
  <2>1. op.do = "drop"
    BY <1>3, <1>8 DEF Delete
  <2> QED BY <1>8, <2>1, DeleteSeamless
<1>9. CASE split \/ FinalizeLog \/ TruncateBeforePublish
  BY <1>9, SplitSeamless, FinalizeLogSeamless, TruncateBeforePublishSeamless
<1>10. CASE open \/ openEmpty \/ OpenRefused
  BY <1>2, <1>10, OpenSeamless
<1> QED BY <1>0, <1>4, <1>5, <1>6, <1>7, <1>8, <1>9, <1>10 DEF Step

\* A log that only moves forward and meets no fault has no hole.
ForwardLive == LiveInv /\ (Advancing => Seamless)

\* Every reachable log does.
LEMMA ForwardLiveInvariance == Spec => []ForwardLive
<1>1. Init => ForwardLive
  <2> SUFFICES ASSUME Init PROVE ForwardLive
    OBVIOUS
  <2>1. files = {0} /\ list = {0} /\ torn = {} /\ state = "up"
    BY DEF Init
  <2>2. Seamless
    BY <2>1, SMT DEF Seamless, Chained
  <2> QED BY <2>2, MarkInit, WholeInit DEF ForwardLive, LiveInv
<1>2. ForwardLive /\ [Next]_vars => ForwardLive'
  <2> SUFFICES ASSUME ForwardLive, [Next]_vars PROVE ForwardLive'
    OBVIOUS
  <2>1. LiveInv' /\ Sound /\ Sound' /\ ForwardInv
    BY LiveNext DEF ForwardLive, LiveInv, MarkInv
  <2>2. setting' = setting
    BY DEF Next, vars
  <2>3. CASE Next
    <3>1. Advancing => Whole
      BY DEF ForwardLive, LiveInv, Advancing, Calm
    <3>2. Advancing => Seamless'
      BY <2>1, <2>3, <3>1, SeamlessNext DEF ForwardLive
    <3> QED BY <2>1, <2>2, <3>2 DEF ForwardLive, Advancing
  <2>4. CASE UNCHANGED vars
    <3>1. UNCHANGED << files, end, torn, state, list >>
      BY <2>4 DEF vars
    <3>2. Seamless => Seamless'
      BY <3>1 DEF Seamless, Chained
    <3> QED BY <2>1, <2>2, <3>2 DEF ForwardLive, Advancing
  <2> QED BY <2>3, <2>4
<1> QED BY <1>1, <1>2, PTL DEF Spec

\* A log that is only trimmed from its front has no gap, across kills between the
\* steps of a trim and the reopens after them.
THEOREM TrimsNeverLeaveAHole == Spec => []TrimsLeaveNoHole
<1>1. ForwardLive => TrimsLeaveNoHole
  <2> SUFFICES ASSUME ForwardLive, Advancing, state = "up", NEW b \in list, NEW c \in list, b < c
               PROVE  \E n \in list : n > b /\ n <= c /\ end[b] = n
    BY DEF TrimsLeaveNoHole, HoleFree
  <2>1. end[b] \in list /\ b < end[b]
    BY DEF ForwardLive, Seamless, Chained
  <2>2. end[b] <= c
    BY DEF ForwardLive, LiveInv, MarkInv, Sound, Listed
  <2> QED BY <2>1, <2>2
<1> QED BY <1>1, ForwardLiveInvariance, PTL

\* A killed log opens again: no path leaves segments that overlap without one
\* containing the other, and a log whose end and watermark only moved up has no
\* partial frame that open() takes for a committed record.
THEOREM KilledLogOpens == Spec => []OpensAfterKill
<1>1. ForwardLive => OpensAfterKill
  BY DEF ForwardLive, LiveInv, Calm, Whole, Seamless, OpensAfterKill
<1> QED BY <1>1, ForwardLiveInvariance, PTL

-----------------------------------------------------------------------------
(* Records a Sync has answered for.                                        *)

\* Nothing is truncated.
Untruncated == setting.calls \cap {"Truncate", "TruncateBefore"} = {}

\* Files do not overlap.
InOrder == \A b, c \in files : b < c => end[b] <= c

\* An fsync has covered every record a Sync has answered for.
Flushed == \A o \in synced : \E b \in files : b <= o /\ o < stable[b]

\* What a log that nothing truncates keeps through failed appends and losses of
\* power: a running log lists its files, and they hold what they should.
Durable ==
    /\ op = Idle /\ left = {} /\ (state = "up" => list = files)
    /\ InOrder /\ LiveHeld /\ Flushed

\* Steps that move neither the ends of the files nor what is live: the fsyncs they
\* make only add.
LEMMA StillDurable ==
  ASSUME Sound, Durable, UNCHANGED << files, end, live >>, op' = Idle, left' = {},
         state' = "up" => list' = files,
         \A b \in files : stable'[b] \in Nat /\ stable[b] <= stable'[b],
         synced' = synced \/ (synced' = live /\ \A b \in files : stable'[b] = end[b])
  PROVE  Durable'
<1>1. InOrder' /\ LiveHeld'
  BY DEF Durable, InOrder, LiveHeld, Holds
<1>2. Flushed'
  <2>1. CASE synced' = synced
    <3> SUFFICES ASSUME NEW o \in synced PROVE \E b \in files' : b <= o /\ o < stable'[b]
      BY <2>1 DEF Flushed
    <3>1. PICK b \in files : b <= o /\ o < stable[b]
      BY DEF Durable, Flushed
    <3>2. o \in Nat /\ stable[b] \in Nat /\ stable'[b] \in Nat /\ stable[b] <= stable'[b]
      BY Numbers DEF Sound, TypeOK
    <3> QED BY <3>1, <3>2, SMT
  <2>2. CASE synced' = live /\ \A b \in files : stable'[b] = end[b]
    BY <2>2 DEF Durable, LiveHeld, Holds, Flushed
  <2> QED BY <2>1, <2>2
<1> QED BY <1>1, <1>2 DEF Durable

\* An append, or the part of one a killed process had written.
LEMMA GrowthDurable ==
  ASSUME Sound, Durable, state = "up", NEW a, a = activeSegment, NEW n \in Nat,
         end' = [end EXCEPT ![a] = @ + n], UNCHANGED << files, stable, synced >>,
         op' = Idle, left' = {}, state' = "up" => list' = files,
         live' = live \/ live' = live \cup (end[a] .. end[a] + n - 1)
  PROVE  Durable'
<1>1. a \in files /\ \A b \in files : b <= a
  BY Active DEF Sound, Durable
<1>2. \A b \in files : b \in Base /\ b \in Nat /\ end[b] \in Nat /\ b <= end[b]
  BY Numbers DEF Sound
<1>3. end'[a] = end[a] + n /\ \A b \in files : b # a => end'[b] = end[b]
  BY <1>1, <1>2 DEF Sound, TypeOK
<1>4. InOrder'
  <2> SUFFICES ASSUME NEW b \in files, NEW c \in files, b < c PROVE end'[b] <= c
    BY DEF InOrder
  <2>1. b # a
    BY <1>1, <1>2, SMT
  <2> QED BY <1>3, <2>1 DEF Durable, InOrder
<1>5. LiveHeld'
  <2> SUFFICES ASSUME NEW o \in live' PROVE \E b \in files : b <= o /\ o < end'[b]
    BY DEF LiveHeld, Holds
  <2>1. CASE o \in live
    <3>1. PICK b \in files : b <= o /\ o < end[b]
      BY <2>1 DEF Durable, LiveHeld, Holds
    <3>2. o \in Nat
      BY <2>1, Numbers DEF Sound
    <3>3. o < end'[b]
      BY <1>1, <1>2, <1>3, <3>1, <3>2, SMT
    <3> QED BY <3>1, <3>3
  <2>2. CASE o \in end[a] .. end[a] + n - 1
    BY <1>1, <1>2, <1>3, <2>2, SMT
  <2> QED BY <2>1, <2>2
<1> QED BY <1>4, <1>5 DEF Durable, Flushed

\* A roll.
LEMMA SplitDurable ==
  ASSUME Sound, Sound', Durable, split
  PROVE  Durable'
<1>0. PICK b : b = end[activeSegment]
  OBVIOUS
<1>1. /\ files' = files \cup {b} /\ list' = list \cup {b} /\ end' = [end EXCEPT ![b] = b]
      /\ stable' = [stable EXCEPT ![b] = b] /\ activeSegment < b
      /\ UNCHANGED << state, left, op, live, synced >> /\ state = "up"
  BY <1>0 DEF split, Splits, Writable, ghosts
<1>2. files = list /\ \A c \in files : c \in Nat /\ c \in Base /\ c <= activeSegment
  BY <1>1, Active, Numbers DEF Sound, Durable
<1>3. activeSegment \in Nat /\ b \in Nat
  BY <1>0, <1>1, <1>2, Active, Numbers DEF Sound
<1>4. \A c \in files : end'[c] = end[c] /\ stable'[c] = stable[c]
  BY <1>1, <1>2, <1>3, Numbers, SMT DEF Sound
<1>5. InOrder'
  <2>1. files' = list'
    BY <1>1, <1>2
  <2> QED BY <2>1 DEF InOrder, Sound, Listed
<1>6. LiveHeld' /\ Flushed'
  BY <1>1, <1>4 DEF Durable, LiveHeld, Holds, Flushed
<1> QED BY <1>1, <1>2, <1>5, <1>6 DEF Durable

\* A loss of power leaves what an fsync covered.
LEMMA PowerLossDurable ==
  ASSUME Sound, Durable, NEW kept \in [files -> Base],
         \A b \in files : kept[b] \in stable[b] .. end[b],
         NEW ahead, NEW cut, PowerLoss(kept, ahead, cut)
  PROVE  Durable'
<1>1. /\ files' = files /\ stable' = stable /\ synced' = synced /\ op' = Idle /\ left' = {}
      /\ state' = "down"
      /\ live' = synced \cup { o \in live : \E b \in files : b <= o /\ o < kept[b] }
      /\ end' = [b \in Base |-> IF b \in files THEN kept[b] ELSE end[b]]
  BY DEF PowerLoss, Down
<1>2. \A b \in files : end'[b] = kept[b]
  BY <1>1 DEF Sound, TypeOK
<1>3. \A b \in files : b \in Nat /\ end[b] \in Nat /\ stable[b] \in Nat /\ kept[b] \in Nat
                       /\ stable[b] <= kept[b] /\ kept[b] <= end[b]
  BY Numbers, BasesAreNumbers, SMT DEF Sound
<1>4. InOrder'
  <2> SUFFICES ASSUME NEW b \in files, NEW c \in files, b < c PROVE kept[b] <= c
    BY <1>1, <1>2 DEF InOrder
  <2>1. end[b] <= c
    BY DEF Durable, InOrder
  <2> QED BY <1>3, <2>1, SMT
<1>5. LiveHeld'
  <2>0. files' = files
    BY <1>1
  <2> SUFFICES ASSUME NEW o \in live' PROVE \E b \in files : b <= o /\ o < kept[b]
    BY <1>2, <2>0, ZenonT(30) DEF LiveHeld, Holds
  <2>1. CASE o \in synced
    <3>1. PICK b \in files : b <= o /\ o < stable[b]
      BY <2>1 DEF Durable, Flushed
    <3>2. o \in Nat
      BY <2>1, Numbers DEF Sound
    <3>3. o < kept[b]
      BY <1>3, <3>1, <3>2, SMT
    <3> QED BY <3>1, <3>3
  <2> QED BY <1>1, <2>1
<1> QED BY <1>1, <1>4, <1>5 DEF Durable, Flushed

\* open() keeps every file.
LEMMA OpenDurable ==
  ASSUME Sound, Sound', Durable, open \/ openEmpty
  PROVE  Durable'
<1>1. CASE open
  <2>1. resolveSegmentOverlaps = files
    <3> SUFFICES ASSUME NEW b \in files PROVE b >= Reach(b)
      BY DEF resolveSegmentOverlaps
    <3>1. b \in Base /\ b \in Nat
      BY Numbers DEF Sound
    <3>2. CASE Reach(b) = 0
      BY <3>1, <3>2, SMT
    <3>3. CASE Reach(b) # 0
      <4>1. PICK c \in files : c < b /\ end[c] = Reach(b)
        BY <3>1, <3>3, ReachIs DEF Sound
      <4>2. end[c] <= b /\ end[c] \in Nat
        BY <4>1, Numbers DEF Durable, InOrder, Sound
      <4> QED BY <3>1, <4>1, <4>2
    <3> QED BY <3>2, <3>3
  <2>2. /\ state' = "up" /\ list' = files /\ files' = files /\ end' = Of(files, end)
        /\ stable' = Of(files, [b \in Base |-> IF b \in torn THEN end[b] ELSE stable[b]])
        /\ UNCHANGED << left, op, live, synced >>
    BY <1>1, <2>1, ZenonT(30) DEF open, ghosts
  <2>3. \A b \in files : b \in Base /\ end'[b] = end[b] /\ stable[b] \in Nat /\ end[b] \in Nat
                         /\ stable[b] <= end[b] /\ stable'[b] \in {stable[b], end[b]}
    BY <2>2, Numbers DEF Of, Sound
  <2>4. InOrder' /\ LiveHeld'
    BY <2>2, <2>3 DEF Durable, InOrder, LiveHeld, Holds
  <2>5. Flushed'
    <3> SUFFICES ASSUME NEW o \in synced PROVE \E b \in files : b <= o /\ o < stable'[b]
      BY <2>2 DEF Flushed
    <3>1. PICK b \in files : b <= o /\ o < stable[b]
      BY DEF Durable, Flushed
    <3>2. o \in Nat
      BY Numbers DEF Sound
    <3>3. o < stable'[b]
      BY <2>3, <3>1, <3>2, SMT
    <3> QED BY <3>1, <3>3
  <2> QED BY <2>2, <2>4, <2>5 DEF Durable
<1>2. CASE openEmpty
  <2>1. /\ state' = "up" /\ list' = {0} /\ files' = {0} /\ files = {}
        /\ UNCHANGED << left, op, live, synced >>
    BY <1>2 DEF openEmpty, ghosts
  <2>2. live = {} /\ synced = {}
    BY <2>1 DEF Durable, LiveHeld, Flushed
  <2> QED BY <2>1, <2>2, SMT DEF Durable, InOrder, LiveHeld, Flushed
<1> QED BY <1>1, <1>2

\* Every step of a log that nothing truncates keeps it durable.
LEMMA DurableNext ==
  ASSUME Sound, Sound', Durable, Untruncated, Next
  PROVE  Durable'
<1>0. Step /\ op.do = "none"
  BY IdleIsOp DEF Next, Durable
<1>1. /\ ~ReplaceLog /\ ~TruncatePublish /\ ~FinalizeLog /\ ~TruncateBeforePublish
      /\ ~Delete /\ ~DeleteFails /\ (\A o : ~Truncate(o)) /\ (\A o : ~TruncateBefore(o))
  BY <1>0 DEF ReplaceLog, TruncatePublish, FinalizeLog, TruncateBeforePublish, Delete, DeleteFails,
     Truncate, TruncateBefore, Untruncated
<1>2. \A b \in files : b \in Base /\ stable[b] \in Nat /\ end[b] \in Nat /\ stable[b] <= end[b]
  BY Numbers DEF Sound
<1>3. CASE \/ (\E h \in Offset : SetHighWatermark(h))
           \/ (\E h \in -1 .. MaxOffset - 1 : OverrideHighWatermark(h))
           \/ RecoverTail \/ AppendFails
  <2>1. UNCHANGED << files, end, stable, state, list, left, op, live, synced >>
    BY <1>3, ZenonT(30)
    DEF SetHighWatermark, OverrideHighWatermark, RecoverTail, AppendFails, disk, ghosts
  <2>2. op' = Idle /\ left' = {} /\ (state' = "up" => list' = files)
    BY <2>1 DEF Durable
  <2>3. \A b \in files : stable'[b] \in Nat /\ stable[b] <= stable'[b]
    BY <1>2, <2>1, SMT
  <2> QED BY <2>1, <2>2, <2>3, StillDurable
<1>4. CASE OpenRefused
  <2>1. UNCHANGED << files, end, stable, left, op, live, synced >> /\ state' # "up"
    BY <1>4 DEF OpenRefused, disk, ghosts
  <2>2. op' = Idle /\ left' = {} /\ (state' = "up" => list' = files)
    BY <2>1 DEF Durable
  <2>3. \A b \in files : stable'[b] \in Nat /\ stable[b] <= stable'[b]
    BY <1>2, <2>1, SMT
  <2> QED BY <2>1, <2>2, <2>3, StillDurable
<1>5. CASE checkpointHWTick \/ Close
  <2>1. UNCHANGED << files, end, live, synced >> /\ checkpointHW /\ state = "up"
        /\ op' = Idle /\ left' = {} /\ (state' = "up" => list' = files)
    BY <1>5 DEF checkpointHWTick, Close, Down, ghosts, Durable
  <2>2. activeSegment \in Base
    BY <2>1, Active DEF Sound
  <2>3. \A b \in files : stable'[b] = stable[b] \/ stable'[b] = end[b]
    BY <1>2, <2>1, <2>2, Numbers DEF checkpointHW, Sound
  <2>4. \A b \in files : stable'[b] \in Nat /\ stable[b] <= stable'[b]
    BY <1>2, <2>3, SMT
  <2> QED BY <2>1, <2>4, StillDurable
<1>6. CASE Sync \/ SyncAll
  <2>1. UNCHANGED << files, end, live >> /\ stable' = FlushedTo /\ synced' = live
        /\ op' = Idle /\ left' = {} /\ left = {} /\ list = files /\ (state' = "up" => list' = files)
    BY <1>6 DEF Sync, SyncAll, Durable
  <2>2. \A b \in files : stable'[b] = end[b]
    BY <1>2, <2>1 DEF FlushedTo, current
  <2>3. \A b \in files : stable'[b] \in Nat /\ stable[b] <= stable'[b]
    BY <1>2, <2>2
  <2> QED BY <2>1, <2>2, <2>3, StillDurable
<1>7. ASSUME NEW n \in 1 .. setting.batch, Append(n) PROVE Durable'
  <2>1. n \in Nat
    BY SettingBounds, SMT DEF Sound, TypeOK
  <2>2. /\ state = "up" /\ end' = [end EXCEPT ![activeSegment] = @ + n]
        /\ UNCHANGED << files, stable, synced >>
        /\ op' = Idle /\ left' = {} /\ (state' = "up" => list' = files)
        /\ live' = live \cup (end[activeSegment] .. end[activeSegment] + n - 1)
    BY <1>7 DEF Append, Writable, Durable
  <2> QED BY <2>1, <2>2, GrowthDurable, ZenonT(30)
<1>8. ASSUME NEW n \in 0 .. setting.batch - 1, NEW cut \in BOOLEAN, Kill(n, cut) PROVE Durable'
  <2>1. n \in Nat
    BY SettingBounds, SMT DEF Sound, TypeOK
  <2>2. /\ state = "up" /\ UNCHANGED << files, stable, synced, live >>
        /\ op' = Idle /\ left' = {} /\ (state' = "up" => list' = files)
        /\ end' = IF n = 0 THEN end ELSE [end EXCEPT ![activeSegment] = @ + n]
    BY <1>8 DEF Kill, Down, ghosts
  <2>3. CASE n = 0
    <3>1. \A b \in files : stable'[b] \in Nat /\ stable[b] <= stable'[b]
      BY <1>2, <2>2, SMT
    <3> QED BY <2>2, <2>3, <3>1, StillDurable
  <2>4. CASE n # 0
    BY <2>1, <2>2, <2>4, GrowthDurable, ZenonT(30)
  <2> QED BY <2>3, <2>4
<1>9. CASE \E kept \in [files -> Base] :
              /\ \A b \in files : kept[b] \in stable[b] .. end[b]
              /\ LET lost == { b \in files : kept[b] < end[b] }
                 IN  \E ahead, cut \in SUBSET lost : PowerLoss(kept, ahead, cut)
  BY <1>9, PowerLossDurable
<1>10. CASE split \/ open \/ openEmpty
  BY <1>10, SplitDurable, OpenDurable
<1> QED BY <1>0, <1>1, <1>3, <1>4, <1>5, <1>6, <1>7, <1>8, <1>9, <1>10 DEF Step

\* Only a Sync makes a record synced.
Promised == setting.calls \cap {"Sync", "SyncAll"} = {} => synced = {}

\* Where nothing is truncated, and where nothing fails, and where nothing is
\* synced: what the log keeps.
SyncedInv == LiveInv /\ Promised /\ (Untruncated => Durable)

\* Every step keeps it.
LEMMA SyncedNext == SyncedInv /\ [Next]_vars => SyncedInv'
<1> SUFFICES ASSUME SyncedInv, [Next]_vars PROVE SyncedInv'
  OBVIOUS
<1>1. LiveInv' /\ Sound /\ Sound'
  BY LiveNext DEF SyncedInv, LiveInv, MarkInv
<1>2. setting' = setting
  BY DEF Next, vars
<1>3. Promised'
  <2>1. synced' \subseteq synced \/ Sync \/ SyncAll
    BY ZenonT(30) DEF Next, Step, split, Append, AppendFails, SetHighWatermark,
       OverrideHighWatermark, RecoverTail, checkpointHWTick, Truncate, ReplaceLog, TruncatePublish,
       TruncateBefore, FinalizeLog, TruncateBeforePublish, Delete, DeleteFails, Close, Kill, PowerLoss,
       OpenRefused, open, openEmpty, ghosts, vars
  <2> QED BY <1>2, <2>1 DEF SyncedInv, Promised, Sync, SyncAll
<1>4. Untruncated => Durable'
  <2>1. CASE Next
    BY <1>1, <2>1, DurableNext DEF SyncedInv
  <2>2. CASE UNCHANGED vars
    BY <2>2 DEF SyncedInv, Durable, InOrder, LiveHeld, Holds, Flushed, vars
  <2> QED BY <2>1, <2>2
<1> QED BY <1>1, <1>2, <1>3, <1>4 DEF SyncedInv, Untruncated

\* Every reachable log has it.
LEMMA SyncedInvariance == Spec => []SyncedInv
<1>1. Init => SyncedInv
  <2> SUFFICES ASSUME Init PROVE Promised /\ Durable
    BY MarkInit, WholeInit DEF SyncedInv, LiveInv
  <2>1. files = {0} /\ list = {0} /\ live = {} /\ synced = {} /\ op = Idle /\ left = {}
    BY DEF Init
  <2> QED BY <2>1, SMT DEF Promised, Durable, InOrder, LiveHeld, Flushed
<1> QED BY <1>1, SyncedNext, PTL DEF Spec

\* The settings in which Sync's answer is final: no file operation fails and the
\* machine keeps its power, or nothing is truncated, or nothing is synced.
SyncIsFinal ==
    \/ setting.faults = {}
    \/ setting.calls \cap {"Truncate", "TruncateBefore"} = {}
    \/ setting.calls \cap {"Sync", "SyncAll"} = {}

\* Every record a returned Sync covered, and no truncation was asked to remove, is
\* in exactly one segment: through any failed writes and losses of power where
\* nothing is truncated, and through both truncations and kills between their steps
\* where nothing fails.
THEOREM SyncedAlwaysSurvives == Spec => [](SyncIsFinal => SyncedSurvives)
<1>1. SyncedInv => (SyncIsFinal => SyncedSurvives)
  <2> SUFFICES ASSUME SyncedInv, SyncIsFinal, state = "up", NEW o \in synced
               PROVE  Cardinality(Holders(o)) = 1
    BY DEF SyncedSurvives
  <2>1. Sound /\ o \in live
    BY DEF SyncedInv, LiveInv, MarkInv, Sound, TypeOK
  <2>2. CASE Calm
    BY <2>1, <2>2, OneHolder DEF SyncedInv, LiveInv, Whole
  <2>3. CASE Untruncated
    <3>1. PICK b \in list : Holds(b, o) /\ current(b)
      BY <2>1, <2>3 DEF SyncedInv, Durable, LiveHeld, current
    <3> QED BY <2>1, <3>1, SoleHolder
  <2> QED BY <2>2, <2>3 DEF SyncIsFinal, Calm, Untruncated, SyncedInv, Promised
<1> QED BY <1>1, SyncedInvariance, PTL
=============================================================================

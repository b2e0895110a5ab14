-------------------------- MODULE CommitLogProofs ---------------------------
(***************************************************************************)
(* The log is sound in every setting, whatever truncation, failing file    *)
(* operation, kill or power loss came in between: the listed segments are  *)
(* disjoint and in order, and the truncation in flight names segments of   *)
(* the list.  CommitLogStepProofs and CommitLogSurvivalProofs rest on this.*)
(***************************************************************************)
EXTENDS CommitLog, WellFoundedInduction, TLAPS

\* Leaves are first-order unless they cite SMT, which those with arithmetic do.
USE Zenon

-----------------------------------------------------------------------------
(* The greatest and the least of a set of offsets, and sets of one.        *)

\* A non-empty set of natural numbers has a least element.
LEMMA NatMin ==
  ASSUME NEW S \in SUBSET Nat, S # {}
  PROVE  \E x \in S : \A y \in S : x <= y
<1> DEFINE R == OpToRel(<, Nat)
<1>1. IsWellFoundedOn(R, Nat)
  BY NatLessThanWellFounded, ZenonT(30)
<1>2. ASSUME NEW x \in Nat, NEW y \in Nat, ~(<<y, x>> \in R)
      PROVE  x <= y
  <2>1. <<y, x>> \in Nat \X Nat /\ <<y, x>>[1] = y /\ <<y, x>>[2] = x
    OBVIOUS
  <2>2. ~(y < x)
    BY <1>2, <2>1 DEF OpToRel
  <2> QED BY <2>2, SMT
<1> HIDE DEF R
<1>3. PICK x \in S : \A y \in S : ~(<<y, x>> \in R)
  BY <1>1, WFMin, ZenonT(30)
<1> QED BY <1>2, <1>3, ZenonT(30)

\* A set of one element has one.
LEMMA Singleton ==
  ASSUME NEW b
  PROVE  Cardinality({b}) = 1
<1> DEFINE Unfold(f) == [T \in SUBSET {b} |-> IF T = {} THEN 0 ELSE 1 + f[T \ {CHOOSE x : x \in T}]]
           g == [T \in SUBSET {b} |-> IF T = {} THEN 0 ELSE 1]
<1>1. (CHOOSE x : x \in {b}) = b /\ SUBSET {b} = {{}, {b}} /\ {b} \ {b} = {}
  OBVIOUS
<1>2. g = Unfold(g)
  BY <1>1, SMT
<1>3. PICK f : f = CHOOSE h : h = Unfold(h)
  OBVIOUS
<1>4. f = Unfold(f)
  BY <1>2, <1>3, Zenon
<1>5. f[{}] = 0 /\ f[{b}] = 1 + f[{b} \ {CHOOSE x : x \in {b}}]
  BY <1>4
<1>6. Cardinality({b}) = f[{b}]
  BY <1>3 DEF Cardinality
<1> QED BY <1>1, <1>5, <1>6, SMT

\* Min(S) is the element of S that no other is below.
LEMMA MinIs ==
  ASSUME NEW S \in SUBSET Int, NEW x \in S, \A y \in S : x <= y
  PROVE  Min(S) = x
<1>1. Min(S) \in S /\ \A y \in S : Min(S) <= y
  BY ZenonT(30) DEF Min
<1>2. Min(S) \in Int /\ x \in Int
  BY <1>1, ZenonT(30)
<1>3. Min(S) <= x /\ x <= Min(S)
  BY <1>1, ZenonT(30)
<1> QED BY <1>2, <1>3, SMT

\* Max(S) is the element of S that no other is above.
LEMMA MaxIs ==
  ASSUME NEW S \in SUBSET Int, NEW x \in S, \A y \in S : y <= x
  PROVE  Max(S) = x
<1>1. Max(S) \in S /\ \A y \in S : y <= Max(S)
  BY ZenonT(30) DEF Max
<1>2. Max(S) \in Int /\ x \in Int
  BY <1>1, ZenonT(30)
<1>3. Max(S) <= x /\ x <= Max(S)
  BY <1>1, ZenonT(30)
<1> QED BY <1>2, <1>3, SMT

\* A non-empty set of bases has a least element, Min.
LEMMA BaseMin ==
  ASSUME NEW S \in SUBSET Base, S # {}
  PROVE  Min(S) \in S /\ \A y \in S : Min(S) <= y
<1>1. S \in SUBSET Nat /\ S \in SUBSET Int
  BY LogAssumption, SMT DEF Base
<1>2. PICK x \in S : \A y \in S : x <= y
  BY <1>1, NatMin
<1>3. Min(S) = x
  BY <1>1, <1>2, MinIs
<1> QED BY <1>2, <1>3

\* A non-empty set of bases has a greatest element, Max.
LEMMA BaseMax ==
  ASSUME NEW S \in SUBSET Base, S # {}
  PROVE  Max(S) \in S /\ \A y \in S : y <= Max(S)
<1> DEFINE T == { n \in Nat : MaxOffset - n \in S }
<1>1. S \in SUBSET Int /\ T \in SUBSET Nat /\ MaxOffset \in Nat
  BY LogAssumption, SMT DEF Base
<1>2. \A y \in S : y \in Int /\ MaxOffset - y \in T
  BY LogAssumption, SMT DEF Base
<1>3. T # {}
  BY <1>2
<1>4. PICK n \in T : \A k \in T : n <= k
  BY <1>1, <1>3, NatMin, ZenonT(30)
<1>5. MaxOffset - n \in S /\ n \in Nat
  BY <1>4
<1>6. \A y \in S : y <= MaxOffset - n
  BY <1>1, <1>2, <1>4, <1>5, SMT
<1>7. Max(S) = MaxOffset - n
  BY <1>1, <1>5, <1>6, MaxIs
<1> QED BY <1>5, <1>6, <1>7

\* The lesser of two numbers.
LEMMA PairMin ==
  ASSUME NEW a \in Int, NEW b \in Int
  PROVE  Min({a, b}) \in {a, b} /\ Min({a, b}) <= a /\ Min({a, b}) <= b
<1>1. CASE a <= b
  <2>1. Min({a, b}) = a
    BY <1>1, MinIs, SMT
  <2> QED BY <1>1, <2>1, SMT
<1>2. CASE b <= a
  <2>1. Min({a, b}) = b
    BY <1>2, MinIs, SMT
  <2> QED BY <1>2, <2>1, SMT
<1> QED BY <1>1, <1>2, SMT

\* The greater of two numbers.
LEMMA PairMax ==
  ASSUME NEW a \in Int, NEW b \in Int
  PROVE  Max({a, b}) \in {a, b} /\ a <= Max({a, b}) /\ b <= Max({a, b})
<1>1. CASE a <= b
  <2>1. Max({a, b}) = b
    BY <1>1, MaxIs, SMT
  <2> QED BY <1>1, <2>1, SMT
<1>2. CASE b <= a
  <2>1. Max({a, b}) = a
    BY <1>2, MaxIs, SMT
  <2> QED BY <1>2, <2>1, SMT
<1> QED BY <1>1, <1>2, SMT

-----------------------------------------------------------------------------
(* What every setting keeps.                                               *)

\* The listed segments are in order and disjoint, and those that were not
\* deleted have their file.
Listed ==
    /\ left \subseteq list /\ list \ left \subseteq files
    /\ state # "up" => op = Idle
    /\ \A b \in list : b <= end[b]
    /\ \A b, c \in list : b < c => end[b] <= c

\* Truncate cuts in a listed segment, and goes on to publish a list that is not
\* empty.
CutShape ==
    /\ op.do \in {"cut", "cutLog"} =>
          /\ op.seg \in list /\ op.todo \subseteq list
          /\ op.rewrite => op.seg \notin left /\ op.seg \notin op.todo
          /\ ~op.rewrite => op.seg = op.at /\ \E b \in list : b < op.seg
    /\ op.do = "cut" => op.at < end[op.seg]
    /\ op.do = "cutLog" => op.rewrite /\ op.todo = {}

\* TruncateBefore trims inside a sealed segment, and deletes below the list it
\* published.
TrimShape ==
    /\ op.do \in {"trim", "trimLog"} =>
          /\ op.seg \in list
          /\ op.rewrite => /\ op.seg < op.at /\ op.at < end[op.seg]
                           /\ op.seg \notin left
                           /\ \E c \in list : op.seg < c
          /\ \A t \in op.todo : t < op.seg \/ (op.rewrite /\ t = op.seg)
    /\ op.do = "trimLog" => op.rewrite /\ op.at \in files /\ end[op.at] = end[op.seg]
    /\ op.do = "drop" => /\ op.todo # {}
                         /\ \A t \in op.todo : t <= op.seg /\ \A b \in list : t < b

Sound == TypeOK /\ Listed /\ CutShape /\ TrimShape

\* The active segment of a running log.
LEMMA Active ==
  ASSUME TypeOK, state = "up"
  PROVE  /\ activeSegment \in list /\ activeSegment \in Base
         /\ \A b \in list : b <= activeSegment
BY BaseMax DEF TypeOK, activeSegment

\* Bases are numbers.
LEMMA BasesAreNumbers ==
  /\ \A b \in Base : b \in Nat /\ 0 <= b /\ b <= MaxOffset
  /\ MaxOffset \in Nat /\ MaxOffset >= 1
BY LogAssumption, SMT DEF Base

\* The setting bounds what is written.
LEMMA SettingBounds ==
  ASSUME setting \in Settings
  PROVE  setting.offsets \in 1 .. MaxOffset /\ setting.batch \in 1 .. MaxBatch
BY LogAssumption

\* An offset of the setting is a base.
LEMMA SettingOffset ==
  ASSUME TypeOK, NEW o \in 0 .. setting.offsets - 1
  PROVE  o \in Base /\ o \in Nat
<1>1. setting.offsets \in 1 .. MaxOffset
  BY SettingBounds DEF TypeOK
<1> QED BY <1>1, BasesAreNumbers, SMT DEF Base

\* No truncation is in flight.
LEMMA IdleIsOp == Idle \in Op /\ Idle.do = "none"
BY BasesAreNumbers, SMT DEF Idle, Op, Base

\* The log starts sound.
LEMMA SoundInit == Init => Sound
<1> SUFFICES ASSUME Init PROVE Sound
  OBVIOUS
<1>1. 0 \in Base
  BY BasesAreNumbers, SMT DEF Base
<1>2. TypeOK
  BY <1>1, BasesAreNumbers, LogAssumption, SMT DEF Init, TypeOK, Idle, Op, Base, Offset
<1>3. Listed
  BY <1>1, BasesAreNumbers DEF Init, Listed
<1>4. op.do = "none"
  BY DEF Init, Idle
<1>5. CutShape /\ TrimShape
  BY <1>4 DEF CutShape, TrimShape
<1> QED BY <1>2, <1>3, <1>5 DEF Sound

\* A roll adds an empty segment after the active one.
LEMMA SplitSound ==
  ASSUME Sound, split, UNCHANGED setting
  PROVE  Sound'
<1> DEFINE a == activeSegment
           b == end[activeSegment]
<1>1. a \in list /\ a \in Base /\ \A c \in list : c <= a
  BY Active DEF Sound, split, Writable
<1>2. b \in Base /\ a < b /\ list \subseteq Base /\ \A c \in list : c < b /\ end[c] <= b
  <2>1. b \in Base /\ list \subseteq Base /\ a < b /\ b \in Nat /\ end \in [Base -> Base]
    BY <1>1, BasesAreNumbers DEF Sound, TypeOK, split, Splits
  <2>2. \A c \in list : /\ c \in Nat /\ end[c] \in Nat /\ a \in Nat
                        /\ c = a \/ (c < a /\ end[c] <= a)
    BY <1>1, <2>1, BasesAreNumbers, SMT DEF Sound, Listed
  <2> HIDE DEF a
  <2>3. b = end[a]
    BY DEF a
  <2> HIDE DEF b
  <2> QED BY <1>1, <2>1, <2>2, <2>3, SMT
<1>3. /\ files' = files \cup {b} /\ list' = list \cup {b}
      /\ end' = [end EXCEPT ![b] = b] /\ idx' = [idx EXCEPT ![b] = b]
      /\ stable' = [stable EXCEPT ![b] = b]
      /\ UNCHANGED << setting, torn, garbled, ckpt, state, left, hw, op, failures, live, synced,
                      committed >>
      /\ state = "up"
  BY DEF split, ghosts, Writable
<1> HIDE DEF a, b
<1>4. TypeOK'
  BY <1>2, <1>3, BasesAreNumbers, SMT DEF Sound, TypeOK
<1>5. Listed'
  BY <1>2, <1>3, BasesAreNumbers, SMT DEF Sound, TypeOK, Listed
<1>6. op.do \notin {"cut", "cutLog"}
  BY DEF split, Writable
<1>7. CutShape'
  BY <1>3, <1>6 DEF CutShape
<1>8. TrimShape'
  <2>1. op.do = "trimLog" => op.at # b
    BY <1>2, BasesAreNumbers, SMT DEF Sound, TypeOK, Op, Listed, TrimShape
  <2> QED BY <1>2, <1>3, <2>1, BasesAreNumbers, SMT DEF Sound, TypeOK, TrimShape, Op
<1> QED BY <1>4, <1>5, <1>7, <1>8 DEF Sound

\* An append moves the end of the active segment up.
LEMMA AppendSound ==
  ASSUME Sound, NEW n \in 1 .. setting.batch, Append(n), UNCHANGED setting
  PROVE  Sound'
<1> DEFINE a == activeSegment
           e == end[a] + n
<1>1. a \in list /\ a \in Base /\ \A c \in list : c <= a
  BY Active DEF Sound, Append, Writable
<1>2. setting.offsets \in 1 .. MaxOffset /\ setting.batch \in 1 .. MaxBatch /\ n \in Nat
  BY SettingBounds, LogAssumption, SMT DEF Sound, TypeOK
<1>3. e \in Base /\ end[a] <= e /\ end[a] \in Nat
  <2>1. end[a] \in Nat
    BY <1>1, BasesAreNumbers DEF Sound, TypeOK
  <2>2. end[a] + n <= setting.offsets
    BY DEF Append
  <2> HIDE DEF a
  <2> QED BY <1>2, <2>1, <2>2, BasesAreNumbers, SMT DEF Base
<1>4. end[a] .. end[a] + n - 1 \subseteq Offset
  BY <1>2, <1>3, BasesAreNumbers, SMT DEF Offset, Append, Base
<1>5. /\ end' = [end EXCEPT ![a] = e] /\ idx' = [idx EXCEPT ![a] = e]
      /\ garbled' \subseteq garbled \cup (end[a] .. end[a] + n - 1)
      /\ live' = live \cup (end[a] .. end[a] + n - 1)
      /\ UNCHANGED << setting, files, stable, torn, ckpt, state, list, left, hw, op, failures,
                      synced, committed >>
      /\ op.do \notin {"cut", "cutLog"} /\ state = "up"
  BY <1>1 DEF Append, Writable, Sound, TypeOK
<1> HIDE DEF a, e
<1>6. TypeOK'
  BY <1>1, <1>3, <1>4, <1>5, BasesAreNumbers, SMT DEF Sound, TypeOK
<1>7. Listed'
  BY <1>1, <1>3, <1>5, BasesAreNumbers, SMT DEF Sound, TypeOK, Listed
<1>8. CutShape'
  BY <1>5 DEF CutShape
<1>9. TrimShape'
  <2>1. op.do \in {"trim", "trimLog"} /\ op.rewrite => op.seg # a /\ op.at # a
    BY <1>1, BasesAreNumbers, SMT DEF Sound, TypeOK, Op, Listed, TrimShape
  <2> QED BY <1>1, <1>3, <1>5, <2>1, BasesAreNumbers DEF Sound, TypeOK, TrimShape, Op
<1> QED BY <1>6, <1>7, <1>8, <1>9 DEF Sound

\* What the shape of the log depends on.
LEMMA SoundKept ==
  ASSUME Sound, TypeOK', UNCHANGED << files, end, state, list, left, op >>
  PROVE  Sound'
BY DEF Sound, Listed, CutShape, TrimShape

\* A failed append changes no segment.
LEMMA AppendFailsSound ==
  ASSUME Sound, AppendFails, UNCHANGED setting
  PROVE  Sound'
<1>1. activeSegment \in files
  BY DEF AppendFails, Writable, current
<1>2. failures \in 0 .. MaxFailures /\ MaxFailures \in Nat
  BY LogAssumption DEF Sound, TypeOK
<1>3. TypeOK'
  BY <1>1, <1>2, SMT DEF Sound, TypeOK, AppendFails, ghosts
<1> QED BY <1>3, SoundKept DEF AppendFails

\* The end of a running log is an offset, or -1 in an empty one.
LEMMA NewestIsOffset ==
  ASSUME TypeOK, state = "up"
  PROVE  NewestOffset \in -1 .. MaxOffset - 1
<1>1. end[activeSegment] \in Base
  BY Active DEF TypeOK
<1> QED BY <1>1, BasesAreNumbers, SMT DEF NewestOffset, Base

\* The watermark moves without the segments.
LEMMA WatermarkSound ==
  ASSUME Sound, UNCHANGED setting,
         \/ \E h \in Offset : SetHighWatermark(h)
         \/ \E h \in -1 .. MaxOffset - 1 : OverrideHighWatermark(h)
         \/ RecoverTail
  PROVE  Sound'
<1>1. CASE \E h \in Offset : SetHighWatermark(h)
  <2>1. TypeOK' /\ UNCHANGED << files, end, state, list, left, op >>
    BY <1>1, BasesAreNumbers, SMT DEF Sound, TypeOK, SetHighWatermark, disk, Offset
  <2> QED BY <2>1, SoundKept
<1>2. CASE \E h \in -1 .. MaxOffset - 1 : OverrideHighWatermark(h)
  <2>1. TypeOK' /\ UNCHANGED << files, end, state, list, left, op >>
    BY <1>2 DEF Sound, TypeOK, OverrideHighWatermark, disk
  <2> QED BY <2>1, SoundKept
<1>3. CASE RecoverTail
  <2>1. TypeOK' /\ UNCHANGED << files, end, state, list, left, op >>
    BY <1>3, NewestIsOffset DEF Sound, TypeOK, RecoverTail, disk
  <2> QED BY <2>1, SoundKept
<1> QED BY <1>1, <1>2, <1>3

\* An fsync covers whole frames.
LEMMA FlushSound ==
  ASSUME Sound, UNCHANGED setting, checkpointHWTick \/ Sync \/ SyncAll
  PROVE  Sound'
<1>1. state = "up"
  BY DEF checkpointHWTick, Sync, SyncAll
<1>2. activeSegment \in Base
  BY <1>1, Active DEF Sound
<1>3. stable' \in [Base -> Base] /\ \A b \in files : b <= stable'[b] /\ stable'[b] <= end[b]
  <2>1. CASE checkpointHWTick
    BY <1>2, <2>1, BasesAreNumbers, SMT DEF Sound, TypeOK, checkpointHWTick, checkpointHW
  <2>2. CASE Sync \/ SyncAll
    BY <1>2, <2>2, BasesAreNumbers, SMT DEF Sound, TypeOK, Sync, SyncAll, FlushedTo
  <2> QED BY <2>1, <2>2
<1>4. /\ UNCHANGED << setting, files, end, idx, torn, garbled, state, list, left, hw, op, failures,
                      live, committed >>
      /\ ckpt' \in {ckpt, hw} /\ synced' \subseteq live
  BY DEF Sound, TypeOK, checkpointHWTick, checkpointHW, Sync, SyncAll, ghosts
<1>5. TypeOK'
  BY <1>3, <1>4 DEF Sound, TypeOK
<1> QED BY <1>4, <1>5, SoundKept

\* The segment to delete next is one that is to be deleted.
LEMMA NextOutIsDue ==
  ASSUME TypeOK, op.todo # {}
  PROVE  /\ NextOut \in op.todo /\ NextOut \in Base
         /\ \A t \in op.todo : t < NextOut => t = op.seg
         /\ NextOut = op.seg => op.todo = {op.seg}
<1>1. op.todo \subseteq Base
  BY DEF TypeOK, Op
<1>2. CASE op.todo = {op.seg}
  BY <1>1, <1>2 DEF NextOut
<1>3. CASE op.todo # {op.seg}
  <2> DEFINE S == op.todo \ {op.seg}
  <2>1. S # {} /\ S \in SUBSET Base /\ NextOut = Min(S)
    BY <1>1, <1>3 DEF NextOut
  <2>2. Min(S) \in S /\ \A y \in S : Min(S) <= y
    BY <2>1, BaseMin
  <2> QED BY <1>1, <2>1, <2>2, BasesAreNumbers, SMT
<1> QED BY <1>2, <1>3

\* Deleting a segment leaves the others as they are.
LEMMA DeleteSound ==
  ASSUME Sound, Delete, UNCHANGED setting
  PROVE  Sound'
<1> DEFINE x == NextOut
<1>1. x \in op.todo /\ x \in Base /\ op.todo \subseteq Base
  BY NextOutIsDue DEF Sound, Delete, TypeOK, Op
<1>2. /\ files' = files \ {x} /\ torn' = torn \ {x} /\ left' = left \cup ({x} \cap list)
      /\ end' = Of(files' \cup list, end) /\ idx' = Of(files', idx) /\ stable' = Of(files', stable)
      /\ UNCHANGED << setting, garbled, ckpt, state, list, hw, failures, live, synced, committed >>
      /\ op.do \in {"cut", "drop"} /\ op.todo # {} /\ state = "up"
  BY DEF Delete, ghosts
<1>3. \/ op' = Idle
      \/ op' = [op EXCEPT !.todo = op.todo \ {x}] /\ (op.do = "drop" => op.todo # {x})
  BY DEF Delete
<1> HIDE DEF x
<1>4. op' \in Op
  <2>1. op.todo \ {x} \in SUBSET Base
    BY <1>1
  <2>2. op' = [op EXCEPT !.todo = op.todo \ {x}] => op' \in Op
    BY <2>1 DEF Sound, TypeOK, Op
  <2> QED BY <1>3, <2>2, IdleIsOp
<1>5. end' \in [Base -> Base] /\ idx' \in [Base -> Base] /\ stable' \in [Base -> Base]
  BY <1>2 DEF Of, Sound, TypeOK
<1>6. /\ \A b \in list : end'[b] = end[b]
      /\ \A b \in files' : end'[b] = end[b] /\ stable'[b] = stable[b]
  BY <1>2 DEF Of, Sound, TypeOK
<1>7. TypeOK'
  BY <1>1, <1>2, <1>4, <1>5, <1>6, ZenonT(30) DEF Sound, TypeOK
<1>8. Listed'
  BY <1>2, <1>6, ZenonT(30) DEF Sound, Listed
<1>9. op'.do # "cutLog" /\ op'.do \notin {"trim", "trimLog"}
  BY <1>2, <1>3, SMT DEF Idle, Sound, TypeOK, Op
<1>10. CASE op' = Idle
  <2>1. op'.do = "none"
    BY <1>10 DEF Idle
  <2> QED BY <1>7, <1>8, <2>1 DEF Sound, CutShape, TrimShape
<1>11. CASE op' = [op EXCEPT !.todo = op.todo \ {x}] /\ (op.do = "drop" => op.todo # {x})
  <2>1. /\ op'.do = op.do /\ op'.seg = op.seg /\ op'.at = op.at /\ op'.rewrite = op.rewrite
        /\ op'.todo = op.todo \ {x} /\ (op.do = "drop" => op'.todo # {})
    BY <1>1, <1>11 DEF Sound, TypeOK, Op
  <2>2. CutShape'
    BY <1>1, <1>2, <1>6, <1>9, <2>1, ZenonT(30) DEF Sound, CutShape
  <2>3. TrimShape'
    BY <1>1, <1>2, <1>6, <1>9, <2>1 DEF Sound, TrimShape
  <2> QED BY <1>7, <1>8, <2>2, <2>3 DEF Sound
<1> QED BY <1>3, <1>10, <1>11

\* A failed unlink ends the truncation where it is.
LEMMA DeleteFailsSound ==
  ASSUME Sound, DeleteFails, UNCHANGED setting
  PROVE  Sound'
<1>1. op' = Idle /\ op'.do = "none" /\ op' \in Op
  BY IdleIsOp DEF DeleteFails
<1>2. /\ left \subseteq left' /\ left' \subseteq left \cup list /\ failures' = failures + 1
      /\ UNCHANGED << setting, files, end, idx, stable, torn, garbled, ckpt, state, list, hw,
                      live, synced, committed >>
      /\ failures < MaxFailures /\ state = "up"
  BY DEF DeleteFails, disk, ghosts
<1>3. failures' \in 0 .. MaxFailures
  BY <1>2, LogAssumption, SMT DEF Sound, TypeOK
<1>4. TypeOK'
  BY <1>1, <1>2, <1>3 DEF Sound, TypeOK
<1>5. Listed'
  BY <1>2 DEF Sound, Listed
<1>6. CutShape' /\ TrimShape'
  BY <1>1 DEF CutShape, TrimShape
<1> QED BY <1>4, <1>5, <1>6 DEF Sound

\* The segment Truncate cuts in.
LEMMA CutSegment ==
  ASSUME TypeOK, NEW o, Reaching(o) # {}
  PROVE  /\ Min(Reaching(o)) \in list /\ Min(Reaching(o)) \notin left
         /\ end[Min(Reaching(o))] > o
         /\ \A b \in Reaching(o) : Min(Reaching(o)) <= b
<1>1. Reaching(o) \in SUBSET Base
  BY DEF Reaching, TypeOK
<1>2. Min(Reaching(o)) \in Reaching(o) /\ \A b \in Reaching(o) : Min(Reaching(o)) <= b
  BY <1>1, BaseMin
<1> QED BY <1>2 DEF Reaching

\* Truncate begins: nothing is cut yet.
LEMMA TruncateSound ==
  ASSUME Sound, NEW o \in 0 .. setting.offsets - 1, Truncate(o), UNCHANGED setting
  PROVE  Sound'
<1> DEFINE seg == Min(Reaching(o))
           rewrite == seg # o \/ seg = Min(list)
           todo == { b \in list : b > seg } \cup (IF rewrite THEN {} ELSE {seg})
<1>1. seg \in list /\ seg \in Base /\ seg \notin left /\ o < end[seg]
  <2>1. Reaching(o) # {}
    BY DEF Truncate
  <2> QED BY <2>1, CutSegment, BasesAreNumbers DEF Sound, TypeOK
<1>2. o \in Base
  BY SettingOffset DEF Sound
<1>3. /\ op' = [do |-> "cut", seg |-> seg, at |-> o, rewrite |-> rewrite, todo |-> todo]
      /\ live' = live \ From(o) /\ synced' = synced \ From(o) /\ state = "up"
      /\ UNCHANGED << setting, files, end, idx, stable, torn, garbled, ckpt, state, list, left,
                      hw, failures, committed >>
  BY DEF Truncate, disk
<1> HIDE DEF seg
<1>4. todo \subseteq list /\ (rewrite => seg \notin todo)
  BY <1>1, BasesAreNumbers, SMT
<1>5. ~rewrite => seg = o /\ \E b \in list : b < seg
  <2>1. Min(list) \in list /\ Min(list) <= seg
    BY <1>1, BaseMin DEF Sound, TypeOK
  <2>2. Min(list) \in Nat /\ seg \in Nat
    BY <1>1, <2>1, BasesAreNumbers DEF Sound, TypeOK
  <2>3. ~rewrite => Min(list) < seg
    BY <2>1, <2>2, SMT
  <2> QED BY <2>1, <2>3
<1> HIDE DEF todo, rewrite
<1>6. rewrite \in BOOLEAN
  BY DEF rewrite
<1>7. op' \in Op
  BY <1>1, <1>2, <1>3, <1>4, <1>6 DEF Op, Sound, TypeOK
<1>8. TypeOK'
  BY <1>3, <1>7 DEF Sound, TypeOK
<1>9. Listed'
  BY <1>3 DEF Sound, Listed
<1>10. /\ op'.do = "cut" /\ op'.seg = seg /\ op'.at = o /\ op'.rewrite = rewrite
       /\ op'.todo = todo
  BY <1>3
<1>11. CutShape' /\ TrimShape'
  BY <1>1, <1>3, <1>4, <1>5, <1>10 DEF CutShape, TrimShape
<1> QED BY <1>8, <1>9, <1>11 DEF Sound

\* Where the rewrite of a cut ends.
LEMMA CutEndIs ==
  ASSUME Sound, op.do = "cut"
  PROVE  /\ CutEnd \in Base /\ op.seg <= CutEnd /\ op.at <= CutEnd /\ CutEnd <= end[op.seg]
         /\ CutEnd \in {op.at, op.seg}
<1>1. op.at \in Base /\ op.seg \in Base /\ op.seg \in list /\ op.at < end[op.seg]
  BY DEF Sound, TypeOK, Op, CutShape
<1>2. op.seg <= end[op.seg]
  BY <1>1 DEF Sound, Listed
<1>3. op.at \in Int /\ op.seg \in Int /\ end[op.seg] \in Int
  BY <1>1, BasesAreNumbers, SMT DEF Sound, TypeOK
<1>4. CutEnd \in {op.at, op.seg} /\ op.at <= CutEnd /\ op.seg <= CutEnd
  BY <1>3, PairMax, ZenonT(30) DEF CutEnd
<1> QED BY <1>1, <1>2, <1>3, <1>4, SMT

\* The rewritten log is shorter.
LEMMA ReplaceLogSound ==
  ASSUME Sound, ReplaceLog, UNCHANGED setting
  PROVE  Sound'
<1> DEFINE s == op.seg
           e == CutEnd
<1>1. /\ op.do = "cut" /\ op.rewrite /\ op.todo = {} /\ state = "up"
      /\ end' = [end EXCEPT ![s] = e] /\ stable' = [stable EXCEPT ![s] = s]
      /\ torn' = torn \ {s} /\ op' = [op EXCEPT !.do = "cutLog"]
      /\ UNCHANGED << setting, files, idx, garbled, ckpt, state, list, left, hw, failures, live,
                      synced, committed >>
  BY DEF ReplaceLog, ghosts
<1>2. e \in Base /\ s <= e /\ e <= end[s]
  BY <1>1, CutEndIs
<1>3. s \in Base /\ s \in list /\ s \notin left
  BY <1>1 DEF Sound, TypeOK, Op, CutShape
<1>4. /\ op' \in Op /\ op'.do = "cutLog" /\ op'.seg = s /\ op'.rewrite /\ op'.todo = {}
  BY <1>1 DEF Sound, TypeOK, Op
<1> HIDE DEF s, e
<1>5. TypeOK'
  BY <1>1, <1>2, <1>3, <1>4, BasesAreNumbers, SMT DEF Sound, TypeOK
<1>6. Listed'
  BY <1>1, <1>2, <1>3, BasesAreNumbers, SMT DEF Sound, TypeOK, Listed
<1>7. CutShape' /\ TrimShape'
  BY <1>1, <1>3, <1>4 DEF CutShape, TrimShape
<1> QED BY <1>5, <1>6, <1>7 DEF Sound

\* The list Truncate publishes is not empty.
LEMMA CutList ==
  ASSUME Sound, TruncatePublish
  PROVE  /\ list' \in SUBSET list /\ list' # {} /\ Max(list') \in list'
         /\ end[Max(list')] \in Base
         /\ op.rewrite => op.seg \in list' /\ op.seg \notin left
         /\ \A b \in list' : b <= op.seg
<1>1. /\ list' = { b \in list : b < op.seg } \cup (IF op.rewrite THEN {op.seg} ELSE {})
      /\ op.do \in {"cut", "cutLog"}
  BY DEF TruncatePublish
<1>2. /\ op.seg \in list /\ (op.rewrite => op.seg \notin left)
      /\ ~op.rewrite => \E b \in list : b < op.seg
  BY <1>1 DEF Sound, CutShape
<1>3. list' \in SUBSET list /\ list' # {} /\ list \subseteq Base /\ end \in [Base -> Base]
  BY <1>1, <1>2 DEF Sound, TypeOK
<1>4. Max(list') \in list'
  BY <1>3, BaseMax
<1>5. \A b \in list' : b <= op.seg
  BY <1>1, <1>2, <1>3, BasesAreNumbers, SMT
<1> QED BY <1>1, <1>2, <1>3, <1>4, <1>5

\* The watermark comes down to the end of the list.
LEMMA CutWatermarkIs ==
  ASSUME TypeOK, NEW S, end[Max(S)] \in Base
  PROVE  /\ CutWatermark(S) \in -1 .. MaxOffset - 1
         /\ CutWatermark(S) <= end[Max(S)] - 1 /\ CutWatermark(S) <= hw
<1>1. hw \in Int /\ hw >= -1 /\ hw <= MaxOffset - 1
  BY BasesAreNumbers, SMT DEF TypeOK
<1>2. end[Max(S)] - 1 \in Int /\ end[Max(S)] - 1 >= -1 /\ end[Max(S)] - 1 <= MaxOffset - 1
  BY BasesAreNumbers, SMT
<1> DEFINE e == end[Max(S)] - 1
           m == CutWatermark(S)
<1>3. e \in Int /\ m = Min({hw, e})
  BY <1>2 DEF CutWatermark
<1> HIDE DEF e, m
<1>4. m \in {hw, e} /\ m <= hw /\ m <= e
  BY <1>1, <1>3, PairMin
<1>5. e >= -1 /\ e <= MaxOffset - 1
  BY <1>2 DEF e
<1>6. m \in -1 .. MaxOffset - 1
  BY <1>1, <1>3, <1>4, <1>5, BasesAreNumbers, SMT
<1> QED BY <1>4, <1>6 DEF m, e

\* The cut is published.
LEMMA TruncatePublishSound ==
  ASSUME Sound, TruncatePublish, UNCHANGED setting
  PROVE  Sound'
<1>1. /\ list' \in SUBSET list /\ list' # {} /\ end[Max(list')] \in Base
      /\ op.rewrite => op.seg \in list' /\ op.seg \notin left
  BY CutList
<1>2. hw' \in -1 .. MaxOffset - 1
  <2>1. hw' = CutWatermark(list')
    BY DEF TruncatePublish
  <2> QED BY <1>1, <2>1, CutWatermarkIs DEF Sound
<1>3. /\ idx' \in {idx, [idx EXCEPT ![op.seg] = end[op.seg]]}
      /\ left' = left \cap (list' \ {op.seg}) /\ end' = Of(files \cup list', end)
      /\ committed' = hw' /\ op' = Idle /\ state = "up"
      /\ UNCHANGED << setting, files, stable, torn, garbled, ckpt, state, failures, live, synced >>
      /\ list' = { b \in list : b < op.seg } \cup (IF op.rewrite THEN {op.seg} ELSE {})
  BY DEF TruncatePublish
<1>4. op' \in Op /\ op'.do = "none"
  BY <1>3, IdleIsOp
<1>5. idx' \in [Base -> Base] /\ end' \in [Base -> Base]
  BY <1>3 DEF Sound, TypeOK, Of, Op
<1>6. \A b \in files \cup list' : end'[b] = end[b]
  BY <1>1, <1>3 DEF Sound, TypeOK, Of
<1>7. TypeOK'
  BY <1>1, <1>2, <1>3, <1>4, <1>5, <1>6 DEF Sound, TypeOK
<1>8. left' \subseteq list' /\ list' \ left' \subseteq files
  <2>1. op.seg \in list' => op.rewrite
    BY <1>3, BasesAreNumbers, SMT DEF Sound, TypeOK, Op
  <2> QED BY <1>1, <1>3, <2>1, ZenonT(30) DEF Sound, Listed
<1>9. Listed'
  BY <1>1, <1>3, <1>4, <1>6, <1>8 DEF Sound, Listed
<1>10. CutShape' /\ TrimShape'
  BY <1>4 DEF CutShape, TrimShape
<1> QED BY <1>7, <1>9, <1>10 DEF Sound

\* The boundary of TruncateBefore(m) is a listed segment; one that is to be
\* trimmed is sealed and holds m.
LEMMA Boundary ==
  ASSUME Sound, NEW m \in 0 .. setting.offsets - 1, TruncateBefore(m)
  PROVE  /\ op'.do = "trim" /\ op' \in Op /\ op'.seg \in list /\ op'.at = m
         /\ op'.todo = Outgoing(op'.seg, op'.rewrite)
         /\ op'.rewrite => /\ op'.seg < m /\ m < end[op'.seg] /\ current(op'.seg)
                           /\ op'.seg < activeSegment
         /\ \A b \in list : b < op'.seg => end[b] = b \/ end[b] <= m
<1> DEFINE sealed == list \ {activeSegment}
           keeping == { b \in sealed : end[b] > b /\ end[b] > m }
           boundary == IF keeping = {} THEN activeSegment ELSE Min(keeping)
           trim == keeping # {} /\ boundary < m
<1>1. /\ op' = [do |-> "trim", seg |-> boundary, at |-> m, rewrite |-> trim,
                todo |-> Outgoing(boundary, trim)]
      /\ (trim => current(boundary)) /\ state = "up" /\ op = Idle
  BY ZenonT(30) DEF TruncateBefore
<1>2. activeSegment \in list /\ activeSegment \in Base /\ \A b \in list : b <= activeSegment
  BY <1>1, Active DEF Sound
<1>3. m \in Base /\ m \in Nat
  BY SettingOffset DEF Sound
<1>4. keeping \in SUBSET Base /\ keeping \subseteq sealed /\ list \subseteq Base
      /\ \A b \in Base : end[b] \in Nat /\ b \in Nat
  BY BasesAreNumbers DEF Sound, TypeOK
<1>5. boundary \in list /\ (trim => boundary \in keeping)
  BY <1>2, <1>4, BaseMin
<1>6. \A b \in list : b < boundary => b \notin keeping /\ b # activeSegment
  <2> SUFFICES ASSUME NEW b \in list, b < boundary PROVE b \notin keeping /\ b # activeSegment
    OBVIOUS
  <2>1. CASE keeping = {}
    BY <1>2, <1>4, <2>1, SMT
  <2>2. CASE keeping # {}
    <3>1. boundary = Min(keeping) /\ boundary \in keeping /\ \A y \in keeping : boundary <= y
      BY <1>4, <2>2, BaseMin
    <3> HIDE DEF keeping, boundary
    <3>2. b \in Nat /\ boundary \in Nat /\ activeSegment \in Nat /\ boundary <= activeSegment
      BY <1>2, <1>4, <1>5, BasesAreNumbers
    <3> QED BY <3>1, <3>2, SMT
  <2> QED BY <2>1, <2>2
<1>7. \A b \in list : b < boundary => end[b] = b \/ end[b] <= m
  <2> SUFFICES ASSUME NEW b \in list, b < boundary PROVE end[b] = b \/ end[b] <= m
    OBVIOUS
  <2>1. ~(end[b] > b /\ end[b] > m)
    BY <1>6
  <2>2. b <= end[b] /\ b \in Nat /\ end[b] \in Nat
    BY <1>4 DEF Sound, Listed
  <2> QED BY <1>3, <2>1, <2>2, SMT
<1>8. trim => boundary < m /\ m < end[boundary] /\ boundary < activeSegment
  <2>1. trim => boundary \in list /\ boundary # activeSegment /\ end[boundary] > m /\ boundary < m
    BY <1>5
  <2>2. boundary \in Nat /\ activeSegment \in Nat /\ end[boundary] \in Nat
    BY <1>2, <1>4, <1>5
  <2> HIDE DEF boundary, trim
  <2> QED BY <1>2, <1>3, <2>1, <2>2, SMT
<1>9. Outgoing(boundary, trim) \subseteq list
  BY <1>5, ZenonT(30) DEF Outgoing
<1> HIDE DEF sealed, keeping, boundary
<1>10. trim \in BOOLEAN
  OBVIOUS
<1> HIDE DEF trim
<1>11. op' \in Op
  BY <1>1, <1>3, <1>4, <1>5, <1>9, <1>10, ZenonT(30) DEF Op
<1> QED BY <1>1, <1>5, <1>7, <1>8, <1>11

\* TruncateBefore begins: nothing is trimmed yet.
LEMMA TruncateBeforeSound ==
  ASSUME Sound, NEW m \in 0 .. setting.offsets - 1, TruncateBefore(m), UNCHANGED setting
  PROVE  Sound'
<1>1. /\ op'.do = "trim" /\ op' \in Op /\ op'.seg \in list /\ op'.at = m
      /\ op'.todo = Outgoing(op'.seg, op'.rewrite)
      /\ op'.rewrite => /\ op'.seg < m /\ m < end[op'.seg] /\ current(op'.seg)
                        /\ op'.seg < activeSegment
  BY Boundary
<1>2. /\ live' = live \ Below(m) /\ synced' = synced \ Below(m) /\ state = "up"
      /\ UNCHANGED << setting, files, end, idx, stable, torn, garbled, ckpt, state, list, left, hw,
                      failures, committed >>
  BY ZenonT(30) DEF TruncateBefore, disk
<1>3. activeSegment \in list
  BY <1>2, Active DEF Sound
<1>4. TypeOK'
  BY <1>1, <1>2 DEF Sound, TypeOK
<1>5. Listed'
  BY <1>2 DEF Sound, Listed
<1>6. \A t \in op'.todo : t < op'.seg \/ (op'.rewrite /\ t = op'.seg)
  BY <1>1 DEF Outgoing
<1>7. CutShape' /\ TrimShape'
  BY <1>1, <1>2, <1>3, <1>6 DEF CutShape, TrimShape, current
<1> QED BY <1>4, <1>5, <1>7 DEF Sound

\* Where a trim lies: inside its segment, before the next one.
LEMMA TrimPlace ==
  ASSUME Sound, op.do \in {"trim", "trimLog"}, op.rewrite
  PROVE  /\ op.seg \in list /\ op.seg \in files /\ op.at \in Base /\ op.at \notin list
         /\ op.seg < op.at /\ op.at < end[op.seg]
         /\ \A b \in list : b < op.seg => b <= end[b] /\ end[b] <= op.seg
         /\ \A c \in list : op.seg < c => end[op.seg] <= c
         /\ \E c \in list : op.seg < c
<1>1. /\ op.seg \in list /\ op.seg < op.at /\ op.at < end[op.seg] /\ op.seg \notin left
      /\ \E c \in list : op.seg < c
  BY DEF Sound, TrimShape
<1>2. op.at \in Base /\ op.seg \in Base /\ list \subseteq Base /\ end[op.seg] \in Base
  BY DEF Sound, TypeOK, Op
<1>3. /\ \A b \in list : b < op.seg => b <= end[b] /\ end[b] <= op.seg
      /\ \A c \in list : op.seg < c => end[op.seg] <= c
  BY <1>1 DEF Sound, Listed
<1>4. op.at \notin list
  BY <1>1, <1>2, <1>3, BasesAreNumbers, SMT
<1>5. op.seg \in files
  BY <1>1 DEF Sound, Listed
<1> QED BY <1>1, <1>2, <1>3, <1>4, <1>5

\* The trimmed log is beside the one it was made from.
LEMMA FinalizeLogSound ==
  ASSUME Sound, FinalizeLog, UNCHANGED setting
  PROVE  Sound'
<1> DEFINE s == op.seg
           m == op.at
<1>1. /\ op.do = "trim" /\ op.rewrite /\ state = "up"
      /\ files' = files \cup {m}
      /\ end' = [end EXCEPT ![m] = end[s]] /\ idx' = [idx EXCEPT ![m] = m]
      /\ stable' = [stable EXCEPT ![m] = m] /\ op' = [op EXCEPT !.do = "trimLog"]
      /\ UNCHANGED << setting, torn, garbled, ckpt, state, list, left, hw, failures, live, synced,
                      committed >>
  BY DEF FinalizeLog, ghosts
<1>2. m \in Base /\ m \notin list /\ s < m /\ m < end[s] /\ s \in list /\ end[s] \in Base
  BY <1>1, TrimPlace DEF Sound, TypeOK
<1>3. /\ op' \in Op /\ op'.do = "trimLog" /\ op'.seg = s /\ op'.at = m /\ op'.rewrite
      /\ op'.todo = op.todo
  BY <1>1 DEF Sound, TypeOK, Op
<1>4. /\ op.seg \notin left /\ (\E c \in list : op.seg < c)
      /\ \A t \in op.todo : t < op.seg \/ t = op.seg
  BY <1>1 DEF Sound, TrimShape
<1>5. m \in Nat /\ s \in Nat /\ end[s] \in Nat
  BY <1>2, BasesAreNumbers DEF Sound, TypeOK
<1> HIDE DEF m
<1>6. /\ end'[m] = end[s] /\ stable'[m] = m /\ end' \in [Base -> Base]
      /\ idx' \in [Base -> Base] /\ stable' \in [Base -> Base]
      /\ \A b \in Base \ {m} : end'[b] = end[b] /\ stable'[b] = stable[b]
  BY <1>1, <1>2 DEF Sound, TypeOK
<1>7. \A b \in files' : b <= end'[b] /\ b <= stable'[b] /\ stable'[b] <= end'[b]
  BY <1>1, <1>2, <1>5, <1>6, SMT DEF Sound, TypeOK
<1>8. TypeOK'
  BY <1>1, <1>2, <1>3, <1>6, <1>7, SMT DEF Sound, TypeOK
<1>9. \A b \in list : end'[b] = end[b]
  BY <1>2, <1>6 DEF Sound, TypeOK
<1>10. Listed'
  BY <1>1, <1>9 DEF Sound, Listed
<1>11. CutShape' /\ TrimShape'
  BY <1>1, <1>2, <1>3, <1>4, <1>6, <1>9, SMT DEF CutShape, TrimShape
<1> QED BY <1>8, <1>10, <1>11 DEF Sound

\* What TruncateBefore leaves in the list.
LEMMA TrimList ==
  ASSUME Sound, TruncateBeforePublish
  PROVE  /\ list' # {} /\ list' \in SUBSET Base
         /\ \A t \in op.todo, b \in list' : t < b
         /\ Max(list') = Max(list)
         /\ IF op.rewrite
              THEN /\ list' = { b \in list : b > op.seg } \cup {op.at} /\ op.at \in files
                   /\ end[op.at] = end[op.seg] /\ op.do = "trimLog"
              ELSE list' = { b \in list : b > op.seg } \cup {op.seg} /\ op.seg \in list
<1>1. /\ op.do \in {"trim", "trimLog"} /\ list' = Survivors /\ (op.rewrite => op.do = "trimLog")
      /\ state = "up"
  BY DEF TruncateBeforePublish, Sound, TrimShape
<1>2. /\ op.seg \in list /\ op.seg \in Base /\ op.at \in Base /\ list \subseteq Base
      /\ op.todo \subseteq Base
      /\ \A t \in op.todo : t < op.seg \/ (op.rewrite /\ t = op.seg)
  BY <1>1 DEF Sound, TypeOK, Op, TrimShape
<1> DEFINE x == Max(list)
<1>3. x \in list /\ (\A b \in list : b <= x) /\ \A b \in list : b \in Nat
  BY <1>2, BaseMax, BasesAreNumbers
<1> HIDE DEF x
<1>4. CASE op.rewrite
  <2>1. /\ op.seg < op.at /\ op.at < end[op.seg] /\ op.at \in files /\ end[op.at] = end[op.seg]
        /\ \E c \in list : op.seg < c
        /\ \A c \in list : op.seg < c => end[op.seg] <= c
    BY <1>1, <1>4, TrimPlace DEF Sound, TrimShape
  <2>2. list' = { b \in list : b > op.seg } \cup {op.at}
    BY <1>1, <1>4 DEF Survivors
  <2>3. end[op.seg] \in Nat /\ op.at \in Nat /\ op.seg \in Nat
    BY <1>2, BasesAreNumbers DEF Sound, TypeOK
  <2>4. op.seg < x /\ op.at < x
    <3>1. PICK c \in list : op.seg < c /\ end[op.seg] <= c
      BY <2>1
    <3>2. c \in Nat /\ c <= x /\ x \in Nat
      BY <1>3
    <3> QED BY <2>1, <2>3, <3>1, <3>2, SMT
  <2>5. x \in list' /\ (\A b \in list' : b <= x) /\ list' \in SUBSET Base
    BY <1>2, <1>3, <2>2, <2>3, <2>4, SMT
  <2>6. Max(list') = Max(list)
    BY <2>5, MaxIs, BasesAreNumbers, SMT DEF x
  <2>7. \A t \in op.todo, b \in list' : t < b
    BY <1>2, <2>1, <2>2, <2>3, BasesAreNumbers, SMT
  <2> QED BY <1>1, <1>4, <2>1, <2>2, <2>5, <2>6, <2>7
<1>5. CASE ~op.rewrite
  <2>1. list' = { b \in list : b > op.seg } \cup {op.seg}
    BY <1>1, <1>5 DEF Survivors
  <2>2. x \in list' /\ (\A b \in list' : b <= x) /\ list' \in SUBSET Base
    <3>1. op.seg \in Nat /\ x \in Nat /\ op.seg <= x
      BY <1>2, <1>3
    <3>2. x = op.seg \/ x > op.seg
      BY <3>1, SMT
    <3> QED BY <1>2, <1>3, <2>1, <3>2
  <2>3. Max(list') = Max(list)
    BY <2>2, MaxIs, BasesAreNumbers, SMT DEF x
  <2>4. \A t \in op.todo, b \in list' : t < b
    BY <1>2, <1>5, <2>1, BasesAreNumbers, SMT
  <2> QED BY <1>2, <1>5, <2>1, <2>2, <2>3, <2>4
<1> QED BY <1>4, <1>5

\* The trim is published.
LEMMA TruncateBeforePublishSound ==
  ASSUME Sound, TruncateBeforePublish, UNCHANGED setting
  PROVE  Sound'
<1>1. /\ list' # {} /\ list' \in SUBSET Base
      /\ \A t \in op.todo, b \in list' : t < b
      /\ IF op.rewrite
           THEN /\ list' = { b \in list : b > op.seg } \cup {op.at} /\ op.at \in files
                /\ end[op.at] = end[op.seg] /\ op.do = "trimLog"
           ELSE list' = { b \in list : b > op.seg } \cup {op.seg} /\ op.seg \in list
  BY TrimList
<1>2. /\ idx' \in {idx, [idx EXCEPT ![op.at] = end[op.at]]}
      /\ left' = left \cap list' /\ state = "up" /\ op.do \in {"trim", "trimLog"}
      /\ op' = IF op.todo = {} THEN Idle ELSE [op EXCEPT !.do = "drop"]
      /\ UNCHANGED << setting, files, end, stable, torn, garbled, ckpt, state, hw, failures, live,
                      synced, committed >>
  BY DEF TruncateBeforePublish, ghosts
<1>3. op' \in Op /\ (op.todo = {} => op'.do = "none")
      /\ (op.todo # {} => op'.do = "drop" /\ op'.todo = op.todo /\ op'.seg = op.seg)
  BY <1>2, IdleIsOp DEF Sound, TypeOK, Op
<1>4. TypeOK'
  BY <1>1, <1>2, <1>3 DEF Sound, TypeOK, Op
<1>5. \A b \in list' : b \in list \/ (op.rewrite /\ b = op.at)
  BY <1>1
<1>6. op.rewrite => /\ op.at \notin list /\ op.seg < op.at /\ op.at < end[op.seg]
                    /\ \A c \in list : op.seg < c => end[op.seg] <= c
  BY <1>2, TrimPlace
<1>7. left' \subseteq list' /\ list' \ left' \subseteq files
  BY <1>1, <1>2, <1>5 DEF Sound, Listed
<1>8. /\ \A b \in list : b \in Nat /\ end[b] \in Nat
      /\ op.at \in Nat /\ op.seg \in Nat /\ end[op.at] \in Nat /\ end[op.seg] \in Nat
  BY BasesAreNumbers DEF Sound, TypeOK, Op
<1>9. \A b \in list' : b <= end[b]
  BY <1>1, <1>5, <1>6, <1>8, SMT DEF Sound, Listed
<1>10. \A b, c \in list' : b < c => end[b] <= c
  <2> SUFFICES ASSUME NEW b \in list', NEW c \in list', b < c PROVE end[b] <= c
    OBVIOUS
  <2>1. CASE b \in list /\ c \in list
    BY <2>1 DEF Sound, Listed
  <2>2. CASE op.rewrite /\ b = op.at /\ c \in list /\ c # op.at
    BY <1>1, <1>6, <1>8, <2>2
  <2>3. CASE op.rewrite /\ c = op.at /\ b \in list /\ b # op.at
    BY <1>1, <1>6, <1>8, <2>3, SMT
  <2>4. b # c
    <3>1. b \in Nat
      BY <1>5, <1>8
    <3> QED BY <3>1, SMT
  <2> QED BY <1>5, <2>1, <2>2, <2>3, <2>4
<1>11. Listed'
  BY <1>2, <1>7, <1>9, <1>10 DEF Listed
<1>12. CutShape'
  BY <1>3 DEF CutShape
<1>13. \A t \in op.todo : t <= op.seg
  BY <1>2, <1>8, BasesAreNumbers, SMT DEF Sound, TypeOK, Op, TrimShape
<1>14. TrimShape'
  BY <1>1, <1>3, <1>13 DEF TrimShape
<1> QED BY <1>4, <1>11, <1>12, <1>14 DEF Sound

\* A log that stopped lists nothing.
LEMMA DownSound ==
  ASSUME TypeOK', state' = "down", list' = {}, left' = {}, op' = Idle
  PROVE  Sound'
<1>1. op'.do = "none"
  BY IdleIsOp
<1> QED BY <1>1 DEF Sound, Listed, CutShape, TrimShape

\* Close and a kill.
LEMMA StopSound ==
  ASSUME Sound, UNCHANGED setting,
         Close \/ \E n \in 0 .. setting.batch - 1, cut \in BOOLEAN : Kill(n, cut)
  PROVE  Sound'
<1>1. state = "up" /\ Down
  BY DEF Close, Kill
<1>2. state' = "down" /\ list' = {} /\ left' = {} /\ op' = Idle /\ op' \in Op
  BY <1>1, IdleIsOp DEF Down
<1>3. activeSegment \in list /\ activeSegment \in Base /\ end[activeSegment] \in Nat
  BY <1>1, Active, BasesAreNumbers DEF Sound, TypeOK
<1>4. CASE Close
  <2>1. /\ UNCHANGED << setting, files, end, idx, torn, garbled, hw, failures, live, synced,
                        committed >>
        /\ ckpt' \in {ckpt, hw}
        /\ \/ stable' = stable
           \/ stable' = [stable EXCEPT ![activeSegment] = end[activeSegment]]
    BY <1>4 DEF Close, checkpointHW, ghosts
  <2>2. stable' \in [Base -> Base] /\ \A b \in files : b <= stable'[b] /\ stable'[b] <= end[b]
    BY <1>3, <2>1, BasesAreNumbers, SMT DEF Sound, TypeOK
  <2>3. TypeOK'
    BY <1>2, <2>1, <2>2 DEF Sound, TypeOK
  <2> QED BY <1>2, <2>3, DownSound
<1>5. ASSUME NEW n \in 0 .. setting.batch - 1, NEW cut \in BOOLEAN, Kill(n, cut)
      PROVE  Sound'
  <2>1. /\ UNCHANGED << setting, files, idx, stable, garbled, ckpt, hw, failures, live, synced,
                        committed >>
        /\ end' = IF n = 0 THEN end ELSE [end EXCEPT ![activeSegment] = @ + n]
        /\ torn' = IF cut THEN torn \cup {activeSegment} ELSE torn
        /\ n > 0 \/ cut => activeSegment \in files /\ end[activeSegment] + n < setting.offsets
    BY <1>5 DEF Kill, ghosts, Writable, current
  <2>2. n \in Nat /\ setting.offsets \in 1 .. MaxOffset
    BY SettingBounds, LogAssumption, SMT DEF Sound, TypeOK
  <2>3. n > 0 => end[activeSegment] + n \in Base
    BY <1>3, <2>1, <2>2, BasesAreNumbers, SMT DEF Base
  <2>4. end' \in [Base -> Base] /\ \A b \in files : b <= end'[b] /\ stable[b] <= end'[b]
    BY <1>3, <2>1, <2>2, <2>3, BasesAreNumbers, SMT DEF Sound, TypeOK
  <2>5. torn' \subseteq files
    BY <2>1 DEF Sound, TypeOK
  <2>6. TypeOK'
    BY <1>2, <2>1, <2>4, <2>5 DEF Sound, TypeOK
  <2> QED BY <1>2, <2>6, DownSound
<1> QED BY <1>4, <1>5

\* What a power loss leaves of each file was there before.
LEMMA PowerLossSound ==
  ASSUME Sound, UNCHANGED setting,
         NEW kept \in [files -> Base], \A b \in files : kept[b] \in stable[b] .. end[b],
         NEW ahead, NEW cut \in SUBSET files, PowerLoss(kept, ahead, cut)
  PROVE  Sound'
<1>1. /\ end' = [b \in Base |-> IF b \in files THEN kept[b] ELSE end[b]]
      /\ idx' = [b \in Base |-> IF b \in files \ ahead THEN Min({kept[b], idx[b]}) ELSE idx[b]]
      /\ torn' \subseteq torn \cup cut
      /\ live' \subseteq live
      /\ synced \subseteq live'
      /\ UNCHANGED << setting, files, stable, garbled, ckpt, hw, failures, synced, committed >>
      /\ state' = "down" /\ list' = {} /\ left' = {} /\ op' = Idle /\ op' \in Op
  <2>1. synced \subseteq live
    BY DEF Sound, TypeOK
  <2> QED BY <2>1, IdleIsOp, ZenonT(30) DEF PowerLoss, Down
<1>2. \A b \in files : Min({kept[b], idx[b]}) \in Base
  <2> SUFFICES ASSUME NEW b \in files PROVE Min({kept[b], idx[b]}) \in Base
    OBVIOUS
  <2>1. kept[b] \in Base /\ idx[b] \in Base
    BY DEF Sound, TypeOK
  <2>2. kept[b] \in Int /\ idx[b] \in Int
    BY <2>1, BasesAreNumbers, SMT
  <2>3. Min({kept[b], idx[b]}) \in {kept[b], idx[b]}
    BY <2>2, PairMin, ZenonT(30)
  <2> QED BY <2>1, <2>3
<1>3. idx' \in [Base -> Base]
  <2>1. idx \in [Base -> Base]
    BY DEF Sound, TypeOK
  <2> QED BY <1>1, <1>2, <2>1
<1>4. end' \in [Base -> Base] /\ \A b \in files : end'[b] = kept[b]
  BY <1>1 DEF Sound, TypeOK
<1>5. \A b \in files : b <= end'[b] /\ stable[b] <= end'[b]
  BY <1>4, BasesAreNumbers, SMT DEF Sound, TypeOK
<1>6. TypeOK'
  BY <1>1, <1>3, <1>4, <1>5, ZenonT(30) DEF Sound, TypeOK
<1> QED BY <1>1, <1>6, DownSound

-----------------------------------------------------------------------------
(* Opening.                                                                *)

\* Reach(b) is as far as some segment before b goes, and no further.
LEMMA ReachIs ==
  ASSUME TypeOK, NEW b \in Base
  PROVE  /\ Reach(b) \in Base
         /\ \A c \in files : c < b => end[c] <= Reach(b)
         /\ Reach(b) # 0 => \E c \in files : c < b /\ end[c] = Reach(b)
<1> DEFINE S == {0} \cup { end[c] : c \in { f \in files : f < b } }
<1>1. S \in SUBSET Base /\ S # {}
  <2>1. 0 \in Base
    BY BasesAreNumbers, SMT DEF Base
  <2>2. \A c \in files : end[c] \in Base
    BY DEF TypeOK
  <2> QED BY <2>1, <2>2
<1>2. \A c \in files : c < b => end[c] \in S
  OBVIOUS
<1>3. \A x \in S : x # 0 => \E c \in files : c < b /\ end[c] = x
  OBVIOUS
<1>4. Reach(b) = Max(S)
  BY DEF Reach
<1> HIDE DEF S
<1>5. Max(S) \in S /\ \A y \in S : y <= Max(S)
  BY <1>1, BaseMax
<1> QED BY <1>1, <1>2, <1>3, <1>4, <1>5

\* What open() keeps of a directory: something, and in order.
LEMMA ResolvedIs ==
  ASSUME TypeOK, files # {}
  PROVE  /\ resolveSegmentOverlaps # {} /\ resolveSegmentOverlaps \in SUBSET files
         /\ \A b, c \in resolveSegmentOverlaps : b < c => end[b] <= c
<1>1. files \in SUBSET Base /\ end \in [Base -> Base]
  BY DEF TypeOK
<1>2. Min(files) \in files /\ \A y \in files : Min(files) <= y
  BY <1>1, BaseMin
<1> DEFINE x == Min(files)
<1>3. x \in Base /\ x \in Nat /\ \A y \in files : x <= y /\ y \in Nat
  BY <1>1, <1>2, BasesAreNumbers
<1> HIDE DEF x
<1>4. x >= Reach(x)
  <2>1. Reach(x) \in Base /\ (Reach(x) # 0 => \E c \in files : c < x /\ end[c] = Reach(x))
    BY <1>3, ReachIs
  <2>2. Reach(x) = 0
    BY <1>3, <2>1, SMT
  <2> QED BY <1>3, <2>2, SMT
<1>5. x \in resolveSegmentOverlaps
  BY <1>2, <1>4 DEF resolveSegmentOverlaps, x
<1>6. ASSUME NEW b \in resolveSegmentOverlaps, NEW c \in resolveSegmentOverlaps, b < c
      PROVE  end[b] <= c
  <2>1. b \in files /\ c \in files /\ c >= Reach(c) /\ c \in Base /\ end[b] \in Nat /\ c \in Nat
    BY <1>1, BasesAreNumbers DEF resolveSegmentOverlaps
  <2>2. end[b] <= Reach(c) /\ Reach(c) \in Nat
    BY <1>6, <2>1, ReachIs, BasesAreNumbers, ZenonT(30)
  <2> DEFINE x1 == end[b]
             x2 == Reach(c)
  <2>3. x1 \in Nat /\ x2 \in Nat /\ x1 <= x2 /\ x2 <= c /\ c \in Nat
    BY <2>1, <2>2
  <2> HIDE DEF x1, x2
  <2>4. x1 <= c
    BY <2>3, SMT
  <2> QED BY <2>4 DEF x1
<1> QED BY <1>5, <1>6 DEF resolveSegmentOverlaps

\* A directory that is refused stays as it is.
LEMMA OpenRefusedSound ==
  ASSUME Sound, OpenRefused, UNCHANGED setting
  PROVE  Sound'
<1>1. /\ UNCHANGED << setting, files, end, idx, stable, torn, garbled, ckpt, list, left, hw, op,
                      failures, live, synced, committed >>
      /\ state = "down" /\ state' \in {"torn", "overlap"}
  BY DEF OpenRefused, disk, ghosts
<1>2. TypeOK'
  BY <1>1 DEF Sound, TypeOK
<1>3. Listed' /\ op' = Idle
  BY <1>1 DEF Sound, Listed
<1>4. CutShape' /\ TrimShape'
  BY <1>3, IdleIsOp DEF CutShape, TrimShape
<1> QED BY <1>2, <1>3, <1>4 DEF Sound

\* The watermark of a log that was opened lies on it.
LEMMA ReopenedWatermarkIs ==
  ASSUME TypeOK, NEW S, end[Max(S)] \in Base
  PROVE  /\ ReopenedWatermark(S) \in -1 .. MaxOffset - 1
         /\ ReopenedWatermark(S) <= end[Max(S)] - 1 /\ ReopenedWatermark(S) <= ckpt
         /\ ckpt < end[Max(S)] => ReopenedWatermark(S) = ckpt
<1>1. ckpt \in Int /\ ckpt >= -1 /\ ckpt <= MaxOffset - 1
  BY BasesAreNumbers, SMT DEF TypeOK
<1> DEFINE e == end[Max(S)] - 1
           m == ReopenedWatermark(S)
<1>2. e \in Int /\ e >= -1 /\ e <= MaxOffset - 1 /\ (ckpt < end[Max(S)] => ckpt <= e)
  BY <1>1, BasesAreNumbers, SMT
<1>3. m = Min({ckpt, e})
  BY DEF ReopenedWatermark
<1> HIDE DEF e, m
<1>4. m \in {ckpt, e} /\ m <= ckpt /\ m <= e
  BY <1>1, <1>2, <1>3, PairMin
<1>5. m \in -1 .. MaxOffset - 1 /\ (ckpt <= e => m = ckpt)
  BY <1>1, <1>2, <1>4, BasesAreNumbers, SMT
<1> QED BY <1>2, <1>4, <1>5 DEF m, e

\* The log is opened.
LEMMA OpenSound ==
  ASSUME Sound, open, UNCHANGED setting
  PROVE  Sound'
<1> DEFINE S == resolveSegmentOverlaps
<1>1. /\ state = "down" /\ files # {} /\ state' = "up" /\ list' = S /\ files' = S
      /\ end' = Of(S, end) /\ idx' = end'
      /\ stable' = Of(S, [b \in Base |-> IF b \in torn THEN end[b] ELSE stable[b]])
      /\ torn' = {} /\ hw' = ReopenedWatermark(S)
      /\ UNCHANGED << setting, garbled, ckpt, left, op, failures, live, synced, committed >>
  BY DEF open, ghosts
<1>2. /\ S # {} /\ S \in SUBSET files /\ S \in SUBSET Base
      /\ \A b, c \in S : b < c => end[b] <= c
  BY <1>1, ResolvedIs DEF Sound, TypeOK
<1> HIDE DEF S
<1>3. Max(S) \in S /\ end[Max(S)] \in Base
  BY <1>2, BaseMax DEF Sound, TypeOK
<1>4. hw' \in -1 .. MaxOffset - 1
  BY <1>1, <1>3, ReopenedWatermarkIs DEF Sound
<1>5. end' \in [Base -> Base] /\ stable' \in [Base -> Base]
  BY <1>1, <1>2 DEF Sound, TypeOK, Of
<1>6. \A b \in S : end'[b] = end[b] /\ stable'[b] \in {end[b], stable[b]}
  BY <1>1, <1>2 DEF Of
<1>7. \A b \in S : b <= end'[b] /\ b <= stable'[b] /\ stable'[b] <= end'[b]
  BY <1>2, <1>6, BasesAreNumbers, SMT DEF Sound, TypeOK
<1>8. op = Idle /\ op.do = "none" /\ left = {}
  BY <1>1, IdleIsOp DEF Sound, Listed, TypeOK
<1>9. TypeOK'
  BY <1>1, <1>2, <1>4, <1>5, <1>7, <1>8 DEF Sound, TypeOK
<1>10. Listed'
  BY <1>1, <1>2, <1>6, <1>7, <1>8 DEF Listed
<1>11. CutShape' /\ TrimShape'
  <2>1. op'.do = "none"
    BY <1>1, <1>8
  <2> QED BY <2>1 DEF CutShape, TrimShape
<1> QED BY <1>9, <1>10, <1>11 DEF Sound

\* A directory without a segment opens as a new log.
LEMMA OpenEmptySound ==
  ASSUME Sound, openEmpty, UNCHANGED setting
  PROVE  Sound'
<1>1. /\ state = "down" /\ files = {} /\ state' = "up" /\ list' = {0} /\ files' = {0}
      /\ end' = [b \in Base |-> b] /\ idx' = end' /\ stable' = end' /\ hw' = -1
      /\ UNCHANGED << setting, torn, garbled, ckpt, left, op, failures, live, synced, committed >>
  BY DEF openEmpty, ghosts, Of
<1>2. 0 \in Base /\ -1 \in -1 .. MaxOffset - 1
  BY BasesAreNumbers, SMT DEF Base
<1>3. op = Idle /\ op.do = "none" /\ left = {} /\ torn = {}
  BY <1>1, IdleIsOp DEF Sound, Listed, TypeOK
<1>4. TypeOK'
  BY <1>1, <1>2, <1>3, BasesAreNumbers DEF Sound, TypeOK
<1>5. Listed'
  BY <1>1, <1>2, <1>3, SMT DEF Listed
<1>6. CutShape' /\ TrimShape'
  BY <1>1, <1>3 DEF CutShape, TrimShape
<1> QED BY <1>4, <1>5, <1>6 DEF Sound

\* Every step keeps the log sound.
LEMMA SoundNext == Sound /\ [Next]_vars => Sound'
<1> SUFFICES ASSUME Sound, [Next]_vars PROVE Sound'
  OBVIOUS
<1>1. CASE UNCHANGED vars
  <2>1. TypeOK'
    BY <1>1 DEF vars, Sound, TypeOK
  <2>2. Listed'
    BY <1>1 DEF vars, Sound, Listed
  <2>3. CutShape' /\ TrimShape'
    BY <1>1, ZenonT(30) DEF vars, Sound, CutShape, TrimShape
  <2> QED BY <2>1, <2>2, <2>3 DEF Sound
<1>2. CASE Next
  <2>1. UNCHANGED setting /\ Step
    BY <1>2 DEF Next
  <2>2. CASE \E kept \in [files -> Base] :
                /\ \A b \in files : kept[b] \in stable[b] .. end[b]
                /\ LET lost == { b \in files : kept[b] < end[b] }
                   IN  \E ahead, cut \in SUBSET lost : PowerLoss(kept, ahead, cut)
    <3>1. PICK kept \in [files -> Base] :
                /\ \A b \in files : kept[b] \in stable[b] .. end[b]
                /\ LET lost == { b \in files : kept[b] < end[b] }
                   IN  \E ahead, cut \in SUBSET lost : PowerLoss(kept, ahead, cut)
      BY <2>2
    <3>2. PICK ahead \in SUBSET files, cut \in SUBSET files : PowerLoss(kept, ahead, cut)
      BY <3>1
    <3> QED BY <2>1, <3>1, <3>2, PowerLossSound
  <2>3. CASE \/ split \/ AppendFails \/ RecoverTail \/ checkpointHWTick \/ Sync \/ SyncAll
             \/ (\E n \in 1 .. setting.batch : Append(n))
             \/ (\E h \in Offset : SetHighWatermark(h))
             \/ (\E h \in -1 .. MaxOffset - 1 : OverrideHighWatermark(h))
    BY <2>1, <2>3, SplitSound, AppendSound, AppendFailsSound, WatermarkSound, FlushSound
  <2>4. CASE \/ ReplaceLog \/ TruncatePublish \/ FinalizeLog \/ TruncateBeforePublish
             \/ (\E o \in 0 .. setting.offsets - 1 : Truncate(o))
             \/ (\E m \in 0 .. setting.offsets - 1 : TruncateBefore(m))
    BY <2>1, <2>4, TruncateSound, ReplaceLogSound, TruncatePublishSound, TruncateBeforeSound,
       FinalizeLogSound, TruncateBeforePublishSound
  <2>5. CASE \/ Delete \/ DeleteFails \/ Close \/ OpenRefused \/ open \/ openEmpty
             \/ \E n \in 0 .. setting.batch - 1, cut \in BOOLEAN : Kill(n, cut)
    BY <2>1, <2>5, DeleteSound, DeleteFailsSound, StopSound, OpenRefusedSound, OpenSound,
       OpenEmptySound
  <2> QED BY <2>1, <2>2, <2>3, <2>4, <2>5 DEF Step
<1> QED BY <1>1, <1>2

\* Every reachable log is sound.
THEOREM LogIsSound == Spec => []Sound
BY SoundInit, SoundNext, PTL DEF Spec
=============================================================================

--------------------------- MODULE ReadersProofs ---------------------------
(***************************************************************************)
(* Proofs about Readers, for any readers, offsets and settings: how the    *)
(* log changes under its readers, where an uncommitted reader parks, where *)
(* a search for a segment ends, and what a step of the log leaves true of  *)
(* a committed reader.                                                     *)
(***************************************************************************)
EXTENDS Readers, WellFoundedInduction, TLAPS

\* Leaves are first-order unless they cite SMT, which those with arithmetic do.
USE Zenon

-----------------------------------------------------------------------------
(* The greatest and the least of a set of offsets.                         *)

\* A non-empty set of natural numbers has a least element.
LEMMA NatMin ==
  ASSUME NEW T \in SUBSET Nat, T # {}
  PROVE  \E x \in T : \A y \in T : x <= y
<1> DEFINE R == OpToRel(<, Nat)
<1>1. IsWellFoundedOn(R, Nat)
  BY NatLessThanWellFounded, ZenonT(30)
<1>2. ASSUME NEW x \in Nat, NEW y \in Nat, ~(<<y, x>> \in R)
      PROVE  x <= y
  <2>1. <<y, x>> \in Nat \X Nat /\ <<y, x>>[1] = y /\ <<y, x>>[2] = x
    OBVIOUS
  <2>2. ~(y < x)
    BY <1>2, <2>1 DEF OpToRel
  <2> QED BY <2>2, SMT
<1> HIDE DEF R
<1>3. PICK x \in T : \A y \in T : ~(<<y, x>> \in R)
  BY <1>1, WFMin, ZenonT(30)
<1> QED BY <1>2, <1>3, ZenonT(30)

\* Min(T) is the element of T that no other is below.
LEMMA MinIs ==
  ASSUME NEW T \in SUBSET Int, NEW x \in T, \A y \in T : x <= y
  PROVE  Min(T) = x
<1>1. Min(T) \in T /\ \A y \in T : Min(T) <= y
  BY ZenonT(30) DEF Min
<1>2. Min(T) \in Int /\ x \in Int
  BY <1>1, ZenonT(30)
<1>3. Min(T) <= x /\ x <= Min(T)
  BY <1>1, ZenonT(30)
<1> QED BY <1>2, <1>3, SMT

\* Max(T) is the element of T that no other is above.
LEMMA MaxIs ==
  ASSUME NEW T \in SUBSET Int, NEW x \in T, \A y \in T : y <= x
  PROVE  Max(T) = x
<1>0. T \in SUBSET Int /\ x \in T /\ \A y \in T : x >= y
  BY SMT
<1>1. Max(T) \in T /\ \A y \in T : Max(T) >= y
  BY <1>0, ZenonT(30) DEF Max
<1>2. Max(T) \in Int /\ x \in Int
  BY <1>0, <1>1, ZenonT(30)
<1>3. x >= Max(T) /\ Max(T) >= x
  BY <1>0, <1>1, ZenonT(30)
<1> QED BY <1>2, <1>3, SMT

\* A non-empty set of places has a least element, Min.
LEMMA BaseMin ==
  ASSUME NEW T \in SUBSET Base, T # {}
  PROVE  Min(T) \in T /\ \A y \in T : Min(T) <= y
<1>1. T \in SUBSET Nat /\ T \in SUBSET Int
  BY ReadersAssumption, SMT DEF Base
<1>2. PICK x \in T : \A y \in T : x <= y
  BY <1>1, NatMin
<1>3. Min(T) = x
  BY <1>1, <1>2, MinIs
<1> QED BY <1>2, <1>3

\* A non-empty set of places has a greatest element, Max.
LEMMA BaseMax ==
  ASSUME NEW T \in SUBSET Base, T # {}
  PROVE  Max(T) \in T /\ \A y \in T : y <= Max(T)
<1> DEFINE U == { n \in Nat : MaxOffset - n \in T }
<1>1. T \in SUBSET Int /\ U \in SUBSET Nat /\ MaxOffset \in Nat
  BY ReadersAssumption, SMT DEF Base
<1>2. \A y \in T : y \in Int /\ MaxOffset - y \in U
  BY ReadersAssumption, SMT DEF Base
<1>3. U # {}
  BY <1>2
<1>4. PICK n \in U : \A k \in U : n <= k
  BY <1>1, <1>3, NatMin, ZenonT(30)
<1>5. MaxOffset - n \in T /\ n \in Nat
  BY <1>4
<1>6. ASSUME NEW y \in T
      PROVE  y <= MaxOffset - n
  <2>1. y \in Int /\ n <= MaxOffset - y
    BY <1>2, <1>4
  <2> QED BY <1>1, <1>5, <2>1, SMT
<1>7. Max(T) = MaxOffset - n
  BY <1>1, <1>5, <1>6, MaxIs
<1> QED BY <1>5, <1>6, <1>7

-----------------------------------------------------------------------------
(* Where a segment ends.                                                   *)

\* End as a function of the list B and of the next offset n.
EndOf(B, n, b) == IF b = Max(B) THEN n ELSE Min({ c \in B : c > b })

\* A list of segments and the next offset of its last.
List(B, n) == B \in SUBSET Base /\ 0 \in B /\ n \in Base /\ \A b \in B : b <= n

\* A segment ends at the next one's base, and the last at the next offset.
LEMMA EndIs ==
  ASSUME NEW B, NEW n, List(B, n), NEW b \in B
  PROVE  /\ EndOf(B, n, b) \in Base /\ b \in Base
         /\ b <= EndOf(B, n, b) /\ EndOf(B, n, b) <= n
         /\ \A c \in B : c > b => EndOf(B, n, b) <= c
         /\ b # Max(B) => EndOf(B, n, b) \in B /\ b < EndOf(B, n, b) /\ b < Max(B)
         /\ b = Max(B) => EndOf(B, n, b) = n
<1> DEFINE Above == { c \in B : c > b }
<1>1. B \in SUBSET Base /\ n \in Base /\ \A c \in B : c \in Base /\ c <= n
  BY DEF List
<1>2. Max(B) \in B /\ (\A c \in B : c <= Max(B)) /\ Max(B) \in Base /\ b \in Base /\ b <= Max(B)
  BY <1>1, BaseMax, ZenonT(30)
<1>3. CASE b = Max(B)
  <2>1. EndOf(B, n, b) = n
    BY <1>3 DEF EndOf
  <2>2. n <= n /\ \A c \in B : ~(c > b)
    BY <1>1, <1>2, <1>3, ReadersAssumption, SMT DEF Base
  <2> QED BY <1>1, <1>3, <2>1, <2>2
<1>4. CASE b # Max(B)
  <2>1. b < Max(B) /\ Max(B) > b
    BY <1>1, <1>2, <1>4, ReadersAssumption, SMT DEF Base
  <2>2. Above \in SUBSET Base /\ Above # {}
    BY <1>1, <1>2, <2>1
  <2>3. Min(Above) \in Above /\ \A c \in Above : Min(Above) <= c
    BY <2>2, BaseMin
  <2>4. EndOf(B, n, b) = Min(Above)
    BY <1>4 DEF EndOf
  <2>5. Min(Above) \in B /\ Min(Above) > b /\ Min(Above) \in Base /\ b \in Base
    BY <1>1, <2>3
  <2>6. b < Min(Above) /\ b <= Min(Above)
    BY <2>5, ReadersAssumption, SMT DEF Base
  <2> QED BY <1>1, <1>4, <2>1, <2>3, <2>4, <2>5, <2>6
<1> QED BY <1>3, <1>4

\* A roll moves no end, and the new segment is the last.
LEMMA EndRoll ==
  ASSUME NEW B, NEW n, List(B, n), n > Max(B)
  PROVE  /\ List(B \cup {n}, n) /\ Max(B \cup {n}) = n
         /\ \A b \in B : EndOf(B \cup {n}, n, b) = EndOf(B, n, b)
<1> DEFINE C == B \cup {n}
<1>1. B \in SUBSET Base /\ B # {} /\ n \in Base /\ \A c \in B : c \in Base /\ c <= n
  BY DEF List
<1>2. Max(B) \in B /\ \A c \in B : c <= Max(B)
  BY <1>1, BaseMax, ZenonT(30)
<1>3. n <= n /\ \A c \in Base : c \in Int
  BY <1>1, ReadersAssumption, SMT DEF Base
<1>4. List(C, n)
  BY <1>1, <1>3 DEF List
<1>5. Max(C) = n
  <2>1. C \in SUBSET Int /\ n \in C /\ \A c \in C : c <= n
    BY <1>1, <1>3
  <2> QED BY <2>1, MaxIs
<1>6. ASSUME NEW b \in B
      PROVE  EndOf(C, n, b) = EndOf(B, n, b)
  <2> DEFINE e == EndOf(B, n, b)
             Above == { c \in C : c > b }
  <2>1. b # n
    <3>1. b \in Int /\ n \in Int /\ Max(B) \in Int /\ b <= Max(B)
      BY <1>1, <1>2, <1>3
    <3> QED BY <3>1, SMT
  <2>2. EndOf(C, n, b) = Min(Above)
    BY <1>5, <2>1 DEF EndOf
  <2>3. e \in Base /\ (e \in B \/ e = n) /\ e <= n /\ \A c \in B : c > b => e <= c
    BY EndIs
  <2>4. e > b
    <3>1. CASE b = Max(B)
      <4>1. e = n
        BY <3>1 DEF EndOf
      <4> QED BY <3>1, <4>1
    <3>2. CASE b # Max(B)
      <4>1. b < e
        BY <3>2, EndIs
      <4> QED BY <1>1, <2>3, <4>1, ReadersAssumption, SMT DEF Base
    <3> QED BY <3>1, <3>2
  <2> HIDE DEF e
  <2>5. Above \in SUBSET Int /\ e \in Above /\ \A c \in Above : e <= c
    BY <1>1, <1>3, <2>3, <2>4
  <2>6. Min(Above) = e
    BY <2>5, MinIs
  <2> QED BY <2>2, <2>6 DEF e
<1> QED BY <1>4, <1>5, <1>6

\* Every offset below the next lies in a segment.
LEMMA Holder ==
  ASSUME NEW B, NEW n, List(B, n), NEW x \in Nat, x < n
  PROVE  \E b \in B : b <= x /\ x < EndOf(B, n, b)
<1> DEFINE T == { c \in B : c <= x }
<1>1. B \in SUBSET Base /\ 0 \in B /\ n \in Base
  BY DEF List
<1>2. T \in SUBSET Base /\ T # {}
  <2>1. 0 <= x
    BY SMT
  <2> QED BY <1>1, <2>1
<1> DEFINE m == Max(T)
<1>3. m \in T /\ \A c \in T : c <= m
  BY <1>2, BaseMax
<1> HIDE DEF m
<1>4. m \in B /\ m <= x
  BY <1>3
<1>5. x < EndOf(B, n, m)
  <2>1. CASE m = Max(B)
    BY <2>1 DEF EndOf
  <2>2. CASE m # Max(B)
    <3> DEFINE e == EndOf(B, n, m)
    <3>1. e \in B /\ m < e /\ e \in Base /\ m \in Base
      BY <1>4, <2>2, EndIs
    <3> HIDE DEF e
    <3>2. SUFFICES ASSUME e <= x PROVE FALSE
      BY <3>1, ReadersAssumption, SMT DEF Base, e
    <3>3. e <= m
      BY <1>3, <3>1, <3>2
    <3> QED BY <3>1, <3>3, ReadersAssumption, SMT DEF Base
  <2> QED BY <2>1, <2>2
<1> QED BY <1>4, <1>5

-----------------------------------------------------------------------------
(* The log and its steps, in every setting.                                *)

\* The list, what compaction made of it, and the watermark.
LogShape ==
    /\ setting \in Settings
    /\ List(bases, next)
    /\ rewritten \in SUBSET bases /\ activeSegment \notin rewritten
    /\ dropped \in SUBSET Offset
    /\ writer \in {"idle", "seal", "notify"}
    /\ writer = "seal" => next \in bases /\ next # 0
    /\ hw \in Offset \cup {-1}

\* A segment that is or was in the log.
Valid(s) == s \in Segment /\ s[1] \in bases /\ (s[2] = 1 => s[1] \in rewritten)

\* Most steps leave the segments alone.
Still == UNCHANGED << setting, bases, rewritten, dropped, next >>

\* What a step may do to the log: segments are added at the end, only the active
\* one grows, and a rewrite holds no more than what it replaces.
Grows ==
    /\ bases \subseteq bases' /\ next <= next'
    /\ \A b \in bases' \ bases : \A a \in bases : a < b
    /\ rewritten \subseteq rewritten' /\ dropped \subseteq dropped'
    /\ \A b \in bases : End(b) <= End(b)'
    /\ \A b \in bases \ {activeSegment} :
         End(b)' = End(b) /\ Records(current(b))' \subseteq Records(current(b))
    /\ \A s : Valid(s) =>
         /\ Valid(s)'
         /\ Records(s) \subseteq Records(s)'
         /\ \A x \in Records(s)' : x \in Records(s) \/ next <= x
         /\ s[1] # activeSegment => Records(s)' = Records(s)

\* Places and offsets are integers.
LEMMA Numbers ==
  /\ \A x \in Base : x \in Int /\ x \in Nat /\ 0 <= x
  /\ \A x \in Offset : x \in Int /\ x \in Nat /\ x \in Base
  /\ MaxOffset \in Nat /\ 0 \in Base
BY ReadersAssumption, SMT DEF Base, Offset

\* The end of a segment of the log.
LEMMA EndLog ==
  ASSUME LogShape, NEW b \in bases
  PROVE  /\ b \in Base /\ End(b) \in Base /\ b <= End(b) /\ End(b) <= next
         /\ \A c \in bases : c > b => End(b) <= c
         /\ b # activeSegment => End(b) \in bases /\ b < End(b) /\ b < activeSegment
         /\ b = activeSegment => End(b) = next
<1>1. End(b) = EndOf(bases, next, b) /\ List(bases, next)
  BY DEF End, EndOf, activeSegment, LogShape
<1> DEFINE e == EndOf(bases, next, b)
<1>2. /\ e \in Base /\ b \in Base /\ b <= e /\ e <= next
      /\ \A c \in bases : c > b => e <= c
      /\ b # Max(bases) => e \in bases /\ b < e /\ b < Max(bases)
      /\ b = Max(bases) => e = next
  BY <1>1, EndIs
<1> HIDE DEF e
<1> QED BY <1>1, <1>2 DEF activeSegment, e

\* The active segment is the last one.
LEMMA Active ==
  ASSUME LogShape
  PROVE  /\ activeSegment \in bases /\ activeSegment \in Base /\ next \in Base
         /\ \A b \in bases : b \in Base /\ b <= activeSegment /\ b <= next
<1>1. bases \in SUBSET Base /\ bases # {} /\ next \in Base /\ \A b \in bases : b <= next
  BY DEF LogShape, List
<1>2. Max(bases) \in bases /\ \A b \in bases : b <= Max(bases)
  BY <1>1, BaseMax
<1> QED BY <1>1, <1>2 DEF activeSegment

\* The records of a segment are offsets of the log.
LEMMA RecordsIn ==
  ASSUME LogShape, NEW s, s[1] \in bases
  PROVE  Records(s) \in SUBSET Offset /\ \A x \in Records(s) : s[1] <= x /\ x < End(s[1]) /\ x < next
<1>1. s[1] \in Base /\ End(s[1]) \in Base /\ End(s[1]) <= next /\ next \in Base
  BY EndLog, Active
<1>2. ASSUME NEW x \in s[1] .. End(s[1]) - 1
      PROVE  x \in Offset /\ s[1] <= x /\ x < End(s[1]) /\ x < next
  BY <1>1, ReadersAssumption, SMT DEF Base, Offset
<1> QED BY <1>2 DEF Records

\* The steps that change the segments.
LEMMA Kinds ==
  ASSUME [Next]_vars
  PROVE  \/ split \/ WriteMessageSet
         \/ \E b \in bases : \E D \in SUBSET Records(<< b, 0 >>) : Replace(b, D)
         \/ /\ Still /\ (writer' = writer \/ writer' = "idle")
            /\ hw' = hw \/ \E h \in Offset : SetHighWatermark(h)
<1> DEFINE Goal == Still /\ (writer' = writer \/ writer' = "idle") /\ hw' = hw
<1>1. CASE Seal \/ appendWith \/ SetReadonly \/ SetReadonlyNotify \/ Close
  BY <1>1 DEF Seal, appendWith, SetReadonly, SetReadonlyNotify, Close, Still, log
<1>2. CASE \E h \in Offset : SetHighWatermark(h)
  BY <1>2 DEF SetHighWatermark, Still, log
<1>3. ASSUME NEW r \in Readers, NEW new, Becomes(r, new)
      PROVE  Goal
  BY <1>3 DEF Becomes, Still, log
<1>4. ASSUME NEW r \in Readers, NEW new, Goes(r, new)
      PROVE  Goal
  BY <1>4 DEF Goes, Still, log
<1>5. ASSUME NEW new, Waits(new)
      PROVE  Goal
  BY <1>5 DEF Waits, Still, log
<1>6. ASSUME NEW r \in Readers, CommittedStep(r) \/ Cancel(r)
      PROVE  Goal
  <2>1. CASE newReaderCommitted(r) \/ Position(r) \/ PositionSegment(r)
    BY <1>3, <2>1 DEF newReaderCommitted, Position, PositionSegment
  <2>2. CASE Read(r) \/ readLoop(r) \/ Advance(r)
    BY <1>3, <2>2 DEF Read, readLoop, Advance
  <2>3. CASE syncHW(r) \/ getHWPos(r) \/ waitForHW(r) \/ HangUp(r) \/ Cancel(r)
    BY <1>3, <2>3 DEF syncHW, getHWPos, waitForHW, HangUp, Cancel
  <2> QED BY <1>6, <2>1, <2>2, <2>3 DEF CommittedStep
<1>7. ASSUME NEW r \in Readers, UncommittedStep(r) \/ CancelUncommitted(r)
      PROVE  Goal
  BY <1>4, <1>7 DEF UncommittedStep, newReaderUncommitted, ReadUncommitted, AdvanceUncommitted,
     waitForData, HangUpUncommitted, CancelUncommitted
<1>8. ASSUME NEW r \in Readers, NEW o \in Base, NEW f \in BOOLEAN,
             NewReader(r, o, f) \/ NewReaderUncommitted(r, o, f)
      PROVE  Goal
  BY <1>3, <1>4, <1>8 DEF NewReader, NewReaderUncommitted
<1>9. CASE NotifyLEO \/ WaitForLEO
  BY <1>5, <1>9 DEF NotifyLEO, WaitForLEO
<1>10. CASE UNCHANGED vars
  BY <1>10 DEF vars, log, Still
<1> HIDE DEF Goal
<1> QED
  <2>1. CASE Goal
    BY <2>1 DEF Goal
  <2> QED BY <1>1, <1>2, <1>6, <1>7, <1>8, <1>9, <1>10, <2>1 DEF Next

\* Every step keeps the shape of the log.
LEMMA ShapeStep ==
  ASSUME LogShape, [Next]_vars
  PROVE  LogShape'
<1>0. /\ setting \in Settings /\ List(bases, next)
      /\ rewritten \in SUBSET bases /\ activeSegment \notin rewritten
      /\ dropped \in SUBSET Offset /\ hw \in Offset \cup {-1}
  BY DEF LogShape
<1>1. CASE split
  <2>1. /\ bases' = bases \cup {next} /\ next' = next /\ writer' = "seal" /\ next > Max(bases)
        /\ setting' = setting /\ rewritten' = rewritten /\ dropped' = dropped /\ hw' = hw
    BY <1>1 DEF split, activeSegment
  <2>2. List(bases', next') /\ activeSegment' = next
    BY <1>0, <2>1, EndRoll DEF activeSegment
  <2>3. next # 0 /\ next \notin bases
    <3>1. \A b \in bases \cup {next} : b \in Int
      BY Active, Numbers
    <3>2. \A b \in bases : b <= Max(bases) /\ 0 <= b
      BY Active, Numbers DEF activeSegment
    <3> QED BY <1>0, <2>1, <3>1, <3>2, Active, SMT DEF activeSegment
  <2> QED BY <1>0, <2>1, <2>2, <2>3 DEF LogShape
<1>2. CASE WriteMessageSet
  <2>1. /\ bases' = bases /\ next' = next + 1 /\ next < MaxOffset /\ writer' = "notify"
        /\ setting' = setting /\ rewritten' = rewritten /\ dropped' = dropped /\ hw' = hw
    BY <1>2 DEF WriteMessageSet
  <2>2. next' \in Base /\ \A b \in bases : b <= next'
    <3>1. next \in Base /\ \A b \in bases : b \in Base /\ b <= next
      BY Active
    <3> QED BY <2>1, <3>1, ReadersAssumption, SMT DEF Base
  <2>3. List(bases', next') /\ activeSegment' = activeSegment
    BY <1>0, <2>1, <2>2 DEF List, activeSegment
  <2> QED BY <1>0, <2>1, <2>3 DEF LogShape
<1>3. ASSUME NEW b \in bases, NEW D \in SUBSET Records(<< b, 0 >>), Replace(b, D)
      PROVE  LogShape'
  <2>1. /\ bases' = bases /\ next' = next /\ writer' = writer /\ setting' = setting /\ hw' = hw
        /\ rewritten' = rewritten \cup {b} /\ dropped' = dropped \cup D /\ b # activeSegment
    BY <1>3 DEF Replace, Sealed
  <2>2. D \in SUBSET Offset
    BY RecordsIn
  <2>3. activeSegment' = activeSegment
    BY <2>1 DEF activeSegment
  <2> QED BY <1>0, <2>1, <2>2, <2>3 DEF LogShape
<1>4. CASE Still /\ (writer' = writer \/ writer' = "idle") /\ (hw' = hw \/ \E h \in Offset : SetHighWatermark(h))
  <2>1. hw' \in Offset \cup {-1}
    BY <1>0, <1>4 DEF SetHighWatermark
  <2> QED BY <1>0, <1>4, <2>1 DEF LogShape, Still, activeSegment
<1> QED BY <1>1, <1>2, <1>3, <1>4, Kinds

\* The current version of a segment of the log is one of its segments.
LEMMA CurrentIs ==
  ASSUME NEW b
  PROVE  /\ current(b)[1] = b
         /\ b \in rewritten => current(b) = << b, 1 >> /\ current(b)[2] = 1
         /\ b \notin rewritten => current(b) = << b, 0 >> /\ current(b)[2] = 0
BY DEF current

\* It is a valid one.
LEMMA CurrentValid ==
  ASSUME LogShape, NEW b \in bases
  PROVE  Valid(current(b))
<1>0. 0 # 1
  BY SMT
<1>1. b \in Base
  BY Active
<1>2. << b, 0 >> \in Segment /\ << b, 1 >> \in Segment
  BY <1>1 DEF Segment
<1>3. CASE b \in rewritten
  BY <1>2, <1>3, CurrentIs DEF Valid
<1>4. CASE b \notin rewritten
  BY <1>0, <1>2, <1>4, CurrentIs DEF Valid
<1> QED BY <1>3, <1>4

\* A roll adds an empty segment.
LEMMA SplitGrows ==
  ASSUME LogShape, split
  PROVE  Grows
<1>1. /\ bases' = bases \cup {next} /\ next' = next /\ next > Max(bases)
      /\ rewritten' = rewritten /\ dropped' = dropped
  BY DEF split, activeSegment
<1>2. \A b \in bases : End(b)' = End(b)
  <2>1. List(bases, next)
    BY DEF LogShape
  <2>2. \A b \in bases : EndOf(bases \cup {next}, next, b) = EndOf(bases, next, b)
    BY <1>1, <2>1, EndRoll
  <2> QED BY <1>1, <2>2 DEF End, EndOf, activeSegment
<1>3. \A b \in bases : End(b) <= End(b) /\ b < next
  <2>1. \A b \in bases : End(b) \in Base /\ b \in Base /\ b <= Max(bases)
    BY EndLog, Active DEF activeSegment
  <2>2. next \in Int /\ Max(bases) \in Int
    BY Active, Numbers DEF activeSegment
  <2> QED BY <1>1, <2>1, <2>2, Numbers, SMT
<1>4. next <= next
  BY Active, Numbers, SMT
<1>5. \A s : s[1] \in bases => Records(s)' = Records(s)
  BY <1>1, <1>2 DEF Records
<1>6. \A b : current(b)' = current(b) /\ current(b)[1] = b
  BY <1>1, CurrentIs DEF current
<1> QED BY <1>1, <1>2, <1>3, <1>4, <1>5, <1>6 DEF Grows, Valid

\* An append adds a record to the active segment.
LEMMA WriteGrows ==
  ASSUME LogShape, WriteMessageSet
  PROVE  Grows
<1>1. bases' = bases /\ next' = next + 1 /\ rewritten' = rewritten /\ dropped' = dropped
  BY DEF WriteMessageSet
<1>2. activeSegment' = activeSegment /\ \A b : current(b)' = current(b) /\ current(b)[1] = b
  BY <1>1, CurrentIs DEF activeSegment, current
<1>3. \A b \in bases : b # activeSegment => End(b)' = End(b)
  BY <1>1 DEF End, activeSegment
<1>4. End(activeSegment) = next /\ End(activeSegment)' = next + 1
  BY <1>1, <1>2 DEF End
<1>5. next \in Int /\ \A b \in bases : b \in Int /\ End(b) \in Int
  BY EndLog, Active, Numbers
<1>6. next <= next + 1 /\ \A b \in bases : End(b) <= End(b)
  BY <1>5, SMT
<1>7. \A s : s[1] \in bases /\ s[1] # activeSegment => Records(s)' = Records(s)
  BY <1>1, <1>3 DEF Records
<1>8. ASSUME NEW s, Valid(s), s[1] = activeSegment
      PROVE  Records(s) \subseteq Records(s)' /\ \A x \in Records(s)' : x \in Records(s) \/ next <= x
  <2>1. s[2] # 1
    BY <1>8 DEF Valid, LogShape
  <2>2. s[1] \in bases
    BY <1>8 DEF Valid
  <2>3. Records(s) = s[1] .. next - 1 /\ Records(s)' = s[1] .. (next + 1) - 1
    <3>1. End(s[1]) = next /\ End(s[1])' = next + 1
      BY <1>1, <1>2, <1>8 DEF End
    <3> QED BY <2>1, <3>1 DEF Records
  <2> QED BY <1>5, <2>2, <2>3, SMT
<1>9. \A s : Valid(s)' <=> Valid(s)
  BY <1>1 DEF Valid
<1>10. \A b \in bases : End(b) <= End(b)'
  <2>1. ASSUME NEW b \in bases, b = activeSegment
        PROVE  End(b) <= End(b)'
    <3>1. End(b) = next /\ End(b)' = next + 1
      BY <1>1, <1>2, <2>1 DEF End
    <3> QED BY <1>6, <3>1
  <2>2. ASSUME NEW b \in bases, b # activeSegment
        PROVE  End(b) <= End(b)'
    BY <1>3, <1>6, <2>2
  <2> QED BY <2>1, <2>2
<1>11. \A b \in bases \ {activeSegment} : Records(current(b))' \subseteq Records(current(b))
  BY <1>2, <1>7
<1> QED BY <1>1, <1>3, <1>6, <1>7, <1>8, <1>9, <1>10, <1>11 DEF Grows, Valid

\* A rewrite stands for a segment with fewer records.
LEMMA ReplaceGrows ==
  ASSUME LogShape, NEW b \in bases, NEW D \in SUBSET Records(<< b, 0 >>), Replace(b, D)
  PROVE  Grows
<1>1. /\ bases' = bases /\ next' = next /\ rewritten' = rewritten \cup {b} /\ dropped' = dropped \cup D
      /\ b # activeSegment /\ b \notin rewritten
  BY DEF Replace, Sealed
<1>2. \A c : End(c)' = End(c)
  BY <1>1 DEF End, activeSegment
<1>3. next <= next /\ \A c \in bases : c \in Int /\ End(c) \in Int /\ End(c) <= End(c)
  <2>1. next \in Int /\ \A c \in bases : c \in Int /\ End(c) \in Int
    BY EndLog, Active, Numbers
  <2> QED BY <2>1, SMT
<1>4. ASSUME NEW s, Valid(s)
      PROVE  Valid(s)' /\ Records(s)' = Records(s)
  <2>1. Valid(s)'
    BY <1>1, <1>4 DEF Valid
  <2>2. CASE s[2] # 1
    BY <1>2, <2>1, <2>2 DEF Records
  <2>3. CASE s[2] = 1
    <3>1. s[1] \in bases /\ s[1] # b
      BY <1>1, <1>4, <2>3 DEF Valid
    <3>2. \A x \in D : b <= x /\ x < End(b) /\ x \in Int
      <4>1. << b, 0 >>[1] = b
        OBVIOUS
      <4> QED BY <4>1, RecordsIn, Numbers
    <3>3. \A x \in s[1] .. End(s[1]) - 1 : x \notin D
      <4>1. s[1] > b => End(b) <= s[1]
        BY <3>1, EndLog
      <4>2. b > s[1] => End(s[1]) <= b
        BY <3>1, EndLog
      <4> QED BY <1>3, <3>1, <3>2, <4>1, <4>2, SMT
    <3> QED BY <1>1, <1>2, <2>1, <2>3, <3>3 DEF Records
  <2> QED BY <2>1, <2>2, <2>3
<1>5. ASSUME NEW c \in bases
      PROVE  Records(current(c))' \subseteq Records(current(c))
  <2>1. CASE c = b
    <3>1. current(c) = << b, 0 >> /\ current(c)' = << b, 1 >>
      BY <1>1, <2>1 DEF current
    <3>2. Records(<< b, 1 >>)' \subseteq Records(<< b, 0 >>)
      <4>1. << b, 1 >>[1] = b /\ << b, 0 >>[1] = b /\ << b, 0 >>[2] # 1
        BY SMT
      <4>2. Records(<< b, 1 >>)' \subseteq b .. End(b)' - 1 /\ Records(<< b, 0 >>) = b .. End(b) - 1
        BY <4>1 DEF Records
      <4> QED BY <1>2, <4>2
    <3> QED BY <3>1, <3>2
  <2>2. CASE c # b
    <3>1. current(c)' = current(c) /\ Valid(current(c))
      <4>1. current(c)' = current(c)
        BY <1>1, <2>2 DEF current
      <4> QED BY <4>1, CurrentValid
    <3> QED BY <1>4, <3>1
  <2> QED BY <2>1, <2>2
<1> QED BY <1>1, <1>2, <1>3, <1>4, <1>5 DEF Grows

\* Every step of the program makes the log grow.
LEMMA NextGrows ==
  ASSUME LogShape, [Next]_vars
  PROVE  Grows
<1>1. CASE Still
  <2>1. bases' = bases /\ next' = next /\ rewritten' = rewritten /\ dropped' = dropped
    BY <1>1 DEF Still
  <2>2. \A c : End(c)' = End(c) /\ current(c)' = current(c)
    BY <2>1 DEF End, activeSegment, current
  <2>3. \A s : Records(s)' = Records(s) /\ (Valid(s)' <=> Valid(s))
    BY <2>1, <2>2 DEF Records, Valid
  <2>4. next \in Int /\ \A c \in bases : End(c) \in Int
    BY EndLog, Active, Numbers
  <2>5. next <= next /\ \A c \in bases : End(c) <= End(c)
    BY <2>4, SMT
  <2> QED BY <2>1, <2>2, <2>3, <2>5 DEF Grows
<1> QED BY <1>1, Kinds, SplitGrows, WriteGrows, ReplaceGrows

-----------------------------------------------------------------------------
(* An uncommitted reader parks at the tail.                                *)

\* What holds of an uncommitted reader u.
UncommittedOK(u) ==
    /\ u \in UncommittedReader
    /\ u.seg[1] \in bases /\ u.at <= next /\ u.offset <= next
    /\ u.pc = "parked" => u.at = next /\ ~Sealed(u.seg[1])

\* The inductive invariant of the uncommitted readers.
UncommittedInv ==
    /\ LogShape
    /\ ur \in [Readers -> UncommittedReader] /\ \A r \in Readers : UncommittedOK(ur[r])

\* A search ends at a segment of the log or finds none.
LEMMA FindIs ==
  ASSUME LogShape, NEW L \in SUBSET bases, NEW o
  PROVE  LET reaching == { b \in L : ~gone(b) /\ NextOffset(current(b)) > o }
         IN  \/ findSegment(L, o) = None /\ reaching = {}
             \/ \E b \in reaching : findSegment(L, o) = current(b) /\ \A c \in reaching : b <= c
<1> DEFINE reaching == { b \in L : ~gone(b) /\ NextOffset(current(b)) > o }
<1>1. CASE reaching = {}
  BY <1>1 DEF findSegment
<1>2. CASE reaching # {}
  <2>1. reaching \in SUBSET Base
    BY Active
  <2>2. Min(reaching) \in reaching /\ \A c \in reaching : Min(reaching) <= c
    BY <1>2, <2>1, BaseMin
  <2>3. findSegment(L, o) = current(Min(reaching))
    BY <1>2 DEF findSegment
  <2> QED BY <2>2, <2>3
<1> QED BY <1>1, <1>2

\* Only the last segment, or the one before it while it is being sealed, is not
\* sealed, and nothing lies after it.
LEMMA UnsealedEnds ==
  ASSUME LogShape, NEW b \in bases, ~Sealed(b)
  PROVE  End(b) = next
<1>1. CASE b = activeSegment
  BY <1>1, EndLog
<1>2. CASE b # activeSegment
  <2> DEFINE T == bases \ {activeSegment}
  <2>1. writer = "seal" /\ b = Max(T)
    BY <1>2 DEF Sealed
  <2>2. next \in bases /\ next # 0
    BY <2>1 DEF LogShape
  <2>3. T \in SUBSET Base /\ T # {}
    BY <1>2, Active
  <2>4. \A c \in T : c <= b
    BY <2>1, <2>3, BaseMax
  <2>5. activeSegment = next
    <3>1. next <= activeSegment /\ activeSegment <= next /\ next \in Int /\ activeSegment \in Int
      BY <2>2, Active, Numbers
    <3> QED BY <3>1, SMT
  <2>6. End(b) \in bases /\ b < End(b) /\ End(b) \in Int /\ b \in Int
    BY <1>2, EndLog, Numbers
  <2>7. ~(End(b) <= b)
    BY <2>6, SMT
  <2> QED BY <2>4, <2>5, <2>6, <2>7
<1> QED BY <1>1, <1>2

\* The steps of the log leave a parked reader at the tail or wake it.
LEMMA ParkedStays ==
  ASSUME LogShape, LogShape', Grows, NEW u, UncommittedOK(u),
         \/ split
         \/ /\ Still
            /\ \/ writer' = writer
               \/ writer # "seal" /\ writer' = "idle"
               \/ u.pc # "parked"
               \/ writer = "seal" /\ writer' = "idle" /\ u.seg[1] # Max(bases \ {activeSegment})
         \/ WriteMessageSet /\ (u.pc # "parked" \/ u.seg[1] # activeSegment)
         \/ \E b \in bases : \E D \in SUBSET Records(<< b, 0 >>) : Replace(b, D)
  PROVE  UncommittedOK(u)'
<1>1. u \in UncommittedReader /\ u.seg[1] \in bases /\ u.at <= next /\ u.offset <= next
  BY DEF UncommittedOK
<1>2. u.seg[1] \in bases' /\ next <= next'
  BY <1>1 DEF Grows
<1>3. u.at <= next' /\ u.offset <= next'
  <2>1. u.at \in Int /\ u.offset \in Int /\ next \in Int /\ next' \in Int
    BY <1>1, Active, Numbers DEF UncommittedReader, LogShape, List
  <2> QED BY <1>1, <1>2, <2>1, SMT
<1>4. ASSUME u.pc = "parked"
      PROVE  u.at = next' /\ ~Sealed(u.seg[1])'
  <2>1. u.at = next /\ ~Sealed(u.seg[1])
    BY <1>4 DEF UncommittedOK
  <2>2. CASE split
    <3>1. /\ writer = "idle" /\ writer' = "seal" /\ next' = next /\ bases' = bases \cup {next}
          /\ next > Max(bases)
      BY <2>2 DEF split, activeSegment
    <3>2. u.seg[1] = activeSegment
      BY <2>1, <3>1 DEF Sealed
    <3>3. activeSegment' = next
      <4>1. List(bases, next)
        BY DEF LogShape
      <4> QED BY <3>1, <4>1, EndRoll DEF activeSegment
    <3>4. next \notin bases
      <4>1. \A b \in bases : b <= Max(bases) /\ b \in Int
        BY Active, Numbers DEF activeSegment
      <4>2. next \in Int /\ Max(bases) \in Int
        BY Active, Numbers DEF activeSegment
      <4> QED BY <3>1, <4>1, <4>2, SMT
    <3>5. bases' \ {activeSegment'} = bases
      BY <3>1, <3>3, <3>4
    <3> QED BY <2>1, <3>1, <3>2, <3>5 DEF Sealed, activeSegment
  <2>3. CASE Still
    <3>1. bases' = bases /\ next' = next /\ activeSegment' = activeSegment
      BY <2>3 DEF Still, activeSegment
    <3>2. ~split /\ ~WriteMessageSet /\ ~\E b \in bases : \E D \in SUBSET Records(<< b, 0 >>) : Replace(b, D)
      <4>1. ~split
        BY <3>1, Active, Numbers, SMT DEF split, activeSegment
      <4>2. ~WriteMessageSet
        BY <3>1, Active, Numbers, SMT DEF WriteMessageSet
      <4> QED BY <2>3, <4>1, <4>2 DEF Still, Replace
    <3> QED BY <1>4, <2>1, <3>1, <3>2 DEF Sealed
  <2>4. CASE WriteMessageSet /\ (u.pc # "parked" \/ u.seg[1] # activeSegment)
    <3>1. u.seg[1] = activeSegment
      BY <2>1, <2>4 DEF Sealed, WriteMessageSet
    <3> QED BY <1>4, <2>4, <3>1
  <2>5. CASE \E b \in bases : \E D \in SUBSET Records(<< b, 0 >>) : Replace(b, D)
    <3>1. bases' = bases /\ next' = next /\ writer' = writer
      BY <2>5 DEF Replace
    <3> QED BY <2>1, <3>1 DEF Sealed, activeSegment
  <2> QED BY <2>2, <2>3, <2>4, <2>5
<1> QED BY <1>1, <1>2, <1>3, <1>4 DEF UncommittedOK

\* A reader that is not parked is as well off at any other step.
LEMMA UnparkedOK ==
  ASSUME NEW u, NEW pc, UncommittedOK(u), pc # "parked",
         pc \in {"new", "resolve", "openSeg", "loop", "eof", "wait", "ended", "closed", "failed"}
  PROVE  UncommittedOK([u EXCEPT !.pc = pc])
<1> DEFINE v == [u EXCEPT !.pc = pc]
<1>1. u \in UncommittedReader
  BY DEF UncommittedOK
<1>2. v \in UncommittedReader
  BY <1>1 DEF UncommittedReader
<1>3. v.pc = pc /\ v.seg = u.seg /\ v.at = u.at /\ v.offset = u.offset
  BY <1>1 DEF UncommittedReader
<1> HIDE DEF v
<1>4. UncommittedOK(v)
  BY <1>2, <1>3 DEF UncommittedOK
<1> QED BY <1>4 DEF v

\* The places a reader is built at.
LEMMA PlaceOK ==
  ASSUME LogShape, NEW r \in Readers, ur[r] \in UncommittedReader, UncommittedOK(ur[r]),
         NEW o \in Base, o <= next, NEW f \in BOOLEAN
  PROVE  UncommittedOK(Place(r, o, f))
<1> DEFINE seg == findSegment(bases, o)
           new == [ur[r] EXCEPT !.offset = o, !.follow = f]
           a == [new EXCEPT !.pc = "openSeg", !.seg = seg, !.at = Max({o, seg[1]})]
           b == [new EXCEPT !.pc = "loop", !.seg = current(activeSegment), !.at = o]
           c == [new EXCEPT !.pc = "failed"]
<1>1. CASE seg # None
  <2>1. Place(r, o, f) = a
    BY <1>1 DEF Place
  <2>2. PICK x \in bases : seg = current(x)
    BY <1>1, FindIs
  <2>3. seg \in Segment /\ seg[1] = x /\ x \in Base /\ x <= next
    BY <2>2, CurrentValid, CurrentIs, Active DEF Valid
  <2>4. Max({o, x}) \in Base /\ Max({o, x}) <= next
    <3>1. {o, x} \in SUBSET Base /\ {o, x} # {}
      BY <2>3
    <3>2. Max({o, x}) \in {o, x}
      BY <3>1, BaseMax
    <3> QED BY <2>3, <3>2
  <2> HIDE DEF seg
  <2>5. a \in UncommittedReader /\ a.seg[1] = x /\ a.at = Max({o, x}) /\ a.offset = o /\ a.pc = "openSeg"
    BY <2>3, <2>4 DEF UncommittedReader
  <2> QED BY <2>1, <2>3, <2>4, <2>5 DEF UncommittedOK
<1>2. CASE seg = None /\ f /\ o = next
  <2>1. Place(r, o, f) = b
    BY <1>2 DEF Place
  <2>2. current(activeSegment) \in Segment /\ current(activeSegment)[1] \in bases
    BY Active, CurrentValid DEF Valid
  <2>3. b \in UncommittedReader /\ b.seg = current(activeSegment) /\ b.at = o /\ b.offset = o /\ b.pc = "loop"
    BY <2>2 DEF UncommittedReader
  <2> QED BY <2>1, <2>2, <2>3 DEF UncommittedOK
<1>3. CASE seg = None /\ ~(f /\ o = next)
  <2>1. Place(r, o, f) = c
    BY <1>3 DEF Place
  <2>2. c \in UncommittedReader /\ c.seg = ur[r].seg /\ c.at = ur[r].at /\ c.offset = o /\ c.pc = "failed"
    BY DEF UncommittedReader
  <2> QED BY <2>1, <2>2 DEF UncommittedOK
<1> QED BY <1>1, <1>2, <1>3

\* The steps of an uncommitted reader.
LEMMA UncommittedStepOK ==
  ASSUME LogShape, NEW r \in Readers, ur[r] \in UncommittedReader, UncommittedOK(ur[r]),
         \/ \E o \in Base, f \in BOOLEAN : NewReaderUncommitted(r, o, f)
         \/ UncommittedStep(r) \/ CancelUncommitted(r)
  PROVE  \E v : Goes(r, v) /\ UncommittedOK(v)
<1> DEFINE u == ur[r]
<1>0. u.seg[1] \in bases /\ u.at \in Base /\ u.at <= next /\ u.offset \in Base /\ u.offset <= next /\ u.follow \in BOOLEAN
  BY DEF UncommittedOK, UncommittedReader
<1>1. classifyReadError \in {"closed", "resolve"}
  BY DEF classifyReadError
<1>2. ASSUME NEW o \in Base, NEW f \in BOOLEAN, NewReaderUncommitted(r, o, f)
      PROVE  \E v : Goes(r, v) /\ UncommittedOK(v)
  <2>1. Goes(r, Place(r, o, f)) /\ (o < next \/ o = next)
    BY <1>2 DEF NewReaderUncommitted
  <2>2. o <= next
    BY <2>1, Active, Numbers, SMT
  <2> QED BY <2>1, <2>2, PlaceOK
<1>3. CASE newReaderUncommitted(r)
  <2>1. UncommittedOK(Place(r, u.offset, u.follow))
    BY <1>0, PlaceOK
  <2>2. UncommittedOK([u EXCEPT !.pc = "loop"]) /\ UncommittedOK([u EXCEPT !.pc = classifyReadError])
    BY <1>1, UnparkedOK
  <2> QED BY <1>3, <2>1, <2>2 DEF newReaderUncommitted
<1>4. CASE ReadUncommitted(r)
  <2> DEFINE rest == From(u.seg, u.at)
             v == [u EXCEPT !.at = Min(rest) + 1, !.offset = Min(rest) + 1]
  <2>1. CASE rest # {} /\ Goes(r, v) /\ u.pc = "loop"
    <3>1. Records(u.seg) \in SUBSET Offset /\ \A x \in Records(u.seg) : x < next
      BY <1>0, RecordsIn
    <3>2. rest \in SUBSET Base /\ rest \subseteq Records(u.seg)
      BY <3>1, Numbers DEF From
    <3>3. Min(rest) \in Records(u.seg) /\ Min(rest) < next /\ Min(rest) \in Offset
      BY <2>1, <3>1, <3>2, BaseMin
    <3> DEFINE n == Min(rest) + 1
    <3>4. n \in Base /\ n <= next
      BY <3>3, Active, ReadersAssumption, SMT DEF Base, Offset
    <3> HIDE DEF n
    <3>5. /\ [u EXCEPT !.at = n, !.offset = n] \in UncommittedReader
          /\ [u EXCEPT !.at = n, !.offset = n].at = n /\ [u EXCEPT !.at = n, !.offset = n].offset = n
          /\ [u EXCEPT !.at = n, !.offset = n].seg = u.seg /\ [u EXCEPT !.at = n, !.offset = n].pc = u.pc
      BY <3>4 DEF UncommittedReader
    <3>6. UncommittedOK([u EXCEPT !.at = n, !.offset = n])
      BY <1>0, <2>1, <3>4, <3>5 DEF UncommittedOK
    <3> QED BY <2>1, <3>6 DEF n
  <2>2. UncommittedOK([u EXCEPT !.pc = "eof"]) /\ UncommittedOK([u EXCEPT !.pc = classifyReadError])
    BY <1>1, UnparkedOK
  <2> QED BY <1>4, <2>1, <2>2 DEF ReadUncommitted
<1>5. CASE AdvanceUncommitted(r)
  <2> DEFINE after == findSegmentAfter(bases, u.seg)
             v == [u EXCEPT !.pc = "loop", !.seg = after, !.at = after[1]]
  <2>1. CASE after # None
    <3>1. after = findSegment(bases, NextOffset(u.seg))
      BY <2>1 DEF findSegmentAfter
    <3>2. PICK x \in bases : after = current(x)
      BY <2>1, <3>1, FindIs
    <3>3. after \in Segment /\ after[1] = x /\ x \in Base /\ x <= next
      BY <3>2, CurrentValid, CurrentIs, Active DEF Valid
    <3>4. Goes(r, v)
      BY <1>5, <2>1 DEF AdvanceUncommitted
    <3> HIDE DEF after
    <3>5. v \in UncommittedReader /\ v.seg[1] = x /\ v.at = x /\ v.offset = u.offset /\ v.pc = "loop"
      BY <3>3 DEF UncommittedReader
    <3> QED BY <1>0, <3>3, <3>4, <3>5 DEF UncommittedOK
  <2>2. CASE after = None
    <3>1. UncommittedOK([u EXCEPT !.pc = "wait"]) /\ UncommittedOK([u EXCEPT !.pc = "ended"])
      BY UnparkedOK
    <3> QED BY <1>5, <2>2, <3>1 DEF AdvanceUncommitted
  <2> QED BY <2>1, <2>2
<1>6. CASE waitForData(r)
  <2>1. CASE Ready(u.seg[1], u.at)
    BY <1>6, <2>1, UnparkedOK DEF waitForData
  <2>2. CASE ~Ready(u.seg[1], u.at)
    <3>1. ~Sealed(u.seg[1]) /\ ~(End(u.seg[1]) > u.at)
      BY <2>2 DEF Ready
    <3>2. End(u.seg[1]) = next
      BY <1>0, <3>1, UnsealedEnds
    <3>3. u.at = next
      BY <1>0, <3>1, <3>2, Active, Numbers, SMT
    <3> DEFINE v == [u EXCEPT !.pc = "parked"]
    <3>4. Goes(r, v)
      BY <1>6, <2>2 DEF waitForData
    <3>5. v \in UncommittedReader /\ v.seg = u.seg /\ v.at = u.at /\ v.offset = u.offset
      BY DEF UncommittedReader
    <3> QED BY <1>0, <3>1, <3>3, <3>4, <3>5 DEF UncommittedOK
  <2> QED BY <2>1, <2>2
<1>7. CASE HangUpUncommitted(r) \/ CancelUncommitted(r)
  <2>1. UncommittedOK([u EXCEPT !.pc = "closed"]) /\ UncommittedOK([u EXCEPT !.pc = "loop"])
    BY UnparkedOK
  <2> QED BY <1>7, <2>1 DEF HangUpUncommitted, CancelUncommitted
<1> QED BY <1>2, <1>3, <1>4, <1>5, <1>6, <1>7 DEF UncommittedStep

\* A change of one reader.
LEMMA UncommittedGoes ==
  ASSUME UncommittedInv, LogShape', NEW r \in Readers, NEW v, Goes(r, v), UncommittedOK(v)
  PROVE  UncommittedInv'
<1>1. ur \in [Readers -> UncommittedReader] /\ \A q \in Readers : UncommittedOK(ur[q])
  BY DEF UncommittedInv
<1>2. /\ ur' = [ur EXCEPT ![r] = v]
      /\ bases' = bases /\ next' = next /\ writer' = writer
  BY DEF Goes, log
<1>3. v \in UncommittedReader
  BY DEF UncommittedOK
<1>4. ur' \in [Readers -> UncommittedReader] /\ \A q \in Readers : UncommittedOK(ur'[q])
  BY <1>1, <1>2, <1>3
<1>5. \A q \in Readers : UncommittedOK(ur[q])'
  BY <1>2, <1>4 DEF UncommittedOK, Sealed, activeSegment
<1> QED BY <1>4, <1>5 DEF UncommittedInv

\* A step of the log, which wakes the readers it has news for.
LEMMA UncommittedWoken ==
  ASSUME UncommittedInv, LogShape', Grows,
         \/ ur' = ur /\ (split \/ \E b \in bases : \E D \in SUBSET Records(<< b, 0 >>) : Replace(b, D))
         \/ ur' = ur /\ Still /\ (writer' = writer \/ (writer # "seal" /\ writer' = "idle"))
         \/ Seal \/ WriteMessageSet
  PROVE  UncommittedInv'
<1>1. LogShape /\ ur \in [Readers -> UncommittedReader] /\ \A q \in Readers : UncommittedOK(ur[q])
  BY DEF UncommittedInv
<1> DEFINE woken(b) == [q \in Readers |->
                          IF ur[q].pc = "parked" /\ ur[q].seg[1] = b THEN [ur[q] EXCEPT !.pc = "loop"]
                          ELSE ur[q]]
<1>2. ASSUME NEW b, NEW q \in Readers, NEW v, v = woken(b)[q]
      PROVE  UncommittedOK(v) /\ ~(v.pc = "parked" /\ v.seg[1] = b) /\ v \in UncommittedReader
  <2>1. CASE ur[q].pc = "parked" /\ ur[q].seg[1] = b
    <3>1. v = [ur[q] EXCEPT !.pc = "loop"]
      BY <1>2, <2>1
    <3>2. UncommittedOK(v)
      BY <1>1, <3>1, UnparkedOK
    <3>3. v.pc = "loop"
      BY <1>1, <3>1 DEF UncommittedReader
    <3> QED BY <3>2, <3>3 DEF UncommittedOK
  <2>2. CASE ~(ur[q].pc = "parked" /\ ur[q].seg[1] = b)
    <3>1. v = ur[q]
      BY <1>2, <2>2
    <3> QED BY <1>1, <2>2, <3>1
  <2> QED BY <2>1, <2>2
<1>3. CASE ur' = ur /\ (split \/ \E b \in bases : \E D \in SUBSET Records(<< b, 0 >>) : Replace(b, D))
  <2>1. ASSUME NEW q \in Readers, NEW v, v = ur[q]
        PROVE  UncommittedOK(v)'
    BY <1>1, <1>3, <2>1, ParkedStays
  <2>2. \A q \in Readers : UncommittedOK(ur[q])'
    BY <1>3, <2>1
  <2> QED BY <1>1, <1>3, <2>2 DEF UncommittedInv
<1>4. CASE ur' = ur /\ Still /\ (writer' = writer \/ (writer # "seal" /\ writer' = "idle"))
  <2>1. ASSUME NEW q \in Readers, NEW v, v = ur[q]
        PROVE  UncommittedOK(v)'
    BY <1>1, <1>4, <2>1, ParkedStays
  <2>2. \A q \in Readers : UncommittedOK(ur[q])'
    BY <1>4, <2>1
  <2> QED BY <1>1, <1>4, <2>2 DEF UncommittedInv
<1>5. CASE Seal
  <2>1. writer = "seal" /\ writer' = "idle" /\ Still /\ ur' = woken(Max(bases \ {activeSegment}))
    BY <1>5 DEF Seal, Still, notifyWaiters
  <2>2. ASSUME NEW q \in Readers, NEW v, v = ur'[q]
        PROVE  UncommittedOK(v)' /\ v \in UncommittedReader
    BY <1>1, <1>2, <2>1, <2>2, ParkedStays
  <2>3. ur' \in [Readers -> UncommittedReader]
    BY <2>1, <2>2
  <2>4. \A q \in Readers : UncommittedOK(ur[q])'
    BY <2>2
  <2> QED BY <2>3, <2>4 DEF UncommittedInv
<1>6. CASE WriteMessageSet
  <2>1. ur' = woken(activeSegment)
    BY <1>6 DEF WriteMessageSet, notifyWaiters
  <2>2. ASSUME NEW q \in Readers, NEW v, v = ur'[q]
        PROVE  UncommittedOK(v)' /\ v \in UncommittedReader
    BY <1>1, <1>2, <1>6, <2>1, <2>2, ParkedStays
  <2>3. ur' \in [Readers -> UncommittedReader]
    BY <2>1, <2>2
  <2>4. \A q \in Readers : UncommittedOK(ur[q])'
    BY <2>2
  <2> QED BY <2>3, <2>4 DEF UncommittedInv
<1> QED BY <1>3, <1>4, <1>5, <1>6

\* At the start there is one empty segment and no reader has been built.
LEMMA ShapeInit ==
  ASSUME Init
  PROVE  LogShape
<1>1. /\ setting \in Settings /\ bases = {0} /\ rewritten = {} /\ dropped = {} /\ next = 0
      /\ writer = "idle" /\ hw = -1
  BY DEF Init
<1>2. 0 \in Base /\ 0 <= 0
  BY Numbers, SMT
<1> QED BY <1>1, <1>2 DEF LogShape, List

\* Readers start out unparked.
LEMMA UncommittedInit ==
  ASSUME Init
  PROVE  UncommittedInv
<1> DEFINE u == [pc |-> "new", offset |-> 0, seg |-> << 0, 0 >>, at |-> 0, follow |-> TRUE]
<1>1. ur = [r \in Readers |-> u] /\ bases = {0} /\ next = 0
  BY DEF Init
<1>2. 0 \in Base /\ 0 <= 0
  BY Numbers, SMT
<1>3. u \in UncommittedReader
  BY <1>2 DEF UncommittedReader, Segment
<1>4. UncommittedOK(u)
  BY <1>1, <1>2, <1>3 DEF UncommittedOK
<1> HIDE DEF u
<1> QED BY <1>1, <1>3, <1>4, ShapeInit DEF UncommittedInv

\* Every step keeps UncommittedInv.
LEMMA UncommittedNext ==
  ASSUME UncommittedInv, [Next]_vars
  PROVE  UncommittedInv'
<1>1. LogShape /\ ur \in [Readers -> UncommittedReader] /\ \A r \in Readers : UncommittedOK(ur[r])
  BY DEF UncommittedInv
<1>2. LogShape' /\ Grows
  BY <1>1, ShapeStep, NextGrows
<1>3. ASSUME NEW r \in Readers,
             \/ \E o \in Base, f \in BOOLEAN : NewReaderUncommitted(r, o, f)
             \/ UncommittedStep(r) \/ CancelUncommitted(r)
      PROVE  UncommittedInv'
  <2>1. PICK v : Goes(r, v) /\ UncommittedOK(v)
    BY <1>1, <1>3, UncommittedStepOK
  <2> QED BY <1>2, <2>1, UncommittedGoes
<1>4. ASSUME NEW r \in Readers, NEW new, Becomes(r, new)
      PROVE  ur' = ur /\ Still /\ writer' = writer
  BY <1>4 DEF Becomes, Still, log
<1>5. ASSUME NEW r \in Readers, CommittedStep(r) \/ Cancel(r)
      PROVE  ur' = ur /\ Still /\ writer' = writer
  <2>1. CASE newReaderCommitted(r) \/ Position(r) \/ PositionSegment(r)
    BY <1>4, <2>1 DEF newReaderCommitted, Position, PositionSegment
  <2>2. CASE Read(r) \/ readLoop(r) \/ Advance(r)
    BY <1>4, <2>2 DEF Read, readLoop, Advance
  <2>3. CASE syncHW(r) \/ getHWPos(r) \/ waitForHW(r) \/ HangUp(r) \/ Cancel(r)
    BY <1>4, <2>3 DEF syncHW, getHWPos, waitForHW, HangUp, Cancel
  <2> QED BY <1>5, <2>1, <2>2, <2>3 DEF CommittedStep
<1>6. ASSUME NEW r \in Readers, NEW o \in Base, NEW f \in BOOLEAN, NewReader(r, o, f)
      PROVE  ur' = ur /\ Still /\ writer' = writer
  BY <1>4, <1>6 DEF NewReader
<1>7. CASE SetReadonly \/ SetReadonlyNotify \/ Close \/ UNCHANGED vars \/ \E h \in Offset : SetHighWatermark(h)
  <2>1. ur' = ur /\ Still /\ writer' = writer
    BY <1>7 DEF SetReadonly, SetReadonlyNotify, Close, vars, SetHighWatermark, log, Still
  <2> QED BY <1>2, <2>1, UncommittedWoken
<1>8. CASE NotifyLEO \/ WaitForLEO
  <2>1. ur' = ur /\ Still /\ writer' = writer
    BY <1>8 DEF NotifyLEO, WaitForLEO, Waits, log, Still
  <2> QED BY <1>2, <2>1, UncommittedWoken
<1>9. CASE appendWith
  <2>1. ur' = ur /\ Still /\ writer # "seal" /\ writer' = "idle"
    BY <1>9 DEF appendWith, Still
  <2> QED BY <1>2, <2>1, UncommittedWoken
<1>10. CASE split
  <2>1. ur' = ur
    BY <1>10 DEF split
  <2> QED BY <1>2, <1>10, <2>1, UncommittedWoken
<1>11. ASSUME NEW b \in bases, NEW D \in SUBSET Records(<< b, 0 >>), Replace(b, D)
       PROVE  UncommittedInv'
  <2>1. ur' = ur
    BY <1>11 DEF Replace
  <2> QED BY <1>2, <1>11, <2>1, UncommittedWoken
<1>12. CASE Seal \/ WriteMessageSet
  BY <1>2, <1>12, UncommittedWoken
<1>13. ASSUME ur' = ur /\ Still /\ writer' = writer
       PROVE  UncommittedInv'
  BY <1>2, <1>13, UncommittedWoken
<1> QED
  BY <1>3, <1>5, <1>6, <1>7, <1>8, <1>9, <1>10, <1>11, <1>12, <1>13 DEF Next

\* For any readers, offsets and settings, a parked uncommitted reader is at the end of
\* the log, in a segment that will still be written or sealed, either of which wakes
\* it (segment.go, waitForData, notifyWaiters, Seal; commitlog.go, split).
THEOREM ReadersParkAtTheTail == Spec => []ParkedAtTail
<1>1. UncommittedInv => ParkedAtTail
  BY DEF UncommittedInv, UncommittedOK, ParkedAtTail
<1> QED BY <1>1, UncommittedInit, UncommittedNext, PTL DEF Spec

-----------------------------------------------------------------------------
(* What a search finds.                                                    *)

\* What compaction dropped is committed, and the log still holds the watermark's record.
DroppedBelow ==
    /\ \A o \in dropped : o < hw
    /\ dropped # {} => May("compact")
    /\ May("compact") => hw < next

\* A list that a reader walks: the log's up to a segment that was the active one
\* when the list was taken and has not been rewritten since.
SnapOK(L) ==
    /\ L \in SUBSET bases /\ 0 \in L
    /\ Max(L) \notin rewritten
    /\ \A b \in bases : b <= Max(L) => b \in L

\* The first record of the log from h on is in the segment s.
HoldsBound(s, h) ==
    /\ Valid(s) /\ 0 <= h /\ s[1] <= hw
    /\ From(s, h) # {} /\ Min(From(s, h)) <= hw
    /\ \A b \in bases : b < s[1] => From(current(b), h) = {}

\* NextOffset is the end of the last record, or the base of an empty segment.
LEMMA NextOffsetIs ==
  ASSUME LogShape, NEW s, s[1] \in bases
  PROVE  /\ NextOffset(s) \in Base /\ s[1] <= NextOffset(s) /\ NextOffset(s) <= End(s[1])
         /\ \A x \in Records(s) : x < NextOffset(s)
         /\ Records(s) = {} => NextOffset(s) = s[1]
         /\ Records(s) # {} => \E x \in Records(s) : NextOffset(s) = x + 1
<1>1. Records(s) \in SUBSET Offset /\ \A x \in Records(s) : s[1] <= x /\ x < End(s[1])
  BY RecordsIn
<1>2. s[1] \in Base /\ End(s[1]) \in Base /\ s[1] <= End(s[1])
  BY EndLog
<1>3. CASE Records(s) = {}
  <2>1. NextOffset(s) = s[1] /\ s[1] <= s[1]
    BY <1>2, <1>3, Numbers, SMT DEF NextOffset
  <2> QED BY <1>2, <1>3, <2>1
<1>4. CASE Records(s) # {}
  <2>1. Records(s) \in SUBSET Base
    BY <1>1, Numbers
  <2> DEFINE m == Max(Records(s))
  <2>2. m \in Records(s) /\ \A x \in Records(s) : x <= m
    BY <1>4, <2>1, BaseMax
  <2>3. NextOffset(s) = m + 1
    BY <1>4 DEF NextOffset
  <2> HIDE DEF m
  <2>4. m \in Offset /\ s[1] <= m /\ m < End(s[1])
    BY <1>1, <2>2
  <2>5. m + 1 \in Base /\ s[1] <= m + 1 /\ m + 1 <= End(s[1])
    BY <1>2, <2>4, ReadersAssumption, SMT DEF Base, Offset
  <2>6. \A x \in Records(s) : x < m + 1
    <3>1. \A x \in Records(s) : x \in Int /\ x <= m
      BY <1>1, <2>2, Numbers
    <3> QED BY <2>4, <3>1, Numbers, SMT
  <2> QED BY <1>4, <2>2, <2>3, <2>5, <2>6
<1> QED BY <1>3, <1>4

\* A segment that the search stops at has a record from o on, or is the empty
\* active one.
LEMMA Reaching ==
  ASSUME LogShape, NEW b \in bases, NEW o \in Int
  PROVE  (~gone(b) /\ NextOffset(current(b)) > o)
            <=> \/ From(current(b), o) # {}
                \/ b \notin rewritten /\ Records(current(b)) = {} /\ b > o /\ b = next
<1> DEFINE s == current(b)
<1>1. s[1] = b
  BY CurrentIs
<1>2. b \in Int
  BY Active, Numbers
<1>3. CASE Records(s) = {}
  <2>1. NextOffset(s) = b /\ From(s, o) = {}
    BY <1>1, <1>3, NextOffsetIs DEF From
  <2>2. gone(b) <=> b \in rewritten
    BY <1>3 DEF gone
  <2>3. ASSUME b \notin rewritten
        PROVE  b = next
    <3>1. s[2] # 1
      BY <2>3, CurrentIs, SMT
    <3>2. Records(s) = b .. End(b) - 1
      BY <1>1, <3>1 DEF Records
    <3>3. End(b) \in Int /\ b <= End(b)
      BY EndLog, Numbers
    <3>4. ~(b < End(b))
      BY <1>2, <1>3, <3>2, <3>3, SMT
    <3>5. b = activeSegment /\ End(b) = next
      BY <3>4, EndLog
    <3> QED BY <1>2, <3>3, <3>4, <3>5, SMT
  <2> QED BY <1>3, <2>1, <2>2, <2>3
<1>4. CASE Records(s) # {}
  <2>1. ~gone(b)
    BY <1>4 DEF gone
  <2>2. PICK x \in Records(s) : NextOffset(s) = x + 1
    BY <1>1, <1>4, NextOffsetIs
  <2>3. \A y \in Records(s) : y < NextOffset(s) /\ y \in Int
    BY <1>1, NextOffsetIs, RecordsIn, Numbers
  <2>4. NextOffset(s) > o <=> \E y \in Records(s) : y >= o
    BY <2>2, <2>3, SMT
  <2> QED BY <1>4, <2>1, <2>4 DEF From
<1> QED BY <1>3, <1>4

\* The log holds a record between any offset below the watermark and the watermark.
LEMMA KeptBelow ==
  ASSUME LogShape, DroppedBelow, NEW x \in Nat, x < next, x <= hw
  PROVE  \E y \in Nat : x <= y /\ y <= hw /\ y < next /\ y \notin dropped
<1>1. hw \in Int /\ next \in Int
  BY Active, Numbers, SMT DEF LogShape
<1>2. CASE dropped = {}
  BY <1>2, SMT
<1>3. CASE dropped # {}
  <2>1. hw < next /\ hw \notin dropped
    <3>1. hw < next
      BY <1>3 DEF DroppedBelow
    <3>2. ~(hw < hw)
      BY <1>1, SMT
    <3> QED BY <3>1, <3>2 DEF DroppedBelow
  <2> QED BY <1>1, <2>1, SMT
<1> QED BY <1>2, <1>3

\* A record that is kept is in the current version of its segment.
LEMMA KeptIn ==
  ASSUME LogShape, NEW y \in Nat, y < next, y \notin dropped
  PROVE  \E b \in bases : b <= y /\ y < End(b) /\ y \in Records(current(b))
<1>1. PICK b \in bases : b <= y /\ y < EndOf(bases, next, b)
  BY Holder DEF LogShape
<1>2. End(b) = EndOf(bases, next, b)
  BY DEF End, EndOf, activeSegment
<1>3. b \in Int /\ End(b) \in Int
  BY EndLog, Numbers
<1>4. y \in b .. End(b) - 1
  BY <1>1, <1>2, <1>3, SMT
<1>5. y \in Records(current(b))
  BY <1>4, CurrentIs DEF Records
<1> QED BY <1>1, <1>2, <1>5

\* A search finds a segment when one of the list has a record that late.
LEMMA FindSome ==
  ASSUME LogShape, NEW L \in SUBSET bases, NEW o \in Int, NEW d \in L, From(current(d), o) # {}
  PROVE  findSegment(L, o) # None
<1> DEFINE reaching == { b \in L : ~gone(b) /\ NextOffset(current(b)) > o }
<1>1. d \in reaching
  BY Reaching
<1>2. PICK b \in reaching : findSegment(L, o) = current(b)
  BY <1>1, FindIs
<1>3. current(b)[1] = b /\ b \in Base
  BY <1>2, CurrentIs, Active
<1>4. None[1] = -1 /\ -1 \notin Base
  BY ReadersAssumption, SMT DEF None, Base
<1> QED BY <1>2, <1>3, <1>4

\* Where a search for x ends, x being committed and on the list: at the segment
\* holding the first record from x on, which is committed too; what lies between was
\* dropped (findSegment, reader.go, getHWPos).
LEMMA Locate ==
  ASSUME LogShape, DroppedBelow, NEW L, SnapOK(L), NEW x \in Nat, x < End(Max(L)), x <= hw
  PROVE  LET s == findSegment(L, x)
         IN  /\ s # None /\ HoldsBound(s, x) /\ ~left(s) /\ s[1] \in L
             /\ x .. s[1] - 1 \subseteq dropped
<1> DEFINE s == findSegment(L, x)
           m == Max(L)
<1>0. x \in Int
  BY SMT
<1>1. L \in SUBSET bases /\ L # {} /\ (\A b \in bases : b <= m => b \in L) /\ m \notin rewritten
  BY DEF SnapOK
<1>2. m \in L /\ m \in bases
  <2>1. L \in SUBSET Base
    BY <1>1, Active
  <2> QED BY <1>1, <2>1, BaseMax
<1>3. hw \in Int /\ next \in Int /\ \A b \in bases : b \in Int /\ End(b) \in Int
  <2>1. \A z \in Offset \cup {-1} : z \in Int
    BY Numbers, SMT
  <2> QED BY <2>1, EndLog, Active, Numbers DEF LogShape
<1> HIDE DEF m
<1>4. End(m) <= next /\ x < End(m)
  BY <1>2, EndLog DEF m
<1>5. x < next
  BY <1>2, <1>3, <1>4, SMT
<1>6. PICK y \in Nat : x <= y /\ y <= hw /\ y < next /\ y \notin dropped
  BY <1>5, KeptBelow
<1>7. PICK d \in bases : d <= y /\ y < End(d) /\ y \in Records(current(d))
  BY <1>6, KeptIn
<1>8. From(current(d), x) # {}
  <2>1. y >= x
    BY <1>6, SMT
  <2> QED BY <1>7, <2>1 DEF From
<1>9. s # None
  <2>1. CASE d <= m
    <3>1. d \in L
      BY <1>1, <2>1
    <3> QED BY <1>0, <1>1, <1>8, <3>1, FindSome
  <2>2. CASE ~(d <= m)
    <3>1. m # activeSegment
      BY <1>7, <2>2, Active
    <3>2. m < End(m)
      BY <1>2, <3>1, EndLog
    <3> DEFINE e == End(m) - 1
    <3>3. e \in m .. End(m) - 1 /\ e >= x
      BY <1>2, <1>3, <1>4, <3>2, SMT
    <3>4. current(m)[2] # 1 /\ current(m)[1] = m
      BY <1>1, CurrentIs, SMT
    <3>5. e \in From(current(m), x)
      BY <3>3, <3>4 DEF From, Records
    <3>6. From(current(m), x) # {}
      BY <3>5
    <3> QED BY <1>0, <1>1, <1>2, <3>6, FindSome
  <2> QED BY <2>1, <2>2
<1>10. PICK b \in L : /\ ~gone(b) /\ NextOffset(current(b)) > x /\ s = current(b)
                      /\ \A c \in L : ~gone(c) /\ NextOffset(current(c)) > x => b <= c
  BY <1>1, <1>9, FindIs, ZenonT(30)
<1> HIDE DEF s
<1>11. b \in bases /\ b \in Int /\ b <= m /\ s[1] = b /\ Valid(s) /\ ~left(s)
  <2>1. b \in bases /\ b <= m
    <3>1. L \in SUBSET Base /\ L # {}
      BY <1>1, Active
    <3> QED BY <1>1, <3>1, BaseMax DEF m
  <2> QED BY <1>3, <1>10, <2>1, CurrentIs, CurrentValid DEF left
<1>12. ASSUME NEW c \in bases, c < b
       PROVE  From(current(c), x) = {}
  <2>1. c <= m /\ ~(b <= c)
    BY <1>2, <1>3, <1>11, <1>12, SMT
  <2>2. c \in L
    BY <1>1, <2>1
  <2> QED BY <1>0, <1>10, <2>1, <2>2, Reaching
<1>13. b <= d
  <2>1. ~(d < b)
    BY <1>8, <1>12
  <2> QED BY <1>3, <1>11, <2>1, SMT
<1>14. From(s, x) # {}
  <2> SUFFICES ASSUME From(s, x) = {}
               PROVE  FALSE
    OBVIOUS
  <2>1. b = next
    BY <1>0, <1>10, <1>11, Reaching
  <2> QED BY <1>3, <1>6, <1>7, <1>11, <1>13, <2>1, SMT
<1> DEFINE f == Min(From(s, x))
<1>15. f \in Records(s) /\ (\A z \in From(s, x) : f <= z) /\ f \in Int /\ b <= f /\ f < End(b)
  <2>1. Records(s) \in SUBSET Offset /\ \A z \in Records(s) : b <= z /\ z < End(b)
    BY <1>11, RecordsIn
  <2>2. From(s, x) \in SUBSET Base /\ From(s, x) \subseteq Records(s)
    BY <2>1, Numbers DEF From
  <2>3. f \in From(s, x) /\ \A z \in From(s, x) : f <= z
    BY <1>14, <2>2, BaseMin
  <2> QED BY <2>1, <2>2, <2>3, Numbers
<1> HIDE DEF f
<1>16. f <= hw
  <2>1. CASE d = b
    <3>1. y \in From(s, x)
      <4>1. y >= x
        BY <1>6, SMT
      <4> QED BY <1>7, <1>10, <2>1, <4>1 DEF From
    <3> QED BY <1>3, <1>6, <1>15, <3>1, SMT
  <2>2. CASE d # b
    <3>1. d > b
      BY <1>3, <1>11, <1>13, <2>2, SMT
    <3>2. End(b) <= d
      BY <1>11, <3>1, EndLog
    <3> QED BY <1>3, <1>6, <1>7, <1>11, <1>15, <3>2, SMT
  <2> QED BY <2>1, <2>2
<1>17. b <= hw
  BY <1>3, <1>11, <1>15, <1>16, SMT
<1>18. ASSUME NEW z \in x .. b - 1
       PROVE  z \in dropped
  <2> SUFFICES ASSUME z \notin dropped
               PROVE  FALSE
    OBVIOUS
  <2>1. b <= next
    BY <1>11, Active
  <2>2. z \in Nat /\ z < next /\ z >= x /\ z < b
    BY <1>3, <1>11, <2>1, SMT
  <2>3. PICK c \in bases : c <= z /\ z < End(c) /\ z \in Records(current(c))
    BY <2>2, KeptIn
  <2>4. c < b
    BY <1>3, <1>11, <2>2, <2>3, SMT
  <2>5. z \in From(current(c), x)
    BY <2>2, <2>3 DEF From
  <2> QED BY <1>12, <2>4, <2>5
<1>19. 0 <= x
  BY SMT
<1>20. HoldsBound(s, x)
  BY <1>11, <1>12, <1>14, <1>16, <1>17, <1>19 DEF HoldsBound, f
<1> QED BY <1>9, <1>10, <1>11, <1>18, <1>20 DEF s

-----------------------------------------------------------------------------
(* Committed readers: the invariant.                                       *)

\* In this setting no watermark moves back, no segment is rewritten under a reader that
\* relies on it, and compaction does not run beside a watermark that leads the tail.
Quiet ==
    /\ ~May("override") /\ ~May("rewrite under a reader")
    /\ ~May("lead") \/ ~May("compact")

\* The reader c is in a segment at or before its bound's, and has skipped nothing.
InPlace(c) ==
    /\ c.hwSeg # None /\ Valid(c.seg)
    /\ left(c.seg) => End(c.seg[1]) <= hw + 1
    /\ \/ c.seg = c.hwSeg
       \/ c.seg[1] < c.hwSeg[1]
       \/ c.seg[1] = c.hwSeg[1] /\ left(c.seg)
    /\ c.seg # c.hwSeg /\ c.pc # "locateHW" => ~left(c.hwSeg)
    /\ c.pc # "openSeg" => c.at <= End(c.seg[1]) /\ c.at .. c.seg[1] - 1 \subseteq dropped

\* The list c walks reaches past its bound and contains the bound's segment.
Walks(c) ==
    /\ SnapOK(c.snap) /\ c.hw < End(Max(c.snap))
    /\ c.hwSeg # None => c.hwSeg[1] \in c.snap

\* What holds at each step of c.
AtStep(c) ==
    /\ c.pc # "failed"
    /\ c.pc \in {"open", "openHW", "openSeg", "loop", "eof", "clamp", "locate", "locateHW", "locateSeg"}
         => c.snap # {}
    /\ c.pc \in {"new", "list", "open", "openHW", "resolve"} => c.seg = None
    /\ c.pc \in {"new", "list", "open", "resolve"} => c.hwSeg = None
    /\ c.pc = "openHW" => c.hwSeg # None /\ c.offset <= c.hw
    /\ c.pc = "openSeg" =>
         /\ c.seg # None /\ c.offset <= c.hw
         /\ From(c.seg, c.offset) # {} /\ c.offset .. c.seg[1] - 1 \subseteq dropped
    /\ c.pc \in {"loop", "eof", "locateSeg"} => c.seg # None
    /\ c.pc \in {"read", "sync", "snapshot", "clamp", "locate", "register", "parked"} /\ c.seg = None
         => c.at = c.hw + 1
    /\ c.pc \in {"sync", "snapshot", "clamp", "locate", "register", "parked"} /\ c.seg # None
         => c.seg = c.hwSeg
    /\ c.pc = "locateHW" => c.hwSeg # None /\ (c.seg = None => c.at <= c.hw)
    /\ c.pc = "locateSeg" => From(c.seg, c.at) # {}
    /\ c.pc \in {"snapshot", "clamp"} => c.hw <= c.raw
    /\ c.pc = "locate" => c.hw < c.raw /\ c.hw + 1 < End(Max(c.snap))
    /\ c.pc = "eof" => c.seg[1] < c.hwSeg[1] /\ From(c.seg, c.at) = {}

\* c has served every record below its place that is kept.
Served(c) ==
    c.pc \notin {"new", "list", "open", "openHW", "openSeg", "resolve", "closed"} /\ ~c.above
        => c.offset <= c.at /\ c.offset .. c.at - 1 \subseteq dropped

\* What holds of a committed reader c.
CommittedOK(c) ==
    /\ c \in CommittedReader
    /\ c.raw <= hw /\ c.hw <= hw /\ c.hw < next /\ c.at <= hw + 1
    /\ c.hwSeg # None => HoldsBound(c.hwSeg, c.hw)
    /\ c.seg # None => InPlace(c)
    /\ c.snap # {} => Walks(c)
    /\ AtStep(c) /\ Served(c)

\* What holds of all of them.
CommittedInv ==
    /\ DroppedBelow
    /\ cr \in [Readers -> CommittedReader] /\ \A r \in Readers : CommittedOK(cr[r])

\* The inductive invariant of the committed readers.
QuietInv == LogShape /\ (Quiet => CommittedInv)

-----------------------------------------------------------------------------
(* What a step of the log leaves true of a committed reader.               *)

\* The reader c relies on the segment s: Relied, for one reader.
Relies(c, s) ==
    \/ c.hwSeg = s /\ c.seg # s /\ c.pc \notin {"openHW", "locateHW"}
    \/ c.seg = s /\ NextOffset(s) > hw + 1
    \/ c.snap # {} /\ Max(c.snap) = s[1]

\* The places of a reader are integers.
LEMMA ReaderNumbers ==
  ASSUME NEW c \in CommittedReader
  PROVE  /\ c.offset \in Int /\ c.at \in Int /\ c.hw \in Int /\ c.raw \in Int
         /\ 0 <= c.offset /\ 0 <= c.at /\ c.offset \in Nat /\ c.at \in Nat
         /\ -1 <= c.hw /\ -1 <= c.raw
<1>1. /\ c.offset \in Base /\ c.at \in Base
      /\ c.hw \in Offset \cup {-1} /\ c.raw \in Offset \cup {-1}
  BY DEF CommittedReader
<1>2. \A x \in Offset \cup {-1} : x \in Int /\ -1 <= x
  BY ReadersAssumption, SMT DEF Offset
<1> QED BY <1>1, <1>2, Numbers

\* The watermark and the log's ends are integers.
LEMMA LogNumbers ==
  ASSUME LogShape
  PROVE  hw \in Int /\ -1 <= hw /\ next \in Int /\ \A b \in bases : b \in Int /\ End(b) \in Int /\ 0 <= b
<1>1. \A z \in Offset \cup {-1} : z \in Int /\ -1 <= z
  BY ReadersAssumption, SMT DEF Offset
<1> QED BY <1>1, EndLog, Active, Numbers DEF LogShape

\* So they are after a step.
LEMMA NextNumbers ==
  ASSUME LogShape'
  PROVE  /\ hw' \in Int /\ next' \in Int
         /\ \A b \in bases' : b \in Int /\ End(b)' \in Int
         /\ \A s : s[1] \in bases' => Records(s)' \in SUBSET Offset
<1>1. \A z \in Offset \cup {-1} : z \in Int
  BY ReadersAssumption, SMT DEF Offset
<1>2. List(bases', next') /\ hw' \in Offset \cup {-1} /\ next' \in Base
  BY DEF LogShape, List
<1>3. ASSUME NEW b \in bases'
      PROVE  b \in Base /\ End(b)' \in Base /\ End(b)' <= next'
  <2>1. End(b)' = EndOf(bases', next', b)
    BY DEF End, EndOf, activeSegment
  <2>2. EndOf(bases', next', b) \in Base /\ b \in Base /\ EndOf(bases', next', b) <= next'
    BY <1>2, EndIs
  <2> QED BY <2>1, <2>2
<1>4. ASSUME NEW s, s[1] \in bases'
      PROVE  Records(s)' \in SUBSET Offset
  <2>1. s[1] \in Base /\ End(s[1])' \in Base
    BY <1>3, <1>4
  <2>2. \A x \in s[1] .. End(s[1])' - 1 : x \in Offset
    BY <2>1, ReadersAssumption, SMT DEF Base, Offset
  <2> QED BY <2>2 DEF Records
<1> QED BY <1>1, <1>2, <1>3, <1>4, Numbers

\* A segment leaves the log for good, and when it is rewritten.
LEMMA LeftKeeps ==
  ASSUME LogShape, Grows, NEW s, Valid(s)
  PROVE  /\ left(s) => left(s)' /\ s[1] \in rewritten
         /\ left(s)' /\ ~left(s) => s[1] \in rewritten' \ rewritten /\ s = << s[1], 0 >>
<1>1. rewritten \subseteq rewritten'
  BY DEF Grows
<1>2. s \in Segment /\ (s[2] = 1 => s[1] \in rewritten)
  BY DEF Valid
<1>3. s = << s[1], s[2] >> /\ s[2] \in {0, 1}
  BY <1>2, SMT DEF Segment
<1>4. 0 # 1
  BY SMT
<1>5. left(s) => s[1] \in rewritten /\ s[2] = 0
  BY <1>2, <1>3, <1>4 DEF left, current
<1>6. left(s) => left(s)'
  <2>1. ASSUME left(s) PROVE left(s)'
    <3>1. s[1] \in rewritten' /\ s[2] = 0
      BY <1>1, <1>5, <2>1
    <3>2. current(s[1])' = << s[1], 1 >>
      BY <3>1 DEF current
    <3>3. << s[1], 1 >>[2] = 1
      OBVIOUS
    <3> QED BY <1>4, <3>1, <3>2, <3>3 DEF left
  <2> QED BY <2>1
<1>7. ASSUME left(s)', ~left(s)
      PROVE  s[1] \in rewritten' \ rewritten /\ s = << s[1], 0 >>
  <2>1. s = current(s[1]) /\ s # current(s[1])'
    BY <1>7 DEF left
  <2> QED BY <1>1, <2>1 DEF current
<1> QED BY <1>5, <1>6, <1>7

\* The bound stays where it is.
LEMMA HoldsKeeps ==
  ASSUME LogShape, LogShape', Grows, hw <= hw', NEW s, NEW h \in Int, HoldsBound(s, h)
  PROVE  HoldsBound(s, h)'
<1>1. /\ Valid(s) /\ 0 <= h /\ s[1] <= hw /\ From(s, h) # {} /\ Min(From(s, h)) <= hw
      /\ \A b \in bases : b < s[1] => From(current(b), h) = {}
  BY DEF HoldsBound
<1>2. Valid(s)' /\ Records(s) \subseteq Records(s)'
  BY <1>1 DEF Grows
<1>3. s[1] \in bases /\ s[1] \in bases'
  BY <1>1, <1>2 DEF Valid
<1>4. From(s, h) \subseteq From(s, h)'
  BY <1>2 DEF From
<1>5. From(s, h) \in SUBSET Base /\ From(s, h)' \in SUBSET Base
  <2>1. Records(s) \in SUBSET Offset /\ Records(s)' \in SUBSET Offset
    <3>1. Records(s)' \in SUBSET Offset
      BY <1>3, NextNumbers
    <3> QED BY <1>3, <3>1, RecordsIn
  <2> QED BY <2>1, Numbers DEF From
<1> DEFINE F == From(s, h)
           G == From(s, h)'
<1>6. F # {} /\ G # {} /\ F \subseteq G /\ F \in SUBSET Base /\ G \in SUBSET Base
  BY <1>1, <1>4, <1>5
<1>7. Min(F) \in G /\ Min(G) <= Min(F) /\ Min(F) \in Int /\ Min(G) \in Int
  <2> HIDE DEF F, G
  <2>1. Min(F) \in F /\ Min(G) \in G /\ \A z \in G : Min(G) <= z
    BY <1>6, BaseMin
  <2> QED BY <1>6, <2>1, Numbers
<1>8. hw \in Int /\ hw' \in Int /\ \A b \in bases' : b \in Int
  <2>1. hw' \in Int /\ \A b \in bases' : b \in Int
    BY NextNumbers
  <2> QED BY <2>1, LogNumbers
<1>9. Min(F) <= hw
  BY <1>1
<1>10. Min(G) <= hw' /\ s[1] <= hw'
  <2> HIDE DEF F, G
  <2> QED BY <1>1, <1>3, <1>7, <1>8, <1>9, SMT
<1>11. ASSUME NEW b \in bases', b < s[1]
       PROVE  From(current(b), h)' = {}
  <2>1. b \in bases
    <3>1. b \notin bases => s[1] < b
      BY <1>3 DEF Grows
    <3>2. ~(s[1] < b)
      BY <1>3, <1>8, <1>11, SMT
    <3> QED BY <3>1, <3>2
  <2>2. b # activeSegment
    <3>1. s[1] <= activeSegment /\ activeSegment \in Int /\ b \in Int /\ s[1] \in Int
      BY <1>3, <1>8, Active, Numbers
    <3> QED BY <1>11, <3>1, SMT
  <2>3. Records(current(b))' \subseteq Records(current(b))
    BY <2>1, <2>2 DEF Grows
  <2>4. From(current(b), h) = {}
    BY <1>1, <1>11, <2>1
  <2> QED BY <2>3, <2>4 DEF From
<1>12. (Min(From(s, h)) <= hw)'
  BY <1>10
<1> HIDE DEF F, G
<1>13. (From(s, h) # {})'
  BY <1>6 DEF G
<1> QED BY <1>1, <1>2, <1>10, <1>11, <1>12, <1>13 DEF HoldsBound

\* A reader keeps its place unless the segment it relies on is rewritten.
LEMMA PlaceKeeps ==
  ASSUME LogShape, LogShape', Grows, hw <= hw', NEW c, CommittedOK(c), c.seg # None,
         \A b \in rewritten' \ rewritten : b \in bases /\ b # activeSegment /\ ~Relies(c, << b, 0 >>)
  PROVE  InPlace(c)'
<1>1. InPlace(c) /\ AtStep(c) /\ c \in CommittedReader
  BY DEF CommittedOK
<1>2. Valid(c.seg) /\ Valid(c.hwSeg) /\ c.hwSeg # None
  BY <1>1 DEF InPlace, CommittedOK, HoldsBound
<1>3. c.seg[1] \in bases /\ Valid(c.seg)'
  BY <1>2 DEF Valid, Grows
<1> DEFINE b == c.seg[1]
<1>4. End(b) \in Int /\ End(b)' \in Int /\ End(b) <= End(b)' /\ hw \in Int /\ hw' \in Int /\ b \in Int
  <2>1. b \in bases'
    BY <1>3 DEF Grows
  <2>2. End(b)' \in Int /\ hw' \in Int
    BY <2>1, NextNumbers
  <2> QED BY <1>3, <2>2, LogNumbers DEF Grows
<1>5. ASSUME left(c.seg)'
      PROVE  (End(c.seg[1]) <= hw + 1)'
  <2>1. CASE left(c.seg)
    <3>1. End(b) <= hw + 1
      BY <1>1, <2>1 DEF InPlace
    <3>2. b # activeSegment
      BY <1>2, <2>1, LeftKeeps DEF LogShape
    <3>3. End(b)' = End(b)
      BY <1>3, <3>2 DEF Grows
    <3> QED BY <1>4, <3>1, <3>3, SMT
  <2>2. CASE ~left(c.seg)
    <3>1. b \in rewritten' \ rewritten /\ c.seg = << b, 0 >>
      BY <1>2, <1>5, <2>2, LeftKeeps
    <3>2. b # activeSegment /\ ~(NextOffset(c.seg) > hw + 1)
      BY <3>1 DEF Relies
    <3>3. b < End(b) /\ End(b)' = End(b)
      BY <1>3, <3>2, EndLog DEF Grows
    <3>4. Records(c.seg) = b .. End(b) - 1
      <4>1. c.seg[2] # 1
        BY <3>1, SMT
      <4> QED BY <4>1 DEF Records
    <3>5. End(b) - 1 \in Records(c.seg)
      BY <1>4, <3>3, <3>4, SMT
    <3>6. End(b) - 1 < NextOffset(c.seg) /\ NextOffset(c.seg) \in Int
      BY <1>3, <3>5, NextOffsetIs, Numbers
    <3> QED BY <1>4, <3>2, <3>3, <3>6, SMT
  <2> QED BY <2>1, <2>2
<1>6. ASSUME c.seg # c.hwSeg, c.pc # "locateHW"
      PROVE  ~left(c.hwSeg)'
  <2> SUFFICES ASSUME left(c.hwSeg)'
               PROVE  FALSE
    OBVIOUS
  <2>1. ~left(c.hwSeg)
    BY <1>1, <1>6 DEF InPlace
  <2>2. c.hwSeg[1] \in rewritten' \ rewritten /\ c.hwSeg = << c.hwSeg[1], 0 >>
    BY <1>2, <2>1, LeftKeeps
  <2>3. ~Relies(c, c.hwSeg)
    BY <2>2
  <2>4. c.pc = "openHW"
    BY <1>6, <2>3 DEF Relies
  <2> QED BY <1>1, <2>4 DEF AtStep
<1>7. c.pc # "openSeg" => c.at <= End(c.seg[1])' /\ c.at .. c.seg[1] - 1 \subseteq dropped'
  <2>1. ASSUME c.pc # "openSeg"
        PROVE  c.at <= End(c.seg[1])' /\ c.at .. c.seg[1] - 1 \subseteq dropped'
    <3>1. c.at <= End(b) /\ c.at .. c.seg[1] - 1 \subseteq dropped
      BY <1>1, <2>1 DEF InPlace
    <3>2. c.at \in Int
      BY <1>1, ReaderNumbers
    <3>3. c.at <= End(b)'
      BY <1>4, <3>1, <3>2, SMT
    <3> QED BY <3>1, <3>3 DEF Grows
  <2> QED BY <2>1
<1>8. left(c.seg) => left(c.seg)'
  BY <1>2, LeftKeeps
<1> QED BY <1>1, <1>2, <1>3, <1>5, <1>6, <1>7, <1>8 DEF InPlace

\* A list stays a list of the log.
LEMMA SnapKeeps ==
  ASSUME LogShape, LogShape', Grows, NEW L, SnapOK(L), Max(L) \notin rewritten' \ rewritten
  PROVE  SnapOK(L)' /\ End(Max(L)) <= End(Max(L))' /\ Max(L) \in bases
<1>1. L \in SUBSET bases /\ L # {} /\ 0 \in L /\ Max(L) \notin rewritten /\ \A b \in bases : b <= Max(L) => b \in L
  BY DEF SnapOK
<1>2. L \in SUBSET Base
  BY <1>1, Active
<1>3. Max(L) \in L
  BY <1>1, <1>2, BaseMax
<1>4. ASSUME NEW b \in bases', b <= Max(L)
      PROVE  b \in bases
  <2>1. b \notin bases => Max(L) < b
    BY <1>1, <1>3 DEF Grows
  <2>2. b \in Int /\ Max(L) \in Int
    <3>1. b \in Int
      BY NextNumbers
    <3> QED BY <1>1, <1>3, <3>1, LogNumbers
  <2>3. ~(Max(L) < b)
    BY <1>4, <2>2, SMT
  <2> QED BY <2>1, <2>3
<1> QED BY <1>1, <1>3, <1>4 DEF SnapOK, Grows

\* What holds of a committed reader that takes no step stays true while the log grows,
\* unless a segment that it relies on is rewritten.
LEMMA CommittedKeeps ==
  ASSUME LogShape, LogShape', Grows, hw <= hw', NEW c, CommittedOK(c),
         \A b \in rewritten' \ rewritten : b \in bases /\ b # activeSegment /\ ~Relies(c, << b, 0 >>)
  PROVE  CommittedOK(c)'
<1>1. /\ c \in CommittedReader
      /\ c.raw <= hw /\ c.hw <= hw /\ c.hw < next /\ c.at <= hw + 1
      /\ c.hwSeg # None => HoldsBound(c.hwSeg, c.hw)
      /\ c.seg # None => InPlace(c)
      /\ c.snap # {} => Walks(c)
      /\ AtStep(c) /\ Served(c)
  BY DEF CommittedOK
<1>2. c.hw \in Int /\ c.raw \in Int /\ c.at \in Int /\ c.offset \in Int
  BY <1>1, ReaderNumbers
<1>3. next <= next' /\ dropped \subseteq dropped'
  BY DEF Grows
<1>4. c.raw <= hw' /\ c.hw <= hw' /\ c.hw < next' /\ c.at <= hw' + 1
  <2>1. hw' \in Int /\ next' \in Int
    BY NextNumbers
  <2>2. hw \in Int /\ next \in Int
    BY LogNumbers
  <2> QED BY <1>1, <1>2, <1>3, <2>1, <2>2, SMT
<1>5. c.hwSeg # None => HoldsBound(c.hwSeg, c.hw)'
  BY <1>1, <1>2, HoldsKeeps
<1>6. c.seg # None => InPlace(c)'
  BY PlaceKeeps
<1>7. ASSUME c.snap # {}
      PROVE  Walks(c)' /\ End(Max(c.snap)) <= End(Max(c.snap))' /\ Max(c.snap) \in bases
  <2>1. SnapOK(c.snap) /\ c.hw < End(Max(c.snap)) /\ (c.hwSeg # None => c.hwSeg[1] \in c.snap)
    BY <1>1, <1>7 DEF Walks
  <2>2. Max(c.snap) \notin rewritten' \ rewritten
    <3> SUFFICES ASSUME Max(c.snap) \in rewritten' \ rewritten
                 PROVE  FALSE
      OBVIOUS
    <3>1. << Max(c.snap), 0 >>[1] = Max(c.snap)
      OBVIOUS
    <3> QED BY <1>7, <3>1 DEF Relies
  <2>3. SnapOK(c.snap)' /\ End(Max(c.snap)) <= End(Max(c.snap))' /\ Max(c.snap) \in bases
    BY <2>1, <2>2, SnapKeeps
  <2>4. End(Max(c.snap)) \in Int /\ End(Max(c.snap))' \in Int
    <3>1. Max(c.snap) \in bases'
      BY <2>3 DEF Grows
    <3>2. End(Max(c.snap))' \in Int
      BY <3>1, NextNumbers
    <3> QED BY <2>3, <3>2, LogNumbers
  <2>5. c.hw < End(Max(c.snap))'
    BY <1>2, <2>1, <2>3, <2>4, SMT
  <2> QED BY <2>1, <2>3, <2>5 DEF Walks
<1>8. AtStep(c)'
  <2>1. ASSUME c.seg # None, NEW o, From(c.seg, o) # {}
        PROVE  From(c.seg, o)' # {}
    <3>1. Records(c.seg) \subseteq Records(c.seg)'
      BY <1>1, <2>1 DEF InPlace, Grows
    <3> QED BY <2>1, <3>1 DEF From
  <2>2. ASSUME c.pc = "openSeg"
        PROVE  c.seg # None /\ From(c.seg, c.offset)' # {} /\ c.offset .. c.seg[1] - 1 \subseteq dropped'
    BY <1>1, <1>3, <2>1, <2>2 DEF AtStep
  <2>3. ASSUME c.pc = "locateSeg"
        PROVE  From(c.seg, c.at)' # {}
    BY <1>1, <2>1, <2>3 DEF AtStep
  <2>4. ASSUME c.pc = "locate"
        PROVE  c.hw + 1 < End(Max(c.snap))'
    <3>1. c.snap # {} /\ c.hw + 1 < End(Max(c.snap))
      BY <1>1, <2>4 DEF AtStep
    <3>2. End(Max(c.snap)) <= End(Max(c.snap))' /\ Max(c.snap) \in bases
      BY <1>7, <3>1
    <3>3. End(Max(c.snap)) \in Int /\ End(Max(c.snap))' \in Int
      <4>1. Max(c.snap) \in bases'
        BY <3>2 DEF Grows
      <4>2. End(Max(c.snap))' \in Int
        BY <4>1, NextNumbers
      <4> QED BY <3>2, <4>2, LogNumbers
    <3> QED BY <1>2, <3>1, <3>2, <3>3, SMT
  <2>5. ASSUME c.pc = "eof"
        PROVE  From(c.seg, c.at)' = {}
    <3>1. c.seg # None /\ c.seg[1] < c.hwSeg[1] /\ From(c.seg, c.at) = {}
      BY <1>1, <2>5 DEF AtStep
    <3>2. Valid(c.seg) /\ Valid(c.hwSeg)
      BY <1>1, <3>1 DEF InPlace, HoldsBound
    <3>3. c.seg[1] # activeSegment
      <4>1. c.hwSeg[1] <= activeSegment /\ activeSegment \in Int /\ c.seg[1] \in Int /\ c.hwSeg[1] \in Int
        BY <3>2, Active, Numbers DEF Valid
      <4> QED BY <3>1, <4>1, SMT
    <3>4. Records(c.seg)' = Records(c.seg)
      BY <3>2, <3>3 DEF Grows
    <3> QED BY <3>1, <3>4 DEF From
  <2> QED BY <1>1, <2>2, <2>3, <2>4, <2>5, ZenonT(30) DEF AtStep
<1>9. Served(c)'
  BY <1>1, <1>3 DEF Served
<1> QED BY <1>1, <1>4, <1>5, <1>6, <1>7, <1>8, <1>9 DEF CommittedOK

-----------------------------------------------------------------------------
(* Lists, bounds, and readers that do not move.                            *)

\* The list as it is now.
LEMMA SnapNow ==
  ASSUME LogShape
  PROVE  SnapOK(bases) /\ End(Max(bases)) = next /\ bases # {}
<1>1. 0 \in bases /\ bases \in SUBSET bases /\ activeSegment \notin rewritten
  BY DEF LogShape, List
<1>2. End(activeSegment) = next
  BY Active, EndLog
<1> QED BY <1>1, <1>2 DEF SnapOK, activeSegment

\* The last segment of a list ends on the log.
LEMMA SnapEnds ==
  ASSUME LogShape, NEW L, SnapOK(L)
  PROVE  /\ Max(L) \in L /\ Max(L) \in bases /\ End(Max(L)) \in Base /\ End(Max(L)) <= next
         /\ \A b \in L : b \in bases /\ End(b) <= End(Max(L))
<1>1. L \in SUBSET bases /\ L # {}
  BY DEF SnapOK
<1>2. L \in SUBSET Base
  BY <1>1, Active
<1>3. Max(L) \in L /\ \A b \in L : b <= Max(L)
  BY <1>1, <1>2, BaseMax
<1>4. Max(L) \in bases /\ End(Max(L)) \in Base /\ End(Max(L)) <= next /\ Max(L) <= End(Max(L))
  BY <1>1, <1>3, EndLog
<1>5. ASSUME NEW b \in L
      PROVE  End(b) <= End(Max(L))
  <2>1. b \in Int /\ End(b) \in Int /\ Max(L) \in Int /\ End(Max(L)) \in Int
    BY <1>1, <1>4, LogNumbers
  <2>2. CASE b = Max(L)
    BY <2>1, <2>2, SMT
  <2>3. CASE b # Max(L)
    <3>1. Max(L) > b
      BY <1>3, <2>1, <2>3, SMT
    <3>2. End(b) <= Max(L)
      BY <1>1, <1>4, <3>1, EndLog
    <3> QED BY <1>4, <2>1, <3>2, SMT
  <2> QED BY <2>2, <2>3
<1> QED BY <1>1, <1>3, <1>4, <1>5

\* A watermark that was clamped is on the list (clampHW).
LEMMA ClampIs ==
  ASSUME LogShape, NEW L, SnapOK(L), NEW w \in Offset \cup {-1}, w <= hw
  PROVE  LET h == clampHW(L, w)
         IN  /\ h \in Offset \cup {-1} /\ h <= w /\ h <= hw /\ h < End(Max(L)) /\ h < next
             /\ h = w \/ h = End(Max(L)) - 1
<1> DEFINE e == End(Max(L))
           h == clampHW(L, w)
<1>1. e \in Base /\ e <= next
  BY SnapEnds
<1>2. w \in Int /\ hw \in Int /\ next \in Int /\ e \in Int
  BY <1>1, LogNumbers, ReadersAssumption, SMT DEF Base, Offset
<1>3. h = Min({w, e - 1})
  BY DEF clampHW
<1> HIDE DEF e, h
<1>4. CASE w <= e - 1
  <2>1. h = w
    <3>1. {w, e - 1} \in SUBSET Int /\ w \in {w, e - 1} /\ \A y \in {w, e - 1} : w <= y
      BY <1>2, <1>4, SMT
    <3> QED BY <1>3, <3>1, MinIs
  <2>2. h <= w /\ h <= hw /\ h < e /\ h < next
    BY <1>1, <1>2, <1>4, <2>1, SMT
  <2> QED BY <2>1, <2>2 DEF h, e
<1>5. CASE ~(w <= e - 1)
  <2>1. h = e - 1
    <3>1. {w, e - 1} \in SUBSET Int /\ e - 1 \in {w, e - 1} /\ \A y \in {w, e - 1} : e - 1 <= y
      BY <1>2, <1>5, SMT
    <3> QED BY <1>3, <3>1, MinIs
  <2>2. h <= w /\ h <= hw /\ h < e /\ h < next
    BY <1>1, <1>2, <1>5, <2>1, SMT
  <2>3. h \in Offset \cup {-1}
    BY <1>1, <2>1, ReadersAssumption, SMT DEF Base, Offset
  <2> QED BY <2>1, <2>2, <2>3 DEF h, e
<1> QED BY <1>4, <1>5

\* A reader that gives its place up.
LEMMA LeavesOK ==
  ASSUME LogShape, NEW c, CommittedOK(c), NEW d \in CommittedReader,
         d.seg = None, d.hwSeg = None, d.raw = -1, d.snap = {}, d.hw = c.hw \/ d.hw = -1,
         d.at = c.at, d.offset = c.offset, d.above = c.above,
         \/ d.pc \in {"resolve", "closed"}
         \/ d.pc \in {"readonly", "ended"} /\ c.pc \in {"register", "parked", "clamp"}
  PROVE  CommittedOK(d)
<1>1. c.hw <= hw /\ c.hw < next /\ c.at <= hw + 1 /\ Served(c)
  BY DEF CommittedOK
<1>2. -1 <= hw /\ -1 < next
  BY LogNumbers, Active, Numbers, SMT
<1>3. AtStep(d)
  BY DEF AtStep
<1>4. Served(d)
  BY <1>1 DEF Served
<1> QED BY <1>1, <1>2, <1>3, <1>4 DEF CommittedOK

\* A reader that has been built takes a step without moving.
LEMMA SamePlace ==
  ASSUME LogShape, NEW c, CommittedOK(c), NEW d \in CommittedReader,
         d.seg = c.seg, d.hwSeg = c.hwSeg, d.hw = c.hw, d.at = c.at,
         d.offset = c.offset, d.above = c.above,
         d.raw <= hw, d.snap \in {{}, c.snap, bases},
         c.pc \in {"read", "loop", "sync", "snapshot", "clamp", "locateSeg", "register", "parked"},
         d.pc \in {"read", "loop", "eof", "sync", "snapshot", "clamp", "locate", "register", "parked"},
         AtStep(d)
  PROVE  CommittedOK(d)
<1>1. /\ c.hw <= hw /\ c.hw < next /\ c.at <= hw + 1 /\ Served(c)
      /\ c.hwSeg # None => HoldsBound(c.hwSeg, c.hw)
      /\ c.seg # None => InPlace(c)
      /\ c.snap # {} => Walks(c)
  BY DEF CommittedOK
<1>2. Served(d)
  BY <1>1 DEF Served
<1>3. d.seg # None => InPlace(d)
  BY <1>1 DEF InPlace
<1>4. d.snap # {} => Walks(d)
  <2>1. CASE d.snap = c.snap
    BY <1>1, <2>1 DEF Walks
  <2>2. CASE d.snap = bases
    <3>1. c.hwSeg # None => c.hwSeg[1] \in bases
      BY <1>1 DEF HoldsBound, Valid
    <3> QED BY <1>1, <2>2, <3>1, SnapNow DEF Walks
  <2> QED BY <2>1, <2>2
<1> QED BY <1>1, <1>2, <1>3, <1>4 DEF CommittedOK

\* A segment of the log found for an offset up to the bound is at or before the
\* bound's, when that is still the log's.
LEMMA FoundBefore ==
  ASSUME LogShape, NEW t, NEW h \in Int, HoldsBound(t, h), ~left(t),
         NEW s, NEW x \in Int, HoldsBound(s, x), ~left(s), x <= h \/ x <= t[1]
  PROVE  s = t \/ s[1] < t[1]
<1>1. Valid(s) /\ Valid(t) /\ s = current(s[1]) /\ t = current(t[1])
  BY DEF HoldsBound, left
<1>2. s[1] \in Int /\ t[1] \in Int /\ t[1] \in bases
  BY <1>1, LogNumbers DEF Valid
<1>3. ~(t[1] < s[1])
  <2> SUFFICES ASSUME t[1] < s[1]
               PROVE  FALSE
    OBVIOUS
  <2>1. From(t, x) = {}
    BY <1>1, <1>2 DEF HoldsBound
  <2>2. PICK y \in Records(t) : y >= h
    BY DEF HoldsBound, From
  <2>3. y \in Int /\ t[1] <= y
    BY <1>2, RecordsIn, Numbers
  <2>4. y >= x
    BY <1>2, <2>2, <2>3, SMT
  <2> QED BY <2>1, <2>2, <2>4 DEF From
<1>4. s[1] < t[1] \/ s[1] = t[1]
  BY <1>2, <1>3, SMT
<1> QED BY <1>1, <1>4
=============================================================================

------------------------- MODULE SyncBarrierProofs --------------------------
(***************************************************************************)
(* Proofs about SyncBarrier, for any callers and bounds.  Types and the    *)
(* dirty mark, whatever runs beside the barrier: MarkInv, the inductive    *)
(* invariant, and the steps that keep it.  Then the contract of Sync, with *)
(* nothing of Races running (TLC gives a counterexample for each member of *)
(* Races): PlainInv, the invariant behind it, and the steps that keep it.  *)
(***************************************************************************)
EXTENDS SyncBarrier, TLAPS

\* Leaves are first-order unless they cite SMT, which those with arithmetic do.
USE Zenon

\* What an fsync in flight holds on to exists and is not past the file's tail.
Bounded ==
  \A c \in Callers :
     /\ todo[c] \subseteq 1..created
     /\ pc[c] = "fsync" => /\ file[c] \in 1..created
                           /\ cover[c] <= next[file[c]]

\* A clean segment is flushed, or the fsync that flushes all of it is out.
Marks ==
  \A f \in segments :
     f \notin closed /\ f \notin dirtyData
       => stable[f] = next[f]
          \/ \E c \in Callers :
               pc[c] = "fsync" /\ file[c] = f /\ cover[c] = next[f]

MarkInv == TypeOK /\ Bounded /\ Marks

\* Facts about the bounds, so that the proofs below need no arithmetic on them.
LEMMA Numbers ==
  /\ 1 \in Files /\ 0 \in Offset /\ -1 \in TailOffset /\ 0 \in 0..MaxOffset + 1
  /\ Files \subseteq Int /\ TailOffset \subseteq Int /\ Offset \subseteq TailOffset
  /\ 0..MaxOffset + 1 \subseteq Int
  /\ \A n \in 0..MaxOffset + 1 : n - 1 \in TailOffset /\ n \in Int
  /\ \A n \in 0..MaxOffset + 1 : n <= MaxOffset => n + 1 \in 0..MaxOffset + 1
BY SyncAssumption, SMT DEF Files, Offset, TailOffset

\* A new log satisfies MarkInv.
LEMMA MarkInit == Init => MarkInv
<1> SUFFICES ASSUME Init PROVE MarkInv
  OBVIOUS
<1> USE SyncAssumption DEF Init
<1>1. FilesOK
  BY SMT DEF FilesOK, Files
<1>2. CallsOK
  <2>1. all \subseteq Callers
    OBVIOUS
  <2>2. /\ pc \in [Callers -> {"idle", "check", "wait", "lead", "tail", "flush",
                              "fsync", "failed"}]
        /\ todo \in [Callers -> SUBSET Files]
    OBVIOUS
  <2>3. /\ offset \in [Callers -> Offset] /\ target \in [Callers -> TailOffset]
        /\ file \in [Callers -> Files]
        /\ cover \in [Callers -> 0..MaxOffset + 1]
        /\ claim \in [Callers -> TailOffset]
    BY Numbers
  <2> QED
    BY <2>1, <2>2, <2>3 DEF CallsOK
<1>3. TypeOK
  <2>1. segmentsClosed \in BOOLEAN /\ syncFlushing \in BOOLEAN
    OBVIOUS
  <2>2. /\ failures \in 0..MaxFailures
        /\ syncDurable \in TailOffset /\ promised \in TailOffset
    BY Numbers, SMT
  <2> QED
    BY <1>1, <1>2, <2>1, <2>2 DEF TypeOK
<1>4. Bounded /\ Marks
  BY DEF Bounded, Marks
<1> QED
  BY <1>3, <1>4 DEF MarkInv

\* The callers' locals are typed after a step that leaves them alone.
LEMMA CallsKept == CallsOK /\ UNCHANGED <<pc, callVars, claim>> => CallsOK'
BY DEF CallsOK, callVars

\* So are the files.
LEMMA FilesKept ==
  FilesOK /\ UNCHANGED <<fileVars, stable, dirtyData>> => FilesOK'
BY DEF FilesOK, fileVars

\* Append moves only the active tail, and marks it.
LEMMA MarkAppend == MarkInv /\ Append => MarkInv'
<1> SUFFICES ASSUME MarkInv, Append PROVE MarkInv'
  OBVIOUS
<1>0. FilesOK /\ CallsOK /\ TypeOK /\ Bounded /\ Marks
  BY DEF MarkInv, TypeOK
<1>1. /\ activeSegment \in Files
      /\ next' = [next EXCEPT ![activeSegment] = next[activeSegment] + 1]
      /\ next[activeSegment] \in 0..MaxOffset + 1
      /\ next[activeSegment] <= MaxOffset
  BY <1>0 DEF Append, FilesOK
<1>a. next[activeSegment] + 1 \in 0..MaxOffset + 1
  BY <1>1, Numbers
<1>b. next' \in [Files -> 0..MaxOffset + 1]
  BY <1>0, <1>1, <1>a DEF FilesOK
<1>c. \A f \in Files : /\ next[f] \in Int /\ next'[f] \in Int
                       /\ next[f] <= next'[f]
                       /\ (f # activeSegment => next'[f] = next[f])
  BY <1>0, <1>1, Numbers, SMT DEF FilesOK
<1>2. FilesOK'
  <2>1. \A f \in Files : stable[f] <= next'[f]
    BY <1>0, <1>c, Numbers, SMT DEF FilesOK
  <2> QED
    BY <1>0, <1>1, <1>b, <2>1 DEF Append, FilesOK
<1>3. CallsOK'
  BY <1>0, CallsKept DEF Append
<1>4. Bounded'
  <2> SUFFICES ASSUME NEW c \in Callers, pc[c] = "fsync"
               PROVE  cover[c] <= next'[file[c]]
    BY <1>0 DEF Bounded, Append, callVars
  <2> QED
    BY <1>0, <1>c, Numbers, SMT DEF Bounded, CallsOK
<1>5. Marks'
  BY <1>0, <1>1, <1>c, SMT DEF Marks, FilesOK, Append, callVars
<1> QED
  BY <1>0, <1>2, <1>3, <1>4, <1>5 DEF MarkInv, TypeOK, Append, barrier

\* A file that Create makes is new: no caller's walk or fsync holds it.
LEMMA CreateFacts ==
  ASSUME FilesOK,
         NEW b \in 0..MaxOffset + 1, NEW n \in 0..MaxOffset + 1,
         NEW s \in 0..MaxOffset + 1, b <= s, s <= n, NEW d \in BOOLEAN,
         Create(b, n, s, d)
  PROVE  /\ created + 1 \in Files /\ created' = created + 1
         /\ base' \in [Files -> 0..MaxOffset + 1]
         /\ next' \in [Files -> 0..MaxOffset + 1]
         /\ stable' \in [Files -> 0..MaxOffset + 1]
         /\ dirtyData' \subseteq Files
         /\ \A f \in Files : base'[f] <= stable'[f] /\ stable'[f] <= next'[f]
         /\ 1..created \subseteq 1..created' /\ created + 1 \in 1..created'
         /\ created + 1 \notin 1..created
         /\ \A f \in 1..created : /\ f \in Files
                                  /\ base'[f] = base[f] /\ next'[f] = next[f]
                                  /\ stable'[f] = stable[f]
                                  /\ (f \in dirtyData' <=> f \in dirtyData)
         /\ base'[created + 1] = b /\ next'[created + 1] = n
         /\ stable'[created + 1] = s
         /\ (created + 1 \in dirtyData' <=> d)
<1>1. /\ created \in Int /\ created >= 1 /\ created + 1 \in Files
      /\ created' = created + 1 /\ created' \in Files
  BY SyncAssumption, SMT DEF FilesOK, Create, Files
<1>2. /\ 1..created \subseteq 1..created' /\ created + 1 \in 1..created'
      /\ created + 1 \notin 1..created /\ 1..created \subseteq Files
  BY <1>1, SyncAssumption, SMT DEF Files
<1>3. /\ base' \in [Files -> 0..MaxOffset + 1]
      /\ next' \in [Files -> 0..MaxOffset + 1]
      /\ stable' \in [Files -> 0..MaxOffset + 1]
      /\ base'[created + 1] = b /\ next'[created + 1] = n
      /\ stable'[created + 1] = s
      /\ \A f \in Files : f # created + 1 =>
           base'[f] = base[f] /\ next'[f] = next[f] /\ stable'[f] = stable[f]
  BY <1>1 DEF FilesOK, Create
<1>4. \A f \in Files : base'[f] <= stable'[f] /\ stable'[f] <= next'[f]
  BY <1>1, <1>3 DEF FilesOK
<1>5. /\ dirtyData' \subseteq Files
      /\ (created + 1 \in dirtyData' <=> d)
      /\ \A f \in Files : f # created + 1 =>
           (f \in dirtyData' <=> f \in dirtyData)
  BY <1>1 DEF FilesOK, Create
<1> QED
  BY <1>1, <1>2, <1>3, <1>4, <1>5

\* Publishing a list with a new file in it keeps the marks true when the new
\* file is marked or wholly flushed.
LEMMA MarkCreate ==
  ASSUME MarkInv,
         NEW b \in 0..MaxOffset + 1, NEW n \in 0..MaxOffset + 1,
         NEW s \in 0..MaxOffset + 1, b <= s, s <= n, NEW d \in BOOLEAN,
         Create(b, n, s, d), d \/ s = n,
         segments' \subseteq segments \cup {created + 1},
         activeSegment' \in segments',
         closed \subseteq closed', closed' \subseteq Files,
         UNCHANGED <<pc, callVars>>
  PROVE  FilesOK' /\ Bounded' /\ Marks'
<1>0. FilesOK /\ CallsOK /\ Bounded /\ Marks
  BY DEF MarkInv, TypeOK
<1>1. /\ created + 1 \in Files /\ created' = created + 1
      /\ base' \in [Files -> 0..MaxOffset + 1]
      /\ next' \in [Files -> 0..MaxOffset + 1]
      /\ stable' \in [Files -> 0..MaxOffset + 1]
      /\ dirtyData' \subseteq Files
      /\ \A f \in Files : base'[f] <= stable'[f] /\ stable'[f] <= next'[f]
      /\ 1..created \subseteq 1..created' /\ created + 1 \in 1..created'
      /\ created + 1 \notin 1..created
      /\ \A f \in 1..created : /\ f \in Files /\ next'[f] = next[f]
                               /\ stable'[f] = stable[f]
                               /\ (f \in dirtyData' <=> f \in dirtyData)
      /\ next'[created + 1] = n /\ stable'[created + 1] = s
      /\ (created + 1 \in dirtyData' <=> d)
  BY <1>0, CreateFacts, SMT
<1>2. segments \subseteq 1..created
  BY <1>0 DEF FilesOK
<1>3. FilesOK'
  BY <1>0, <1>1, <1>2 DEF FilesOK
<1>4. Bounded'
  BY <1>0, <1>1 DEF Bounded, callVars
<1>5. Marks'
  <2> SUFFICES ASSUME NEW f \in segments', f \notin closed', f \notin dirtyData'
               PROVE  stable'[f] = next'[f]
                      \/ \E c \in Callers :
                            pc[c] = "fsync" /\ file[c] = f /\ cover[c] = next'[f]
    BY DEF Marks, callVars
  <2>1. CASE f = created + 1
    BY <1>1, <2>1
  <2>2. CASE f \in segments
    BY <1>0, <1>1, <1>2, <2>2 DEF Marks
  <2> QED
    BY <2>1, <2>2
<1> QED
  BY <1>3, <1>4, <1>5

\* Publishing a shorter list keeps the marks true.
LEMMA MarkDrop ==
  ASSUME MarkInv, CreateNothing,
         segments' \subseteq segments, activeSegment' \in segments',
         closed \subseteq closed', closed' \subseteq Files,
         UNCHANGED <<pc, callVars>>
  PROVE  FilesOK' /\ Bounded' /\ Marks'
<1>0. FilesOK /\ Bounded /\ Marks
  BY DEF MarkInv, TypeOK
<1>1. FilesOK'
  BY <1>0 DEF FilesOK, CreateNothing
<1>2. Bounded'
  BY <1>0 DEF Bounded, CreateNothing, callVars
<1>3. Marks'
  BY <1>0 DEF Marks, CreateNothing, callVars
<1> QED
  BY <1>1, <1>2, <1>3

\* Rolling a segment.
LEMMA MarkSplit == MarkInv /\ Split => MarkInv'
<1> SUFFICES ASSUME MarkInv, Split PROVE MarkInv'
  OBVIOUS
<1>0. TypeOK /\ FilesOK /\ CallsOK
  BY DEF MarkInv, TypeOK
<1> DEFINE t == next[activeSegment]
<1>1. t \in 0..MaxOffset + 1 /\ t <= t
  BY <1>0, Numbers, SMT DEF FilesOK
<1>2. Create(t, t, t, TRUE)
  BY DEF Split
<1>3. /\ created + 1 \in Files /\ closed \subseteq Files
      /\ activeSegment' \in segments'
      /\ segments' \subseteq segments \cup {created + 1}
      /\ closed' = closed /\ UNCHANGED <<pc, callVars, claim>>
  BY <1>0, SyncAssumption, SMT DEF Split, Create, FilesOK, Files
<1> HIDE DEF t
<1>4. FilesOK' /\ Bounded' /\ Marks'
  BY <1>1, <1>2, <1>3, MarkCreate
<1> QED
  BY <1>0, <1>3, <1>4, CallsKept DEF MarkInv, TypeOK, Split, barrier

\* Rewriting a sealed segment.
LEMMA MarkClean ==
  ASSUME MarkInv, NEW f \in Files, cleanSegment(f) PROVE MarkInv'
<1>0. TypeOK /\ FilesOK /\ CallsOK
  BY DEF MarkInv, TypeOK
<1>1. /\ base[f] \in 0..MaxOffset + 1 /\ next[f] \in 0..MaxOffset + 1
      /\ base[f] <= next[f] /\ next[f] <= next[f]
  BY <1>0, Numbers, SMT DEF FilesOK
<1>2. Create(base[f], next[f], next[f], FALSE)
  BY DEF cleanSegment
<1>3. /\ activeSegment' \in segments'
      /\ segments' \subseteq segments \cup {created + 1}
      /\ closed \subseteq closed' /\ closed' \subseteq Files
      /\ UNCHANGED <<pc, callVars, claim>>
  BY <1>0 DEF cleanSegment, Shut, FilesOK
<1>4. FilesOK' /\ Bounded' /\ Marks'
  BY <1>1, <1>2, <1>3, MarkCreate
<1> QED
  BY <1>0, <1>3, <1>4, CallsKept DEF MarkInv, TypeOK, cleanSegment, barrier

\* Retention.
LEMMA MarkTruncateBefore ==
  ASSUME MarkInv, NEW m \in Offset, TruncateBefore(m) PROVE MarkInv'
<1>0. TypeOK /\ FilesOK /\ CallsOK
  BY DEF MarkInv, TypeOK
<1> DEFINE sealed == segments \ {activeSegment}
           dead == {f \in sealed : next[f] <= m}
<1>1. UNCHANGED <<pc, callVars, claim>> /\ activeSegment' = activeSegment
  BY DEF TruncateBefore
<1>2. FilesOK' /\ Bounded' /\ Marks'
  <2>1. CASE /\ segments' = segments \ dead /\ Shut(dead) /\ CreateNothing
    <3>1. /\ segments' \subseteq segments /\ activeSegment' \in segments'
          /\ closed \subseteq closed' /\ closed' \subseteq Files
      BY <1>0, <1>1, <2>1 DEF FilesOK, Shut
    <3> QED
      BY <1>1, <2>1, <3>1, MarkDrop
  <2>2. CASE \E f \in sealed :
               /\ base[f] < m /\ m < next[f]
               /\ Create(m, next[f], m, TRUE)
               /\ segments' = (segments \ (dead \cup {f})) \cup {created + 1}
               /\ Shut(dead \cup {f})
    <3>1. PICK f \in sealed :
               /\ base[f] < m /\ m < next[f]
               /\ Create(m, next[f], m, TRUE)
               /\ segments' = (segments \ (dead \cup {f})) \cup {created + 1}
               /\ Shut(dead \cup {f})
      BY <2>2
    <3>2. f \in Files /\ next[f] \in 0..MaxOffset + 1
      BY <1>0 DEF FilesOK
    <3>3. m \in 0..MaxOffset + 1 /\ m <= m /\ m <= next[f]
      BY <3>1, <3>2, SyncAssumption, SMT DEF Offset
    <3>4. /\ segments' \subseteq segments \cup {created + 1}
          /\ activeSegment' \in segments'
          /\ closed \subseteq closed' /\ closed' \subseteq Files
      BY <1>0, <1>1, <3>1 DEF FilesOK, Shut
    <3> QED
      BY <1>1, <3>1, <3>2, <3>3, <3>4, MarkCreate
  <2> QED
    BY <2>1, <2>2 DEF TruncateBefore
<1> QED
  BY <1>0, <1>1, <1>2, CallsKept DEF MarkInv, TypeOK, TruncateBefore, barrier

\* Truncate.
LEMMA MarkTruncate ==
  ASSUME MarkInv, NEW o \in Offset, Truncate(o) PROVE MarkInv'
<1>0. TypeOK /\ FilesOK /\ CallsOK
  BY DEF MarkInv, TypeOK
<1>1. UNCHANGED <<pc, callVars>>
  BY DEF Truncate
<1>2. PICK f \in segments :
        LET later == {g \in segments : base[g] > base[f]}
            earlier == {g \in segments : base[g] < base[f]}
        IN \/ /\ base[f] # o \/ earlier = {}
              /\ Create(base[f], Max2(base[f], o), base[f], TRUE)
              /\ segments' = earlier \cup {created + 1}
              /\ activeSegment' = created + 1
              /\ Shut(later \cup {f})
           \/ /\ base[f] = o
              /\ CreateNothing
              /\ segments' = earlier
              /\ activeSegment' \in earlier
              /\ \A g \in earlier : base[g] <= base[activeSegment']
              /\ Shut(later \cup {f})
  BY DEF Truncate
<1>3. FilesOK' /\ Bounded' /\ Marks'
  <2> DEFINE later == {g \in segments : base[g] > base[f]}
             earlier == {g \in segments : base[g] < base[f]}
  <2>0. closed \subseteq closed' /\ closed' \subseteq Files
    BY <1>0, <1>2 DEF Shut, FilesOK
  <2>1. CASE /\ Create(base[f], Max2(base[f], o), base[f], TRUE)
             /\ segments' = earlier \cup {created + 1}
             /\ activeSegment' = created + 1
    <3>1. f \in Files /\ base[f] \in 0..MaxOffset + 1
      BY <1>0 DEF FilesOK
    <3>2. /\ Max2(base[f], o) \in 0..MaxOffset + 1
          /\ base[f] <= Max2(base[f], o) /\ base[f] <= base[f]
      BY <3>1, SyncAssumption, SMT DEF Max2, Offset
    <3>3. segments' \subseteq segments \cup {created + 1}
      BY <2>1
    <3> QED
      BY <1>1, <2>0, <2>1, <3>1, <3>2, <3>3, MarkCreate
  <2>2. CASE /\ CreateNothing /\ segments' = earlier
             /\ activeSegment' \in earlier
    BY <1>1, <2>0, <2>2, MarkDrop
  <2> QED
    BY <1>2, <2>1, <2>2
<1>4. next'[activeSegment'] - 1 \in TailOffset
  BY <1>3, Numbers DEF FilesOK
<1>5. /\ claim' \in [Callers -> TailOffset]
      /\ promised' \in TailOffset
  BY <1>0, <1>4 DEF Truncate, Forget, Min2, CallsOK, TypeOK
<1>6. CallsOK'
  BY <1>0, <1>1, <1>5 DEF CallsOK, callVars
<1> QED
  BY <1>0, <1>3, <1>5, <1>6 DEF MarkInv, TypeOK, Truncate, barrier

\* An fsync of the active file that leaves its mark alone.
LEMMA MarkFsyncActive ==
  ASSUME MarkInv,
         stable' = [stable EXCEPT ![activeSegment] = next[activeSegment]],
         UNCHANGED <<segments, activeSegment, created, base, next, dirtyData>>,
         closed \subseteq closed', closed' \subseteq Files,
         UNCHANGED <<file, cover>>,
         \A c \in Callers :
            /\ todo'[c] \subseteq todo[c]
            /\ pc[c] = "fsync" <=> pc'[c] = "fsync"
  PROVE  FilesOK' /\ Bounded' /\ Marks'
<1>0. FilesOK /\ Bounded /\ Marks /\ activeSegment \in Files
  BY DEF MarkInv, TypeOK, FilesOK
<1>1. \A f \in Files : /\ base[f] <= stable'[f] /\ stable'[f] <= next[f]
                       /\ (stable[f] = next[f] => stable'[f] = next[f])
  BY <1>0, Numbers, SMT DEF FilesOK
<1>2. FilesOK'
  BY <1>0, <1>1 DEF FilesOK
<1>3. Bounded'
  BY <1>0 DEF Bounded
<1>4. Marks'
  BY <1>0, <1>1, SMT DEF Marks, FilesOK
<1> QED
  BY <1>2, <1>3, <1>4

\* The checkpoint tick.
LEMMA MarkTick == MarkInv /\ checkpointHWTick => MarkInv'
<1> SUFFICES ASSUME MarkInv, checkpointHWTick PROVE MarkInv'
  OBVIOUS
<1>0. TypeOK /\ CallsOK /\ closed \subseteq Files
  BY DEF MarkInv, TypeOK, FilesOK
<1>1. FilesOK' /\ Bounded' /\ Marks'
  BY <1>0, MarkFsyncActive DEF checkpointHWTick, fileVars, callVars
<1> QED
  BY <1>0, <1>1, CallsKept
  DEF MarkInv, TypeOK, checkpointHWTick, barrier, fileVars

\* Close.
LEMMA MarkClose == MarkInv /\ Close => MarkInv'
<1> SUFFICES ASSUME MarkInv, Close PROVE MarkInv'
  OBVIOUS
<1>0. TypeOK /\ CallsOK /\ closed \subseteq Files /\ segments \subseteq Files
  BY DEF MarkInv, TypeOK, FilesOK
<1>1. FilesOK' /\ Bounded' /\ Marks'
  BY <1>0, MarkFsyncActive DEF Close, Shut, callVars
<1> QED
  BY <1>0, <1>1, CallsKept DEF MarkInv, TypeOK, Close, barrier

\* The steps of a caller that touch no file and start no fsync.
LEMMA MarkQuiet ==
  ASSUME MarkInv, UNCHANGED <<fileVars, stable, dirtyData>>,
         UNCHANGED <<file, cover>>,
         \A c \in Callers :
            /\ todo'[c] \subseteq todo[c] \/ todo'[c] \subseteq segments
            /\ pc[c] = "fsync" <=> pc'[c] = "fsync"
  PROVE  FilesOK' /\ Bounded' /\ Marks'
<1>0. FilesOK /\ Bounded /\ Marks
  BY DEF MarkInv, TypeOK
<1>1. FilesOK'
  BY <1>0, FilesKept
<1>2. Bounded'
  BY <1>0 DEF Bounded, fileVars, FilesOK
<1>3. Marks'
  BY <1>0 DEF Marks, fileVars
<1> QED
  BY <1>1, <1>2, <1>3

-----------------------------------------------------------------------------
(* The steps of the callers of Sync.                                       *)

\* The locals of a call that ended are typed.
LEMMA LeaveTyped ==
  ASSUME CallsOK, NEW c \in Callers, Leave(c),
         UNCHANGED <<file, cover>> \/ EndSync(c),
         pc' \in [Callers -> {"idle", "check", "wait", "lead", "tail", "flush",
                              "fsync", "failed"}]
  PROVE  CallsOK'
BY Numbers DEF CallsOK, Leave, EndSync

\* A walk only shrinks when a call ends.
LEMMA LeaveWalk ==
  ASSUME CallsOK, NEW c \in Callers, Leave(c)
  PROVE  \A d \in Callers : todo'[d] \subseteq todo[d]
BY DEF CallsOK, Leave

\* Entering Sync, and the first check under syncMu.
LEMMA MarkEnter ==
  ASSUME MarkInv, NEW c \in Callers,
         (\E o \in Offset : Sync(c, o)) \/ Enter(c)
  PROVE  MarkInv'
<1>0. TypeOK /\ FilesOK /\ CallsOK
  BY DEF MarkInv, TypeOK
<1>1. CASE \E o \in Offset : Sync(c, o)
  <2>1. PICK o \in Offset : Sync(c, o)
    BY <1>1
  <2>2. CallsOK'
    BY <1>0, <2>1, Numbers DEF CallsOK, Sync, Goto
  <2>3. FilesOK' /\ Bounded' /\ Marks'
    BY <1>0, <2>1, MarkQuiet DEF Sync, Goto, CallsOK, logVars
  <2> QED
    BY <1>0, <2>1, <2>2, <2>3
    DEF Sync, MarkInv, TypeOK, barrier, logVars, fileVars
<1>2. CASE Enter(c)
  <2>1. /\ pc' \in [Callers -> {"idle", "check", "wait", "lead", "tail",
                                "flush", "fsync", "failed"}]
        /\ \A d \in Callers : pc[d] = "fsync" <=> pc'[d] = "fsync"
        /\ UNCHANGED <<file, cover>>
    BY <1>0, <1>2 DEF Enter, Goto, CallsOK
  <2>2. Leave(c) \/ UNCHANGED <<claim, all, offset, target, todo>>
    BY <1>2 DEF Enter
  <2>3. CallsOK' /\ \A d \in Callers : todo'[d] \subseteq todo[d]
    BY <1>0, <2>1, <2>2, LeaveTyped, LeaveWalk DEF CallsOK
  <2>4. FilesOK' /\ Bounded' /\ Marks'
    BY <1>2, <2>1, <2>3, MarkQuiet DEF Enter, logVars
  <2>5. /\ segmentsClosed' \in BOOLEAN /\ syncFlushing' \in BOOLEAN
        /\ failures' \in 0..MaxFailures /\ syncDurable' \in TailOffset
    BY <1>0, <1>2 DEF Enter, TypeOK, logVars, fileVars
  <2>6. promised' \in TailOffset
    BY <1>0, <1>2 DEF Enter, TypeOK, CallsOK, Promise, Max2
  <2> QED
    BY <2>3, <2>4, <2>5, <2>6 DEF MarkInv, TypeOK
<1> QED
  BY <1>1, <1>2

\* Reading the tail, snapshotting the list, and SyncAll's snapshot.
LEMMA MarkSnapshot ==
  ASSUME MarkInv, NEW c \in Callers,
         ReadTail(c) \/ segmentsSnapshot(c) \/ SyncAll(c)
  PROVE  MarkInv'
<1>0. TypeOK /\ FilesOK /\ CallsOK /\ NewestOffset \in TailOffset
      /\ segments \subseteq Files
  BY Numbers DEF MarkInv, TypeOK, FilesOK, NewestOffset
<1>1. CallsOK'
  <2>1. CASE ReadTail(c)
    BY <1>0, <2>1 DEF CallsOK, ReadTail, Goto
  <2>2. CASE segmentsSnapshot(c)
    BY <1>0, <2>2 DEF CallsOK, segmentsSnapshot, Goto
  <2>3. CASE SyncAll(c)
    BY <1>0, <2>3 DEF CallsOK, SyncAll, Goto
  <2> QED
    BY <2>1, <2>2, <2>3
<1>2. FilesOK' /\ Bounded' /\ Marks'
  BY <1>0, MarkQuiet
  DEF ReadTail, segmentsSnapshot, SyncAll, Goto, CallsOK, logVars
<1> QED
  BY <1>0, <1>1, <1>2 DEF ReadTail, segmentsSnapshot, SyncAll, MarkInv, TypeOK,
                          barrier, logVars, fileVars

\* Taking the mark of one segment of the walk.
LEMMA MarkBeginSync ==
  ASSUME MarkInv, NEW c \in Callers, BeginSync(c) PROVE MarkInv'
<1>0. TypeOK /\ FilesOK /\ CallsOK /\ Bounded /\ Marks
  BY DEF MarkInv, TypeOK
<1>1. PICK f \in todo[c] :
        /\ todo' = [todo EXCEPT ![c] = @ \ {f}]
        /\ \/ /\ f \in closed \/ f \notin dirtyData
              /\ UNCHANGED <<pc, dirtyData, file, cover>>
           \/ /\ f \notin closed /\ f \in dirtyData
              /\ dirtyData' = dirtyData \ {f}
              /\ file' = [file EXCEPT ![c] = f]
              /\ cover' = [cover EXCEPT ![c] = next[f]]
              /\ Goto(c, "fsync")
  BY DEF BeginSync
<1>2. /\ pc[c] = "flush" /\ f \in 1..created /\ f \in Files
      /\ next[f] \in 0..MaxOffset + 1 /\ next[f] <= next[f]
      /\ UNCHANGED <<fileVars, stable>>
      /\ UNCHANGED <<all, offset, target, claim>>
      /\ todo' \in [Callers -> SUBSET Files]
      /\ \A d \in Callers : todo'[d] \subseteq todo[d]
  BY <1>0, <1>1, Numbers, SMT DEF BeginSync, Bounded, CallsOK, FilesOK
<1>3. CASE UNCHANGED <<pc, dirtyData, file, cover>>
  <2>1. CallsOK'
    BY <1>0, <1>2, <1>3 DEF CallsOK
  <2>2. FilesOK' /\ Bounded' /\ Marks'
    BY <1>2, <1>3, MarkQuiet
  <2> QED
    BY <1>0, <2>1, <2>2 DEF BeginSync, MarkInv, TypeOK, barrier, fileVars
<1>4. CASE /\ dirtyData' = dirtyData \ {f}
           /\ file' = [file EXCEPT ![c] = f]
           /\ cover' = [cover EXCEPT ![c] = next[f]]
           /\ Goto(c, "fsync")
  <2>1. CallsOK'
    BY <1>0, <1>2, <1>4 DEF CallsOK, Goto
  <2>2. FilesOK'
    BY <1>0, <1>2, <1>4 DEF FilesOK, fileVars
  <2>3. Bounded'
    BY <1>0, <1>2, <1>4 DEF Bounded, CallsOK, Goto, fileVars
  <2>4. Marks'
    <3> SUFFICES ASSUME NEW g \in segments, g \notin closed, g \notin dirtyData'
                 PROVE  stable[g] = next[g]
                        \/ \E d \in Callers : /\ pc'[d] = "fsync" /\ file'[d] = g
                                              /\ cover'[d] = next[g]
      BY <1>2 DEF Marks, fileVars
    <3>1. CASE g = f
      BY <1>0, <1>4, <3>1 DEF CallsOK, Goto
    <3>2. CASE g # f
      <4>1. CASE stable[g] = next[g]
        BY <4>1
      <4>2. CASE \E d \in Callers :
                   pc[d] = "fsync" /\ file[d] = g /\ cover[d] = next[g]
        BY <1>0, <1>2, <1>4, <4>2 DEF CallsOK, Goto
      <4> QED
        BY <1>0, <1>4, <3>2, <4>1, <4>2 DEF Marks
    <3> QED
      BY <3>1, <3>2
  <2> QED
    BY <1>0, <2>1, <2>2, <2>3, <2>4
    DEF BeginSync, MarkInv, TypeOK, barrier, fileVars
<1> QED
  BY <1>1, <1>3, <1>4

\* The fsync of a caller returns: what it covered is stable.
LEMMA MarkFsync ==
  ASSUME MarkInv, NEW c \in Callers, Fsync(c) PROVE MarkInv'
<1>0. TypeOK /\ FilesOK /\ CallsOK /\ Bounded /\ Marks
  BY DEF MarkInv, TypeOK
<1> DEFINE f == file[c]
<1>1. /\ pc[c] = "fsync" /\ f \in 1..created /\ f \in Files
      /\ cover[c] <= next[f] /\ cover[c] \in 0..MaxOffset + 1
      /\ cover[c] \in Int /\ stable[f] \in Int /\ base[f] \in Int
      /\ next[f] \in Int /\ stable[f] \in 0..MaxOffset + 1
      /\ UNCHANGED <<fileVars, dirtyData>>
      /\ UNCHANGED <<all, offset, target, todo, claim>>
  BY <1>0, Numbers DEF Fsync, Bounded, CallsOK, FilesOK
<1>2. /\ file' = [file EXCEPT ![c] = 1] /\ cover' = [cover EXCEPT ![c] = 0]
      /\ pc' = [pc EXCEPT ![c] = "flush"]
  BY DEF Fsync, EndSync, Goto
<1>3. CallsOK'
  BY <1>0, <1>1, <1>2, Numbers DEF CallsOK
<1>4. \/ stable' = [stable EXCEPT ![f] = Max2(stable[f], cover[c])]
      \/ f \in closed /\ stable' = stable
  BY DEF Fsync
<1>5. /\ stable' \in [Files -> 0..MaxOffset + 1]
      /\ \A g \in Files : /\ stable'[g] \in Int /\ stable[g] <= stable'[g]
                          /\ base[g] <= stable'[g] /\ stable'[g] <= next[g]
                          /\ (g # f => stable'[g] = stable[g])
      /\ f \notin closed => cover[c] <= stable'[f]
  <2>1. Max2(stable[f], cover[c]) \in 0..MaxOffset + 1
    BY <1>1 DEF Max2
  <2>2. /\ stable[f] <= Max2(stable[f], cover[c])
        /\ cover[c] <= Max2(stable[f], cover[c])
        /\ Max2(stable[f], cover[c]) <= next[f]
        /\ base[f] <= Max2(stable[f], cover[c])
    BY <1>0, <1>1, SMT DEF Max2, FilesOK
  <2> HIDE DEF f
  <2> QED
    BY <1>0, <1>1, <1>4, <2>1, <2>2, Numbers, SMT DEF FilesOK
<1>6. FilesOK'
  BY <1>0, <1>1, <1>5 DEF FilesOK, fileVars
<1>7. Bounded'
  BY <1>0, <1>1, <1>2 DEF Bounded, CallsOK, fileVars
<1>8. Marks'
  <2> SUFFICES ASSUME NEW g \in segments, g \notin closed, g \notin dirtyData
               PROVE  stable'[g] = next[g]
                      \/ \E d \in Callers : /\ pc'[d] = "fsync" /\ file'[d] = g
                                            /\ cover'[d] = next[g]
    BY <1>1 DEF Marks, fileVars
  <2>0. g \in Files /\ stable[g] \in Int /\ next[g] \in Int
    BY <1>0, Numbers DEF FilesOK
  <2>1. CASE stable[g] = next[g]
    BY <1>5, <2>0, <2>1, SMT
  <2>2. CASE \E d \in Callers :
               pc[d] = "fsync" /\ file[d] = g /\ cover[d] = next[g]
    <3>1. PICK d \in Callers :
                 pc[d] = "fsync" /\ file[d] = g /\ cover[d] = next[g]
      BY <2>2
    <3>2. CASE d = c
      <4>1. cover[c] <= stable'[g] /\ stable'[g] <= next[g]
        BY <1>5, <2>0, <3>1, <3>2
      <4> QED
        BY <1>5, <2>0, <3>1, <3>2, <4>1, SMT
    <3>3. CASE d # c
      BY <1>0, <1>2, <3>1, <3>3 DEF CallsOK
    <3> QED
      BY <3>2, <3>3
  <2> QED
    BY <1>0, <2>1, <2>2 DEF Marks
<1> QED
  BY <1>0, <1>3, <1>6, <1>7, <1>8 DEF Fsync, MarkInv, TypeOK, barrier, fileVars

\* The fsync of a caller fails: the mark is back.
LEMMA MarkFsyncFails ==
  ASSUME MarkInv, NEW c \in Callers, FsyncFails(c) PROVE MarkInv'
<1>0. TypeOK /\ FilesOK /\ CallsOK /\ Bounded /\ Marks
  BY DEF MarkInv, TypeOK
<1>1. /\ pc[c] = "fsync" /\ file[c] \in Files
      /\ UNCHANGED <<fileVars, stable>>
      /\ dirtyData' = dirtyData \cup {file[c]}
      /\ pc' = [pc EXCEPT ![c] = IF c \in all THEN "idle" ELSE "failed"]
      /\ file' = [file EXCEPT ![c] = 1] /\ cover' = [cover EXCEPT ![c] = 0]
  BY <1>0 DEF FsyncFails, EndSync, Goto, CallsOK
<1>2. pc' \in [Callers -> {"idle", "check", "wait", "lead", "tail", "flush",
                           "fsync", "failed"}]
      /\ \A d \in Callers : pc'[d] = "fsync" <=> pc[d] = "fsync" /\ d # c
  BY <1>0, <1>1 DEF CallsOK
<1>3. CallsOK' /\ \A d \in Callers : todo'[d] \subseteq todo[d]
  BY <1>0, <1>2, LeaveTyped, LeaveWalk DEF FsyncFails
<1>4. FilesOK'
  BY <1>0, <1>1 DEF FilesOK, fileVars
<1>5. Bounded'
  BY <1>0, <1>1, <1>2, <1>3 DEF Bounded, CallsOK, fileVars
<1>6. Marks'
  <2> SUFFICES ASSUME NEW g \in segments, g \notin closed, g \notin dirtyData,
                      g # file[c]
               PROVE  stable[g] = next[g]
                      \/ \E d \in Callers : /\ pc'[d] = "fsync" /\ file'[d] = g
                                            /\ cover'[d] = next[g]
    BY <1>1, SMT DEF Marks, fileVars
  <2> QED
    BY <1>0, <1>1, <1>2 DEF Marks, CallsOK
<1>7. failures' \in 0..MaxFailures
  BY <1>0, SyncAssumption, SMT DEF FsyncFails, TypeOK
<1> QED
  BY <1>0, <1>3, <1>4, <1>5, <1>6, <1>7
  DEF FsyncFails, MarkInv, TypeOK, barrier, fileVars

\* The end of a flush.
LEMMA MarkPublish ==
  ASSUME MarkInv, NEW c \in Callers, Publish(c) \/ PublishError(c)
  PROVE  MarkInv'
<1>0. TypeOK /\ FilesOK /\ CallsOK
  BY DEF MarkInv, TypeOK
<1>1. PICK l \in {"idle", "check"} : pc' = Wake(c, l)
  BY DEF Publish, PublishError
<1>2. /\ pc' \in [Callers -> {"idle", "check", "wait", "lead", "tail", "flush",
                              "fsync", "failed"}]
      /\ \A d \in Callers : pc[d] = "fsync" <=> pc'[d] = "fsync"
  BY <1>0, <1>1 DEF CallsOK, Wake, Publish, PublishError
<1>3. UNCHANGED <<logVars, file, cover>>
  BY DEF Publish, PublishError, callVars
<1>4. CallsOK' /\ \A d \in Callers : todo'[d] \subseteq todo[d]
  <2>1. CASE Leave(c)
    BY <1>0, <1>2, <1>3, <2>1, LeaveTyped, LeaveWalk
  <2>2. CASE /\ target' = [target EXCEPT ![c] = -1]
             /\ UNCHANGED <<claim, all, offset, todo>>
    BY <1>0, <1>2, <1>3, <2>2, Numbers DEF CallsOK
  <2>3. CASE UNCHANGED <<callVars, claim>>
    BY <1>0, <1>2, <2>3 DEF CallsOK, callVars
  <2> QED
    BY <2>1, <2>2, <2>3 DEF Publish, PublishError
<1>5. FilesOK' /\ Bounded' /\ Marks'
  BY <1>2, <1>3, <1>4, MarkQuiet DEF logVars
<1>6. /\ promised' \in TailOffset /\ syncDurable' \in TailOffset
      /\ syncFlushing' \in BOOLEAN
  <2>1. /\ promised \in TailOffset /\ claim[c] \in TailOffset
        /\ syncDurable \in TailOffset /\ target[c] \in TailOffset
    BY <1>0 DEF TypeOK, CallsOK
  <2>2. promised' \in TailOffset /\ syncDurable' \in TailOffset
    BY <2>1 DEF Publish, PublishError, Promise, Max2
  <2>3. syncFlushing' = FALSE
    BY DEF Publish, PublishError
  <2> QED
    BY <2>2, <2>3
<1> QED
  BY <1>0, <1>3, <1>4, <1>5, <1>6 DEF MarkInv, TypeOK, logVars, fileVars

\* SyncAll's checkpoint.
LEMMA MarkSyncAllCheckpoint ==
  ASSUME MarkInv, NEW c \in Callers, SyncAllCheckpoint(c) PROVE MarkInv'
<1>0. TypeOK /\ FilesOK /\ CallsOK /\ closed \subseteq Files
  BY DEF MarkInv, TypeOK, FilesOK
<1>1. /\ pc' \in [Callers -> {"idle", "check", "wait", "lead", "tail", "flush",
                              "fsync", "failed"}]
      /\ \A d \in Callers : pc[d] = "fsync" <=> pc'[d] = "fsync"
  BY <1>0 DEF CallsOK, SyncAllCheckpoint, Goto
<1>2. CallsOK' /\ \A d \in Callers : todo'[d] \subseteq todo[d]
  BY <1>0, <1>1, LeaveTyped, LeaveWalk DEF SyncAllCheckpoint
<1>3. FilesOK' /\ Bounded' /\ Marks'
  <2>1. CASE UNCHANGED stable
    BY <1>1, <1>2, <2>1, MarkQuiet DEF SyncAllCheckpoint
  <2>2. CASE stable' = [stable EXCEPT ![activeSegment] = next[activeSegment]]
    BY <1>0, <1>1, <1>2, <2>2, MarkFsyncActive DEF SyncAllCheckpoint, fileVars
  <2> QED
    BY <2>1, <2>2 DEF SyncAllCheckpoint
<1>4. promised' \in TailOffset
  <2>1. promised \in TailOffset /\ claim[c] \in TailOffset
    BY <1>0 DEF TypeOK, CallsOK
  <2> QED
    BY <2>1 DEF SyncAllCheckpoint, Promise, Max2
<1> QED
  BY <1>0, <1>2, <1>3, <1>4
  DEF MarkInv, TypeOK, SyncAllCheckpoint, barrier, fileVars

\* Every step keeps MarkInv.
LEMMA MarkNext == MarkInv /\ [Next]_vars => MarkInv'
<1> SUFFICES ASSUME MarkInv, [Next]_vars PROVE MarkInv'
  OBVIOUS
<1>1. CASE UNCHANGED vars
  <2>1. FilesOK' /\ CallsOK'
    BY <1>1, FilesKept, CallsKept DEF MarkInv, TypeOK, vars, logVars
  <2>2. Bounded' /\ Marks'
    BY <1>1 DEF MarkInv, Bounded, Marks, vars, logVars, fileVars, callVars
  <2> QED
    BY <1>1, <2>1, <2>2 DEF MarkInv, TypeOK, vars, logVars, fileVars, barrier
<1>2. CASE Append \/ Split \/ checkpointHWTick \/ Close
  BY <1>2, MarkAppend, MarkSplit, MarkTick, MarkClose
<1>3. CASE \/ \E f \in Files : cleanSegment(f)
           \/ \E o \in Offset : TruncateBefore(o) \/ Truncate(o)
  BY <1>3, MarkClean, MarkTruncateBefore, MarkTruncate
<1>4. CASE \E c \in Callers :
             (\E o \in Offset : Sync(c, o)) \/ SyncAll(c) \/ Step(c)
  BY <1>4, MarkEnter, MarkSnapshot, MarkBeginSync, MarkFsync, MarkFsyncFails,
     MarkPublish, MarkSyncAllCheckpoint DEF Step
<1> QED
  BY <1>1, <1>2, <1>3, <1>4 DEF Next, Act

\* MarkInv is an invariant, whatever Races allows.
THEOREM MarkInvariance == Spec => []MarkInv
<1>1. Init => MarkInv
  BY MarkInit
<1>2. MarkInv /\ [Next]_vars => MarkInv'
  BY MarkNext
<1> QED
  BY <1>1, <1>2, PTL DEF Spec

\* Every variable keeps its type; in particular no fsync ever counts a record as
\* stable that its file does not hold.
THEOREM TypeCorrect == Spec => []TypeOK
<1>1. MarkInv => TypeOK
  BY DEF MarkInv
<1> QED
  BY <1>1, MarkInvariance, PTL

\* The dirty mark of segment.sync is sound whatever runs beside it: SyncAll, a
\* failing fsync, Truncate and Close included.
THEOREM CleanAlwaysMeansFlushed == Spec => []CleanMeansFlushed
<1>1. MarkInv => CleanMeansFlushed
  BY DEF MarkInv, Marks, CleanMeansFlushed
<1> QED
  BY <1>1, MarkInvariance, PTL

-----------------------------------------------------------------------------
(* The contract of Sync.                                                   *)

\* The records of f up to t are stable.
Flushed(f, t) == next[f] <= stable[f] \/ t < stable[f]

\* Only published files are open, and files not created yet are.
Open == segments \cap closed = {} /\ closed \subseteq 1..created

\* syncFlushing admits one leader at a time.
OneLeader ==
  /\ \A c \in Callers : Flushing(c) => syncFlushing
  /\ \A c, d \in Callers : Flushing(c) /\ Flushing(d) => c = d

\* Nothing the barrier compares is past the tail of the log.
Behind ==
  /\ promised <= syncDurable /\ syncDurable <= NewestOffset
  /\ \A c \in Callers :
       /\ pc[c] \in {"check", "wait", "lead", "tail", "flush", "fsync"}
            => offset[c] <= NewestOffset /\ claim[c] = offset[c]
       /\ pc[c] \in {"tail", "flush", "fsync"}
            => offset[c] <= target[c] /\ target[c] <= NewestOffset

\* What a walk has passed is stable up to the tail its leader read.
Walk ==
  \A c \in Callers, f \in segments :
     pc[c] \in {"flush", "fsync"}
       => \/ f \in todo[c]
          \/ Flushed(f, target[c])
          \/ /\ pc[c] = "fsync" /\ file[c] = f
             /\ next[f] <= cover[c] \/ target[c] < cover[c]

PlainInv ==
  /\ MarkInv /\ all = {}
  /\ Open /\ OneLeader /\ Behind /\ Walk
  /\ \A f \in segments : Flushed(f, syncDurable)

\* The numbers of a typed state.
LEMMA Ints ==
  ASSUME MarkInv
  PROVE  /\ segments \subseteq Files /\ activeSegment \in Files
         /\ segments \subseteq 1..created /\ activeSegment \in segments
         /\ \A f \in Files : /\ base[f] \in Int /\ next[f] \in Int
                             /\ stable[f] \in Int /\ stable[f] <= next[f]
         /\ \A c \in Callers : /\ offset[c] \in Int /\ target[c] \in Int
                               /\ cover[c] \in Int /\ claim[c] \in Int
                               /\ file[c] \in Files
         /\ syncDurable \in Int /\ promised \in Int /\ NewestOffset \in Int
         /\ created \in Int
BY Numbers DEF MarkInv, TypeOK, FilesOK, CallsOK, NewestOffset

\* And those of the next one.
LEMMA IntsNext ==
  ASSUME MarkInv'
  PROVE  /\ segments' \subseteq Files
         /\ \A f \in Files : next'[f] \in Int /\ stable'[f] \in Int
BY Numbers DEF MarkInv, TypeOK, FilesOK

\* A new log satisfies PlainInv.
LEMMA PlainInit == Init => PlainInv
<1> SUFFICES ASSUME Init PROVE PlainInv
  OBVIOUS
<1>1. MarkInv
  BY MarkInit
<1> QED
  BY <1>1, Numbers, SyncAssumption, SMT
  DEF Init, PlainInv, Open, OneLeader, Behind, Walk, Flushed, Flushing,
      NewestOffset

\* A step of the files that moves no tail keeps PlainInv, when each published
\* file is an old one, at least as stable as before, or wholly stable.
LEMMA PlainFiles ==
  ASSUME PlainInv, MarkInv', segments' \cap closed' = {},
         closed' \subseteq 1..created', NewestOffset' = NewestOffset,
         \A f \in segments' :
            \/ f \in segments /\ next'[f] = next[f] /\ stable[f] <= stable'[f]
            \/ next'[f] = stable'[f],
         UNCHANGED <<barrier, pc, callVars, claim, promised>>
  PROVE  PlainInv'
<1> USE DEF PlainInv
<1>1. Open' /\ OneLeader' /\ Behind' /\ all' = {}
  BY DEF Open, OneLeader, Behind, Flushing, barrier, callVars
<1>2. \A f \in segments', t \in Int :
        (f \in segments => Flushed(f, t)) => Flushed(f, t)'
  <2> SUFFICES ASSUME NEW f \in segments', NEW t \in Int,
                      f \in segments => Flushed(f, t)
               PROVE  Flushed(f, t)'
    OBVIOUS
  <2>1. f \in Files /\ next'[f] \in Int /\ stable'[f] \in Int
    BY IntsNext
  <2>2. next[f] \in Int /\ stable[f] \in Int
    BY <2>1, Ints
  <2> QED
    BY <2>1, <2>2, SMT DEF Flushed
<1>3. Walk'
  <2> SUFFICES ASSUME NEW c \in Callers, NEW f \in segments',
                      pc[c] \in {"flush", "fsync"}
               PROVE  \/ f \in todo[c]
                      \/ Flushed(f, target[c])'
                      \/ /\ pc[c] = "fsync" /\ file[c] = f
                         /\ next'[f] <= cover[c] \/ target[c] < cover[c]
    BY DEF Walk, callVars, Flushed
  <2>1. target[c] \in Int /\ target'[c] = target[c]
    BY Ints DEF callVars
  <2>2. CASE f \in segments /\ next'[f] = next[f]
    BY <1>2, <2>1, <2>2 DEF Walk, Flushed
  <2>3. CASE next'[f] = stable'[f]
    <3>1. next'[f] \in Int
      BY IntsNext
    <3> QED
      BY <2>3, <3>1, SMT DEF Flushed
  <2> QED
    BY <2>2, <2>3
<1>4. \A f \in segments' : Flushed(f, syncDurable)'
  BY <1>2, Ints DEF barrier, Flushed
<1> QED
  BY <1>1, <1>3, <1>4

\* Rolls, rewrites, retention and the checkpoint tick.
LEMMA PlainMaintenance ==
  ASSUME PlainInv, MarkInv', "trim" \notin Races,
         \/ Split \/ checkpointHWTick
         \/ \E f \in Files : cleanSegment(f)
         \/ \E o \in Offset : TruncateBefore(o)
  PROVE  PlainInv'
<1>0. FilesOK /\ MarkInv /\ Open
  BY DEF PlainInv, MarkInv, TypeOK
<1>1. CASE Split
  <2> DEFINE t == next[activeSegment]
  <2>0. t \in 0..MaxOffset + 1 /\ t <= t
    BY <1>0, Numbers, SMT DEF FilesOK
  <2>1. Create(t, t, t, TRUE)
    BY <1>1 DEF Split
  <2> HIDE DEF t
  <2>2. /\ created' = created + 1 /\ created + 1 \notin 1..created
        /\ 1..created \subseteq 1..created'
        /\ next'[created + 1] = t /\ stable'[created + 1] = t
        /\ \A f \in 1..created : next'[f] = next[f] /\ stable'[f] = stable[f]
    BY <1>0, <2>0, <2>1, CreateFacts
  <2>3. /\ NewestOffset' = NewestOffset
        /\ segments' \cap closed' = {} /\ closed' \subseteq 1..created'
    <3>1. /\ activeSegment' = created + 1 /\ closed' = closed
          /\ segments' = segments \cup {created + 1}
      BY <1>1 DEF Split
    <3>2. NewestOffset' = NewestOffset
      BY <2>2, <3>1 DEF NewestOffset, t
    <3> QED
      BY <1>0, <2>2, <3>1, <3>2 DEF Open
  <2>4. \A f \in segments' :
          \/ f \in segments /\ next'[f] = next[f] /\ stable[f] <= stable'[f]
          \/ next'[f] = stable'[f]
    <3>1. segments' = segments \cup {created + 1}
      BY <1>1 DEF Split
    <3>2. \A f \in segments : f \in 1..created /\ stable[f] \in Int
      BY <1>0, Ints
    <3>3. \A f \in segments : next'[f] = next[f] /\ stable[f] <= stable'[f]
      BY <2>2, <3>2, SMT
    <3> QED
      BY <2>2, <3>1, <3>3
  <2> QED
    BY <1>1, <2>3, <2>4, PlainFiles DEF Split
<1>2. CASE checkpointHWTick
  <2>1. \A f \in segments' :
          \/ f \in segments /\ next'[f] = next[f] /\ stable[f] <= stable'[f]
          \/ next'[f] = stable'[f]
    BY <1>0, <1>2, Ints, SMT DEF checkpointHWTick, fileVars, FilesOK
  <2>2. /\ NewestOffset' = NewestOffset
        /\ segments' \cap closed' = {} /\ closed' \subseteq 1..created'
    BY <1>0, <1>2 DEF checkpointHWTick, fileVars, NewestOffset, Open
  <2> QED
    BY <1>2, <2>1, <2>2, PlainFiles DEF checkpointHWTick
<1>3. CASE \E f \in Files : cleanSegment(f)
  <2>1. PICK f \in Files : cleanSegment(f)
    BY <1>3
  <2>2. /\ base[f] \in 0..MaxOffset + 1 /\ next[f] \in 0..MaxOffset + 1
        /\ base[f] <= next[f] /\ next[f] <= next[f]
    BY <1>0, Numbers, SMT DEF FilesOK
  <2>a. Create(base[f], next[f], next[f], FALSE)
    BY <2>1 DEF cleanSegment
  <2>3. /\ created' = created + 1 /\ created + 1 \notin 1..created
        /\ 1..created \subseteq 1..created'
        /\ next'[created + 1] = next[f] /\ stable'[created + 1] = next[f]
        /\ \A g \in 1..created : next'[g] = next[g] /\ stable'[g] = stable[g]
    BY <1>0, <2>2, <2>a, CreateFacts
  <2>4. /\ NewestOffset' = NewestOffset
        /\ segments' \cap closed' = {} /\ closed' \subseteq 1..created'
    <3>1. /\ activeSegment' = activeSegment /\ closed' = closed \cup {f}
          /\ segments' = (segments \ {f}) \cup {created + 1}
          /\ f \in 1..created /\ activeSegment \in 1..created
      BY <1>0, <2>1, Ints DEF cleanSegment, Shut
    <3>2. NewestOffset' = NewestOffset
      BY <2>3, <3>1 DEF NewestOffset
    <3> QED
      BY <1>0, <2>3, <3>1, <3>2 DEF Open
  <2>5. \A g \in segments' :
          \/ g \in segments /\ next'[g] = next[g] /\ stable[g] <= stable'[g]
          \/ next'[g] = stable'[g]
    <3>1. segments' = (segments \ {f}) \cup {created + 1}
      BY <2>1 DEF cleanSegment
    <3>2. \A g \in segments : g \in 1..created /\ stable[g] \in Int
      BY <1>0, Ints
    <3>3. \A g \in segments : next'[g] = next[g] /\ stable[g] <= stable'[g]
      BY <2>3, <3>2, SMT
    <3> QED
      BY <2>3, <3>1, <3>3
  <2> QED
    BY <2>1, <2>4, <2>5, PlainFiles DEF cleanSegment
<1>4. CASE \E o \in Offset : TruncateBefore(o)
  <2>1. PICK o \in Offset : TruncateBefore(o)
    BY <1>4
  <2> DEFINE dead == {f \in segments \ {activeSegment} : next[f] <= o}
  <2>2. segments' = segments \ dead /\ closed' = closed \cup dead
        /\ CreateNothing /\ activeSegment' = activeSegment
    BY <2>1 DEF TruncateBefore, Shut
  <2>3. /\ NewestOffset' = NewestOffset
        /\ segments' \cap closed' = {} /\ closed' \subseteq 1..created'
    BY <1>0, <2>2, Ints DEF CreateNothing, NewestOffset, Open
  <2>4. \A g \in segments' :
          g \in segments /\ next'[g] = next[g] /\ stable[g] <= stable'[g]
    BY <1>0, <2>2, Ints, SMT DEF CreateNothing
  <2> QED
    BY <2>1, <2>3, <2>4, PlainFiles DEF TruncateBefore
<1> QED
  BY <1>1, <1>2, <1>3, <1>4

\* Append moves the tail past everything the barrier has claimed.
LEMMA PlainAppend == PlainInv /\ MarkInv' /\ Append => PlainInv'
<1> SUFFICES ASSUME PlainInv, MarkInv', Append PROVE PlainInv'
  OBVIOUS
<1> USE DEF PlainInv
<1>0. /\ next' = [next EXCEPT ![activeSegment] = next[activeSegment] + 1]
      /\ UNCHANGED <<segments, activeSegment, created, closed, stable>>
      /\ UNCHANGED <<syncDurable, syncFlushing, pc, all, offset, target, todo,
                     file, cover, claim, promised>>
  BY DEF Append, barrier, callVars
<1>1. /\ \A f \in Files : f # activeSegment => next'[f] = next[f]
      /\ next'[activeSegment] = next[activeSegment] + 1
      /\ NewestOffset' = NewestOffset + 1 /\ NewestOffset < next[activeSegment]
  BY <1>0, Ints, SMT DEF MarkInv, TypeOK, FilesOK, NewestOffset
<1>2. Open' /\ OneLeader' /\ all' = {}
  BY <1>0 DEF Open, OneLeader, Flushing
<1>3. Behind'
  <2>1. \A n \in Int : n <= NewestOffset => n <= NewestOffset'
    BY <1>1, Ints, SMT
  <2>2. syncDurable <= NewestOffset'
    BY <2>1, Ints DEF Behind
  <2>3. \A c \in Callers :
          /\ offset[c] <= NewestOffset => offset[c] <= NewestOffset'
          /\ target[c] <= NewestOffset => target[c] <= NewestOffset'
    BY <2>1, Ints
  <2> HIDE DEF NewestOffset
  <2> QED
    BY <1>0, <2>2, <2>3 DEF Behind
<1>4. \A f \in segments, t \in Int :
        t <= NewestOffset /\ Flushed(f, t) => next'[f] <= stable[f] \/ t < stable[f]
  BY <1>1, Ints, SMT DEF Flushed, NewestOffset
<1>5. \A f \in segments : Flushed(f, syncDurable)'
  BY <1>0, <1>4, Ints DEF Behind, Flushed
<1>6. Walk'
  <2> SUFFICES ASSUME NEW c \in Callers, NEW f \in segments,
                      pc[c] \in {"flush", "fsync"}
               PROVE  \/ f \in todo[c]
                      \/ next'[f] <= stable[f] \/ target[c] < stable[f]
                      \/ /\ pc[c] = "fsync" /\ file[c] = f
                         /\ next'[f] <= cover[c] \/ target[c] < cover[c]
    BY <1>0 DEF Walk, Flushed
  <2>1. target[c] \in Int /\ target[c] <= NewestOffset /\ cover[c] \in Int
        /\ f \in Files /\ next[f] \in Int
    BY Ints DEF Behind
  <2>2. next[f] <= cover[c] => next'[f] <= cover[c] \/ target[c] < cover[c]
    BY <1>1, <2>1, Ints, SMT
  <2> QED
    BY <1>4, <2>1, <2>2 DEF Walk
<1> QED
  BY <1>0, <1>2, <1>3, <1>5, <1>6

\* A step that moves no file and no walk keeps what the walks have done.
LEMMA WalkKept ==
  ASSUME PlainInv, UNCHANGED <<segments, next, stable, syncDurable>>,
         \A d \in Callers : pc'[d] \in {"flush", "fsync"} =>
            /\ pc'[d] = pc[d] /\ todo'[d] = todo[d] /\ target'[d] = target[d]
            /\ file'[d] = file[d] /\ cover'[d] = cover[d]
  PROVE  Walk' /\ \A f \in segments' : Flushed(f, syncDurable)'
<1>1. \A f \in segments' : Flushed(f, syncDurable)'
  BY DEF PlainInv, Flushed
<1>2. Walk'
  <2> SUFFICES ASSUME NEW c \in Callers, NEW f \in segments,
                      pc'[c] \in {"flush", "fsync"}
               PROVE  \/ f \in todo'[c]
                      \/ Flushed(f, target'[c])
                      \/ /\ pc'[c] = "fsync" /\ file'[c] = f
                         /\ next[f] <= cover'[c] \/ target'[c] < cover'[c]
    BY DEF Walk, Flushed
  <2> QED
    BY DEF PlainInv, Walk
<1> QED
  BY <1>1, <1>2

\* Calling Sync.
LEMMA PlainSync ==
  ASSUME PlainInv, MarkInv', NEW c \in Callers, NEW o \in Offset, Sync(c, o)
  PROVE  PlainInv'
<1> USE DEF PlainInv
<1>0. /\ pc[c] = "idle" /\ o <= NewestOffset
      /\ pc' = [pc EXCEPT ![c] = "check"] /\ all' = all \ {c}
      /\ offset' = [offset EXCEPT ![c] = o] /\ claim' = [claim EXCEPT ![c] = o]
      /\ UNCHANGED <<segments, activeSegment, created, next, closed, stable>>
      /\ UNCHANGED <<syncDurable, syncFlushing, target, todo, file, cover,
                     promised>>
  BY DEF Sync, Goto, logVars, fileVars, barrier
<1>1. /\ pc \in [Callers -> {"idle", "check", "wait", "lead", "tail", "flush",
                             "fsync", "failed"}]
      /\ offset \in [Callers -> Offset] /\ claim \in [Callers -> TailOffset]
  BY DEF MarkInv, TypeOK, CallsOK
<1>2. Open' /\ all' = {} /\ OneLeader'
  BY <1>0, <1>1 DEF Open, OneLeader, Flushing
<1>3. Behind'
  BY <1>0, <1>1 DEF Behind, NewestOffset
<1>4. Walk' /\ \A f \in segments' : Flushed(f, syncDurable)'
  <2>1. \A d \in Callers : pc'[d] \in {"flush", "fsync"} => pc'[d] = pc[d]
    BY <1>0, <1>1
  <2> QED
    BY <1>0, <2>1, WalkKept
<1> QED
  BY <1>2, <1>3, <1>4

\* The check under syncMu: returning, waiting or leading.
LEMMA PlainEnter ==
  ASSUME PlainInv, MarkInv', NEW c \in Callers, Enter(c)
  PROVE  PlainInv'
<1> USE DEF PlainInv
<1>0. /\ pc[c] = "check"
      /\ UNCHANGED <<segments, activeSegment, created, next, closed, stable>>
      /\ UNCHANGED <<syncDurable, file, cover>>
  BY DEF Enter, logVars, fileVars
<1>1. /\ pc \in [Callers -> {"idle", "check", "wait", "lead", "tail", "flush",
                             "fsync", "failed"}]
      /\ offset \in [Callers -> Offset] /\ claim \in [Callers -> TailOffset]
      /\ target \in [Callers -> TailOffset]
      /\ todo \in [Callers -> SUBSET Files]
  BY DEF MarkInv, TypeOK, CallsOK
<1>2. CASE /\ offset[c] <= syncDurable
           /\ Goto(c, "idle") /\ Promise(c) /\ Leave(c)
           /\ UNCHANGED syncFlushing
  <2>1. /\ pc' = [pc EXCEPT ![c] = "idle"] /\ all' = all \ {c}
        /\ \A d \in Callers : d # c => /\ offset'[d] = offset[d]
                                       /\ claim'[d] = claim[d]
                                       /\ target'[d] = target[d]
                                       /\ todo'[d] = todo[d]
    BY <1>1, <1>2 DEF Goto, Leave
  <2>2. promised' <= syncDurable
    BY <1>0, <1>2, Ints DEF Promise, Max2, Behind
  <2>3. Open' /\ all' = {} /\ OneLeader'
    BY <1>0, <1>1, <1>2, <2>1 DEF Open, OneLeader, Flushing
  <2>4. Behind'
    BY <1>0, <1>1, <2>1, <2>2 DEF Behind, NewestOffset
  <2>5. Walk' /\ \A f \in segments' : Flushed(f, syncDurable)'
    <3>1. \A d \in Callers : pc'[d] \in {"flush", "fsync"} => d # c /\ pc'[d] = pc[d]
      BY <1>1, <2>1
    <3> QED
      BY <1>0, <2>1, <3>1, WalkKept
  <2> QED
    BY <2>3, <2>4, <2>5
<1>3. CASE /\ \/ Goto(c, "wait") /\ UNCHANGED syncFlushing
              \/ ~syncFlushing /\ syncFlushing' = TRUE /\ Goto(c, "lead")
           /\ UNCHANGED <<promised, claim, all, offset, target, todo>>
  <2>1. \/ pc' = [pc EXCEPT ![c] = "wait"] /\ UNCHANGED syncFlushing
        \/ /\ ~syncFlushing /\ syncFlushing' = TRUE
           /\ pc' = [pc EXCEPT ![c] = "lead"]
    BY <1>3 DEF Goto
  <2>2. Open' /\ all' = {}
    BY <1>0, <1>3 DEF Open
  <2>3. OneLeader'
    BY <1>0, <1>1, <1>3, <2>1, SMT DEF OneLeader, Flushing
  <2>4. Behind'
    BY <1>0, <1>1, <1>3, <2>1 DEF Behind, NewestOffset
  <2>5. Walk' /\ \A f \in segments' : Flushed(f, syncDurable)'
    <3>1. \A d \in Callers : pc'[d] \in {"flush", "fsync"} => pc'[d] = pc[d]
      BY <1>1, <2>1
    <3> QED
      BY <1>0, <1>3, <3>1, WalkKept
  <2> QED
    BY <2>2, <2>3, <2>4, <2>5
<1> QED
  BY <1>2, <1>3 DEF Enter

-----------------------------------------------------------------------------
(* The steps of a flush.                                                   *)

\* Reading the tail and snapshotting the list.
LEMMA PlainSnapshot ==
  ASSUME PlainInv, MarkInv', NEW c \in Callers,
         ReadTail(c) \/ segmentsSnapshot(c)
  PROVE  PlainInv'
<1> USE DEF PlainInv
<1>0. /\ UNCHANGED <<segments, activeSegment, created, next, closed, stable>>
      /\ UNCHANGED <<syncDurable, syncFlushing, all, offset, file, cover,
                     claim, promised>>
  BY DEF ReadTail, segmentsSnapshot, logVars, fileVars, barrier
<1>1. /\ pc \in [Callers -> {"idle", "check", "wait", "lead", "tail", "flush",
                             "fsync", "failed"}]
      /\ target \in [Callers -> TailOffset]
      /\ todo \in [Callers -> SUBSET Files]
  BY DEF MarkInv, TypeOK, CallsOK
<1>2. CASE ReadTail(c)
  <2>1. /\ pc[c] = "lead" /\ pc' = [pc EXCEPT ![c] = "tail"]
        /\ target' = [target EXCEPT ![c] = NewestOffset] /\ UNCHANGED todo
    BY <1>2 DEF ReadTail, Goto
  <2>2. Open' /\ all' = {} /\ OneLeader'
    BY <1>0, <1>1, <2>1 DEF Open, OneLeader, Flushing
  <2>3. Behind'
    BY <1>0, <1>1, <2>1, Ints, SMT DEF Behind, NewestOffset
  <2>4. Walk' /\ \A f \in segments' : Flushed(f, syncDurable)'
    <3>1. \A d \in Callers : pc'[d] \in {"flush", "fsync"} =>
            pc'[d] = pc[d] /\ target'[d] = target[d]
      BY <1>1, <2>1
    <3> QED
      BY <1>0, <2>1, <3>1, WalkKept
  <2> QED
    BY <2>2, <2>3, <2>4
<1>3. CASE segmentsSnapshot(c)
  <2>1. /\ pc[c] = "tail" /\ pc' = [pc EXCEPT ![c] = "flush"]
        /\ todo' = [todo EXCEPT ![c] = segments] /\ UNCHANGED target
    BY <1>3 DEF segmentsSnapshot, Goto
  <2>2. Open' /\ all' = {} /\ OneLeader'
    BY <1>0, <1>1, <2>1 DEF Open, OneLeader, Flushing
  <2>3. Behind'
    BY <1>0, <1>1, <2>1 DEF Behind, NewestOffset
  <2>4. Walk' /\ \A f \in segments' : Flushed(f, syncDurable)'
    <3>1. \A d \in Callers : d # c => pc'[d] = pc[d] /\ todo'[d] = todo[d]
      BY <1>1, <2>1
    <3>2. todo'[c] = segments
      BY <1>1, <2>1
    <3>3. \A f \in segments' : Flushed(f, syncDurable)'
      BY <1>0 DEF Flushed
    <3>4. Walk'
      <4> SUFFICES ASSUME NEW d \in Callers, NEW f \in segments,
                          pc'[d] \in {"flush", "fsync"}, d # c
                   PROVE  \/ f \in todo'[d]
                          \/ Flushed(f, target[d])
                          \/ /\ pc'[d] = "fsync" /\ file[d] = f
                             /\ next[f] <= cover[d] \/ target[d] < cover[d]
        BY <1>0, <2>1, <3>2, SMT DEF Walk, Flushed
      <4> QED
        BY <3>1 DEF Walk
    <3> QED
      BY <3>3, <3>4
  <2> QED
    BY <2>2, <2>3, <2>4
<1> QED
  BY <1>2, <1>3

\* One segment of the walk: skipped because it is clean, so flushed, or taken.
LEMMA PlainBeginSync ==
  ASSUME PlainInv, MarkInv', NEW c \in Callers, BeginSync(c)
  PROVE  PlainInv'
<1> USE DEF PlainInv
<1>0. /\ pc[c] = "flush"
      /\ UNCHANGED <<segments, activeSegment, created, next, closed, stable>>
      /\ UNCHANGED <<syncDurable, syncFlushing, all, offset, target, claim,
                     promised>>
  BY DEF BeginSync, fileVars, barrier
<1>1. /\ pc \in [Callers -> {"idle", "check", "wait", "lead", "tail", "flush",
                             "fsync", "failed"}]
      /\ todo \in [Callers -> SUBSET Files]
      /\ file \in [Callers -> Files]
      /\ cover \in [Callers -> 0..MaxOffset + 1]
  BY DEF MarkInv, TypeOK, CallsOK
<1>2. PICK f \in todo[c] :
        /\ todo' = [todo EXCEPT ![c] = @ \ {f}]
        /\ \/ /\ f \in closed \/ f \notin dirtyData
              /\ UNCHANGED <<pc, dirtyData, file, cover>>
           \/ /\ f \notin closed /\ f \in dirtyData
              /\ dirtyData' = dirtyData \ {f}
              /\ file' = [file EXCEPT ![c] = f]
              /\ cover' = [cover EXCEPT ![c] = next[f]]
              /\ Goto(c, "fsync")
  BY DEF BeginSync
<1>3. f \in Files /\ next[f] \in Int
  BY <1>1, Ints
<1>4. CASE /\ f \in closed \/ f \notin dirtyData
           /\ UNCHANGED <<pc, dirtyData, file, cover>>
  <2>1. f \in segments => stable[f] = next[f]
    <3> SUFFICES ASSUME f \in segments PROVE stable[f] = next[f]
      OBVIOUS
    <3>1. f \notin closed /\ f \notin dirtyData
      BY <1>4 DEF Open
    <3>2. ~\E d \in Callers : pc[d] = "fsync"
      <4> SUFFICES ASSUME NEW d \in Callers, pc[d] = "fsync" PROVE FALSE
        OBVIOUS
      <4>1. Flushing(c) /\ Flushing(d)
        BY <1>0 DEF Flushing
      <4> QED
        BY <1>0, <4>1 DEF OneLeader
    <3> QED
      BY <3>1, <3>2 DEF MarkInv, Marks
  <2>2. Open' /\ all' = {} /\ OneLeader'
    BY <1>0, <1>4 DEF Open, OneLeader, Flushing
  <2>3. Behind'
    BY <1>0, <1>4 DEF Behind, NewestOffset
  <2>4. f \in segments => Flushed(f, target[c])
    BY <1>3, <2>1, SMT DEF Flushed
  <2>5. Walk' /\ \A g \in segments' : Flushed(g, syncDurable)'
    BY <1>0, <1>1, <1>2, <1>4, <2>4, SMT DEF Walk, Flushed
  <2> QED
    BY <2>2, <2>3, <2>5
<1>5. CASE /\ file' = [file EXCEPT ![c] = f]
           /\ cover' = [cover EXCEPT ![c] = next[f]]
           /\ pc' = [pc EXCEPT ![c] = "fsync"]
  <2>1. Open' /\ all' = {} /\ OneLeader'
    BY <1>0, <1>1, <1>5 DEF Open, OneLeader, Flushing
  <2>2. Behind'
    BY <1>0, <1>1, <1>5 DEF Behind, NewestOffset
  <2>3. /\ file'[c] = f /\ next[f] <= cover'[c] /\ pc'[c] = "fsync"
        /\ todo'[c] = todo[c] \ {f}
        /\ \A d \in Callers : d # c => /\ file'[d] = file[d] /\ pc'[d] = pc[d]
                                       /\ cover'[d] = cover[d]
                                       /\ todo'[d] = todo[d]
    BY <1>1, <1>2, <1>3, <1>5, SMT
  <2>4. Walk'
    <3> SUFFICES ASSUME NEW d \in Callers, NEW g \in segments,
                        pc'[d] \in {"flush", "fsync"}
                 PROVE  \/ g \in todo'[d]
                        \/ Flushed(g, target[d])
                        \/ /\ pc'[d] = "fsync" /\ file'[d] = g
                           /\ next[g] <= cover'[d] \/ target[d] < cover'[d]
      BY <1>0, SMT DEF Walk, Flushed
    <3>1. CASE d = c
      BY <1>0, <2>3, <3>1 DEF Walk
    <3>2. CASE d # c
      BY <2>3, <3>2 DEF Walk
    <3> QED
      BY <3>1, <3>2
  <2>5. \A g \in segments' : Flushed(g, syncDurable)'
    BY <1>0 DEF Flushed
  <2> QED
    BY <2>1, <2>2, <2>4, <2>5
<1> QED
  BY <1>2, <1>4, <1>5 DEF Goto

\* An fsync returns.
LEMMA PlainFsync ==
  ASSUME PlainInv, MarkInv', NEW c \in Callers, Fsync(c)
  PROVE  PlainInv'
<1> USE DEF PlainInv
<1>0. /\ pc[c] = "fsync"
      /\ UNCHANGED <<segments, activeSegment, created, next, closed>>
      /\ UNCHANGED <<syncDurable, syncFlushing, all, offset, target, todo,
                     claim, promised>>
  BY DEF Fsync, fileVars, barrier
<1>1. /\ pc \in [Callers -> {"idle", "check", "wait", "lead", "tail", "flush",
                             "fsync", "failed"}]
      /\ file \in [Callers -> Files]
      /\ cover \in [Callers -> 0..MaxOffset + 1]
      /\ stable \in [Files -> 0..MaxOffset + 1]
  BY DEF MarkInv, TypeOK, CallsOK, FilesOK
<1>2. /\ pc'[c] = "flush"
      /\ \A d \in Callers : d # c => /\ file'[d] = file[d] /\ pc'[d] = pc[d]
                                     /\ cover'[d] = cover[d]
  BY <1>1 DEF Fsync, EndSync, Goto
<1>3. \A f \in segments : /\ stable'[f] \in Int /\ stable[f] <= stable'[f]
                          /\ (f = file[c] => cover[c] <= stable'[f])
  <2>1. \/ stable' = [stable EXCEPT ![file[c]] = Max2(stable[file[c]], cover[c])]
        \/ file[c] \in closed /\ stable' = stable
    BY DEF Fsync
  <2>2. CASE file[c] \in closed /\ stable' = stable
    <3>1. \A f \in segments : f # file[c] /\ stable[f] \in Int
      BY <2>2, Ints DEF Open
    <3> QED
      BY <2>2, <3>1, SMT
  <2>3. CASE stable' = [stable EXCEPT ![file[c]]
                                        = Max2(stable[file[c]], cover[c])]
    BY <1>1, <2>3, Ints, SMT DEF Max2
  <2> QED
    BY <2>1, <2>2, <2>3
<1>4. Open' /\ all' = {} /\ OneLeader'
  BY <1>0, <1>2 DEF Open, OneLeader, Flushing
<1>5. Behind'
  BY <1>0, <1>2 DEF Behind, NewestOffset
<1>6. \A f \in segments, t \in Int :
        Flushed(f, t) => next[f] <= stable'[f] \/ t < stable'[f]
  <2> SUFFICES ASSUME NEW f \in segments, NEW t \in Int, Flushed(f, t)
               PROVE  next[f] <= stable'[f] \/ t < stable'[f]
    OBVIOUS
  <2>1. /\ next[f] \in Int /\ stable[f] \in Int /\ stable'[f] \in Int
        /\ stable[f] <= stable'[f]
    BY <1>3, Ints
  <2> QED
    BY <2>1, SMT DEF Flushed
<1>7. Walk'
  <2> SUFFICES ASSUME NEW d \in Callers, NEW g \in segments,
                      pc'[d] \in {"flush", "fsync"}
               PROVE  \/ g \in todo[d]
                      \/ next[g] <= stable'[g] \/ target[d] < stable'[g]
                      \/ /\ pc'[d] = "fsync" /\ file'[d] = g
                         /\ next[g] <= cover'[d] \/ target[d] < cover'[d]
    BY <1>0, SMT DEF Walk, Flushed
  <2>0. target[d] \in Int /\ next[g] \in Int /\ stable'[g] \in Int
        /\ cover[d] \in Int
    BY <1>3, Ints
  <2>1. CASE d = c
    BY <1>0, <1>3, <1>6, <2>0, <2>1, SMT DEF Walk
  <2>2. CASE d # c
    BY <1>2, <1>6, <2>0, <2>2 DEF Walk
  <2> QED
    BY <2>1, <2>2
<1>8. \A g \in segments' : Flushed(g, syncDurable)'
  BY <1>0, <1>6, Ints DEF Flushed
<1> QED
  BY <1>4, <1>5, <1>7, <1>8

\* An fsync fails.
LEMMA PlainFsyncFails ==
  ASSUME PlainInv, MarkInv', NEW c \in Callers, FsyncFails(c)
  PROVE  PlainInv'
<1> USE DEF PlainInv
<1>0. /\ pc[c] = "fsync" /\ all' = all \ {c}
      /\ UNCHANGED <<segments, activeSegment, created, next, closed, stable>>
      /\ UNCHANGED <<syncDurable, syncFlushing, promised>>
  BY DEF FsyncFails, fileVars, barrier, Leave
<1>1. /\ pc \in [Callers -> {"idle", "check", "wait", "lead", "tail", "flush",
                             "fsync", "failed"}]
      /\ offset \in [Callers -> Offset] /\ claim \in [Callers -> TailOffset]
      /\ target \in [Callers -> TailOffset]
      /\ todo \in [Callers -> SUBSET Files]
      /\ file \in [Callers -> Files]
      /\ cover \in [Callers -> 0..MaxOffset + 1]
  BY DEF MarkInv, TypeOK, CallsOK
<1>2. /\ pc'[c] = "failed"
      /\ \A d \in Callers : d # c => /\ file'[d] = file[d] /\ pc'[d] = pc[d]
                                     /\ cover'[d] = cover[d]
                                     /\ offset'[d] = offset[d]
                                     /\ claim'[d] = claim[d]
                                     /\ target'[d] = target[d]
                                     /\ todo'[d] = todo[d]
  BY <1>1 DEF FsyncFails, EndSync, Goto, Leave
<1>3. Open' /\ all' = {} /\ OneLeader'
  BY <1>0, <1>2 DEF Open, OneLeader, Flushing
<1>4. Behind'
  BY <1>0, <1>2 DEF Behind, NewestOffset
<1>5. Walk' /\ \A f \in segments' : Flushed(f, syncDurable)'
  BY <1>0, <1>2, SMT DEF Walk, Flushed
<1> QED
  BY <1>3, <1>4, <1>5

\* A flush ends.  A walk that reached its end covers the tail read before it.
LEMMA PlainPublish ==
  ASSUME PlainInv, MarkInv', NEW c \in Callers, Publish(c) \/ PublishError(c)
  PROVE  PlainInv'
<1> USE DEF PlainInv
<1>0. /\ UNCHANGED <<segments, activeSegment, created, next, closed, stable>>
      /\ UNCHANGED <<file, cover>> /\ syncFlushing' = FALSE
      /\ Flushing(c)
  BY DEF Publish, PublishError, logVars, fileVars, callVars, Flushing
<1>1. /\ pc \in [Callers -> {"idle", "check", "wait", "lead", "tail", "flush",
                             "fsync", "failed"}]
      /\ offset \in [Callers -> Offset] /\ claim \in [Callers -> TailOffset]
      /\ target \in [Callers -> TailOffset]
      /\ todo \in [Callers -> SUBSET Files]
  BY DEF MarkInv, TypeOK, CallsOK
<1>2. /\ all' = {} /\ pc'[c] \in {"idle", "check"}
      /\ pc'[c] = "check" => /\ pc[c] = "flush" /\ offset'[c] = offset[c]
                             /\ claim'[c] = claim[c]
      /\ \A d \in Callers : d # c =>
           /\ offset'[d] = offset[d] /\ claim'[d] = claim[d]
           /\ target'[d] = target[d] /\ todo'[d] = todo[d]
           /\ pc'[d] = IF pc[d] = "wait" THEN "check" ELSE pc[d]
  <2>1. CASE PublishError(c)
    BY <1>1, <2>1 DEF PublishError, Wake, callVars
  <2>2. CASE Publish(c)
    BY <1>1, <2>2 DEF Publish, Wake, Leave
  <2> QED
    BY <2>1, <2>2
<1>3. \A d \in Callers : d # c => ~Flushing(d)
  BY <1>0 DEF OneLeader
<1>4. Open' /\ OneLeader'
  <2>1. \A d \in Callers : ~Flushing(d)'
    BY <1>2, <1>3 DEF Flushing
  <2> QED
    BY <1>0, <2>1 DEF Open, OneLeader
<1>5. /\ promised' <= syncDurable' /\ syncDurable' <= NewestOffset
      /\ \A f \in segments : next[f] <= stable[f] \/ syncDurable' < stable[f]
  <2>1. CASE PublishError(c)
    BY <2>1 DEF PublishError, Behind, Flushed
  <2>2. CASE Publish(c)
    <3>1. /\ pc[c] = "flush" /\ todo[c] = {}
          /\ syncDurable' = Max2(syncDurable, target[c])
          /\ offset[c] <= target[c] /\ target[c] <= NewestOffset
      BY <2>2 DEF Publish, Behind
    <3>2. promised' = promised
      <4>1. ~(target[c] < offset[c])
        BY <3>1, Ints, SMTT(30)
      <4> QED
        BY <2>2, <4>1 DEF Publish
    <3>3. \A f \in segments : Flushed(f, target[c])
      BY <3>1 DEF Walk
    <3> QED
      BY <3>1, <3>2, <3>3, Ints, SMTT(30) DEF Behind, Max2, Flushed
  <2> QED
    BY <2>1, <2>2
<1>6. Behind'
  BY <1>0, <1>2, <1>5 DEF Behind, NewestOffset
<1>7. Walk'
  <2>1. \A d \in Callers : pc'[d] \notin {"flush", "fsync"}
    BY <1>2, <1>3 DEF Flushing
  <2> QED
    BY <2>1 DEF Walk
<1>8. \A f \in segments' : Flushed(f, syncDurable)'
  BY <1>0, <1>5 DEF Flushed
<1> QED
  BY <1>2, <1>4, <1>6, <1>7, <1>8

\* Every step that Races = {} allows keeps PlainInv.
LEMMA PlainNext ==
  ASSUME Races = {} PROVE PlainInv /\ [Next]_vars => PlainInv'
<1> SUFFICES ASSUME PlainInv, [Next]_vars PROVE PlainInv'
  OBVIOUS
<1>0. MarkInv'
  BY MarkNext DEF PlainInv
<1>1. CASE UNCHANGED vars
  <2>1. /\ UNCHANGED <<segments, activeSegment, created, next, closed, stable>>
        /\ UNCHANGED <<barrier, pc, callVars, claim, promised>>
    BY <1>1 DEF vars, logVars, fileVars
  <2>2. /\ NewestOffset' = NewestOffset /\ segments' \cap closed' = {}
        /\ closed' \subseteq 1..created'
    BY <2>1 DEF PlainInv, Open, NewestOffset
  <2>3. \A f \in segments' :
          f \in segments /\ next'[f] = next[f] /\ stable[f] <= stable'[f]
    BY <2>1, Ints, SMT DEF PlainInv
  <2> QED
    BY <1>0, <2>1, <2>2, <2>3, PlainFiles
<1>2. CASE Append
  BY <1>0, <1>2, PlainAppend
<1>3. CASE \/ Split \/ checkpointHWTick
           \/ \E f \in Files : cleanSegment(f)
           \/ \E o \in Offset : TruncateBefore(o)
  BY <1>0, <1>3, PlainMaintenance
<1>4. CASE Close \/ \E o \in Offset : Truncate(o)
  BY <1>4 DEF Close, Truncate
<1>5. CASE \E c \in Callers : (\E o \in Offset : Sync(c, o)) \/ SyncAll(c)
  BY <1>0, <1>5, PlainSync DEF SyncAll
<1>6. CASE \E c \in Callers : Step(c)
  <2>1. PICK c \in Callers : Step(c)
    BY <1>6
  <2>2. ~SyncAllCheckpoint(c)
    BY DEF SyncAllCheckpoint, PlainInv
  <2> QED
    BY <1>0, <2>1, <2>2, PlainEnter, PlainSnapshot, PlainBeginSync, PlainFsync,
       PlainFsyncFails, PlainPublish DEF Step
<1> QED
  BY <1>1, <1>2, <1>3, <1>4, <1>5, <1>6 DEF Next, Act

\* The contract of Sync, where nothing of Races runs: with appends, rolls,
\* compaction, whole-segment retention, checkpoints and failing fsyncs running
\* beside any number of callers, a record a returned Sync covers is on stable
\* storage for good.
THEOREM SyncAlwaysKeepsItsPromise == Spec => []SyncKeepsItsPromise
<1> DEFINE Inv == Races = {} => PlainInv
<1>1. Init => Inv
  BY PlainInit
<1>2. Inv /\ [Next]_vars => Inv'
  <2> SUFFICES ASSUME Inv, [Next]_vars, Races' = {} PROVE PlainInv'
    OBVIOUS
  <2>1. Races = {}
    BY DEF Next, vars, Races
  <2> QED
    BY <2>1, PlainNext
<1>3. Inv => SyncKeepsItsPromise
  <2> SUFFICES ASSUME PlainInv, NEW f \in segments, NEW o \in Offset,
                      o <= promised, Holds(f, o)
               PROVE  o < stable[f]
    BY DEF SyncKeepsItsPromise
  <2>1. o \in Int /\ o < next[f] /\ promised <= syncDurable
        /\ Flushed(f, syncDurable)
    BY SMT DEF PlainInv, Behind, Holds, Offset
  <2> QED
    BY <2>1, Ints, SMT DEF PlainInv, Flushed
<1> HIDE DEF Inv
<1> QED
  BY <1>1, <1>2, <1>3, PTL DEF Spec

=============================================================================
